---------------------------- MODULE ScriptFonts ----------------------------
(***************************************************************************)
(* What request threads share while they rasterise: the font cache of      *)
(* features/render.py and its lazily loaded right-to-left libraries.       *)
(* Neither has a lock; every read and write of them is a step of its own.  *)
(***************************************************************************)
EXTENDS Integers, Sequences, FiniteSets

CONSTANTS
  Thread,        \* threads that render, the print worker among them
  Script,        \* scripts with fonts of their own, "rtl" among them
  Candidates,    \* font files of each script's kind, in order of preference
  Base,          \* the font every machine has
  Installed,     \* libraries of this machine, of {"reshaper", "bidi"}
  Usable,        \* font files this machine can load
  MaxRuns        \* bound: runs of text rendered

Libraries == {"reshaper", "bidi"}
Unknown == "unknown"    \* no entry in the cache
None    == "none"

\* What the constants may be.
FontAssumption ==
  /\ Installed \subseteq Libraries /\ MaxRuns \in Nat
  /\ \A s \in Script :
       /\ Len(Candidates[s]) \in Nat /\ DOMAIN Candidates[s] = 1..Len(Candidates[s])
       /\ \A i \in DOMAIN Candidates[s] : Candidates[s][i] \notin {Base, Unknown, None}

VARIABLES
  cache,      \* _font_cache
  loaded,     \* _bidi_loaded
  functions,  \* the libraries' functions that have been set
  pc, run,    \* per thread: next step, and the script of its run
  try,        \* per thread: the candidate it looks at
  shaped,     \* per thread: what has been applied to its run
  drawn,      \* runs that were drawn: [script, font, shaped]
  count

vars == <<cache, loaded, functions, pc, run, try, shaped, drawn, count>>

Init ==
  /\ cache = [s \in Script |-> Unknown] /\ loaded = FALSE /\ functions = {}
  /\ pc = [t \in Thread |-> "idle"] /\ run = [t \in Thread |-> None]
  /\ try = [t \in Thread |-> 1] /\ shaped = [t \in Thread |-> {}]
  /\ drawn = {} /\ count = 0

Goto(t, next) == pc' = [pc EXCEPT ![t] = next]

\* A run of text of one script; _shape_bidi leaves others than rtl alone.
Begin(t) ==
  /\ pc[t] = "idle" /\ count < MaxRuns /\ count' = count + 1
  /\ \E s \in Script :
       run' = [run EXCEPT ![t] = s] /\ Goto(t, IF s = "rtl" THEN "loaded?" ELSE "cached?")
  /\ shaped' = [shaped EXCEPT ![t] = {}] /\ try' = [try EXCEPT ![t] = 1]
  /\ UNCHANGED <<cache, loaded, functions, drawn>>

-----------------------------------------------------------------------------
(* Right to left                                                           *)

\* _load_bidi: return if someone has been here ...
AskLoaded(t) ==
  /\ pc[t] = "loaded?" /\ Goto(t, IF loaded THEN "shape" ELSE "claim")
  /\ UNCHANGED <<cache, loaded, functions, run, try, shaped, drawn, count>>

\* ... else say so, before anything is imported.
Claim(t) ==
  /\ pc[t] = "claim" /\ loaded' = TRUE /\ Goto(t, "reshaper")
  /\ UNCHANGED <<cache, functions, run, try, shaped, drawn, count>>

AfterImport(lib) == IF lib = "reshaper" THEN "bidi" ELSE "shape"

Import(t, lib) ==
  /\ pc[t] = lib /\ functions' = functions \cup ({lib} \cap Installed)
  /\ Goto(t, AfterImport(lib))
  /\ UNCHANGED <<cache, loaded, run, try, shaped, drawn, count>>

\* _shape_bidi: whatever functions are there are applied, one after the other.
Shape(t) ==
  /\ pc[t] = "shape" /\ shaped' = [shaped EXCEPT ![t] = @ \cup (functions \cap {"reshaper"})]
  /\ Goto(t, "reorder") /\ UNCHANGED <<cache, loaded, functions, run, try, drawn, count>>

Reorder(t) ==
  /\ pc[t] = "reorder" /\ shaped' = [shaped EXCEPT ![t] = @ \cup (functions \cap {"bidi"})]
  /\ Goto(t, "cached?") /\ UNCHANGED <<cache, loaded, functions, run, try, drawn, count>>

-----------------------------------------------------------------------------
(* Fonts                                                                   *)

\* _font_for falls back to the base font when a script has none.
Draw(t, font) ==
  /\ drawn' = drawn \cup {[script |-> run[t], shaped |-> shaped[t],
                           font |-> IF font = None THEN Base ELSE font]}
  /\ Goto(t, "idle")

\* _font_try reads the cache ...
AskCache(t) ==
  /\ pc[t] = "cached?"
  /\ LET found == cache[run[t]] IN
     IF found # Unknown THEN Draw(t, found) ELSE Goto(t, "try") /\ UNCHANGED drawn
  /\ UNCHANGED <<cache, loaded, functions, run, try, shaped, count>>

\* Mutant of Stored: a miss is recorded before the candidates are tried.
StoredEarly(s, i) == IF i = 1 THEN [cache EXCEPT ![s] = None] ELSE cache

\* What the cache holds after a candidate that could not be loaded.
Stored(s, i) == cache

\* ... and goes through the candidates: the first that loads is stored.
Try(t) ==
  LET s == run[t] IN
  /\ pc[t] = "try"
  /\ IF try[t] > Len(Candidates[s])
     THEN cache' = [cache EXCEPT ![s] = None] /\ Draw(t, None) /\ UNCHANGED try
     ELSE LET file == Candidates[s][try[t]] IN
          IF file \in Usable
          THEN cache' = [cache EXCEPT ![s] = file] /\ Draw(t, file) /\ UNCHANGED try
          ELSE /\ try' = [try EXCEPT ![t] = @ + 1] /\ cache' = Stored(s, try[t])
               /\ UNCHANGED <<pc, drawn>>
  /\ UNCHANGED <<loaded, functions, run, shaped, count>>

Quiesced == count = MaxRuns /\ (\A t \in Thread : pc[t] = "idle") /\ UNCHANGED vars

Render(t) ==
  \/ Begin(t) \/ AskLoaded(t) \/ Claim(t) \/ (\E lib \in Libraries : Import(t, lib))
  \/ Shape(t) \/ Reorder(t) \/ AskCache(t) \/ Try(t)

Next == (\E t \in Thread : Render(t)) \/ Quiesced

Spec == Init /\ [][Next]_vars

-----------------------------------------------------------------------------
(* Properties                                                              *)

\* The font a run is drawn in: its script's first usable candidate.
Expected(s) ==
  LET usable == {i \in DOMAIN Candidates[s] : Candidates[s][i] \in Usable} IN
  IF usable = {} THEN Base ELSE Candidates[s][CHOOSE i \in usable : \A j \in usable : i <= j]

\* However many threads fill the cache at once, every run is drawn in the
\* first font of its script that this machine has.
FontsAgree == \A d \in drawn : d.font = Expected(d.script)

\* When no thread is loading, the functions that are set are those installed.
LoadingSettles ==
  loaded /\ (\A t \in Thread : pc[t] \notin {"claim"} \cup Libraries) => functions = Installed
=============================================================================
