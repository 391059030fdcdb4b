----------------------------- MODULE UsbPrinter -----------------------------
(***************************************************************************)
(* printer.py and its callers: every print of the process goes through     *)
(* open_printer(), which holds one lock around open, body and close, heals *)
(* a wedged device by a port reset and one reopen, and keeps a last-known  *)
(* status.  Callers are the owner's routes of app.py (answered through     *)
(* _safe) and, alike, the queue worker and the briefing thread.            *)
(*                                                                         *)
(* A job is one request.  Its plan is a sequence of sections, one per use  *)
(* of open_printer(); a section is a sequence of pieces, one USB write     *)
(* each.  Rendering comes before the lock and touches nothing shared.      *)
(***************************************************************************)
EXTENDS Integers, Sequences, FiniteSets, SequencesExt

CONSTANTS
  Thread, NoThread,  \* who may print; nobody
  Kinds,             \* the kinds of job of this instance
  MaxJobs,           \* bound: jobs ever begun
  MaxFaults,         \* bound: unplugs, wedges, refused opens, raising bodies
  MaxResets          \* bound: resets the owner asks for

ASSUME ThreadAssumption == NoThread \notin Thread
ASSUME BoundAssumption == MaxJobs \in Nat /\ MaxFaults \in Nat /\ MaxResets \in Nat

VARIABLES
  lock,          \* printer._lock: its holder
  pc,            \* per thread: "idle", "want", "open", "reset", "reopen", "body"
  job,           \* per thread: its job, 0 when idle
  handle,        \* per thread: the enumeration its open handle belongs to, 0 when closed
  dev, epoch,    \* device "on", "wedged" or "gone"; enumerations so far
  ok,            \* _last_ok
  kind, sect, sent,  \* per job: kind, current section, pieces of it written
  answer,        \* per job: what its caller was told
  log,           \* outcomes of the sections, oldest first
  roll,          \* what came out of the printer: pieces with their job
  lamp,          \* job that set the LED colour, Unset or Dark
  struck,        \* jobs that met a fault while they held the lock
  begun, faults, resets

vars == <<lock, pc, job, handle, dev, epoch, ok, kind, sect, sent, answer, log,
          roll, lamp, struck, begun, faults, resets>>
jobVars == <<kind, sect, sent, answer>>
outVars == <<roll, lamp>>

Job   == 1..MaxJobs
Unset == 0
Dark  == -1

-----------------------------------------------------------------------------
(* What the routes send.                                                   *)

\* _send_rich: n images with a cut between them, not after them.
Sheets(n) == [i \in 1..(2 * n - 1) |-> IF i % 2 = 1 THEN "image" ELSE "cut"]

\* footer.
Footer == <<"text", "cut">>

\* _print_body with rich = True; the caller may ask for no cut.
RichBody(n, cut) == IF cut THEN Sheets(n) \o Footer ELSE Sheets(n)

\* _print_sections: back-to-back images, one footer.
SectionsBody(n) == [i \in 1..n |-> "image"] \o Footer

\* print_image: the picture, then a caption of n segments.
ImageBody(n) == <<"image">> \o (IF n = 0 THEN <<>> ELSE <<"text">> \o Sheets(n)) \o Footer

\* print_qr and print_barcode: centre, the code, back to the left.
CodeWrites == <<"command", "image", "command">>
QrBody      == CodeWrites \o Footer
BarcodeBody == CodeWrites \o Footer

\* One markup body each: the widget routes, the lab routes.
WidgetBody == RichBody(1, TRUE)
LabBody    == RichBody(1, TRUE)

\* print_briefing (here with two of its four sections).
BriefingBody == SectionsBody(2)

\* hw_feed, and hw_cut, which feeds first.
FeedBody == <<"feed">>
CutBody  == FeedBody \o <<"cut">>

\* Commands that move no paper: drawer and beeper; reset, self-test, density
\* and code page; the raw console.
DrawerBody  == <<"command">>
ControlBody == <<"command">>
RawBody     == <<"command">>

\* query_status: the request is written, a failed read is swallowed.
Query == <<"command", "read">>

\* hw_status (here with two of its four modes).
StatusBody == Query \o Query

\* hw_led with blink: three sections; the lock is free between the flashes.
BlinkPlan == << <<"lamp">>, <<"dark">>, <<"lamp">> >>

Plan(k) ==
  CASE k = "uncut"   -> <<RichBody(1, FALSE)>>
    [] k = "strip"   -> <<RichBody(2, TRUE)>>
    [] k = "widget"  -> <<WidgetBody>>
    [] k = "lab"     -> <<LabBody>>
    [] k = "briefing" -> <<BriefingBody>>
    [] k = "image"   -> <<ImageBody(0)>>
    [] k = "caption" -> <<ImageBody(1)>>
    [] k = "qr"      -> <<QrBody>>
    [] k = "barcode" -> <<BarcodeBody>>
    [] k = "feed"    -> <<FeedBody>>
    [] k = "cut"     -> <<CutBody>>
    [] k = "drawer"  -> <<DrawerBody>>
    [] k = "control" -> <<ControlBody>>
    [] k = "raw"     -> <<RawBody>>
    [] k = "status"  -> <<StatusBody>>
    [] k = "blink"   -> BlinkPlan

KindName == {"uncut", "strip", "widget", "lab", "briefing", "image", "caption", "qr",
             "barcode", "feed", "cut", "drawer", "control", "raw", "status", "blink"}
ASSUME KindAssumption == Kinds \subseteq KindName

Body(j) == Plan(kind[j])[sect[j]]
OnPaper == {"image", "text", "feed", "cut"}

Outcome == {"done", "noopen", "lost", "refused", "input", "server"}
\* _safe: what the caller is told about a section's outcome.
Reply(o) ==
  CASE o = "done" -> "ok"
    [] o \in {"noopen", "lost", "refused"} -> "printer"
    [] OTHER -> o

TypeOK ==
  /\ lock \in Thread \cup {NoThread}
  /\ pc \in [Thread -> {"idle", "want", "open", "reset", "reopen", "body"}]
  /\ job \in [Thread -> Job \cup {0}] /\ handle \in [Thread -> Nat]
  /\ dev \in {"on", "wedged", "gone"} /\ epoch \in Nat /\ ok \in BOOLEAN
  /\ kind \in [Job -> Kinds \cup {"none"}] /\ sect \in [Job -> Nat] /\ sent \in [Job -> Nat]
  /\ answer \in [Job -> {"none", "ok", "printer", "input", "server"}]
  /\ log \in Seq([job : Job, outcome : Outcome])
  /\ roll \in Seq([job : Job, piece : OnPaper]) /\ lamp \in Job \cup {Unset, Dark}
  /\ struck \in SUBSET Job
  /\ begun \in 0..MaxJobs /\ faults \in 0..MaxFaults /\ resets \in 0..MaxResets

Init ==
  /\ lock = NoThread /\ pc = [t \in Thread |-> "idle"]
  /\ job = [t \in Thread |-> 0] /\ handle = [t \in Thread |-> 0]
  /\ dev = "on" /\ epoch = 1 /\ ok = TRUE
  /\ kind = [j \in Job |-> "none"] /\ sect = [j \in Job |-> 0] /\ sent = [j \in Job |-> 0]
  /\ answer = [j \in Job |-> "none"] /\ log = <<>> /\ roll = <<>> /\ lamp = Unset
  /\ struck = {} /\ begun = 0 /\ faults = 0 /\ resets = 0

-----------------------------------------------------------------------------
(* A job from its request to its answer.                                   *)

\* The handler has checked its input and rendered; next it needs the printer.
Begin(t, k) ==
  /\ pc[t] = "idle" /\ begun < MaxJobs
  /\ LET j == begun + 1 IN
     /\ begun' = j /\ job' = [job EXCEPT ![t] = j]
     /\ kind' = [kind EXCEPT ![j] = k] /\ sect' = [sect EXCEPT ![j] = 1]
  /\ pc' = [pc EXCEPT ![t] = "want"]
  /\ UNCHANGED <<lock, handle, dev, epoch, ok, sent, answer, log, roll, lamp, struck, faults, resets>>

\* Mutant of Free: two jobs at the printer at once.
FreeAlways == TRUE

\* `with _lock`.
Free == lock = NoThread

Acquire(t) ==
  /\ pc[t] = "want" /\ Free
  /\ lock' = t /\ pc' = [pc EXCEPT ![t] = "open"]
  /\ struck' = IF dev = "gone" THEN struck \cup {job[t]} ELSE struck
  /\ UNCHANGED <<job, handle, dev, epoch, ok, kind, sect, sent, answer, log, roll, lamp,
                 begun, faults, resets>>

\* _mark: a completed body proves the printer, an offline error disproves it,
\* an exception of another kind says nothing.
Marked(o) == CASE o = "done" -> TRUE [] o \in {"noopen", "lost"} -> FALSE [] OTHER -> ok

\* hw_led goes on to the next flash only when this one went through.
MoreFlashes(j) == sect[j] < Len(Plan(kind[j]))

\* Mutant of Released: a refused open leaves the lock taken.
ReleasedUnlessRefused(o) == IF o = "refused" THEN lock ELSE NoThread

\* The end of `with _lock`, on every way out of it.
Released(o) == NoThread

\* Leaving open_printer(): mark, close, release, then answer or go on.
Leave(t, o) ==
  LET j == job[t] IN
  /\ lock' = Released(o) /\ ok' = Marked(o)
  /\ log' = Append(log, [job |-> j, outcome |-> o])
  /\ IF o = "done" /\ MoreFlashes(j)
     THEN /\ pc' = [pc EXCEPT ![t] = "want"]
          /\ sect' = [sect EXCEPT ![j] = @ + 1] /\ sent' = [sent EXCEPT ![j] = 0]
          /\ UNCHANGED <<job, answer>>
     ELSE /\ pc' = [pc EXCEPT ![t] = "idle"] /\ job' = [job EXCEPT ![t] = 0]
          /\ answer' = [answer EXCEPT ![j] = Reply(o)]
          /\ UNCHANGED <<sect, sent>>
  /\ handle' = [handle EXCEPT ![t] = 0]
  /\ UNCHANGED <<kind, begun>>

\* _try_open, eager; an offline error goes to the reset.
Open(t) ==
  /\ pc[t] = "open"
  /\ IF dev = "on"
     THEN pc' = [pc EXCEPT ![t] = "body"] /\ handle' = [handle EXCEPT ![t] = epoch]
     ELSE pc' = [pc EXCEPT ![t] = "reset"] /\ UNCHANGED handle
  /\ UNCHANGED <<lock, job, dev, epoch, ok, jobVars, log, outVars, struck, begun, faults, resets>>

\* _try_open raises something that does not look offline: an error, no mark.
OpenRefused(t) ==
  /\ pc[t] = "open" /\ faults < MaxFaults /\ faults' = faults + 1
  /\ struck' = struck \cup {job[t]}
  /\ Leave(t, "refused")
  /\ UNCHANGED <<dev, epoch, outVars, resets>>

\* dev.reset(): the kernel drops and re-enumerates the device.
Enumerated == dev' = "on" /\ epoch' = epoch + 1

\* reset_device() inside open_printer.
Reset(t) ==
  /\ pc[t] = "reset"
  /\ \/ /\ dev = "gone" /\ Leave(t, "noopen") /\ UNCHANGED <<dev, epoch>>
     \/ /\ dev # "gone" /\ Enumerated /\ pc' = [pc EXCEPT ![t] = "reopen"]
        /\ UNCHANGED <<lock, job, handle, ok, jobVars, log, begun>>
  /\ UNCHANGED <<outVars, struck, faults, resets>>

\* The one reopen; whatever it raises counts as offline.
Reopen(t) ==
  /\ pc[t] = "reopen"
  /\ \/ /\ dev = "on" /\ pc' = [pc EXCEPT ![t] = "body"]
        /\ handle' = [handle EXCEPT ![t] = epoch]
        /\ UNCHANGED <<lock, job, ok, jobVars, log, begun>>
     \/ dev # "on" /\ Leave(t, "noopen")
  /\ UNCHANGED <<dev, epoch, outVars, struck, faults, resets>>

\* A write reaches the device only through a handle of this enumeration.
Writable(t) == dev = "on" /\ handle[t] = epoch

Emit(j, p) ==
  /\ roll' = IF p \in OnPaper THEN Append(roll, [job |-> j, piece |-> p]) ELSE roll
  /\ lamp' = CASE p = "lamp" -> j [] p = "dark" -> Dark [] OTHER -> lamp

\* Next write of the body; a swallowed status read succeeds either way.
Send(t) ==
  LET j == job[t] IN
  /\ pc[t] = "body" /\ sent[j] < Len(Body(j))
  /\ LET p == Body(j)[sent[j] + 1] IN
     \/ /\ Writable(t) \/ p = "read"
        /\ Emit(j, p) /\ sent' = [sent EXCEPT ![j] = @ + 1]
        /\ UNCHANGED <<lock, pc, job, handle, ok, kind, sect, answer, log, begun>>
     \/ ~Writable(t) /\ p # "read" /\ Leave(t, "lost") /\ UNCHANGED outVars
  /\ UNCHANGED <<dev, epoch, struck, faults, resets>>

\* The body raises by itself: ValueError, or anything else not offline.
BodyRaises(t) ==
  /\ pc[t] = "body" /\ faults < MaxFaults /\ faults' = faults + 1
  /\ \E o \in {"input", "server"} : Leave(t, o)
  /\ UNCHANGED <<dev, epoch, outVars, struck, resets>>

\* Mutant of Whole: the body is taken for complete one piece early.
WholeButOne(j) == sent[j] + 1 >= Len(Body(j))

Whole(j) == sent[j] = Len(Body(j))

Finish(t) ==
  /\ pc[t] = "body" /\ Whole(job[t])
  /\ Leave(t, "done")
  /\ UNCHANGED <<dev, epoch, outVars, struck, faults, resets>>

-----------------------------------------------------------------------------
(* The cable, the owner's reset, and the whole.                            *)

AtPrinter == {job[t] : t \in {u \in Thread : pc[u] \in {"open", "reset", "reopen", "body"}}}

\* The cable comes out, or the endpoint halts / the handle goes stale.
Fault ==
  /\ faults < MaxFaults /\ faults' = faults + 1
  /\ \/ dev' = "gone" /\ dev # "gone"
     \/ dev' = "wedged" /\ dev = "on"
  /\ struck' = struck \cup AtPrinter
  /\ UNCHANGED <<lock, pc, job, handle, epoch, ok, jobVars, log, outVars, begun, resets>>

Replug ==
  /\ dev = "gone" /\ Enumerated
  /\ UNCHANGED <<lock, pc, job, handle, ok, jobVars, log, outVars, struck, begun, faults, resets>>

\* admin_reset_printer: reset_device() without the lock.  An absent device is
\* a 503 and changes nothing.
OwnerReset ==
  /\ resets < MaxResets /\ resets' = resets + 1
  /\ dev # "gone" /\ Enumerated /\ struck' = struck \cup AtPrinter
  /\ UNCHANGED <<lock, pc, job, handle, ok, jobVars, log, outVars, begun, faults>>

Quiesced ==
  /\ begun = MaxJobs /\ \A t \in Thread : pc[t] = "idle"
  /\ UNCHANGED vars

Step(t) == Acquire(t) \/ Open(t) \/ Reset(t) \/ Reopen(t) \/ Send(t) \/ Finish(t)

Next ==
  \/ \E t \in Thread : Step(t) \/ OpenRefused(t) \/ BodyRaises(t)
                       \/ \E k \in Kinds : Begin(t, k)
  \/ Fault \/ Replug \/ OwnerReset \/ Quiesced

Spec == Init /\ [][Next]_vars

\* A thread that can go on does.  The lock is not queued, but jobs are finite
\* here, so weak fairness is all that is needed of it.
LiveSpec == Spec /\ \A t \in Thread : WF_vars(Step(t))
-----------------------------------------------------------------------------
(* Properties.                                                             *)

OnRoll(j) == {l \in DOMAIN roll : roll[l].job = j}

\* How many of the first n pieces of a body come out on paper.
Paper(body, n) == Cardinality({i \in 1..n : body[i] \in OnPaper})

\* The first n pieces of job j lie on the roll side by side and in order, and
\* nothing else of j does.  (Only a blink has more sections than one, and they
\* print nothing.)
Laid(j, n) ==
  LET body == Plan(kind[j])[1] IN
  \E from \in 0..Len(roll) :
    /\ OnRoll(j) = (from + 1)..(from + Paper(body, n))
    /\ \A i \in 1..n : body[i] \in OnPaper => roll[from + Paper(body, i)].piece = body[i]

\* What a job prints lies on the roll in one piece: no other job's output is
\* between two of its writes, whatever fails and whoever resets the device
\* ("serialized across threads", open_printer).
OnePrintAtATime ==
  \A i, k \in DOMAIN roll : i < k /\ roll[i].job = roll[k].job =>
    \A l \in i..k : roll[l].job = roll[i].job

\* A caller that is told "ok" has its whole print on the roll, each write in
\* order; the error paths of open_printer never end in a 200.
OkMeansWhole ==
  \A j \in Job : answer[j] = "ok" => Laid(j, Len(Plan(kind[j])[1]))

\* One tear-off holds the output of two jobs only where the earlier one asked
\* for no cut or its caller was told that it failed.
MixedReceiptExplained ==
  \A i \in 1..(Len(roll) - 1) :
    LET j == roll[i].job IN
    \/ roll[i].piece = "cut" \/ roll[i + 1].job = j
    \/ Last(Plan(kind[j])[1]) # "cut" \/ answer[j] \notin {"none", "ok"}

Decisive(o) == o \in {"done", "noopen", "lost"}

\* The friends page's banner agrees with the last section that proved or
\* disproved the printer, also after a reset whose reopen failed and whatever
\* other threads did meanwhile: a failure never outlives a later good print.
BannerIsCurrent ==
  LET seen == {i \in DOMAIN log : Decisive(log[i].outcome)} IN
  ok <=> \A i \in seen : (\A k \in seen : k <= i) => log[i].outcome = "done"

\* A device that was wedged before a job took the lock is healed: that job is
\* told "printer" only if the device was gone, or was unplugged, wedged,
\* refused or reset by the owner while the job held the lock.
WedgeIsHealed == \A j \in Job : answer[j] = "printer" => j \in struck

\* A blink ends dark only if the owner was told that it failed, however the
\* flashes of several blinks interleave between their three sections.
LedNotLeftDark ==
  lamp = Dark => \E j \in Job : kind[j] = "blink" /\ answer[j] # "ok"

\* Every job that was begun is answered: no exit of open_printer keeps the
\* lock, and no fault leaves a caller waiting.
EveryJobAnswered == \A j \in Job : kind[j] # "none" ~> answer[j] # "none"

\* The printer as its callers see it.
Service == INSTANCE ReceiptPrinter WITH
  holder <- IF lock = NoThread THEN 0 ELSE job[lock]

\* open_printer with its resets, reopens and error paths implements a printer
\* that serves one job at a time and always lets go of it.
ServiceSpec == Service!Spec
=============================================================================
