--------------------------- MODULE FriendsHistory ---------------------------
(***************************************************************************)
(* "Your prints" on the friends page: the rows the server lists for a      *)
(* friend, and static/friends.js that loads, polls and cancels them, with  *)
(* answers that may overtake each other.  Rows move as PrintQueue says;    *)
(* deferrals by quiet hours are left out.                                  *)
(***************************************************************************)
EXTENDS Integers, FiniteSets, Sequences

CONSTANTS
  Limit,       \* rows in an answer
  Cap,         \* PER_USER_CAP on capsules that wait
  MaySend, MayCapsule, MayFail,   \* does the friend send, save capsules; may a load fail?
  MaxRows,     \* bound: messages sent
  MaxLoads     \* bound: loads in flight

\* What the constants may be.
HistoryAssumption ==
  /\ {Limit, Cap, MaxRows, MaxLoads} \subseteq Nat \ {0} /\ Cap <= Limit
  /\ {MaySend, MayCapsule, MayFail} \subseteq BOOLEAN

VARIABLES
  rows,       \* status of the friend's messages, oldest first
  capsule,    \* those that were saved as capsules
  sending,    \* a submission: "no", "asked" or "saved"
  cancelling, \* the capsule a click cancels: the set of one [id, done], or {}
  list,       \* what the page shows: [id, status]
  loads,      \* in flight: [id, done, ok, gives]
  timer,      \* historyTimer is set
  orphans,    \* timers that are set, and that historyTimer no longer names
  focus       \* a row of the history has the focus

server == <<rows, capsule>>
page   == <<sending, cancelling, list, timer, orphans, focus>>
vars   == <<server, page, loads>>

Init ==
  /\ rows = <<>> /\ capsule = {} /\ sending = "no" /\ cancelling = {} /\ list = {}
  /\ loads = {} /\ timer = FALSE /\ orphans = 0 /\ focus = FALSE

-----------------------------------------------------------------------------
(* The server                                                              *)

\* Mutant of Before: the newest come first, whatever they are.
BeforeNewest(a, b) == a > b

\* list_messages_for_user: pending capsules first, then the newest.
Before(a, b) ==
  \/ rows[a] = "scheduled" /\ rows[b] # "scheduled"
  \/ (rows[a] = "scheduled") = (rows[b] = "scheduled") /\ a > b

Page == {m \in DOMAIN rows : Cardinality({a \in DOMAIN rows : Before(a, m)}) < Limit}

Waiting == {m \in capsule : rows[m] \in {"scheduled", "queued"}}

\* A submission: queued, or saved if there is room for another capsule.
ServeSend ==
  /\ sending = "asked" /\ UNCHANGED <<cancelling, list, timer, orphans, focus, loads>>
  /\ \/ MaySend /\ rows' = Append(rows, "queued") /\ sending' = "saved" /\ UNCHANGED capsule
     \/ /\ MayCapsule /\ Cardinality(Waiting) < Cap
        /\ rows' = Append(rows, "scheduled") /\ capsule' = capsule \cup {Len(rows) + 1} /\ sending' = "saved"
     \/ sending' = "no" /\ UNCHANGED server

\* The dispatcher releases a capsule; the worker prints a message, or cannot.
Dispatch ==
  \E m \in DOMAIN rows : rows[m] = "scheduled" /\ rows' = [rows EXCEPT ![m] = "queued"] /\ UNCHANGED <<capsule, page, loads>>
Work ==
  \E m \in DOMAIN rows, to \in {"printed", "failed"} :
    rows[m] = "queued" /\ rows' = [rows EXCEPT ![m] = to] /\ UNCHANGED <<capsule, page, loads>>

\* cancel_scheduled
ServeCancel ==
  \E c \in cancelling :
    /\ ~c.done /\ cancelling' = {[c EXCEPT !.done = TRUE]}
    /\ rows' = IF rows[c.id] = "scheduled" THEN [rows EXCEPT ![c.id] = "cancelled"] ELSE rows
    /\ UNCHANGED <<capsule, sending, list, timer, orphans, focus, loads>>

ServeLoad ==
  \E r \in loads, ok \in BOOLEAN :
    /\ ~r.done /\ (ok \/ MayFail)
    /\ loads' = (loads \ {r}) \cup
                  {[r EXCEPT !.done = TRUE, !.ok = ok,
                             !.gives = IF ok THEN {[id |-> m, status |-> rows[m]] : m \in Page} ELSE {}]}
    /\ UNCHANGED <<server, page>>

-----------------------------------------------------------------------------
(* The page                                                                *)

\* loadHistory: the timer it knows is cleared, and a request is on its way.
Load ==
  /\ Cardinality(loads) < MaxLoads
  /\ \E id \in 1..MaxLoads :
       /\ \A r \in loads : r.id # id
       /\ loads' = loads \cup {[id |-> id, done |-> FALSE, ok |-> FALSE, gives |-> {}]}
  /\ timer' = FALSE

ClickRefresh == loads = {} /\ Load /\ UNCHANGED <<server, sending, cancelling, list, orphans, focus>>

ClickSend ==
  /\ sending = "no" /\ Len(rows) < MaxRows /\ sending' = "asked"
  /\ UNCHANGED <<server, cancelling, list, loads, timer, orphans, focus>>

\* celebrateQueued
AnswerSend ==
  /\ sending = "saved" /\ sending' = "no" /\ Load
  /\ UNCHANGED <<server, cancelling, list, orphans, focus>>

ClickCancel ==
  /\ cancelling = {}
  /\ \E row \in list : row.status = "scheduled" /\ cancelling' = {[id |-> row.id, done |-> FALSE]}
  /\ UNCHANGED <<server, sending, list, loads, timer, orphans, focus>>

AnswerCancel ==
  /\ \E c \in cancelling : c.done
  /\ cancelling' = {} /\ focus' = FALSE /\ Load /\ UNCHANGED <<server, sending, list, orphans>>

\* pollHistory: a timer that was still set goes on without a name.
Poll == timer' = TRUE /\ orphans' = orphans + IF timer THEN 1 ELSE 0

Unfinished(gives) == \E row \in gives : row.status \in {"scheduled", "queued"}

\* The answer of a load, whichever it is; a failure empties the list.
AnswerLoad ==
  /\ \E r \in loads :
       /\ r.done /\ loads' = loads \ {r} /\ list' = r.gives
       /\ IF Unfinished(r.gives) THEN Poll ELSE UNCHANGED <<timer, orphans>>
  /\ UNCHANGED <<server, sending, cancelling, focus>>

\* The timer that fired is not set any more: pollHistory sets another one.
PollAgain == timer' = TRUE /\ UNCHANGED orphans

\* A timer fires: not while someone is in the list.
TimerFires ==
  /\ timer /\ UNCHANGED <<server, sending, cancelling, list, focus>>
  /\ IF focus THEN PollAgain /\ UNCHANGED loads ELSE Load /\ UNCHANGED orphans

\* So does one that was forgotten; what it starts clears the other.
OrphanFires ==
  /\ orphans > 0 /\ UNCHANGED <<server, sending, cancelling, list, focus>>
  /\ IF focus
     THEN IF timer THEN UNCHANGED <<timer, orphans, loads>> ELSE timer' = TRUE /\ orphans' = orphans - 1 /\ UNCHANGED loads
     ELSE Load /\ orphans' = orphans - 1

Focus == list # {} /\ ~focus /\ focus' = TRUE /\ UNCHANGED <<server, sending, cancelling, list, loads, timer, orphans>>

\* A list that is emptied takes the focus with it.
Blur == focus /\ focus' = FALSE /\ UNCHANGED <<server, sending, cancelling, list, loads, timer, orphans>>

Rest == UNCHANGED vars

Next ==
  \/ ServeSend \/ Dispatch \/ Work \/ ServeCancel \/ ServeLoad \/ ClickRefresh \/ ClickSend \/ AnswerSend
  \/ ClickCancel \/ AnswerCancel \/ AnswerLoad \/ TimerFires \/ OrphanFires \/ Focus \/ Blur \/ Rest

Spec == Init /\ [][Next]_vars

\* Messages are printed, requests answered and timers fire; a friend who is in
\* the list leaves it for long enough that a timer finds it so.
FairSpec ==
  /\ Spec /\ WF_vars(Dispatch) /\ WF_vars(Work)
  /\ WF_vars(ServeSend) /\ WF_vars(ServeCancel) /\ WF_vars(ServeLoad)
  /\ WF_vars(AnswerSend) /\ WF_vars(AnswerCancel) /\ WF_vars(AnswerLoad)
  /\ SF_vars(TimerFires /\ ~focus) /\ SF_vars(OrphanFires /\ ~focus) /\ WF_vars(Blur)

-----------------------------------------------------------------------------
(* Properties                                                              *)

\* "50 newer prints cannot hide a capsule's cancel action": whatever was sent
\* since, every capsule that waits is in the answer.
CapsulesListed == {m \in DOMAIN rows : rows[m] = "scheduled"} \subseteq Page

\* A page that shows a message as queued goes on asking until it shows
\* otherwise, whatever is clicked, focused or overtaken in between.
OutcomeShown ==
  \A m \in 1..MaxRows : [id |-> m, status |-> "queued"] \in list ~> [id |-> m, status |-> "queued"] \notin list
=============================================================================
