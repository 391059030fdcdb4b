------------------------------ MODULE PrintLog ------------------------------
(***************************************************************************)
(* The owner's admin tab: the banner of failed prints with its retries,    *)
(* and the print log that must not spoil what has not been delivered, from *)
(* the clicks in static/app.js to the rows they read.                      *)
(*                                                                         *)
(* Messages move as the print queue moves them; a log's limit of 20 rows   *)
(* is left out.                                                            *)
(***************************************************************************)
EXTENDS Integers, FiniteSets

CONSTANTS
  Message,
  Failing,       \* kinds of requests that may fail on the way
  MaxClicks,     \* bound: what the owner does
  MaxInFlight    \* bound: requests at once

\* What the constants may be.
PrintLogAssumption ==
  Failing \subseteq {"list", "failed", "reveal", "retry"} /\ {MaxClicks, MaxInFlight} \subseteq Nat

Delivered == {"printed", "failed"}

VARIABLES
  status,       \* of each message's row
  clicks,
  onAdmin,      \* state.activePane = "admin"
  hidden,       \* document.hidden
  open,         \* the log's <details>
  toggled,      \* its toggle event is due
  revision,     \* printLogRevision
  include,      \* includeUndelivered
  confirm,      \* the confirmation is shown
  list,         \* the log's cards: [msg, status, revision, shown, busy]
  failedRev,    \* failedPrintsRevision
  retrying,     \* retryingPrint
  banner,       \* the failed prints the banner shows
  requests      \* in flight: [what, msg, include, revision, done, ok, gives]

logVars == <<open, toggled, revision, include, confirm, list>>
errVars == <<failedRev, retrying, banner>>
vars    == <<status, clicks, onAdmin, hidden, logVars, errVars, requests>>

Init ==
  /\ status \in [Message -> {"scheduled", "failed"}] /\ clicks = 0
  /\ onAdmin = FALSE /\ hidden = FALSE /\ open = FALSE /\ toggled = FALSE
  /\ revision = 0 /\ include = FALSE /\ confirm = FALSE /\ list = {}
  /\ failedRev = 0 /\ retrying = {} /\ banner = {} /\ requests = {}

-----------------------------------------------------------------------------
(* The server                                                              *)

\* The queue's worker, the dispatcher and the friend move their rows along.
RowMoves ==
  /\ \E m \in Message :
       \E to \in (IF status[m] = "scheduled" THEN {"queued", "cancelled"}
                  ELSE IF status[m] = "queued" THEN Delivered ELSE {}) :
         status' = [status EXCEPT ![m] = to]
  /\ UNCHANGED <<clicks, onAdmin, hidden, logVars, errVars, requests>>

\* list_message_summaries and admin_reveal_message: what the owner may see.
Visible(m, included) == included \/ status[m] \in Delivered

Row(m) == [msg |-> m, status |-> status[m]]

\* What a request finds when the server gets to it; a retry of a row that is no
\* longer failed, or whose receipt does not print, is refused.
Found(r) ==
  CASE r.what = "list"   -> {Row(m) : m \in {m \in Message : Visible(m, r.include)}}
    [] r.what = "failed" -> {Row(m) : m \in {m \in Message : status[m] = "failed"}}
    [] r.what = "reveal" -> {Row(m) : m \in {m \in r.msg : Visible(m, r.include)}}
    [] r.what = "retry"  -> {Row(m) : m \in {m \in r.msg : status[m] = "failed"}}

Replied(r, works) == (requests \ {r}) \cup {[r EXCEPT !.done = TRUE, !.ok = works, !.gives = IF works THEN Found(r) ELSE {}]}

Serve ==
  \E r \in requests, works \in BOOLEAN :
    /\ ~r.done /\ (works \/ r.what \in Failing)
    /\ requests' = Replied(r, works)
    /\ status' = [m \in Message |-> IF works /\ r.what = "retry" /\ m \in r.msg /\ status[m] = "failed"
                                     THEN "printed" ELSE status[m]]
    /\ UNCHANGED <<clicks, onAdmin, hidden, logVars, errVars>>

-----------------------------------------------------------------------------
(* The console's functions, on the requests that are in flight             *)

Request(what, msg, included, rev) ==
  [what |-> what, msg |-> msg, include |-> included, revision |-> rev,
   done |-> FALSE, ok |-> FALSE, gives |-> {}]

\* printLogAbort: the log's own requests never answer.
Unaborted(rs) == {r \in rs : r.what \notin {"list", "reveal"}}

PrintLogIsCurrent(rev) == rev = revision /\ onAdmin /\ open /\ ~hidden

\* setUndeliveredScope
SetScope(included) == include' = included /\ confirm' = FALSE

\* clearPrintLog
Clear(rs) ==
  revision' = revision + 1 /\ requests' = Unaborted(rs) /\ list' = {} /\ SetScope(FALSE)

\* Mutant of ClosePrintLog: the log is folded, and what it held stays there.
ClosePrintLogOnly(rs) ==
  open' = FALSE /\ toggled' = FALSE /\ requests' = rs /\ UNCHANGED <<revision, list, include, confirm>>

\* closePrintLog: if the log was open, its toggle event follows.
ClosePrintLog(rs) == open' = FALSE /\ toggled' = (open \/ toggled) /\ Clear(rs)

\* loadMessages, when the log is on view: the list is emptied at once.
LoadMessages(rs, included) ==
  /\ revision' = revision + 1 /\ list' = {}
  /\ requests' = Unaborted(rs) \cup {Request("list", {}, included, revision + 1)}

\* loadFailedMessages: one more request, unless a retry is under way.
WithFailed(rs) == IF retrying # {} THEN rs ELSE rs \cup {Request("failed", {}, FALSE, failedRev + 1)}
FailedRevNext  == IF retrying # {} THEN failedRev ELSE failedRev + 1

-----------------------------------------------------------------------------
(* What the owner does.  The browser delivers a toggle event before the    *)
(* next click.                                                             *)

Click ==
  /\ clicks < MaxClicks /\ clicks' = clicks + 1 /\ ~toggled
  /\ Cardinality(requests) < MaxInFlight

SwitchTab ==
  /\ Click /\ ~hidden /\ onAdmin' = ~onAdmin /\ UNCHANGED <<status, hidden, retrying, banner>>
  /\ IF onAdmin THEN ClosePrintLog(requests) /\ UNCHANGED failedRev
     ELSE requests' = WithFailed(requests) /\ failedRev' = FailedRevNext /\ UNCHANGED logVars

\* visibilitychange; pagehide does no more than its first half.
HidePage ==
  /\ Click /\ ~hidden /\ hidden' = TRUE /\ ClosePrintLog(requests)
  /\ UNCHANGED <<status, onAdmin, errVars>>
ShowPage ==
  /\ Click /\ hidden /\ hidden' = FALSE /\ UNCHANGED <<status, onAdmin, logVars, retrying, banner>>
  /\ IF onAdmin THEN requests' = WithFailed(requests) /\ failedRev' = FailedRevNext
     ELSE UNCHANGED <<requests, failedRev>>

AtAdmin == Click /\ onAdmin /\ ~hidden
InLog   == AtAdmin /\ open

FoldLog ==
  /\ AtAdmin /\ open' = ~open /\ toggled' = TRUE
  /\ UNCHANGED <<status, onAdmin, hidden, revision, include, confirm, list, errVars, requests>>

ToggleEvent ==
  /\ toggled /\ toggled' = FALSE /\ UNCHANGED <<status, clicks, onAdmin, hidden, open, errVars>>
  /\ IF open THEN LoadMessages(requests, include) /\ UNCHANGED <<include, confirm>> ELSE Clear(requests)

RefreshLog ==
  /\ InLog /\ LoadMessages(requests, include)
  /\ UNCHANGED <<status, onAdmin, hidden, open, toggled, include, confirm, errVars>>

HideUndelivered == SetScope(FALSE) /\ LoadMessages(requests, FALSE)

ClickInclude ==
  /\ InLog /\ UNCHANGED <<status, onAdmin, hidden, open, toggled, errVars>>
  /\ IF include THEN HideUndelivered
     ELSE confirm' = ~confirm /\ UNCHANGED <<include, revision, list, requests>>

KeepSurprises ==
  /\ InLog /\ confirm /\ confirm' = FALSE
  /\ UNCHANGED <<status, onAdmin, hidden, open, toggled, include, revision, list, errVars, requests>>

ShowUndelivered ==
  /\ InLog /\ confirm /\ SetScope(TRUE) /\ LoadMessages(requests, TRUE)
  /\ UNCHANGED <<status, onAdmin, hidden, open, toggled, errVars>>

With(card, shown, busy) == (list \ {card}) \cup {[card EXCEPT !.shown = shown, !.busy = busy]}

\* "reveal content" and "hide content"
ClickReveal ==
  /\ InLog /\ UNCHANGED <<status, onAdmin, hidden, open, toggled, revision, include, confirm, errVars>>
  /\ \E card \in list :
       /\ ~card.busy /\ PrintLogIsCurrent(card.revision)
       /\ IF card.shown # {} THEN list' = With(card, {}, FALSE) /\ UNCHANGED requests
          ELSE /\ list' = With(card, {}, TRUE)
               /\ requests' = requests \cup {Request("reveal", {card.msg}, include, revision)}

RefreshFailed ==
  /\ AtAdmin /\ requests' = WithFailed(requests) /\ failedRev' = FailedRevNext
  /\ UNCHANGED <<status, onAdmin, hidden, logVars, retrying, banner>>

MayRetry(m) == retrying = {}

\* A failed print's button, in the banner or in the log.
ClickRetry ==
  /\ AtAdmin /\ UNCHANGED <<status, onAdmin, hidden, logVars, banner>>
  /\ \E m \in banner \cup {card.msg : card \in {c \in list : open /\ c.status = "failed"}} :
       /\ MayRetry(m) /\ retrying' = {m} /\ failedRev' = failedRev + 1
       /\ requests' = requests \cup {Request("retry", {m}, FALSE, 0)}

-----------------------------------------------------------------------------
(* Answers                                                                 *)

Answered(what) == {r \in requests : r.done /\ r.what = what}

AnswerList ==
  /\ \E r \in Answered("list") :
       /\ requests' = requests \ {r}
       /\ list' = IF r.ok /\ PrintLogIsCurrent(r.revision)
                  THEN {[msg |-> row.msg, status |-> row.status, revision |-> r.revision,
                         shown |-> {}, busy |-> FALSE] : row \in r.gives}
                  ELSE list
  /\ UNCHANGED <<status, clicks, onAdmin, hidden, open, toggled, revision, include, confirm, errVars>>

\* The contents are put into the card that was clicked; a refusal is a toast.
AnswerReveal ==
  /\ \E r \in Answered("reveal") :
       /\ requests' = requests \ {r}
       /\ list' = {IF card.msg \in r.msg /\ card.revision = r.revision
                   THEN [card EXCEPT !.busy = FALSE,
                                     !.shown = IF PrintLogIsCurrent(r.revision) THEN r.gives ELSE @]
                   ELSE card : card \in list}
  /\ UNCHANGED <<status, clicks, onAdmin, hidden, open, toggled, revision, include, confirm, errVars>>

IsNewest(rev) == rev = failedRev

AnswerFailed ==
  /\ \E r \in Answered("failed") :
       /\ requests' = requests \ {r}
       /\ banner' = IF r.ok /\ IsNewest(r.revision) THEN {row.msg : row \in r.gives} ELSE banner
  /\ UNCHANGED <<status, clicks, onAdmin, hidden, logVars, failedRev, retrying>>

\* The retry ends: both lists are loaded again, the log only if it is on view.
AnswerRetry ==
  /\ \E r \in Answered("retry") :
       LET rest == (requests \ {r}) \cup {Request("failed", {}, FALSE, failedRev + 1)}
       IN /\ retrying' = {} /\ failedRev' = failedRev + 1
          /\ IF PrintLogIsCurrent(revision) THEN LoadMessages(rest, include)
             ELSE requests' = rest /\ UNCHANGED <<revision, list>>
  /\ UNCHANGED <<status, clicks, onAdmin, hidden, open, toggled, include, confirm, banner>>

Quiet == requests = {} /\ ~toggled /\ UNCHANGED vars

Next ==
  \/ RowMoves \/ Serve \/ SwitchTab \/ HidePage \/ ShowPage \/ FoldLog \/ ToggleEvent \/ RefreshLog
  \/ ClickInclude \/ KeepSurprises \/ ShowUndelivered \/ ClickReveal \/ RefreshFailed \/ ClickRetry
  \/ AnswerList \/ AnswerReveal \/ AnswerFailed \/ AnswerRetry \/ Quiet

Spec == Init /\ [][Next]_vars

-----------------------------------------------------------------------------
(* Properties                                                              *)

\* "Closing the log, switching console tabs or leaving the browser page clears
\* revealed contents and resets that opt-in", and no slow answer brings it back.
\* The owner's own fold takes effect when its toggle event does.
NothingBehind == ~(onAdmin /\ open /\ ~hidden) /\ ~toggled => list = {} /\ ~include /\ ~confirm

\* "Undelivered prints are hidden": no row and no content of a print that had
\* not come out yet is on view unless the owner has opted in right now.
NoSurprise ==
  \A card \in list :
    ~include => card.status \in Delivered /\ \A row \in card.shown : row.status \in Delivered

\* "Keep a second click or a pending list refresh from enabling another retry
\* while paper is moving", whichever of the two lists it is in.
OneRetry == Cardinality({r \in requests : r.what = "retry"}) <= 1

\* "A successful retry removes the failure": once every answer is in, the banner
\* offers no retry of a print that has come out.
BannerHonest == requests = {} => \A m \in banner : status[m] = "failed"
=============================================================================
