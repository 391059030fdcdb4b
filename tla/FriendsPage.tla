----------------------------- MODULE FriendsPage -----------------------------
(***************************************************************************)
(* Which card the friends page shows: show and applyMe in                  *)
(* static/friends.js, the answers that lead to them, and the poll of a     *)
(* friend who waits for approval, against an owner who decides meanwhile.  *)
(* One friend, one browser; sessions themselves are Accounts'.             *)
(***************************************************************************)
EXTENDS Integers, FiniteSets

CONSTANTS
  MaxClicks,   \* bound: what the friend does
  MaxChanges,  \* bound: decisions of the owner
  MaxFails     \* bound: requests that are lost on the way

\* What the constants may be.
PageAssumption == {MaxClicks, MaxChanges, MaxFails} \subseteq Nat

None     == "none"
Statuses == {"pending", "allowed", "blocked"}
Forms    == {"register", "login", "reset"}
Calls    == Forms \cup {"me", "logout", "settings"}

VARIABLES
  account,   \* the friend's row: its status, or None
  token,     \* a reset link that can be redeemed is out
  cookie,    \* the browser holds a session
  page,      \* document.body.dataset.page
  me,        \* the user the page was told of: a status, or None
  polling,   \* pendingTimer runs
  requests,  \* in flight: [call, cookie, answer]; two that are alike count once
  clicks, changes, fails

server  == <<account, token, changes, fails>>
browser == <<cookie, page, me, polling>>
vars    == <<server, browser, requests, clicks>>

Request(call) == [call |-> call, cookie |-> cookie, answer |-> "due"]

\* "A reset link takes priority over whatever session this browser holds."
Init ==
  /\ account \in Statuses \cup {None} /\ token \in BOOLEAN /\ (token => account # None)
  /\ cookie \in BOOLEAN /\ (cookie => account # None)
  /\ me = None /\ polling = FALSE /\ clicks = 0 /\ changes = 0 /\ fails = 0
  /\ \/ page = "reset" /\ requests = {}
     \/ page = "loading" /\ requests = {Request("me")}

-----------------------------------------------------------------------------
(* The server                                                              *)

\* The owner approves, blocks, or deletes the account, with its links.
Decide ==
  /\ account # None /\ changes < MaxChanges /\ changes' = changes + 1
  /\ account' \in {"allowed", "blocked", None} \ {account} /\ token' = (token /\ account' # None)
  /\ UNCHANGED <<browser, requests, fails, clicks>>

Answer(r, with) == requests' = (requests \ {r}) \cup {[r EXCEPT !.answer = with]}
Due(call)       == {r \in requests : r.call = call /\ r.answer = "due"}

\* An answer is a status, None for nobody, "ok", or "error".
Reply(r) ==
  CASE r.call = "me"       -> IF r.cookie THEN account ELSE None
    [] r.call = "logout"   -> "ok"
    [] r.call = "settings" -> IF r.cookie /\ account = "allowed" THEN "allowed" ELSE "error"
    [] r.call = "login"    -> IF account # None THEN account ELSE "error"
    [] r.call = "reset"    -> IF token THEN account ELSE "error"
    [] r.call = "register" -> IF account = None THEN "pending" ELSE "error"

Serve(call) ==
  \E r \in Due(call) :
    /\ Answer(r, Reply(r))
    /\ account' = (IF call = "register" /\ account = None THEN "pending" ELSE account)
    /\ token' = (token /\ call # "reset")
    /\ UNCHANGED <<browser, changes, fails, clicks>>

\* A wrong password, or a request that does not get through.
Fail ==
  /\ fails < MaxFails /\ fails' = fails + 1
  /\ \E r \in requests : r.answer = "due" /\ Answer(r, "error")
  /\ UNCHANGED <<account, token, changes, browser, clicks>>

-----------------------------------------------------------------------------
(* The page                                                                *)

\* Mutant of PollsFor: without a user the timer is left alone.
PollsForUser(user) == IF user = None THEN polling ELSE user = "pending"

\* setPendingPolling
PollsFor(user) == user = "pending"

\* applyMe
ApplyMe(user) ==
  /\ me' = user /\ polling' = PollsFor(user)
  /\ page' = IF user \in Statuses THEN user ELSE "guest"

Click(call) == /\ clicks < MaxClicks /\ clicks' = clicks + 1
               /\ requests' = requests \cup {Request(call)} /\ UNCHANGED <<server, browser>>

\* The guest card leads to the forms, and their back buttons to the guest card.
Turn ==
  /\ clicks < MaxClicks /\ clicks' = clicks + 1
  /\ \/ page = "guest" /\ page' \in {"register", "login"}
     \/ page \in Forms /\ page' = "guest"
  /\ UNCHANGED <<server, cookie, me, polling, requests>>

\* A form's button waits for its answer.
Submit   == \E form \in Forms : page = form /\ (\A r \in requests : r.call # form) /\ Click(form)
Recheck  == page = "pending" /\ Click("me")
Logout   == me # None /\ Click("logout")
SetStyle == page = "allowed" /\ Click("settings")

\* Mutant of KeepsPolling: the timer is a single shot.
KeepsPollingOnce == FALSE

\* The timer is an interval.
KeepsPolling == polling

PollFires ==
  /\ polling /\ polling' = KeepsPolling /\ requests' = requests \cup {Request("me")}
  /\ UNCHANGED <<server, cookie, page, me, clicks>>

\* Only the load itself has something to show for a failure; the rest is a toast.
AfterFailure(call) == IF page = "loading" THEN "guest" ELSE page

Deliver(call) ==
  \E r \in requests :
    /\ r.call = call /\ r.answer # "due" /\ requests' = requests \ {r}
    /\ IF r.answer = "error"
       THEN page' = AfterFailure(call) /\ UNCHANGED <<cookie, me, polling>>
       ELSE /\ cookie' = IF call \in Forms THEN TRUE ELSE cookie /\ call # "logout"
            /\ ApplyMe(IF call = "logout" THEN None ELSE r.answer)
    /\ UNCHANGED <<server, clicks>>

Idle == requests = {} /\ ~polling /\ UNCHANGED vars

Next ==
  \/ Decide \/ Fail \/ Turn \/ Submit \/ Recheck \/ Logout \/ SetStyle \/ PollFires \/ Idle
  \/ \E call \in Calls : Serve(call) \/ Deliver(call)

Spec == Init /\ [][Next]_vars

ServeClick   == \E call \in Calls \ {"me"} : Serve(call)
DeliverClick == \E call \in Calls \ {"me"} : Deliver(call)

\* The interval goes on; what is asked is answered, and the answer arrives.
FairSpec ==
  /\ Spec /\ WF_vars(PollFires) /\ WF_vars(Serve("me")) /\ WF_vars(Deliver("me"))
  /\ WF_vars(ServeClick) /\ WF_vars(DeliverClick)

-----------------------------------------------------------------------------
(* Properties                                                              *)

\* The poll runs under the pending card and under no other, so that a friend who
\* has signed out or was approved does not go on asking, whatever answers came
\* in which order.
PollsWhilePending == polling <=> page = "pending"

\* "approval flips the page without them hammering": once the owner has decided,
\* the pending card is left for good, though polls are lost and old answers,
\* read before the decision, come after new ones.
PendingEnds == <>[](account # "pending") => <>[](page # "pending")

\* The first card is reached, with or without the server.
LoadingEnds == page = "loading" ~> page # "loading"
=============================================================================
