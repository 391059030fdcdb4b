----------------------------- MODULE PrintQueue -----------------------------
(***************************************************************************)
(* The friend print queue of app.py with the tables of auth/db.py it runs  *)
(* on.  A message row is the durable job; the in-memory queue holds row    *)
(* ids only.  Request threads (gunicorn --threads 4) add rows, one worker  *)
(* thread drains the queue, one dispatcher thread turns due capsules into  *)
(* queue entries, and _replay_queued() rebuilds the queue at import.       *)
(*                                                                         *)
(* One action is one atomic piece of the code: one SQLite transaction, one *)
(* critical section of _inflight_lock, one queue operation, or one USB     *)
(* print.  Everything between two of them can be interleaved.              *)
(***************************************************************************)
EXTENDS Integers, Sequences, FiniteSets

CONSTANTS
  User,          \* ids of the users table
  Thread,        \* request threads of the single gunicorn worker
  NoUser,        \* "no user" for an idle thread
  Approved,      \* users the owner has approved when the model starts
  MaxMsg,        \* bound: message rows ever inserted
  MaxTime,       \* bound: the last instant of the clock
  Quiet,         \* instants inside the configured quiet hours ({} when unset)
  UserCap,       \* _PER_USER_QUEUE_CAP
  QueueMax,      \* _PRINT_QUEUE_MAX
  CapsuleCap,    \* delivery.PER_USER_CAP
  CapsuleTotal,  \* delivery.TOTAL_CAP
  MaxCrashes,    \* bound: how often the process dies
  MaxDbFails,    \* bound: SQLite calls that raise
  MaxRetries     \* bound: owner retries begun

ASSUME NoUserAssumption == NoUser \notin User
ASSUME ApprovedAssumption == Approved \subseteq User
ASSUME ThreadAssumption == IsFiniteSet(Thread)
ASSUME CapAssumption ==
  /\ MaxMsg \in Nat /\ MaxTime \in Nat
  /\ UserCap \in Nat \ {0} /\ QueueMax \in Nat \ {0}
  /\ CapsuleCap \in Nat /\ CapsuleTotal \in Nat
  /\ MaxCrashes \in Nat /\ MaxDbFails \in Nat /\ MaxRetries \in Nat
\* Quiet hours always end (parse_quiet refuses start = end).
ASSUME QuietAssumption == Quiet \subseteq 0..(MaxTime - 1)

VARIABLES
  users,      \* users.status, "none" before registration, "deleted" after
  status,     \* messages.status, "absent" when there is no row
  sender,     \* messages.user_id; survives the row so queue entries keep theirs
  deliverAt,  \* messages.deliver_at, Null for an immediate print
  nextId,     \* AUTOINCREMENT: the next row id, never reused
  queue,      \* _PRINT_QUEUE
  inflight,   \* _inflight (0 = key missing)
  phase, todo,              \* process "down", in "replay", or "up"; ids left to replay
  wpc, wjob, wstatus,       \* the worker: next step, its message, local `status`
  dpc, dnow, due, dmsg,     \* the dispatcher: next step, its tick's `now`, rows left, claim
  pc, tuser, tmsg,          \* request threads: next step, user and message at hand
  now,                      \* wall clock
  crashes, dbFails, retries,\* bounded fault counters
  paper,      \* complete receipts of a message that came out of the printer
  excused     \* receipts the documentation or the owner's own double retry allows

durable    == <<users, status, sender, deliverAt, nextId>>
workerVars == <<wpc, wjob, wstatus>>
dispVars   == <<dpc, dnow, due, dmsg>>
threadVars == <<pc, tuser, tmsg>>
bootVars   == <<phase, todo>>
faultVars  == <<crashes, dbFails, retries>>
printVars  == <<paper, excused>>
\* What the steps of one actor leave alone: everything outside its own reach.
notStatus     == <<users, sender, deliverAt, nextId>>
offThread     == <<phase, todo, wpc, wjob, wstatus, dpc, dnow, due, dmsg, now>>
offWorker     == <<phase, todo, dpc, dnow, due, dmsg, pc, tuser, tmsg, now>>
offDispatcher == <<phase, todo, wpc, wjob, wstatus, pc, tuser, tmsg, now, paper, excused>>
offBoot       == <<wpc, wjob, wstatus, dpc, dnow, due, dmsg, pc, tuser, tmsg, now,
                   crashes, dbFails, retries, paper, excused>>
offAccount    == <<queue, inflight, phase, todo, wpc, wjob, wstatus, dpc, dnow, due, dmsg,
                   pc, tuser, tmsg, now, crashes, dbFails, retries, paper, excused>>
vars == <<users, status, sender, deliverAt, nextId, queue, inflight, phase, todo,
          wpc, wjob, wstatus, dpc, dnow, due, dmsg, pc, tuser, tmsg, now,
          crashes, dbFails, retries, paper, excused>>

MsgId == 1..MaxMsg
NoMsg == 0
Time  == 0..MaxTime
Null  == -1

UserStatus == {"none", "pending", "allowed", "blocked", "deleted"}
MsgStatus  == {"absent", "scheduled", "queued", "printed", "failed", "cancelled"}

RowType ==
  /\ users \in [User -> UserStatus] /\ status \in [MsgId -> MsgStatus]
  /\ sender \in [MsgId -> User \cup {NoUser}]
  /\ deliverAt \in [MsgId -> Time \cup {Null}] /\ nextId \in 1..(MaxMsg + 1)

QueueType ==
  /\ queue \in Seq(MsgId) /\ inflight \in [User -> Nat]
  /\ phase \in {"down", "replay", "up"} /\ todo \in SUBSET MsgId

WorkerType ==
  /\ wpc \in {"get", "read", "quiet", "print", "record", "dec"}
  /\ wjob \in MsgId \cup {NoMsg} /\ wstatus \in {"printed", "failed"}

DispatcherType ==
  /\ dpc \in {"sleep", "scan", "put", "inc"} /\ dnow \in Time
  /\ due \in SUBSET MsgId /\ dmsg \in MsgId \cup {NoMsg}

ThreadType ==
  /\ pc \in [Thread -> {"idle", "auth", "cancel", "reserved", "logged",
                        "undo", "erase", "retry", "mark"}]
  /\ tuser \in [Thread -> User \cup {NoUser}] /\ tmsg \in [Thread -> MsgId \cup {NoMsg}]

WorldType ==
  /\ now \in Time /\ crashes \in 0..MaxCrashes /\ dbFails \in 0..MaxDbFails
  /\ retries \in 0..MaxRetries /\ paper \in [MsgId -> Nat] /\ excused \in [MsgId -> Nat]

TypeOK == RowType /\ QueueType /\ WorkerType /\ DispatcherType /\ ThreadType /\ WorldType

-----------------------------------------------------------------------------
(* Helpers: the clauses of the SQL statements and the shared bookkeeping.  *)

\* Mutant of UpdateRow: an upsert instead of an update revives a deleted row.
UpdateRowUpsert(m, s) == [status EXCEPT ![m] = s]

\* UPDATE messages SET status WHERE id = m: nothing happens to a missing row.
UpdateRow(m, s) == [status EXCEPT ![m] = IF @ = "absent" THEN @ ELSE s]

\* Rows counted against the capsule limits.
Capsules == {m \in MsgId : deliverAt[m] # Null /\ status[m] \in {"scheduled", "queued"}}

\* Mutant of DueAt: the time comparison is lost.
DueAtAnyTime(m, t) == status[m] = "scheduled"

\* status = 'scheduled' AND deliver_at <= t, in the scan and in the claim.
DueAt(m, t) == status[m] = "scheduled" /\ deliverAt[m] <= t

\* Mutant of Defer: the status condition is lost, so a cancelled row comes back.
DeferAlways(m, t) ==
  /\ status' = [status EXCEPT ![m] = "scheduled"]
  /\ deliverAt' = [deliverAt EXCEPT ![m] = t]

\* defer_message: only a row that still waits goes (back) to 'scheduled'.
Defer(m, t) ==
  IF status[m] \in {"queued", "scheduled"}
  THEN /\ status' = [status EXCEPT ![m] = "scheduled"]
       /\ deliverAt' = [deliverAt EXCEPT ![m] = t]
  ELSE UNCHANGED <<status, deliverAt>>

\* s is QuietHours.release(t): the first instant from t on that is not quiet.
IsRelease(s, t) ==
  /\ s \in Time \ Quiet /\ s >= t
  /\ \A r \in Time : t <= r /\ r < s => r \in Quiet

\* _dec_inflight: a count that would reach zero or less drops the key.
Decremented(u) == [inflight EXCEPT ![u] = IF @ > 1 THEN @ - 1 ELSE 0]
Incremented(u) == [inflight EXCEPT ![u] = @ + 1]

\* Mutant of LockFree: claim and put are not covered by the lock.
LockFreeAlways == TRUE

\* Everyone but the dispatcher holds _inflight_lock for a single step only.
LockFree == dpc \notin {"put", "inc"}

Full == Len(queue) >= QueueMax

\* The owner can revoke a sender while the row waits in the queue.
SenderAllowed(m) == users[sender[m]] = "allowed"

Exists(u) == users[u] \in {"pending", "allowed", "blocked"}

DbFails == dbFails < MaxDbFails /\ dbFails' = dbFails + 1

Return(t) ==
  /\ pc' = [pc EXCEPT ![t] = "idle"]
  /\ tuser' = [tuser EXCEPT ![t] = NoUser]
  /\ tmsg' = [tmsg EXCEPT ![t] = NoMsg]

Goto(t, step) == pc' = [pc EXCEPT ![t] = step] /\ UNCHANGED <<tuser, tmsg>>

-----------------------------------------------------------------------------
(* Accounts: registration and the owner's actions on a friend.             *)

Register(u) ==
  /\ phase = "up" /\ users[u] = "none"
  /\ users' = [users EXCEPT ![u] = "pending"]
  /\ UNCHANGED <<status, sender, deliverAt, nextId, offAccount>>

Approve(u) ==
  /\ phase = "up" /\ Exists(u)
  /\ users' = [users EXCEPT ![u] = "allowed"]
  /\ UNCHANGED <<status, sender, deliverAt, nextId, offAccount>>

\* Mutant of Revoke: capsules already claimed are forgotten.
RevokeScheduledOnly(u) ==
  /\ phase = "up" /\ Exists(u)
  /\ users' = [users EXCEPT ![u] = "blocked"]
  /\ status' = [m \in MsgId |-> IF sender[m] = u /\ status[m] = "scheduled"
                                THEN "cancelled" ELSE status[m]]
  /\ UNCHANGED <<sender, deliverAt, nextId, offAccount>>

\* Mutant of Revoke: raw SQL writes a status outside VALID_MESSAGE_STATUSES.
RevokeMisspelt(u) ==
  /\ phase = "up" /\ Exists(u)
  /\ users' = [users EXCEPT ![u] = "blocked"]
  /\ status' = [m \in MsgId |-> IF sender[m] = u /\ m \in Capsules
                                THEN "canceled" ELSE status[m]]
  /\ UNCHANGED <<sender, deliverAt, nextId, offAccount>>

\* One transaction blocks the friend and cancels the pending capsules.
Revoke(u) ==
  /\ phase = "up" /\ Exists(u)
  /\ users' = [users EXCEPT ![u] = "blocked"]
  /\ status' = [m \in MsgId |-> IF sender[m] = u /\ m \in Capsules
                                THEN "cancelled" ELSE status[m]]
  /\ UNCHANGED <<sender, deliverAt, nextId, offAccount>>

\* ON DELETE CASCADE takes the friend's rows; queue entries stay behind.
Delete(u) ==
  /\ phase = "up" /\ Exists(u)
  /\ users' = [users EXCEPT ![u] = "deleted"]
  /\ status' = [m \in MsgId |-> IF sender[m] = u THEN "absent" ELSE status[m]]
  /\ UNCHANGED <<sender, deliverAt, nextId, offAccount>>

-----------------------------------------------------------------------------
(* Request threads: POST /api/print*, /api/history/<id>/cancel and         *)
(* /api/admin/messages/<id>/retry.                                         *)

\* Ids still free once every request under way has inserted its row.
Budget == nextId + Cardinality({t \in Thread : pc[t] \in {"auth", "reserved"}}) <= MaxMsg

\* require_allowed reads the users row once, before the handler runs.
Arrive(t, u) ==
  /\ phase = "up" /\ pc[t] = "idle" /\ users[u] = "allowed" /\ Budget
  /\ pc' = [pc EXCEPT ![t] = "auth"]
  /\ tuser' = [tuser EXCEPT ![t] = u]
  /\ UNCHANGED <<durable, queue, inflight, offThread, tmsg, faultVars, printVars>>

\* Mutant of WantsCapsule: a requested date is taken as it is.
WantsCapsuleUnreleased(effective) ==
  \/ effective > now
  \/ now \in Quiet /\ IsRelease(effective, now)

\* A delivery date was given, or quiet hours hold the print back.
WantsCapsule(effective) ==
  \E wanted \in Time :
    /\ wanted > now \/ (wanted = now /\ now \in Quiet)
    /\ IsRelease(effective, wanted)

\* Mutant of RoomForCapsule: trusts the check made when the request arrived.
RoomForCapsuleUnchecked(u) ==
  /\ Cardinality({m \in Capsules : sender[m] = u}) < CapsuleCap
  /\ Cardinality(Capsules) < CapsuleTotal

\* Mutant of RoomForCapsule: one more than the friend's limit.
RoomForCapsuleOneMore(u) ==
  /\ users[u] = "allowed"
  /\ Cardinality({m \in Capsules : sender[m] = u}) <= CapsuleCap
  /\ Cardinality(Capsules) < CapsuleTotal

\* schedule_message rechecks the sender and counts inside one transaction.
RoomForCapsule(u) ==
  /\ users[u] = "allowed"
  /\ Cardinality({m \in Capsules : sender[m] = u}) < CapsuleCap
  /\ Cardinality(Capsules) < CapsuleTotal

Schedule(t) ==
  /\ pc[t] = "auth" /\ nextId \in MsgId
  /\ \E effective \in Time :
       /\ WantsCapsule(effective)
       /\ deliverAt' = [deliverAt EXCEPT ![nextId] = effective]
  /\ RoomForCapsule(tuser[t])
  /\ status' = [status EXCEPT ![nextId] = "scheduled"]
  /\ sender' = [sender EXCEPT ![nextId] = tuser[t]]
  /\ nextId' = nextId + 1
  /\ Return(t)
  /\ UNCHANGED <<users, queue, inflight, offThread, faultVars, printVars>>

RejectCapsule(t) ==
  /\ pc[t] = "auth"
  /\ \E effective \in Time : WantsCapsule(effective)
  /\ \/ ~RoomForCapsule(tuser[t]) /\ UNCHANGED dbFails
     \/ DbFails
  /\ Return(t)
  /\ UNCHANGED <<durable, queue, inflight, offThread, crashes, retries,
                 printVars>>

\* An immediate print takes a cap slot first ...
Reserve(t) ==
  /\ pc[t] = "auth" /\ now \notin Quiet /\ LockFree
  /\ inflight[tuser[t]] < UserCap
  /\ inflight' = Incremented(tuser[t])
  /\ Goto(t, "reserved")
  /\ UNCHANGED <<durable, queue, offThread, faultVars, printVars>>

RejectCap(t) ==
  /\ pc[t] = "auth" /\ now \notin Quiet /\ LockFree
  /\ inflight[tuser[t]] >= UserCap
  /\ Return(t)
  /\ UNCHANGED <<durable, queue, inflight, offThread, faultVars, printVars>>

\* ... then inserts its row, without asking again whether the sender is allowed.
Log(t) ==
  /\ pc[t] = "reserved" /\ Exists(tuser[t]) /\ nextId \in MsgId
  /\ status' = [status EXCEPT ![nextId] = "queued"]
  /\ sender' = [sender EXCEPT ![nextId] = tuser[t]]
  /\ nextId' = nextId + 1
  /\ tmsg' = [tmsg EXCEPT ![t] = nextId]
  /\ pc' = [pc EXCEPT ![t] = "logged"]
  /\ UNCHANGED <<users, deliverAt, queue, inflight, offThread, tuser,
                 faultVars, printVars>>

\* The foreign key refuses the row of a deleted friend; SQLite may also raise.
LogFails(t) ==
  /\ pc[t] = "reserved"
  /\ \/ ~Exists(tuser[t]) /\ UNCHANGED dbFails
     \/ DbFails
  /\ Goto(t, "undo")
  /\ UNCHANGED <<durable, queue, inflight, offThread, crashes, retries,
                 printVars>>

Put(t) ==
  /\ pc[t] = "logged" /\ ~Full
  /\ queue' = Append(queue, tmsg[t])
  /\ Return(t)
  /\ UNCHANGED <<durable, inflight, offThread, faultVars, printVars>>

PutFull(t) ==
  /\ pc[t] = "logged" /\ Full
  /\ Goto(t, "undo")
  /\ UNCHANGED <<durable, queue, inflight, offThread, faultVars, printVars>>

\* Both unwinds give the cap slot back before the row is deleted.
Undo(t) ==
  /\ pc[t] = "undo" /\ LockFree
  /\ inflight' = Decremented(tuser[t])
  /\ IF tmsg[t] = NoMsg THEN Return(t) ELSE Goto(t, "erase")
  /\ UNCHANGED <<durable, queue, offThread, faultVars, printVars>>

Erase(t) ==
  /\ pc[t] = "erase"
  /\ \/ status' = [status EXCEPT ![tmsg[t]] = "absent"] /\ UNCHANGED dbFails
     \/ DbFails /\ UNCHANGED status
  /\ Return(t)
  /\ UNCHANGED <<notStatus, queue, inflight, offThread, crashes, retries,
                 printVars>>

AskCancel(t, u, m) ==
  /\ phase = "up" /\ pc[t] = "idle" /\ users[u] = "allowed"
  /\ status[m] # "absent" /\ sender[m] = u
  /\ pc' = [pc EXCEPT ![t] = "cancel"]
  /\ tuser' = [tuser EXCEPT ![t] = u]
  /\ tmsg' = [tmsg EXCEPT ![t] = m]
  /\ UNCHANGED <<durable, queue, inflight, offThread, faultVars, printVars>>

\* cancel_scheduled competes with the dispatcher's claim; the loser gets a 409
\* (a write that raises leaves the same state, with a 500).
Cancel(t) ==
  /\ pc[t] = "cancel"
  /\ status' = [status EXCEPT ![tmsg[t]] = IF @ = "scheduled" THEN "cancelled" ELSE @]
  /\ Return(t)
  /\ UNCHANGED <<notStatus, queue, inflight, offThread, faultVars, printVars>>

\* Mutant of AskRetry: any row can be retried.
AskRetryAny(t, m) ==
  /\ phase = "up" /\ pc[t] = "idle" /\ status[m] # "absent" /\ retries < MaxRetries
  /\ retries' = retries + 1
  /\ pc' = [pc EXCEPT ![t] = "retry"]
  /\ tmsg' = [tmsg EXCEPT ![t] = m]
  /\ UNCHANGED <<durable, queue, inflight, offThread, tuser, crashes, dbFails,
                 printVars>>

\* The owner retries a failed row from the request thread, outside the queue.
\* A second retry begun before the first has finished is the owner's own doing.
AskRetry(t, m) ==
  /\ phase = "up" /\ pc[t] = "idle" /\ status[m] = "failed" /\ retries < MaxRetries
  /\ retries' = retries + 1
  /\ pc' = [pc EXCEPT ![t] = "retry"]
  /\ tmsg' = [tmsg EXCEPT ![t] = m]
  /\ excused' = [excused EXCEPT ![m] =
       IF \E o \in Thread : pc[o] \in {"retry", "mark"} /\ tmsg[o] = m THEN @ + 1 ELSE @]
  /\ UNCHANGED <<durable, queue, inflight, offThread, tuser, crashes, dbFails,
                 paper>>

RetryPrints(t) ==
  /\ pc[t] = "retry"
  /\ paper' = [paper EXCEPT ![tmsg[t]] = @ + 1]
  /\ Goto(t, "mark")
  /\ UNCHANGED <<durable, queue, inflight, offThread, faultVars, excused>>

RetryFails(t) ==
  /\ pc[t] = "retry"
  /\ Return(t)
  /\ UNCHANGED <<durable, queue, inflight, offThread, faultVars, printVars>>

Mark(t) ==
  /\ pc[t] = "mark"
  /\ \/ status' = UpdateRow(tmsg[t], "printed") /\ UNCHANGED dbFails
     \/ DbFails /\ UNCHANGED status
  /\ Return(t)
  /\ UNCHANGED <<notStatus, queue, inflight, offThread, crashes, retries,
                 printVars>>

ThreadStep(t) ==
  \/ Schedule(t) \/ RejectCapsule(t) \/ Reserve(t) \/ RejectCap(t)
  \/ Log(t) \/ LogFails(t) \/ Put(t) \/ PutFull(t) \/ Erase(t)
  \/ Cancel(t) \/ RetryPrints(t) \/ RetryFails(t) \/ Mark(t)

-----------------------------------------------------------------------------
(* _print_worker: get, read the row, check quiet hours, print, record the  *)
(* outcome, give the cap slot back.                                        *)

Get ==
  /\ phase = "up" /\ wpc = "get" /\ queue # << >>
  /\ wjob' = Head(queue) /\ queue' = Tail(queue)
  /\ wpc' = "read" /\ wstatus' = "printed"
  /\ UNCHANGED <<durable, inflight, offWorker, faultVars, printVars>>

Read ==
  /\ wpc = "read" /\ status[wjob] = "queued"
  /\ deliverAt[wjob] = Null \/ SenderAllowed(wjob)
  /\ wpc' = "quiet"
  /\ UNCHANGED <<durable, queue, inflight, offWorker, wjob, wstatus, faultVars,
                 printVars>>

\* A row that no longer waits is skipped, and a capsule whose sender is not
\* allowed any more would be cancelled here.
Skip ==
  /\ wpc = "read" /\ status[wjob] # "absent"
  /\ status[wjob] # "queued" \/ (deliverAt[wjob] # Null /\ ~SenderAllowed(wjob))
  /\ status' = [status EXCEPT ![wjob] = IF @ = "queued" THEN "cancelled" ELSE @]
  /\ wpc' = "dec"
  /\ UNCHANGED <<notStatus, queue, inflight, offWorker, wjob, wstatus,
                 faultVars, printVars>>

\* A missing row, or SQLite raising in a read, ends in the except clause.
ReadFails ==
  /\ \/ wpc = "read" /\ status[wjob] = "absent" /\ UNCHANGED dbFails
     \/ wpc = "read" /\ DbFails
     \/ wpc = "quiet" /\ now \in Quiet /\ DbFails
  /\ wpc' = "record" /\ wstatus' = "failed"
  /\ UNCHANGED <<durable, queue, inflight, offWorker, wjob, crashes, retries,
                 printVars>>

QuietHolds ==
  /\ wpc = "quiet" /\ now \in Quiet
  /\ \E s \in Time : IsRelease(s, now) /\ Defer(wjob, s)
  /\ wpc' = "dec"
  /\ UNCHANGED <<users, sender, nextId, queue, inflight, offWorker, wjob,
                 wstatus, faultVars, printVars>>

QuietPasses ==
  /\ wpc = "quiet" /\ now \notin Quiet
  /\ wpc' = "print"
  /\ UNCHANGED <<durable, queue, inflight, offWorker, wjob, wstatus, faultVars,
                 printVars>>

Prints ==
  /\ wpc = "print"
  /\ paper' = [paper EXCEPT ![wjob] = @ + 1]
  /\ wpc' = "record"
  /\ UNCHANGED <<durable, queue, inflight, offWorker, wjob, wstatus, faultVars,
                 excused>>

PrintFails ==
  /\ wpc = "print"
  /\ wpc' = "record" /\ wstatus' = "failed"
  /\ UNCHANGED <<durable, queue, inflight, offWorker, wjob, faultVars, printVars>>

\* Mutant of Record: an exception in the finally clause skips the rest of it.
RecordSkipsDec ==
  /\ wpc = "record"
  /\ \/ /\ status' = UpdateRow(wjob, wstatus) /\ UNCHANGED dbFails
        /\ wpc' = "dec" /\ UNCHANGED <<wjob, wstatus>>
     \/ /\ DbFails /\ UNCHANGED status
        /\ wpc' = "get" /\ wjob' = NoMsg /\ wstatus' = "printed"
  /\ UNCHANGED <<notStatus, queue, inflight, offWorker, crashes, retries,
                 printVars>>

\* set_message_status overwrites whatever the row says by now.
Record ==
  /\ wpc = "record"
  /\ \/ status' = UpdateRow(wjob, wstatus) /\ UNCHANGED dbFails
     \/ DbFails /\ UNCHANGED status
  /\ wpc' = "dec"
  /\ UNCHANGED <<notStatus, queue, inflight, offWorker, wjob, wstatus, crashes,
                 retries, printVars>>

Finish ==
  /\ wpc = "dec" /\ LockFree
  /\ inflight' = Decremented(sender[wjob])
  /\ wpc' = "get" /\ wjob' = NoMsg /\ wstatus' = "printed"
  /\ UNCHANGED <<durable, queue, offWorker, faultVars, printVars>>

WorkerStep ==
  \/ Get \/ Read \/ Skip \/ ReadFails \/ QuietHolds \/ QuietPasses
  \/ Prints \/ PrintFails \/ Record

-----------------------------------------------------------------------------
(* _dispatch_due: one tick claims the due capsules in deliver_at order.    *)

\* A tick that finds nothing due changes nothing (IdlePoll).
Scan ==
  /\ phase = "up" /\ dpc = "sleep"
  /\ due' = {m \in MsgId : DueAt(m, now)} /\ due' # {}
  /\ dnow' = now /\ dpc' = "scan"
  /\ UNCHANGED <<durable, queue, inflight, offDispatcher, dmsg, faultVars>>

\* ORDER BY deliver_at, id.
IsNext(m) ==
  \A o \in due : deliverAt[m] < deliverAt[o] \/ (deliverAt[m] = deliverAt[o] /\ m <= o)

\* The tick goes on with the rows in `rest`, or sleeps.
Continue(rest) ==
  /\ due' = rest
  /\ IF rest = {} THEN dpc' = "sleep" /\ dnow' = 0 ELSE dpc' = "scan" /\ UNCHANGED dnow

QuietDefers(m) ==
  /\ dpc = "scan" /\ m \in due /\ IsNext(m) /\ dnow \in Quiet
  /\ \E s \in Time : IsRelease(s, dnow) /\ Defer(m, s)
  /\ Continue(due \ {m})
  /\ UNCHANGED <<users, sender, nextId, queue, inflight, offDispatcher, dmsg,
                 faultVars>>

\* A sender at the cap is passed over; the claim loses to a cancellation.
PassOver(m) ==
  /\ dpc = "scan" /\ m \in due /\ IsNext(m) /\ dnow \notin Quiet
  /\ \/ inflight[sender[m]] >= UserCap
     \/ ~(DueAt(m, dnow) /\ SenderAllowed(m))
  /\ Continue(due \ {m})
  /\ UNCHANGED <<durable, queue, inflight, offDispatcher, dmsg, faultVars>>

\* Mutant of Claim: the sender's slots are not looked at.
ClaimOverCap(m) ==
  /\ dpc = "scan" /\ m \in due /\ IsNext(m) /\ dnow \notin Quiet
  /\ DueAt(m, dnow) /\ SenderAllowed(m)
  /\ status' = [status EXCEPT ![m] = "queued"]
  /\ dmsg' = m /\ due' = due \ {m} /\ dpc' = "put"
  /\ UNCHANGED <<notStatus, queue, inflight, offDispatcher, dnow, faultVars>>

\* claim_scheduled, with _inflight_lock held from here to Dispatched or Pushback.
Claim(m) ==
  /\ dpc = "scan" /\ m \in due /\ IsNext(m) /\ dnow \notin Quiet
  /\ inflight[sender[m]] < UserCap
  /\ DueAt(m, dnow) /\ SenderAllowed(m)
  /\ status' = [status EXCEPT ![m] = "queued"]
  /\ dmsg' = m /\ due' = due \ {m} /\ dpc' = "put"
  /\ UNCHANGED <<notStatus, queue, inflight, offDispatcher, dnow, faultVars>>

PutClaim ==
  /\ dpc = "put" /\ ~Full
  /\ queue' = Append(queue, dmsg)
  /\ dpc' = "inc"
  /\ UNCHANGED <<durable, inflight, offDispatcher, dnow, due, dmsg, faultVars>>

Dispatched ==
  /\ dpc = "inc"
  /\ inflight' = Incremented(sender[dmsg])
  /\ dmsg' = NoMsg /\ Continue(due)
  /\ UNCHANGED <<durable, queue, offDispatcher, faultVars>>

\* Mutant of Pushback: a full queue ends the tick and the claim is kept.
PushbackKeepsClaim ==
  /\ dpc = "put" /\ Full
  /\ dmsg' = NoMsg /\ Continue({})
  /\ UNCHANGED <<durable, queue, inflight, offDispatcher, faultVars>>

\* queue.Full: the claim is released and the tick ends.  If that write raises,
\* the tick ends all the same and the row stays 'queued'.
Pushback ==
  /\ dpc = "put" /\ Full
  /\ \/ Defer(dmsg, dnow) /\ UNCHANGED dbFails
     \/ DbFails /\ UNCHANGED <<status, deliverAt>>
  /\ dmsg' = NoMsg /\ Continue({})
  /\ UNCHANGED <<users, sender, nextId, queue, inflight, offDispatcher,
                 crashes, retries>>

\* SQLite raises in the quiet-hours defer or in the claim: the tick is over.
TickFails ==
  /\ dpc = "scan" /\ DbFails
  /\ Continue({})
  /\ UNCHANGED <<durable, queue, inflight, offDispatcher, dmsg, crashes, retries>>

DispatcherStep ==
  \/ Scan \/ PutClaim \/ Dispatched \/ Pushback \/ TickFails
  \/ \E m \in MsgId : QuietDefers(m) \/ PassOver(m) \/ Claim(m)

-----------------------------------------------------------------------------
(* The process dies and systemd restarts it; _replay_queued runs at import *)
(* before the worker, the dispatcher and any request.                      *)

\* A receipt whose status write is still to come will be printed once more.
PrintedUnrecorded ==
  {m \in MsgId : \/ wpc = "record" /\ wstatus = "printed" /\ wjob = m
                 \/ \E t \in Thread : pc[t] = "mark" /\ tmsg[t] = m}

Crash ==
  /\ phase # "down" /\ crashes < MaxCrashes
  /\ crashes' = crashes + 1
  /\ excused' = [m \in MsgId |-> IF m \in PrintedUnrecorded
                                 THEN excused[m] + 1 ELSE excused[m]]
  /\ phase' = "down" /\ todo' = {}
  /\ queue' = << >> /\ inflight' = [u \in User |-> 0]
  /\ wpc' = "get" /\ wjob' = NoMsg /\ wstatus' = "printed"
  /\ dpc' = "sleep" /\ dnow' = 0 /\ due' = {} /\ dmsg' = NoMsg
  /\ pc' = [t \in Thread |-> "idle"]
  /\ tuser' = [t \in Thread |-> NoUser] /\ tmsg' = [t \in Thread |-> NoMsg]
  /\ UNCHANGED <<durable, now, dbFails, retries, paper>>

Boot ==
  /\ phase = "down"
  /\ phase' = "replay" /\ todo' = {m \in MsgId : status[m] = "queued"}
  /\ UNCHANGED <<durable, queue, inflight, offBoot>>

\* list_queued_message_ids orders by id.
FirstTodo(m) == m \in todo /\ \A o \in todo : m <= o

\* Mutant of ReplayCapsule: the capsule is handed back and queued as well.
ReplayCapsuleTwice(m) ==
  /\ phase = "replay" /\ FirstTodo(m) /\ deliverAt[m] # Null
  /\ status' = [status EXCEPT ![m] = IF SenderAllowed(m) THEN "scheduled" ELSE "cancelled"]
  /\ queue' = Append(queue, m) /\ inflight' = Incremented(sender[m])
  /\ todo' = todo \ {m}
  /\ UNCHANGED <<notStatus, phase, offBoot>>

\* A claimed capsule goes back to the dispatcher with its own deliver_at.
ReplayCapsule(m) ==
  /\ phase = "replay" /\ FirstTodo(m) /\ deliverAt[m] # Null
  /\ status' = [status EXCEPT ![m] = IF SenderAllowed(m) THEN "scheduled" ELSE "cancelled"]
  /\ todo' = todo \ {m}
  /\ UNCHANGED <<notStatus, queue, inflight, phase, offBoot>>

Replay(m) ==
  /\ phase = "replay" /\ FirstTodo(m) /\ deliverAt[m] = Null /\ ~Full
  /\ queue' = Append(queue, m)
  /\ inflight' = Incremented(sender[m])
  /\ todo' = todo \ {m}
  /\ UNCHANGED <<durable, phase, offBoot>>

\* Mutant of ReplayOverflows: the leftover is dropped and its row says 'queued'.
ReplayOverflowsSilently(m) ==
  /\ phase = "replay" /\ FirstTodo(m) /\ deliverAt[m] = Null /\ Full
  /\ todo' = todo \ {m}
  /\ UNCHANGED <<durable, queue, inflight, phase, offBoot>>

ReplayOverflows(m) ==
  /\ phase = "replay" /\ FirstTodo(m) /\ deliverAt[m] = Null /\ Full
  /\ status' = [status EXCEPT ![m] = "failed"]
  /\ todo' = todo \ {m}
  /\ UNCHANGED <<notStatus, queue, inflight, phase, offBoot>>

Started ==
  /\ phase = "replay" /\ todo = {}
  /\ phase' = "up" /\ UNCHANGED todo
  /\ UNCHANGED <<durable, queue, inflight, offBoot>>

BootStep ==
  \/ Boot \/ Started
  \/ \E m \in MsgId : ReplayCapsule(m) \/ Replay(m) \/ ReplayOverflows(m)

Tick ==
  /\ now < MaxTime /\ now' = now + 1
  /\ UNCHANGED <<durable, queue, inflight, bootVars, workerVars, dispVars,
                 threadVars, faultVars, printVars>>

\* The dispatcher polls an idle system: nobody is in the middle of anything.  It
\* is the only way to stand still, so any other standstill is a deadlock.
IdlePoll ==
  /\ phase = "up" /\ wpc = "get" /\ queue = << >> /\ dpc = "sleep"
  /\ {m \in MsgId : DueAt(m, now)} = {} /\ \A t \in Thread : pc[t] = "idle"
  /\ UNCHANGED vars

-----------------------------------------------------------------------------
Init ==
  /\ users = [u \in User |-> IF u \in Approved THEN "allowed" ELSE "none"]
  /\ status = [m \in MsgId |-> "absent"]
  /\ sender = [m \in MsgId |-> NoUser]
  /\ deliverAt = [m \in MsgId |-> Null]
  /\ nextId = 1 /\ queue = << >> /\ inflight = [u \in User |-> 0]
  /\ phase = "up" /\ todo = {}
  /\ wpc = "get" /\ wjob = NoMsg /\ wstatus = "printed"
  /\ dpc = "sleep" /\ dnow = 0 /\ due = {} /\ dmsg = NoMsg
  /\ pc = [t \in Thread |-> "idle"]
  /\ tuser = [t \in Thread |-> NoUser] /\ tmsg = [t \in Thread |-> NoMsg]
  /\ now = 0 /\ crashes = 0 /\ dbFails = 0 /\ retries = 0
  /\ paper = [m \in MsgId |-> 0] /\ excused = [m \in MsgId |-> 0]

AccountStep(u) == Register(u) \/ Approve(u) \/ Revoke(u) \/ Delete(u)

Request(t) ==
  \/ \E u \in User : Arrive(t, u) \/ \E m \in MsgId : AskCancel(t, u, m)
  \/ \E m \in MsgId : AskRetry(t, m)

Next ==
  \/ \E u \in User : AccountStep(u)
  \/ \E t \in Thread : Request(t) \/ ThreadStep(t) \/ Undo(t)
  \/ WorkerStep \/ Finish
  \/ DispatcherStep
  \/ BootStep \/ Crash
  \/ Tick \/ IdlePoll

Spec == Init /\ [][Next]_vars

\* Every thread keeps running.  Undo and Finish wait for _inflight_lock, which
\* the dispatcher takes again and again but leaves free while it sleeps 15 s
\* between ticks, so whoever waits gets it: strong fairness.
Fairness ==
  /\ WF_vars(Tick) /\ WF_vars(BootStep) /\ WF_vars(DispatcherStep) /\ WF_vars(WorkerStep)
  /\ SF_vars(Finish)
  /\ \A t \in Thread : WF_vars(ThreadStep(t)) /\ SF_vars(Undo(t))

LiveSpec == Spec /\ Fairness

-----------------------------------------------------------------------------
(* Safety *)

\* The message the worker has read and will print, defer or record.
InHand(m) == wjob = m /\ wpc \in {"quiet", "print", "record"}

\* Cap slots in use: queue entries, the worker's job and reservations of
\* requests, less the claim whose increment is still to come.
Load(u) ==
  Cardinality({i \in 1..Len(queue) : sender[queue[i]] = u})
  + Cardinality({w \in {wjob} : w # NoMsg /\ sender[w] = u})
  + Cardinality({t \in Thread : pc[t] \in {"reserved", "logged", "undo"} /\ tuser[t] = u})
  - Cardinality({d \in {dmsg} : dpc = "inc" /\ sender[d] = u})

\* The cap counter of a friend is exact at every instant: no path through the
\* request handler, the worker, the dispatcher or a restart leaks a slot or
\* gives one back twice (app.py: "must not kill the worker or leak a cap slot").
InflightExact == \A u \in User : inflight[u] = Load(u)

\* No friend holds more than _PER_USER_QUEUE_CAP slots, whichever of immediate
\* sends and capsule claims compete for them.
CapRespected == \A u \in User : inflight[u] <= UserCap

\* Who will still act on a row: a queue entry, the worker before it has recorded
\* the outcome, the dispatcher's claim, a request, or the replay.
Holders(m) ==
  Cardinality({i \in 1..Len(queue) : queue[i] = m})
  + Cardinality({w \in {wjob} : w = m /\ wpc \in {"read", "quiet", "print", "record"}})
  + Cardinality({d \in {dmsg} : d = m /\ dpc = "put"})
  + Cardinality({t \in Thread : tmsg[t] = m /\ pc[t] \in {"logged", "undo", "erase"}})
  + Cardinality(todo \cap {m})

\* A row is never in two hands: the dispatcher, a request, a replay and the
\* worker cannot make one job print twice by queueing it twice.
NoDoubleHolder == \A m \in MsgId : Holders(m) <= 1

\* As long as SQLite works, a row that says 'queued' is really on its way: no
\* order of sends, claims, deferrals, cancellations and restarts strands it.
QueuedIsHeld ==
  phase # "down" => \A m \in MsgId : status[m] = "queued" => Holders(m) = 1

\* A message comes out of the printer once, plus once for each crash between
\* its print and its status write, plus once for each overlapping owner retry
\* (the caveat at _PRINT_QUEUE names the crash as the only way to print twice).
PaperBound == \A m \in MsgId : paper[m] <= 1 + excused[m]

Stranded == {m \in MsgId : status[m] = "queued" /\ Holders(m) = 0}

Extra(m) == 1 .. (paper[m] - 1 - excused[m])

\* What SQLite's failures may do to the rows: a write that fails strands at most
\* its own row, whether it was the worker's outcome, the push-back's or an erase,
\* and costs at most one receipt besides those of PaperBound, when a restart
\* prints a message whose outcome was not written.
FailureCostsOne ==
  /\ phase # "down" => Cardinality(Stranded) <= dbFails
  /\ Cardinality(UNION {{m} \X Extra(m) : m \in MsgId}) <= dbFails

\* No receipt of a capsule is out before its delivery time, which is never inside
\* quiet hours: scan, claim, deferral, push-back and replay all keep to it.
NeverEarly ==
  \A m \in MsgId :
    /\ deliverAt[m] > now => paper[m] <= excused[m]
    /\ status[m] = "scheduled" => deliverAt[m] \notin Quiet

\* A capsule on its way to the printer belongs to an allowed friend: the claim
\* checks, and revocation cancels in its own transaction.  It makes the
\* worker's and the replay's own 'cancelled' branches unreachable.
QueuedCapsuleAllowed ==
  \A m \in MsgId : status[m] = "queued" /\ deliverAt[m] # Null => SenderAllowed(m)

\* Without quiet hours a blocked friend has nothing scheduled, so approving
\* again delivers nothing old (the comment in set_status).
BlockedHasNoBacklog ==
  \A m \in MsgId : status[m] = "scheduled" => SenderAllowed(m)

\* Without quiet hours no friend has more capsules than delivery.PER_USER_CAP
\* waiting, and all together no more than TOTAL_CAP, claimed ones included.
CapsuleLimits ==
  /\ Cardinality(Capsules) <= CapsuleTotal
  /\ \A u \in User : Cardinality({m \in Capsules : sender[m] = u}) <= CapsuleCap

\* A message cancelled before the worker had read it: nothing may print it,
\* queue it, schedule it or give it another status; only its row may go.
Burned(m) == status[m] = "cancelled" /\ ~InHand(m)

BurnedStaysBurned ==
  [][\A m \in MsgId : Burned(m) =>
       /\ paper'[m] = paper[m]
       /\ Burned(m)' \/ status'[m] = "absent"]_vars

\* _replay_queued says more leftovers than slots are "only possible if the cap
\* was lowered between runs": with a constant cap every leftover fits.
ReplayFits ==
  phase = "replay" =>
    \A m \in MsgId : FirstTodo(m) /\ deliverAt[m] = Null => ~Full

-----------------------------------------------------------------------------
(* Liveness, under LiveSpec and without SQLite failures. *)

\* An accepted print does not stay 'queued' for ever: it prints, fails, is
\* deferred, cancelled or deleted.  A capsule of a friend who stays allowed is
\* delivered, fails or is cancelled: caps, a full queue, quiet hours and
\* restarts only delay it.
EveryMessageSettles ==
  \A m \in MsgId :
    /\ status[m] = "queued" ~> status[m] # "queued"
    /\ status[m] = "scheduled" ~>
         (status[m] \in {"printed", "failed", "cancelled", "absent"} \/ ~SenderAllowed(m))
=============================================================================
