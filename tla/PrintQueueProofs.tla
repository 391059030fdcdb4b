-------------------------- MODULE PrintQueueProofs --------------------------
(***************************************************************************)
(* Theorems about PrintQueue for any number of users, threads, messages,   *)
(* crashes and retries and any caps and quiet hours: first who holds which *)
(* message, then when paper may come out (how many receipts a message can  *)
(* have, when a capsule's may be out, which capsules can wait at all, what *)
(* the cap counts), and last that the queue implements PrintJobs.          *)
(***************************************************************************)
EXTENDS PrintQueueRefinement, SequenceTheorems, FiniteSetTheorems, FunctionTheorems, TLAPS

\* What each actor holds at each of its steps: the worker a message from "read"
\* on, the dispatcher a claim while it has the lock, a request its sender or
\* its message.
WorkerHolds     == wpc # "get" => wjob \in MsgId
DispatcherHolds == dpc \in {"put", "inc"} => dmsg \in MsgId
ThreadsHold ==
  \A t \in Thread :
    /\ pc[t] \in {"auth", "reserved", "logged", "undo"} => tuser[t] \in User
    /\ pc[t] \in {"cancel", "logged", "erase", "retry", "mark"} => tmsg[t] \in MsgId

\* A row belongs to a registered friend and has an id below nextId; an id still
\* free has no delivery time.
RowsOK ==
  \A m \in MsgId :
    /\ status[m] # "absent" => sender[m] \in User /\ m < nextId
    /\ m >= nextId => deliverAt[m] = Null

\* Outside "up" no thread runs; what is left to replay is still 'queued'.
ProcessOK ==
  /\ phase # "up" => wpc = "get" /\ dpc = "sleep" /\ \A t \in Thread : pc[t] = "idle"
  /\ \A m \in todo : phase = "replay" /\ status[m] = "queued"

\* A message in an owner retry is settled, and stays so until it is marked.
RetryOK ==
  \A t \in Thread : pc[t] \in {"retry", "mark"} =>
    tmsg[t] < nextId /\ status[tmsg[t]] \in {"failed", "printed", "absent"}

Owned ==
  /\ WorkerHolds /\ DispatcherHolds /\ ThreadsHold /\ RowsOK
  /\ ProcessOK /\ RetryOK /\ QueuedCapsuleAllowed

\* The inductive invariant.
IInv == TypeOK /\ Owned

-----------------------------------------------------------------------------
USE DEF MsgId, NoMsg, Time, Null, UserStatus, MsgStatus,
        durable, workerVars, dispVars, threadVars, bootVars, faultVars, printVars,
        notStatus, offThread, offWorker, offDispatcher, offBoot, offAccount

\* The helpers keep the parts of the state they write in their types.
LEMMA ReturnType == ASSUME ThreadType, NEW t \in Thread, Return(t) PROVE ThreadType'
  BY DEF ThreadType, Return

LEMMA GotoType ==
  ASSUME ThreadType, NEW t \in Thread, Goto(t, "reserved") \/ Goto(t, "undo")
         \/ Goto(t, "erase") \/ Goto(t, "mark")
  PROVE  ThreadType'
  BY DEF ThreadType, Goto

LEMMA ContinueType ==
  ASSUME DispatcherType, CapAssumption, NEW rest \in SUBSET MsgId, Continue(rest)
  PROVE  dpc' \in {"sleep", "scan"} /\ dnow' \in Time /\ due' \in SUBSET MsgId
  BY DEF DispatcherType, Continue

LEMMA CountType ==
  ASSUME inflight \in [User -> Nat], NEW u
  PROVE  Incremented(u) \in [User -> Nat] /\ Decremented(u) \in [User -> Nat]
<1>1. \A v \in User : Incremented(u)[v] \in Nat /\ Decremented(u)[v] \in Nat
  BY DEF Incremented, Decremented
<1>2. Incremented(u) \in [User -> Nat]
  BY <1>1 DEF Incremented
<1>3. Decremented(u) \in [User -> Nat]
  BY <1>1 DEF Decremented
<1> QED BY <1>2, <1>3

LEMMA DeferType ==
  ASSUME RowType, NEW m \in MsgId, NEW s \in Time, Defer(m, s)
  PROVE  status' \in [MsgId -> MsgStatus] /\ deliverAt' \in [MsgId -> Time \cup {Null}]
  BY DEF RowType, Defer

LEMMA UpdateType ==
  ASSUME RowType, NEW m, NEW s \in {"printed", "failed"}
  PROVE  UpdateRow(m, s) \in [MsgId -> MsgStatus]
  BY DEF RowType, UpdateRow

LEMMA DbFailsType == ASSUME WorldType, DbFails, CapAssumption PROVE dbFails' \in 0..MaxDbFails
  BY DEF WorldType, DbFails

\* One step per action; under it one per part of the state the action writes.
LEMMA TypeStep == IInv /\ [Next]_vars => TypeOK'
<1> SUFFICES ASSUME TypeOK, Owned, [Next]_vars PROVE TypeOK'
  BY DEF IInv
<1> USE DEF TypeOK, Owned
<1>1. ASSUME NEW u \in User, AccountStep(u) PROVE TypeOK'
  <2>1. CASE Register(u)
    <3>1. RowType'
      BY <2>1 DEF Register, RowType
    <3>2. QueueType' /\ WorkerType' /\ DispatcherType' /\ ThreadType' /\ WorldType'
      BY <2>1 DEF Register, QueueType, WorkerType, DispatcherType, ThreadType, WorldType
    <3> QED BY <3>1, <3>2 DEF TypeOK
  <2>2. CASE Approve(u)
    <3>1. RowType'
      BY <2>2 DEF Approve, RowType
    <3>2. QueueType' /\ WorkerType' /\ DispatcherType' /\ ThreadType' /\ WorldType'
      BY <2>2 DEF Approve, QueueType, WorkerType, DispatcherType, ThreadType, WorldType
    <3> QED BY <3>1, <3>2 DEF TypeOK
  <2>3. CASE Revoke(u)
    <3>1. RowType'
      BY <2>3 DEF Revoke, RowType
    <3>2. QueueType' /\ WorkerType' /\ DispatcherType' /\ ThreadType' /\ WorldType'
      BY <2>3 DEF Revoke, QueueType, WorkerType, DispatcherType, ThreadType, WorldType
    <3> QED BY <3>1, <3>2 DEF TypeOK
  <2>4. CASE Delete(u)
    <3>1. RowType'
      BY <2>4 DEF Delete, RowType
    <3>2. QueueType' /\ WorkerType' /\ DispatcherType' /\ ThreadType' /\ WorldType'
      BY <2>4 DEF Delete, QueueType, WorkerType, DispatcherType, ThreadType, WorldType
    <3> QED BY <3>1, <3>2 DEF TypeOK
  <2> QED BY <1>1, <2>1, <2>2, <2>3, <2>4 DEF AccountStep
<1>2. ASSUME NEW t \in Thread, Request(t) PROVE TypeOK'
  <2>1. ASSUME NEW u \in User, Arrive(t, u) PROVE TypeOK'
    <3>1. ThreadType'
      BY <2>1 DEF Arrive, ThreadType
    <3>2. RowType' /\ QueueType' /\ WorkerType' /\ DispatcherType' /\ WorldType'
      BY <2>1 DEF Arrive, RowType, QueueType, WorkerType, DispatcherType, WorldType
    <3> QED BY <3>1, <3>2 DEF TypeOK
  <2>2. ASSUME NEW u \in User, NEW m \in MsgId, AskCancel(t, u, m) PROVE TypeOK'
    <3>1. ThreadType'
      BY <2>2 DEF AskCancel, ThreadType
    <3>2. RowType' /\ QueueType' /\ WorkerType' /\ DispatcherType' /\ WorldType'
      BY <2>2 DEF AskCancel, RowType, QueueType, WorkerType, DispatcherType, WorldType
    <3> QED BY <3>1, <3>2 DEF TypeOK
  <2>3. ASSUME NEW m \in MsgId, AskRetry(t, m) PROVE TypeOK'
    <3>1. ThreadType'
      BY <2>3 DEF AskRetry, ThreadType
    <3>2. WorldType'
      BY <2>3, CapAssumption DEF AskRetry, WorldType
    <3>3. RowType' /\ QueueType' /\ WorkerType' /\ DispatcherType'
      BY <2>3 DEF AskRetry, RowType, QueueType, WorkerType, DispatcherType
    <3> QED BY <3>1, <3>2, <3>3 DEF TypeOK
  <2> QED BY <1>2, <2>1, <2>2, <2>3 DEF Request
<1>3. ASSUME NEW t \in Thread, ThreadStep(t) PROVE TypeOK'
  <2>1. CASE Schedule(t)
    <3>1. RowType'
      BY <2>1, CapAssumption DEF Schedule, RowType, ThreadType
    <3>2. ThreadType'
      BY <2>1, ReturnType DEF Schedule, ThreadType
    <3>3. QueueType' /\ WorkerType' /\ DispatcherType' /\ WorldType'
      BY <2>1 DEF Schedule, QueueType, WorkerType, DispatcherType, WorldType
    <3> QED BY <3>1, <3>2, <3>3 DEF TypeOK
  <2>2. CASE RejectCapsule(t)
    <3>1. ThreadType'
      BY <2>2, ReturnType DEF RejectCapsule, ThreadType
    <3>2. WorldType'
      BY <2>2, DbFailsType, CapAssumption DEF RejectCapsule, WorldType
    <3>3. RowType' /\ QueueType' /\ WorkerType' /\ DispatcherType'
      BY <2>2 DEF RejectCapsule, RowType, QueueType, WorkerType, DispatcherType
    <3> QED BY <3>1, <3>2, <3>3 DEF TypeOK
  <2>3. CASE Reserve(t)
    <3>1. QueueType'
      BY <2>3, CountType DEF Reserve, QueueType
    <3>2. ThreadType'
      BY <2>3, GotoType DEF Reserve, ThreadType
    <3>3. RowType' /\ WorkerType' /\ DispatcherType' /\ WorldType'
      BY <2>3 DEF Reserve, RowType, WorkerType, DispatcherType, WorldType
    <3> QED BY <3>1, <3>2, <3>3 DEF TypeOK
  <2>4. CASE RejectCap(t)
    <3>1. ThreadType'
      BY <2>4, ReturnType DEF RejectCap, ThreadType
    <3>2. RowType' /\ QueueType' /\ WorkerType' /\ DispatcherType' /\ WorldType'
      BY <2>4 DEF RejectCap, RowType, QueueType, WorkerType, DispatcherType, WorldType
    <3> QED BY <3>1, <3>2 DEF TypeOK
  <2>5. CASE Log(t)
    <3>1. RowType'
      BY <2>5, CapAssumption DEF Log, RowType, ThreadType
    <3>2. ThreadType'
      BY <2>5 DEF Log, ThreadType
    <3>3. QueueType' /\ WorkerType' /\ DispatcherType' /\ WorldType'
      BY <2>5 DEF Log, QueueType, WorkerType, DispatcherType, WorldType
    <3> QED BY <3>1, <3>2, <3>3 DEF TypeOK
  <2>6. CASE LogFails(t)
    <3>1. ThreadType'
      BY <2>6, GotoType DEF LogFails, ThreadType
    <3>2. WorldType'
      BY <2>6, DbFailsType, CapAssumption DEF LogFails, WorldType
    <3>3. RowType' /\ QueueType' /\ WorkerType' /\ DispatcherType'
      BY <2>6 DEF LogFails, RowType, QueueType, WorkerType, DispatcherType
    <3> QED BY <3>1, <3>2, <3>3 DEF TypeOK
  <2>7. CASE Put(t)
    <3>1. QueueType'
      BY <2>7 DEF Put, QueueType, ThreadsHold
    <3>2. ThreadType'
      BY <2>7, ReturnType DEF Put, ThreadType
    <3>3. RowType' /\ WorkerType' /\ DispatcherType' /\ WorldType'
      BY <2>7 DEF Put, RowType, WorkerType, DispatcherType, WorldType
    <3> QED BY <3>1, <3>2, <3>3 DEF TypeOK
  <2>8. CASE PutFull(t)
    <3>1. ThreadType'
      BY <2>8, GotoType DEF PutFull, ThreadType
    <3>2. RowType' /\ QueueType' /\ WorkerType' /\ DispatcherType' /\ WorldType'
      BY <2>8 DEF PutFull, RowType, QueueType, WorkerType, DispatcherType, WorldType
    <3> QED BY <3>1, <3>2 DEF TypeOK
  <2>9. CASE Erase(t)
    <3>1. RowType'
      BY <2>9 DEF Erase, RowType
    <3>2. ThreadType'
      BY <2>9, ReturnType DEF Erase, ThreadType
    <3>3. WorldType'
      BY <2>9, DbFailsType, CapAssumption DEF Erase, WorldType
    <3>4. QueueType' /\ WorkerType' /\ DispatcherType'
      BY <2>9 DEF Erase, QueueType, WorkerType, DispatcherType
    <3> QED BY <3>1, <3>2, <3>3, <3>4 DEF TypeOK
  <2>10. CASE Cancel(t)
    <3>1. RowType'
      BY <2>10 DEF Cancel, RowType
    <3>2. ThreadType'
      BY <2>10, ReturnType DEF Cancel, ThreadType
    <3>3. QueueType' /\ WorkerType' /\ DispatcherType' /\ WorldType'
      BY <2>10 DEF Cancel, QueueType, WorkerType, DispatcherType, WorldType
    <3> QED BY <3>1, <3>2, <3>3 DEF TypeOK
  <2>11. CASE RetryPrints(t)
    <3>1. ThreadType'
      BY <2>11, GotoType DEF RetryPrints, ThreadType
    <3>2. WorldType'
      BY <2>11 DEF RetryPrints, WorldType, ThreadsHold
    <3>3. RowType' /\ QueueType' /\ WorkerType' /\ DispatcherType'
      BY <2>11 DEF RetryPrints, RowType, QueueType, WorkerType, DispatcherType
    <3> QED BY <3>1, <3>2, <3>3 DEF TypeOK
  <2>12. CASE RetryFails(t)
    <3>1. ThreadType'
      BY <2>12, ReturnType DEF RetryFails, ThreadType
    <3>2. RowType' /\ QueueType' /\ WorkerType' /\ DispatcherType' /\ WorldType'
      BY <2>12 DEF RetryFails, RowType, QueueType, WorkerType, DispatcherType, WorldType
    <3> QED BY <3>1, <3>2 DEF TypeOK
  <2>13. CASE Mark(t)
    <3>1. RowType'
      BY <2>13, UpdateType DEF Mark, RowType
    <3>2. ThreadType'
      BY <2>13, ReturnType DEF Mark, ThreadType
    <3>3. WorldType'
      BY <2>13, DbFailsType, CapAssumption DEF Mark, WorldType
    <3>4. QueueType' /\ WorkerType' /\ DispatcherType'
      BY <2>13 DEF Mark, QueueType, WorkerType, DispatcherType
    <3> QED BY <3>1, <3>2, <3>3, <3>4 DEF TypeOK
  <2> QED BY <1>3, <2>1, <2>2, <2>3, <2>4, <2>5, <2>6, <2>7, <2>8, <2>9, <2>10, <2>11,
            <2>12, <2>13 DEF ThreadStep
<1>4. ASSUME NEW t \in Thread, Undo(t) PROVE TypeOK'
  <2>1. QueueType'
    BY <1>4, CountType DEF Undo, QueueType
  <2>2. ThreadType'
    BY <1>4, ReturnType, GotoType DEF Undo, ThreadType
  <2>3. RowType' /\ WorkerType' /\ DispatcherType' /\ WorldType'
    BY <1>4 DEF Undo, RowType, WorkerType, DispatcherType, WorldType
  <2> QED BY <2>1, <2>2, <2>3 DEF TypeOK
<1>5. CASE WorkerStep
  <2>1. CASE Get
    <3>1. QueueType'
      BY <2>1, HeadTailProperties DEF Get, QueueType
    <3>2. WorkerType'
      BY <2>1, HeadTailProperties DEF Get, WorkerType, QueueType
    <3>3. RowType' /\ DispatcherType' /\ ThreadType' /\ WorldType'
      BY <2>1 DEF Get, RowType, DispatcherType, ThreadType, WorldType
    <3> QED BY <3>1, <3>2, <3>3 DEF TypeOK
  <2>2. CASE Read
    <3>1. WorkerType'
      BY <2>2 DEF Read, WorkerType
    <3>2. RowType' /\ QueueType' /\ DispatcherType' /\ ThreadType' /\ WorldType'
      BY <2>2 DEF Read, RowType, QueueType, DispatcherType, ThreadType, WorldType
    <3> QED BY <3>1, <3>2 DEF TypeOK
  <2>3. CASE Skip
    <3>1. RowType'
      BY <2>3 DEF Skip, RowType
    <3>2. WorkerType'
      BY <2>3 DEF Skip, WorkerType
    <3>3. QueueType' /\ DispatcherType' /\ ThreadType' /\ WorldType'
      BY <2>3 DEF Skip, QueueType, DispatcherType, ThreadType, WorldType
    <3> QED BY <3>1, <3>2, <3>3 DEF TypeOK
  <2>4. CASE ReadFails
    <3>1. WorkerType'
      BY <2>4 DEF ReadFails, WorkerType
    <3>2. WorldType'
      BY <2>4, DbFailsType, CapAssumption DEF ReadFails, WorldType
    <3>3. RowType' /\ QueueType' /\ DispatcherType' /\ ThreadType'
      BY <2>4 DEF ReadFails, RowType, QueueType, DispatcherType, ThreadType
    <3> QED BY <3>1, <3>2, <3>3 DEF TypeOK
  <2>5. CASE QuietHolds
    <3>1. RowType'
      BY <2>5, DeferType DEF QuietHolds, RowType, WorkerHolds
    <3>2. WorkerType'
      BY <2>5 DEF QuietHolds, WorkerType
    <3>3. QueueType' /\ DispatcherType' /\ ThreadType' /\ WorldType'
      BY <2>5 DEF QuietHolds, QueueType, DispatcherType, ThreadType, WorldType
    <3> QED BY <3>1, <3>2, <3>3 DEF TypeOK
  <2>6. CASE QuietPasses
    <3>1. WorkerType'
      BY <2>6 DEF QuietPasses, WorkerType
    <3>2. RowType' /\ QueueType' /\ DispatcherType' /\ ThreadType' /\ WorldType'
      BY <2>6 DEF QuietPasses, RowType, QueueType, DispatcherType, ThreadType, WorldType
    <3> QED BY <3>1, <3>2 DEF TypeOK
  <2>7. CASE Prints
    <3>1. WorkerType'
      BY <2>7 DEF Prints, WorkerType
    <3>2. WorldType'
      BY <2>7 DEF Prints, WorldType, WorkerHolds
    <3>3. RowType' /\ QueueType' /\ DispatcherType' /\ ThreadType'
      BY <2>7 DEF Prints, RowType, QueueType, DispatcherType, ThreadType
    <3> QED BY <3>1, <3>2, <3>3 DEF TypeOK
  <2>8. CASE PrintFails
    <3>1. WorkerType'
      BY <2>8 DEF PrintFails, WorkerType
    <3>2. RowType' /\ QueueType' /\ DispatcherType' /\ ThreadType' /\ WorldType'
      BY <2>8 DEF PrintFails, RowType, QueueType, DispatcherType, ThreadType, WorldType
    <3> QED BY <3>1, <3>2 DEF TypeOK
  <2>9. CASE Record
    <3>1. RowType'
      BY <2>9, UpdateType DEF Record, RowType, WorkerType
    <3>2. WorkerType'
      BY <2>9 DEF Record, WorkerType
    <3>3. WorldType'
      BY <2>9, DbFailsType, CapAssumption DEF Record, WorldType
    <3>4. QueueType' /\ DispatcherType' /\ ThreadType'
      BY <2>9 DEF Record, QueueType, DispatcherType, ThreadType
    <3> QED BY <3>1, <3>2, <3>3, <3>4 DEF TypeOK
  <2> QED BY <1>5, <2>1, <2>2, <2>3, <2>4, <2>5, <2>6, <2>7, <2>8, <2>9 DEF WorkerStep
<1>6. CASE Finish
  <2>1. QueueType'
    BY <1>6, CountType DEF Finish, QueueType
  <2>2. WorkerType'
    BY <1>6 DEF Finish, WorkerType
  <2>3. RowType' /\ DispatcherType' /\ ThreadType' /\ WorldType'
    BY <1>6 DEF Finish, RowType, DispatcherType, ThreadType, WorldType
  <2> QED BY <2>1, <2>2, <2>3 DEF TypeOK
<1>7. CASE DispatcherStep
  <2>1. CASE Scan
    <3>1. DispatcherType'
      BY <2>1 DEF Scan, DispatcherType, WorldType
    <3>2. RowType' /\ QueueType' /\ WorkerType' /\ ThreadType' /\ WorldType'
      BY <2>1 DEF Scan, RowType, QueueType, WorkerType, ThreadType, WorldType
    <3> QED BY <3>1, <3>2 DEF TypeOK
  <2>2. CASE PutClaim
    <3>1. QueueType'
      BY <2>2 DEF PutClaim, QueueType, DispatcherHolds
    <3>2. DispatcherType'
      BY <2>2 DEF PutClaim, DispatcherType
    <3>3. RowType' /\ WorkerType' /\ ThreadType' /\ WorldType'
      BY <2>2 DEF PutClaim, RowType, WorkerType, ThreadType, WorldType
    <3> QED BY <3>1, <3>2, <3>3 DEF TypeOK
  <2>3. CASE Dispatched
    <3>1. QueueType'
      BY <2>3, CountType DEF Dispatched, QueueType
    <3>2. DispatcherType'
      BY <2>3, ContinueType, CapAssumption DEF Dispatched, DispatcherType
    <3>3. RowType' /\ WorkerType' /\ ThreadType' /\ WorldType'
      BY <2>3 DEF Dispatched, RowType, WorkerType, ThreadType, WorldType
    <3> QED BY <3>1, <3>2, <3>3 DEF TypeOK
  <2>4. CASE Pushback
    <3>1. RowType'
      BY <2>4, DeferType DEF Pushback, RowType, DispatcherType, DispatcherHolds
    <3>2. DispatcherType'
      BY <2>4, ContinueType, CapAssumption DEF Pushback, DispatcherType
    <3>3. WorldType'
      BY <2>4, DbFailsType, CapAssumption DEF Pushback, WorldType
    <3>4. QueueType' /\ WorkerType' /\ ThreadType'
      BY <2>4 DEF Pushback, QueueType, WorkerType, ThreadType
    <3> QED BY <3>1, <3>2, <3>3, <3>4 DEF TypeOK
  <2>5. CASE TickFails
    <3>1. DispatcherType'
      BY <2>5, ContinueType, CapAssumption DEF TickFails, DispatcherType
    <3>2. WorldType'
      BY <2>5, DbFailsType, CapAssumption DEF TickFails, WorldType
    <3>3. RowType' /\ QueueType' /\ WorkerType' /\ ThreadType'
      BY <2>5 DEF TickFails, RowType, QueueType, WorkerType, ThreadType
    <3> QED BY <3>1, <3>2, <3>3 DEF TypeOK
  <2>6. ASSUME NEW m \in MsgId, QuietDefers(m) PROVE TypeOK'
    <3>1. RowType'
      BY <2>6, DeferType DEF QuietDefers, RowType
    <3>2. DispatcherType'
      BY <2>6, ContinueType, CapAssumption DEF QuietDefers, DispatcherType
    <3>3. QueueType' /\ WorkerType' /\ ThreadType' /\ WorldType'
      BY <2>6 DEF QuietDefers, QueueType, WorkerType, ThreadType, WorldType
    <3> QED BY <3>1, <3>2, <3>3 DEF TypeOK
  <2>7. ASSUME NEW m \in MsgId, PassOver(m) PROVE TypeOK'
    <3>1. DispatcherType'
      BY <2>7, ContinueType, CapAssumption DEF PassOver, DispatcherType
    <3>2. RowType' /\ QueueType' /\ WorkerType' /\ ThreadType' /\ WorldType'
      BY <2>7 DEF PassOver, RowType, QueueType, WorkerType, ThreadType, WorldType
    <3> QED BY <3>1, <3>2 DEF TypeOK
  <2>8. ASSUME NEW m \in MsgId, Claim(m) PROVE TypeOK'
    <3>1. RowType'
      BY <2>8 DEF Claim, RowType
    <3>2. DispatcherType'
      BY <2>8 DEF Claim, DispatcherType
    <3>3. QueueType' /\ WorkerType' /\ ThreadType' /\ WorldType'
      BY <2>8 DEF Claim, QueueType, WorkerType, ThreadType, WorldType
    <3> QED BY <3>1, <3>2, <3>3 DEF TypeOK
  <2> QED BY <1>7, <2>1, <2>2, <2>3, <2>4, <2>5, <2>6, <2>7, <2>8 DEF DispatcherStep
<1>8. CASE BootStep
  <2>1. CASE Boot
    <3>1. QueueType'
      BY <2>1 DEF Boot, QueueType
    <3>2. RowType' /\ WorkerType' /\ DispatcherType' /\ ThreadType' /\ WorldType'
      BY <2>1 DEF Boot, RowType, WorkerType, DispatcherType, ThreadType, WorldType
    <3> QED BY <3>1, <3>2 DEF TypeOK
  <2>2. CASE Started
    <3>1. QueueType'
      BY <2>2 DEF Started, QueueType
    <3>2. RowType' /\ WorkerType' /\ DispatcherType' /\ ThreadType' /\ WorldType'
      BY <2>2 DEF Started, RowType, WorkerType, DispatcherType, ThreadType, WorldType
    <3> QED BY <3>1, <3>2 DEF TypeOK
  <2>3. ASSUME NEW m \in MsgId, ReplayCapsule(m) PROVE TypeOK'
    <3>1. RowType'
      BY <2>3 DEF ReplayCapsule, RowType
    <3>2. QueueType'
      BY <2>3 DEF ReplayCapsule, QueueType
    <3>3. WorkerType' /\ DispatcherType' /\ ThreadType' /\ WorldType'
      BY <2>3 DEF ReplayCapsule, WorkerType, DispatcherType, ThreadType, WorldType
    <3> QED BY <3>1, <3>2, <3>3 DEF TypeOK
  <2>4. ASSUME NEW m \in MsgId, Replay(m) PROVE TypeOK'
    <3>1. QueueType'
      BY <2>4, CountType DEF Replay, QueueType
    <3>2. RowType' /\ WorkerType' /\ DispatcherType' /\ ThreadType' /\ WorldType'
      BY <2>4 DEF Replay, RowType, WorkerType, DispatcherType, ThreadType, WorldType
    <3> QED BY <3>1, <3>2 DEF TypeOK
  <2>5. ASSUME NEW m \in MsgId, ReplayOverflows(m) PROVE TypeOK'
    <3>1. RowType'
      BY <2>5 DEF ReplayOverflows, RowType
    <3>2. QueueType'
      BY <2>5 DEF ReplayOverflows, QueueType
    <3>3. WorkerType' /\ DispatcherType' /\ ThreadType' /\ WorldType'
      BY <2>5 DEF ReplayOverflows, WorkerType, DispatcherType, ThreadType, WorldType
    <3> QED BY <3>1, <3>2, <3>3 DEF TypeOK
  <2> QED BY <1>8, <2>1, <2>2, <2>3, <2>4, <2>5 DEF BootStep
<1>9. CASE Crash
  <2>1. QueueType'
    BY <1>9 DEF Crash, QueueType
  <2>2. WorkerType'
    BY <1>9 DEF Crash, WorkerType
  <2>3. DispatcherType'
    BY <1>9, CapAssumption DEF Crash, DispatcherType
  <2>4. ThreadType'
    BY <1>9 DEF Crash, ThreadType
  <2>5. WorldType'
    BY <1>9, CapAssumption DEF Crash, WorldType
  <2>6. RowType'
    BY <1>9 DEF Crash, RowType
  <2> QED BY <2>1, <2>2, <2>3, <2>4, <2>5, <2>6 DEF TypeOK
<1>10. CASE Tick
  <2>1. WorldType'
    BY <1>10, CapAssumption DEF Tick, WorldType
  <2>2. RowType' /\ QueueType' /\ WorkerType' /\ DispatcherType' /\ ThreadType'
    BY <1>10 DEF Tick, RowType, QueueType, WorkerType, DispatcherType, ThreadType
  <2> QED BY <2>1, <2>2 DEF TypeOK
<1>11. CASE IdlePoll \/ UNCHANGED vars
  BY <1>11 DEF IdlePoll, vars, RowType, QueueType, WorkerType, DispatcherType, ThreadType,
     WorldType
<1> QED BY <1>1, <1>2, <1>3, <1>4, <1>5, <1>6, <1>7, <1>8, <1>9, <1>10, <1>11 DEF Next

\* As TypeStep, for the rest of the invariant.
LEMMA OwnedStep == IInv /\ [Next]_vars => Owned'
<1> SUFFICES ASSUME TypeOK, Owned, [Next]_vars PROVE Owned'
  BY DEF IInv
<1> USE CapAssumption DEF TypeOK, Owned
<1>1. ASSUME NEW u \in User, AccountStep(u) PROVE Owned'
  <2>1. CASE Register(u)
    <3>1. QueuedCapsuleAllowed'
      BY <2>1 DEF Register, QueuedCapsuleAllowed, RowType, SenderAllowed, RowsOK
    <3>2. WorkerHolds' /\ DispatcherHolds' /\ ThreadsHold' /\ RowsOK' /\ ProcessOK' /\
           RetryOK'
      BY <2>1 DEF Register, WorkerHolds, DispatcherHolds, ThreadsHold, RowsOK, ProcessOK,
         RetryOK
    <3> QED BY <3>1, <3>2 DEF Owned
  <2>2. CASE Approve(u)
    <3>1. QueuedCapsuleAllowed'
      BY <2>2 DEF Approve, QueuedCapsuleAllowed, RowType, SenderAllowed, RowsOK
    <3>2. WorkerHolds' /\ DispatcherHolds' /\ ThreadsHold' /\ RowsOK' /\ ProcessOK' /\
           RetryOK'
      BY <2>2 DEF Approve, WorkerHolds, DispatcherHolds, ThreadsHold, RowsOK, ProcessOK,
         RetryOK
    <3> QED BY <3>1, <3>2 DEF Owned
  <2>3. CASE Revoke(u)
    <3>1. RowsOK'
      BY <2>3 DEF Revoke, Capsules, RowsOK, RowType
    <3>2. ProcessOK'
      BY <2>3 DEF Revoke, Capsules, ProcessOK, ThreadType
    <3>3. RetryOK'
      BY <2>3 DEF Revoke, Capsules, RetryOK, ThreadType, RowType, ThreadsHold
    <3>4. QueuedCapsuleAllowed'
      BY <2>3 DEF Revoke, Capsules, QueuedCapsuleAllowed, RowType, SenderAllowed, RowsOK
    <3>5. WorkerHolds' /\ DispatcherHolds' /\ ThreadsHold'
      BY <2>3 DEF Revoke, WorkerHolds, DispatcherHolds, ThreadsHold
    <3> QED BY <3>1, <3>2, <3>3, <3>4, <3>5 DEF Owned
  <2>4. CASE Delete(u)
    <3>1. RowsOK'
      BY <2>4 DEF Delete, RowsOK, RowType
    <3>2. ProcessOK'
      BY <2>4 DEF Delete, ProcessOK, ThreadType
    <3>3. RetryOK'
      BY <2>4 DEF Delete, RetryOK, ThreadType, RowType, ThreadsHold
    <3>4. QueuedCapsuleAllowed'
      BY <2>4 DEF Delete, QueuedCapsuleAllowed, RowType, SenderAllowed, RowsOK
    <3>5. WorkerHolds' /\ DispatcherHolds' /\ ThreadsHold'
      BY <2>4 DEF Delete, WorkerHolds, DispatcherHolds, ThreadsHold
    <3> QED BY <3>1, <3>2, <3>3, <3>4, <3>5 DEF Owned
  <2> QED BY <1>1, <2>1, <2>2, <2>3, <2>4 DEF AccountStep
<1>2. ASSUME NEW t \in Thread, Request(t) PROVE Owned'
  <2>1. ASSUME NEW u \in User, Arrive(t, u) PROVE Owned'
    <3>1. ThreadsHold'
      BY <2>1 DEF Arrive, ThreadsHold, ThreadType
    <3>2. ProcessOK'
      BY <2>1 DEF Arrive, ProcessOK, ThreadType
    <3>3. RetryOK'
      BY <2>1 DEF Arrive, RetryOK, ThreadType, RowType
    <3>4. WorkerHolds' /\ DispatcherHolds' /\ RowsOK' /\ QueuedCapsuleAllowed'
      BY <2>1 DEF Arrive, WorkerHolds, DispatcherHolds, RowsOK, QueuedCapsuleAllowed,
         SenderAllowed
    <3> QED BY <3>1, <3>2, <3>3, <3>4 DEF Owned
  <2>2. ASSUME NEW u \in User, NEW m \in MsgId, AskCancel(t, u, m) PROVE Owned'
    <3>1. ThreadsHold'
      BY <2>2 DEF AskCancel, ThreadsHold, ThreadType
    <3>2. ProcessOK'
      BY <2>2 DEF AskCancel, ProcessOK, ThreadType
    <3>3. RetryOK'
      BY <2>2 DEF AskCancel, RetryOK, ThreadType, RowType
    <3>4. WorkerHolds' /\ DispatcherHolds' /\ RowsOK' /\ QueuedCapsuleAllowed'
      BY <2>2 DEF AskCancel, WorkerHolds, DispatcherHolds, RowsOK, QueuedCapsuleAllowed,
         SenderAllowed
    <3> QED BY <3>1, <3>2, <3>3, <3>4 DEF Owned
  <2>3. ASSUME NEW m \in MsgId, AskRetry(t, m) PROVE Owned'
    <3>1. ThreadsHold'
      BY <2>3 DEF AskRetry, ThreadsHold, ThreadType
    <3>2. ProcessOK'
      BY <2>3 DEF AskRetry, ProcessOK, ThreadType
    <3>3. RetryOK'
      BY <2>3 DEF AskRetry, RetryOK, ThreadType, RowType, RowsOK
    <3>4. WorkerHolds' /\ DispatcherHolds' /\ RowsOK' /\ QueuedCapsuleAllowed'
      BY <2>3 DEF AskRetry, WorkerHolds, DispatcherHolds, RowsOK, QueuedCapsuleAllowed,
         SenderAllowed
    <3> QED BY <3>1, <3>2, <3>3, <3>4 DEF Owned
  <2> QED BY <1>2, <2>1, <2>2, <2>3 DEF Request
<1>3. ASSUME NEW t \in Thread, ThreadStep(t) PROVE Owned'
  <2>1. CASE Schedule(t)
    <3>1. ThreadsHold'
      BY <2>1 DEF Schedule, Return, ThreadsHold, ThreadType
    <3>2. RowsOK'
      BY <2>1 DEF Schedule, Return, RowsOK, RowType, ThreadsHold, ThreadType
    <3>3. ProcessOK'
      BY <2>1 DEF Schedule, Return, ProcessOK, ThreadType, ThreadsHold, RowType
    <3>4. RetryOK'
      BY <2>1 DEF Schedule, Return, RetryOK, ThreadType, RowType, RowsOK, ThreadsHold
    <3>5. QueuedCapsuleAllowed'
      BY <2>1 DEF Schedule, Return, QueuedCapsuleAllowed, RowType, SenderAllowed, RowsOK,
         ThreadsHold, ThreadType
    <3>6. WorkerHolds' /\ DispatcherHolds'
      BY <2>1 DEF Schedule, WorkerHolds, DispatcherHolds
    <3> QED BY <3>1, <3>2, <3>3, <3>4, <3>5, <3>6 DEF Owned
  <2>2. CASE RejectCapsule(t)
    <3>1. ThreadsHold'
      BY <2>2 DEF RejectCapsule, Return, ThreadsHold, ThreadType
    <3>2. ProcessOK'
      BY <2>2 DEF RejectCapsule, Return, ProcessOK, ThreadType
    <3>3. RetryOK'
      BY <2>2 DEF RejectCapsule, Return, RetryOK, ThreadType, RowType
    <3>4. WorkerHolds' /\ DispatcherHolds' /\ RowsOK' /\ QueuedCapsuleAllowed'
      BY <2>2 DEF RejectCapsule, WorkerHolds, DispatcherHolds, RowsOK, QueuedCapsuleAllowed,
         SenderAllowed
    <3> QED BY <3>1, <3>2, <3>3, <3>4 DEF Owned
  <2>3. CASE Reserve(t)
    <3>1. ThreadsHold'
      BY <2>3 DEF Reserve, Goto, ThreadsHold, ThreadType
    <3>2. ProcessOK'
      BY <2>3 DEF Reserve, Goto, ProcessOK, ThreadType
    <3>3. RetryOK'
      BY <2>3 DEF Reserve, Goto, RetryOK, ThreadType, RowType
    <3>4. WorkerHolds' /\ DispatcherHolds' /\ RowsOK' /\ QueuedCapsuleAllowed'
      BY <2>3 DEF Reserve, WorkerHolds, DispatcherHolds, RowsOK, QueuedCapsuleAllowed,
         SenderAllowed
    <3> QED BY <3>1, <3>2, <3>3, <3>4 DEF Owned
  <2>4. CASE RejectCap(t)
    <3>1. ThreadsHold'
      BY <2>4 DEF RejectCap, Return, ThreadsHold, ThreadType
    <3>2. ProcessOK'
      BY <2>4 DEF RejectCap, Return, ProcessOK, ThreadType
    <3>3. RetryOK'
      BY <2>4 DEF RejectCap, Return, RetryOK, ThreadType, RowType
    <3>4. WorkerHolds' /\ DispatcherHolds' /\ RowsOK' /\ QueuedCapsuleAllowed'
      BY <2>4 DEF RejectCap, WorkerHolds, DispatcherHolds, RowsOK, QueuedCapsuleAllowed,
         SenderAllowed
    <3> QED BY <3>1, <3>2, <3>3, <3>4 DEF Owned
  <2>5. CASE Log(t)
    <3>1. ThreadsHold'
      BY <2>5 DEF Log, ThreadsHold, ThreadType
    <3>2. RowsOK'
      BY <2>5 DEF Log, RowsOK, RowType, ThreadsHold, ThreadType
    <3>3. ProcessOK'
      BY <2>5 DEF Log, ProcessOK, ThreadType, ThreadsHold, RowType
    <3>4. RetryOK'
      BY <2>5 DEF Log, RetryOK, ThreadType, RowType, RowsOK, ThreadsHold
    <3>5. QueuedCapsuleAllowed'
      BY <2>5 DEF Log, QueuedCapsuleAllowed, RowType, SenderAllowed, RowsOK, ThreadsHold,
         ThreadType
    <3>6. WorkerHolds' /\ DispatcherHolds'
      BY <2>5 DEF Log, WorkerHolds, DispatcherHolds
    <3> QED BY <3>1, <3>2, <3>3, <3>4, <3>5, <3>6 DEF Owned
  <2>6. CASE LogFails(t)
    <3>1. ThreadsHold'
      BY <2>6 DEF LogFails, Goto, ThreadsHold, ThreadType
    <3>2. ProcessOK'
      BY <2>6 DEF LogFails, Goto, ProcessOK, ThreadType
    <3>3. RetryOK'
      BY <2>6 DEF LogFails, Goto, RetryOK, ThreadType, RowType
    <3>4. WorkerHolds' /\ DispatcherHolds' /\ RowsOK' /\ QueuedCapsuleAllowed'
      BY <2>6 DEF LogFails, WorkerHolds, DispatcherHolds, RowsOK, QueuedCapsuleAllowed,
         SenderAllowed
    <3> QED BY <3>1, <3>2, <3>3, <3>4 DEF Owned
  <2>7. CASE Put(t)
    <3>1. ThreadsHold'
      BY <2>7 DEF Put, Return, ThreadsHold, ThreadType
    <3>2. ProcessOK'
      BY <2>7 DEF Put, Return, ProcessOK, ThreadType
    <3>3. RetryOK'
      BY <2>7 DEF Put, Return, RetryOK, ThreadType, RowType
    <3>4. WorkerHolds' /\ DispatcherHolds' /\ RowsOK' /\ QueuedCapsuleAllowed'
      BY <2>7 DEF Put, WorkerHolds, DispatcherHolds, RowsOK, QueuedCapsuleAllowed,
         SenderAllowed
    <3> QED BY <3>1, <3>2, <3>3, <3>4 DEF Owned
  <2>8. CASE PutFull(t)
    <3>1. ThreadsHold'
      BY <2>8 DEF PutFull, Goto, ThreadsHold, ThreadType
    <3>2. ProcessOK'
      BY <2>8 DEF PutFull, Goto, ProcessOK, ThreadType
    <3>3. RetryOK'
      BY <2>8 DEF PutFull, Goto, RetryOK, ThreadType, RowType
    <3>4. WorkerHolds' /\ DispatcherHolds' /\ RowsOK' /\ QueuedCapsuleAllowed'
      BY <2>8 DEF PutFull, WorkerHolds, DispatcherHolds, RowsOK, QueuedCapsuleAllowed,
         SenderAllowed
    <3> QED BY <3>1, <3>2, <3>3, <3>4 DEF Owned
  <2>9. CASE Erase(t)
    <3>1. ThreadsHold'
      BY <2>9 DEF Erase, Return, ThreadsHold, ThreadType
    <3>2. RowsOK'
      BY <2>9 DEF Erase, Return, RowsOK, RowType, ThreadsHold, ThreadType
    <3>3. ProcessOK'
      BY <2>9 DEF Erase, Return, ProcessOK, ThreadType, ThreadsHold, RowType
    <3>4. RetryOK'
      BY <2>9 DEF Erase, Return, RetryOK, ThreadType, RowType, RowsOK, ThreadsHold
    <3>5. QueuedCapsuleAllowed'
      BY <2>9 DEF Erase, Return, QueuedCapsuleAllowed, RowType, SenderAllowed, RowsOK,
         ThreadsHold, ThreadType
    <3>6. WorkerHolds' /\ DispatcherHolds'
      BY <2>9 DEF Erase, WorkerHolds, DispatcherHolds
    <3> QED BY <3>1, <3>2, <3>3, <3>4, <3>5, <3>6 DEF Owned
  <2>10. CASE Cancel(t)
    <3>1. ThreadsHold'
      BY <2>10 DEF Cancel, Return, ThreadsHold, ThreadType
    <3>2. RowsOK'
      BY <2>10 DEF Cancel, Return, RowsOK, RowType, ThreadsHold, ThreadType
    <3>3. ProcessOK'
      BY <2>10 DEF Cancel, Return, ProcessOK, ThreadType, ThreadsHold, RowType
    <3>4. RetryOK'
      BY <2>10 DEF Cancel, Return, RetryOK, ThreadType, RowType, RowsOK, ThreadsHold
    <3>5. QueuedCapsuleAllowed'
      BY <2>10 DEF Cancel, Return, QueuedCapsuleAllowed, RowType, SenderAllowed, RowsOK,
         ThreadsHold, ThreadType
    <3>6. WorkerHolds' /\ DispatcherHolds'
      BY <2>10 DEF Cancel, WorkerHolds, DispatcherHolds
    <3> QED BY <3>1, <3>2, <3>3, <3>4, <3>5, <3>6 DEF Owned
  <2>11. CASE RetryPrints(t)
    <3>1. ThreadsHold'
      BY <2>11 DEF RetryPrints, Goto, ThreadsHold, ThreadType
    <3>2. ProcessOK'
      BY <2>11 DEF RetryPrints, Goto, ProcessOK, ThreadType
    <3>3. RetryOK'
      BY <2>11 DEF RetryPrints, Goto, RetryOK, ThreadType, RowType
    <3>4. WorkerHolds' /\ DispatcherHolds' /\ RowsOK' /\ QueuedCapsuleAllowed'
      BY <2>11 DEF RetryPrints, WorkerHolds, DispatcherHolds, RowsOK, QueuedCapsuleAllowed,
         SenderAllowed
    <3> QED BY <3>1, <3>2, <3>3, <3>4 DEF Owned
  <2>12. CASE RetryFails(t)
    <3>1. ThreadsHold'
      BY <2>12 DEF RetryFails, Return, ThreadsHold, ThreadType
    <3>2. ProcessOK'
      BY <2>12 DEF RetryFails, Return, ProcessOK, ThreadType
    <3>3. RetryOK'
      BY <2>12 DEF RetryFails, Return, RetryOK, ThreadType, RowType
    <3>4. WorkerHolds' /\ DispatcherHolds' /\ RowsOK' /\ QueuedCapsuleAllowed'
      BY <2>12 DEF RetryFails, WorkerHolds, DispatcherHolds, RowsOK, QueuedCapsuleAllowed,
         SenderAllowed
    <3> QED BY <3>1, <3>2, <3>3, <3>4 DEF Owned
  <2>13. CASE Mark(t)
    <3>1. ThreadsHold'
      BY <2>13 DEF Mark, Return, UpdateRow, ThreadsHold, ThreadType
    <3>2. RowsOK'
      BY <2>13 DEF Mark, Return, UpdateRow, RowsOK, RowType, ThreadsHold, ThreadType
    <3>3. ProcessOK'
      BY <2>13 DEF Mark, Return, UpdateRow, ProcessOK, ThreadType, ThreadsHold, RowType
    <3>4. RetryOK'
      BY <2>13 DEF Mark, Return, UpdateRow, RetryOK, ThreadType, RowType, RowsOK,
         ThreadsHold
    <3>5. QueuedCapsuleAllowed'
      BY <2>13 DEF Mark, Return, UpdateRow, QueuedCapsuleAllowed, RowType, SenderAllowed,
         RowsOK, ThreadsHold, ThreadType
    <3>6. WorkerHolds' /\ DispatcherHolds'
      BY <2>13 DEF Mark, WorkerHolds, DispatcherHolds
    <3> QED BY <3>1, <3>2, <3>3, <3>4, <3>5, <3>6 DEF Owned
  <2> QED BY <1>3, <2>1, <2>2, <2>3, <2>4, <2>5, <2>6, <2>7, <2>8, <2>9, <2>10, <2>11,
            <2>12, <2>13 DEF ThreadStep
<1>4. ASSUME NEW t \in Thread, Undo(t) PROVE Owned'
  <2>1. ThreadsHold'
    BY <1>4 DEF Undo, Return, Goto, ThreadsHold, ThreadType
  <2>2. ProcessOK'
    BY <1>4 DEF Undo, Return, Goto, ProcessOK, ThreadType
  <2>3. RetryOK'
    BY <1>4 DEF Undo, Return, Goto, RetryOK, ThreadType, RowType
  <2>4. WorkerHolds' /\ DispatcherHolds' /\ RowsOK' /\ QueuedCapsuleAllowed'
    BY <1>4 DEF Undo, WorkerHolds, DispatcherHolds, RowsOK, QueuedCapsuleAllowed,
       SenderAllowed
  <2> QED BY <2>1, <2>2, <2>3, <2>4 DEF Owned
<1>5. CASE WorkerStep
  <2>1. CASE Get
    <3>1. WorkerHolds'
      BY <2>1, HeadTailProperties DEF Get, WorkerHolds, WorkerType, QueueType
    <3>2. ProcessOK'
      BY <2>1 DEF Get, ProcessOK, ThreadType
    <3>3. DispatcherHolds' /\ ThreadsHold' /\ RowsOK' /\ RetryOK' /\ QueuedCapsuleAllowed'
      BY <2>1 DEF Get, DispatcherHolds, ThreadsHold, RowsOK, RetryOK, QueuedCapsuleAllowed,
         SenderAllowed
    <3> QED BY <3>1, <3>2, <3>3 DEF Owned
  <2>2. CASE Read
    <3>1. WorkerHolds'
      BY <2>2 DEF Read, WorkerHolds, WorkerType
    <3>2. ProcessOK'
      BY <2>2 DEF Read, ProcessOK, ThreadType
    <3>3. DispatcherHolds' /\ ThreadsHold' /\ RowsOK' /\ RetryOK' /\ QueuedCapsuleAllowed'
      BY <2>2 DEF Read, DispatcherHolds, ThreadsHold, RowsOK, RetryOK, QueuedCapsuleAllowed,
         SenderAllowed
    <3> QED BY <3>1, <3>2, <3>3 DEF Owned
  <2>3. CASE Skip
    <3>1. WorkerHolds'
      BY <2>3 DEF Skip, WorkerHolds, WorkerType
    <3>2. RowsOK'
      BY <2>3 DEF Skip, RowsOK, RowType, WorkerHolds
    <3>3. ProcessOK'
      BY <2>3 DEF Skip, ProcessOK, ThreadType, RowType
    <3>4. RetryOK'
      BY <2>3 DEF Skip, RetryOK, ThreadType, RowType, RowsOK, ThreadsHold
    <3>5. QueuedCapsuleAllowed'
      BY <2>3 DEF Skip, QueuedCapsuleAllowed, RowType, SenderAllowed
    <3>6. DispatcherHolds' /\ ThreadsHold'
      BY <2>3 DEF Skip, DispatcherHolds, ThreadsHold
    <3> QED BY <3>1, <3>2, <3>3, <3>4, <3>5, <3>6 DEF Owned
  <2>4. CASE ReadFails
    <3>1. WorkerHolds'
      BY <2>4 DEF ReadFails, WorkerHolds, WorkerType
    <3>2. ProcessOK'
      BY <2>4 DEF ReadFails, ProcessOK, ThreadType
    <3>3. DispatcherHolds' /\ ThreadsHold' /\ RowsOK' /\ RetryOK' /\ QueuedCapsuleAllowed'
      BY <2>4 DEF ReadFails, DispatcherHolds, ThreadsHold, RowsOK, RetryOK,
         QueuedCapsuleAllowed, SenderAllowed
    <3> QED BY <3>1, <3>2, <3>3 DEF Owned
  <2>5. CASE QuietHolds
    <3>1. WorkerHolds'
      BY <2>5 DEF QuietHolds, Defer, WorkerHolds, WorkerType
    <3>2. RowsOK'
      BY <2>5 DEF QuietHolds, Defer, RowsOK, RowType, WorkerHolds
    <3>3. ProcessOK'
      BY <2>5 DEF QuietHolds, Defer, ProcessOK, ThreadType, RowType
    <3>4. RetryOK'
      BY <2>5 DEF QuietHolds, Defer, RetryOK, ThreadType, RowType, ThreadsHold
    <3>5. QueuedCapsuleAllowed'
      BY <2>5 DEF QuietHolds, Defer, QueuedCapsuleAllowed, RowType, SenderAllowed,
         WorkerHolds
    <3>6. DispatcherHolds' /\ ThreadsHold'
      BY <2>5 DEF QuietHolds, DispatcherHolds, ThreadsHold
    <3> QED BY <3>1, <3>2, <3>3, <3>4, <3>5, <3>6 DEF Owned
  <2>6. CASE QuietPasses
    <3>1. WorkerHolds'
      BY <2>6 DEF QuietPasses, WorkerHolds, WorkerType
    <3>2. ProcessOK'
      BY <2>6 DEF QuietPasses, ProcessOK, ThreadType
    <3>3. DispatcherHolds' /\ ThreadsHold' /\ RowsOK' /\ RetryOK' /\ QueuedCapsuleAllowed'
      BY <2>6 DEF QuietPasses, DispatcherHolds, ThreadsHold, RowsOK, RetryOK,
         QueuedCapsuleAllowed, SenderAllowed
    <3> QED BY <3>1, <3>2, <3>3 DEF Owned
  <2>7. CASE Prints
    <3>1. WorkerHolds'
      BY <2>7 DEF Prints, WorkerHolds, WorkerType
    <3>2. ProcessOK'
      BY <2>7 DEF Prints, ProcessOK, ThreadType
    <3>3. DispatcherHolds' /\ ThreadsHold' /\ RowsOK' /\ RetryOK' /\ QueuedCapsuleAllowed'
      BY <2>7 DEF Prints, DispatcherHolds, ThreadsHold, RowsOK, RetryOK,
         QueuedCapsuleAllowed, SenderAllowed
    <3> QED BY <3>1, <3>2, <3>3 DEF Owned
  <2>8. CASE PrintFails
    <3>1. WorkerHolds'
      BY <2>8 DEF PrintFails, WorkerHolds, WorkerType
    <3>2. ProcessOK'
      BY <2>8 DEF PrintFails, ProcessOK, ThreadType
    <3>3. DispatcherHolds' /\ ThreadsHold' /\ RowsOK' /\ RetryOK' /\ QueuedCapsuleAllowed'
      BY <2>8 DEF PrintFails, DispatcherHolds, ThreadsHold, RowsOK, RetryOK,
         QueuedCapsuleAllowed, SenderAllowed
    <3> QED BY <3>1, <3>2, <3>3 DEF Owned
  <2>9. CASE Record
    <3>1. WorkerHolds'
      BY <2>9 DEF Record, UpdateRow, WorkerHolds, WorkerType
    <3>2. RowsOK'
      BY <2>9 DEF Record, UpdateRow, RowsOK, RowType, WorkerType
    <3>3. ProcessOK'
      BY <2>9 DEF Record, UpdateRow, ProcessOK, ThreadType, RowType
    <3>4. RetryOK'
      BY <2>9 DEF Record, UpdateRow, RetryOK, ThreadType, RowType, ThreadsHold, WorkerType
    <3>5. QueuedCapsuleAllowed'
      BY <2>9 DEF Record, UpdateRow, QueuedCapsuleAllowed, RowType, SenderAllowed,
         WorkerType
    <3>6. DispatcherHolds' /\ ThreadsHold'
      BY <2>9 DEF Record, DispatcherHolds, ThreadsHold
    <3> QED BY <3>1, <3>2, <3>3, <3>4, <3>5, <3>6 DEF Owned
  <2> QED BY <1>5, <2>1, <2>2, <2>3, <2>4, <2>5, <2>6, <2>7, <2>8, <2>9 DEF WorkerStep
<1>6. CASE Finish
  <2>1. WorkerHolds'
    BY <1>6 DEF Finish, WorkerHolds, WorkerType
  <2>2. ProcessOK'
    BY <1>6 DEF Finish, ProcessOK, ThreadType
  <2>3. DispatcherHolds' /\ ThreadsHold' /\ RowsOK' /\ RetryOK' /\ QueuedCapsuleAllowed'
    BY <1>6 DEF Finish, DispatcherHolds, ThreadsHold, RowsOK, RetryOK, QueuedCapsuleAllowed,
       SenderAllowed
  <2> QED BY <2>1, <2>2, <2>3 DEF Owned
<1>7. CASE DispatcherStep
  <2>1. CASE Scan
    <3>1. DispatcherHolds'
      BY <2>1 DEF Scan, DispatcherHolds, DispatcherType
    <3>2. ProcessOK'
      BY <2>1 DEF Scan, ProcessOK, ThreadType
    <3>3. WorkerHolds' /\ ThreadsHold' /\ RowsOK' /\ RetryOK' /\ QueuedCapsuleAllowed'
      BY <2>1 DEF Scan, WorkerHolds, ThreadsHold, RowsOK, RetryOK, QueuedCapsuleAllowed,
         SenderAllowed
    <3> QED BY <3>1, <3>2, <3>3 DEF Owned
  <2>2. CASE PutClaim
    <3>1. DispatcherHolds'
      BY <2>2 DEF PutClaim, DispatcherHolds, DispatcherType
    <3>2. ProcessOK'
      BY <2>2 DEF PutClaim, ProcessOK, ThreadType
    <3>3. WorkerHolds' /\ ThreadsHold' /\ RowsOK' /\ RetryOK' /\ QueuedCapsuleAllowed'
      BY <2>2 DEF PutClaim, WorkerHolds, ThreadsHold, RowsOK, RetryOK, QueuedCapsuleAllowed,
         SenderAllowed
    <3> QED BY <3>1, <3>2, <3>3 DEF Owned
  <2>3. CASE Dispatched
    <3>1. DispatcherHolds'
      BY <2>3 DEF Dispatched, Continue, DispatcherHolds, DispatcherType
    <3>2. ProcessOK'
      BY <2>3 DEF Dispatched, Continue, ProcessOK, ThreadType
    <3>3. WorkerHolds' /\ ThreadsHold' /\ RowsOK' /\ RetryOK' /\ QueuedCapsuleAllowed'
      BY <2>3 DEF Dispatched, WorkerHolds, ThreadsHold, RowsOK, RetryOK,
         QueuedCapsuleAllowed, SenderAllowed
    <3> QED BY <3>1, <3>2, <3>3 DEF Owned
  <2>4. CASE Pushback
    <3>1. DispatcherHolds'
      BY <2>4 DEF Pushback, Defer, Continue, DispatcherHolds, DispatcherType
    <3>2. RowsOK'
      BY <2>4 DEF Pushback, Defer, Continue, RowsOK, RowType, DispatcherHolds
    <3>3. ProcessOK'
      BY <2>4 DEF Pushback, Defer, Continue, ProcessOK, ThreadType, RowType
    <3>4. RetryOK'
      BY <2>4 DEF Pushback, Defer, Continue, RetryOK, ThreadType, RowType, ThreadsHold
    <3>5. QueuedCapsuleAllowed'
      BY <2>4 DEF Pushback, Defer, Continue, QueuedCapsuleAllowed, RowType, SenderAllowed,
         DispatcherHolds
    <3>6. WorkerHolds' /\ ThreadsHold'
      BY <2>4 DEF Pushback, WorkerHolds, ThreadsHold
    <3> QED BY <3>1, <3>2, <3>3, <3>4, <3>5, <3>6 DEF Owned
  <2>5. CASE TickFails
    <3>1. DispatcherHolds'
      BY <2>5 DEF TickFails, Continue, DispatcherHolds, DispatcherType
    <3>2. ProcessOK'
      BY <2>5 DEF TickFails, Continue, ProcessOK, ThreadType
    <3>3. WorkerHolds' /\ ThreadsHold' /\ RowsOK' /\ RetryOK' /\ QueuedCapsuleAllowed'
      BY <2>5 DEF TickFails, WorkerHolds, ThreadsHold, RowsOK, RetryOK,
         QueuedCapsuleAllowed, SenderAllowed
    <3> QED BY <3>1, <3>2, <3>3 DEF Owned
  <2>6. ASSUME NEW m \in MsgId, QuietDefers(m) PROVE Owned'
    <3>1. DispatcherHolds'
      BY <2>6 DEF QuietDefers, Defer, Continue, DispatcherHolds, DispatcherType
    <3>2. RowsOK'
      BY <2>6 DEF QuietDefers, Defer, Continue, RowsOK, RowType
    <3>3. ProcessOK'
      BY <2>6 DEF QuietDefers, Defer, Continue, ProcessOK, ThreadType, RowType
    <3>4. RetryOK'
      BY <2>6 DEF QuietDefers, Defer, Continue, RetryOK, ThreadType, RowType, ThreadsHold
    <3>5. QueuedCapsuleAllowed'
      BY <2>6 DEF QuietDefers, Defer, Continue, QueuedCapsuleAllowed, RowType, SenderAllowed
    <3>6. WorkerHolds' /\ ThreadsHold'
      BY <2>6 DEF QuietDefers, WorkerHolds, ThreadsHold
    <3> QED BY <3>1, <3>2, <3>3, <3>4, <3>5, <3>6 DEF Owned
  <2>7. ASSUME NEW m \in MsgId, PassOver(m) PROVE Owned'
    <3>1. DispatcherHolds'
      BY <2>7 DEF PassOver, Continue, DispatcherHolds, DispatcherType
    <3>2. ProcessOK'
      BY <2>7 DEF PassOver, Continue, ProcessOK, ThreadType
    <3>3. WorkerHolds' /\ ThreadsHold' /\ RowsOK' /\ RetryOK' /\ QueuedCapsuleAllowed'
      BY <2>7 DEF PassOver, WorkerHolds, ThreadsHold, RowsOK, RetryOK, QueuedCapsuleAllowed,
         SenderAllowed
    <3> QED BY <3>1, <3>2, <3>3 DEF Owned
  <2>8. ASSUME NEW m \in MsgId, Claim(m) PROVE Owned'
    <3>1. DispatcherHolds'
      BY <2>8 DEF Claim, DueAt, DispatcherHolds, DispatcherType
    <3>2. RowsOK'
      BY <2>8 DEF Claim, DueAt, RowsOK, RowType
    <3>3. ProcessOK'
      BY <2>8 DEF Claim, DueAt, ProcessOK, ThreadType, RowType
    <3>4. RetryOK'
      BY <2>8 DEF Claim, DueAt, RetryOK, ThreadType, RowType, ThreadsHold
    <3>5. QueuedCapsuleAllowed'
      BY <2>8 DEF Claim, DueAt, QueuedCapsuleAllowed, RowType, SenderAllowed, RowsOK
    <3>6. WorkerHolds' /\ ThreadsHold'
      BY <2>8 DEF Claim, WorkerHolds, ThreadsHold
    <3> QED BY <3>1, <3>2, <3>3, <3>4, <3>5, <3>6 DEF Owned
  <2> QED BY <1>7, <2>1, <2>2, <2>3, <2>4, <2>5, <2>6, <2>7, <2>8 DEF DispatcherStep
<1>8. CASE BootStep
  <2>1. CASE Boot
    <3>1. ProcessOK'
      BY <2>1 DEF Boot, ProcessOK, ThreadType
    <3>2. WorkerHolds' /\ DispatcherHolds' /\ ThreadsHold' /\ RowsOK' /\ RetryOK' /\
           QueuedCapsuleAllowed'
      BY <2>1 DEF Boot, WorkerHolds, DispatcherHolds, ThreadsHold, RowsOK, RetryOK,
         QueuedCapsuleAllowed, SenderAllowed
    <3> QED BY <3>1, <3>2 DEF Owned
  <2>2. CASE Started
    <3>1. ProcessOK'
      BY <2>2 DEF Started, ProcessOK, ThreadType
    <3>2. WorkerHolds' /\ DispatcherHolds' /\ ThreadsHold' /\ RowsOK' /\ RetryOK' /\
           QueuedCapsuleAllowed'
      BY <2>2 DEF Started, WorkerHolds, DispatcherHolds, ThreadsHold, RowsOK, RetryOK,
         QueuedCapsuleAllowed, SenderAllowed
    <3> QED BY <3>1, <3>2 DEF Owned
  <2>3. ASSUME NEW m \in MsgId, ReplayCapsule(m) PROVE Owned'
    <3>1. RowsOK'
      BY <2>3 DEF ReplayCapsule, FirstTodo, RowsOK, RowType, ProcessOK
    <3>2. ProcessOK'
      BY <2>3 DEF ReplayCapsule, FirstTodo, ProcessOK, ThreadType, RowType
    <3>3. RetryOK'
      BY <2>3 DEF ReplayCapsule, FirstTodo, RetryOK, ThreadType, RowType, ProcessOK
    <3>4. QueuedCapsuleAllowed'
      BY <2>3 DEF ReplayCapsule, FirstTodo, QueuedCapsuleAllowed, RowType, SenderAllowed
    <3>5. WorkerHolds' /\ DispatcherHolds' /\ ThreadsHold'
      BY <2>3 DEF ReplayCapsule, WorkerHolds, DispatcherHolds, ThreadsHold
    <3> QED BY <3>1, <3>2, <3>3, <3>4, <3>5 DEF Owned
  <2>4. ASSUME NEW m \in MsgId, Replay(m) PROVE Owned'
    <3>1. ProcessOK'
      BY <2>4 DEF Replay, FirstTodo, ProcessOK, ThreadType
    <3>2. WorkerHolds' /\ DispatcherHolds' /\ ThreadsHold' /\ RowsOK' /\ RetryOK' /\
           QueuedCapsuleAllowed'
      BY <2>4 DEF Replay, WorkerHolds, DispatcherHolds, ThreadsHold, RowsOK, RetryOK,
         QueuedCapsuleAllowed, SenderAllowed
    <3> QED BY <3>1, <3>2 DEF Owned
  <2>5. ASSUME NEW m \in MsgId, ReplayOverflows(m) PROVE Owned'
    <3>1. RowsOK'
      BY <2>5 DEF ReplayOverflows, FirstTodo, RowsOK, RowType, ProcessOK
    <3>2. ProcessOK'
      BY <2>5 DEF ReplayOverflows, FirstTodo, ProcessOK, ThreadType, RowType
    <3>3. RetryOK'
      BY <2>5 DEF ReplayOverflows, FirstTodo, RetryOK, ThreadType, RowType, ProcessOK
    <3>4. QueuedCapsuleAllowed'
      BY <2>5 DEF ReplayOverflows, FirstTodo, QueuedCapsuleAllowed, RowType, SenderAllowed
    <3>5. WorkerHolds' /\ DispatcherHolds' /\ ThreadsHold'
      BY <2>5 DEF ReplayOverflows, WorkerHolds, DispatcherHolds, ThreadsHold
    <3> QED BY <3>1, <3>2, <3>3, <3>4, <3>5 DEF Owned
  <2> QED BY <1>8, <2>1, <2>2, <2>3, <2>4, <2>5 DEF BootStep
<1>9. CASE Crash
  <2>1. WorkerHolds'
    BY <1>9 DEF Crash, WorkerHolds, WorkerType
  <2>2. DispatcherHolds'
    BY <1>9 DEF Crash, DispatcherHolds, DispatcherType
  <2>3. ThreadsHold'
    BY <1>9 DEF Crash, ThreadsHold, ThreadType
  <2>4. ProcessOK'
    BY <1>9 DEF Crash, ProcessOK, ThreadType
  <2>5. RetryOK'
    BY <1>9 DEF Crash, RetryOK, ThreadType, RowType
  <2>6. RowsOK' /\ QueuedCapsuleAllowed'
    BY <1>9 DEF Crash, RowsOK, QueuedCapsuleAllowed, SenderAllowed
  <2> QED BY <2>1, <2>2, <2>3, <2>4, <2>5, <2>6 DEF Owned
<1>10. CASE Tick
  <2>1. WorkerHolds' /\ DispatcherHolds' /\ ThreadsHold' /\ RowsOK' /\ ProcessOK' /\
         RetryOK' /\ QueuedCapsuleAllowed'
    BY <1>10 DEF Tick, WorkerHolds, DispatcherHolds, ThreadsHold, RowsOK, ProcessOK,
       RetryOK, QueuedCapsuleAllowed, SenderAllowed
  <2> QED BY <2>1 DEF Owned
<1>11. CASE IdlePoll \/ UNCHANGED vars
  BY <1>11 DEF IdlePoll, vars, WorkerHolds, DispatcherHolds, ThreadsHold, RowsOK, ProcessOK,
     RetryOK, QueuedCapsuleAllowed, SenderAllowed
<1> QED BY <1>1, <1>2, <1>3, <1>4, <1>5, <1>6, <1>7, <1>8, <1>9, <1>10, <1>11 DEF Next

LEMMA InitType == Init => TypeOK
  BY ApprovedAssumption, CapAssumption
  DEF Init, TypeOK, RowType, QueueType, WorkerType, DispatcherType, ThreadType, WorldType

LEMMA InitOwned == Init => Owned
  BY DEF Init, Owned, WorkerHolds, DispatcherHolds, ThreadsHold, RowsOK, ProcessOK,
     RetryOK, QueuedCapsuleAllowed

LEMMA InvCorrect == Spec => []IInv
<1>1. Init => IInv
  BY InitType, InitOwned DEF IInv
<1>2. IInv /\ [Next]_vars => IInv'
  BY TypeStep, OwnedStep DEF IInv
<1> QED BY <1>1, <1>2, PTL DEF Spec

-----------------------------------------------------------------------------
(* Theorems *)

\* The rows, the queue, the counters and every actor's local state keep their
\* types: no path of the handlers leaves a worker, dispatcher or request with a
\* message or sender it does not have.
THEOREM TypeCorrect == Spec => []TypeOK
<1>1. IInv => TypeOK
  BY DEF IInv
<1> QED BY InvCorrect, <1>1, PTL

\* Whoever revokes or deletes whom, and however often the process restarts, a
\* capsule in the print queue belongs to an allowed friend, so the worker's and
\* the replay's own checks never find anything to cancel.
THEOREM CapsuleSenderAllowed == Spec => []QueuedCapsuleAllowed
<1>1. IInv => QueuedCapsuleAllowed
  BY DEF IInv, Owned
<1> QED BY InvCorrect, <1>1, PTL

\* What one step may do to a message cancelled before the worker had read it.
Unburnt(m) == paper'[m] = paper[m] /\ (Burned(m)' \/ status'[m] = "absent")

LEMMA BurnedStep ==
  ASSUME MaxDbFails = 0, IInv, [Next]_vars, NEW m \in MsgId, Burned(m)
  PROVE  Unburnt(m)
<1> USE DEF IInv, TypeOK, Owned
<1>1. ASSUME UNCHANGED <<status, wpc, wjob, paper>> PROVE Unburnt(m)
  BY <1>1 DEF Unburnt, Burned, InHand
<1>2. ~DbFails
  BY CapAssumption DEF DbFails, WorldType
<1>3. ASSUME NEW u \in User, AccountStep(u) PROVE Unburnt(m)
  BY <1>3 DEF AccountStep, Register, Approve, Revoke, Delete, Capsules, Unburnt, Burned,
     InHand, RowType
<1>4. ASSUME NEW t \in Thread, Request(t) PROVE Unburnt(m)
  BY <1>4, <1>1 DEF Request, Arrive, AskCancel, AskRetry
<1>5. ASSUME NEW t \in Thread, ThreadStep(t) PROVE Unburnt(m)
  <2>1. CASE Schedule(t) \/ Log(t)
    <3>1. nextId # m
      BY <2>1 DEF Schedule, Log, Burned, RowsOK
    <3> QED BY <2>1, <3>1 DEF Schedule, Log, Unburnt, Burned, InHand, RowType
  <2>2. CASE RejectCapsule(t) \/ Reserve(t) \/ RejectCap(t) \/ LogFails(t) \/ Put(t)
             \/ PutFull(t) \/ RetryFails(t)
    BY <2>2, <1>1 DEF RejectCapsule, Reserve, RejectCap, LogFails, Put, PutFull, RetryFails
  <2>3. CASE Erase(t)
    BY <2>3, <1>2 DEF Erase, Unburnt, Burned, InHand, RowType
  <2>4. CASE Cancel(t)
    BY <2>4 DEF Cancel, Unburnt, Burned, InHand, RowType
  <2>5. CASE RetryPrints(t) \/ Mark(t)
    <3>1. tmsg[t] # m
      BY <2>5 DEF RetryPrints, Mark, RetryOK, Burned
    <3> QED BY <2>5, <3>1, <1>2 DEF RetryPrints, Mark, UpdateRow, Unburnt, Burned, InHand,
               RowType, WorldType
  <2> QED BY <1>5, <2>1, <2>2, <2>3, <2>4, <2>5 DEF ThreadStep
<1>6. ASSUME NEW t \in Thread, Undo(t) PROVE Unburnt(m)
  BY <1>6, <1>1 DEF Undo
<1>7. CASE WorkerStep
  <2>1. CASE Get
    BY <2>1 DEF Get, Unburnt, Burned, InHand
  <2>2. CASE Read
    BY <2>2 DEF Read, Unburnt, Burned, InHand
  <2>3. CASE Skip
    BY <2>3 DEF Skip, Unburnt, Burned, InHand, RowType
  <2>4. CASE ReadFails
    BY <2>4, <1>2 DEF ReadFails, Unburnt, Burned, InHand
  <2>5. CASE QuietHolds
    BY <2>5 DEF QuietHolds, Defer, Unburnt, Burned, InHand, RowType
  <2>6. CASE QuietPasses \/ PrintFails
    BY <2>6 DEF QuietPasses, PrintFails, Unburnt, Burned, InHand
  <2>7. CASE Prints
    BY <2>7 DEF Prints, Unburnt, Burned, InHand, WorldType
  <2>8. CASE Record
    BY <2>8 DEF Record, UpdateRow, Unburnt, Burned, InHand, RowType
  <2> QED BY <1>7, <2>1, <2>2, <2>3, <2>4, <2>5, <2>6, <2>7, <2>8 DEF WorkerStep
<1>8. CASE Finish
  BY <1>8 DEF Finish, Unburnt, Burned, InHand
<1>9. CASE DispatcherStep
  <2>1. CASE Scan \/ PutClaim \/ Dispatched \/ TickFails
    BY <2>1, <1>1 DEF Scan, PutClaim, Dispatched, TickFails
  <2>2. CASE Pushback
    BY <2>2 DEF Pushback, Defer, Unburnt, Burned, InHand, RowType
  <2>3. ASSUME NEW d \in MsgId, QuietDefers(d) PROVE Unburnt(m)
    BY <2>3 DEF QuietDefers, Defer, Unburnt, Burned, InHand, RowType
  <2>4. ASSUME NEW d \in MsgId, PassOver(d) PROVE Unburnt(m)
    BY <2>4, <1>1 DEF PassOver
  <2>5. ASSUME NEW d \in MsgId, Claim(d) PROVE Unburnt(m)
    BY <2>5 DEF Claim, DueAt, Unburnt, Burned, InHand, RowType
  <2> QED BY <1>9, <2>1, <2>2, <2>3, <2>4, <2>5 DEF DispatcherStep
<1>10. CASE BootStep
  <2>1. CASE Boot \/ Started \/ \E d \in MsgId : Replay(d)
    BY <2>1, <1>1 DEF Boot, Started, Replay
  <2>2. ASSUME NEW d \in MsgId, ReplayCapsule(d) \/ ReplayOverflows(d) PROVE Unburnt(m)
    <3>1. d # m
      BY <2>2 DEF ReplayCapsule, ReplayOverflows, FirstTodo, ProcessOK, Burned
    <3> QED BY <2>2, <3>1 DEF ReplayCapsule, ReplayOverflows, Unburnt, Burned, InHand, RowType
  <2> QED BY <1>10, <2>1, <2>2 DEF BootStep
<1>11. CASE Crash
  BY <1>11 DEF Crash, Unburnt, Burned, InHand
<1>12. CASE Tick \/ IdlePoll \/ UNCHANGED vars
  BY <1>12, <1>1 DEF Tick, IdlePoll, vars
<1> QED BY <1>3, <1>4, <1>5, <1>6, <1>7, <1>8, <1>9, <1>10, <1>11, <1>12 DEF Next

\* As long as SQLite works, cancelling wins for good: neither the dispatcher nor
\* a deferral, a retry, a replay or the worker can print, queue or revive a
\* message that was cancelled before the worker had read it.
THEOREM CancelledStaysCancelled == ASSUME MaxDbFails = 0 PROVE Spec => BurnedStaysBurned
<1>1. IInv /\ [Next]_vars =>
        [\A m \in MsgId : Burned(m) => Unburnt(m)]_vars
  BY BurnedStep
<1>2. (\A m \in MsgId : Burned(m) => Unburnt(m)) <=>
      (\A m \in MsgId : Burned(m) =>
         /\ paper'[m] = paper[m]
         /\ Burned(m)' \/ status'[m] = "absent")
  BY DEF Unburnt
<1> QED BY <1>1, <1>2, InvCorrect, PTL DEF Spec, BurnedStaysBurned

-----------------------------------------------------------------------------
(* The per-friend cap, while the process lives. *)

\* A claim under way has a slot to count: the lock keeps requests from taking
\* it between the dispatcher's look at the counter and its increment.
ClaimHasSlot ==
  dpc \in {"put", "inc"} => dmsg < nextId /\ inflight[sender[dmsg]] < UserCap

CapInv == phase = "up" /\ CapRespected /\ ClaimHasSlot

LEMMA DecrementedLess ==
  ASSUME inflight \in [User -> Nat], NEW u, NEW v \in User
  PROVE  Decremented(u)[v] <= inflight[v]
  BY DEF Decremented

LEMMA CapStep ==
  ASSUME MaxCrashes = 0, IInv, [Next]_vars, CapInv
  PROVE  CapInv'
<1> USE CapAssumption DEF IInv, TypeOK, CapInv, CapRespected
<1>1. ASSUME UNCHANGED <<phase, sender, inflight, nextId>>, UNCHANGED <<dpc, dmsg>>
      PROVE  CapInv'
  BY <1>1 DEF ClaimHasSlot
\* Outside the locked section ClaimHasSlot says nothing.
<1>2. ASSUME UNCHANGED <<phase, inflight>>, dpc' \notin {"put", "inc"} PROVE CapInv'
  BY <1>2 DEF ClaimHasSlot
<1>3. ASSUME NEW u \in User, AccountStep(u) PROVE CapInv'
  BY <1>3, <1>1 DEF AccountStep, Register, Approve, Revoke, Delete
<1>4. ASSUME NEW t \in Thread, Request(t) PROVE CapInv'
  BY <1>4, <1>1 DEF Request, Arrive, AskCancel, AskRetry
<1>5. ASSUME NEW t \in Thread, ThreadStep(t) PROVE CapInv'
  <2>1. CASE Schedule(t) \/ Log(t)
    <3>1. ClaimHasSlot'
      <4>1. ASSUME dpc \in {"put", "inc"} PROVE dmsg < nextId' /\ sender'[dmsg] = sender[dmsg]
        BY <2>1, <4>1 DEF Schedule, Log, ClaimHasSlot, Owned, DispatcherHolds, RowType
      <4> QED BY <2>1, <4>1 DEF Schedule, Log, ClaimHasSlot
    <3> QED BY <2>1, <3>1 DEF Schedule, Log
  <2>2. CASE Reserve(t)
    <3>1. tuser[t] \in User
      BY <2>2 DEF Reserve, Owned, ThreadsHold
    <3>2. \A u \in User : inflight'[u] <= UserCap
      BY <2>2, <3>1 DEF Reserve, Incremented, QueueType
    <3> QED BY <2>2, <3>2 DEF Reserve, LockFree, ClaimHasSlot
  <2>3. CASE RejectCapsule(t) \/ RejectCap(t) \/ LogFails(t) \/ Put(t) \/ PutFull(t)
             \/ Erase(t) \/ Cancel(t) \/ RetryPrints(t) \/ RetryFails(t) \/ Mark(t)
    BY <2>3, <1>1 DEF RejectCapsule, RejectCap, LogFails, Put, PutFull, Erase, Cancel,
       RetryPrints, RetryFails, Mark
  <2> QED BY <1>5, <2>1, <2>2, <2>3 DEF ThreadStep
<1>6. ASSUME NEW t \in Thread, Undo(t) PROVE CapInv'
  <2>1. \A u \in User : inflight'[u] <= UserCap
    BY <1>6, DecrementedLess, CountType DEF Undo, QueueType
  <2> QED BY <1>6, <2>1 DEF Undo, LockFree, ClaimHasSlot
<1>7. CASE WorkerStep
  BY <1>7, <1>1 DEF WorkerStep, Get, Read, Skip, ReadFails, QuietHolds, QuietPasses, Prints,
     PrintFails, Record
<1>8. CASE Finish
  <2>1. \A u \in User : inflight'[u] <= UserCap
    BY <1>8, DecrementedLess, CountType DEF Finish, QueueType
  <2> QED BY <1>8, <2>1 DEF Finish, LockFree, ClaimHasSlot
<1>9. CASE DispatcherStep
  <2>1. CASE Scan \/ Pushback \/ TickFails \/ \E m \in MsgId : QuietDefers(m) \/ PassOver(m)
    BY <2>1, <1>2 DEF Scan, Pushback, TickFails, QuietDefers, PassOver, Continue
  <2>2. ASSUME NEW m \in MsgId, Claim(m) PROVE CapInv'
    <3>1. m < nextId
      BY <2>2 DEF Claim, DueAt, Owned, RowsOK
    <3> QED BY <2>2, <3>1 DEF Claim, ClaimHasSlot
  <2>3. CASE PutClaim
    BY <2>3 DEF PutClaim, ClaimHasSlot
  <2>4. CASE Dispatched
    <3>1. \A u \in User : inflight'[u] <= UserCap
      BY <2>4 DEF Dispatched, ClaimHasSlot, Incremented, QueueType
    <3> QED BY <2>4, <3>1 DEF Dispatched, Continue, ClaimHasSlot
  <2> QED BY <1>9, <2>1, <2>2, <2>3, <2>4 DEF DispatcherStep
\* The process is up, and stays up.
<1>10. CASE BootStep \/ Crash
  BY <1>10 DEF BootStep, Boot, Started, ReplayCapsule, Replay, ReplayOverflows, Crash, WorldType
<1>11. CASE Tick \/ IdlePoll \/ UNCHANGED vars
  BY <1>11, <1>1 DEF Tick, IdlePoll, vars
<1> QED BY <1>3, <1>4, <1>5, <1>6, <1>7, <1>8, <1>9, <1>10, <1>11 DEF Next

\* While the process lives no friend ever holds more than _PER_USER_QUEUE_CAP
\* slots, however many request threads send at once and whatever the dispatcher
\* claims between their checks.
THEOREM CapKept == ASSUME MaxCrashes = 0 PROVE Spec => []CapRespected
<1>1. Init => CapInv
  BY CapAssumption DEF Init, CapInv, CapRespected, ClaimHasSlot
<1>2. IInv /\ CapInv /\ [Next]_vars => CapInv'
  BY CapStep
<1>3. CapInv => CapRespected
  BY DEF CapInv
<1> QED BY <1>1, <1>2, <1>3, InvCorrect, PTL DEF Spec

-----------------------------------------------------------------------------
(* Who holds a message.  A row on its way to the printer is in exactly one *)
(* hand: a queue entry, the worker, the dispatcher's claim, a request or   *)
(* the replay; the invariant says so without counting, and the counts the  *)
(* properties speak of follow from it.                                     *)

InQueue(m)      == \E i \in 1..Len(queue) : queue[i] = m
AtWorker(m)     == wjob = m /\ wpc \in {"read", "quiet", "print", "record"}
AtDispatcher(m) == dmsg = m /\ dpc = "put"
AtThread(t, m)  == tmsg[t] = m /\ pc[t] \in {"logged", "undo", "erase"}
AtRequest(m)    == \E t \in Thread : AtThread(t, m)

Held(m) == InQueue(m) \/ AtWorker(m) \/ AtDispatcher(m) \/ AtRequest(m) \/ m \in todo

\* No message is held twice.
OneHand ==
  /\ \A i, j \in 1..Len(queue) : queue[i] = queue[j] => i = j
  /\ \A m \in MsgId :
       /\ \A t, u \in Thread : AtThread(t, m) /\ AtThread(u, m) => t = u
       /\ InQueue(m) => ~AtWorker(m) /\ ~AtDispatcher(m) /\ ~AtRequest(m) /\ m \notin todo
       /\ AtWorker(m) => ~AtDispatcher(m) /\ ~AtRequest(m) /\ m \notin todo
       /\ AtDispatcher(m) => ~AtRequest(m) /\ m \notin todo
       /\ AtRequest(m) => m \notin todo

\* What is held has been accepted, and has not settled.
HeldWaits ==
  \A m \in MsgId : Held(m) => m < nextId /\ status[m] \in {"queued", "cancelled", "absent"}

\* The owner retries only what nobody holds.
RetryFree == \A t \in Thread : pc[t] \in {"retry", "mark"} => ~Held(tmsg[t])

\* What a tick has found due is nobody's, and cannot be claimed but by this tick.
DueFree ==
  /\ dpc = "sleep" => due = {}
  /\ \A m \in due : ~Held(m) /\ status[m] # "queued" /\ m < nextId

DownEmpty == phase = "down" => queue = << >>

\* A request has no message before it has inserted one.
EmptyHanded == \A t \in Thread : pc[t] \in {"idle", "auth", "reserved"} => tmsg[t] = NoMsg

Hands == OneHand /\ HeldWaits /\ RetryFree /\ DueFree /\ DownEmpty /\ EmptyHanded

-----------------------------------------------------------------------------
USE DEF MsgId, NoMsg, Time, Null, UserStatus, MsgStatus,
        durable, workerVars, dispVars, threadVars, bootVars, faultVars, printVars,
        notStatus, offThread, offWorker, offDispatcher, offBoot, offAccount

\* Most steps hand nothing on: hands are kept or emptied, a row keeps its status,
\* is cancelled or goes, or is nobody's afterwards.
Loosens ==
  /\ UNCHANGED queue /\ todo' \subseteq todo /\ due' \subseteq due
  /\ phase' = "down" => phase = "down"
  /\ nextId' \in {nextId, nextId + 1}
  /\ dpc' = "sleep" => due' = {}
  /\ \A m \in MsgId :
       /\ AtWorker(m)' => AtWorker(m)
       /\ AtDispatcher(m)' => AtDispatcher(m)
       /\ \A t \in Thread : AtThread(t, m)' => AtThread(t, m)
       /\ \/ status'[m] \in {status[m], "cancelled", "absent"}
          \/ status'[m] # "queued" /\ ~Held(m)'
  /\ \A t \in Thread : pc'[t] \in {"retry", "mark"} =>
       pc[t] \in {"retry", "mark"} /\ tmsg'[t] = tmsg[t]
  /\ \A t \in Thread : pc'[t] \in {"idle", "auth", "reserved"} =>
       tmsg'[t] = NoMsg \/ (pc[t] \in {"idle", "auth", "reserved"} /\ tmsg'[t] = tmsg[t])

LEMMA HandsLoosen == ASSUME IInv, Hands, Loosens PROVE Hands'
<1> USE DEF IInv, TypeOK, Hands, Loosens
<1>1. \A m : InQueue(m)' <=> InQueue(m)
  BY DEF InQueue
<1>2. \A m \in MsgId : /\ AtRequest(m)' => AtRequest(m)
                       /\ Held(m)' => Held(m)
  BY <1>1 DEF AtRequest, Held
<1>3. OneHand'
  BY <1>1, <1>2 DEF OneHand
<1>4. HeldWaits'
  BY <1>2 DEF HeldWaits, RowType
<1>5. RetryFree'
  BY <1>2 DEF RetryFree, Owned, ThreadsHold
<1>6. DueFree'
  BY <1>2 DEF DueFree, DispatcherType, RowType
<1>7. DownEmpty' /\ EmptyHanded'
  BY DEF DownEmpty, EmptyHanded
<1> QED BY <1>3, <1>4, <1>5, <1>6, <1>7

\* A message moves from another hand to the end of the queue.
Enqueues(e) ==
  /\ queue' = Append(queue, e) /\ Held(e) /\ ~InQueue(e)
  /\ todo' \subseteq todo /\ e \notin todo'
  /\ UNCHANGED <<phase, status, nextId, due>> /\ phase # "down"
  /\ dpc' = "sleep" => dpc = "sleep"
  /\ \A m \in MsgId :
       /\ AtWorker(m)' => AtWorker(m) /\ m # e
       /\ AtDispatcher(m)' => AtDispatcher(m) /\ m # e
       /\ \A t \in Thread : AtThread(t, m)' => AtThread(t, m) /\ m # e
  /\ \A t \in Thread : pc'[t] \in {"retry", "mark"} =>
       pc[t] \in {"retry", "mark"} /\ tmsg'[t] = tmsg[t]
  /\ \A t \in Thread : pc'[t] \in {"idle", "auth", "reserved"} =>
       tmsg'[t] = NoMsg \/ (pc[t] \in {"idle", "auth", "reserved"} /\ tmsg'[t] = tmsg[t])

LEMMA HandsEnqueue == ASSUME IInv, Hands, NEW e \in MsgId, Enqueues(e) PROVE Hands'
<1> USE DEF IInv, TypeOK, Hands, Enqueues
<1>1. /\ Len(queue') = Len(queue) + 1 /\ Len(queue) \in Nat
      /\ \A i \in 1..Len(queue) : queue'[i] = queue[i]
      /\ queue'[Len(queue) + 1] = e
  BY DEF QueueType
<1>2. \A m : InQueue(m)' <=> InQueue(m) \/ m = e
  BY <1>1 DEF InQueue
<1>3. \A m \in MsgId : /\ AtRequest(m)' => AtRequest(m) /\ m # e
                       /\ Held(m)' => Held(m)
  BY <1>2 DEF AtRequest, Held
<1>4. OneHand'
  <2>1. \A i, j \in 1..Len(queue') : queue'[i] = queue'[j] => i = j
    <3> SUFFICES ASSUME NEW i \in 1..Len(queue'), NEW j \in 1..Len(queue'),
                        queue'[i] = queue'[j]
                 PROVE  i = j
      OBVIOUS
    <3>1. CASE i \in 1..Len(queue) /\ j \in 1..Len(queue)
      BY <1>1, <3>1 DEF OneHand
    <3>2. CASE i = Len(queue) + 1 /\ j \in 1..Len(queue)
      BY <1>1, <3>2 DEF InQueue
    <3>3. CASE j = Len(queue) + 1 /\ i \in 1..Len(queue)
      BY <1>1, <3>3 DEF InQueue
    <3>4. CASE i = Len(queue) + 1 /\ j = Len(queue) + 1
      BY <3>4
    <3> QED BY <1>1, <3>1, <3>2, <3>3, <3>4
  <2> QED BY <1>2, <1>3, <2>1 DEF OneHand
<1>5. HeldWaits'
  BY <1>3 DEF HeldWaits
<1>6. RetryFree'
  BY <1>3 DEF RetryFree, Owned, ThreadsHold
<1>7. DueFree'
  BY <1>3 DEF DueFree, DispatcherType
<1>8. DownEmpty' /\ EmptyHanded'
  BY DEF DownEmpty, EmptyHanded
<1> QED BY <1>4, <1>5, <1>6, <1>7, <1>8

\* One step per action: most loosen, some put a message at the end of the queue,
\* the rest take a message up.
LEMMA HandsStep == IInv /\ Hands /\ [Next]_vars => Hands'
<1> SUFFICES ASSUME IInv, Hands, [Next]_vars PROVE Hands'
  OBVIOUS
<1> USE DEF IInv, TypeOK, Owned
<1>1. ASSUME UNCHANGED <<queue, wpc, wjob, dpc, dmsg, due, pc, tmsg, todo, phase, nextId>>,
             \A m \in MsgId : status'[m] \in {status[m], "cancelled", "absent"}
      PROVE  Hands'
  <2>1. Loosens
    BY <1>1 DEF Loosens, AtWorker, AtDispatcher, AtThread, Hands, DueFree
  <2> QED BY <2>1, HandsLoosen
<1>2. ASSUME NEW u \in User, AccountStep(u) PROVE Hands'
  BY <1>2, <1>1 DEF AccountStep, Register, Approve, Revoke, Delete
<1>3. ASSUME NEW t \in Thread, Request(t) PROVE Hands'
  <2>1. CASE (\E u \in User : Arrive(t, u)) \/ (\E u \in User, m \in MsgId : AskCancel(t, u, m))
    <3>1. Loosens
      BY <2>1 DEF Arrive, AskCancel, Loosens, AtWorker, AtDispatcher, AtThread, Hands,
         DueFree, ThreadType
    <3> QED BY <3>1, HandsLoosen
  <2>2. ASSUME NEW m \in MsgId, AskRetry(t, m) PROVE Hands'
    <3>1. \A n : InQueue(n)' <=> InQueue(n)
      BY <2>2 DEF AskRetry, InQueue
    <3>2. \A o \in Thread, n \in MsgId : AtThread(o, n)' <=> AtThread(o, n)
      BY <2>2 DEF AskRetry, AtThread, ThreadType
    <3>3. \A n \in MsgId : (AtRequest(n)' <=> AtRequest(n)) /\ (Held(n)' <=> Held(n))
      BY <2>2, <3>1, <3>2 DEF AskRetry, AtRequest, Held, AtWorker, AtDispatcher
    <3>4. OneHand'
      BY <2>2, <3>1, <3>2, <3>3 DEF AskRetry, Hands, OneHand, AtWorker, AtDispatcher
    <3>5. HeldWaits' /\ DueFree' /\ DownEmpty'
      BY <2>2, <3>3 DEF AskRetry, Hands, HeldWaits, DueFree, DownEmpty, DispatcherType
    <3>6. RetryFree'
      BY <2>2, <3>3 DEF AskRetry, Hands, RetryFree, HeldWaits, ThreadType, ThreadsHold
    <3>7. EmptyHanded'
      BY <2>2 DEF AskRetry, Hands, EmptyHanded, ThreadType
    <3> QED BY <3>4, <3>5, <3>6, <3>7 DEF Hands
  <2> QED BY <1>3, <2>1, <2>2 DEF Request
<1>4. ASSUME NEW t \in Thread, ThreadStep(t) PROVE Hands'
  <2>1. CASE Schedule(t)
    <3>1. Loosens
      BY <2>1 DEF Schedule, Return, Loosens, AtWorker, AtDispatcher, AtThread, Held, AtRequest,
         InQueue, Hands, HeldWaits, DueFree, ThreadType, RowType
    <3> QED BY <3>1, HandsLoosen
  <2>2. CASE RejectCapsule(t) \/ RejectCap(t) \/ RetryFails(t)
    <3>1. Loosens
      BY <2>2 DEF RejectCapsule, RejectCap, RetryFails, Return, Loosens, AtWorker, AtDispatcher,
         AtThread, Hands, DueFree, ThreadType
    <3> QED BY <3>1, HandsLoosen
  <2>3. CASE Reserve(t) \/ LogFails(t) \/ PutFull(t) \/ RetryPrints(t)
    <3>1. Loosens
      BY <2>3 DEF Reserve, LogFails, PutFull, RetryPrints, Goto, Loosens, AtWorker, AtDispatcher,
         AtThread, Hands, DueFree, EmptyHanded, ThreadType
    <3> QED BY <3>1, HandsLoosen
  <2>4. CASE Cancel(t)
    <3>1. Loosens
      BY <2>4 DEF Cancel, Return, Loosens, AtWorker, AtDispatcher, AtThread, Hands, DueFree,
         ThreadType, RowType
    <3> QED BY <3>1, HandsLoosen
  <2>5. CASE Mark(t)
    <3>1. PICK d \in MsgId : d = tmsg[t] /\ ~Held(d)
      BY <2>5 DEF Mark, ThreadsHold, Hands, RetryFree
    <3>2. \A m \in MsgId : Held(m)' => Held(m)
      BY <2>5 DEF Mark, Return, Held, InQueue, AtWorker, AtDispatcher, AtRequest, AtThread,
         ThreadType
    <3>3. \A m \in MsgId : status'[m] = status[m] \/ (m = d /\ status'[m] # "queued")
      BY <2>5, <3>1 DEF Mark, UpdateRow, RowType
    <3>4. Loosens
      BY <2>5, <3>1, <3>2, <3>3 DEF Mark, Return, Loosens, AtWorker, AtDispatcher, AtThread,
         Hands, DueFree, ThreadType
    <3> QED BY <3>4, HandsLoosen
  <2>6. CASE Erase(t)
    <3>1. Loosens
      BY <2>6 DEF Erase, Return, Loosens, AtWorker, AtDispatcher, AtThread, Hands, DueFree,
         ThreadType, RowType
    <3> QED BY <3>1, HandsLoosen
  <2>7. CASE Put(t)
    <3>1. tmsg[t] \in MsgId /\ AtThread(t, tmsg[t])
      BY <2>7 DEF Put, AtThread, ThreadsHold
    <3>2. Held(tmsg[t]) /\ AtRequest(tmsg[t])
      BY <3>1 DEF Held, AtRequest
    <3>3. Enqueues(tmsg[t])
      BY <2>7, <3>1, <3>2 DEF Put, Return, Enqueues, AtWorker, AtDispatcher, AtThread, Hands,
         OneHand, ThreadType, ProcessOK
    <3> QED BY <3>1, <3>3, HandsEnqueue
  <2>8. CASE Log(t)
    <3> USE DEF Hands
    <3>1. \A m \in MsgId : Held(m) => m # nextId
      BY DEF HeldWaits, RowType
    <3>2. \A m : InQueue(m)' <=> InQueue(m)
      BY <2>8 DEF Log, InQueue
    <3>3. \A o \in Thread, m \in MsgId :
            AtThread(o, m)' <=> AtThread(o, m) \/ (o = t /\ m = nextId)
      BY <2>8 DEF Log, AtThread, ThreadType
    <3>4. \A m \in MsgId : /\ AtRequest(m)' <=> AtRequest(m) \/ m = nextId
                           /\ Held(m)' <=> Held(m) \/ m = nextId
      BY <2>8, <3>2, <3>3 DEF Log, AtRequest, Held, AtWorker, AtDispatcher
    <3>5. ~Held(nextId) /\ ~InQueue(nextId) /\ ~AtWorker(nextId) /\ ~AtDispatcher(nextId)
          /\ ~AtRequest(nextId) /\ nextId \notin todo /\ \A o \in Thread : ~AtThread(o, nextId)
      BY <2>8, <3>1 DEF Log, Held, AtRequest
    <3>6. OneHand'
      BY <2>8, <3>2, <3>3, <3>4, <3>5 DEF Log, OneHand, AtWorker, AtDispatcher
    <3>7. HeldWaits'
      BY <2>8, <3>4 DEF Log, HeldWaits, RowType
    <3>8. RetryFree'
      BY <2>8, <3>4 DEF Log, RetryFree, RetryOK, ThreadType, ThreadsHold, RowType
    <3>9. DueFree'
      BY <2>8, <3>4 DEF Log, DueFree, DispatcherType, RowType
    <3>10. DownEmpty' /\ EmptyHanded'
      BY <2>8 DEF Log, DownEmpty, EmptyHanded, ThreadType
    <3> QED BY <3>6, <3>7, <3>8, <3>9, <3>10
  <2> QED BY <1>4, <2>1, <2>2, <2>3, <2>4, <2>5, <2>6, <2>7, <2>8 DEF ThreadStep
<1>5. ASSUME NEW t \in Thread, Undo(t) PROVE Hands'
  <2>1. Loosens
    BY <1>5 DEF Undo, Return, Goto, Loosens, AtWorker, AtDispatcher, AtThread, Hands, DueFree,
       ThreadType
  <2> QED BY <2>1, HandsLoosen
<1>6. CASE WorkerStep
  <2>1. CASE Get
    <3> USE DEF Hands
    <3>1. /\ Len(queue) \in Nat \ {0} /\ Len(queue') = Len(queue) - 1
          /\ \A i \in 1..Len(queue') : queue'[i] = queue[i + 1]
      <4>1. queue \in Seq(MsgId) /\ queue # << >> /\ queue' = Tail(queue)
        BY <2>1 DEF Get, QueueType
      <4>2. queue' \in Seq(MsgId) /\ Len(queue') = Len(queue) - 1
        BY <4>1, HeadTailProperties
      <4>3. \A i \in 1..Len(queue') : queue'[i] = queue[i + 1]
        BY <4>1, HeadTailProperties
      <4> QED BY <4>1, <4>2, <4>3
    <3> PICK h \in MsgId : h = queue[1] /\ h = Head(queue)
      <4>1. queue \in Seq(MsgId) /\ queue # << >> /\ queue[1] = Head(queue)
        BY <2>1 DEF Get, QueueType
      <4>2. Head(queue) \in MsgId
        BY <4>1, HeadTailProperties
      <4> QED BY <4>1, <4>2
    <3>2. InQueue(h) /\ ~InQueue(h)' /\ \A m : m # h => (InQueue(m)' <=> InQueue(m))
      <4>1. InQueue(h)
        BY <3>1 DEF InQueue
      <4>2. ~InQueue(h)'
        BY <3>1 DEF InQueue, OneHand
      <4>3. ASSUME NEW m, m # h PROVE InQueue(m)' <=> InQueue(m)
        <5>1. ASSUME NEW i \in 1..Len(queue), queue[i] = m PROVE InQueue(m)'
          <6>1. i - 1 \in 1..Len(queue') /\ queue'[i - 1] = queue[i]
            BY <3>1, <4>3, <5>1
          <6> QED BY <5>1, <6>1 DEF InQueue
        <5>2. ASSUME NEW i \in 1..Len(queue'), queue'[i] = m PROVE InQueue(m)
          BY <3>1, <5>2 DEF InQueue
        <5> QED BY <5>1, <5>2 DEF InQueue
      <4> QED BY <4>1, <4>2, <4>3
    <3>3. \A i, j \in 1..Len(queue') : queue'[i] = queue'[j] => i = j
      BY <3>1 DEF OneHand
    <3>4. \A m \in MsgId : ~AtWorker(m) /\ (AtWorker(m)' <=> m = h)
      BY <2>1 DEF Get, AtWorker
    <3>5. \A m \in MsgId : /\ AtRequest(m)' <=> AtRequest(m)
                           /\ Held(m)' <=> Held(m)
                           /\ \A t \in Thread : AtThread(t, m)' <=> AtThread(t, m)
      BY <2>1, <3>2, <3>4 DEF Get, AtRequest, AtThread, AtDispatcher, Held
    <3>6. OneHand'
      BY <2>1, <3>1, <3>2, <3>3, <3>4, <3>5 DEF Get, OneHand, AtDispatcher
    <3>7. HeldWaits' /\ RetryFree' /\ DueFree' /\ DownEmpty' /\ EmptyHanded'
      BY <2>1, <3>5 DEF Get, HeldWaits, RetryFree, DueFree, DownEmpty, EmptyHanded,
         ThreadsHold, DispatcherType
    <3> QED BY <3>6, <3>7
  <2>2. CASE Read \/ ReadFails \/ QuietPasses \/ Prints \/ PrintFails
    <3>1. Loosens
      BY <2>2 DEF Read, ReadFails, QuietPasses, Prints, PrintFails, Loosens, AtWorker,
         AtDispatcher, AtThread, Hands, DueFree, EmptyHanded
    <3> QED BY <3>1, HandsLoosen
  <2>3. CASE Skip
    <3>1. Loosens
      BY <2>3 DEF Skip, Loosens, AtWorker, AtDispatcher, AtThread, Hands, DueFree, EmptyHanded,
         RowType
    <3> QED BY <3>1, HandsLoosen
  <2>4. CASE QuietHolds \/ Record
    <3>1. AtWorker(wjob) /\ wjob \in MsgId
      BY <2>4 DEF QuietHolds, Record, AtWorker, WorkerHolds
    <3>2. /\ UNCHANGED <<queue, todo, due, phase, nextId, dpc, dmsg, pc, tmsg, wjob>>
          /\ wpc' = "dec"
      BY <2>4 DEF QuietHolds, Record
    <3>3. \A m \in MsgId : /\ InQueue(m)' <=> InQueue(m)
                           /\ AtRequest(m)' <=> AtRequest(m)
                           /\ AtDispatcher(m)' <=> AtDispatcher(m)
      BY <3>2 DEF InQueue, AtRequest, AtThread, AtDispatcher
    <3>4. ~Held(wjob)'
      BY <3>1, <3>2, <3>3 DEF Held, Hands, OneHand, AtWorker
    <3>5. \A m \in MsgId : status'[m] = status[m] \/ (m = wjob /\ status'[m] # "queued")
                          \/ status'[m] = "absent"
      BY <2>4 DEF QuietHolds, Record, Defer, UpdateRow, RowType, WorkerType
    <3>6. Loosens
      BY <3>2, <3>4, <3>5 DEF Loosens, AtWorker, AtDispatcher, AtThread, Hands, DueFree,
         EmptyHanded
    <3> QED BY <3>6, HandsLoosen
  <2> QED BY <1>6, <2>1, <2>2, <2>3, <2>4 DEF WorkerStep
<1>7. CASE Finish
  <2>1. Loosens
    BY <1>7 DEF Finish, Loosens, AtWorker, AtDispatcher, AtThread, Hands, DueFree, EmptyHanded
  <2> QED BY <2>1, HandsLoosen
<1>8. CASE DispatcherStep
  <2>1. CASE Scan
    <3>1. \A m \in MsgId : Held(m)' <=> Held(m)
      BY <2>1 DEF Scan, Held, InQueue, AtWorker, AtDispatcher, AtRequest, AtThread
    <3>2. OneHand'
      BY <2>1 DEF Scan, Hands, OneHand, InQueue, AtWorker, AtDispatcher, AtRequest, AtThread
    <3>3. HeldWaits' /\ RetryFree' /\ DownEmpty' /\ EmptyHanded'
      BY <2>1, <3>1 DEF Scan, Hands, HeldWaits, RetryFree, DownEmpty, EmptyHanded, ThreadsHold
    <3>4. DueFree'
      BY <2>1, <3>1 DEF Scan, Hands, HeldWaits, DueFree, DueAt, RowsOK
    <3> QED BY <3>2, <3>3, <3>4 DEF Hands
  <2>2. CASE PutClaim
    <3>1. dmsg \in MsgId /\ AtDispatcher(dmsg)
      BY <2>2 DEF PutClaim, AtDispatcher, DispatcherHolds
    <3>2. Enqueues(dmsg)
      BY <2>2, <3>1 DEF PutClaim, Enqueues, AtWorker, AtDispatcher, AtThread, AtRequest, Held,
         Hands, OneHand, EmptyHanded, ProcessOK
    <3> QED BY <3>1, <3>2, HandsEnqueue
  <2>3. CASE Dispatched \/ TickFails
    <3>1. Loosens
      BY <2>3 DEF Dispatched, TickFails, Continue, Loosens, AtWorker, AtDispatcher, AtThread,
         Hands, EmptyHanded
    <3> QED BY <3>1, HandsLoosen
  <2>4. CASE Pushback
    <3>1. PICK d \in MsgId : d = dmsg /\ AtDispatcher(d)
      BY <2>4 DEF Pushback, AtDispatcher, DispatcherHolds
    <3>2. /\ UNCHANGED <<queue, todo, phase, nextId, wpc, wjob, pc, tmsg>>
          /\ dpc' = "sleep" /\ due' = {}
      BY <2>4 DEF Pushback, Continue
    <3>3. \A m \in MsgId : /\ InQueue(m)' <=> InQueue(m)
                           /\ AtRequest(m)' <=> AtRequest(m)
                           /\ AtWorker(m)' <=> AtWorker(m)
                           /\ ~AtDispatcher(m)'
      BY <3>2 DEF InQueue, AtRequest, AtThread, AtDispatcher, AtWorker
    <3>4. ~Held(d)'
      BY <3>1, <3>2, <3>3 DEF Held, Hands, OneHand
    <3>5. \A m \in MsgId : status'[m] = status[m] \/ (m = d /\ status'[m] # "queued")
      BY <2>4, <3>1 DEF Pushback, Defer, RowType
    <3>6. Loosens
      BY <3>2, <3>3, <3>4, <3>5 DEF Loosens, AtThread, EmptyHanded, Hands
    <3> QED BY <3>6, HandsLoosen
  <2>5. ASSUME NEW d \in MsgId, QuietDefers(d) \/ PassOver(d) PROVE Hands'
    <3>1. \A m \in MsgId : Held(m)' => Held(m)
      BY <2>5 DEF QuietDefers, PassOver, Continue, Held, InQueue, AtWorker, AtDispatcher,
         AtRequest, AtThread
    <3>2. ~Held(d)'
      BY <2>5, <3>1 DEF QuietDefers, PassOver, Hands, DueFree
    <3>3. \A m \in MsgId : status'[m] = status[m] \/ (m = d /\ status'[m] # "queued")
      BY <2>5 DEF QuietDefers, PassOver, Defer, RowType
    <3>4. Loosens
      BY <2>5, <3>2, <3>3 DEF QuietDefers, PassOver, Continue, Loosens, AtWorker, AtDispatcher,
         AtThread, EmptyHanded, Hands
    <3> QED BY <3>4, HandsLoosen
  <2>6. ASSUME NEW d \in MsgId, Claim(d) PROVE Hands'
    <3> USE DEF Hands
    <3>1. ~Held(d) /\ d < nextId
      BY <2>6 DEF Claim, DueFree
    <3>2. \A m \in MsgId : /\ InQueue(m)' <=> InQueue(m)
                           /\ AtRequest(m)' <=> AtRequest(m)
                           /\ AtWorker(m)' <=> AtWorker(m)
                           /\ ~AtDispatcher(m) /\ (AtDispatcher(m)' <=> m = d)
                           /\ \A t \in Thread : AtThread(t, m)' <=> AtThread(t, m)
      BY <2>6 DEF Claim, InQueue, AtRequest, AtThread, AtDispatcher, AtWorker
    <3>3. \A m \in MsgId : Held(m)' <=> Held(m) \/ m = d
      BY <2>6, <3>2 DEF Claim, Held
    <3>4. OneHand'
      BY <2>6, <3>1, <3>2 DEF Claim, OneHand, Held
    <3>5. HeldWaits'
      BY <2>6, <3>1, <3>3 DEF Claim, HeldWaits, RowType
    <3>6. RetryFree'
      BY <2>6, <3>3 DEF Claim, DueAt, RetryFree, RetryOK, ThreadsHold
    <3>7. DueFree'
      BY <2>6, <3>3 DEF Claim, DueFree, DispatcherType, RowType
    <3>8. DownEmpty' /\ EmptyHanded'
      BY <2>6 DEF Claim, DownEmpty, EmptyHanded
    <3> QED BY <3>4, <3>5, <3>6, <3>7, <3>8
  <2> QED BY <1>8, <2>1, <2>2, <2>3, <2>4, <2>5, <2>6 DEF DispatcherStep
<1>9. CASE BootStep
  <2>1. CASE Boot
    <3>1. /\ queue = << >> /\ wpc = "get" /\ dpc = "sleep" /\ due = {}
          /\ \A t \in Thread : pc[t] = "idle"
      BY <2>1 DEF Boot, Hands, DownEmpty, DueFree, ProcessOK
    <3>2. \A m \in MsgId : /\ ~InQueue(m)' /\ ~AtWorker(m)' /\ ~AtDispatcher(m)' /\ ~AtRequest(m)'
                           /\ \A t \in Thread : ~AtThread(t, m)'
                           /\ Held(m)' => status[m] = "queued"
      BY <2>1, <3>1 DEF Boot, InQueue, AtWorker, AtDispatcher, AtRequest, AtThread, Held
    <3>3. OneHand'
      <4>1. \A i, j \in 1..Len(queue') : queue'[i] = queue'[j] => i = j
        BY <2>1, <3>1 DEF Boot
      <4> QED BY <3>2, <4>1 DEF OneHand
    <3>4. HeldWaits'
      <4>1. \A m \in MsgId : Held(m)' => m < nextId' /\ status'[m] = "queued"
        BY <2>1, <3>2 DEF Boot, RowsOK
      <4> QED BY <4>1 DEF HeldWaits
    <3>5. RetryFree' /\ DueFree' /\ DownEmpty' /\ EmptyHanded'
      BY <2>1, <3>1 DEF Boot, RetryFree, DueFree, DownEmpty, Hands, EmptyHanded
    <3> QED BY <3>3, <3>4, <3>5 DEF Hands
  <2>2. CASE Started
    <3>1. Loosens
      BY <2>2 DEF Started, Loosens, AtWorker, AtDispatcher, AtThread, EmptyHanded, Hands, DueFree
    <3> QED BY <3>1, HandsLoosen
  <2>3. ASSUME NEW d \in MsgId, ReplayCapsule(d) \/ ReplayOverflows(d) PROVE Hands'
    <3>1. Held(d) /\ d \in todo
      BY <2>3 DEF ReplayCapsule, ReplayOverflows, FirstTodo, Held
    <3>2. \A m \in MsgId : Held(m)' => Held(m) /\ m # d
      BY <2>3, <3>1 DEF ReplayCapsule, ReplayOverflows, Held, InQueue, AtWorker, AtDispatcher,
         AtRequest, AtThread, Hands, OneHand
    <3>3. \A m \in MsgId : status'[m] = status[m] \/ (m = d /\ status'[m] # "queued")
      BY <2>3 DEF ReplayCapsule, ReplayOverflows, RowType
    <3>4. Loosens
      BY <2>3, <3>2, <3>3 DEF ReplayCapsule, ReplayOverflows, Loosens, AtWorker, AtDispatcher,
         AtThread, EmptyHanded, Hands, DueFree
    <3> QED BY <3>4, HandsLoosen
  <2>4. ASSUME NEW d \in MsgId, Replay(d) PROVE Hands'
    <3>1. Held(d) /\ d \in todo
      BY <2>4 DEF Replay, FirstTodo, Held
    <3>2. Enqueues(d)
      BY <2>4, <3>1 DEF Replay, Enqueues, AtWorker, AtDispatcher, AtThread, AtRequest,
         Hands, OneHand, EmptyHanded
    <3> QED BY <3>2, HandsEnqueue
  <2> QED BY <1>9, <2>1, <2>2, <2>3, <2>4 DEF BootStep
<1>10. CASE Crash
  <2>1. \A m \in MsgId : ~Held(m)' /\ \A t \in Thread : ~AtThread(t, m)'
    BY <1>10 DEF Crash, Held, InQueue, AtWorker, AtDispatcher, AtRequest, AtThread
  <2>2. OneHand'
    BY <1>10, <2>1 DEF Crash, OneHand, Held
  <2>3. HeldWaits' /\ RetryFree' /\ DueFree' /\ DownEmpty' /\ EmptyHanded'
    BY <1>10, <2>1 DEF Crash, HeldWaits, RetryFree, DueFree, DownEmpty, EmptyHanded
  <2> QED BY <2>2, <2>3 DEF Hands
<1>11. CASE Tick \/ IdlePoll \/ UNCHANGED vars
  BY <1>11, <1>1 DEF Tick, IdlePoll, vars
<1> QED BY <1>2, <1>3, <1>4, <1>5, <1>6, <1>7, <1>8, <1>9, <1>10, <1>11 DEF Next

LEMMA InitHands == Init => Hands
  BY DEF Init, Hands, OneHand, HeldWaits, RetryFree, DueFree, DownEmpty, EmptyHanded, Held,
     InQueue, AtWorker, AtDispatcher, AtRequest, AtThread

LEMMA HandsCorrect == Spec => []Hands
  BY InitHands, HandsStep, InvCorrect, PTL DEF Spec

-----------------------------------------------------------------------------
(* From hands to the counts of Holders. *)

LEMMA AtMostOne ==
  ASSUME NEW S, \A x, y \in S : x = y
  PROVE  Cardinality(S) = IF S = {} THEN 0 ELSE 1
<1>1. CASE S = {}
  BY <1>1, FS_EmptySet
<1>2. CASE S # {}
  <2>1. PICK x : x \in S
    BY <1>2
  <2>2. S = {x}
    BY <2>1
  <2> QED BY <1>2, <2>2, FS_Singleton
<1> QED BY <1>1, <1>2

LEMMA HoldersCount ==
  ASSUME Hands, TypeOK, NEW m \in MsgId
  PROVE  Holders(m) = IF Held(m) THEN 1 ELSE 0
<1> USE DEF Hands, OneHand
<1> DEFINE Q == {i \in 1..Len(queue) : queue[i] = m}
           W == {w \in {wjob} : w = m /\ wpc \in {"read", "quiet", "print", "record"}}
           D == {d \in {dmsg} : d = m /\ dpc = "put"}
           R == {t \in Thread : tmsg[t] = m /\ pc[t] \in {"logged", "undo", "erase"}}
           B == todo \cap {m}
<1>1. Cardinality(Q) = IF InQueue(m) THEN 1 ELSE 0
  BY AtMostOne DEF InQueue
<1>2. Cardinality(W) = IF AtWorker(m) THEN 1 ELSE 0
  <2>1. (W = {}) <=> ~AtWorker(m)
    BY DEF AtWorker
  <2> QED BY <2>1, AtMostOne
<1>3. Cardinality(D) = IF AtDispatcher(m) THEN 1 ELSE 0
  <2>1. (D = {}) <=> ~AtDispatcher(m)
    BY DEF AtDispatcher
  <2> QED BY <2>1, AtMostOne
<1>4. Cardinality(R) = IF AtRequest(m) THEN 1 ELSE 0
  BY AtMostOne DEF AtRequest, AtThread
<1>5. Cardinality(B) = IF m \in todo THEN 1 ELSE 0
  BY AtMostOne
<1>6. Holders(m) = Cardinality(Q) + Cardinality(W) + Cardinality(D) + Cardinality(R)
                   + Cardinality(B)
  BY DEF Holders
<1> HIDE DEF Q, W, D, R, B
<1> QED BY <1>1, <1>2, <1>3, <1>4, <1>5, <1>6 DEF Held

-----------------------------------------------------------------------------
(* Theorems *)

\* Whichever of requests, dispatcher, worker and restarts run against each other,
\* a row is never in two hands, so nobody can print a job a second time by
\* having queued it twice.
THEOREM NeverHeldTwice == Spec => []NoDoubleHolder
<1>1. IInv /\ Hands => NoDoubleHolder
  BY HoldersCount DEF IInv, NoDoubleHolder
<1> QED BY <1>1, InvCorrect, HandsCorrect, PTL

\* While the process runs, a row that says 'queued' is in somebody's hands.
QueuedHeld == phase # "down" => \A m \in MsgId : status[m] = "queued" => Held(m)

LEMMA InQueueAppend ==
  ASSUME QueueType, NEW e \in MsgId, queue' = Append(queue, e), NEW m
  PROVE  InQueue(m)' <=> InQueue(m) \/ m = e
<1>1. /\ Len(queue') = Len(queue) + 1 /\ Len(queue) \in Nat
      /\ \A i \in 1..Len(queue) : queue'[i] = queue[i]
      /\ queue'[Len(queue) + 1] = e
  BY DEF QueueType
<1> QED BY <1>1 DEF InQueue

LEMMA InQueueTail ==
  ASSUME QueueType, queue # << >>, queue' = Tail(queue), NEW m
  PROVE  /\ InQueue(m)' => InQueue(m)
         /\ InQueue(m) => InQueue(m)' \/ m = Head(queue)
<1>1. queue' \in Seq(MsgId) /\ Len(queue') = Len(queue) - 1
  BY HeadTailProperties DEF QueueType
<1>2. \A i \in 1..Len(queue') : queue'[i] = queue[i + 1]
  BY HeadTailProperties DEF QueueType
<1>3. ASSUME NEW i \in 1..Len(queue), queue[i] = m PROVE InQueue(m)' \/ m = Head(queue)
  <2>1. CASE i = 1
    BY <1>3, <2>1 DEF QueueType
  <2>2. CASE i # 1
    <3>1. i - 1 \in 1..Len(queue') /\ queue'[i - 1] = queue[i]
      BY <1>1, <1>2, <1>3, <2>2 DEF QueueType
    <3> QED BY <1>3, <3>1 DEF InQueue
  <2> QED BY <2>1, <2>2
<1>4. ASSUME NEW i \in 1..Len(queue'), queue'[i] = m PROVE InQueue(m)
  BY <1>1, <1>2, <1>4 DEF InQueue, QueueType
<1> QED BY <1>3, <1>4 DEF InQueue

\* SQLite raised in the write by which the holder of m would have settled it.
LostWrite(m) ==
  /\ DbFails
  /\ \/ Record /\ wjob = m
     \/ Pushback /\ dmsg = m
     \/ \E t \in Thread : Erase(t) /\ tmsg[t] = m

\* What says 'queued' and is held, or has just come to say so, is held.
LEMMA HeldStep ==
  ASSUME IInv, [Next]_vars, phase' # "down", NEW m \in MsgId, status'[m] = "queued",
         phase # "down" /\ status[m] = "queued" => Held(m), ~LostWrite(m)
  PROVE  Held(m)'
<1> USE DEF IInv, TypeOK, Owned
<1>1. ASSUME UNCHANGED <<queue, wpc, wjob, dpc, dmsg, pc, tmsg, todo, phase>>,
             status[m] = "queued"
      PROVE  Held(m)'
  BY <1>1 DEF Held, InQueue, AtWorker, AtDispatcher, AtRequest, AtThread
<1>3. ASSUME NEW u \in User, AccountStep(u) PROVE Held(m)'
  BY <1>3, <1>1 DEF AccountStep, Register, Approve, Revoke, Delete
<1>4. ASSUME NEW t \in Thread, Request(t) PROVE Held(m)'
  BY <1>4 DEF Request, Arrive, AskCancel, AskRetry, Held, InQueue, AtWorker,
     AtDispatcher, AtRequest, AtThread, ThreadType
<1>5. ASSUME NEW t \in Thread, ThreadStep(t) PROVE Held(m)'
  <2>1. CASE Log(t)
    <3>1. CASE m = nextId
      BY <2>1, <3>1 DEF Log, Held, AtRequest, AtThread, ThreadType
    <3>2. CASE m # nextId
      BY <2>1, <3>2 DEF Log, Held, InQueue, AtWorker, AtDispatcher, AtRequest,
         AtThread, ThreadType, RowType
    <3> QED BY <3>1, <3>2
  <2>2. CASE Put(t)
    <3>1. \A n : InQueue(n)' <=> InQueue(n) \/ n = tmsg[t]
      BY <2>2, InQueueAppend DEF Put, ThreadsHold
    <3> QED BY <2>2, <3>1 DEF Put, Return, Held, AtWorker, AtDispatcher,
               AtRequest, AtThread, ThreadType
  <2>3. CASE Erase(t)
    <3>1. m # tmsg[t] /\ status[m] = "queued"
      BY <2>3 DEF LostWrite, Erase, RowType
    <3> QED BY <2>3, <3>1 DEF Erase, Return, Held, InQueue, AtWorker, AtDispatcher,
               AtRequest, AtThread, ThreadType
  <2>4. CASE Schedule(t) \/ RejectCapsule(t) \/ Reserve(t) \/ RejectCap(t) \/ LogFails(t)
             \/ PutFull(t) \/ Cancel(t) \/ RetryPrints(t) \/ RetryFails(t) \/ Mark(t)
    <3>1. UNCHANGED <<queue, wpc, wjob, dpc, dmsg, todo, phase>> /\ status[m] = "queued"
      BY <2>4 DEF Schedule, RejectCapsule, Reserve, RejectCap, LogFails, PutFull, Cancel,
         RetryPrints, RetryFails, Mark, UpdateRow, RowType
    <3>2. \A o \in Thread : AtThread(o, m) => AtThread(o, m)'
      BY <2>4 DEF Schedule, RejectCapsule, Reserve, RejectCap, LogFails, PutFull, Cancel,
         RetryPrints, RetryFails, Mark, Return, Goto, AtThread, ThreadType
    <3> QED BY <3>1, <3>2 DEF Held, InQueue, AtWorker, AtDispatcher, AtRequest
  <2> QED BY <1>5, <2>1, <2>2, <2>3, <2>4 DEF ThreadStep
<1>6. ASSUME NEW t \in Thread, Undo(t) PROVE Held(m)'
  BY <1>6 DEF Undo, Return, Goto, Held, InQueue, AtWorker, AtDispatcher,
     AtRequest, AtThread, ThreadType
<1>7. CASE WorkerStep
  <2>1. CASE Get
    BY <2>1, InQueueTail DEF Get, Held, AtWorker, AtDispatcher, AtRequest, AtThread
  <2>2. CASE Read \/ ReadFails \/ QuietPasses \/ Prints \/ PrintFails
    BY <2>2 DEF Read, ReadFails, QuietPasses, Prints, PrintFails, Held, InQueue,
       AtWorker, AtDispatcher, AtRequest, AtThread
  <2>3. CASE Skip \/ QuietHolds \/ Record
    <3>1. m # wjob /\ status[m] = "queued"
      BY <2>3 DEF LostWrite, Skip, QuietHolds, Record, Defer, UpdateRow, RowType, WorkerType
    <3> QED BY <2>3, <3>1 DEF Skip, QuietHolds, Record, Held, InQueue, AtWorker,
               AtDispatcher, AtRequest, AtThread
  <2> QED BY <1>7, <2>1, <2>2, <2>3 DEF WorkerStep
<1>8. CASE Finish
  BY <1>8 DEF Finish, Held, InQueue, AtWorker, AtDispatcher, AtRequest, AtThread
<1>9. CASE DispatcherStep
  <2>1. CASE Scan \/ Dispatched \/ TickFails
    BY <2>1 DEF Scan, Dispatched, TickFails, Continue, Held, InQueue, AtWorker,
       AtDispatcher, AtRequest, AtThread
  <2>2. CASE PutClaim
    <3>1. \A n : InQueue(n)' <=> InQueue(n) \/ n = dmsg
      BY <2>2, InQueueAppend DEF PutClaim, DispatcherHolds
    <3> QED BY <2>2, <3>1 DEF PutClaim, Held, AtWorker, AtDispatcher, AtRequest,
               AtThread
  <2>3. CASE Pushback
    <3>1. m # dmsg /\ status[m] = "queued"
      BY <2>3 DEF LostWrite, Pushback, Defer, RowType, DispatcherHolds
    <3> QED BY <2>3, <3>1 DEF Pushback, Continue, Held, InQueue, AtWorker,
               AtDispatcher, AtRequest, AtThread
  <2>4. ASSUME NEW d \in MsgId, QuietDefers(d) \/ PassOver(d) PROVE Held(m)'
    <3>1. status[m] = "queued"
      BY <2>4 DEF QuietDefers, PassOver, Defer, RowType
    <3> QED BY <2>4, <3>1 DEF QuietDefers, PassOver, Continue, Held, InQueue,
               AtWorker, AtDispatcher, AtRequest, AtThread
  <2>5. ASSUME NEW d \in MsgId, Claim(d) PROVE Held(m)'
    <3>1. m = d \/ status[m] = "queued"
      BY <2>5 DEF Claim, RowType
    <3> QED BY <2>5, <3>1 DEF Claim, Held, InQueue, AtWorker, AtDispatcher,
               AtRequest, AtThread
  <2> QED BY <1>9, <2>1, <2>2, <2>3, <2>4, <2>5 DEF DispatcherStep
<1>10. CASE BootStep
  <2>1. CASE Boot
    BY <2>1 DEF Boot, Held
  <2>2. CASE Started
    BY <2>2 DEF Started, Held, InQueue, AtWorker, AtDispatcher, AtRequest, AtThread
  <2>3. ASSUME NEW d \in MsgId, ReplayCapsule(d) \/ ReplayOverflows(d) PROVE Held(m)'
    <3>1. m # d /\ status[m] = "queued"
      BY <2>3 DEF ReplayCapsule, ReplayOverflows, RowType
    <3> QED BY <2>3, <3>1 DEF ReplayCapsule, ReplayOverflows, Held, InQueue,
               AtWorker, AtDispatcher, AtRequest, AtThread
  <2>4. ASSUME NEW d \in MsgId, Replay(d) PROVE Held(m)'
    <3>1. \A n : InQueue(n)' <=> InQueue(n) \/ n = d
      BY <2>4, InQueueAppend DEF Replay
    <3> QED BY <2>4, <3>1 DEF Replay, Held, AtWorker, AtDispatcher, AtRequest,
               AtThread
  <2> QED BY <1>10, <2>1, <2>2, <2>3, <2>4 DEF BootStep
<1>11. CASE Crash
  BY <1>11 DEF Crash
<1>12. CASE Tick \/ IdlePoll \/ UNCHANGED vars
  BY <1>12, <1>1 DEF Tick, IdlePoll, vars
<1> QED BY <1>3, <1>4, <1>5, <1>6, <1>7, <1>8, <1>9, <1>10, <1>11, <1>12 DEF Next

LEMMA QueuedStep == ASSUME MaxDbFails = 0, IInv, QueuedHeld, [Next]_vars PROVE QueuedHeld'
<1>1. ~DbFails
  BY CapAssumption DEF DbFails, IInv, TypeOK, WorldType
<1>2. ASSUME phase' # "down", NEW m \in MsgId, status'[m] = "queued" PROVE Held(m)'
  <2>1. ~LostWrite(m) /\ (phase # "down" /\ status[m] = "queued" => Held(m))
    BY <1>1 DEF QueuedHeld, LostWrite
  <2> QED BY <1>2, <2>1, HeldStep
<1> QED BY <1>2 DEF QueuedHeld

\* As long as SQLite works, no order of sends, claims, deferrals, cancellations,
\* retries and restarts strands a job: what says 'queued' is in exactly one hand.
THEOREM NothingIsStranded == ASSUME MaxDbFails = 0 PROVE Spec => []QueuedIsHeld
<1>1. Init => QueuedHeld
  BY DEF Init, QueuedHeld
<1>2. IInv /\ QueuedHeld /\ [Next]_vars => QueuedHeld'
  BY QueuedStep
<1>3. IInv /\ Hands /\ QueuedHeld => QueuedIsHeld
  BY HoldersCount DEF IInv, QueuedHeld, QueuedIsHeld
<1> QED BY <1>1, <1>2, <1>3, InvCorrect, HandsCorrect, PTL DEF Spec

-----------------------------------------------------------------------------
(* When paper may come out                                                 *)

USE DEF MsgId, NoMsg, Time, Null, UserStatus, MsgStatus,
        durable, workerVars, dispVars, threadVars, bootVars, faultVars, printVars,
        notStatus, offThread, offWorker, offDispatcher, offBoot, offAccount

\* Owner retries of m that have not printed yet.
Pending(m) == {t \in Thread : pc[t] = "retry" /\ tmsg[t] = m}

Unsettled(m) == status[m] \in {"scheduled", "queued", "cancelled", "failed"}

\* A print of m may still begin or be under way, and none that has come out waits
\* for its status write.
Printable(m) ==
  /\ \/ Unsettled(m)
     \/ wjob = m /\ wpc \in {"quiet", "print"}
  /\ ~(wjob = m /\ wpc = "record" /\ wstatus = "printed")
  /\ \A t \in Thread : ~(pc[t] = "mark" /\ tmsg[t] = m)

\* The worker's local status is "printed" until an exception says otherwise.
FreshStatus == wpc \in {"read", "quiet", "print"} => wstatus = "printed"

\* A message that may still be printed has no receipt beyond the excused ones,
\* and every retry under way is paid for, once d receipts are written off.
Paid(m, d) ==
  /\ paper[m] + Cardinality(Pending(m)) <= 1 + excused[m] + d
  /\ m >= nextId \/ Printable(m) => paper[m] <= excused[m] + d

PaperInv == FreshStatus /\ \A m \in MsgId : Paid(m, 0)

LEMMA PendingFinite ==
  ASSUME NEW m
  PROVE  IsFiniteSet(Pending(m)) /\ Cardinality(Pending(m)) \in Nat
<1>1. Pending(m) \in SUBSET Thread
  BY DEF Pending
<1>2. IsFiniteSet(Pending(m))
  BY <1>1, ThreadAssumption, FS_Subset
<1> QED BY <1>2, FS_CardinalityType

\* Nothing comes out, no retry begins, and nothing becomes printable.
Dry(m) ==
  /\ paper'[m] = paper[m] /\ excused'[m] \in Nat /\ excused'[m] >= excused[m]
  /\ Pending(m)' \subseteq Pending(m)
  /\ m >= nextId' => m >= nextId
  /\ Printable(m)' => Printable(m) \/ m >= nextId

LEMMA DryKeepsPaid ==
  ASSUME IInv, NEW m \in MsgId, NEW d \in Nat, Paid(m, d), Dry(m)
  PROVE  Paid(m, d)'
<1>1. paper[m] \in Nat /\ excused[m] \in Nat
  BY DEF IInv, TypeOK, WorldType
<1>2. Cardinality(Pending(m)) \in Nat
  BY PendingFinite
<1>3. Cardinality(Pending(m)') <= Cardinality(Pending(m)) /\ Cardinality(Pending(m)') \in Nat
  <2>1. Pending(m)' \in SUBSET Pending(m)
    BY DEF Dry
  <2>2. IsFiniteSet(Pending(m)')
    BY <2>1, PendingFinite, FS_Subset
  <2> QED BY <2>1, <2>2, PendingFinite, FS_Subset, FS_CardinalityType
<1>4. paper'[m] + Cardinality(Pending(m)') <= 1 + excused'[m] + d
  BY <1>1, <1>2, <1>3 DEF Paid, Dry
<1>5. m >= nextId' \/ Printable(m)' => paper'[m] <= excused'[m] + d
  BY <1>1 DEF Paid, Dry
<1> QED BY <1>4, <1>5 DEF Paid

LEMMA FreshStep == ASSUME FreshStatus, [Next]_vars PROVE FreshStatus'
<1>1. CASE WorkerStep \/ Finish \/ Crash
  BY <1>1 DEF WorkerStep, Finish, Crash, Get, Read, Skip, ReadFails, QuietHolds, QuietPasses,
     Prints, PrintFails, Record, FreshStatus
<1>2. CASE UNCHANGED <<wpc, wstatus>>
  BY <1>2 DEF FreshStatus
<1>3. CASE (\E u \in User : AccountStep(u)) \/ (\E t \in Thread : Request(t) \/ Undo(t))
           \/ Tick \/ IdlePoll \/ UNCHANGED vars
  BY <1>2, <1>3 DEF AccountStep, Register, Approve, Revoke, Delete, Request, Arrive,
     AskCancel, AskRetry, Undo, Tick, IdlePoll, vars
<1>4. CASE \E t \in Thread : ThreadStep(t)
  BY <1>2, <1>4 DEF ThreadStep, Schedule, RejectCapsule, Reserve, RejectCap, Log, LogFails,
     Put, PutFull, Erase, Cancel, RetryPrints, RetryFails, Mark
<1>5. CASE DispatcherStep \/ BootStep
  BY <1>2, <1>5 DEF DispatcherStep, Scan, PutClaim, Dispatched, Pushback, TickFails,
     QuietDefers, PassOver, Claim, BootStep, Boot, Started, ReplayCapsule, Replay,
     ReplayOverflows
<1> QED BY <1>1, <1>2, <1>3, <1>4, <1>5 DEF Next

\* SQLite raised in the write that would have said that m is printed or failed.
LostOutcome(m) ==
  /\ DbFails
  /\ \/ Record /\ wjob = m
     \/ \E t \in Thread : Mark(t) /\ tmsg[t] = m

LEMMA PaidStep ==
  ASSUME IInv, Hands, FreshStatus, [Next]_vars,
         NEW m \in MsgId, NEW d \in Nat, Paid(m, d), ~LostOutcome(m)
  PROVE  Paid(m, d)'
<1> USE DEF IInv, TypeOK, Owned
<1>2. Paid(m, d) /\ FreshStatus /\ (Dry(m) => Paid(m, d)')
  BY DryKeepsPaid
<1>3. /\ paper[m] \in Nat /\ excused[m] \in Nat
      /\ Cardinality(Pending(m)) \in Nat /\ Cardinality(Pending(m)') \in Nat
  <2>1. Pending(m)' \in SUBSET Thread
    BY DEF Pending
  <2> QED BY <2>1, PendingFinite, ThreadAssumption, FS_Subset, FS_CardinalityType DEF WorldType
<1>4. ASSUME UNCHANGED <<status, wpc, wjob, wstatus, pc, tmsg, nextId, paper, excused>>
      PROVE  Dry(m)
  BY <1>3, <1>4 DEF Dry, Pending, Printable, Unsettled
<1>6. ASSUME NEW u \in User, AccountStep(u) PROVE Paid(m, d)'
  <2>1. Dry(m)
    <3>1. Unsettled(m)' => Unsettled(m)
      BY <1>6 DEF AccountStep, Register, Approve, Revoke, Delete, Capsules, Unsettled, RowType
    <3> QED BY <1>3, <1>6, <3>1 DEF AccountStep, Register, Approve, Revoke, Delete, Dry,
               Pending, Printable
  <2> QED BY <1>2, <2>1
<1>7. ASSUME NEW t \in Thread, Request(t) PROVE Paid(m, d)'
  <2>1. CASE (\E u \in User : Arrive(t, u)) \/ (\E u \in User, n \in MsgId : AskCancel(t, u, n))
    <3>1. Dry(m)
      BY <1>3, <2>1 DEF Arrive, AskCancel, Dry, Pending, Printable, Unsettled, ThreadType
    <3> QED BY <1>2, <3>1
  <2>2. ASSUME NEW n \in MsgId, AskRetry(t, n) PROVE Paid(m, d)'
    <3>1. CASE n # m
      <4>1. Dry(m)
        BY <1>3, <2>2, <3>1 DEF AskRetry, Dry, Pending, Printable, Unsettled, ThreadType,
           WorldType
      <4> QED BY <1>2, <4>1
    <3>2. CASE n = m
      <4>1. Pending(m)' = Pending(m) \cup {t} /\ t \notin Pending(m)
        BY <2>2, <3>2 DEF AskRetry, Pending, ThreadType
      <4>2. Cardinality(Pending(m)') = Cardinality(Pending(m)) + 1
        BY <4>1, PendingFinite, FS_AddElement
      <4>3. paper'[m] = paper[m] /\ nextId' = nextId
        BY <2>2 DEF AskRetry
      <4>4. m < nextId /\ ~AtWorker(m)
        BY <2>2, <3>2 DEF AskRetry, RowsOK, Hands, HeldWaits, Held
      <4>5. CASE \E o \in Thread : pc[o] \in {"retry", "mark"} /\ tmsg[o] = m
        <5>1. excused'[m] = excused[m] + 1
          BY <2>2, <3>2, <4>5 DEF AskRetry, WorldType
        <5>2. Printable(m)' => Printable(m)
          BY <2>2 DEF AskRetry, Printable, Unsettled, ThreadType
        <5> QED BY <1>2, <1>3, <4>2, <4>3, <4>4, <5>1, <5>2 DEF Paid, RowType
      <4>6. CASE ~\E o \in Thread : pc[o] \in {"retry", "mark"} /\ tmsg[o] = m
        <5>1. excused'[m] = excused[m]
          BY <2>2, <3>2, <4>6 DEF AskRetry, WorldType
        <5>2. Pending(m) = {}
          BY <4>6 DEF Pending
        <5>3. Cardinality(Pending(m)) = 0
          BY <5>2, FS_EmptySet
        <5>4. Printable(m)
          BY <2>2, <3>2, <4>4, <4>6 DEF AskRetry, Printable, Unsettled, AtWorker
        <5> QED BY <1>2, <1>3, <4>2, <4>3, <4>4, <5>1, <5>3, <5>4 DEF Paid
      <4> QED BY <4>5, <4>6
    <3> QED BY <3>1, <3>2
  <2> QED BY <1>7, <2>1, <2>2 DEF Request
<1>8. ASSUME NEW t \in Thread, ThreadStep(t) PROVE Paid(m, d)'
  <2>1. CASE Schedule(t) \/ Log(t)
    <3>1. Unsettled(m)' => Unsettled(m) \/ m >= nextId
      <4>1. m # nextId => status'[m] = status[m]
        BY <2>1 DEF Schedule, Log, RowType
      <4>2. nextId \in Int
        BY DEF RowType
      <4> QED BY <4>1, <4>2 DEF Unsettled
    <3>2. m >= nextId' => m >= nextId
      BY <2>1 DEF Schedule, Log, RowType
    <3>3. /\ Pending(m)' \subseteq Pending(m)
          /\ \A o \in Thread : pc[o] = "mark" /\ tmsg[o] = m => pc'[o] = "mark" /\ tmsg'[o] = m
      BY <2>1 DEF Schedule, Log, Return, Pending, ThreadType
    <3>4. UNCHANGED <<paper, excused, wpc, wjob, wstatus>>
      BY <2>1 DEF Schedule, Log
    <3>5. Dry(m)
      BY <1>3, <3>1, <3>2, <3>3, <3>4 DEF Dry, Printable
    <3> QED BY <1>2, <3>5
  <2>2. CASE RejectCapsule(t) \/ RejectCap(t) \/ Put(t) \/ RetryFails(t)
    <3>1. Dry(m)
      BY <1>3, <2>2 DEF RejectCapsule, RejectCap, Put, RetryFails, Return, Dry, Pending,
         Printable, Unsettled, ThreadType
    <3> QED BY <1>2, <3>1
  <2>3. CASE Reserve(t) \/ LogFails(t) \/ PutFull(t)
    <3>1. Dry(m)
      BY <1>3, <2>3 DEF Reserve, LogFails, PutFull, Goto, Dry, Pending, Printable, Unsettled,
         ThreadType
    <3> QED BY <1>2, <3>1
  <2>4. CASE Erase(t) \/ Cancel(t)
    <3>1. Unsettled(m)' => Unsettled(m)
      BY <2>4 DEF Erase, Cancel, Unsettled, RowType
    <3>2. Dry(m)
      BY <1>3, <2>4, <3>1 DEF Erase, Cancel, Return, Dry, Pending, Printable, ThreadType
    <3> QED BY <1>2, <3>2
  <2>5. CASE RetryPrints(t)
    <3>1. CASE tmsg[t] # m
      <4>1. Dry(m)
        BY <1>3, <2>5, <3>1 DEF RetryPrints, Goto, Dry, Pending, Printable, Unsettled,
           ThreadType, WorldType
      <4> QED BY <1>2, <4>1
    <3>2. CASE tmsg[t] = m
      <4>1. Pending(m)' = Pending(m) \ {t} /\ t \in Pending(m)
        BY <2>5, <3>2 DEF RetryPrints, Goto, Pending, ThreadType
      <4>2. Cardinality(Pending(m)') = Cardinality(Pending(m)) - 1
        BY <4>1, PendingFinite, FS_RemoveElement
      <4>3. paper'[m] = paper[m] + 1 /\ excused'[m] = excused[m] /\ m < nextId'
        BY <2>5, <3>2 DEF RetryPrints, WorldType, RetryOK
      <4>4. ~Printable(m)'
        BY <2>5, <3>2 DEF RetryPrints, Goto, Printable, Unsettled, ThreadType
      <4>5. m < nextId /\ ~(m >= nextId')
        BY <2>5, <3>2 DEF RetryPrints, RetryOK, RowType
      <4> QED BY <1>2, <1>3, <4>2, <4>3, <4>4, <4>5 DEF Paid
    <3> QED BY <3>1, <3>2
  <2>6. CASE Mark(t)
    <3>1. CASE tmsg[t] # m
      <4>1. status'[m] = status[m]
        BY <2>6, <3>1 DEF Mark, UpdateRow, RowType
      <4>2. Dry(m)
        BY <1>3, <2>6, <3>1, <4>1 DEF Mark, Return, Dry, Pending, Printable, Unsettled,
           ThreadType
      <4> QED BY <1>2, <4>2
    <3>2. CASE tmsg[t] = m
      <4>1. ~AtWorker(m)
        BY <2>6, <3>2 DEF Mark, Hands, RetryFree, Held
      <4>2. ~Printable(m)'
        BY <2>6, <3>2, <4>1 DEF LostOutcome, Mark, UpdateRow, Return, Printable, Unsettled,
           AtWorker,
           RowType
      <4>3. Dry(m)
        BY <1>3, <2>6, <4>2 DEF Mark, Return, Dry, Pending, ThreadType
      <4> QED BY <1>2, <4>3
    <3> QED BY <3>1, <3>2
  <2> QED BY <1>8, <2>1, <2>2, <2>3, <2>4, <2>5, <2>6 DEF ThreadStep
<1>9. ASSUME NEW t \in Thread, Undo(t) PROVE Paid(m, d)'
  <2>1. Dry(m)
    BY <1>3, <1>9 DEF Undo, Return, Goto, Dry, Pending, Printable, Unsettled, ThreadType
  <2> QED BY <1>2, <2>1
<1>10. CASE WorkerStep
  <2>1. CASE Get \/ Read \/ QuietPasses
    <3>1. Dry(m)
      BY <1>3, <2>1 DEF Get, Read, QuietPasses, Dry, Pending, Printable, Unsettled
    <3> QED BY <1>2, <3>1
  <2>2. CASE Skip \/ QuietHolds
    <3>1. Unsettled(m)' => Unsettled(m)
      BY <2>2 DEF Skip, QuietHolds, Defer, Unsettled, RowType
    <3>2. Dry(m)
      BY <1>3, <2>2, <3>1 DEF Skip, QuietHolds, Dry, Pending, Printable
    <3> QED BY <1>2, <3>2
  <2>3. CASE ReadFails \/ PrintFails
    <3>1. Dry(m)
      BY <1>2, <1>3, <2>3 DEF ReadFails, PrintFails, Dry, Pending, Printable, Unsettled,
         FreshStatus
    <3> QED BY <1>2, <3>1
  <2>4. CASE Prints
    <3>1. CASE wjob # m
      <4>1. Dry(m)
        BY <1>3, <2>4, <3>1 DEF Prints, Dry, Pending, Printable, Unsettled, WorldType
      <4> QED BY <1>2, <4>1
    <3>2. CASE wjob = m
      <4>1. Held(m) /\ m < nextId
        BY <2>4, <3>2 DEF Prints, Held, AtWorker, Hands, HeldWaits
      <4>2. Pending(m) = {} /\ \A t \in Thread : ~(pc[t] = "mark" /\ tmsg[t] = m)
        BY <4>1 DEF Pending, Hands, RetryFree
      <4>3. Pending(m)' = {}
        BY <2>4, <4>2 DEF Prints, Pending
      <4>4. Cardinality(Pending(m)') = 0
        BY <4>3, FS_EmptySet
      <4>5. Printable(m)
        BY <2>4, <3>2, <4>2 DEF Prints, Printable, Unsettled
      <4>6. ~Printable(m)'
        BY <1>2, <2>4, <3>2 DEF Prints, Printable, Unsettled, FreshStatus
      <4>7. paper'[m] = paper[m] + 1 /\ excused'[m] = excused[m] /\ nextId' = nextId
        BY <2>4, <3>2 DEF Prints, WorldType
      <4> QED BY <1>2, <1>3, <4>1, <4>4, <4>5, <4>6, <4>7 DEF Paid, RowType
    <3> QED BY <3>1, <3>2
  <2>5. CASE Record
    <3>1. CASE wjob # m
      <4>1. status'[m] = status[m]
        BY <2>5, <3>1 DEF Record, UpdateRow, RowType
      <4>2. Dry(m)
        BY <1>3, <2>5, <3>1, <4>1 DEF Record, Dry, Pending, Printable, Unsettled
      <4> QED BY <1>2, <4>2
    <3>2. CASE wjob = m
      <4>1. Held(m)
        BY <2>5, <3>2 DEF Record, Held, AtWorker
      <4>2. status[m] \in {"queued", "cancelled", "absent"}
            /\ \A t \in Thread : ~(pc[t] = "mark" /\ tmsg[t] = m)
        BY <4>1 DEF Hands, HeldWaits, RetryFree
      <4>3. Printable(m)' => Printable(m)
        BY <2>5, <3>2, <4>2 DEF LostOutcome, Record, UpdateRow, Printable, Unsettled, RowType,
           WorkerType
      <4>4. Dry(m)
        BY <1>3, <2>5, <4>3 DEF Record, Dry, Pending
      <4> QED BY <1>2, <4>4
    <3> QED BY <3>1, <3>2
  <2> QED BY <1>10, <2>1, <2>2, <2>3, <2>4, <2>5 DEF WorkerStep
<1>11. CASE Finish
  <2>1. Dry(m)
    BY <1>3, <1>11 DEF Finish, Dry, Pending, Printable, Unsettled
  <2> QED BY <1>2, <2>1
<1>12. CASE DispatcherStep
  <2>1. CASE Scan \/ PutClaim \/ Dispatched \/ TickFails \/ \E n \in MsgId : PassOver(n)
    BY <1>2, <1>4, <2>1 DEF Scan, PutClaim, Dispatched, TickFails, PassOver
  <2>2. CASE Pushback \/ \E n \in MsgId : QuietDefers(n) \/ Claim(n)
    <3>1. Unsettled(m)' => Unsettled(m)
      <4>1. CASE Pushback
        BY <4>1 DEF Pushback, Defer, Unsettled, RowType
      <4>2. CASE \E n \in MsgId : QuietDefers(n)
        BY <4>2 DEF QuietDefers, Defer, Unsettled, RowType
      <4>3. CASE \E n \in MsgId : Claim(n)
        BY <4>3 DEF Claim, DueAt, Unsettled, RowType
      <4> QED BY <2>2, <4>1, <4>2, <4>3
    <3>2. UNCHANGED <<paper, excused, wpc, wjob, wstatus, pc, tmsg, nextId>>
      BY <2>2 DEF Pushback, QuietDefers, Claim
    <3>3. Dry(m)
      BY <1>3, <3>1, <3>2 DEF Dry, Pending, Printable
    <3> QED BY <1>2, <3>3
  <2> QED BY <1>12, <2>1, <2>2 DEF DispatcherStep
<1>13. CASE BootStep
  <2>1. CASE Boot \/ Started \/ \E n \in MsgId : Replay(n)
    BY <1>2, <1>4, <2>1 DEF Boot, Started, Replay
  <2>2. ASSUME NEW n \in MsgId, ReplayCapsule(n) \/ ReplayOverflows(n) PROVE Paid(m, d)'
    <3>1. status[n] = "queued"
      BY <2>2 DEF ReplayCapsule, ReplayOverflows, FirstTodo, ProcessOK
    <3>2. Unsettled(m)' => Unsettled(m)
      BY <2>2, <3>1 DEF ReplayCapsule, ReplayOverflows, Unsettled, RowType
    <3>3. Dry(m)
      BY <1>3, <2>2, <3>2 DEF ReplayCapsule, ReplayOverflows, Dry, Pending, Printable
    <3> QED BY <1>2, <3>3
  <2> QED BY <1>13, <2>1, <2>2 DEF BootStep
<1>14. CASE Crash
  <2>1. Pending(m)' = {}
    BY <1>14 DEF Crash, Pending
  <2>2. Cardinality(Pending(m)') = 0
    BY <2>1, FS_EmptySet
  <2>3. paper'[m] = paper[m] /\ nextId' = nextId
    BY <1>14 DEF Crash
  <2>4. CASE m \in PrintedUnrecorded
    <3>1. excused'[m] = excused[m] + 1
      BY <1>14, <2>4 DEF Crash
    <3> QED BY <1>2, <1>3, <2>2, <2>3, <3>1 DEF Paid
  <2>5. CASE m \notin PrintedUnrecorded
    <3>1. excused'[m] = excused[m]
      BY <1>14, <2>5 DEF Crash
    <3>2. Printable(m)' => Printable(m)
      BY <1>14, <2>5 DEF Crash, Printable, Unsettled, PrintedUnrecorded
    <3> QED BY <1>2, <1>3, <2>2, <2>3, <3>1, <3>2 DEF Paid
  <2> QED BY <2>4, <2>5
<1>15. CASE Tick \/ IdlePoll \/ UNCHANGED vars
  BY <1>2, <1>4, <1>15 DEF Tick, IdlePoll, vars
<1> QED BY <1>6, <1>7, <1>8, <1>9, <1>10, <1>11, <1>12, <1>13, <1>14, <1>15 DEF Next

LEMMA PaperStep ==
  ASSUME MaxDbFails = 0, IInv, Hands, PaperInv, [Next]_vars
  PROVE  PaperInv'
<1>1. ~DbFails
  BY CapAssumption DEF DbFails, IInv, TypeOK, WorldType
<1>2. ASSUME NEW m \in MsgId PROVE Paid(m, 0)'
  <2>1. Paid(m, 0) /\ ~LostOutcome(m) /\ FreshStatus
    BY <1>1 DEF PaperInv, LostOutcome
  <2>2. \A d \in Nat : Paid(m, d) => Paid(m, d)'
    BY <2>1, PaidStep
  <2> QED BY <2>1, <2>2
<1> QED BY <1>2, FreshStep DEF PaperInv

LEMMA InitPaper == Init => PaperInv
<1> SUFFICES ASSUME Init PROVE PaperInv
  OBVIOUS
<1>1. \A m \in MsgId : Pending(m) = {}
  BY DEF Init, Pending
<1>2. \A m \in MsgId : Cardinality(Pending(m)) = 0
  BY <1>1, FS_EmptySet
<1> QED BY <1>2 DEF Init, PaperInv, FreshStatus, Paid

LEMMA PaperCorrect == ASSUME MaxDbFails = 0 PROVE Spec => []PaperInv
<1>1. IInv /\ Hands /\ PaperInv /\ [Next]_vars => PaperInv'
  BY PaperStep
<1> QED BY <1>1, InitPaper, InvCorrect, HandsCorrect, PTL DEF Spec

\* As long as SQLite works, a message comes out once, plus once for every crash
\* between its print and its status write and for every retry the owner begins
\* while one is under way; no other interleaving of worker, retries, deferrals
\* and replays prints it again.
THEOREM PrintedOnce == ASSUME MaxDbFails = 0 PROVE Spec => []PaperBound
<1>1. IInv /\ PaperInv => PaperBound
  <2> SUFFICES ASSUME IInv, PaperInv, NEW m \in MsgId PROVE paper[m] <= 1 + excused[m]
    BY DEF PaperBound
  <2> QED BY PendingFinite DEF PaperInv, Paid, IInv, TypeOK, WorldType
<1> QED BY <1>1, InvCorrect, PaperCorrect, PTL

-----------------------------------------------------------------------------
(* Delivery dates. *)

\* A row that waits has a date outside quiet hours (Null is outside), and what the
\* dispatcher handles has a date; what a tick has claimed was due outside them.
Dated(m) ==
  /\ status[m] \in {"scheduled", "queued"} => deliverAt[m] \notin Quiet
  /\ status[m] = "scheduled" => deliverAt[m] # Null
  /\ AtDispatcher(m) => deliverAt[m] # Null

TickTime == dnow <= now /\ (dpc \in {"put", "inc"} => dnow \notin Quiet)

DateInv == TickTime /\ \A m \in MsgId : Dated(m)

LEMMA DateStep == ASSUME IInv, DateInv, [Next]_vars PROVE DateInv'
<1> USE DEF IInv, TypeOK, Owned
<1>1. TickTime'
  <2>1. CASE DispatcherStep
    BY <2>1 DEF DispatcherStep, Scan, PutClaim, Dispatched, Pushback, TickFails, QuietDefers,
       PassOver, Claim, Continue, DateInv, TickTime, WorldType, DispatcherType
  <2>2. CASE Tick \/ Crash
    BY <2>2 DEF Tick, Crash, DateInv, TickTime, WorldType, DispatcherType
  <2>3. CASE UNCHANGED <<dnow, dpc, now>>
    BY <2>3 DEF DateInv, TickTime
  <2>4. CASE (\E u \in User : AccountStep(u)) \/ (\E t \in Thread : Request(t) \/ Undo(t))
             \/ Finish \/ IdlePoll \/ UNCHANGED vars
    BY <2>3, <2>4 DEF AccountStep, Register, Approve, Revoke, Delete, Request, Arrive,
       AskCancel,
       AskRetry, Undo, Finish, IdlePoll, vars
  <2>5. CASE \E t \in Thread : ThreadStep(t)
    BY <2>3, <2>5 DEF ThreadStep, Schedule, RejectCapsule, Reserve, RejectCap, Log, LogFails,
       Put,
       PutFull, Erase, Cancel, RetryPrints, RetryFails, Mark
  <2>6. CASE WorkerStep \/ BootStep
    BY <2>3, <2>6 DEF WorkerStep, Get, Read, Skip, ReadFails, QuietHolds, QuietPasses, Prints,
       PrintFails, Record, BootStep, Boot, Started, ReplayCapsule, Replay, ReplayOverflows
  <2> QED BY <2>1, <2>2, <2>4, <2>5, <2>6 DEF Next
<1> SUFFICES ASSUME NEW m \in MsgId PROVE Dated(m)'
  BY <1>1 DEF DateInv
<1>2. Dated(m) /\ TickTime
  BY DEF DateInv
\* The row keeps its date and does not begin to wait, and is not claimed.
<1>3. ASSUME deliverAt'[m] = deliverAt[m], AtDispatcher(m)' => AtDispatcher(m),
             status'[m] = status[m] \/ status'[m] \notin {"scheduled", "queued"}
      PROVE  Dated(m)'
  BY <1>2, <1>3 DEF Dated
\* The row gets a new date.
<1>4. ASSUME deliverAt'[m] \in Time \ Quiet PROVE Dated(m)'
  BY <1>4 DEF Dated
<1>5. ASSUME NEW t \in Time, IsRelease(t, now) \/ IsRelease(t, dnow), NEW d \in MsgId,
             Defer(d, t), AtDispatcher(m)' => AtDispatcher(m)
      PROVE  Dated(m)'
  <2>1. CASE m = d /\ status[d] \in {"queued", "scheduled"}
    BY <1>4, <1>5, <2>1 DEF IsRelease, Defer, RowType
  <2>2. CASE ~(m = d /\ status[d] \in {"queued", "scheduled"})
    BY <1>3, <1>5, <2>2 DEF Defer, RowType
  <2> QED BY <2>1, <2>2
<1>6. ASSUME NEW u \in User, AccountStep(u) PROVE Dated(m)'
  BY <1>3, <1>6 DEF AccountStep, Register, Approve, Revoke, Delete, AtDispatcher, RowType
<1>7. ASSUME NEW t \in Thread, Request(t) PROVE Dated(m)'
  BY <1>3, <1>7 DEF Request, Arrive, AskCancel, AskRetry, AtDispatcher
<1>8. ASSUME NEW t \in Thread, ThreadStep(t) PROVE Dated(m)'
  <2>1. CASE Schedule(t)
    <3>1. CASE m = nextId
      BY <1>4, <2>1, <3>1 DEF Schedule, WantsCapsule, IsRelease, RowType
    <3>2. CASE m # nextId
      BY <1>3, <2>1, <3>2 DEF Schedule, AtDispatcher, RowType
    <3> QED BY <3>1, <3>2
  <2>2. CASE Log(t)
    <3>1. CASE m = nextId
      <4>1. deliverAt'[m] = Null /\ status'[m] = "queued"
        BY <2>2, <3>1 DEF Log, RowsOK, RowType
      <4>2. m >= nextId /\ (AtDispatcher(m)' => AtDispatcher(m))
        BY <2>2, <3>1 DEF Log, AtDispatcher
      <4>3. ~AtDispatcher(m)
        BY <1>2, <2>2, <4>1 DEF Log, Dated
      <4> QED BY <4>1, <4>2, <4>3, QuietAssumption DEF Dated
    <3>2. CASE m # nextId
      BY <1>3, <2>2, <3>2 DEF Log, AtDispatcher, RowType
    <3> QED BY <3>1, <3>2
  <2>3. CASE RejectCapsule(t) \/ Reserve(t) \/ RejectCap(t) \/ LogFails(t) \/ Put(t)
             \/ PutFull(t) \/ RetryPrints(t) \/ RetryFails(t)
    BY <1>3, <2>3 DEF RejectCapsule, Reserve, RejectCap, LogFails, Put, PutFull, RetryPrints,
       RetryFails, AtDispatcher
  <2>4. CASE Erase(t) \/ Cancel(t) \/ Mark(t)
    <3>1. status'[m] = status[m] \/ status'[m] \notin {"scheduled", "queued"}
      BY <2>4 DEF Erase, Cancel, Mark, UpdateRow, RowType
    <3> QED BY <1>3, <2>4, <3>1 DEF Erase, Cancel, Mark, AtDispatcher
  <2> QED BY <1>8, <2>1, <2>2, <2>3, <2>4 DEF ThreadStep
<1>9. ASSUME NEW t \in Thread, Undo(t) PROVE Dated(m)'
  BY <1>3, <1>9 DEF Undo, AtDispatcher
<1>10. CASE WorkerStep
  <2>1. CASE QuietHolds
    BY <1>5, <2>1 DEF QuietHolds, WorkerHolds, AtDispatcher
  <2>2. CASE Skip \/ Record
    <3>1. status'[m] = status[m] \/ status'[m] \notin {"scheduled", "queued"}
      BY <2>2 DEF Skip, Record, UpdateRow, RowType, WorkerType
    <3> QED BY <1>3, <2>2, <3>1 DEF Skip, Record, AtDispatcher
  <2>3. CASE Get \/ Read \/ ReadFails \/ QuietPasses \/ Prints \/ PrintFails
    BY <1>3, <2>3 DEF Get, Read, ReadFails, QuietPasses, Prints, PrintFails, AtDispatcher
  <2> QED BY <1>10, <2>1, <2>2, <2>3 DEF WorkerStep
<1>11. CASE Finish
  BY <1>3, <1>11 DEF Finish, AtDispatcher
<1>12. CASE DispatcherStep
  <2>1. CASE Scan \/ PutClaim \/ Dispatched \/ TickFails \/ \E d \in MsgId : PassOver(d)
    BY <1>3, <2>1 DEF Scan, PutClaim, Dispatched, TickFails, PassOver, Continue, AtDispatcher
  <2>2. CASE \E d \in MsgId : QuietDefers(d)
    BY <1>5, <2>2 DEF QuietDefers, Continue, AtDispatcher
  <2>3. CASE Pushback
    <3>1. dnow \in Time \ Quiet
      BY <1>2, <2>3 DEF Pushback, TickTime, DispatcherType
    <3>2. CASE deliverAt'[m] = dnow
      BY <1>4, <3>1, <3>2
    <3>3. CASE deliverAt'[m] # dnow
      <4>1. deliverAt'[m] = deliverAt[m] /\ status'[m] = status[m]
        BY <2>3, <3>3 DEF Pushback, Defer, RowType
      <4> QED BY <1>3, <2>3, <4>1 DEF Pushback, Continue, AtDispatcher
    <3> QED BY <3>2, <3>3
  <2>4. ASSUME NEW d \in MsgId, Claim(d) PROVE Dated(m)'
    <3>1. CASE m = d
      BY <1>2, <2>4, <3>1 DEF Claim, DueAt, Dated
    <3>2. CASE m # d
      BY <1>3, <2>4, <3>2 DEF Claim, AtDispatcher, RowType
    <3> QED BY <3>1, <3>2
  <2> QED BY <1>12, <2>1, <2>2, <2>3, <2>4 DEF DispatcherStep
<1>13. CASE BootStep
  <2>1. CASE Boot \/ Started \/ \E d \in MsgId : Replay(d)
    BY <1>3, <2>1 DEF Boot, Started, Replay, AtDispatcher
  <2>2. ASSUME NEW d \in MsgId, ReplayCapsule(d) PROVE Dated(m)'
    <3>1. status[d] = "queued" /\ deliverAt[d] # Null
      BY <2>2 DEF ReplayCapsule, FirstTodo, ProcessOK
    <3>2. CASE m = d
      BY <1>2, <2>2, <3>1, <3>2 DEF ReplayCapsule, Dated, AtDispatcher, RowType
    <3>3. CASE m # d
      BY <1>3, <2>2, <3>3 DEF ReplayCapsule, AtDispatcher, RowType
    <3> QED BY <3>2, <3>3
  <2>3. ASSUME NEW d \in MsgId, ReplayOverflows(d) PROVE Dated(m)'
    BY <1>3, <2>3 DEF ReplayOverflows, AtDispatcher, RowType
  <2> QED BY <1>13, <2>1, <2>2, <2>3 DEF BootStep
<1>14. CASE Crash
  BY <1>3, <1>14 DEF Crash, AtDispatcher
<1>15. CASE Tick \/ IdlePoll \/ UNCHANGED vars
  BY <1>3, <1>15 DEF Tick, IdlePoll, vars, AtDispatcher
<1> QED BY <1>6, <1>7, <1>8, <1>9, <1>10, <1>11, <1>12, <1>13, <1>14, <1>15 DEF Next

LEMMA DateCorrect == Spec => []DateInv
<1>1. Init => DateInv
  BY DEF Init, DateInv, TickTime, Dated, AtDispatcher
<1>2. IInv /\ DateInv /\ [Next]_vars => DateInv'
  BY DateStep
<1> QED BY <1>1, <1>2, InvCorrect, PTL DEF Spec

\* Before its date a message is in nobody's hands, is not tried again, and has no
\* receipt that counts.
Early(m) ==
  /\ ~Held(m) /\ status[m] \in {"scheduled", "cancelled", "absent"}
  /\ paper[m] <= excused[m]
  /\ \A t \in Thread : pc[t] \in {"retry", "mark"} => tmsg[t] # m

EarlyInv == \A m \in MsgId : deliverAt[m] > now => Early(m)

\* Only Tick moves the clock.
LEMMA ClockStep == [Next]_vars => now' \in {now, now + 1}
<1>1. ASSUME NEW t \in Thread, Request(t) \/ ThreadStep(t) \/ Undo(t) PROVE now' = now
  BY <1>1 DEF Request, Arrive, AskCancel, AskRetry, ThreadStep, Schedule, RejectCapsule,
     Reserve,
     RejectCap, Log, LogFails, Put, PutFull, Erase, Cancel, RetryPrints, RetryFails, Mark, Undo
<1>2. WorkerStep \/ Finish => now' = now
  BY DEF WorkerStep, Finish, Get, Read, Skip, ReadFails, QuietHolds, QuietPasses, Prints,
     PrintFails, Record
<1>3. DispatcherStep => now' = now
  BY DEF DispatcherStep, Scan, PutClaim, Dispatched, Pushback, TickFails, QuietDefers, PassOver,
     Claim
<1>4. BootStep \/ Crash => now' = now
  BY DEF BootStep, Boot, Started, ReplayCapsule, Replay, ReplayOverflows, Crash
<1>5. ASSUME NEW u \in User, AccountStep(u) PROVE now' = now
  BY <1>5 DEF AccountStep, Register, Approve, Revoke, Delete
<1>6. Tick \/ IdlePoll \/ UNCHANGED vars => now' \in {now, now + 1}
  BY DEF Tick, IdlePoll, vars
<1> QED BY <1>1, <1>2, <1>3, <1>4, <1>5, <1>6 DEF Next

LEMMA EarlyStep ==
  ASSUME MaxDbFails = 0, IInv, Hands, PaperInv, DateInv, EarlyInv, [Next]_vars
  PROVE  EarlyInv'
<1> USE DEF IInv, TypeOK, Owned
<1> SUFFICES ASSUME NEW m \in MsgId, deliverAt'[m] > now' PROVE Early(m)'
  BY DEF EarlyInv
<1>1. Hands' /\ PaperInv' /\ TypeOK' /\ Owned'
  BY HandsStep, PaperStep, TypeStep, OwnedStep
<1>2. ~DbFails
  BY CapAssumption DEF DbFails, WorldType
<1>3. now' \in Int /\ now \in Int /\ deliverAt[m] \in Int /\ now' >= now
  BY <1>1, ClockStep DEF WorldType, RowType
\* A row that is scheduled now may be given any date: nobody has it.
<1>4. ASSUME status'[m] = "scheduled" PROVE Early(m)'
  <2>1. ~Held(m)'
    BY <1>1, <1>4 DEF Hands, HeldWaits
  <2>2. \A t \in Thread : pc'[t] \in {"retry", "mark"} => tmsg'[t] # m
    BY <1>1, <1>4 DEF RetryOK
  <2>3. Printable(m)'
    BY <1>4, <2>1, <2>2 DEF Printable, Unsettled, Held, AtWorker
  <2>4. paper'[m] <= excused'[m]
    BY <1>1, <2>3 DEF PaperInv, Paid, WorldType
  <2> QED BY <1>4, <2>1, <2>2, <2>4 DEF Early
\* Otherwise it keeps its date, and must be left alone.
<1>5. ASSUME deliverAt[m] > now => \/ status'[m] = "scheduled"
                                  \/ /\ status'[m] \in {status[m], "cancelled", "absent"}
                                     /\ Held(m)' => Held(m)
                                     /\ paper'[m] = paper[m] /\ excused'[m] >= excused[m]
                                     /\ \A t \in Thread :
                                          pc'[t] \in {"retry", "mark"} /\ tmsg'[t] = m =>
                                          pc[t] \in {"retry", "mark"} /\ tmsg[t] = m,
             deliverAt'[m] = deliverAt[m]
      PROVE  Early(m)'
  <2>1. deliverAt[m] > now
    BY <1>3, <1>5
  <2>2. Early(m)
    BY <2>1 DEF EarlyInv
  <2>3. paper[m] \in Int /\ excused[m] \in Int /\ excused'[m] \in Int
    BY <1>1 DEF WorldType
  <2>4. CASE status'[m] = "scheduled"
    BY <1>4, <2>4
  <2>5. CASE status'[m] # "scheduled"
    BY <1>5, <2>1, <2>2, <2>3, <2>5 DEF Early
  <2> QED BY <2>4, <2>5
<1>6. deliverAt[m] > now => /\ Early(m) /\ ~InQueue(m) /\ ~AtWorker(m) /\ ~AtDispatcher(m)
                            /\ ~AtRequest(m) /\ m \notin todo
  BY DEF EarlyInv, Early, Held
<1>7. /\ paper[m] \in Int /\ excused[m] \in Int /\ nextId \in Int
      /\ deliverAt[m] > now => m < nextId
  BY <1>3 DEF WorldType, RowType, RowsOK
<1>8. ASSUME UNCHANGED <<deliverAt, status, paper, excused, pc, tmsg>>, Held(m)' => Held(m)
      PROVE  Early(m)'
  BY <1>5, <1>7, <1>8
<1>9. ASSUME UNCHANGED <<queue, wjob, wpc, dmsg, dpc, todo, pc, tmsg>> PROVE Held(m)' => Held(m)
  BY <1>9 DEF Held, InQueue, AtWorker, AtDispatcher, AtRequest, AtThread
<1>10. ASSUME NEW u \in User, AccountStep(u) PROVE Early(m)'
  <2>1. status'[m] \in {status[m], "cancelled", "absent"}
    BY <1>10 DEF AccountStep, Register, Approve, Revoke, Delete, RowType
  <2> QED BY <1>5, <1>7, <1>9, <1>10, <2>1 DEF AccountStep, Register, Approve, Revoke, Delete
<1>11. ASSUME NEW t \in Thread, Request(t) PROVE Early(m)'
  <2>1. Held(m)' => Held(m)
    BY <1>11 DEF Request, Arrive, AskCancel, AskRetry, Held, InQueue, AtWorker, AtDispatcher,
       AtRequest, AtThread, ThreadType
  <2>2. CASE (\E u \in User : Arrive(t, u)) \/ (\E u \in User, n \in MsgId : AskCancel(t, u, n))
    BY <1>5, <1>7, <2>1, <2>2 DEF Arrive, AskCancel, ThreadType
  <2>3. ASSUME NEW d \in MsgId, AskRetry(t, d) PROVE Early(m)'
    <3>1. deliverAt[m] > now => m # d
      BY <1>6, <2>3 DEF AskRetry, Early
    <3> QED BY <1>5, <1>7, <2>1, <2>3, <3>1 DEF AskRetry, ThreadType, WorldType
  <2> QED BY <1>11, <2>2, <2>3 DEF Request
<1>12. ASSUME NEW t \in Thread, ThreadStep(t) PROVE Early(m)'
  <2>1. CASE Schedule(t)
    <3>1. CASE m = nextId
      BY <1>4, <2>1, <3>1 DEF Schedule, RowType
    <3>2. CASE m # nextId
      BY <1>5, <1>7, <2>1, <3>2 DEF Schedule, Return, Held, InQueue, AtWorker, AtDispatcher,
         AtRequest, AtThread, ThreadType, RowType
    <3> QED BY <3>1, <3>2
  <2>2. CASE Log(t)
    <3>1. deliverAt[m] > now => m # nextId
      BY <1>7
    <3> QED BY <1>5, <1>7, <2>2, <3>1 DEF Log, Held, InQueue, AtWorker, AtDispatcher,
               AtRequest, AtThread, ThreadType, RowType
  <2>3. CASE RejectCapsule(t) \/ RejectCap(t) \/ Reserve(t) \/ LogFails(t) \/ PutFull(t)
             \/ RetryFails(t)
    BY <1>5, <1>7, <2>3 DEF RejectCapsule, RejectCap, Reserve, LogFails, PutFull, RetryFails,
       Return, Goto, Held, InQueue, AtWorker, AtDispatcher, AtRequest, AtThread, ThreadType,
       Hands, EmptyHanded
  <2>4. CASE Put(t)
    <3>1. \A n : InQueue(n)' <=> InQueue(n) \/ n = tmsg[t]
      BY <2>4, InQueueAppend DEF Put, ThreadsHold
    <3> QED BY <1>5, <1>7, <2>4, <3>1 DEF Put, Return, Held, AtWorker, AtDispatcher, AtRequest,
               AtThread, ThreadType
  <2>5. CASE Erase(t) \/ Cancel(t)
    <3>1. status'[m] \in {status[m], "cancelled", "absent"}
      BY <2>5 DEF Erase, Cancel, RowType
    <3>2. Held(m)' => Held(m)
      BY <2>5 DEF Erase, Cancel, Return, Held, InQueue, AtWorker, AtDispatcher, AtRequest,
         AtThread, ThreadType
    <3> QED BY <1>5, <1>7, <2>5, <3>1, <3>2 DEF Erase, Cancel, Return, ThreadType
  <2>6. CASE RetryPrints(t) \/ Mark(t)
    <3>1. deliverAt[m] > now => m # tmsg[t]
      BY <1>6, <2>6 DEF RetryPrints, Mark, Early
    <3>2. Held(m)' => Held(m)
      BY <2>6 DEF RetryPrints, Mark, Return, Goto, Held, InQueue, AtWorker, AtDispatcher,
         AtRequest, AtThread, ThreadType
    <3>3. deliverAt[m] > now => status'[m] = status[m] /\ paper'[m] = paper[m]
      BY <2>6, <3>1 DEF RetryPrints, Mark, UpdateRow, RowType, WorldType
    <3> QED BY <1>5, <1>7, <2>6, <3>1, <3>2, <3>3 DEF RetryPrints, Mark, Return, Goto,
       ThreadType
  <2> QED BY <1>12, <2>1, <2>2, <2>3, <2>4, <2>5, <2>6 DEF ThreadStep
<1>13. ASSUME NEW t \in Thread, Undo(t) PROVE Early(m)'
  BY <1>5, <1>7, <1>13 DEF Undo, Return, Goto, Held, InQueue, AtWorker, AtDispatcher, AtRequest,
     AtThread, ThreadType
<1>14. CASE WorkerStep
  <2>1. CASE Get
    <3>1. Held(m)' => Held(m)
      <4>1. InQueue(m)' => InQueue(m)
        BY <2>1, InQueueTail DEF Get
      <4>2. InQueue(Head(queue))
        <5>1. queue \in Seq(MsgId) /\ queue # << >> /\ Head(queue) = queue[1]
          BY <2>1 DEF Get, QueueType
        <5>2. Len(Tail(queue)) \in Nat /\ Len(Tail(queue)) = Len(queue) - 1 /\ Len(queue) \in Nat
          BY <5>1, HeadTailProperties
        <5>3. 1 \in 1..Len(queue)
          BY <5>2
        <5> QED BY <5>1, <5>3 DEF InQueue
      <4> QED BY <2>1, <4>1, <4>2 DEF Get, Held, AtWorker, AtDispatcher, AtRequest, AtThread
    <3> QED BY <1>8, <2>1, <3>1 DEF Get
  <2>2. CASE Read \/ ReadFails \/ QuietPasses \/ PrintFails
    BY <1>8, <2>2 DEF Read, ReadFails, QuietPasses, PrintFails, Held, InQueue, AtWorker,
       AtDispatcher, AtRequest, AtThread
  <2>3. CASE Skip \/ QuietHolds \/ Prints \/ Record
    <3>1. wjob \in MsgId /\ AtWorker(wjob)
      BY <2>3 DEF Skip, QuietHolds, Prints, Record, WorkerHolds, AtWorker
    <3>2. CASE wjob = m
      <4>1. ~(deliverAt[m] > now)
        BY <1>6, <3>1, <3>2
      <4>2. deliverAt'[m] # deliverAt[m]
        BY <1>3, <4>1
      <4>3. status'[m] = "scheduled"
        BY <2>3, <3>2, <4>2 DEF Skip, QuietHolds, Prints, Record, Defer, RowType
      <4> QED BY <1>4, <4>3
    <3>3. CASE wjob # m
      <4>1. UNCHANGED <<deliverAt[m], status[m], paper[m], excused, pc, tmsg>>
        BY <2>3, <3>1, <3>3 DEF Skip, QuietHolds, Prints, Record, Defer, UpdateRow, RowType,
           WorldType
      <4>2. Held(m)' => Held(m)
        BY <2>3, <3>3 DEF Skip, QuietHolds, Prints, Record, Held, InQueue, AtWorker,
           AtDispatcher,
           AtRequest, AtThread
      <4> QED BY <1>5, <1>7, <4>1, <4>2
    <3> QED BY <3>2, <3>3
  <2> QED BY <1>14, <2>1, <2>2, <2>3 DEF WorkerStep
<1>15. CASE Finish
  BY <1>8, <1>15 DEF Finish, Held, InQueue, AtWorker, AtDispatcher, AtRequest, AtThread
<1>16. CASE DispatcherStep
  <2>1. CASE Scan \/ Dispatched \/ TickFails \/ \E d \in MsgId : PassOver(d)
    BY <1>8, <2>1 DEF Scan, Dispatched, TickFails, PassOver, Continue, Held, InQueue, AtWorker,
       AtDispatcher, AtRequest, AtThread
  <2>2. CASE PutClaim
    <3>1. \A n : InQueue(n)' <=> InQueue(n) \/ n = dmsg
      BY <2>2, InQueueAppend DEF PutClaim, DispatcherHolds
    <3> QED BY <1>8, <2>2, <3>1 DEF PutClaim, Held, AtWorker, AtDispatcher, AtRequest, AtThread
  <2>3. CASE Pushback
    <3>1. dnow <= now /\ now' = now /\ dnow \in Int
      BY <2>3 DEF Pushback, DateInv, TickTime, DispatcherType
    <3>2. CASE deliverAt'[m] = dnow
      BY <1>3, <3>1, <3>2
    <3>3. CASE deliverAt'[m] # dnow
      <4>1. deliverAt'[m] = deliverAt[m] /\ status'[m] = status[m]
        BY <2>3, <3>3 DEF Pushback, Defer, RowType
      <4> QED BY <1>5, <1>7, <2>3, <4>1 DEF Pushback, Continue, Held, InQueue, AtWorker,
                 AtDispatcher, AtRequest, AtThread
    <3> QED BY <3>2, <3>3
  <2>4. ASSUME NEW d \in MsgId, QuietDefers(d) PROVE Early(m)'
    <3>1. CASE status'[m] = "scheduled"
      BY <1>4, <3>1
    <3>2. CASE status'[m] # "scheduled"
      <4>1. deliverAt'[m] = deliverAt[m] /\ status'[m] = status[m]
        BY <2>4, <3>2 DEF QuietDefers, Defer, RowType
      <4> QED BY <1>5, <1>7, <2>4, <4>1 DEF QuietDefers, Continue, Held, InQueue, AtWorker,
                 AtDispatcher, AtRequest, AtThread
    <3> QED BY <3>1, <3>2
  <2>5. ASSUME NEW d \in MsgId, Claim(d) PROVE Early(m)'
    <3>1. deliverAt[m] > now => m # d
      BY <1>3, <2>5 DEF Claim, DueAt, DateInv, TickTime, DispatcherType
    <3> QED BY <1>5, <1>7, <2>5, <3>1 DEF Claim, Held, InQueue, AtWorker, AtDispatcher,
               AtRequest, AtThread, RowType
  <2> QED BY <1>16, <2>1, <2>2, <2>3, <2>4, <2>5 DEF DispatcherStep
<1>17. CASE BootStep
  <2>1. CASE Boot
    <3>1. deliverAt[m] > now => (Held(m)' => Held(m))
      BY <1>6, <2>1 DEF Boot, Early, Held, InQueue, AtWorker, AtDispatcher, AtRequest, AtThread
    <3> QED BY <1>5, <1>7, <2>1, <3>1 DEF Boot
  <2>2. CASE Started
    BY <1>8, <2>2 DEF Started, Held, InQueue, AtWorker, AtDispatcher, AtRequest, AtThread
  <2>3. ASSUME NEW d \in MsgId, ReplayCapsule(d) \/ ReplayOverflows(d) PROVE Early(m)'
    <3>1. deliverAt[m] > now => m # d
      BY <1>6, <2>3 DEF ReplayCapsule, ReplayOverflows, FirstTodo
    <3>2. deliverAt[m] > now => status'[m] = status[m]
      BY <2>3, <3>1 DEF ReplayCapsule, ReplayOverflows, RowType
    <3>3. Held(m)' => Held(m)
      BY <2>3 DEF ReplayCapsule, ReplayOverflows, Held, InQueue, AtWorker, AtDispatcher,
         AtRequest, AtThread
    <3> QED BY <1>5, <1>7, <2>3, <3>2, <3>3 DEF ReplayCapsule, ReplayOverflows
  <2>4. ASSUME NEW d \in MsgId, Replay(d) PROVE Early(m)'
    <3>1. \A n : InQueue(n)' <=> InQueue(n) \/ n = d
      BY <2>4, InQueueAppend DEF Replay
    <3> QED BY <1>8, <2>4, <3>1 DEF Replay, FirstTodo, Held, AtWorker, AtDispatcher, AtRequest,
               AtThread
  <2> QED BY <1>17, <2>1, <2>2, <2>3, <2>4 DEF BootStep
<1>18. CASE Crash
  <2>1. ~Held(m)'
    BY <1>18 DEF Crash, Held, InQueue, AtWorker, AtDispatcher, AtRequest, AtThread
  <2>2. excused'[m] >= excused[m]
    BY <1>7, <1>18 DEF Crash
  <2> QED BY <1>5, <1>18, <2>1, <2>2 DEF Crash
<1>19. CASE Tick \/ IdlePoll \/ UNCHANGED vars
  BY <1>8, <1>9, <1>19 DEF Tick, IdlePoll, vars
<1> QED BY <1>10, <1>11, <1>12, <1>13, <1>14, <1>15, <1>16, <1>17, <1>18, <1>19 DEF Next

\* As long as SQLite works, whatever scans, claims, defers, pushes back or replays a
\* capsule keeps to its date: its receipt is never out before, and the date is
\* never inside quiet hours.
THEOREM NothingEarly == ASSUME MaxDbFails = 0 PROVE Spec => []NeverEarly
<1>1. Init => EarlyInv
  BY DEF Init, EarlyInv
<1>2. IInv /\ Hands /\ PaperInv /\ DateInv /\ EarlyInv /\ [Next]_vars => EarlyInv'
  BY EarlyStep
<1>3. DateInv /\ EarlyInv => NeverEarly
  BY DEF DateInv, Dated, EarlyInv, Early, NeverEarly
<1> QED BY <1>1, <1>2, <1>3, InvCorrect, HandsCorrect, PaperCorrect, DateCorrect, PTL DEF Spec

-----------------------------------------------------------------------------
(* Which capsules can wait, without quiet hours.  Everything but a new capsule *)
(* only takes rows off the list, so what Schedule checked stays true.          *)

\* Nothing is deferred, so no immediate print turns into a capsule.
CapsulesShrink ==
  \A m \in MsgId :
    /\ m \in Capsules' => m \in Capsules
    /\ m < nextId => sender'[m] = sender[m]

LEMMA CapsulesStep ==
  ASSUME Quiet = {}, IInv, DateInv, [Next]_vars, \A t \in Thread : ~Schedule(t)
  PROVE  CapsulesShrink
<1> USE DEF IInv, TypeOK, Owned
<1> SUFFICES ASSUME NEW m \in MsgId
             PROVE  /\ m \in Capsules' => m \in Capsules
                    /\ m < nextId => sender'[m] = sender[m]
  BY DEF CapsulesShrink
<1>1. ASSUME UNCHANGED <<sender, deliverAt>>,
             \/ status'[m] \notin {"scheduled", "queued"}
             \/ status[m] \in {"scheduled", "queued"}
             \/ deliverAt[m] = Null
      PROVE  /\ m \in Capsules' => m \in Capsules
             /\ m < nextId => sender'[m] = sender[m]
  BY <1>1 DEF Capsules
<1>2. ASSUME NEW u \in User, AccountStep(u) PROVE UNCHANGED <<sender, deliverAt>> /\
        (status'[m] \notin {"scheduled", "queued"} \/ status[m] \in {"scheduled", "queued"})
  BY <1>2 DEF AccountStep, Register, Approve, Revoke, Delete, RowType
<1>3. ASSUME NEW t \in Thread, Request(t) \/ Undo(t) PROVE UNCHANGED <<sender, deliverAt,
   status>>
  BY <1>3 DEF Request, Arrive, AskCancel, AskRetry, Undo
<1>4. ASSUME NEW t \in Thread, ThreadStep(t)
      PROVE  /\ m \in Capsules' => m \in Capsules
             /\ m < nextId => sender'[m] = sender[m]
  <2>1. CASE Log(t)
    <3>1. CASE m = nextId
      <4>1. deliverAt'[m] = Null
        BY <2>1, <3>1 DEF Log, RowsOK, RowType
      <4> QED BY <3>1, <4>1 DEF Capsules, RowType
    <3>2. CASE m # nextId
      <4>1. status'[m] = status[m] /\ sender'[m] = sender[m] /\ deliverAt' = deliverAt
        BY <2>1, <3>2 DEF Log, RowType
      <4> QED BY <4>1 DEF Capsules
    <3> QED BY <3>1, <3>2
  <2>2. CASE Erase(t) \/ Cancel(t) \/ Mark(t)
    <3>1. status'[m] \notin {"scheduled", "queued"} \/ status[m] \in {"scheduled", "queued"}
      BY <2>2 DEF Erase, Cancel, Mark, UpdateRow, RowType
    <3> QED BY <1>1, <2>2, <3>1 DEF Erase, Cancel, Mark
  <2>3. CASE RejectCapsule(t) \/ Reserve(t) \/ RejectCap(t) \/ LogFails(t) \/ Put(t)
             \/ PutFull(t) \/ RetryPrints(t) \/ RetryFails(t)
    BY <1>1, <2>3 DEF RejectCapsule, Reserve, RejectCap, LogFails, Put, PutFull, RetryPrints,
       RetryFails
  <2> QED BY <1>4, <2>1, <2>2, <2>3 DEF ThreadStep
<1>5. ASSUME WorkerStep \/ Finish
      PROVE  UNCHANGED <<sender, deliverAt>> /\
        (status'[m] \notin {"scheduled", "queued"} \/ status[m] \in {"scheduled", "queued"})
  <2>1. CASE Skip \/ Record
    BY <2>1 DEF Skip, Record, UpdateRow, RowType, WorkerType
  <2>2. CASE Get \/ Read \/ ReadFails \/ QuietHolds \/ QuietPasses \/ Prints \/ PrintFails \/ Finish
    BY <2>2 DEF Get, Read, ReadFails, QuietHolds, QuietPasses, Prints, PrintFails, Finish
  <2> QED BY <1>5, <2>1, <2>2 DEF WorkerStep
<1>6. CASE Pushback
  <2>1. CASE m = dmsg /\ Defer(dmsg, dnow)
    <3>1. deliverAt[m] # Null /\ sender' = sender
      BY <1>6, <2>1 DEF Pushback, DateInv, Dated, AtDispatcher
    <3> QED BY <2>1, <3>1 DEF Defer, Capsules, RowType
  <2>2. CASE ~(m = dmsg /\ Defer(dmsg, dnow))
    <3>1. status'[m] = status[m] /\ deliverAt'[m] = deliverAt[m] /\ sender' = sender
      BY <1>6, <2>2 DEF Pushback, Defer, RowType
    <3> QED BY <3>1 DEF Capsules
  <2> QED BY <2>1, <2>2
<1>7. ASSUME DispatcherStep, ~Pushback
      PROVE  UNCHANGED <<sender, deliverAt>> /\
        (status'[m] \notin {"scheduled", "queued"} \/ status[m] \in {"scheduled", "queued"})
  <2>1. CASE Scan \/ PutClaim \/ Dispatched \/ TickFails \/ \E d \in MsgId : QuietDefers(d) \/ PassOver(d)
    BY <2>1 DEF Scan, PutClaim, Dispatched, TickFails, QuietDefers, PassOver
  <2>2. ASSUME NEW d \in MsgId, Claim(d)
        PROVE  UNCHANGED <<sender, deliverAt>> /\
        (status'[m] \notin {"scheduled", "queued"} \/ status[m] \in {"scheduled", "queued"})
    BY <2>2 DEF Claim, DueAt, RowType
  <2> QED BY <1>7, <2>1, <2>2 DEF DispatcherStep
<1>8. ASSUME BootStep \/ Crash
      PROVE  UNCHANGED <<sender, deliverAt>> /\
        (status'[m] \notin {"scheduled", "queued"} \/ status[m] \in {"scheduled", "queued"})
  <2>1. CASE Boot \/ Started \/ Crash \/ \E d \in MsgId : Replay(d)
    BY <2>1 DEF Boot, Started, Replay, Crash
  <2>2. ASSUME NEW d \in MsgId, ReplayCapsule(d) \/ ReplayOverflows(d)
        PROVE  UNCHANGED <<sender, deliverAt>> /\
        (status'[m] \notin {"scheduled", "queued"} \/ status[m] \in {"scheduled", "queued"})
    BY <2>2 DEF ReplayCapsule, ReplayOverflows, FirstTodo, ProcessOK, RowType
  <2> QED BY <1>8, <2>1, <2>2 DEF BootStep
<1>9. CASE Tick \/ IdlePoll \/ UNCHANGED vars
  BY <1>1, <1>9 DEF Tick, IdlePoll, vars
<1> QED BY <1>1, <1>2, <1>3, <1>4, <1>5, <1>6, <1>7, <1>8, <1>9 DEF Next

LEMMA UsersStep == [Next]_vars => users' = users \/ \E u \in User : AccountStep(u)
<1>1. ASSUME NEW t \in Thread, Request(t) \/ ThreadStep(t) \/ Undo(t) PROVE users' = users
  BY <1>1 DEF Request, Arrive, AskCancel, AskRetry, ThreadStep, Schedule, RejectCapsule,
     Reserve,
     RejectCap, Log, LogFails, Put, PutFull, Erase, Cancel, RetryPrints, RetryFails, Mark, Undo
<1>2. WorkerStep \/ Finish => users' = users
  BY DEF WorkerStep, Finish, Get, Read, Skip, ReadFails, QuietHolds, QuietPasses, Prints,
     PrintFails, Record
<1>3. DispatcherStep => users' = users
  BY DEF DispatcherStep, Scan, PutClaim, Dispatched, Pushback, TickFails, QuietDefers, PassOver,
     Claim
<1>4. BootStep \/ Crash => users' = users
  BY DEF BootStep, Boot, Started, ReplayCapsule, Replay, ReplayOverflows, Crash
<1>5. Tick \/ IdlePoll \/ UNCHANGED vars => users' = users
  BY DEF Tick, IdlePoll, vars
<1> QED BY <1>1, <1>2, <1>3, <1>4, <1>5 DEF Next

LEMMA BacklogStep ==
  ASSUME Quiet = {}, IInv, DateInv, BlockedHasNoBacklog, [Next]_vars
  PROVE  BlockedHasNoBacklog'
<1> USE DEF IInv, TypeOK, Owned
<1> SUFFICES ASSUME NEW m \in MsgId, status'[m] = "scheduled" PROVE SenderAllowed(m)'
  BY DEF BlockedHasNoBacklog
<1>1. ASSUME NEW t \in Thread, Schedule(t) PROVE SenderAllowed(m)'
  <2>1. CASE m = nextId
    BY <1>1, <2>1 DEF Schedule, RoomForCapsule, SenderAllowed, RowType
  <2>2. CASE m # nextId
    BY <1>1, <2>2 DEF Schedule, BlockedHasNoBacklog, SenderAllowed, RowType
  <2> QED BY <2>1, <2>2
<1>2. ASSUME \A t \in Thread : ~Schedule(t) PROVE SenderAllowed(m)'
  <2>1. deliverAt'[m] # Null
    BY DateStep DEF DateInv, Dated
  <2>2. m \in Capsules
    BY <1>2, <2>1, CapsulesStep DEF CapsulesShrink, Capsules
  <2>3. SenderAllowed(m) /\ sender[m] \in User /\ m < nextId
    BY <2>2 DEF Capsules, BlockedHasNoBacklog, QueuedCapsuleAllowed, RowsOK
  <2>4. sender'[m] = sender[m]
    BY <1>2, <2>3, CapsulesStep DEF CapsulesShrink
  <2>5. CASE users' = users
    BY <2>3, <2>4, <2>5 DEF SenderAllowed
  <2>6. ASSUME NEW u \in User, AccountStep(u) PROVE SenderAllowed(m)'
    BY <2>2, <2>3, <2>4, <2>6 DEF AccountStep, Register, Approve, Revoke, Delete, SenderAllowed,
       RowType
  <2> QED BY <2>5, <2>6, UsersStep
<1> QED BY <1>1, <1>2

LEMMA CapsulesFinite == IsFiniteSet(MsgId) /\ IsFiniteSet(Capsules)
<1>1. IsFiniteSet(MsgId)
  BY FS_Interval, CapAssumption
<1>2. Capsules \in SUBSET MsgId
  BY DEF Capsules
<1> QED BY <1>1, <1>2, FS_Subset

OfFriend(u) == {m \in Capsules : sender[m] = u}

LEMMA LimitsStep ==
  ASSUME Quiet = {}, IInv, DateInv, CapsuleLimits, [Next]_vars
  PROVE  CapsuleLimits'
<1> USE DEF IInv, TypeOK, Owned
<1>1. CapsuleLimits <=> /\ Cardinality(Capsules) <= CapsuleTotal
                        /\ \A u \in User : Cardinality(OfFriend(u)) <= CapsuleCap
  BY DEF CapsuleLimits, OfFriend
<1>2. CapsuleLimits' <=> /\ Cardinality(Capsules') <= CapsuleTotal
                         /\ \A u \in User : Cardinality(OfFriend(u)') <= CapsuleCap
  BY DEF CapsuleLimits, OfFriend
<1>3. /\ IsFiniteSet(Capsules) /\ Cardinality(Capsules) \in Nat
      /\ \A u : IsFiniteSet(OfFriend(u)) /\ Cardinality(OfFriend(u)) \in Nat
  <2>1. \A u : OfFriend(u) \in SUBSET Capsules
    BY DEF OfFriend
  <2>2. IsFiniteSet(Capsules)
    BY CapsulesFinite
  <2>3. \A u : IsFiniteSet(OfFriend(u))
    BY <2>1, <2>2, FS_Subset
  <2> QED BY <2>2, <2>3, FS_CardinalityType
<1>4. ASSUME NEW t \in Thread, Schedule(t) PROVE CapsuleLimits'
  <2>1. /\ nextId \in MsgId /\ nextId \notin Capsules
        /\ \A m \in MsgId : m # nextId =>
             deliverAt'[m] = deliverAt[m] /\ status'[m] = status[m] /\ sender'[m] = sender[m]
        /\ deliverAt'[nextId] # Null /\ status'[nextId] = "scheduled"
        /\ sender'[nextId] = tuser[t]
    BY <1>4 DEF Schedule, Capsules, RowsOK, RowType
  <2>2. Capsules' = Capsules \cup {nextId}
    BY <2>1 DEF Capsules
  <2>3. \A u : OfFriend(u)' = IF u = tuser[t] THEN OfFriend(u) \cup {nextId} ELSE OfFriend(u)
    BY <2>1, <2>2 DEF OfFriend, Capsules
  <2>4. /\ Cardinality(Capsules) < CapsuleTotal
        /\ Cardinality(OfFriend(tuser[t])) < CapsuleCap
    BY <1>4 DEF Schedule, RoomForCapsule, OfFriend
  <2>5. Cardinality(Capsules') <= CapsuleTotal
    <3>1. Cardinality(Capsules') = Cardinality(Capsules) + 1
      BY <1>3, <2>1, <2>2, FS_AddElement
    <3> QED BY <1>3, <2>4, <3>1, CapAssumption
  <2>6. ASSUME NEW u \in User PROVE Cardinality(OfFriend(u)') <= CapsuleCap
    <3>1. CASE u = tuser[t]
      <4>1. nextId \notin OfFriend(u)
        BY <2>1 DEF OfFriend
      <4>2. Cardinality(OfFriend(u)') = Cardinality(OfFriend(u)) + 1
        BY <1>3, <2>3, <3>1, <4>1, FS_AddElement
      <4> QED BY <1>3, <2>4, <3>1, <4>2, CapAssumption
    <3>2. CASE u # tuser[t]
      BY <1>1, <2>3, <3>2
    <3> QED BY <3>1, <3>2
  <2> QED BY <1>2, <2>5, <2>6
<1>5. ASSUME \A t \in Thread : ~Schedule(t) PROVE CapsuleLimits'
  <2>1. CapsulesShrink
    BY <1>5, CapsulesStep
  <2>2. Capsules' \in SUBSET Capsules
    BY <2>1 DEF CapsulesShrink, Capsules
  <2>3. \A m \in Capsules : m \in MsgId /\ m < nextId
    BY DEF Capsules, RowsOK
  <2>4. \A u : OfFriend(u)' \in SUBSET OfFriend(u)
    BY <2>1, <2>2, <2>3 DEF CapsulesShrink, OfFriend
  <2>5. Cardinality(Capsules') <= Cardinality(Capsules) /\ Cardinality(Capsules') \in Nat
    BY <1>3, <2>2, FS_Subset, FS_CardinalityType
  <2>6. \A u : /\ Cardinality(OfFriend(u)') <= Cardinality(OfFriend(u))
               /\ Cardinality(OfFriend(u)') \in Nat
    BY <1>3, <2>4, FS_Subset, FS_CardinalityType
  <2> QED BY <1>1, <1>2, <1>3, <2>5, <2>6, CapAssumption
<1> QED BY <1>4, <1>5

\* Without quiet hours a friend who is not allowed has nothing scheduled, whatever
\* was claimed, pushed back or replayed meanwhile: approving again delivers
\* nothing old.
THEOREM NothingOldWaits == ASSUME Quiet = {} PROVE Spec => []BlockedHasNoBacklog
<1>1. Init => BlockedHasNoBacklog
  BY DEF Init, BlockedHasNoBacklog
<1>2. IInv /\ DateInv /\ BlockedHasNoBacklog /\ [Next]_vars => BlockedHasNoBacklog'
  BY BacklogStep
<1> QED BY <1>1, <1>2, InvCorrect, DateCorrect, PTL DEF Spec

\* Without quiet hours the two capsule limits hold at every instant, however many
\* requests check them at once: no push-back or replay adds a capsule.
THEOREM LimitsKept == ASSUME Quiet = {} PROVE Spec => []CapsuleLimits
<1>1. Init => CapsuleLimits
  <2> SUFFICES ASSUME Init PROVE CapsuleLimits
    OBVIOUS
  <2>1. Capsules = {}
    BY DEF Init, Capsules
  <2>2. \A u : {m \in Capsules : sender[m] = u} = {}
    BY <2>1
  <2> QED BY <2>1, <2>2, FS_EmptySet, CapAssumption DEF CapsuleLimits
<1>2. IInv /\ DateInv /\ CapsuleLimits /\ [Next]_vars => CapsuleLimits'
  BY LimitsStep
<1> QED BY <1>1, <1>2, InvCorrect, DateCorrect, PTL DEF Spec

-----------------------------------------------------------------------------
(* What is counted.  Every step that moves a slot from a request to the    *)
(* queue, to the worker and back to its friend changes the cap counter and *)
(* what it counts by the same amount; and a failure of SQLite costs one    *)
(* row and one receipt at most.                                            *)

\* The terms of Load, one by one.
Queued(u)   == {i \in 1..Len(queue) : sender[queue[i]] = u}
Working(u)  == wjob # NoMsg /\ sender[wjob] = u
Reserved(u) == {t \in Thread : pc[t] \in {"reserved", "logged", "undo"} /\ tuser[t] = u}
Claiming(u) == dpc = "inc" /\ sender[dmsg] = u

One(P) == IF P THEN 1 ELSE 0

\* Whoever has taken a message up keeps its id, and with it its sender, for good.
SlotsOwned ==
  /\ wpc = "get" => wjob = NoMsg
  /\ wpc # "get" => wjob < nextId
  /\ dpc \in {"put", "inc"} => dmsg < nextId
  /\ \A t \in Thread : pc[t] = "logged" => tmsg[t] < nextId /\ sender[tmsg[t]] = tuser[t]

-----------------------------------------------------------------------------
(* Counting *)

LEMMA CountsFinite ==
  ASSUME TypeOK, NEW u
  PROVE  /\ IsFiniteSet(Queued(u)) /\ Cardinality(Queued(u)) \in Nat
         /\ IsFiniteSet(Reserved(u)) /\ Cardinality(Reserved(u)) \in Nat
<1>1. Len(queue) \in Nat
  BY DEF TypeOK, QueueType
<1>2. IsFiniteSet(Queued(u))
  <2>1. Queued(u) \in SUBSET (1..Len(queue))
    BY DEF Queued
  <2>2. IsFiniteSet(1..Len(queue))
    BY <1>1, FS_Interval
  <2> QED BY <2>1, <2>2, FS_Subset
<1>3. Reserved(u) \in SUBSET Thread
  BY DEF Reserved
<1>4. IsFiniteSet(Reserved(u))
  BY <1>3, ThreadAssumption, FS_Subset
<1> QED BY <1>2, <1>4, FS_CardinalityType

LEMMA LoadTerms ==
  ASSUME NEW u
  PROVE  Load(u) = Cardinality(Queued(u)) + One(Working(u)) + Cardinality(Reserved(u))
                   - One(Claiming(u))
<1> DEFINE W == {w \in {wjob} : w # NoMsg /\ sender[w] = u}
           D == {d \in {dmsg} : dpc = "inc" /\ sender[d] = u}
<1>1. Cardinality(W) = One(Working(u))
  <2>1. (W = {}) <=> ~Working(u)
    BY DEF Working
  <2> QED BY <2>1, AtMostOne DEF One
<1>2. Cardinality(D) = One(Claiming(u))
  <2>1. (D = {}) <=> ~Claiming(u)
    BY DEF Claiming
  <2> QED BY <2>1, AtMostOne DEF One
<1>3. Load(u) = Cardinality(Queued(u)) + Cardinality(W) + Cardinality(Reserved(u)) - Cardinality(D)
  BY DEF Load, Queued, Reserved
<1> QED BY <1>1, <1>2, <1>3

\* A new entry counts for its sender ...
LEMMA QueuedAppend ==
  ASSUME TypeOK, NEW e \in MsgId, queue' = Append(queue, e), sender' = sender, NEW u
  PROVE  Cardinality(Queued(u)') = Cardinality(Queued(u)) + One(sender[e] = u)
<1>1. /\ Len(queue') = Len(queue) + 1 /\ Len(queue) \in Nat
      /\ \A i \in 1..Len(queue) : queue'[i] = queue[i]
      /\ queue'[Len(queue) + 1] = e
  BY DEF TypeOK, QueueType
<1>2. CASE sender[e] = u
  <2>1. /\ Queued(u)' = Queued(u) \cup {Len(queue) + 1}
        /\ Len(queue) + 1 \notin Queued(u)
    BY <1>1, <1>2 DEF Queued
  <2> QED BY <1>2, <2>1, CountsFinite, FS_AddElement DEF One
<1>3. CASE sender[e] # u
  <2>1. Queued(u)' = Queued(u)
    BY <1>1, <1>3 DEF Queued
  <2> QED BY <1>3, <2>1, CountsFinite DEF One
<1> QED BY <1>2, <1>3

LEMMA ShiftCount ==
  ASSUME NEW B \in SUBSET Int, IsFiniteSet(B)
  PROVE  Cardinality({i + 1 : i \in B}) = Cardinality(B)
<1> DEFINE A == {i + 1 : i \in B}
           f == [i \in B |-> i + 1]
<1>1. f \in [B -> A]
  OBVIOUS
<1>2. \A i, j \in B : f[i] = f[j] => i = j
  OBVIOUS
<1>3. \A a \in A : \E i \in B : f[i] = a
  OBVIOUS
<1> HIDE DEF A, f
<1>4. f \in Bijection(B, A)
  BY <1>1, <1>2, <1>3, Fun_IsBij
<1>5. Cardinality(A) = Cardinality(B)
  BY <1>4, FS_Bijection, Fun_ExistsBij
<1> QED BY <1>5 DEF A

\* ... and the head of the queue takes its own count along; the rest moves up.
LEMMA QueuedTail ==
  ASSUME TypeOK, queue # << >>, queue' = Tail(queue), sender' = sender, NEW u
  PROVE  Cardinality(Queued(u)) = Cardinality(Queued(u)') + One(sender[Head(queue)] = u)
<1>1. /\ queue \in Seq(MsgId) /\ Len(queue) \in Nat \ {0}
      /\ Len(queue') = Len(queue) - 1 /\ Head(queue) = queue[1]
  <2>1. queue \in Seq(MsgId) /\ Head(queue) = queue[1]
    BY DEF TypeOK, QueueType
  <2>2. Tail(queue) \in Seq(MsgId) /\ Len(Tail(queue)) = Len(queue) - 1
    BY <2>1, HeadTailProperties
  <2> QED BY <2>1, <2>2
<1>2. \A i \in 1..Len(queue') : queue'[i] = queue[i + 1]
  BY <1>1, HeadTailProperties
<1> DEFINE A == Queued(u) \ {1}
           B == {i \in 1..Len(queue') : sender[queue'[i]] = u}
<1>3. B = Queued(u)'
  BY DEF Queued
<1>4. A = {i + 1 : i \in B}
  <2>1. ASSUME NEW i \in B PROVE i + 1 \in A
    BY <1>1, <1>2 DEF Queued
  <2>2. ASSUME NEW a \in A PROVE a - 1 \in B /\ a = (a - 1) + 1
    <3>1. a \in 1..Len(queue) /\ a # 1 /\ sender[queue[a]] = u
      BY DEF Queued
    <3>2. a - 1 \in 1..Len(queue') /\ queue'[a - 1] = queue[a]
      BY <1>1, <1>2, <3>1
    <3> QED BY <3>1, <3>2
  <2> HIDE DEF A, B
  <2> QED BY <2>1, <2>2
<1>5. IsFiniteSet(B) /\ B \in SUBSET Int
  <2>1. B \in SUBSET (1..Len(queue')) /\ Len(queue') \in Int
    BY <1>1
  <2>2. IsFiniteSet(1..Len(queue'))
    BY <2>1, FS_Interval
  <2>3. IsFiniteSet(B)
    BY <2>1, <2>2, FS_Subset
  <2>4. B \in SUBSET Int
    OBVIOUS
  <2> HIDE DEF B
  <2> QED BY <2>3, <2>4
<1>6. Cardinality(A) = Cardinality(B)
  BY <1>4, <1>5, ShiftCount
<1>7. Cardinality(A) = IF 1 \in Queued(u) THEN Cardinality(Queued(u)) - 1 ELSE Cardinality(Queued(u))
  BY CountsFinite, FS_RemoveElement
<1>8. (1 \in Queued(u)) <=> sender[Head(queue)] = u
  BY <1>1 DEF Queued
<1>9. Cardinality(Queued(u)') = Cardinality(A)
  BY <1>3, <1>6
<1> HIDE DEF A, B
<1> QED BY <1>7, <1>8, <1>9, CountsFinite DEF One

LEMMA ReservedTaken ==
  ASSUME TypeOK, NEW u, NEW v, NEW t, t \notin Reserved(u),
         Reserved(u)' = IF u = v THEN Reserved(u) \cup {t} ELSE Reserved(u)
  PROVE  Cardinality(Reserved(u)') = Cardinality(Reserved(u)) + One(u = v)
<1>1. CASE u = v
  BY <1>1, CountsFinite, FS_AddElement DEF One
<1>2. CASE u # v
  BY <1>2, CountsFinite DEF One
<1> QED BY <1>1, <1>2

LEMMA ReservedGiven ==
  ASSUME TypeOK, NEW u, NEW v, NEW t, t \in Reserved(v),
         Reserved(u)' = IF u = v THEN Reserved(u) \ {t} ELSE Reserved(u)
  PROVE  Cardinality(Reserved(u)) = Cardinality(Reserved(u)') + One(u = v)
<1>1. CASE u = v
  <2>1. Cardinality(Reserved(u)') = Cardinality(Reserved(u)) - 1
    BY <1>1, CountsFinite, FS_RemoveElement
  <2> QED BY <1>1, <2>1, CountsFinite DEF One
<1>2. CASE u # v
  BY <1>2, CountsFinite DEF One
<1> QED BY <1>1, <1>2

-----------------------------------------------------------------------------
\* Senders are written once, with a fresh id, and ids only grow.
LEMMA SenderStep ==
  ASSUME IInv, [Next]_vars
  PROVE  /\ nextId' \in {nextId, nextId + 1}
         /\ \A m \in MsgId : m < nextId => sender'[m] = sender[m]
         /\ sender' = sender \/ \E t \in Thread : Schedule(t) \/ Log(t)
<1> USE DEF IInv, TypeOK
<1>1. ASSUME NEW t \in Thread, Schedule(t) \/ Log(t)
      PROVE  nextId' = nextId + 1 /\ \A m \in MsgId : m < nextId => sender'[m] = sender[m]
  <2>1. nextId' = nextId + 1 /\ sender' = [sender EXCEPT ![nextId] = tuser[t]]
    BY <1>1 DEF Schedule, Log
  <2>2. nextId \in Int /\ sender \in [MsgId -> User \cup {NoUser}]
    BY CapAssumption DEF RowType
  <2>3. ASSUME NEW m \in MsgId, m < nextId PROVE sender'[m] = sender[m]
    <3>1. m # nextId
      BY <2>2, <2>3
    <3> QED BY <2>1, <2>2, <3>1
  <2> QED BY <2>1, <2>3
<1>2. ASSUME NEW t \in Thread, ThreadStep(t), ~Schedule(t), ~Log(t)
      PROVE  UNCHANGED <<nextId, sender>>
  BY <1>2 DEF ThreadStep, RejectCapsule, Reserve, RejectCap, LogFails, Put, PutFull, Erase,
     Cancel,
     RetryPrints, RetryFails, Mark
<1>3. ASSUME NEW t \in Thread, Request(t) \/ Undo(t) PROVE UNCHANGED <<nextId, sender>>
  BY <1>3 DEF Request, Arrive, AskCancel, AskRetry, Undo
<1>4. WorkerStep \/ Finish => UNCHANGED <<nextId, sender>>
  BY DEF WorkerStep, Finish, Get, Read, Skip, ReadFails, QuietHolds, QuietPasses, Prints,
     PrintFails, Record
<1>5. DispatcherStep => UNCHANGED <<nextId, sender>>
  BY DEF DispatcherStep, Scan, PutClaim, Dispatched, Pushback, TickFails, QuietDefers, PassOver,
     Claim
<1>6. BootStep \/ Crash => UNCHANGED <<nextId, sender>>
  BY DEF BootStep, Boot, Started, ReplayCapsule, Replay, ReplayOverflows, Crash
<1>7. ASSUME NEW u \in User, AccountStep(u) PROVE UNCHANGED <<nextId, sender>>
  BY <1>7 DEF AccountStep, Register, Approve, Revoke, Delete
<1>8. Tick \/ IdlePoll \/ UNCHANGED vars => UNCHANGED <<nextId, sender>>
  BY DEF Tick, IdlePoll, vars
<1> QED BY <1>1, <1>2, <1>3, <1>4, <1>5, <1>6, <1>7, <1>8 DEF Next

LEMMA SlotsStep == ASSUME IInv, Hands, SlotsOwned, [Next]_vars PROVE SlotsOwned'
<1> USE DEF IInv, TypeOK, Owned
<1>1. nextId \in Int /\ nextId' \in Int /\ nextId' >= nextId
  BY SenderStep DEF RowType
<1>2. \A m \in MsgId : m < nextId => sender'[m] = sender[m]
  BY SenderStep
<1>3. ASSUME UNCHANGED <<wpc, wjob, dpc, dmsg>>,
             \A t \in Thread : pc'[t] = "logged" => pc[t] = "logged" /\ tmsg'[t] = tmsg[t]
                                                   /\ tuser'[t] = tuser[t]
      PROVE  SlotsOwned'
  BY <1>1, <1>2, <1>3 DEF SlotsOwned, ThreadsHold, WorkerType, DispatcherType, ThreadType
<1>4. ASSUME NEW u \in User, AccountStep(u) PROVE SlotsOwned'
  BY <1>3, <1>4 DEF AccountStep, Register, Approve, Revoke, Delete
<1>5. ASSUME NEW t \in Thread, Request(t) PROVE SlotsOwned'
  BY <1>3, <1>5 DEF Request, Arrive, AskCancel, AskRetry, ThreadType
<1>6. ASSUME NEW t \in Thread, ThreadStep(t) PROVE SlotsOwned'
  <2>1. CASE Log(t)
    <3>1. \A o \in Thread : o # t => UNCHANGED <<pc[o], tmsg[o], tuser[o]>>
      BY <2>1 DEF Log, ThreadType
    <3>2. tmsg'[t] = nextId /\ tuser'[t] = tuser[t] /\ sender'[nextId] = tuser[t]
          /\ nextId' = nextId + 1
      BY <2>1 DEF Log, ThreadType, RowType
    <3>3. \A o \in Thread : pc'[o] = "logged" =>
            tmsg'[o] < nextId' /\ sender'[tmsg'[o]] = tuser'[o]
      BY <1>1, <1>2, <3>1, <3>2 DEF SlotsOwned, ThreadsHold
    <3> QED BY <1>1, <2>1, <3>3 DEF Log, SlotsOwned, WorkerType, DispatcherType
  <2>2. CASE Schedule(t) \/ RejectCapsule(t) \/ RejectCap(t) \/ Put(t) \/ Erase(t) \/ Cancel(t)
             \/ RetryFails(t) \/ Mark(t)
    BY <1>3, <2>2 DEF Schedule, RejectCapsule, RejectCap, Put, Erase, Cancel, RetryFails, Mark,
       Return, ThreadType
  <2>3. CASE Reserve(t) \/ LogFails(t) \/ PutFull(t) \/ RetryPrints(t)
    BY <1>3, <2>3 DEF Reserve, LogFails, PutFull, RetryPrints, Goto, ThreadType
  <2> QED BY <1>6, <2>1, <2>2, <2>3 DEF ThreadStep
<1>7. ASSUME NEW t \in Thread, Undo(t) PROVE SlotsOwned'
  BY <1>3, <1>7 DEF Undo, Return, Goto, ThreadType
<1>8. CASE WorkerStep
  <2>1. CASE Get
    <3>1. Head(queue) \in MsgId /\ Head(queue) < nextId
      <4>1. queue \in Seq(MsgId) /\ queue # << >> /\ Head(queue) = queue[1]
        BY <2>1 DEF Get, QueueType
      <4>2. Head(queue) \in MsgId
        BY <4>1, HeadTailProperties
      <4>3. 1 \in 1..Len(queue)
        <5>1. Len(queue) \in Nat /\ Len(queue) # 0
          BY <4>1, EmptySeq, LenProperties
        <5> QED BY <5>1
      <4>4. Held(Head(queue))
        BY <4>1, <4>3 DEF Held, InQueue
      <4> QED BY <4>2, <4>4 DEF Hands, HeldWaits
    <3> QED BY <2>1, <3>1 DEF Get, SlotsOwned
  <2>2. CASE Read \/ Skip \/ ReadFails \/ QuietHolds \/ QuietPasses \/ Prints \/ PrintFails
             \/ Record
    BY <2>2 DEF Read, Skip, ReadFails, QuietHolds, QuietPasses, Prints, PrintFails, Record,
       SlotsOwned
  <2> QED BY <1>8, <2>1, <2>2 DEF WorkerStep
<1>9. CASE Finish
  BY <1>9 DEF Finish, SlotsOwned
<1>10. CASE DispatcherStep
  <2>1. CASE Scan \/ PutClaim \/ Dispatched \/ Pushback \/ TickFails
             \/ \E m \in MsgId : QuietDefers(m) \/ PassOver(m)
    BY <2>1 DEF Scan, PutClaim, Dispatched, Pushback, TickFails, QuietDefers, PassOver,
       Continue,
       SlotsOwned
  <2>2. ASSUME NEW m \in MsgId, Claim(m) PROVE SlotsOwned'
    <3>1. m < nextId
      BY <2>2 DEF Claim, Hands, DueFree
    <3> QED BY <2>2, <3>1 DEF Claim, SlotsOwned
  <2> QED BY <1>10, <2>1, <2>2 DEF DispatcherStep
<1>11. CASE BootStep
  BY <1>3, <1>11 DEF BootStep, Boot, Started, ReplayCapsule, Replay, ReplayOverflows
<1>12. CASE Crash
  BY <1>12 DEF Crash, SlotsOwned
<1>13. CASE Tick \/ IdlePoll \/ UNCHANGED vars
  BY <1>3, <1>13 DEF Tick, IdlePoll, vars
<1> QED BY <1>4, <1>5, <1>6, <1>7, <1>8, <1>9, <1>10, <1>11, <1>12, <1>13 DEF Next

LEMMA SlotsCorrect == Spec => []SlotsOwned
<1>1. Init => SlotsOwned
  BY DEF Init, SlotsOwned
<1>2. IInv /\ Hands /\ SlotsOwned /\ [Next]_vars => SlotsOwned'
  BY SlotsStep
<1> QED BY <1>1, <1>2, InvCorrect, HandsCorrect, PTL DEF Spec

-----------------------------------------------------------------------------
Balance(u) ==
  inflight[u] = Cardinality(Queued(u)) + One(Working(u)) + Cardinality(Reserved(u))
                - One(Claiming(u))

\* A step that neither moves a slot nor writes a counter: a row inserted
\* meanwhile has an id nobody held.
LEMMA BalanceKept ==
  ASSUME IInv, Hands, SlotsOwned, [Next]_vars, NEW u \in User, Balance(u),
         UNCHANGED <<inflight, queue, wjob>>,
         dpc' = "inc" <=> dpc = "inc", dpc = "inc" => dmsg' = dmsg,
         Reserved(u)' = Reserved(u)
  PROVE  Balance(u)'
<1> USE DEF IInv, TypeOK, Owned
<1>1. \A m \in MsgId : m < nextId => sender'[m] = sender[m]
  BY SenderStep
<1>2. Queued(u)' = Queued(u)
  <2>1. ASSUME NEW i \in 1..Len(queue) PROVE sender'[queue[i]] = sender[queue[i]]
    <3>1. queue[i] \in MsgId
      <4>1. queue \in Seq(MsgId)
        BY DEF QueueType
      <4> QED BY <4>1, ElementOfSeq
    <3>2. Held(queue[i])
      BY DEF Held, InQueue
    <3> QED BY <1>1, <3>1, <3>2 DEF Hands, HeldWaits
  <2> QED BY <2>1 DEF Queued
<1>3. Working(u)' <=> Working(u)
  BY <1>1 DEF Working, SlotsOwned, WorkerHolds
<1>4. Claiming(u)' <=> Claiming(u)
  BY <1>1 DEF Claiming, SlotsOwned, DispatcherHolds
<1>5. One(Working(u))' = One(Working(u)) /\ One(Claiming(u))' = One(Claiming(u))
  BY <1>3, <1>4 DEF One
<1> QED BY <1>2, <1>5 DEF Balance

\* A thread that steps changes the reservations of the friend it works for only.
LEMMA ReservedKept ==
  ASSUME NEW t \in Thread, NEW u,
         \A o \in Thread : o # t => pc'[o] = pc[o] /\ tuser'[o] = tuser[o],
         (t \in Reserved(u))' <=> t \in Reserved(u)
  PROVE  Reserved(u)' = Reserved(u)
  BY DEF Reserved

LEMMA BalanceStep ==
  ASSUME IInv, Hands, SlotsOwned, [Next]_vars, NEW u \in User, Balance(u)
  PROVE  Balance(u)'
<1> USE DEF IInv, TypeOK, Owned
<1>1. /\ Cardinality(Queued(u)) \in Nat /\ Cardinality(Reserved(u)) \in Nat
      /\ One(Working(u)) \in Nat /\ One(Claiming(u)) \in Nat
      /\ inflight \in [User -> Nat]
  BY CountsFinite DEF One, QueueType
<1>2. ASSUME NEW v \in User, AccountStep(v) PROVE Balance(u)'
  BY <1>2, BalanceKept DEF AccountStep, Register, Approve, Revoke, Delete, Reserved
<1>3. ASSUME NEW t \in Thread, Request(t) PROVE Balance(u)'
  <2>1. /\ UNCHANGED <<inflight, queue, wjob, dpc, dmsg>>
        /\ \A o \in Thread : o # t => pc'[o] = pc[o] /\ tuser'[o] = tuser[o]
        /\ t \notin Reserved(u) /\ (t \notin Reserved(u))'
    BY <1>3 DEF Request, Arrive, AskCancel, AskRetry, ThreadType, Reserved
  <2>2. Reserved(u)' = Reserved(u)
    BY <2>1, ReservedKept
  <2> QED BY <2>1, <2>2, BalanceKept
<1>4. ASSUME NEW t \in Thread, ThreadStep(t) PROVE Balance(u)'
  <2>1. CASE Schedule(t) \/ RejectCapsule(t) \/ RejectCap(t) \/ Log(t) \/ Erase(t)
             \/ Cancel(t) \/ RetryPrints(t) \/ RetryFails(t) \/ Mark(t)
    <3>1. UNCHANGED <<inflight, queue, wjob, dpc, dmsg>>
      BY <2>1 DEF Schedule, RejectCapsule, RejectCap, Log, Erase, Cancel, RetryPrints,
         RetryFails, Mark
    <3>2. CASE Schedule(t) \/ RejectCapsule(t) \/ RejectCap(t) \/ Erase(t)
      <4>1. /\ \A o \in Thread : o # t => pc'[o] = pc[o] /\ tuser'[o] = tuser[o]
            /\ t \notin Reserved(u) /\ (t \notin Reserved(u))'
        BY <3>2 DEF Schedule, RejectCapsule, RejectCap, Erase, Return, ThreadType, Reserved
      <4>2. Reserved(u)' = Reserved(u)
        BY <4>1, ReservedKept
      <4> QED BY <3>1, <4>2, BalanceKept
    <3>3. CASE Cancel(t) \/ RetryPrints(t) \/ RetryFails(t) \/ Mark(t)
      <4>1. /\ \A o \in Thread : o # t => pc'[o] = pc[o] /\ tuser'[o] = tuser[o]
            /\ t \notin Reserved(u) /\ (t \notin Reserved(u))'
        BY <3>3 DEF Cancel, RetryPrints, RetryFails, Mark, Return, Goto, ThreadType, Reserved
      <4>2. Reserved(u)' = Reserved(u)
        BY <4>1, ReservedKept
      <4> QED BY <3>1, <4>2, BalanceKept
    <3>4. CASE Log(t)
      <4>1. /\ \A o \in Thread : o # t => pc'[o] = pc[o] /\ tuser'[o] = tuser[o]
            /\ t \in Reserved(u) <=> (t \in Reserved(u))'
        BY <3>4 DEF Log, ThreadType, Reserved
      <4>2. Reserved(u)' = Reserved(u)
        BY <4>1, ReservedKept
      <4> QED BY <3>1, <4>2, BalanceKept
    <3> QED BY <2>1, <3>2, <3>3, <3>4
  <2>2. CASE LogFails(t) \/ PutFull(t)
    <3>1. /\ UNCHANGED <<inflight, queue, wjob, dpc, dmsg>>
          /\ \A o \in Thread : o # t => pc'[o] = pc[o] /\ tuser'[o] = tuser[o]
          /\ t \in Reserved(u) <=> (t \in Reserved(u))'
      BY <2>2 DEF LogFails, PutFull, Goto, ThreadType, Reserved
    <3>2. Reserved(u)' = Reserved(u)
      BY <3>1, ReservedKept
    <3> QED BY <3>1, <3>2, BalanceKept
  <2>3. CASE Reserve(t)
    <3>1. /\ UNCHANGED <<queue, sender, wjob, dpc, dmsg>> /\ tuser[t] \in User
          /\ inflight' = Incremented(tuser[t])
      BY <2>3 DEF Reserve, ThreadsHold
    <3>2. /\ t \notin Reserved(u)
          /\ Reserved(u)' = IF u = tuser[t] THEN Reserved(u) \cup {t} ELSE Reserved(u)
      BY <2>3 DEF Reserve, Goto, ThreadType, Reserved
    <3>3. Cardinality(Reserved(u)') = Cardinality(Reserved(u)) + One(u = tuser[t])
      BY <3>2, ReservedTaken
    <3>4. inflight'[u] = inflight[u] + One(u = tuser[t])
      BY <1>1, <3>1 DEF Incremented, One
    <3>5. /\ Queued(u)' = Queued(u) /\ One(Working(u))' = One(Working(u))
          /\ One(Claiming(u))' = One(Claiming(u))
      BY <3>1 DEF Queued, Working, Claiming
    <3>6. One(u = tuser[t]) \in Nat
      BY DEF One
    <3> QED BY <1>1, <3>3, <3>4, <3>5, <3>6 DEF Balance
  <2>4. CASE Put(t)
    <3>1. /\ UNCHANGED <<inflight, sender, wjob, dpc, dmsg>>
          /\ queue' = Append(queue, tmsg[t]) /\ tmsg[t] \in MsgId /\ sender[tmsg[t]] = tuser[t]
      BY <2>4 DEF Put, ThreadsHold, SlotsOwned
    <3>2. /\ t \in Reserved(tuser[t])
          /\ Reserved(u)' = IF u = tuser[t] THEN Reserved(u) \ {t} ELSE Reserved(u)
      BY <2>4 DEF Put, Return, ThreadType, Reserved
    <3>3. Cardinality(Reserved(u)) = Cardinality(Reserved(u)') + One(u = tuser[t])
      BY <3>2, ReservedGiven
    <3>4. Cardinality(Queued(u)') = Cardinality(Queued(u)) + One(sender[tmsg[t]] = u)
      BY <3>1, QueuedAppend
    <3>5. One(sender[tmsg[t]] = u) = One(u = tuser[t]) /\ One(u = tuser[t]) \in Nat
      BY <3>1 DEF One
    <3>6. One(Working(u))' = One(Working(u)) /\ One(Claiming(u))' = One(Claiming(u))
      BY <3>1 DEF Working, Claiming
    <3>7. Cardinality(Reserved(u)') = Cardinality(Reserved(u)) - One(u = tuser[t])
      <4>1. TypeOK'
        BY TypeStep
      <4>2. Cardinality(Reserved(u)') \in Nat
        BY <4>1, ThreadAssumption, FS_Subset, FS_CardinalityType DEF Reserved
      <4> QED BY <1>1, <3>3, <3>5, <4>2
    <3> QED BY <1>1, <3>1, <3>4, <3>5, <3>6, <3>7 DEF Balance
  <2> QED BY <1>4, <2>1, <2>2, <2>3, <2>4 DEF ThreadStep
<1>5. ASSUME NEW t \in Thread, Undo(t) PROVE Balance(u)'
  <2>1. /\ UNCHANGED <<queue, sender, wjob, dpc, dmsg>> /\ tuser[t] \in User
        /\ inflight' = Decremented(tuser[t]) /\ ~Claiming(u)
    BY <1>5 DEF Undo, ThreadsHold, Claiming, LockFree
  <2>2. /\ t \in Reserved(tuser[t])
        /\ Reserved(u)' = IF u = tuser[t] THEN Reserved(u) \ {t} ELSE Reserved(u)
    BY <1>5 DEF Undo, Return, Goto, ThreadType, Reserved
  <2>3. Cardinality(Reserved(u)) = Cardinality(Reserved(u)') + One(u = tuser[t])
    BY <2>2, ReservedGiven
  <2>4. Cardinality(Reserved(u)') \in Nat
    BY TypeStep, CountsFinite, ThreadAssumption, FS_Subset, FS_CardinalityType DEF Reserved
  <2>5. /\ Queued(u)' = Queued(u) /\ One(Working(u))' = One(Working(u))
        /\ One(Claiming(u))' = One(Claiming(u)) /\ One(Claiming(u)) = 0
    BY <2>1 DEF Queued, Working, Claiming, One
  <2>6. One(u = tuser[t]) \in {0, 1} /\ (One(u = tuser[t]) = 1 <=> u = tuser[t])
    BY DEF One
  <2>7. inflight[u] >= One(u = tuser[t])
    BY <1>1, <2>3, <2>4, <2>5, <2>6 DEF Balance
  <2>8. inflight'[u] = inflight[u] - One(u = tuser[t])
    BY <1>1, <2>1, <2>6, <2>7 DEF Decremented
  <2> QED BY <1>1, <2>3, <2>4, <2>5, <2>6, <2>8 DEF Balance
<1>6. CASE WorkerStep
  <2>1. CASE Get
    <3>1. /\ queue' = Tail(queue) /\ queue # << >> /\ wjob' = Head(queue) /\ wjob = NoMsg
          /\ UNCHANGED <<inflight, sender, dpc, dmsg, pc, tuser>>
      BY <2>1 DEF Get, SlotsOwned
    <3>2. Head(queue) \in MsgId
      BY <3>1, HeadTailProperties DEF QueueType
    <3>3. Cardinality(Queued(u)) = Cardinality(Queued(u)') + One(sender[Head(queue)] = u)
      BY <3>1, QueuedTail
    <3>4. One(Working(u)) = 0 /\ One(Working(u)') = One(sender[Head(queue)] = u)
      BY <3>1, <3>2 DEF Working, One
    <3>5. Reserved(u)' = Reserved(u) /\ One(Claiming(u))' = One(Claiming(u))
      BY <3>1 DEF Reserved, Claiming
    <3>6. Cardinality(Queued(u)') \in Nat /\ One(sender[Head(queue)] = u) \in Nat
      <4>1. TypeOK'
        BY TypeStep
      <4>2. Queued(u)' \in SUBSET (1..Len(queue')) /\ Len(queue') \in Int
        BY <4>1 DEF Queued, QueueType
      <4>3. IsFiniteSet(1..Len(queue'))
        BY <4>2, FS_Interval
      <4> QED BY <4>2, <4>3, FS_Subset, FS_CardinalityType DEF One
    <3>7. inflight'[u] = inflight[u]
      BY <3>1
    <3>8. One(Working(u))' = One(sender[Head(queue)] = u)
      BY <3>4 DEF One
    <3> QED BY <1>1, <3>3, <3>4, <3>5, <3>6, <3>7, <3>8 DEF Balance
  <2>2. CASE Read \/ Skip \/ ReadFails \/ QuietHolds \/ QuietPasses \/ Prints \/ PrintFails
             \/ Record
    <3>1. UNCHANGED <<inflight, queue, wjob, dpc, dmsg, pc, tuser>>
      BY <2>2 DEF Read, Skip, ReadFails, QuietHolds, QuietPasses, Prints, PrintFails, Record
    <3> QED BY <3>1, BalanceKept DEF Reserved
  <2> QED BY <1>6, <2>1, <2>2 DEF WorkerStep
<1>7. CASE Finish
  <2>1. /\ UNCHANGED <<queue, sender, dpc, dmsg, pc, tuser>> /\ wjob \in MsgId /\ wjob' = NoMsg
        /\ inflight' = Decremented(sender[wjob]) /\ ~Claiming(u)
    BY <1>7 DEF Finish, WorkerHolds, Claiming, LockFree
  <2>2. One(Working(u)) \in {0, 1} /\ (One(Working(u)) = 1 <=> sender[wjob] = u)
    BY <2>1 DEF Working, One
  <2>3. One(Working(u))' = 0
    BY <2>1 DEF Working, One
  <2>4. /\ Queued(u)' = Queued(u) /\ Reserved(u)' = Reserved(u)
        /\ One(Claiming(u))' = One(Claiming(u)) /\ One(Claiming(u)) = 0
    BY <2>1 DEF Queued, Reserved, Claiming, One
  <2>5. inflight'[u] = inflight[u] - One(Working(u))
    BY <1>1, <2>1, <2>2, <2>4 DEF Decremented, Balance
  <2> QED BY <1>1, <2>2, <2>3, <2>4, <2>5 DEF Balance
<1>8. CASE DispatcherStep
  <2>1. CASE PutClaim
    <3>1. /\ UNCHANGED <<inflight, sender, wjob, dmsg, pc, tuser>> /\ dmsg \in MsgId
          /\ dpc = "put" /\ dpc' = "inc" /\ queue' = Append(queue, dmsg)
      BY <2>1 DEF PutClaim, DispatcherHolds
    <3>2. Cardinality(Queued(u)') = Cardinality(Queued(u)) + One(sender[dmsg] = u)
      BY <3>1, QueuedAppend
    <3>3. One(Claiming(u)) = 0 /\ One(Claiming(u))' = One(sender[dmsg] = u)
      BY <3>1 DEF Claiming, One
    <3>4. Reserved(u)' = Reserved(u) /\ One(Working(u))' = One(Working(u))
      BY <3>1 DEF Reserved, Working
    <3>5. One(sender[dmsg] = u) \in Nat
      BY DEF One
    <3> QED BY <1>1, <3>1, <3>2, <3>3, <3>4, <3>5 DEF Balance
  <2>2. CASE Dispatched
    <3>1. /\ UNCHANGED <<queue, sender, wjob, pc, tuser>> /\ dmsg \in MsgId
          /\ dpc = "inc" /\ dpc' # "inc" /\ inflight' = Incremented(sender[dmsg])
      BY <2>2 DEF Dispatched, DispatcherHolds, Continue
    <3>2. One(Claiming(u)) = One(sender[dmsg] = u) /\ One(Claiming(u))' = 0
      BY <3>1 DEF Claiming, One
    <3>3. inflight'[u] = inflight[u] + One(sender[dmsg] = u)
      BY <1>1, <3>1 DEF Incremented, One
    <3>4. /\ Queued(u)' = Queued(u) /\ Reserved(u)' = Reserved(u)
          /\ One(Working(u))' = One(Working(u))
      BY <3>1 DEF Queued, Reserved, Working
    <3> QED BY <1>1, <3>2, <3>3, <3>4 DEF Balance
  <2>3. CASE Scan \/ Pushback \/ TickFails
             \/ \E m \in MsgId : QuietDefers(m) \/ PassOver(m) \/ Claim(m)
    <3>1. UNCHANGED <<inflight, queue, wjob, pc, tuser>> /\ dpc # "inc" /\ dpc' # "inc"
      BY <2>3 DEF Scan, Pushback, TickFails, QuietDefers, PassOver, Claim, Continue
    <3> QED BY <3>1, BalanceKept DEF Reserved
  <2> QED BY <1>8, <2>1, <2>2, <2>3 DEF DispatcherStep
<1>9. CASE BootStep
  <2>1. ASSUME NEW m \in MsgId, Replay(m) PROVE Balance(u)'
    <3>1. /\ UNCHANGED <<sender, wjob, dpc, dmsg, pc, tuser>>
          /\ queue' = Append(queue, m) /\ inflight' = Incremented(sender[m])
      BY <2>1 DEF Replay
    <3>2. Cardinality(Queued(u)') = Cardinality(Queued(u)) + One(sender[m] = u)
      BY <3>1, QueuedAppend
    <3>3. inflight'[u] = inflight[u] + One(sender[m] = u)
      BY <1>1, <3>1 DEF Incremented, One
    <3>4. /\ Reserved(u)' = Reserved(u) /\ One(Working(u))' = One(Working(u))
          /\ One(Claiming(u))' = One(Claiming(u)) /\ One(sender[m] = u) \in Nat
      BY <3>1 DEF Reserved, Working, Claiming, One
    <3> QED BY <1>1, <3>2, <3>3, <3>4 DEF Balance
  <2>2. CASE Boot \/ Started \/ \E m \in MsgId : ReplayCapsule(m) \/ ReplayOverflows(m)
    <3>1. UNCHANGED <<inflight, queue, wjob, dpc, dmsg, pc, tuser>>
      BY <2>2 DEF Boot, Started, ReplayCapsule, ReplayOverflows
    <3> QED BY <3>1, BalanceKept DEF Reserved
  <2> QED BY <1>9, <2>1, <2>2 DEF BootStep
<1>10. CASE Crash
  <2>1. /\ queue' = << >> /\ inflight'[u] = 0 /\ wjob' = NoMsg /\ dpc' = "sleep"
        /\ \A t \in Thread : pc'[t] = "idle"
    BY <1>10 DEF Crash
  <2>2. Queued(u)' = {} /\ Reserved(u)' = {} /\ One(Working(u))' = 0 /\ One(Claiming(u))' = 0
    BY <2>1 DEF Queued, Reserved, Working, Claiming, One
  <2> QED BY <2>1, <2>2, FS_EmptySet DEF Balance
<1>11. CASE Tick \/ IdlePoll \/ UNCHANGED vars
  <2>1. UNCHANGED <<inflight, queue, wjob, dpc, dmsg, pc, tuser>>
    BY <1>11 DEF Tick, IdlePoll, vars
  <2> QED BY <2>1, BalanceKept DEF Reserved
<1> QED BY <1>2, <1>3, <1>4, <1>5, <1>6, <1>7, <1>8, <1>9, <1>10, <1>11 DEF Next

LEMMA InitBalance == ASSUME Init, NEW u \in User PROVE Balance(u)
<1>1. Queued(u) = {} /\ Reserved(u) = {} /\ One(Working(u)) = 0 /\ One(Claiming(u)) = 0
  BY DEF Init, Queued, Reserved, Working, Claiming, One
<1> QED BY <1>1, FS_EmptySet DEF Init, Balance

\* The cap counter of a friend is exactly what the queue, the worker and the
\* requests under way hold of theirs, at every instant and whatever fails: no
\* unwinding in _enqueue_print, no exit of the worker's loop, no dispatcher tick
\* and no restart leaks a slot or gives one back twice.
THEOREM CountersExact == Spec => []InflightExact
<1> DEFINE B == \A u \in User : Balance(u)
<1>1. Init => B
  BY InitBalance
<1>2. IInv /\ Hands /\ SlotsOwned /\ B /\ [Next]_vars => B'
  BY BalanceStep
<1>3. B => InflightExact
  BY LoadTerms DEF Balance, InflightExact
<1> HIDE DEF B
<1> QED BY <1>1, <1>2, <1>3, InvCorrect, HandsCorrect, SlotsCorrect, PTL DEF Spec

-----------------------------------------------------------------------------
(* What SQLite's failures cost *)

LEMMA FailuresGrow == ASSUME TypeOK, [Next]_vars PROVE dbFails' \in {dbFails, dbFails + 1}
<1>1. ASSUME NEW u \in User, AccountStep(u) PROVE dbFails' = dbFails
  BY <1>1 DEF AccountStep, Register, Approve, Revoke, Delete
<1>2. ASSUME NEW t \in Thread, Request(t) \/ Undo(t) PROVE dbFails' = dbFails
  BY <1>2 DEF Request, Arrive, AskCancel, AskRetry, Undo
<1>3. ASSUME NEW t \in Thread, ThreadStep(t) PROVE dbFails' \in {dbFails, dbFails + 1}
  BY <1>3 DEF ThreadStep, Schedule, RejectCapsule, Reserve, RejectCap, Log, LogFails, Put,
     PutFull, Erase, Cancel, RetryPrints, RetryFails, Mark, DbFails
<1>4. CASE WorkerStep \/ Finish
  BY <1>4 DEF WorkerStep, Finish, Get, Read, Skip, ReadFails, QuietHolds, QuietPasses, Prints,
     PrintFails, Record, DbFails
<1>5. CASE DispatcherStep
  BY <1>5 DEF DispatcherStep, Scan, PutClaim, Dispatched, Pushback, TickFails, QuietDefers,
     PassOver, Claim, DbFails
<1>6. CASE BootStep \/ Crash \/ Tick \/ IdlePoll \/ UNCHANGED vars
  BY <1>6 DEF BootStep, Boot, Started, ReplayCapsule, Replay, ReplayOverflows, Crash, Tick,
     IdlePoll, vars
<1> QED BY <1>1, <1>2, <1>3, <1>4, <1>5, <1>6 DEF Next

\* One step is one thread's, so one failure is one row's.
LEMMA OneLostWrite ==
  ASSUME IInv, NEW m \in MsgId, NEW n \in MsgId, LostWrite(m), LostWrite(n)
  PROVE  m = n
  BY DEF LostWrite, Record, Pushback, Continue, Erase, Return, IInv, TypeOK, ThreadType

LEMMA OneLostOutcome ==
  ASSUME IInv, NEW m \in MsgId, NEW n \in MsgId, LostOutcome(m), LostOutcome(n)
  PROVE  m = n
  BY DEF LostOutcome, Record, Mark, Return, IInv, TypeOK, ThreadType

\* Rows that say 'queued' and are in nobody's hands.
Left == {m \in MsgId : status[m] = "queued" /\ ~Held(m)}

LeftInv == phase # "down" => Cardinality(Left) <= dbFails

LEMMA LeftFinite ==
  ASSUME NEW S \in SUBSET MsgId
  PROVE  IsFiniteSet(S) /\ Cardinality(S) \in Nat
<1>1. IsFiniteSet(S)
  BY CapsulesFinite, FS_Subset
<1> QED BY <1>1, FS_CardinalityType

LEMMA LeftStep == ASSUME IInv, LeftInv, [Next]_vars PROVE LeftInv'
<1> SUFFICES ASSUME phase' # "down" PROVE Cardinality(Left') <= dbFails'
  BY DEF LeftInv
<1>1. dbFails \in Nat /\ dbFails' \in {dbFails, dbFails + 1}
  BY FailuresGrow, CapAssumption DEF IInv, TypeOK, WorldType
<1>2. IsFiniteSet(Left) /\ Cardinality(Left) \in Nat /\ Cardinality(Left') \in Nat
  <2>1. Left \in SUBSET MsgId /\ Left' \in SUBSET MsgId
    BY DEF Left
  <2> QED BY <2>1, LeftFinite
<1>3. CASE phase = "down"
  <2>1. ASSUME NEW m \in MsgId, status'[m] = "queued" PROVE Held(m)'
    <3>1. ~LostWrite(m)
      BY <1>3 DEF LostWrite, Record, Pushback, Erase, IInv, Owned, ProcessOK
    <3> QED BY <1>3, <2>1, <3>1, HeldStep
  <2>2. Left' = {}
    BY <2>1 DEF Left
  <2> QED BY <1>1, <2>2, FS_EmptySet
<1>4. CASE phase # "down"
  <2>1. ASSUME NEW m \in MsgId, m \in Left', m \notin Left PROVE LostWrite(m)
    <3>1. status'[m] = "queued" /\ ~Held(m)' /\ (status[m] = "queued" => Held(m))
      BY <2>1 DEF Left
    <3> QED BY <3>1, HeldStep
  <2>2. CASE \E v \in MsgId : LostWrite(v)
    <3>1. PICK v \in MsgId : LostWrite(v)
      BY <2>2
    <3>2. Left' \in SUBSET (Left \cup {v})
      BY <2>1, <3>1, OneLostWrite DEF Left
    <3>3. dbFails' = dbFails + 1
      BY <3>1 DEF LostWrite, DbFails
    <3>4. /\ IsFiniteSet(Left \cup {v})
          /\ Cardinality(Left \cup {v}) \in {Cardinality(Left), Cardinality(Left) + 1}
      BY <1>2, FS_AddElement
    <3>5. Cardinality(Left') <= Cardinality(Left \cup {v})
      BY <3>2, <3>4, FS_Subset
    <3> QED BY <1>1, <1>2, <1>4, <3>3, <3>4, <3>5 DEF LeftInv
  <2>3. CASE ~\E v \in MsgId : LostWrite(v)
    <3>1. Left' \in SUBSET Left
      BY <2>1, <2>3 DEF Left
    <3>2. Cardinality(Left') <= Cardinality(Left)
      BY <1>2, <3>1, FS_Subset
    <3> QED BY <1>1, <1>2, <1>4, <3>2 DEF LeftInv
  <2> QED BY <2>2, <2>3
<1> QED BY <1>3, <1>4

\* What is written off for each message, as many as SQLite has failed at most.
Owing(debt) == {p \in MsgId \X Nat : 1 <= p[2] /\ p[2] <= debt[p[1]]}

Covers(debt) ==
  /\ IsFiniteSet(Owing(debt)) /\ Cardinality(Owing(debt)) <= dbFails
  /\ \A m \in MsgId : Paid(m, debt[m])

DebtInv == \E debt \in [MsgId -> Nat] : Covers(debt)

\* A message whose outcome was not written may be printed once more.
LEMMA LostPaid ==
  ASSUME IInv, NEW m \in MsgId, NEW d \in Nat, Paid(m, d), LostOutcome(m)
  PROVE  Paid(m, d + 1)'
<1>1. UNCHANGED <<paper, excused, nextId>>
  BY DEF LostOutcome, Record, Mark
<1>2. Pending(m)' = Pending(m)
  BY DEF LostOutcome, Record, Mark, Return, Pending, IInv, TypeOK, ThreadType
<1>3. Cardinality(Pending(m)) \in Nat /\ paper[m] \in Nat /\ excused[m] \in Nat
  BY PendingFinite DEF IInv, TypeOK, WorldType
<1> QED BY <1>1, <1>2, <1>3 DEF Paid

LEMMA OwingMore ==
  ASSUME NEW debt \in [MsgId -> Nat], NEW v \in MsgId, IsFiniteSet(Owing(debt))
  PROVE  /\ IsFiniteSet(Owing([debt EXCEPT ![v] = @ + 1]))
         /\ Cardinality(Owing([debt EXCEPT ![v] = @ + 1])) = Cardinality(Owing(debt)) + 1
<1> DEFINE more == [debt EXCEPT ![v] = @ + 1]
           p == <<v, debt[v] + 1>>
<1>1. p \notin Owing(debt)
  BY DEF Owing
<1>2. Owing(more) = Owing(debt) \cup {p}
  <2>1. ASSUME NEW q \in MsgId \X Nat
        PROVE  q \in Owing(more) <=> q \in Owing(debt) \/ q = p
    <3>1. CASE q[1] = v
      BY <3>1 DEF Owing
    <3>2. CASE q[1] # v
      BY <3>2 DEF Owing
    <3> QED BY <3>1, <3>2
  <2>2. p \in MsgId \X Nat
    OBVIOUS
  <2>3. Owing(more) \subseteq MsgId \X Nat /\ Owing(debt) \subseteq MsgId \X Nat
    BY DEF Owing
  <2> HIDE DEF more, p
  <2> QED BY <2>1, <2>2, <2>3
<1> HIDE DEF p
<1>3. /\ IsFiniteSet(Owing(debt) \cup {p})
      /\ Cardinality(Owing(debt) \cup {p}) = Cardinality(Owing(debt)) + 1
  BY <1>1, FS_AddElement
<1> QED BY <1>2, <1>3

LEMMA DebtStep ==
  ASSUME IInv, Hands, FreshStatus, DebtInv, [Next]_vars
  PROVE  DebtInv'
<1>1. dbFails \in Nat /\ dbFails' \in {dbFails, dbFails + 1}
  BY FailuresGrow, CapAssumption DEF IInv, TypeOK, WorldType
<1>2. PICK debt \in [MsgId -> Nat] : Covers(debt)
  BY DEF DebtInv
<1>3. Cardinality(Owing(debt)) \in Nat
  BY <1>2, FS_CardinalityType DEF Covers
<1>4. ASSUME NEW m \in MsgId, ~LostOutcome(m) PROVE Paid(m, debt[m])'
  <2>1. PICK d \in Nat : d = debt[m]
    OBVIOUS
  <2>2. Paid(m, d)
    BY <1>2, <2>1 DEF Covers
  <2>3. Paid(m, d)'
    BY <1>4, <2>2, PaidStep
  <2> QED BY <2>1, <2>3 DEF Paid
<1>5. CASE \E v \in MsgId : LostOutcome(v)
  <2>1. PICK v \in MsgId : LostOutcome(v)
    BY <1>5
  <2> DEFINE more == [debt EXCEPT ![v] = @ + 1]
  <2>2. dbFails' = dbFails + 1
    BY <2>1 DEF LostOutcome, DbFails
  <2>3. IsFiniteSet(Owing(more)) /\ Cardinality(Owing(more)) = Cardinality(Owing(debt)) + 1
    BY <1>2, OwingMore DEF Covers
  <2>4. ASSUME NEW m \in MsgId PROVE Paid(m, more[m])'
    <3>1. CASE m = v
      <4>1. PICK d \in Nat : d = debt[v]
        OBVIOUS
      <4>2. Paid(v, d)
        BY <1>2, <4>1 DEF Covers
      <4>3. Paid(v, d + 1)'
        BY <2>1, <4>2, LostPaid
      <4>4. more[m] = d + 1
        BY <3>1, <4>1
      <4> HIDE DEF more
      <4> QED BY <3>1, <4>3, <4>4 DEF Paid
    <3>2. CASE m # v
      <4>1. ~LostOutcome(m)
        BY <2>1, <3>2, OneLostOutcome
      <4>2. more[m] = debt[m]
        BY <3>2
      <4> HIDE DEF more
      <4> QED BY <1>4, <4>1, <4>2 DEF Paid
    <3> QED BY <3>1, <3>2
  <2>5. more \in [MsgId -> Nat]
    OBVIOUS
  <2> HIDE DEF more
  <2>6. Covers(more)'
    <3>1. Cardinality(Owing(more)) <= dbFails'
      BY <1>1, <1>2, <1>3, <2>2, <2>3 DEF Covers
    <3> QED BY <2>3, <2>4, <3>1 DEF Covers, Owing
  <2> QED BY <2>5, <2>6 DEF DebtInv
<1>6. CASE ~\E v \in MsgId : LostOutcome(v)
  <2>1. Cardinality(Owing(debt)) <= dbFails'
    BY <1>1, <1>2, <1>3 DEF Covers
  <2>2. Covers(debt)'
    BY <1>2, <1>4, <1>6, <2>1 DEF Covers, Owing
  <2> QED BY <2>2 DEF DebtInv
<1> QED BY <1>5, <1>6

LEMMA InitDebt == Init => DebtInv
<1> SUFFICES ASSUME Init PROVE DebtInv
  OBVIOUS
<1> DEFINE none == [m \in MsgId |-> 0]
<1>1. Owing(none) = {}
  BY DEF Owing
<1>2. \A m \in MsgId : Paid(m, 0)
  BY InitPaper DEF PaperInv
<1>3. none \in [MsgId -> Nat] /\ \A m \in MsgId : none[m] = 0
  OBVIOUS
<1> HIDE DEF none
<1>4. \A m \in MsgId : Paid(m, none[m])
  BY <1>2, <1>3
<1>5. IsFiniteSet(Owing(none)) /\ Cardinality(Owing(none)) <= dbFails
  BY <1>1, FS_EmptySet DEF Init
<1>6. Covers(none)
  BY <1>4, <1>5 DEF Covers
<1> QED BY <1>3, <1>6 DEF DebtInv

\* A write that SQLite refuses, wherever it happens, strands its own row and no
\* other, and lets at most one receipt more come out than crashes and the owner's
\* double retries explain.
THEOREM FailuresStaySmall == Spec => []FailureCostsOne
<1>1. Init => LeftInv
  <2>1. ASSUME Init PROVE Left = {} /\ dbFails = 0
    BY <2>1 DEF Init, Left
  <2>2. ASSUME Init PROVE Cardinality(Left) <= dbFails
    BY <2>1, <2>2, FS_EmptySet
  <2> QED BY <2>2 DEF LeftInv
<1>2. IInv /\ LeftInv /\ [Next]_vars => LeftInv'
  BY LeftStep
<1>3. Init => FreshStatus
  BY DEF Init, FreshStatus
<1>4. FreshStatus /\ [Next]_vars => FreshStatus'
  BY FreshStep
<1>5. IInv /\ Hands /\ FreshStatus /\ DebtInv /\ [Next]_vars => DebtInv'
  BY DebtStep
<1>6. IInv /\ Hands /\ LeftInv /\ DebtInv => FailureCostsOne
  <2> SUFFICES ASSUME IInv, Hands, LeftInv, DebtInv PROVE FailureCostsOne
    OBVIOUS
  <2>1. Stranded = Left
    BY HoldersCount DEF Stranded, Left, IInv
  <2>2. PICK debt \in [MsgId -> Nat] : Covers(debt)
    BY DEF DebtInv
  <2> DEFINE X == UNION {{m} \X Extra(m) : m \in MsgId}
  <2>3. X \in SUBSET Owing(debt)
    <3>1. ASSUME NEW m \in MsgId, NEW k \in Extra(m) PROVE <<m, k>> \in Owing(debt)
      <4>1. /\ paper[m] \in Nat /\ excused[m] \in Nat /\ Cardinality(Pending(m)) \in Nat
            /\ debt[m] \in Nat
        BY PendingFinite DEF IInv, TypeOK, WorldType
      <4>2. paper[m] + Cardinality(Pending(m)) <= 1 + excused[m] + debt[m]
        BY <2>2 DEF Covers, Paid
      <4>3. k \in Nat /\ 1 <= k /\ k <= debt[m]
        BY <4>1, <4>2 DEF Extra
      <4> QED BY <4>3 DEF Owing
    <3> QED BY <3>1
  <2> HIDE DEF X
  <2>4. Cardinality(X) <= dbFails
    <3>1. IsFiniteSet(X) /\ Cardinality(X) <= Cardinality(Owing(debt))
      BY <2>2, <2>3, FS_Subset DEF Covers
    <3>2. Cardinality(X) \in Nat /\ Cardinality(Owing(debt)) \in Nat
      BY <2>2, <3>1, FS_CardinalityType DEF Covers
    <3> QED BY <2>2, <3>1, <3>2 DEF Covers, IInv, TypeOK, WorldType
  <2> QED BY <2>1, <2>4 DEF FailureCostsOne, LeftInv, X
<1> QED BY <1>1, <1>2, <1>3, <1>4, <1>5, <1>6, InitDebt, InvCorrect, HandsCorrect, PTL DEF Spec

-----------------------------------------------------------------------------
(* The print queue implements the lifecycle of PrintJobs: each action of    *)
(* the queue is one action of the lifecycle or leaves it alone.             *)

\* Whoever is about to record a print has one to record.
Receipted ==
  /\ wpc = "record" /\ wstatus = "printed" => paper[wjob] > 0
  /\ \A t \in Thread : pc[t] = "mark" => paper[tmsg[t]] > 0

LEMMA ReceiptedStep == ASSUME IInv, FreshStatus, Receipted, [Next]_vars PROVE Receipted'
<1> USE DEF IInv, TypeOK, Owned
<1>1. ASSUME UNCHANGED <<paper, wpc, wjob, wstatus>>,
             \A t \in Thread : pc'[t] = "mark" => pc[t] = "mark" /\ tmsg'[t] = tmsg[t]
      PROVE  Receipted'
  BY <1>1 DEF Receipted
<1>2. ASSUME NEW u \in User, AccountStep(u) PROVE Receipted'
  BY <1>1, <1>2 DEF AccountStep, Register, Approve, Revoke, Delete
<1>3. ASSUME NEW t \in Thread, Request(t) \/ Undo(t) PROVE Receipted'
  BY <1>1, <1>3 DEF Request, Arrive, AskCancel, AskRetry, Undo, Return, Goto, ThreadType
<1>4. ASSUME NEW t \in Thread, ThreadStep(t) PROVE Receipted'
  <2>1. CASE RetryPrints(t)
    <3>1. paper' = [paper EXCEPT ![tmsg[t]] = @ + 1] /\ tmsg[t] \in MsgId
          /\ UNCHANGED <<tmsg, wpc, wjob, wstatus>>
      BY <2>1 DEF RetryPrints, Goto, ThreadsHold
    <3>2. \A o \in Thread : pc'[o] = "mark" => pc[o] = "mark" \/ o = t
      BY <2>1 DEF RetryPrints, Goto, ThreadType
    <3>3. paper'[tmsg[t]] > 0
      BY <3>1 DEF WorldType
    <3>4. \A m : paper[m] > 0 => paper'[m] > 0
      <4>1. ASSUME NEW m, paper[m] > 0 PROVE paper'[m] > 0
        BY <3>1, <3>3, <4>1 DEF WorldType
      <4> QED BY <4>1
    <3> QED BY <3>1, <3>2, <3>3, <3>4 DEF Receipted
  <2>2. CASE Schedule(t) \/ RejectCapsule(t) \/ RejectCap(t) \/ Put(t) \/ Erase(t) \/ Cancel(t)
             \/ RetryFails(t) \/ Mark(t)
    BY <1>1, <2>2 DEF Schedule, RejectCapsule, RejectCap, Put, Erase, Cancel, RetryFails, Mark,
       Return, ThreadType
  <2>3. CASE Reserve(t) \/ Log(t) \/ LogFails(t) \/ PutFull(t)
    BY <1>1, <2>3 DEF Reserve, Log, LogFails, PutFull, Goto, ThreadType
  <2> QED BY <1>4, <2>1, <2>2, <2>3 DEF ThreadStep
<1>5. CASE WorkerStep
  <2>1. CASE Prints
    <3>1. paper' = [paper EXCEPT ![wjob] = @ + 1] /\ wjob \in MsgId
          /\ UNCHANGED <<wjob, pc, tmsg>>
      BY <2>1 DEF Prints, WorkerHolds
    <3>2. paper'[wjob] > 0
      BY <3>1 DEF WorldType
    <3>3. ASSUME NEW m, paper[m] > 0 PROVE paper'[m] > 0
      BY <3>1, <3>2, <3>3 DEF WorldType
    <3> QED BY <3>1, <3>2, <3>3 DEF Receipted
  <2>2. CASE Get \/ Read \/ Skip \/ ReadFails \/ QuietHolds \/ QuietPasses \/ PrintFails \/ Record
    BY <2>2 DEF Get, Read, Skip, ReadFails, QuietHolds, QuietPasses, PrintFails, Record, Receipted
  <2> QED BY <1>5, <2>1, <2>2 DEF WorkerStep
<1>6. CASE Finish
  BY <1>6 DEF Finish, Receipted
<1>7. CASE DispatcherStep
  BY <1>1, <1>7 DEF DispatcherStep, Scan, PutClaim, Dispatched, Pushback, TickFails, QuietDefers,
     PassOver, Claim
<1>8. CASE BootStep
  BY <1>1, <1>8 DEF BootStep, Boot, Started, ReplayCapsule, Replay, ReplayOverflows
<1>9. CASE Crash
  BY <1>9 DEF Crash, Receipted
<1>10. CASE Tick \/ IdlePoll \/ UNCHANGED vars
  BY <1>1, <1>10 DEF Tick, IdlePoll, vars
<1> QED BY <1>2, <1>3, <1>4, <1>5, <1>6, <1>7, <1>8, <1>9, <1>10 DEF Next

LEMMA ReceiptedCorrect == ASSUME MaxDbFails = 0 PROVE Spec => []Receipted
<1>1. Init => Receipted
  BY DEF Init, Receipted
<1>2. IInv /\ PaperInv /\ Receipted /\ [Next]_vars => Receipted'
  BY ReceiptedStep DEF PaperInv
<1> QED BY <1>1, <1>2, InvCorrect, PaperCorrect, PTL DEF Spec

-----------------------------------------------------------------------------
Retrying(m) == \E t \in Thread : pc[t] \in {"retry", "mark"} /\ tmsg[t] = m
Attempted(m)  == InHand(m) /\ ~(wstatus = "failed" /\ status[m] = "absent")

LEMMA TryingIs ==
  /\ Trying = {m \in MsgId : Attempted(m) \/ Retrying(m)}
  /\ Trying' = {m \in MsgId : Attempted(m)' \/ Retrying(m)'}
  BY DEF Trying, Attempted, Retrying

\* Who is trying what changes only with the worker's and the retries' own steps.
LEMMA TryingKept ==
  ASSUME UNCHANGED <<wpc, wjob, wstatus>>,
         \A t \in Thread : \/ UNCHANGED <<pc[t], tmsg[t]>>
                           \/ pc[t] \notin {"retry", "mark"} /\ pc'[t] \notin {"retry", "mark"},
         \A m \in MsgId : AtWorker(m) => (status'[m] = "absent" <=> status[m] = "absent")
  PROVE  Trying' = Trying
<1>1. ASSUME NEW m \in MsgId PROVE Attempted(m)' <=> Attempted(m)
  BY <1>1 DEF Attempted, InHand, AtWorker
<1>2. ASSUME NEW m \in MsgId PROVE Retrying(m)' <=> Retrying(m)
  BY DEF Retrying
<1> QED BY <1>1, <1>2, TryingIs

\* Nothing happens to the lifecycle, or tries end.
LEMMA Ends ==
  ASSUME UNCHANGED <<status, paper, nextId>>, Trying' \subseteq Trying
  PROVE  [Jobs!Next]_(Jobs!vars)
  BY DEF Jobs!Next, Jobs!GiveUp

LEMMA JobsStep ==
  ASSUME MaxDbFails = 0, IInv, Hands, PaperInv, Receipted, [Next]_vars
  PROVE  [Jobs!Next]_(Jobs!vars)
<1> USE DEF IInv, TypeOK, Owned
<1>1. ~DbFails
  BY CapAssumption DEF DbFails, WorldType
<1>2. \A m \in MsgId : AtWorker(m) =>
        m < nextId /\ status[m] \in {"queued", "cancelled", "absent"} /\ ~Retrying(m)
  BY DEF Hands, HeldWaits, RetryFree, Held, Retrying
<1>3. ASSUME UNCHANGED <<status, paper, nextId, wpc, wjob, wstatus, pc, tmsg>>
      PROVE  [Jobs!Next]_(Jobs!vars)
  BY <1>3, TryingKept, Ends
\* Accounts
<1>4. ASSUME NEW u \in User, AccountStep(u) PROVE [Jobs!Next]_(Jobs!vars)
  <2>1. CASE Register(u) \/ Approve(u)
    BY <2>1, <1>3 DEF Register, Approve
  <2>2. CASE Revoke(u)
    <3> DEFINE M == {m \in MsgId : sender[m] = u /\ m \in Capsules}
    <3>1. M \in SUBSET {m \in MsgId : status[m] \in {"scheduled", "queued"}}
      BY DEF Capsules
    <3>2. status' = [m \in MsgId |-> IF m \in M THEN "cancelled" ELSE status[m]]
      BY <2>2 DEF Revoke
    <3>3. UNCHANGED <<paper, nextId, wpc, wjob, wstatus, pc, tmsg>>
      BY <2>2 DEF Revoke
    <3>4. Trying' = Trying
      <4>1. \A m \in MsgId : status'[m] = "absent" <=> status[m] = "absent"
        BY <3>1, <3>2
      <4> QED BY <3>3, <4>1, TryingKept
    <3> HIDE DEF M
    <3>5. Jobs!Burn
      BY <3>1, <3>2, <3>3, <3>4 DEF Jobs!Burn, Jobs!MsgId, Jobs!Waiting
    <3> QED BY <3>5 DEF Jobs!Next
  <2>3. CASE Delete(u)
    <3> DEFINE M == {m \in MsgId : sender[m] = u}
    <3>1. M \in SUBSET MsgId
      OBVIOUS
    <3>2. status' = [m \in MsgId |-> IF m \in M THEN "absent" ELSE status[m]]
      BY <2>3 DEF Delete
    <3>3. UNCHANGED <<paper, nextId, wpc, wjob, wstatus, pc, tmsg>>
      BY <2>3 DEF Delete
    <3>4. Trying' \in SUBSET Trying
      <4>1. ASSUME NEW m \in MsgId, Attempted(m)' PROVE Attempted(m)
        BY <3>2, <3>3, <4>1 DEF Attempted, InHand
      <4>2. ASSUME NEW m \in MsgId, Retrying(m)' PROVE Retrying(m)
        BY <3>3, <4>2 DEF Retrying
      <4> QED BY <4>1, <4>2, TryingIs
    <3> HIDE DEF M
    <3>5. Jobs!Drop
      BY <3>1, <3>2, <3>3, <3>4 DEF Jobs!Drop, Jobs!MsgId
    <3> QED BY <3>5 DEF Jobs!Next
  <2> QED BY <1>4, <2>1, <2>2, <2>3 DEF AccountStep
\* Requests
<1>5. ASSUME NEW t \in Thread, Request(t) PROVE [Jobs!Next]_(Jobs!vars)
  <2>1. ASSUME NEW m \in MsgId, AskRetry(t, m) PROVE [Jobs!Next]_(Jobs!vars)
    <3>1. status[m] = "failed" /\ UNCHANGED <<status, paper, nextId, wpc, wjob, wstatus>>
      BY <2>1 DEF AskRetry
    <3>2. Trying' = Trying \cup {m}
      <4>1. ASSUME NEW o \in MsgId PROVE Attempted(o)' <=> Attempted(o)
        BY <3>1 DEF Attempted, InHand
      <4>2. ASSUME NEW o \in MsgId PROVE Retrying(o)' <=> Retrying(o) \/ o = m
        <5>1. pc[t] = "idle" /\ pc'[t] = "retry" /\ tmsg'[t] = m
              /\ \A a \in Thread : a # t => pc'[a] = pc[a] /\ tmsg'[a] = tmsg[a]
          BY <2>1 DEF AskRetry, ThreadType
        <5> QED BY <5>1 DEF Retrying
      <4> QED BY <4>1, <4>2, TryingIs
    <3>3. Jobs!Try(m)
      BY <3>1, <3>2 DEF Jobs!Try
    <3> QED BY <3>3 DEF Jobs!Next, Jobs!MsgId
  <2>2. CASE (\E u \in User : Arrive(t, u)) \/ \E u \in User, m \in MsgId : AskCancel(t, u, m)
    <3>1. /\ UNCHANGED <<status, paper, nextId, wpc, wjob, wstatus>>
          /\ \A o \in Thread : \/ UNCHANGED <<pc[o], tmsg[o]>>
                               \/ pc[o] \notin {"retry", "mark"} /\ pc'[o] \notin {"retry", "mark"}
      BY <2>2 DEF Arrive, AskCancel, ThreadType
    <3>2. Trying' = Trying
      BY <3>1, TryingKept
    <3> QED BY <3>1, <3>2, Ends
  <2> QED BY <1>5, <2>1, <2>2 DEF Request
<1>6. ASSUME NEW t \in Thread, Schedule(t) \/ Log(t) PROVE [Jobs!Next]_(Jobs!vars)
  <2>1. /\ nextId \in MsgId /\ nextId' = nextId + 1
        /\ \E s \in {"scheduled", "queued"} : status' = [status EXCEPT ![nextId] = s]
        /\ UNCHANGED <<paper, wpc, wjob, wstatus>>
    BY <1>6 DEF Schedule, Log
  <2>2. \A o \in Thread : \/ UNCHANGED <<pc[o], tmsg[o]>>
                          \/ pc[o] \notin {"retry", "mark"} /\ pc'[o] \notin {"retry", "mark"}
    BY <1>6 DEF Schedule, Log, Return, ThreadType
  <2>3. \A m \in MsgId : AtWorker(m) => status'[m] = status[m]
    BY <1>2, <2>1 DEF RowType
  <2>4. Trying' = Trying
    BY <2>1, <2>2, <2>3, TryingKept
  <2>5. Jobs!Accept
    BY <2>1, <2>4 DEF Jobs!Accept, Jobs!MsgId, Jobs!Waiting
  <2> QED BY <2>5 DEF Jobs!Next
<1>7. ASSUME NEW t \in Thread,
             RejectCapsule(t) \/ Reserve(t) \/ RejectCap(t) \/ LogFails(t) \/ Put(t)
             \/ PutFull(t) \/ Undo(t)
      PROVE  [Jobs!Next]_(Jobs!vars)
  <2>1. UNCHANGED <<status, paper, nextId, wpc, wjob, wstatus>>
    BY <1>7 DEF RejectCapsule, Reserve, RejectCap, LogFails, Put, PutFull, Undo
  <2>2. \A o \in Thread : \/ UNCHANGED <<pc[o], tmsg[o]>>
                          \/ pc[o] \notin {"retry", "mark"} /\ pc'[o] \notin {"retry", "mark"}
    <3>1. CASE RejectCapsule(t) \/ RejectCap(t) \/ Put(t) \/ Undo(t)
      BY <3>1 DEF RejectCapsule, RejectCap, Put, Undo, Return, Goto, ThreadType
    <3>2. CASE Reserve(t) \/ LogFails(t) \/ PutFull(t)
      BY <3>2 DEF Reserve, LogFails, PutFull, Goto, ThreadType
    <3> QED BY <1>7, <3>1, <3>2
  <2>3. Trying' = Trying
    BY <2>1, <2>2, TryingKept
  <2> QED BY <2>1, <2>3, Ends
<1>8. ASSUME NEW t \in Thread, Erase(t) PROVE [Jobs!Next]_(Jobs!vars)
  <2>1. tmsg[t] \in MsgId /\ status' = [status EXCEPT ![tmsg[t]] = "absent"]
        /\ UNCHANGED <<paper, nextId, wpc, wjob, wstatus>>
    BY <1>1, <1>8 DEF Erase, ThreadsHold
  <2>2. \A o \in Thread : \/ UNCHANGED <<pc[o], tmsg[o]>>
                          \/ pc[o] \notin {"retry", "mark"} /\ pc'[o] \notin {"retry", "mark"}
    BY <1>8 DEF Erase, Return, ThreadType
  <2>3. ~AtWorker(tmsg[t])
    BY <1>8, <2>1 DEF Erase, Hands, OneHand, AtRequest, AtThread
  <2>4. Trying' = Trying
    BY <2>1, <2>2, <2>3, TryingKept DEF RowType
  <2>5. status' = [m \in MsgId |-> IF m \in {tmsg[t]} THEN "absent" ELSE status[m]]
    BY <2>1 DEF RowType
  <2>6. Jobs!Drop
    BY <2>1, <2>4, <2>5 DEF Jobs!Drop, Jobs!MsgId
  <2> QED BY <2>6 DEF Jobs!Next
<1>9. ASSUME NEW t \in Thread, Cancel(t) PROVE [Jobs!Next]_(Jobs!vars)
  <2>1. tmsg[t] \in MsgId /\ UNCHANGED <<paper, nextId, wpc, wjob, wstatus>>
        /\ status' = [status EXCEPT ![tmsg[t]] = IF @ = "scheduled" THEN "cancelled" ELSE @]
    BY <1>9 DEF Cancel, ThreadsHold
  <2>2. \A o \in Thread : \/ UNCHANGED <<pc[o], tmsg[o]>>
                          \/ pc[o] \notin {"retry", "mark"} /\ pc'[o] \notin {"retry", "mark"}
    BY <1>9 DEF Cancel, Return, ThreadType
  <2>3. \A m \in MsgId : status'[m] = "absent" <=> status[m] = "absent"
    BY <2>1 DEF RowType
  <2>4. Trying' = Trying
    BY <2>1, <2>2, <2>3, TryingKept
  <2> DEFINE M == IF status[tmsg[t]] = "scheduled" THEN {tmsg[t]} ELSE {}
  <2>5. M \in SUBSET {m \in MsgId : status[m] \in {"scheduled", "queued"}}
    BY <2>1
  <2>6. status' = [m \in MsgId |-> IF m \in M THEN "cancelled" ELSE status[m]]
    BY <2>1 DEF RowType
  <2> HIDE DEF M
  <2>7. Jobs!Burn
    BY <2>1, <2>4, <2>5, <2>6 DEF Jobs!Burn, Jobs!MsgId, Jobs!Waiting
  <2> QED BY <2>7 DEF Jobs!Next
<1>10. ASSUME NEW t \in Thread, RetryPrints(t) PROVE [Jobs!Next]_(Jobs!vars)
  <2>1. tmsg[t] \in MsgId /\ paper' = [paper EXCEPT ![tmsg[t]] = @ + 1]
        /\ UNCHANGED <<status, nextId, wpc, wjob, wstatus, tmsg>>
    BY <1>10 DEF RetryPrints, Goto, ThreadsHold
  <2>2. \A o \in Thread : pc[o] \in {"retry", "mark"} <=> pc'[o] \in {"retry", "mark"}
    BY <1>10 DEF RetryPrints, Goto, ThreadType
  <2>3. Trying' = Trying
    <3>1. ASSUME NEW m \in MsgId PROVE Attempted(m)' <=> Attempted(m)
      BY <2>1 DEF Attempted, InHand
    <3>2. ASSUME NEW m \in MsgId PROVE Retrying(m)' <=> Retrying(m)
      BY <2>1, <2>2 DEF Retrying
    <3> QED BY <3>1, <3>2, TryingIs
  <2>4. tmsg[t] \in Trying
    BY <1>10, <2>1, TryingIs DEF RetryPrints, Retrying
  <2>5. Jobs!Emit(tmsg[t])
    BY <2>1, <2>3, <2>4 DEF Jobs!Emit
  <2> QED BY <2>1, <2>5 DEF Jobs!Next, Jobs!MsgId
<1>11. ASSUME NEW t \in Thread, RetryFails(t) \/ Mark(t) PROVE [Jobs!Next]_(Jobs!vars)
  <2> DEFINE m == tmsg[t]
  <2>1. m \in MsgId /\ Retrying(m) /\ UNCHANGED <<paper, nextId, wpc, wjob, wstatus>>
    BY <1>11 DEF RetryFails, Mark, ThreadsHold, Retrying
  <2>2. \A o \in Thread : \/ UNCHANGED <<pc[o], tmsg[o]>>
                          \/ o = t /\ pc'[o] = "idle"
    BY <1>11 DEF RetryFails, Mark, Return, ThreadType
  <2>3. ASSUME NEW o \in MsgId, o # m PROVE Retrying(o)' <=> Retrying(o)
    BY <2>2, <2>3 DEF Retrying
  <2>4. CASE status' = status
    <3>1. ASSUME NEW o \in MsgId, Retrying(o)' PROVE Retrying(o)
      BY <2>1, <2>3, <3>1
    <3>2. ASSUME NEW o \in MsgId PROVE Attempted(o)' <=> Attempted(o)
      BY <2>1, <2>4 DEF Attempted, InHand
    <3>3. Trying' \subseteq Trying
      BY <3>1, <3>2, TryingIs
    <3> QED BY <2>1, <2>4, <3>3, Ends
  <2>5. CASE status' # status
    <3>1. pc[t] = "mark" /\ status[m] # "absent" /\ status' = [status EXCEPT ![m] = "printed"]
      BY <1>1, <1>11, <2>1, <2>5 DEF RetryFails, Mark, UpdateRow, RowType
    <3>2. paper[m] > 0
      BY <3>1 DEF Receipted
    <3>3. \A o \in MsgId : status'[o] = "absent" <=> status[o] = "absent"
      BY <2>1, <3>1 DEF RowType
    <3>4. ASSUME NEW o \in MsgId PROVE Attempted(o)' <=> Attempted(o)
      BY <2>1, <3>3 DEF Attempted, InHand
    <3>5. m \in Trying
      BY <2>1, TryingIs
    <3>6. ~Attempted(m)
      BY <1>2, <2>1 DEF Attempted, InHand, AtWorker
    <3>7. Trying' \in {Trying, Trying \ {m}}
      <4> HIDE DEF m
      <4>1. CASE Retrying(m)'
        BY <2>1, <2>3, <3>4, <4>1, TryingIs
      <4>2. CASE ~Retrying(m)'
        BY <2>1, <2>3, <3>4, <3>6, <4>2, TryingIs
      <4> QED BY <4>1, <4>2
    <3>8. Jobs!Settle(m)
      BY <2>1, <3>1, <3>2, <3>5, <3>7 DEF Jobs!Settle
    <3> QED BY <2>1, <3>8 DEF Jobs!Next, Jobs!MsgId
  <2> QED BY <2>4, <2>5
\* The worker
<1>12. CASE WorkerStep
  <2>1. CASE Get \/ QuietPasses
    <3>1. UNCHANGED <<status, paper, nextId, pc, tmsg>>
      BY <2>1 DEF Get, QuietPasses
    <3>2. \A m \in MsgId : InHand(m)' <=> InHand(m)
      BY <2>1 DEF Get, QuietPasses, InHand
    <3>3. \A m \in MsgId : InHand(m) => wstatus' = wstatus
      BY <2>1 DEF Get, QuietPasses, InHand
    <3>4. Trying' = Trying
      BY <3>1, <3>2, <3>3 DEF Trying
    <3> QED BY <3>1, <3>4, Ends
  <2>2. CASE Read
    <3>1. /\ wjob \in MsgId /\ status[wjob] = "queued" /\ wpc = "read" /\ wpc' = "quiet"
          /\ UNCHANGED <<status, paper, nextId, pc, tmsg, wjob, wstatus>>
      BY <2>2 DEF Read, WorkerHolds
    <3>2. ASSUME NEW m \in MsgId PROVE Attempted(m)' <=> m = wjob
      BY <3>1, <3>2 DEF Attempted, InHand
    <3>3. ASSUME NEW m \in MsgId PROVE ~Attempted(m) /\ (Retrying(m)' <=> Retrying(m))
      BY <3>1 DEF Attempted, InHand, Retrying
    <3>4. Trying' = Trying \cup {wjob}
      BY <3>1, <3>2, <3>3, TryingIs
    <3>5. Jobs!Try(wjob)
      BY <3>1, <3>4 DEF Jobs!Try
    <3> QED BY <3>1, <3>5 DEF Jobs!Next, Jobs!MsgId
  <2>3. CASE Skip
    <3>1. /\ wjob \in MsgId /\ wpc = "read" /\ wpc' = "dec"
          /\ status' = [status EXCEPT ![wjob] = IF @ = "queued" THEN "cancelled" ELSE @]
          /\ UNCHANGED <<paper, nextId, pc, tmsg>>
      BY <2>3 DEF Skip, WorkerHolds
    <3>2. Trying' = Trying
      BY <3>1 DEF Trying, InHand
    <3> DEFINE M == IF status[wjob] = "queued" THEN {wjob} ELSE {}
    <3>3. M \in SUBSET {m \in MsgId : status[m] \in {"scheduled", "queued"}}
      BY <3>1
    <3>4. status' = [m \in MsgId |-> IF m \in M THEN "cancelled" ELSE status[m]]
      BY <3>1 DEF RowType
    <3> HIDE DEF M
    <3>5. Jobs!Burn
      BY <3>1, <3>2, <3>3, <3>4 DEF Jobs!Burn, Jobs!MsgId, Jobs!Waiting
    <3> QED BY <3>5 DEF Jobs!Next
  <2>4. CASE ReadFails
    <3>1. /\ wpc = "read" /\ status[wjob] = "absent" /\ wstatus' = "failed"
          /\ UNCHANGED <<status, paper, nextId, pc, tmsg, wjob>>
      BY <1>1, <2>4 DEF ReadFails
    <3>2. Trying' = Trying
      BY <3>1 DEF Trying, InHand
    <3> QED BY <3>1, <3>2, Ends
  <2>5. CASE QuietHolds
    <3>1. PICK s \in Time : Defer(wjob, s)
      BY <2>5 DEF QuietHolds
    <3>2. /\ wjob \in MsgId /\ wpc = "quiet" /\ wpc' = "dec"
          /\ UNCHANGED <<paper, nextId, pc, tmsg, wjob, wstatus>>
      BY <2>5 DEF QuietHolds, WorkerHolds
    <3>3. AtWorker(wjob)
      BY <3>2 DEF AtWorker
    <3>4. wstatus = "printed"
      BY <3>2 DEF PaperInv, FreshStatus
    <3>5. Trying' = Trying \ {wjob}
      <4>1. ASSUME NEW m \in MsgId PROVE ~Attempted(m)' /\ (Attempted(m) <=> m = wjob)
        BY <3>2, <3>4 DEF Attempted, InHand
      <4>2. ASSUME NEW m \in MsgId PROVE Retrying(m)' <=> Retrying(m)
        BY <3>2 DEF Retrying
      <4> QED BY <1>2, <3>2, <3>3, <4>1, <4>2, TryingIs
    <3>6. CASE status[wjob] \in {"queued", "scheduled"}
      <4>1. status' = [status EXCEPT ![wjob] = "scheduled"]
        BY <3>1, <3>6 DEF Defer
      <4>2. Jobs!Move(wjob)
        BY <3>2, <3>5, <3>6, <4>1 DEF Jobs!Move, Jobs!Waiting
      <4> QED BY <3>2, <4>2 DEF Jobs!Next, Jobs!MsgId
    <3>7. CASE status[wjob] \notin {"queued", "scheduled"}
      <4>1. status' = status
        BY <3>1, <3>7 DEF Defer
      <4> QED BY <3>2, <3>5, <4>1, Ends
    <3> QED BY <3>6, <3>7
  <2>6. CASE Prints
    <3>1. /\ wjob \in MsgId /\ wpc = "print" /\ wpc' = "record"
          /\ paper' = [paper EXCEPT ![wjob] = @ + 1]
          /\ UNCHANGED <<status, nextId, pc, tmsg, wjob, wstatus>>
      BY <2>6 DEF Prints, WorkerHolds
    <3>2. wstatus = "printed"
      BY <3>1 DEF PaperInv, FreshStatus
    <3>3. Trying' = Trying /\ wjob \in Trying
      BY <3>1, <3>2 DEF Trying, InHand
    <3>4. Jobs!Emit(wjob)
      BY <3>1, <3>3 DEF Jobs!Emit
    <3> QED BY <3>1, <3>4 DEF Jobs!Next, Jobs!MsgId
  <2>7. CASE PrintFails
    <3>1. /\ wpc = "print" /\ wstatus' = "failed"
          /\ UNCHANGED <<status, paper, nextId, pc, tmsg, wjob>>
      BY <2>7 DEF PrintFails
    <3>2. wstatus = "printed"
      BY <3>1 DEF PaperInv, FreshStatus
    <3>3. Trying' \subseteq Trying
      BY <3>1, <3>2 DEF Trying, InHand
    <3> QED BY <3>1, <3>3, Ends
  <2>8. CASE Record
    <3>1. /\ wjob \in MsgId /\ wpc = "record" /\ wpc' = "dec"
          /\ status' = UpdateRow(wjob, wstatus)
          /\ UNCHANGED <<paper, nextId, pc, tmsg, wjob, wstatus>>
      BY <1>1, <2>8 DEF Record, WorkerHolds
    <3>2. AtWorker(wjob)
      BY <3>1 DEF AtWorker
    <3>3. ASSUME NEW m \in MsgId PROVE ~Attempted(m)' /\ (Retrying(m)' <=> Retrying(m))
      BY <3>1 DEF Attempted, InHand, Retrying
    <3>4. CASE status[wjob] = "absent"
      <4>1. status' = status
        BY <3>1, <3>4 DEF UpdateRow, RowType
      <4>2. Trying' \subseteq Trying
        BY <3>3, TryingIs
      <4> QED BY <3>1, <4>1, <4>2, Ends
    <3>5. CASE status[wjob] # "absent"
      <4>1. status' = [status EXCEPT ![wjob] = wstatus]
        BY <3>1, <3>5 DEF UpdateRow, RowType
      <4>2. wjob \in Trying /\ Trying' = Trying \ {wjob}
        <5>1. ASSUME NEW m \in MsgId PROVE Attempted(m) <=> m = wjob
          BY <3>1, <3>5 DEF Attempted, InHand
        <5> QED BY <1>2, <3>1, <3>2, <3>3, <5>1, TryingIs
      <4>3. wstatus = "printed" => paper[wjob] > 0
        BY <3>1 DEF Receipted
      <4>4. wstatus \in {"printed", "failed"} /\ status[wjob] # "printed"
        BY <1>2, <3>1, <3>2 DEF WorkerType
      <4>5. Jobs!Settle(wjob)
        BY <3>1, <3>5, <4>1, <4>2, <4>3, <4>4 DEF Jobs!Settle
      <4> QED BY <3>1, <4>5 DEF Jobs!Next, Jobs!MsgId
    <3> QED BY <3>4, <3>5
  <2> QED BY <1>12, <2>1, <2>2, <2>3, <2>4, <2>5, <2>6, <2>7, <2>8 DEF WorkerStep
<1>13. CASE Finish
  <2>1. UNCHANGED <<status, paper, nextId, pc, tmsg>> /\ wpc = "dec" /\ wpc' = "get"
    BY <1>13 DEF Finish
  <2>2. Trying' = Trying
    BY <2>1 DEF Trying, InHand
  <2> QED BY <2>1, <2>2, Ends
\* The dispatcher
<1>14. ASSUME NEW m \in MsgId, status[m] \in {"scheduled", "queued"},
              \E s \in {"scheduled", "queued"} : status' = [status EXCEPT ![m] = s],
              UNCHANGED <<paper, nextId, wpc, wjob, wstatus, pc, tmsg>>
       PROVE  [Jobs!Next]_(Jobs!vars)
  <2>1. \A o \in MsgId : status'[o] = "absent" <=> status[o] = "absent"
    BY <1>14 DEF RowType
  <2>2. Trying' = Trying
    BY <1>14, <2>1, TryingKept
  <2>3. Jobs!Move(m)
    BY <1>14, <2>2 DEF Jobs!Move, Jobs!Waiting
  <2> QED BY <1>14, <2>3 DEF Jobs!Next, Jobs!MsgId
<1>15. ASSUME NEW m \in MsgId, NEW s \in Time, Defer(m, s),
              UNCHANGED <<paper, nextId, wpc, wjob, wstatus, pc, tmsg>>
       PROVE  [Jobs!Next]_(Jobs!vars)
  <2>1. CASE status[m] \in {"queued", "scheduled"}
    <3>1. status' = [status EXCEPT ![m] = "scheduled"]
      BY <1>15, <2>1 DEF Defer
    <3> QED BY <1>14, <1>15, <2>1, <3>1
  <2>2. CASE status[m] \notin {"queued", "scheduled"}
    <3>1. status' = status
      BY <1>15, <2>2 DEF Defer
    <3> QED BY <1>3, <1>15, <3>1
  <2> QED BY <2>1, <2>2
<1>16. CASE DispatcherStep
  <2>1. CASE Scan \/ PutClaim \/ Dispatched \/ TickFails \/ \E m \in MsgId : PassOver(m)
    BY <1>3, <2>1 DEF Scan, PutClaim, Dispatched, TickFails, PassOver
  <2>2. CASE Pushback
    <3>1. Defer(dmsg, dnow) /\ dmsg \in MsgId /\ dnow \in Time
          /\ UNCHANGED <<paper, nextId, wpc, wjob, wstatus, pc, tmsg>>
      BY <1>1, <2>2 DEF Pushback, DispatcherHolds, DispatcherType
    <3>2. PICK m \in MsgId, s \in Time : m = dmsg /\ s = dnow
      BY <3>1
    <3> QED BY <1>15, <3>1, <3>2
  <2>3. ASSUME NEW m \in MsgId, QuietDefers(m) PROVE [Jobs!Next]_(Jobs!vars)
    BY <1>15, <2>3 DEF QuietDefers
  <2>4. ASSUME NEW m \in MsgId, Claim(m) PROVE [Jobs!Next]_(Jobs!vars)
    BY <1>14, <2>4 DEF Claim, DueAt
  <2> QED BY <1>16, <2>1, <2>2, <2>3, <2>4 DEF DispatcherStep
\* Restarts
<1>17. CASE BootStep
  <2>1. CASE Boot \/ Started \/ \E m \in MsgId : Replay(m)
    BY <1>3, <2>1 DEF Boot, Started, Replay
  <2>2. ASSUME NEW m \in MsgId, ReplayCapsule(m) PROVE [Jobs!Next]_(Jobs!vars)
    <3>1. status[m] = "queued" /\ UNCHANGED <<paper, nextId, wpc, wjob, wstatus, pc, tmsg>>
      BY <2>2 DEF ReplayCapsule, FirstTodo, ProcessOK
    <3>2. CASE SenderAllowed(m)
      BY <1>14, <2>2, <3>1, <3>2 DEF ReplayCapsule
    <3>3. CASE ~SenderAllowed(m)
      <4>1. status' = [status EXCEPT ![m] = "cancelled"]
        BY <2>2, <3>3 DEF ReplayCapsule
      <4>2. \A o \in MsgId : status'[o] = "absent" <=> status[o] = "absent"
        BY <3>1, <4>1 DEF RowType
      <4>3. Trying' = Trying
        BY <3>1, <4>2, TryingKept
      <4>4. status' = [o \in MsgId |-> IF o \in {m} THEN "cancelled" ELSE status[o]]
        BY <4>1 DEF RowType
      <4>5. {m} \in SUBSET {o \in MsgId : status[o] \in {"scheduled", "queued"}}
        BY <3>1
      <4>6. Jobs!Burn
        BY <3>1, <4>3, <4>4, <4>5 DEF Jobs!Burn, Jobs!MsgId, Jobs!Waiting
      <4> QED BY <4>6 DEF Jobs!Next
    <3> QED BY <3>2, <3>3
  <2>3. ASSUME NEW m \in MsgId, ReplayOverflows(m) PROVE [Jobs!Next]_(Jobs!vars)
    <3>1. /\ status[m] = "queued" /\ status' = [status EXCEPT ![m] = "failed"]
          /\ UNCHANGED <<paper, nextId, wpc, wjob, wstatus, pc, tmsg>>
      BY <2>3 DEF ReplayOverflows, FirstTodo, ProcessOK
    <3>2. m \notin Trying
      BY <2>3 DEF ReplayOverflows, ProcessOK, Trying, InHand
    <3>3. \A o \in MsgId : status'[o] = "absent" <=> status[o] = "absent"
      BY <3>1 DEF RowType
    <3>4. Trying' = Trying
      BY <3>1, <3>3, TryingKept
    <3>5. Jobs!Overflow(m)
      BY <3>1, <3>2, <3>4 DEF Jobs!Overflow
    <3> QED BY <3>5 DEF Jobs!Next, Jobs!MsgId
  <2> QED BY <1>17, <2>1, <2>2, <2>3 DEF BootStep
<1>18. CASE Crash
  <2>1. UNCHANGED <<status, paper, nextId>> /\ wpc' = "get" /\ \A t \in Thread : pc'[t] = "idle"
    BY <1>18 DEF Crash
  <2>2. Trying' \subseteq Trying
    BY <2>1 DEF Trying, InHand
  <2> QED BY <2>1, <2>2, Ends
<1>19. CASE Tick \/ IdlePoll \/ UNCHANGED vars
  BY <1>3, <1>19 DEF Tick, IdlePoll, vars
<1> QED BY <1>4, <1>5, <1>6, <1>7, <1>8, <1>9, <1>10, <1>11, <1>12, <1>13, <1>16, <1>17,
           <1>18, <1>19 DEF Next, ThreadStep

LEMMA JobsInit == Init => Jobs!Init
  BY DEF Init, Jobs!Init, Jobs!MsgId, Trying, InHand

\* The lifecycle a friend, the owner and the console can rely on: whatever the
\* threads, the lock, the caps, quiet hours and restarts of app.py do, a message
\* takes only the steps of PrintJobs, and paper comes out only during a try.
THEOREM QueueKeepsLifecycle == ASSUME MaxDbFails = 0 PROVE Spec => JobsSpec
<1>1. IInv /\ Hands /\ PaperInv /\ Receipted /\ [Next]_vars => [Jobs!Next]_(Jobs!vars)
  BY JobsStep
<1> QED BY <1>1, JobsInit, InvCorrect, HandsCorrect, PaperCorrect, ReceiptedCorrect, PTL
        DEF Spec, JobsSpec, Jobs!Spec
=============================================================================
