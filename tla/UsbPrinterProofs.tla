--------------------------- MODULE UsbPrinterProofs ---------------------------
(***************************************************************************)
(* open_printer() for any number of threads, jobs and faults: whose turn   *)
(* it is, what each job has on the roll, and what its caller is told.      *)
(***************************************************************************)
EXTENDS UsbPrinter, FiniteSetTheorems, SequenceTheorems, TLAPS

USE DEF Job, jobVars, outVars, Unset, Dark

-----------------------------------------------------------------------------
(* The plans                                                               *)

Piece == {"image", "text", "feed", "cut", "command", "read", "lamp", "dark"}

LEMMA SheetsType ==
  ASSUME NEW n \in Nat \ {0}
  PROVE  /\ Sheets(n) \in Seq({"image", "cut"}) /\ Len(Sheets(n)) = 2 * n - 1
<1>1. Sheets(n) \in [1..(2 * n - 1) -> {"image", "cut"}] /\ 2 * n - 1 \in Nat
  BY DEF Sheets
<1> QED BY <1>1

\* A plan is a sequence of sections of pieces; only a blink has several, and
\* only its sections touch the LED.
LEMMA PlanShape ==
  ASSUME NEW k \in KindName
  PROVE  /\ Plan(k) \in Seq(Seq(Piece)) /\ Len(Plan(k)) >= 1
         /\ k # "blink" => /\ Len(Plan(k)) = 1
                           /\ Plan(k)[1] \in Seq(Piece \ {"lamp", "dark"})
         /\ k = "blink" => Plan(k) = << <<"lamp">>, <<"dark">>, <<"lamp">> >>
<1> DEFINE Q == Piece \ {"lamp", "dark"}
<1>1. Footer \in Seq(Q)
  BY DEF Footer, Piece
<1>2. /\ Sheets(1) \in Seq(Q) /\ Sheets(2) \in Seq(Q)
  <2>1. Sheets(1) \in Seq({"image", "cut"}) /\ Sheets(2) \in Seq({"image", "cut"})
    BY SheetsType
  <2>2. {"image", "cut"} \subseteq Q
    BY DEF Piece
  <2> QED BY <2>1, <2>2, SeqMonotonic
<1>3. /\ RichBody(1, FALSE) \in Seq(Q) /\ RichBody(1, TRUE) \in Seq(Q)
      /\ RichBody(2, TRUE) \in Seq(Q)
  BY <1>1, <1>2, ConcatProperties DEF RichBody
<1>4. BriefingBody \in Seq(Q)
  <2>1. [i \in 1..2 |-> "image"] \in Seq(Q)
    BY DEF Piece
  <2> QED BY <1>1, <2>1, ConcatProperties DEF BriefingBody, SectionsBody
<1>5. ImageBody(0) \in Seq(Q) /\ ImageBody(1) \in Seq(Q)
  <2>1. <<"image">> \in Seq(Q) /\ <<"text">> \in Seq(Q) /\ << >> \in Seq(Q)
    BY DEF Piece
  <2> QED BY <1>1, <1>2, <2>1, ConcatProperties DEF ImageBody
<1>6. QrBody \in Seq(Q) /\ BarcodeBody \in Seq(Q)
  <2>1. CodeWrites \in Seq(Q)
    BY DEF CodeWrites, Piece
  <2> QED BY <1>1, <2>1, ConcatProperties DEF QrBody, BarcodeBody
<1>7. FeedBody \in Seq(Q) /\ CutBody \in Seq(Q) /\ StatusBody \in Seq(Q)
  <2>1. FeedBody \in Seq(Q) /\ <<"cut">> \in Seq(Q) /\ Query \in Seq(Q)
    BY DEF FeedBody, Query, Piece
  <2> QED BY <2>1, ConcatProperties DEF CutBody, StatusBody
<1>8. DrawerBody \in Seq(Q) /\ ControlBody \in Seq(Q) /\ RawBody \in Seq(Q)
  BY DEF DrawerBody, ControlBody, RawBody, Piece
<1>9. CASE k = "blink"
  BY <1>9 DEF Plan, BlinkPlan, Piece
<1>10. CASE k # "blink"
  <2>1. \E b \in Seq(Q) : Plan(k) = <<b>>
    BY <1>3, <1>4, <1>5, <1>6, <1>7, <1>8, <1>10 DEF Plan, KindName, WidgetBody, LabBody
  <2>2. PICK b \in Seq(Q) : Plan(k) = <<b>>
    BY <2>1
  <2>3. b \in Seq(Piece)
    BY SeqMonotonic
  <2> QED BY <1>10, <2>2, <2>3
<1> QED BY <1>9, <1>10

-----------------------------------------------------------------------------
(* Turns                                                                   *)

Printing == {"open", "reset", "reopen", "body"}

\* The lock is held by the thread that is at the printer; a thread that is not
\* idle has a job of its own, which has no answer yet and has got no further than
\* its plan; jobs that were not begun have left no trace.
Turns ==
  /\ \A t \in Thread : lock = t <=> pc[t] \in Printing
  /\ \A t \in Thread : job[t] = 0 <=> pc[t] = "idle"
  /\ \A t, u \in Thread : job[t] = job[u] /\ job[t] # 0 => t = u
  /\ \A t \in Thread : job[t] # 0 => job[t] <= begun /\ answer[job[t]] = "none"
  /\ \A t \in Thread : pc[t] \in {"want", "open", "reset", "reopen"} => sent[job[t]] = 0
  /\ \A j \in Job :
       IF j <= begun
       THEN kind[j] \in Kinds /\ sect[j] \in 1..Len(Plan(kind[j])) /\ sent[j] \in 0..Len(Body(j))
       ELSE kind[j] = "none" /\ answer[j] = "none" /\ sent[j] = 0

IInv == TypeOK /\ Turns

\* The body of a job that was begun is a sequence of pieces.
LEMMA BodyType ==
  ASSUME IInv, NEW j \in Job, j <= begun
  PROVE  /\ kind[j] \in KindName /\ Plan(kind[j]) \in Seq(Seq(Piece))
         /\ Body(j) \in Seq(Piece) /\ Len(Body(j)) \in Nat
         /\ sect[j] \in 1..Len(Plan(kind[j])) /\ Len(Plan(kind[j])) \in Nat
         /\ kind[j] # "blink" => sect[j] = 1
<1>1. kind[j] \in KindName
  BY KindAssumption DEF IInv, Turns
<1>2. Plan(kind[j]) \in Seq(Seq(Piece)) /\ (kind[j] # "blink" => Len(Plan(kind[j])) = 1)
  BY <1>1, PlanShape
<1>3. sect[j] \in 1..Len(Plan(kind[j])) /\ Len(Plan(kind[j])) \in Nat
  BY <1>2, LenProperties DEF IInv, Turns
<1>4. Body(j) \in Seq(Piece)
  BY <1>2, <1>3, ElementOfSeq DEF Body
<1>5. Len(Body(j)) \in Nat
  BY <1>4, LenProperties
<1>6. kind[j] # "blink" => sect[j] = 1
  <2>1. ASSUME kind[j] # "blink" PROVE sect[j] = 1
    <3>1. Len(Plan(kind[j])) = 1
      BY <1>2, <2>1
    <3>2. sect[j] \in 1..1
      BY <1>3, <3>1
    <3> QED BY <3>2
  <2> QED BY <2>1
<1> QED BY <1>1, <1>2, <1>3, <1>4, <1>5, <1>6

\* The job of a thread that is not idle.
LEMMA JobOf ==
  ASSUME IInv, NEW t \in Thread, pc[t] # "idle"
  PROVE  job[t] \in Job /\ job[t] <= begun /\ job[t] # 0 /\ answer[job[t]] = "none"
  BY DEF IInv, TypeOK, Turns

-----------------------------------------------------------------------------
(* The turns are kept                                                      *)

LEMMA InitTurns == Init => IInv
  BY BoundAssumption, ThreadAssumption DEF Init, IInv, TypeOK, Turns, Printing

\* Every way out of open_printer() lets go of the lock.
LEMMA LeaveTurns ==
  ASSUME IInv, NEW t \in Thread, pc[t] \in Printing, NEW o \in Outcome, Leave(t, o)
  PROVE  /\ Turns'
         /\ lock' = NoThread /\ pc' \in [Thread -> {"idle", "want", "open", "reset", "reopen", "body"}]
         /\ job' \in [Thread -> Job \cup {0}] /\ handle' \in [Thread -> Nat] /\ ok' \in BOOLEAN
         /\ kind' = kind /\ sect' \in [Job -> Nat] /\ sent' \in [Job -> Nat]
         /\ answer' \in [Job -> {"none", "ok", "printer", "input", "server"}]
         /\ log' \in Seq([job : Job, outcome : Outcome]) /\ begun' = begun
<1> USE DEF IInv
<1> DEFINE j == job[t]
<1>1. j \in Job /\ j <= begun /\ j # 0 /\ answer[j] = "none" /\ pc[t] # "idle"
  BY JobOf DEF Printing
<1>2. lock = t /\ \A u \in Thread : pc[u] \in Printing => u = t
  BY DEF Turns
<1>3. /\ lock' = NoThread /\ kind' = kind /\ begun' = begun
      /\ handle' = [handle EXCEPT ![t] = 0] /\ log' = Append(log, [job |-> j, outcome |-> o])
      /\ ok' = Marked(o)
  BY DEF Leave, Released
<1>4. handle' \in [Thread -> Nat] /\ ok' \in BOOLEAN
  BY <1>3 DEF TypeOK, Marked
<1>5. log' \in Seq([job : Job, outcome : Outcome])
  BY <1>1, <1>3 DEF TypeOK
<1>6. Reply(o) \in {"ok", "printer", "input", "server"}
  BY DEF Reply, Outcome
<1>7. CASE o = "done" /\ MoreFlashes(j)
  <2>1. /\ pc' = [pc EXCEPT ![t] = "want"] /\ sect' = [sect EXCEPT ![j] = @ + 1]
        /\ sent' = [sent EXCEPT ![j] = 0] /\ job' = job /\ answer' = answer
    BY <1>7 DEF Leave
  <2>2. sect[j] + 1 \in 1..Len(Plan(kind[j]))
    BY <1>1, <1>7, BodyType DEF MoreFlashes
  <2>3. /\ \A u \in Thread : lock' = u <=> pc'[u] \in Printing
        /\ \A u \in Thread : job'[u] = 0 <=> pc'[u] = "idle"
    BY <1>1, <1>2, <1>3, <2>1, ThreadAssumption DEF TypeOK, Turns, Printing
  <2>4. \A u \in Thread : pc'[u] \in {"want", "open", "reset", "reopen"} => sent'[job'[u]] = 0
    BY <1>1, <2>1 DEF TypeOK, Turns
  <2>5. ASSUME NEW i \in Job, i <= begun
        PROVE  /\ sect'[i] \in 1..Len(Plan(kind'[i])) /\ sent'[i] \in 0..Len(Body(i)')
    <3>1. CASE i # j
      <4>1. Body(i)' = Body(i) /\ sect'[i] = sect[i] /\ sent'[i] = sent[i]
        BY <1>1, <1>3, <2>1, <3>1 DEF Body, TypeOK
      <4> QED BY <1>3, <2>5, <4>1 DEF Turns
    <3>2. CASE i = j
      <4>1. sect'[i] = sect[j] + 1 /\ sent'[i] = 0
        BY <1>1, <2>1, <3>2 DEF TypeOK
      <4>2. Plan(kind[j])[sect[j] + 1] \in Seq(Piece)
        BY <1>1, <2>2, BodyType, ElementOfSeq
      <4>3. Body(i)' \in Seq(Piece)
        BY <1>3, <3>2, <4>1, <4>2 DEF Body
      <4>4. Len(Body(i)') \in Nat
        BY <4>3, LenProperties
      <4> QED BY <1>3, <2>2, <3>2, <4>1, <4>4
    <3> QED BY <3>1, <3>2
  <2>6. \A i \in Job : i > begun => sent'[i] = 0
    BY <1>1, <2>1 DEF TypeOK, Turns
  <2>7. \A i \in Job :
          IF i <= begun'
          THEN /\ kind'[i] \in Kinds /\ sect'[i] \in 1..Len(Plan(kind'[i]))
               /\ sent'[i] \in 0..Len(Body(i)')
          ELSE kind'[i] = "none" /\ answer'[i] = "none" /\ sent'[i] = 0
    BY <1>3, <2>1, <2>5, <2>6 DEF Turns, TypeOK
  <2>8. Turns'
    BY <1>3, <2>1, <2>3, <2>4, <2>7 DEF Turns
  <2>9. sect' \in [Job -> Nat] /\ sent' \in [Job -> Nat]
    BY <1>1, <2>1 DEF TypeOK
  <2>10. answer' \in [Job -> {"none", "ok", "printer", "input", "server"}]
    BY <2>1 DEF TypeOK
  <2>11. /\ pc' \in [Thread -> {"idle", "want", "open", "reset", "reopen", "body"}]
         /\ job' \in [Thread -> Job \cup {0}]
    BY <2>1 DEF TypeOK
  <2> QED BY <1>3, <1>4, <1>5, <2>8, <2>9, <2>10, <2>11
<1>8. CASE ~(o = "done" /\ MoreFlashes(j))
  <2>1. /\ pc' = [pc EXCEPT ![t] = "idle"] /\ job' = [job EXCEPT ![t] = 0]
        /\ answer' = [answer EXCEPT ![j] = Reply(o)] /\ sect' = sect /\ sent' = sent
    BY <1>8 DEF Leave
  <2>2. /\ \A u \in Thread : lock' = u <=> pc'[u] \in Printing
        /\ \A u \in Thread : job'[u] = 0 <=> pc'[u] = "idle"
    BY <1>1, <1>2, <1>3, <2>1, ThreadAssumption DEF TypeOK, Turns, Printing
  <2>3. \A u \in Thread : pc'[u] \in {"want", "open", "reset", "reopen"} => sent'[job'[u]] = 0
    BY <2>1 DEF TypeOK, Turns
  <2>4. \A u \in Thread : job'[u] # 0 => job'[u] <= begun /\ answer'[job'[u]] = "none"
    BY <1>1, <2>1 DEF TypeOK, Turns
  <2>5. \A u, v \in Thread : job'[u] = job'[v] /\ job'[u] # 0 => u = v
    BY <2>1 DEF TypeOK, Turns
  <2>6. \A i \in Job : Body(i)' = Body(i) /\ (i > begun => answer'[i] = "none")
    BY <1>1, <1>3, <2>1 DEF Body, TypeOK, Turns
  <2>7. \A i \in Job :
          IF i <= begun'
          THEN /\ kind'[i] \in Kinds /\ sect'[i] \in 1..Len(Plan(kind'[i]))
               /\ sent'[i] \in 0..Len(Body(i)')
          ELSE kind'[i] = "none" /\ answer'[i] = "none" /\ sent'[i] = 0
    BY <1>3, <2>1, <2>6 DEF Turns
  <2>8. Turns'
    BY <2>2, <2>3, <2>4, <2>5, <2>7, <1>3 DEF Turns
  <2>9. sect' \in [Job -> Nat] /\ sent' \in [Job -> Nat]
    BY <2>1 DEF TypeOK
  <2>10. answer' \in [Job -> {"none", "ok", "printer", "input", "server"}]
    BY <1>6, <2>1 DEF TypeOK
  <2>11. /\ pc' \in [Thread -> {"idle", "want", "open", "reset", "reopen", "body"}]
         /\ job' \in [Thread -> Job \cup {0}]
    BY <2>1 DEF TypeOK
  <2> QED BY <1>3, <1>4, <1>5, <2>8, <2>9, <2>10, <2>11
<1> QED BY <1>7, <1>8

\* What a piece leaves behind.
LEMMA EmitType ==
  ASSUME TypeOK, NEW j \in Job, NEW p \in Piece, Emit(j, p)
  PROVE  /\ roll' \in Seq([job : Job, piece : OnPaper])
         /\ lamp' \in Job \cup {Unset, Dark}
<1>1. lamp' \in Job \cup {Unset, Dark}
  BY DEF TypeOK, Emit
<1>2. CASE p \in OnPaper
  <2>1. [job |-> j, piece |-> p] \in [job : Job, piece : OnPaper]
    BY <1>2
  <2> QED BY <1>1, <1>2, <2>1, AppendProperties DEF TypeOK, Emit
<1>3. CASE p \notin OnPaper
  BY <1>1, <1>3 DEF TypeOK, Emit
<1> QED BY <1>2, <1>3

\* A step that leaves the printer, and nothing else but the device.
LEMMA LeaveStep ==
  ASSUME IInv, NEW t \in Thread, pc[t] \in Printing, NEW o \in Outcome, Leave(t, o),
         UNCHANGED <<roll, lamp, resets>>, dev' \in {"on", "wedged", "gone"}, epoch' \in Nat,
         struck' \in SUBSET Job, faults' \in 0..MaxFaults
  PROVE  IInv'
  BY LeaveTurns DEF IInv, TypeOK

LEMMA TurnsStep == ASSUME IInv, [Next]_vars PROVE IInv'
<1> USE DEF IInv
<1>1. ASSUME UNCHANGED <<lock, pc, job, kind, sect, sent, answer, begun>> PROVE Turns'
  BY <1>1 DEF Turns, Body
<1>2. ASSUME NEW t \in Thread, NEW k \in Kinds, Begin(t, k) PROVE IInv'
  <2> DEFINE j == begun + 1
  <2>1. /\ pc[t] = "idle" /\ begun < MaxJobs /\ begun' = j /\ job' = [job EXCEPT ![t] = j]
        /\ kind' = [kind EXCEPT ![j] = k] /\ sect' = [sect EXCEPT ![j] = 1]
        /\ pc' = [pc EXCEPT ![t] = "want"]
        /\ UNCHANGED <<lock, handle, dev, epoch, ok, sent, answer, log, roll, lamp, struck,
                       faults, resets>>
    BY <1>2 DEF Begin
  <2>2. j \in Job /\ j > begun /\ begun \in Nat
    BY <2>1, BoundAssumption DEF TypeOK
  <2>3. kind[j] = "none" /\ answer[j] = "none" /\ sent[j] = 0
    BY <2>2 DEF Turns
  <2>4. k \in KindName /\ Len(Plan(k)) >= 1 /\ Len(Plan(k)) \in Nat /\ Plan(k) \in Seq(Seq(Piece))
    BY KindAssumption, PlanShape, LenProperties
  <2>5. \A u \in Thread : u # t => pc'[u] = pc[u] /\ job'[u] = job[u]
    BY <2>1 DEF TypeOK
  <2>6. pc'[t] = "want" /\ job'[t] = j
    BY <2>1 DEF TypeOK
  <2>7. /\ \A u \in Thread : lock' = u <=> pc'[u] \in Printing
        /\ \A u \in Thread : job'[u] = 0 <=> pc'[u] = "idle"
    BY <2>1, <2>2, <2>5, <2>6 DEF Turns, Printing
  <2>8. \A u \in Thread : job'[u] # 0 => job'[u] <= begun' /\ answer'[job'[u]] = "none"
    BY <2>1, <2>2, <2>3, <2>5, <2>6 DEF Turns, TypeOK
  <2>9. \A u, v \in Thread : job'[u] = job'[v] /\ job'[u] # 0 => u = v
    BY <2>1, <2>2, <2>5, <2>6 DEF Turns, TypeOK
  <2>10. \A u \in Thread : pc'[u] \in {"want", "open", "reset", "reopen"} => sent'[job'[u]] = 0
    BY <2>1, <2>3, <2>5, <2>6 DEF Turns
  <2>11. ASSUME NEW i \in Job
         PROVE  IF i <= begun'
                THEN /\ kind'[i] \in Kinds /\ sect'[i] \in 1..Len(Plan(kind'[i]))
                     /\ sent'[i] \in 0..Len(Body(i)')
                ELSE kind'[i] = "none" /\ answer'[i] = "none" /\ sent'[i] = 0
    <3>1. CASE i = j
      <4>1. kind'[i] = k /\ sect'[i] = 1 /\ sent'[i] = 0 /\ i <= begun'
        BY <2>1, <2>2, <2>3, <3>1 DEF TypeOK
      <4>2. Len(Body(i)') \in Nat
        <5>1. Body(i)' \in Seq(Piece)
          BY <2>4, <4>1, ElementOfSeq DEF Body
        <5> QED BY <5>1, LenProperties
      <4> QED BY <2>4, <4>1, <4>2
    <3>2. CASE i # j
      <4>1. kind'[i] = kind[i] /\ sect'[i] = sect[i] /\ (i <= begun' <=> i <= begun)
            /\ Body(i)' = Body(i)
        BY <2>1, <2>2, <3>2 DEF TypeOK, Body
      <4> QED BY <2>1, <4>1 DEF Turns
    <3> QED BY <3>1, <3>2
  <2>12. Turns'
    BY <2>7, <2>8, <2>9, <2>10, <2>11 DEF Turns
  <2>13. TypeOK'
    BY <2>1, <2>2 DEF TypeOK
  <2> QED BY <2>12, <2>13
<1>3. ASSUME NEW t \in Thread, Acquire(t) PROVE IInv'
  <2>1. /\ pc[t] = "want" /\ lock = NoThread /\ lock' = t /\ pc' = [pc EXCEPT ![t] = "open"]
        /\ UNCHANGED <<job, handle, dev, epoch, ok, kind, sect, sent, answer, log, roll, lamp,
                       begun, faults, resets>>
    BY <1>3 DEF Acquire, Free
  <2>2. struck' \in SUBSET Job
    <3>1. job[t] \in Job
      BY <2>1, JobOf
    <3> QED BY <1>3, <3>1 DEF Acquire, TypeOK
  <2>3. TypeOK'
    BY <2>1, <2>2 DEF TypeOK
  <2>4. \A u \in Thread : pc'[u] = IF u = t THEN "open" ELSE pc[u]
    BY <2>1 DEF TypeOK
  <2>5. \A j \in Job : Body(j)' = Body(j)
    BY <2>1 DEF Body
  <2>6. \A u \in Thread : lock' = u <=> pc'[u] \in Printing
    BY <2>1, <2>4, ThreadAssumption DEF Turns, Printing
  <2>7. Turns'
    BY <2>1, <2>4, <2>5, <2>6 DEF Turns
  <2> QED BY <2>3, <2>7
\* A step from one place at the printer to another.
<1>4. ASSUME NEW t \in Thread, NEW p \in Printing, pc[t] \in Printing \ {"body"}, pc' = [pc EXCEPT ![t] = p],
             UNCHANGED <<lock, job, kind, sect, sent, answer, begun>>
      PROVE  Turns'
  <2>1. \A u \in Thread : pc'[u] = IF u = t THEN p ELSE pc[u]
    BY <1>4 DEF TypeOK
  <2>2. \A j \in Job : Body(j)' = Body(j)
    BY <1>4 DEF Body
  <2>3. \A u \in Thread : lock' = u <=> pc'[u] \in Printing
    BY <1>4, <2>1 DEF Turns
  <2>4. \A u \in Thread : job'[u] = 0 <=> pc'[u] = "idle"
    BY <1>4, <2>1 DEF Turns, Printing
  <2>5. \A u \in Thread : pc'[u] \in {"want", "open", "reset", "reopen"} => sent'[job'[u]] = 0
    BY <1>4, <2>1 DEF Turns, Printing
  <2> QED BY <1>4, <2>2, <2>3, <2>4, <2>5 DEF Turns
<1>5. ASSUME NEW t \in Thread, Open(t) PROVE IInv'
  <2>1. \E p \in {"body", "reset"} : pc' = [pc EXCEPT ![t] = p]
    BY <1>5 DEF Open
  <2>2. Turns'
    BY <1>4, <1>5, <2>1 DEF Open, Printing
  <2>3. TypeOK'
    BY <1>5, <2>1 DEF Open, TypeOK
  <2> QED BY <2>2, <2>3
<1>6. ASSUME NEW t \in Thread, OpenRefused(t) PROVE IInv'
  <2>1. pc[t] \in Printing /\ "refused" \in Outcome /\ pc[t] # "idle"
    BY <1>6 DEF OpenRefused, Printing, Outcome
  <2>2. struck' \in SUBSET Job
    BY <1>6, <2>1, JobOf DEF OpenRefused, TypeOK
  <2>3. faults' \in 0..MaxFaults
    BY <1>6, BoundAssumption DEF OpenRefused, TypeOK
  <2> QED BY <1>6, <2>1, <2>2, <2>3, LeaveStep DEF OpenRefused, TypeOK
<1>7. ASSUME NEW t \in Thread, Reset(t) PROVE IInv'
  <2>1. CASE Leave(t, "noopen") /\ UNCHANGED <<dev, epoch>>
    <3>1. pc[t] \in Printing /\ "noopen" \in Outcome
      BY <1>7 DEF Reset, Printing, Outcome
    <3> QED BY <1>7, <2>1, <3>1, LeaveStep DEF Reset, TypeOK
  <2>2. CASE Enumerated /\ pc' = [pc EXCEPT ![t] = "reopen"]
             /\ UNCHANGED <<lock, job, handle, ok, jobVars, log, begun>>
    <3>1. Turns'
      BY <1>4, <1>7, <2>2 DEF Reset, Printing
    <3>2. TypeOK'
      BY <1>7, <2>2 DEF Reset, Enumerated, TypeOK
    <3> QED BY <3>1, <3>2
  <2> QED BY <1>7, <2>1, <2>2 DEF Reset
<1>8. ASSUME NEW t \in Thread, Reopen(t) PROVE IInv'
  <2>1. CASE Leave(t, "noopen")
    <3>1. pc[t] \in Printing /\ "noopen" \in Outcome
      BY <1>8 DEF Reopen, Printing, Outcome
    <3> QED BY <1>8, <2>1, <3>1, LeaveStep DEF Reopen, TypeOK
  <2>2. CASE /\ pc' = [pc EXCEPT ![t] = "body"] /\ handle' = [handle EXCEPT ![t] = epoch]
             /\ UNCHANGED <<lock, job, ok, jobVars, log, begun>>
    <3>1. Turns'
      BY <1>4, <1>8, <2>2 DEF Reopen, Printing
    <3>2. TypeOK'
      BY <1>8, <2>2 DEF Reopen, TypeOK
    <3> QED BY <3>1, <3>2
  <2> QED BY <1>8, <2>1, <2>2 DEF Reopen
<1>9. ASSUME NEW t \in Thread, Send(t) PROVE IInv'
  <2> DEFINE j == job[t]
             p == Body(j)[sent[j] + 1]
  <2>1. /\ pc[t] = "body" /\ j \in Job /\ j <= begun /\ j # 0
        /\ sent[j] < Len(Body(j)) /\ pc[t] \in Printing
    BY <1>9, JobOf DEF Send, Printing
  <2>2. Body(j) \in Seq(Piece) /\ Len(Body(j)) \in Nat /\ sent[j] \in Nat
    BY <2>1, BodyType DEF TypeOK
  <2>3. p \in Piece
    BY <2>1, <2>2, ElementOfSeq
  <2>4. CASE Leave(t, "lost") /\ UNCHANGED outVars
    <3>1. "lost" \in Outcome
      BY DEF Outcome
    <3> QED BY <1>9, <2>1, <2>4, <3>1, LeaveStep DEF Send, TypeOK
  <2>5. CASE /\ Emit(j, p) /\ sent' = [sent EXCEPT ![j] = @ + 1]
             /\ UNCHANGED <<lock, pc, job, handle, ok, kind, sect, answer, log, begun>>
    <3>1. \A i \in Job : sent'[i] = IF i = j THEN sent[i] + 1 ELSE sent[i]
      BY <2>5 DEF TypeOK
    <3>2. \A i \in Job : Body(i)' = Body(i)
      BY <2>5 DEF Body
    <3>3. \A u \in Thread : pc'[u] \in {"want", "open", "reset", "reopen"} => sent'[job'[u]] = 0
      <4>1. ASSUME NEW u \in Thread, pc[u] \in {"want", "open", "reset", "reopen"}
            PROVE  sent'[job[u]] = 0
        <5>1. u # t /\ pc[u] # "idle" /\ sent[job[u]] = 0
          BY <2>1, <4>1 DEF Turns
        <5>2. job[u] # j /\ job[u] \in Job
          BY <2>1, <5>1, JobOf DEF Turns
        <5> QED BY <3>1, <5>1, <5>2
      <4> QED BY <2>5, <4>1
    <3>4. \A i \in Job :
            IF i <= begun
            THEN kind[i] \in Kinds /\ sect[i] \in 1..Len(Plan(kind[i])) /\ sent'[i] \in 0..Len(Body(i))
            ELSE kind[i] = "none" /\ answer[i] = "none" /\ sent'[i] = 0
      BY <2>1, <2>2, <3>1 DEF Turns
    <3>5. Turns'
      BY <2>5, <3>2, <3>3, <3>4 DEF Turns
    <3>6. sent' \in [Job -> Nat]
      BY <2>1, <2>2, <2>5 DEF TypeOK
    <3>7. TypeOK'
      BY <1>9, <2>1, <2>3, <2>5, <3>6, EmitType DEF Send, TypeOK
    <3> QED BY <3>5, <3>7
  <2> QED BY <1>9, <2>4, <2>5 DEF Send
<1>10. ASSUME NEW t \in Thread, BodyRaises(t) PROVE IInv'
  <2>1. pc[t] \in Printing /\ {"input", "server"} \subseteq Outcome
    BY <1>10 DEF BodyRaises, Printing, Outcome
  <2>2. faults' \in 0..MaxFaults
    BY <1>10, BoundAssumption DEF BodyRaises, TypeOK
  <2> QED BY <1>10, <2>1, <2>2, LeaveStep DEF BodyRaises, TypeOK
<1>11. ASSUME NEW t \in Thread, Finish(t) PROVE IInv'
  <2>1. pc[t] \in Printing /\ "done" \in Outcome
    BY <1>11 DEF Finish, Printing, Outcome
  <2> QED BY <1>11, <2>1, LeaveStep DEF Finish, TypeOK
<1>12. AtPrinter \subseteq Job
  BY JobOf DEF AtPrinter
<1>13. CASE Fault \/ Replug \/ OwnerReset
  <2>1. Turns'
    BY <1>1, <1>13 DEF Fault, Replug, OwnerReset
  <2>2. TypeOK'
    <3>1. CASE Fault
      BY <1>12, <3>1, BoundAssumption DEF Fault, TypeOK
    <3>2. CASE Replug
      BY <3>2 DEF Replug, Enumerated, TypeOK
    <3>3. CASE OwnerReset
      <4>1. struck' \in SUBSET Job
        BY <1>12, <3>3 DEF OwnerReset, TypeOK
      <4>2. resets' \in 0..MaxResets /\ epoch' \in Nat /\ dev' = "on"
        BY <3>3, BoundAssumption DEF OwnerReset, Enumerated, TypeOK
      <4> QED BY <3>3, <4>1, <4>2 DEF OwnerReset, TypeOK
    <3> QED BY <1>13, <3>1, <3>2, <3>3
  <2> QED BY <2>1, <2>2
<1>14. CASE Quiesced \/ UNCHANGED vars
  <2>1. UNCHANGED vars
    BY <1>14 DEF Quiesced
  <2> QED BY <1>1, <2>1 DEF TypeOK, vars
<1> QED BY <1>2, <1>3, <1>5, <1>6, <1>7, <1>8, <1>9, <1>10, <1>11, <1>13, <1>14 DEF Next, Step

\* Whatever threads, faults and resets do, every reachable state is well typed
\* and the turns at the printer are kept (open_printer, _last_ok, _safe).
THEOREM TypeCorrect == Spec => [](TypeOK /\ Turns)
<1>1. IInv /\ [Next]_vars => IInv'
  BY TurnsStep
<1> QED BY <1>1, InitTurns, PTL DEF Spec, IInv

-----------------------------------------------------------------------------
(* What a step does to the jobs                                            *)

\* A job's next piece goes out.
Writes(t) ==
  LET j == job[t]  p == Body(j)[sent[j] + 1] IN
  /\ pc[t] = "body" /\ sent[j] < Len(Body(j))
  /\ Emit(j, p) /\ sent' = [sent EXCEPT ![j] = @ + 1]
  /\ UNCHANGED <<lock, pc, job, handle, ok, kind, sect, answer, log, begun>>

\* A section comes to an end.
Ends(t, o) ==
  /\ pc[t] \in Printing /\ Leave(t, o) /\ UNCHANGED outVars
  /\ o = "done" => pc[t] = "body" /\ Whole(job[t])

\* Nothing but the way to the body and the device.
Moves ==
  /\ UNCHANGED <<job, jobVars, log, ok, outVars, begun>>
  /\ \A t \in Thread : pc[t] = "body" => pc'[t] = "body"
  /\ UNCHANGED lock \/ \E t \in Thread : Acquire(t)

LEMMA Ways ==
  ASSUME IInv, [Next]_vars
  PROVE  \/ \E t \in Thread, k \in Kinds : Begin(t, k)
         \/ \E t \in Thread : Writes(t)
         \/ \E t \in Thread, o \in Outcome : Ends(t, o)
         \/ Moves
<1> USE DEF IInv
<1>1. {"done", "noopen", "lost", "refused", "input", "server"} \subseteq Outcome
  BY DEF Outcome
<1>2. ASSUME NEW t \in Thread, NEW p \in Printing, pc[t] # "body", pc' = [pc EXCEPT ![t] = p]
      PROVE  \A u \in Thread : pc[u] = "body" => pc'[u] = "body"
  BY <1>2 DEF TypeOK
<1>3. ASSUME NEW t \in Thread, Acquire(t) PROVE Moves
  BY <1>2, <1>3 DEF Acquire, Moves, Printing
<1>4. ASSUME NEW t \in Thread, Open(t) PROVE Moves
  BY <1>2, <1>4 DEF Open, Moves, Printing
<1>5. ASSUME NEW t \in Thread, OpenRefused(t) PROVE Ends(t, "refused")
  BY <1>5 DEF OpenRefused, Ends, Printing
<1>6. ASSUME NEW t \in Thread, Reset(t) PROVE Moves \/ Ends(t, "noopen")
  BY <1>2, <1>6 DEF Reset, Moves, Ends, Printing
<1>7. ASSUME NEW t \in Thread, Reopen(t) PROVE Moves \/ Ends(t, "noopen")
  BY <1>2, <1>7 DEF Reopen, Moves, Ends, Printing
<1>8. ASSUME NEW t \in Thread, Send(t) PROVE Writes(t) \/ Ends(t, "lost")
  BY <1>8 DEF Send, Writes, Ends, Printing
<1>9. ASSUME NEW t \in Thread, BodyRaises(t) PROVE Ends(t, "input") \/ Ends(t, "server")
  BY <1>9 DEF BodyRaises, Ends, Printing
<1>10. ASSUME NEW t \in Thread, Finish(t) PROVE Ends(t, "done")
  BY <1>10 DEF Finish, Ends, Printing
<1>11. CASE Fault \/ Replug \/ OwnerReset
  BY <1>11 DEF Fault, Replug, OwnerReset, Moves
<1>12. CASE Quiesced \/ UNCHANGED vars
  BY <1>12 DEF Quiesced, Moves, vars
<1>13. ASSUME NEW t \in Thread, Step(t) \/ OpenRefused(t) \/ BodyRaises(t)
       PROVE  Moves \/ Writes(t) \/ \E o \in Outcome : Ends(t, o)
  BY <1>1, <1>3, <1>4, <1>5, <1>6, <1>7, <1>8, <1>9, <1>10, <1>13 DEF Step
<1> QED BY <1>11, <1>12, <1>13 DEF Next

-----------------------------------------------------------------------------
(* The banner                                                              *)

LEMMA BannerStep == ASSUME IInv, BannerIsCurrent, [Next]_vars PROVE BannerIsCurrent'
<1>1. CASE UNCHANGED <<log, ok>>
  BY <1>1 DEF BannerIsCurrent
<1>2. ASSUME NEW t \in Thread, NEW o \in Outcome, Ends(t, o) PROVE BannerIsCurrent'
  <2> DEFINE e == [job |-> job[t], outcome |-> o]
             n == Len(log)
             Seen == {i \in DOMAIN log : Decisive(log[i].outcome)}
  <2>1. log' = Append(log, e) /\ ok' = Marked(o)
    BY <1>2 DEF Ends, Leave
  <2>2. /\ n \in Nat /\ DOMAIN log = 1..n
        /\ log \in Seq([job : Job, outcome : Outcome])
    BY LenProperties DEF IInv, TypeOK
  <2>3. e \in [job : Job, outcome : Outcome]
    BY <1>2, JobOf DEF Ends, Printing
  <2>4. /\ DOMAIN log' = 1..(n + 1) /\ log'[n + 1] = e
        /\ \A i \in 1..n : log'[i] = log[i]
    BY <2>1, <2>2, <2>3, AppendProperties, LenProperties
  <2>5. e.outcome = o
    OBVIOUS
  <2>6. CASE Decisive(o)
    <3>1. ok' <=> o = "done"
      BY <2>1, <2>6 DEF Marked, Decisive
    <3>2. BannerIsCurrent' <=> (ok' <=> log'[n + 1].outcome = "done")
      BY <2>2, <2>4, <2>5, <2>6 DEF BannerIsCurrent
    <3> QED BY <2>4, <2>5, <3>1, <3>2
  <2>7. CASE ~Decisive(o)
    <3>1. ok' = ok
      BY <2>1, <2>7 DEF Marked, Decisive
    <3>2. {i \in DOMAIN log' : Decisive(log'[i].outcome)} = Seen
      BY <2>2, <2>4, <2>5, <2>7
    <3>3. \A i \in Seen : log'[i].outcome = log[i].outcome
      BY <2>2, <2>4
    <3> HIDE DEF Seen
    <3>4. (\A i \in Seen : (\A k \in Seen : k <= i) => log'[i].outcome = "done")
          <=> (\A i \in Seen : (\A k \in Seen : k <= i) => log[i].outcome = "done")
      BY <3>3
    <3>5. ok <=> (\A i \in Seen : (\A k \in Seen : k <= i) => log[i].outcome = "done")
      BY DEF BannerIsCurrent, Seen
    <3>6. ok' <=> (\A i \in Seen : (\A k \in Seen : k <= i) => log'[i].outcome = "done")
      BY <3>1, <3>4, <3>5
    <3> QED BY <3>2, <3>6 DEF BannerIsCurrent
  <2> QED BY <2>6, <2>7
<1>3. \A t \in Thread : Writes(t) => UNCHANGED <<log, ok>>
  BY DEF Writes
<1>4. \A t \in Thread, k \in Kinds : Begin(t, k) => UNCHANGED <<log, ok>>
  BY DEF Begin
<1>5. Moves => UNCHANGED <<log, ok>>
  BY DEF Moves
<1> QED BY <1>1, <1>2, <1>3, <1>4, <1>5, Ways

\* The friends page never shows "offline" after a later section that went
\* through, nor "ok" after one that proved the printer gone, for any number of
\* threads that mark it (_mark under the lock, printer_ok).
THEOREM BannerCurrent == Spec => []BannerIsCurrent
<1>1. Init => BannerIsCurrent
  BY DEF Init, BannerIsCurrent
<1>2. IInv /\ BannerIsCurrent /\ [Next]_vars => BannerIsCurrent'
  BY BannerStep
<1> QED BY <1>1, <1>2, TypeCorrect, PTL DEF Spec, IInv

-----------------------------------------------------------------------------
(* The LED                                                                 *)

\* Whoever left the LED dark is a blink that has still to light it, or failed.
StillOwes(j) ==
  /\ kind[j] = "blink" /\ answer[j] # "ok"
  /\ (sect[j] = 2 \/ (sect[j] = 3 /\ sent[j] = 0))

DarkOwed == lamp = Dark => \E j \in Job : StillOwes(j)

\* The three sections of a blink.
LEMMA BlinkBody ==
  ASSUME IInv, NEW j \in Job, kind[j] = "blink"
  PROVE  /\ j <= begun /\ Len(Body(j)) = 1 /\ Len(Plan(kind[j])) = 3 /\ sect[j] \in 1..3
         /\ Body(j)[1] = IF sect[j] = 2 THEN "dark" ELSE "lamp"
<1>1. j <= begun /\ sect[j] \in 1..Len(Plan(kind[j]))
  BY KindAssumption DEF IInv, Turns, TypeOK, KindName
<1>2. Plan(kind[j]) = << <<"lamp">>, <<"dark">>, <<"lamp">> >>
  BY PlanShape DEF KindName
<1> QED BY <1>1, <1>2 DEF Body

LEMMA DarkStep == ASSUME IInv, DarkOwed, [Next]_vars PROVE DarkOwed'
<1> USE DEF IInv
<1>1. CASE UNCHANGED <<lamp, kind, answer, sect, sent>>
  BY <1>1 DEF DarkOwed, StillOwes
<1>2. ASSUME NEW t \in Thread, NEW k \in Kinds, Begin(t, k) PROVE DarkOwed'
  <2>1. lamp' = lamp /\ answer' = answer /\ sent' = sent /\ begun + 1 \in Job /\ begun \in Nat
    BY <1>2, BoundAssumption DEF Begin, TypeOK
  <2>2. kind[begun + 1] = "none"
    BY <2>1 DEF Turns
  <2>3. \A j \in Job : j # begun + 1 => kind'[j] = kind[j] /\ sect'[j] = sect[j]
    BY <1>2 DEF Begin, TypeOK
  <2> QED BY <2>1, <2>2, <2>3 DEF DarkOwed, StillOwes
<1>3. ASSUME NEW t \in Thread, Writes(t) PROVE DarkOwed'
  <2> DEFINE j == job[t]
             p == Body(j)[sent[j] + 1]
  <2>1. j \in Job /\ j <= begun /\ answer[j] = "none"
    BY <1>3, JobOf DEF Writes
  <2>2. /\ lamp' = CASE p = "lamp" -> j [] p = "dark" -> Dark [] OTHER -> lamp
        /\ sent[j] < Len(Body(j)) /\ UNCHANGED <<kind, answer, sect>>
        /\ sent' = [sent EXCEPT ![j] = @ + 1]
    BY <1>3 DEF Writes, Emit
  <2>3. sent[j] \in Nat /\ Body(j) \in Seq(Piece) /\ Len(Body(j)) \in Nat
    BY <2>1, BodyType DEF TypeOK
  <2>4. CASE kind[j] = "blink"
    <3>1. sent[j] = 0 /\ p = IF sect[j] = 2 THEN "dark" ELSE "lamp"
      BY <2>1, <2>2, <2>3, <2>4, BlinkBody
    <3>2. CASE sect[j] = 2
      BY <2>1, <2>2, <2>4, <3>2 DEF DarkOwed, StillOwes
    <3>3. CASE sect[j] # 2
      <4>1. lamp' = j /\ j # Dark
        BY <2>1, <2>2, <3>1, <3>3
      <4> QED BY <4>1 DEF DarkOwed, StillOwes
    <3> QED BY <3>2, <3>3
  <2>5. CASE kind[j] # "blink"
    <3>1. Body(j) \in Seq(Piece \ {"lamp", "dark"})
      <4>1. kind[j] \in KindName /\ sect[j] = 1
        BY <2>1, <2>5, BodyType
      <4> QED BY <2>5, <4>1, PlanShape DEF Body
    <3>2. p \notin {"lamp", "dark"}
      BY <2>2, <2>3, <3>1, ElementOfSeq
    <3>3. lamp' = lamp /\ \A i \in Job : i # j => sent'[i] = sent[i]
      BY <2>2, <3>2 DEF TypeOK
    <3> QED BY <2>2, <2>5, <3>3 DEF DarkOwed, StillOwes
  <2> QED BY <2>4, <2>5
<1>4. ASSUME NEW t \in Thread, NEW o \in Outcome, Ends(t, o) PROVE DarkOwed'
  <2> DEFINE j == job[t]
  <2>1. j \in Job /\ j <= begun /\ kind' = kind /\ lamp' = lamp
    BY <1>4, JobOf DEF Ends, Leave, Printing
  <2>2. SUFFICES ASSUME lamp = Dark PROVE DarkOwed'
    BY <2>1 DEF DarkOwed, StillOwes
  <2>3. PICK i \in Job : StillOwes(i)
    BY <2>2 DEF DarkOwed
  <2>4. CASE i # j
    <3>1. answer'[i] = answer[i] /\ sect'[i] = sect[i] /\ sent'[i] = sent[i]
      BY <1>4, <2>4 DEF Ends, Leave, TypeOK
    <3> QED BY <2>1, <2>3, <3>1 DEF DarkOwed, StillOwes
  <2>5. CASE i = j /\ o = "done"
    <3>1. sent[j] = 1 /\ sect[j] = 2 /\ MoreFlashes(j)
      <4>1. kind[j] = "blink" /\ Len(Body(j)) = 1 /\ Len(Plan(kind[j])) = 3
        BY <2>1, <2>3, <2>5, BlinkBody DEF StillOwes
      <4>2. sent[j] = 1
        BY <1>4, <2>5, <4>1 DEF Ends, Whole
      <4>3. sect[j] = 2
        BY <2>3, <2>5, <4>2 DEF StillOwes
      <4>4. sect[j] < Len(Plan(kind[j]))
        <5>1. \A m, n : m = 2 /\ n = 3 => m < n
          OBVIOUS
        <5> QED BY <4>1, <4>3, <5>1
      <4> QED BY <4>2, <4>3, <4>4 DEF MoreFlashes
    <3>2. sect'[j] = 3 /\ sent'[j] = 0 /\ answer'[j] = answer[j]
      <4>1. /\ sect' = [sect EXCEPT ![j] = @ + 1] /\ sent' = [sent EXCEPT ![j] = 0]
            /\ answer' = answer
        BY <1>4, <2>5, <3>1 DEF Ends, Leave
      <4> QED BY <2>1, <3>1, <4>1 DEF TypeOK
    <3> QED BY <2>1, <2>3, <2>5, <3>2 DEF DarkOwed, StillOwes
  <2>6. CASE i = j /\ o # "done"
    <3>1. Reply(o) # "ok"
      BY <2>6 DEF Reply, Outcome
    <3>2. sect'[j] = sect[j] /\ sent'[j] = sent[j] /\ answer'[j] = Reply(o)
      BY <1>4, <2>1, <2>6 DEF Ends, Leave, TypeOK
    <3> QED BY <2>1, <2>3, <2>6, <3>1, <3>2 DEF DarkOwed, StillOwes
  <2> QED BY <2>4, <2>5, <2>6
<1>5. Moves => UNCHANGED <<lamp, kind, answer, sect, sent>>
  BY DEF Moves
<1> QED BY <1>1, <1>2, <1>3, <1>4, <1>5, Ways

\* Of any number of blinks whose flashes interleave, none that is answered "ok"
\* can be the reason for a dark LED (hw_led: three sections, the lock free between).
THEOREM LedIsLit == Spec => []LedNotLeftDark
<1>1. Init => DarkOwed
  BY DEF Init, DarkOwed
<1>2. IInv /\ DarkOwed /\ [Next]_vars => DarkOwed'
  BY DarkStep
<1>3. DarkOwed => LedNotLeftDark
  BY DEF DarkOwed, StillOwes, LedNotLeftDark
<1> QED BY <1>1, <1>2, <1>3, TypeCorrect, PTL DEF Spec, IInv

-----------------------------------------------------------------------------
(* The device                                                              *)

\* What a thread at the printer knows of the device, unless a fault or the
\* owner's reset struck it there.
Untroubled(t) ==
  /\ pc[t] \in {"open", "reset"} => dev # "gone"
  /\ pc[t] = "reopen" => dev = "on"
  /\ pc[t] = "body" => Writable(t)

Healed ==
  /\ \A t \in Thread : pc[t] \in Printing => job[t] \in struck \/ Untroubled(t)
  /\ WedgeIsHealed

\* An answer "printer" needs a stroke.
LEMMA HealedLeave ==
  ASSUME IInv, Healed, NEW t \in Thread, NEW o \in Outcome, pc[t] \in Printing, Leave(t, o),
         struck \subseteq struck', o \in {"noopen", "lost", "refused"} => job[t] \in struck'
  PROVE  Healed'
<1> DEFINE j == job[t]
<1>1. \A u \in Thread : pc'[u] \notin Printing
  <2>1. lock' = NoThread /\ Turns'
    BY LeaveTurns
  <2> QED BY <2>1, ThreadAssumption DEF Turns
<1>2. j \in Job
  BY JobOf DEF Printing
<1>3. ASSUME NEW i \in Job, answer'[i] = "printer" PROVE i \in struck'
  <2>1. CASE answer[i] = "printer"
    BY <2>1 DEF Healed, WedgeIsHealed
  <2>2. CASE answer[i] # "printer"
    <3>1. answer' = [answer EXCEPT ![j] = Reply(o)]
      BY <1>3, <2>2 DEF Leave
    <3>2. i = j /\ Reply(o) = "printer"
      BY <1>2, <1>3, <2>2, <3>1 DEF IInv, TypeOK
    <3>3. o \in {"noopen", "lost", "refused"}
      BY <3>2 DEF Reply, Outcome
    <3> QED BY <3>2, <3>3
  <2> QED BY <2>1, <2>2
<1> QED BY <1>1, <1>3 DEF Healed, WedgeIsHealed

LEMMA HealedStep == ASSUME IInv, Healed, [Next]_vars PROVE Healed'
<1> USE DEF IInv
\* Only the holder of the lock is at the printer.
<1>1. ASSUME NEW t \in Thread, NEW u \in Thread, pc[t] \in Printing, u # t
      PROVE  pc[u] \notin Printing
  BY <1>1 DEF Turns
<1>2. ASSUME UNCHANGED <<answer, struck>>,
             \A t \in Thread : pc'[t] \in Printing =>
               pc[t] \in Printing /\ job'[t] = job[t] /\ (Untroubled(t) => Untroubled(t)')
      PROVE  Healed'
  BY <1>2 DEF Healed, WedgeIsHealed
<1>3. ASSUME NEW t \in Thread, NEW k \in Kinds, Begin(t, k) PROVE Healed'
  <2>1. \A u \in Thread : pc'[u] \in Printing => pc'[u] = pc[u] /\ job'[u] = job[u]
    BY <1>3 DEF Begin, TypeOK, Printing
  <2>2. UNCHANGED <<answer, struck, dev, epoch, handle>>
    BY <1>3 DEF Begin
  <2>3. \A u \in Thread : pc'[u] \in Printing =>
          pc[u] \in Printing /\ job'[u] = job[u] /\ (Untroubled(u) => Untroubled(u)')
    BY <2>1, <2>2 DEF Untroubled, Writable
  <2> QED BY <1>2, <2>2, <2>3
<1>4. ASSUME NEW t \in Thread, Acquire(t) PROVE Healed'
  <2>1. /\ lock = NoThread /\ pc' = [pc EXCEPT ![t] = "open"] /\ job' = job /\ dev' = dev
        /\ answer' = answer /\ struck \subseteq struck'
        /\ dev = "gone" => job[t] \in struck'
    BY <1>4 DEF Acquire, Free
  <2>2. \A u \in Thread : pc'[u] \in Printing => u = t /\ pc'[u] = "open"
    BY <2>1, ThreadAssumption DEF TypeOK, Turns
  <2>3. \A u \in Thread : pc'[u] \in Printing => job'[u] \in struck' \/ Untroubled(u)'
    BY <2>1, <2>2 DEF Untroubled
  <2> QED BY <2>1, <2>3 DEF Healed, WedgeIsHealed
\* The holder goes on; nobody else is there to be disturbed.
<1>5. ASSUME NEW t \in Thread, NEW p \in Printing, pc[t] \in Printing, pc' = [pc EXCEPT ![t] = p],
             UNCHANGED <<job, answer, struck>>, job[t] \in struck \/ Untroubled(t)'
      PROVE  Healed'
  <2>1. \A u \in Thread : pc'[u] \in Printing => u = t
    BY <1>1, <1>5 DEF TypeOK
  <2> QED BY <1>5, <2>1 DEF Healed, WedgeIsHealed
<1>6. ASSUME NEW t \in Thread, Open(t) PROVE Healed'
  <2>1. pc[t] \in Printing /\ pc[t] = "open" /\ UNCHANGED <<job, answer, struck, dev, epoch>>
    BY <1>6 DEF Open, Printing
  <2>2. CASE dev = "on"
    <3>1. pc' = [pc EXCEPT ![t] = "body"] /\ handle' = [handle EXCEPT ![t] = epoch]
      BY <1>6, <2>2 DEF Open
    <3>2. Untroubled(t)'
      BY <2>1, <2>2, <3>1 DEF Untroubled, Writable, TypeOK
    <3> QED BY <1>5, <2>1, <3>1, <3>2 DEF Printing
  <2>3. CASE dev # "on"
    <3>1. pc' = [pc EXCEPT ![t] = "reset"]
      BY <1>6, <2>3 DEF Open
    <3>2. job[t] \in struck \/ Untroubled(t)'
      BY <2>1, <3>1 DEF Healed, Untroubled, TypeOK
    <3> QED BY <1>5, <2>1, <3>1, <3>2 DEF Printing
  <2> QED BY <2>2, <2>3
<1>7. ASSUME NEW t \in Thread, OpenRefused(t) PROVE Healed'
  <2>1. pc[t] \in Printing /\ "refused" \in Outcome /\ struck' = struck \cup {job[t]}
    BY <1>7 DEF OpenRefused, Printing, Outcome
  <2> QED BY <1>7, <2>1, HealedLeave DEF OpenRefused
<1>8. ASSUME NEW t \in Thread, Reset(t) PROVE Healed'
  <2>1. pc[t] = "reset" /\ pc[t] \in Printing /\ struck' = struck /\ "noopen" \in Outcome
    BY <1>8 DEF Reset, Printing, Outcome
  <2>2. CASE dev = "gone" /\ Leave(t, "noopen")
    BY <2>1, <2>2, HealedLeave DEF Healed, Untroubled
  <2>3. CASE /\ Enumerated /\ pc' = [pc EXCEPT ![t] = "reopen"]
             /\ UNCHANGED <<lock, job, handle, ok, jobVars, log, begun>>
    <3>1. Untroubled(t)'
      BY <2>3 DEF Untroubled, Enumerated, TypeOK
    <3> QED BY <1>5, <2>1, <2>3, <3>1 DEF Printing
  <2> QED BY <1>8, <2>2, <2>3 DEF Reset
<1>9. ASSUME NEW t \in Thread, Reopen(t) PROVE Healed'
  <2>1. /\ pc[t] = "reopen" /\ pc[t] \in Printing /\ "noopen" \in Outcome
        /\ UNCHANGED <<dev, epoch, struck>>
    BY <1>9 DEF Reopen, Printing, Outcome
  <2>2. CASE dev # "on" /\ Leave(t, "noopen")
    BY <2>1, <2>2, HealedLeave DEF Healed, Untroubled
  <2>3. CASE /\ dev = "on" /\ pc' = [pc EXCEPT ![t] = "body"]
             /\ handle' = [handle EXCEPT ![t] = epoch]
             /\ UNCHANGED <<lock, job, ok, jobVars, log, begun>>
    <3>1. Untroubled(t)'
      BY <2>1, <2>3 DEF Untroubled, Writable, TypeOK
    <3> QED BY <1>5, <2>1, <2>3, <3>1 DEF Printing
  <2> QED BY <1>9, <2>2, <2>3 DEF Reopen
<1>10. ASSUME NEW t \in Thread, Send(t) PROVE Healed'
  <2>1. pc[t] = "body" /\ pc[t] \in Printing /\ "lost" \in Outcome /\ UNCHANGED <<dev, epoch, struck>>
    BY <1>10 DEF Send, Printing, Outcome
  <2>2. CASE ~Writable(t) /\ Leave(t, "lost")
    BY <2>1, <2>2, HealedLeave DEF Healed, Untroubled
  <2>3. CASE UNCHANGED <<pc, job, handle, answer>>
    BY <1>2, <2>1, <2>3 DEF Untroubled, Writable
  <2> QED BY <1>10, <2>2, <2>3 DEF Send
<1>11. ASSUME NEW t \in Thread, BodyRaises(t) PROVE Healed'
  <2>1. pc[t] \in Printing /\ {"input", "server"} \subseteq Outcome /\ struck' = struck
    BY <1>11 DEF BodyRaises, Printing, Outcome
  <2> QED BY <1>11, <2>1, HealedLeave DEF BodyRaises
<1>12. ASSUME NEW t \in Thread, Finish(t) PROVE Healed'
  <2>1. pc[t] \in Printing /\ "done" \in Outcome /\ struck' = struck
    BY <1>12 DEF Finish, Printing, Outcome
  <2> QED BY <1>12, <2>1, HealedLeave DEF Finish
<1>13. CASE Fault \/ OwnerReset
  <2>1. UNCHANGED <<pc, job, answer>> /\ struck' = struck \cup AtPrinter
    BY <1>13 DEF Fault, OwnerReset
  <2>2. \A t \in Thread : pc'[t] \in Printing => job'[t] \in struck'
    BY <2>1 DEF AtPrinter, Printing
  <2> QED BY <2>1, <2>2 DEF Healed, WedgeIsHealed
<1>14. CASE Replug
  <2>1. dev = "gone" /\ dev' = "on" /\ UNCHANGED <<pc, job, answer, struck>>
    BY <1>14 DEF Replug, Enumerated
  <2>2. \A t \in Thread : pc[t] \in Printing => job[t] \in struck
    BY <2>1 DEF Healed, Untroubled, Writable, Printing
  <2> QED BY <2>1, <2>2 DEF Healed, WedgeIsHealed
<1>15. CASE Quiesced \/ UNCHANGED vars
  BY <1>2, <1>15 DEF Quiesced, vars, Untroubled, Writable
<1> QED BY <1>3, <1>4, <1>6, <1>7, <1>8, <1>9, <1>10, <1>11, <1>12, <1>13, <1>14, <1>15
        DEF Next, Step

\* A wedge that was there before costs no print: only a job that met a fault, or
\* the owner's reset, while it held the lock is told "printer" (open_printer: port
\* reset and one reopen).
THEOREM WedgesAreHealed == Spec => []WedgeIsHealed
<1>1. Init => Healed
  BY DEF Init, Healed, WedgeIsHealed, Printing
<1>2. IInv /\ Healed /\ [Next]_vars => Healed'
  BY HealedStep
<1>3. Healed => WedgeIsHealed
  BY DEF Healed
<1> QED BY <1>1, <1>2, <1>3, TypeCorrect, PTL DEF Spec, IInv

-----------------------------------------------------------------------------
(* Counting what comes out on paper                                        *)

LEMMA PaperType ==
  ASSUME NEW b, NEW n \in Nat
  PROVE  IsFiniteSet({i \in 1..n : b[i] \in OnPaper}) /\ Paper(b, n) \in Nat
<1>1. IsFiniteSet(1..n)
  BY FS_Interval
<1>2. IsFiniteSet({i \in 1..n : b[i] \in OnPaper})
  BY <1>1, FS_Subset
<1> QED BY <1>2, FS_CardinalityType DEF Paper

LEMMA PaperZero == ASSUME NEW b PROVE Paper(b, 0) = 0
<1>1. {i \in 1..0 : b[i] \in OnPaper} = {}
  OBVIOUS
<1> QED BY <1>1, FS_EmptySet DEF Paper

LEMMA PaperNext ==
  ASSUME NEW b, NEW n \in Nat
  PROVE  Paper(b, n + 1) = Paper(b, n) + (IF b[n + 1] \in OnPaper THEN 1 ELSE 0)
<1> DEFINE P(m) == {i \in 1..m : b[i] \in OnPaper}
<1>1. IsFiniteSet(P(n)) /\ Paper(b, n) \in Nat
  BY PaperType
<1>2. CASE b[n + 1] \in OnPaper
  <2>1. P(n + 1) = P(n) \cup {n + 1} /\ n + 1 \notin P(n)
    BY <1>2
  <2>2. Cardinality(P(n) \cup {n + 1}) = Cardinality(P(n)) + 1
    BY <1>1, <2>1, FS_AddElement
  <2> QED BY <1>2, <2>1, <2>2 DEF Paper
<1>3. CASE b[n + 1] \notin OnPaper
  <2>1. P(n + 1) = P(n)
    BY <1>3
  <2> QED BY <1>1, <1>3, <2>1 DEF Paper
<1> QED BY <1>2, <1>3

\* A piece that comes out on paper has its place among the first n.
LEMMA PaperPlace ==
  ASSUME NEW b, NEW n \in Nat, NEW i \in 1..n, b[i] \in OnPaper
  PROVE  Paper(b, i) \in 1..Paper(b, n)
<1>1. i - 1 \in Nat /\ i = (i - 1) + 1
  OBVIOUS
<1>2. /\ Paper(b, i - 1) \in Nat /\ Paper(b, i) \in Nat /\ Paper(b, n) \in Nat
      /\ IsFiniteSet({k \in 1..n : b[k] \in OnPaper})
  <2>1. \A m \in Nat : Paper(b, m) \in Nat /\ IsFiniteSet({k \in 1..m : b[k] \in OnPaper})
    BY PaperType
  <2>2. i \in Nat
    OBVIOUS
  <2> QED BY <1>1, <2>1, <2>2
<1>3. Paper(b, i) = Paper(b, i - 1) + 1
  BY <1>1, PaperNext
<1>4. Paper(b, i) <= Paper(b, n)
  <2>1. {k \in 1..i : b[k] \in OnPaper} \subseteq {k \in 1..n : b[k] \in OnPaper}
    OBVIOUS
  <2> QED BY <1>2, <2>1, FS_Subset DEF Paper
<1> QED BY <1>2, <1>3, <1>4

-----------------------------------------------------------------------------
(* The roll                                                                *)

Block(j) == Plan(kind[j])[1]

\* What a job has sent lies on the roll.  A job without an answer that has
\* something on it is the last there, and still at the printer; one that was told
\* "ok" has sent all of its body.
Rolled ==
  /\ \A l \in DOMAIN roll : LET j == roll[l].job IN
       /\ j <= begun /\ kind[j] # "blink"
       /\ answer[j] = "none" =>
            roll[Len(roll)].job = j /\ \E t \in Thread : pc[t] = "body" /\ job[t] = j
  /\ \A j \in Job, n \in Nat : j <= begun /\ sent[j] = n => Laid(j, n)
  /\ \A j \in Job : answer[j] = "ok" => sent[j] = Len(Block(j))

LEMMA RollGrows ==
  ASSUME IInv, NEW e \in [job : Job, piece : OnPaper], roll' = Append(roll, e)
  PROVE  /\ Len(roll) \in Nat /\ Len(roll') = Len(roll) + 1
         /\ DOMAIN roll = 1..Len(roll) /\ DOMAIN roll' = 1..(Len(roll) + 1)
         /\ roll'[Len(roll) + 1] = e
         /\ \A l \in 1..Len(roll) : roll'[l] = roll[l]
  BY AppendProperties, LenProperties DEF IInv, TypeOK

\* A job that is not the writer's keeps what it has.
LEMMA LaidKept ==
  ASSUME IInv, NEW e \in [job : Job, piece : OnPaper], roll' = Append(roll, e), kind' = kind,
         NEW j \in Job, e.job # j, NEW n \in Nat, Laid(j, n)
  PROVE  Laid(j, n)'
<1> DEFINE b == Block(j)
<1>1. PICK from \in 0..Len(roll) :
        /\ OnRoll(j) = (from + 1)..(from + Paper(b, n))
        /\ \A i \in 1..n : b[i] \in OnPaper => roll[from + Paper(b, i)].piece = b[i]
  BY DEF Laid, Block
<1>2. /\ Len(roll) \in Nat /\ Len(roll') = Len(roll) + 1
      /\ DOMAIN roll = 1..Len(roll) /\ DOMAIN roll' = 1..(Len(roll) + 1)
      /\ roll'[Len(roll) + 1] = e
      /\ \A l \in 1..Len(roll) : roll'[l] = roll[l]
  BY RollGrows
<1>3. OnRoll(j)' = OnRoll(j)
  BY <1>2 DEF OnRoll
<1>4. ASSUME NEW i \in 1..n, b[i] \in OnPaper PROVE roll'[from + Paper(b, i)].piece = b[i]
  <2>1. Paper(b, i) \in 1..Paper(b, n) /\ Paper(b, n) \in Nat
    BY <1>4, PaperPlace, PaperType
  <2>2. from + Paper(b, i) \in OnRoll(j)
    BY <1>1, <2>1
  <2>3. from + Paper(b, i) \in 1..Len(roll)
    BY <1>2, <2>2 DEF OnRoll
  <2> QED BY <1>1, <1>2, <1>4, <2>3
<1>5. \E f \in 0..Len(roll') :
        /\ OnRoll(j)' = (f + 1)..(f + Paper(b, n))
        /\ \A i \in 1..n : b[i] \in OnPaper => roll'[f + Paper(b, i)].piece = b[i]
  <2>1. from \in 0..Len(roll')
    BY <1>2
  <2> HIDE DEF b
  <2> QED BY <1>1, <1>3, <1>4, <2>1
<1> QED BY <1>5 DEF Laid, Block

\* The writer's block grows by what it writes.
LEMMA LaidGrows ==
  ASSUME IInv, NEW j \in Job, NEW n \in Nat, Laid(j, n), kind' = kind,
         roll # <<>> /\ OnRoll(j) # {} => roll[Len(roll)].job = j,
         IF Block(j)[n + 1] \in OnPaper
         THEN roll' = Append(roll, [job |-> j, piece |-> Block(j)[n + 1]])
         ELSE roll' = roll
  PROVE  Laid(j, n + 1)'
<1> DEFINE b == Block(j)
<1>1. PICK from \in 0..Len(roll) :
        /\ OnRoll(j) = (from + 1)..(from + Paper(b, n))
        /\ \A i \in 1..n : b[i] \in OnPaper => roll[from + Paper(b, i)].piece = b[i]
  BY DEF Laid, Block
<1>2. /\ roll \in Seq([job : Job, piece : OnPaper]) /\ Len(roll) \in Nat
      /\ DOMAIN roll = 1..Len(roll)
  BY LenProperties DEF IInv, TypeOK
<1>3. Paper(b, n) \in Nat /\ from \in Nat
  <2>1. Paper(b, n) \in Nat
    BY PaperType
  <2> QED BY <1>2, <2>1
\* It is enough to find the block.
<1> SUFFICES \E f \in 0..Len(roll') :
        /\ OnRoll(j)' = (f + 1)..(f + Paper(b, n + 1))
        /\ \A i \in 1..(n + 1) : b[i] \in OnPaper => roll'[f + Paper(b, i)].piece = b[i]
  BY DEF Laid, Block
<1>4. CASE b[n + 1] \notin OnPaper
  <2>1. roll' = roll /\ OnRoll(j)' = OnRoll(j) /\ Paper(b, n + 1) = Paper(b, n)
    BY <1>3, <1>4, PaperNext DEF OnRoll
  <2>2. \A i \in 1..(n + 1) : b[i] \in OnPaper => i \in 1..n
    BY <1>4
  <2>3. \A i \in 1..(n + 1) : b[i] \in OnPaper => roll'[from + Paper(b, i)].piece = b[i]
    BY <1>1, <2>1, <2>2
  <2> QED BY <1>1, <2>1, <2>3
<1>5. CASE b[n + 1] \in OnPaper
  <2> DEFINE e == [job |-> j, piece |-> b[n + 1]]
             at == IF Paper(b, n) = 0 THEN Len(roll) ELSE from
  <2>1. e \in [job : Job, piece : OnPaper] /\ roll' = Append(roll, e)
    BY <1>5
  <2>8. e.job = j /\ e.piece = b[n + 1]
    OBVIOUS
  <2> HIDE DEF e
  <2>2. /\ Len(roll') = Len(roll) + 1 /\ DOMAIN roll' = 1..(Len(roll) + 1)
        /\ roll'[Len(roll) + 1] = e /\ \A l \in 1..Len(roll) : roll'[l] = roll[l]
    BY <2>1, RollGrows
  <2>3. Paper(b, n + 1) = Paper(b, n) + 1
    BY <1>5, PaperNext
  \* The block ends where the roll ends.
  <2>4. /\ at \in 0..Len(roll) /\ OnRoll(j) = (at + 1)..(at + Paper(b, n))
        /\ at + Paper(b, n) = Len(roll)
    <3>1. CASE Paper(b, n) = 0
      BY <1>1, <1>2, <1>3, <3>1
    <3>2. CASE Paper(b, n) # 0
      <4>1. from + 1 \in OnRoll(j) /\ from + Paper(b, n) \in OnRoll(j)
        BY <1>1, <1>3, <3>2
      <4>2. from + Paper(b, n) <= Len(roll) /\ roll # <<>>
        BY <1>2, <1>3, <4>1 DEF OnRoll
      <4>3. Len(roll) \in OnRoll(j)
        BY <1>2, <4>1, <4>2 DEF OnRoll
      <4> QED BY <1>1, <1>2, <1>3, <3>2, <4>2, <4>3
    <3> QED BY <3>1, <3>2
  <2>5. OnRoll(j)' = OnRoll(j) \cup {Len(roll) + 1}
    BY <1>2, <2>8, <2>2 DEF OnRoll
  <2>6. OnRoll(j)' = (at + 1)..(at + Paper(b, n + 1))
    BY <1>2, <1>3, <2>3, <2>4, <2>5
  <2>7. ASSUME NEW i \in 1..(n + 1), b[i] \in OnPaper
        PROVE  roll'[at + Paper(b, i)].piece = b[i]
    <3>1. CASE i = n + 1
      BY <1>2, <1>3, <2>8, <2>2, <2>3, <2>4, <3>1
    <3>2. CASE i # n + 1
      <4>1. i \in 1..n
        BY <3>2
      <4>2. Paper(b, i) \in 1..Paper(b, n)
        BY <2>7, <4>1, PaperPlace
      <4>3. at = from /\ from + Paper(b, i) \in OnRoll(j)
        BY <1>1, <1>3, <4>2
      <4>4. from + Paper(b, i) \in 1..Len(roll)
        BY <1>2, <4>3 DEF OnRoll
      <4> QED BY <1>1, <2>2, <2>7, <4>1, <4>3, <4>4
    <3> QED BY <3>1, <3>2
  <2> HIDE DEF at
  <2> QED BY <1>2, <2>2, <2>4, <2>6, <2>7
<1> QED BY <1>4, <1>5

LEMMA LaidNone ==
  ASSUME IInv, NEW j \in Job, OnRoll(j)' = {}, Len(roll') \in Nat
  PROVE  Laid(j, 0)'
<1>1. ASSUME NEW b PROVE OnRoll(j)' = (0 + 1)..(0 + Paper(b, 0))
  BY PaperZero
<1> QED BY <1>1 DEF Laid

\* Two threads are never at the printer together.
LEMMA Alone ==
  ASSUME IInv, NEW t \in Thread, NEW u \in Thread, pc[t] \in Printing, pc[u] \in Printing
  PROVE  t = u
  BY DEF IInv, Turns

LEMMA RollType == ASSUME IInv PROVE Len(roll) \in Nat /\ DOMAIN roll = 1..Len(roll)
                                  /\ \A l \in DOMAIN roll : roll[l].job \in Job /\ roll[l].piece \in OnPaper
<1>1. Len(roll) \in Nat /\ DOMAIN roll = 1..Len(roll)
  BY LenProperties DEF IInv, TypeOK
<1>2. \A l \in 1..Len(roll) : roll[l] \in [job : Job, piece : OnPaper]
  BY ElementOfSeq DEF IInv, TypeOK
<1> QED BY <1>1, <1>2

LEMMA RolledStep == ASSUME IInv, Rolled, [Next]_vars PROVE Rolled'
<1> USE DEF IInv
<1>1. CASE Moves
  BY <1>1 DEF Moves, Rolled, Laid, OnRoll, Block
<1>2. ASSUME NEW t \in Thread, NEW k \in Kinds, Begin(t, k) PROVE Rolled'
  <2> DEFINE j == begun + 1
  <2>1. /\ roll' = roll /\ answer' = answer /\ sent' = sent /\ begun' = j /\ j \in Job /\ begun \in Nat
        /\ \A i \in Job : i # j => kind'[i] = kind[i]
    BY <1>2, BoundAssumption DEF Begin, TypeOK
  <2>2. \A u \in Thread : pc[u] = "body" => pc'[u] = "body" /\ job'[u] = job[u]
    BY <1>2 DEF Begin, TypeOK
  <2>3. answer[j] = "none" /\ sent[j] = 0
    BY <2>1 DEF Turns
  <2>4. \A l \in DOMAIN roll : roll[l].job # j
    BY <2>1 DEF Rolled
  <2>5. ASSUME NEW i \in Job, NEW n \in Nat, i <= begun', sent'[i] = n PROVE Laid(i, n)'
    <3>1. CASE i = j
      <4>1. OnRoll(i)' = {} /\ n = 0
        BY <2>1, <2>3, <2>4, <2>5, <3>1 DEF OnRoll
      <4>2. Len(roll') \in Nat
        BY <2>1, RollType
      <4> QED BY <4>1, <4>2, LaidNone
    <3>2. CASE i # j
      <4>1. Laid(i, n) /\ kind'[i] = kind[i]
        BY <2>1, <2>5, <3>2 DEF Rolled
      <4> QED BY <2>1, <4>1 DEF Laid, OnRoll
    <3> QED BY <3>1, <3>2
  <2>6. ASSUME NEW i \in Job, answer'[i] = "ok" PROVE sent'[i] = Len(Block(i)')
    <3>1. i # j
      BY <2>1, <2>3, <2>6
    <3> QED BY <2>1, <2>6, <3>1 DEF Rolled, Block
  <2>7. ASSUME NEW l \in DOMAIN roll'
        PROVE  LET i == roll'[l].job IN
               /\ i <= begun' /\ kind'[i] # "blink"
               /\ answer'[i] = "none" =>
                    /\ roll'[Len(roll')].job = i
                    /\ \E u \in Thread : pc'[u] = "body" /\ job'[u] = i
    <3>1. roll[l].job \in Job /\ roll[l].job # j /\ roll[l].job <= begun
      BY <2>1, <2>4, RollType DEF Rolled
    <3> QED BY <2>1, <2>2, <2>7, <3>1 DEF Rolled
  <2> QED BY <2>5, <2>6, <2>7 DEF Rolled
<1>3. ASSUME NEW t \in Thread, NEW o \in Outcome, Ends(t, o) PROVE Rolled'
  <2> DEFINE j == job[t]
  <2>1. /\ j \in Job /\ j <= begun /\ answer[j] = "none" /\ pc[t] \in Printing
        /\ kind' = kind /\ roll' = roll /\ begun' = begun /\ begun \in Nat
    BY <1>3, JobOf DEF Ends, Leave, Printing, TypeOK
  <2>2. CASE o = "done" /\ MoreFlashes(j)
    <3>1. answer' = answer /\ sent' = [sent EXCEPT ![j] = 0]
      BY <1>3, <2>2 DEF Ends, Leave
    <3>2. kind[j] = "blink"
      <4>1. kind[j] # "blink" => sect[j] = 1 /\ Len(Plan(kind[j])) = 1
        BY <2>1, BodyType, PlanShape
      <4>2. sect[j] < Len(Plan(kind[j]))
        BY <2>2 DEF MoreFlashes
      <4>3. ASSUME kind[j] # "blink" PROVE FALSE
        <5>1. sect[j] = 1 /\ Len(Plan(kind[j])) = 1
          BY <4>1, <4>3
        <5> HIDE DEF j
        <5>2. 1 < 1
          BY <4>2, <5>1
        <5> QED BY <5>2
      <4> QED BY <4>3
    <3>3. ASSUME NEW l \in DOMAIN roll PROVE roll[l].job # j /\ answer[roll[l].job] # "none"
      BY <2>1, <3>2, <3>3, Alone DEF Rolled, Printing
    <3>4. ASSUME NEW i \in Job, NEW n \in Nat, i <= begun, sent'[i] = n PROVE Laid(i, n)'
      <4>1. CASE i = j
        <5>1. OnRoll(i)' = {} /\ n = 0
          BY <2>1, <3>1, <3>3, <3>4, <4>1 DEF OnRoll, TypeOK
        <5>2. Len(roll') \in Nat
          BY <2>1, RollType
        <5> QED BY <5>1, <5>2, LaidNone
      <4>2. CASE i # j
        <5>1. Laid(i, n)
          BY <3>1, <3>4, <4>2 DEF Rolled, TypeOK
        <5> QED BY <2>1, <5>1 DEF Laid, OnRoll
      <4> QED BY <4>1, <4>2
    <3>5. \A i \in Job : answer'[i] = "ok" => sent'[i] = Len(Block(i)')
      BY <2>1, <3>1 DEF Rolled, Block, TypeOK
    <3> QED BY <2>1, <3>1, <3>3, <3>4, <3>5 DEF Rolled
  <2>3. CASE ~(o = "done" /\ MoreFlashes(j))
    <3>1. answer' = [answer EXCEPT ![j] = Reply(o)] /\ sent' = sent
      BY <1>3, <2>3 DEF Ends, Leave
    <3>2. Reply(o) # "none" /\ (Reply(o) = "ok" => o = "done")
      BY DEF Reply, Outcome
    <3>3. \A i \in Job : answer'[i] = IF i = j THEN Reply(o) ELSE answer[i]
      BY <3>1 DEF TypeOK
    <3>4. ASSUME NEW l \in DOMAIN roll PROVE answer'[roll[l].job] # "none"
      <4>1. roll[l].job \in Job
        BY RollType
      <4>2. CASE answer[roll[l].job] = "none"
        <5>1. PICK u \in Thread : pc[u] = "body" /\ job[u] = roll[l].job
          BY <4>2 DEF Rolled
        <5>2. u = t
          BY <2>1, <5>1, Alone DEF Printing
        <5> QED BY <3>2, <3>3, <4>1, <5>1, <5>2
      <4>3. CASE answer[roll[l].job] # "none"
        BY <3>2, <3>3, <4>1, <4>3
      <4> QED BY <4>2, <4>3
    <3>5. ASSUME NEW i \in Job, NEW n \in Nat, i <= begun, sent[i] = n PROVE Laid(i, n)'
      <4>1. Laid(i, n)
        BY <3>5 DEF Rolled
      <4> QED BY <2>1, <4>1 DEF Laid, OnRoll
    <3>6. ASSUME NEW i \in Job, answer'[i] = "ok" PROVE sent[i] = Len(Block(i))
      <4>1. CASE i # j
        BY <3>3, <3>6, <4>1 DEF Rolled
      <4>2. CASE i = j
        <5>1. o = "done" /\ Whole(j) /\ ~MoreFlashes(j)
          BY <1>3, <2>3, <3>2, <3>3, <3>6, <4>2 DEF Ends
        <5>2. CASE kind[j] = "blink"
          <6>1. Len(Body(j)) = 1
            BY <2>1, <5>2, BlinkBody
          <6>2. Plan(kind[j]) = << <<"lamp">>, <<"dark">>, <<"lamp">> >>
            BY <5>2, PlanShape DEF KindName
          <6>3. Len(Block(j)) = 1
            BY <6>2 DEF Block
          <6> QED BY <4>2, <5>1, <6>1, <6>3 DEF Whole
        <5>3. CASE kind[j] # "blink"
          <6>1. Body(j) = Block(j)
            BY <2>1, <5>3, BodyType DEF Body, Block
          <6> QED BY <4>2, <5>1, <6>1 DEF Whole
        <5> QED BY <5>2, <5>3
      <4> QED BY <4>1, <4>2
    <3>7. ASSUME NEW l \in DOMAIN roll PROVE roll[l].job <= begun /\ kind[roll[l].job] # "blink"
      BY DEF Rolled
    <3>8. \A i \in Job : Block(i)' = Block(i)
      BY <2>1 DEF Block
    <3> QED BY <2>1, <3>1, <3>4, <3>5, <3>6, <3>7, <3>8 DEF Rolled
  <2> QED BY <2>2, <2>3
<1>4. ASSUME NEW t \in Thread, Writes(t) PROVE Rolled'
  <2>0. PICK j \in Job : j = job[t]
    BY <1>4, JobOf DEF Writes
  <2> DEFINE p == Body(j)[sent[j] + 1]
  <2>1. /\ j = job[t] /\ j <= begun /\ answer[j] = "none" /\ pc[t] \in Printing /\ pc[t] = "body"
        /\ UNCHANGED <<pc, job, kind, answer, begun>> /\ sent[j] < Len(Body(j))
        /\ sent' = [sent EXCEPT ![j] = @ + 1]
        /\ roll' = IF p \in OnPaper THEN Append(roll, [job |-> j, piece |-> p]) ELSE roll
    BY <1>4, <2>0, JobOf DEF Writes, Emit, Printing
  <2>2. PICK n \in Nat : sent[j] = n
    BY <2>1 DEF TypeOK
  <2>3. p \in OnPaper <=> Block(j)[n + 1] \in OnPaper
    <3>1. CASE kind[j] = "blink"
      <4>1. n = 0 /\ p \in {"lamp", "dark"}
        BY <2>1, <2>2, <3>1, BlinkBody
      <4>2. Block(j)[1] = "lamp"
        BY <3>1, PlanShape DEF Block, KindName
      <4> QED BY <4>1, <4>2 DEF OnPaper
    <3>2. CASE kind[j] # "blink"
      BY <2>1, <2>2, <3>2, BodyType DEF Body, Block
    <3> QED BY <3>1, <3>2
  <2>4. p \in OnPaper => kind[j] # "blink" /\ p = Block(j)[n + 1]
    <3>1. CASE kind[j] = "blink"
      <4>1. n = 0 /\ p \in {"lamp", "dark"}
        BY <2>1, <2>2, <3>1, BlinkBody
      <4> QED BY <4>1 DEF OnPaper
    <3>2. CASE kind[j] # "blink"
      BY <2>1, <2>2, <3>2, BodyType DEF Body, Block
    <3> QED BY <3>1, <3>2
  \* A job that has no answer and something on the roll is the writer's.
  <2>5. ASSUME NEW l \in DOMAIN roll, answer[roll[l].job] = "none"
        PROVE  roll[l].job = j /\ roll[Len(roll)].job = j
    BY <2>1, <2>5, Alone DEF Rolled, Printing
  <2>6. OnRoll(j) # {} => roll[Len(roll)].job = j
    BY <2>1, <2>5 DEF OnRoll
  <2>7. Laid(j, n)
    BY <2>1, <2>2 DEF Rolled
  <2>8. \A i \in Job : sent'[i] = IF i = j THEN n + 1 ELSE sent[i]
    BY <2>1, <2>2 DEF TypeOK
  <2>9. Laid(j, n + 1)'
    <3>1. IF Block(j)[n + 1] \in OnPaper
          THEN roll' = Append(roll, [job |-> j, piece |-> Block(j)[n + 1]])
          ELSE roll' = roll
      BY <2>1, <2>3, <2>4
    <3> HIDE DEF p
    <3> QED BY <2>1, <2>6, <2>7, <3>1, LaidGrows
  <2>10. ASSUME NEW i \in Job, NEW m \in Nat, i <= begun, sent'[i] = m PROVE Laid(i, m)'
    <3>1. CASE i = j
      <4>1. m = n + 1
        BY <2>8, <2>10, <3>1
      <4> QED BY <2>9, <3>1, <4>1
    <3>2. CASE i # j
      <4>1. Laid(i, m)
        BY <2>8, <2>10, <3>2 DEF Rolled
      <4>2. CASE p \in OnPaper
        <5>1. PICK e \in [job : Job, piece : OnPaper] : e = [job |-> j, piece |-> p]
          BY <4>2
        <5>2. roll' = Append(roll, e) /\ e.job # i
          BY <2>1, <3>2, <4>2, <5>1
        <5> QED BY <2>1, <4>1, <5>2, LaidKept
      <4>3. CASE p \notin OnPaper
        <5>1. roll' = roll
          BY <2>1, <4>3
        <5> QED BY <2>1, <4>1, <5>1 DEF Laid, OnRoll
      <4> QED BY <4>2, <4>3
    <3> QED BY <3>1, <3>2
  <2>11. ASSUME NEW i \in Job, answer'[i] = "ok" PROVE sent'[i] = Len(Block(i)')
    <3>1. i # j
      BY <2>1, <2>11
    <3> QED BY <2>1, <2>8, <2>11, <3>1 DEF Rolled, Block
  <2>12. ASSUME NEW l \in DOMAIN roll'
         PROVE  LET i == roll'[l].job IN
                /\ i <= begun /\ kind[i] # "blink"
                /\ answer[i] = "none" =>
                     /\ roll'[Len(roll')].job = i
                     /\ \E u \in Thread : pc[u] = "body" /\ job[u] = i
    <3>1. CASE p \notin OnPaper
      <4>1. roll' = roll
        BY <2>1, <3>1
      <4> QED BY <2>12, <4>1 DEF Rolled
    <3>2. CASE p \in OnPaper
      <4>1. PICK e \in [job : Job, piece : OnPaper] : e = [job |-> j, piece |-> p]
        BY <3>2
      <4>2. roll' = Append(roll, e) /\ e.job = j
        BY <2>1, <3>2, <4>1
      <4>3. /\ Len(roll) \in Nat /\ Len(roll') = Len(roll) + 1
            /\ DOMAIN roll = 1..Len(roll) /\ DOMAIN roll' = 1..(Len(roll) + 1)
            /\ roll'[Len(roll) + 1] = e
            /\ \A k \in 1..Len(roll) : roll'[k] = roll[k]
        BY <4>2, RollGrows
      <4>4. CASE l = Len(roll) + 1
        BY <2>1, <2>4, <3>2, <4>2, <4>3, <4>4
      <4>5. CASE l \in DOMAIN roll
        BY <2>1, <2>5, <4>2, <4>3, <4>5 DEF Rolled
      <4> QED BY <2>12, <4>3, <4>4, <4>5
    <3> QED BY <3>1, <3>2
  <2> HIDE DEF p
  <2> QED BY <2>1, <2>10, <2>11, <2>12 DEF Rolled
<1> QED BY <1>1, <1>2, <1>3, <1>4, Ways

LEMMA MixedStep ==
  ASSUME IInv, Rolled, MixedReceiptExplained, [Next]_vars PROVE MixedReceiptExplained'
<1> USE DEF IInv
<1> DEFINE Explained(i, j) == Last(Plan(kind[j])[1]) # "cut" \/ answer[j] \notin {"none", "ok"}
<1>1. Len(roll) \in Nat /\ DOMAIN roll = 1..Len(roll)
  BY RollType
<1>2. ASSUME NEW i \in 1..(Len(roll) - 1), roll[i].piece # "cut", roll[i + 1].job # roll[i].job
      PROVE  Explained(i, roll[i].job)
  BY <1>2 DEF MixedReceiptExplained
\* What is explained stays so.
<1>3. ASSUME roll' = roll,
             \A j \in Job : j <= begun => kind'[j] = kind[j],
             \A j \in Job : answer[j] # "none" => answer'[j] = answer[j]
      PROVE  MixedReceiptExplained'
  <2>1. \A i \in DOMAIN roll : roll[i].job \in Job /\ roll[i].job <= begun
    BY RollType DEF Rolled
  <2>2. ASSUME NEW i \in 1..(Len(roll) - 1)
        PROVE  LET j == roll[i].job IN
               \/ roll[i].piece = "cut" \/ roll[i + 1].job = j
               \/ Last(Plan(kind'[j])[1]) # "cut" \/ answer'[j] \notin {"none", "ok"}
    <3>1. roll[i].job \in Job /\ kind'[roll[i].job] = kind[roll[i].job]
      BY <1>1, <1>3, <2>1
    <3>2. answer[roll[i].job] # "none" => answer'[roll[i].job] = answer[roll[i].job]
      BY <1>3, <3>1
    <3>3. roll[i].piece = "cut" \/ roll[i + 1].job = roll[i].job \/ Explained(i, roll[i].job)
      BY <1>2
    <3>4. CASE Last(Plan(kind[roll[i].job])[1]) # "cut"
      BY <3>1, <3>4
    <3>5. CASE answer[roll[i].job] \notin {"none", "ok"}
      BY <3>2, <3>5
    <3> QED BY <3>3, <3>4, <3>5
  <2> QED BY <1>3, <2>2 DEF MixedReceiptExplained
<1>4. CASE Moves
  BY <1>3, <1>4 DEF Moves
<1>5. ASSUME NEW t \in Thread, NEW k \in Kinds, Begin(t, k) PROVE MixedReceiptExplained'
  <2>1. roll' = roll /\ answer' = answer /\ begun \in Nat
        /\ \A j \in Job : j # begun + 1 => kind'[j] = kind[j]
    BY <1>5 DEF Begin, TypeOK
  <2> QED BY <1>3, <2>1
<1>6. ASSUME NEW t \in Thread, NEW o \in Outcome, Ends(t, o) PROVE MixedReceiptExplained'
  <2>1. job[t] \in Job /\ answer[job[t]] = "none" /\ roll' = roll /\ kind' = kind
    BY <1>6, JobOf DEF Ends, Leave, Printing
  <2>2. \A j \in Job : j # job[t] => answer'[j] = answer[j]
    BY <1>6 DEF Ends, Leave, TypeOK
  <2> QED BY <1>3, <2>1, <2>2
<1>7. ASSUME NEW t \in Thread, Writes(t) PROVE MixedReceiptExplained'
  <2> DEFINE j == job[t]
             p == Body(j)[sent[j] + 1]
             i == roll[Len(roll)].job
  <2>1. /\ j \in Job /\ pc[t] \in Printing /\ UNCHANGED <<kind, answer>>
        /\ roll' = IF p \in OnPaper THEN Append(roll, [job |-> j, piece |-> p]) ELSE roll
    BY <1>7, JobOf DEF Writes, Emit, Printing
  <2>2. CASE p \notin OnPaper
    <3>1. roll' = roll
      BY <2>1, <2>2
    <3> QED BY <1>3, <2>1, <3>1
  <2>3. CASE p \in OnPaper
    <3>1. PICK e \in [job : Job, piece : OnPaper] : e = [job |-> j, piece |-> p]
      BY <2>1, <2>3
    <3>2. roll' = Append(roll, e) /\ e.job = j
      BY <2>1, <2>3, <3>1
    <3>3. /\ Len(roll') = Len(roll) + 1 /\ roll'[Len(roll) + 1] = e
          /\ \A l \in 1..Len(roll) : roll'[l] = roll[l]
      BY <3>2, RollGrows
    \* The new piece after what was there.
    <3>4. ASSUME Len(roll) >= 1, i # j
          PROVE  roll[Len(roll)].piece = "cut" \/ Explained(Len(roll), i)
      <4>1. i \in Job /\ i <= begun /\ Len(roll) \in DOMAIN roll
        BY <1>1, <3>4, RollType DEF Rolled
      <4>2. answer[i] # "none"
        <5>1. answer[i] = "none" => \E u \in Thread : pc[u] = "body" /\ job[u] = i
          BY <4>1 DEF Rolled
        <5> QED BY <2>1, <3>4, <5>1, Alone DEF Printing
      <4>3. ASSUME answer[i] = "ok", Last(Block(i)) = "cut"
            PROVE  roll[Len(roll)].piece = "cut"
        <5> DEFINE b == Block(i)
                   n == Len(b)
        <5>1. n \in Nat /\ sent[i] = n /\ Laid(i, n)
          BY <4>1, <4>3 DEF Rolled, TypeOK
        <5>2. PICK from \in 0..Len(roll) :
                /\ OnRoll(i) = (from + 1)..(from + Paper(b, n))
                /\ \A k \in 1..n : b[k] \in OnPaper => roll[from + Paper(b, k)].piece = b[k]
          BY <5>1 DEF Laid, Block
        <5>3. Paper(b, n) \in Nat /\ Len(roll) \in OnRoll(i)
          BY <4>1, <5>1, PaperType DEF OnRoll
        <5>4. Len(roll) <= from + Paper(b, n) /\ from + Paper(b, n) \in OnRoll(i)
          BY <1>1, <5>2, <5>3
        <5>5. Len(roll) = from + Paper(b, n)
          BY <1>1, <5>2, <5>3, <5>4 DEF OnRoll
        <5>6. n # 0
          BY <1>1, <5>2, <5>3, <5>5, PaperZero
        <5>7. b[n] = "cut" /\ n \in 1..n
          BY <4>3, <5>1, <5>6 DEF Last
        <5>8. b[n] \in OnPaper
          BY <5>7 DEF OnPaper
        <5> QED BY <5>2, <5>5, <5>7, <5>8
      <4> QED BY <4>2, <4>3 DEF Block
    <3>5. ASSUME NEW l \in 1..(Len(roll') - 1)
          PROVE  LET c == roll'[l].job IN
                 \/ roll'[l].piece = "cut" \/ roll'[l + 1].job = c
                 \/ Last(Plan(kind[c])[1]) # "cut" \/ answer[c] \notin {"none", "ok"}
      <4>1. l \in 1..Len(roll)
        BY <1>1, <3>3, <3>5
      <4>2. roll'[l] = roll[l]
        BY <3>3, <4>1
      <4>3. CASE l = Len(roll)
        <5>1. roll'[l + 1] = e /\ Len(roll) >= 1
          BY <1>1, <3>3, <4>1, <4>3
        <5> QED BY <3>2, <3>4, <4>2, <4>3, <5>1
      <4>4. CASE l # Len(roll)
        <5>1. l \in 1..(Len(roll) - 1) /\ l + 1 \in 1..Len(roll)
          <6>1. \A n \in Nat : \A m \in 1..n : m # n => m \in 1..(n - 1) /\ m + 1 \in 1..n
            OBVIOUS
          <6> QED BY <1>1, <4>1, <4>4, <6>1
        <5>2. roll'[l + 1] = roll[l + 1]
          BY <3>3, <5>1
        <5> QED BY <1>2, <4>2, <5>1, <5>2
      <4> QED BY <4>3, <4>4
    <3> QED BY <2>1, <3>5 DEF MixedReceiptExplained
  <2> QED BY <2>2, <2>3
<1> QED BY <1>4, <1>5, <1>6, <1>7, Ways

LEMMA RolledCorrect == Spec => []Rolled
<1>1. Init => Rolled
  BY DEF Init, Rolled
<1>2. IInv /\ Rolled /\ [Next]_vars => Rolled'
  BY RolledStep
<1> QED BY <1>1, <1>2, TypeCorrect, PTL DEF Spec, IInv

\* Prints of any number of threads come out one after the other: no section ends,
\* is lost or is healed in such a way that another job's output lies inside it.
THEOREM PrintsInOnePiece == Spec => []OnePrintAtATime
<1>1. IInv /\ Rolled => OnePrintAtATime
  <2> SUFFICES ASSUME IInv, Rolled, NEW i \in DOMAIN roll, NEW k \in DOMAIN roll, i < k,
                      roll[i].job = roll[k].job, NEW l \in i..k
               PROVE  roll[l].job = roll[i].job
    BY DEF OnePrintAtATime
  <2> DEFINE j == roll[i].job
  <2>1. j \in Job /\ j <= begun /\ sent[j] \in Nat /\ DOMAIN roll = 1..Len(roll) /\ Len(roll) \in Nat
    BY RollType DEF Rolled, IInv, TypeOK
  <2>2. Laid(j, sent[j])
    BY <2>1 DEF Rolled
  <2>3. PICK from \in 0..Len(roll) : OnRoll(j) = (from + 1)..(from + Paper(Block(j), sent[j]))
    BY <2>2 DEF Laid, Block
  <2>4. Paper(Block(j), sent[j]) \in Nat
    BY <2>1, PaperType
  <2>5. i \in OnRoll(j) /\ k \in OnRoll(j)
    BY DEF OnRoll
  <2>6. l \in OnRoll(j)
    BY <2>1, <2>3, <2>4, <2>5
  <2> QED BY <2>6 DEF OnRoll
<1> QED BY <1>1, TypeCorrect, RolledCorrect, PTL DEF IInv

\* "ok" is only said of a print that is on the roll from its first piece to its
\* last: no offline error, reset or reopen ends in a 200 (open_printer, _safe).
THEOREM OkIsWhole == Spec => []OkMeansWhole
<1>1. IInv /\ Rolled => OkMeansWhole
  <2> SUFFICES ASSUME IInv, Rolled, NEW j \in Job, answer[j] = "ok"
               PROVE  Laid(j, Len(Plan(kind[j])[1]))
    BY DEF OkMeansWhole
  <2>1. j <= begun /\ sent[j] \in Nat /\ sent[j] = Len(Block(j))
    BY DEF Rolled, IInv, TypeOK, Turns
  <2>2. Laid(j, sent[j])
    BY <2>1 DEF Rolled
  <2>3. sent[j] = Len(Plan(kind[j])[1])
    BY <2>1 DEF Block
  <2> HIDE DEF Block
  <2> QED BY <2>2, <2>3
<1> QED BY <1>1, TypeCorrect, RolledCorrect, PTL DEF IInv

\* Two receipts hang together only where the first was to have no cut, or its
\* caller knows that it failed.
THEOREM ReceiptsAreCut == Spec => []MixedReceiptExplained
<1>1. Init => MixedReceiptExplained
  BY DEF Init, MixedReceiptExplained
<1>2. IInv /\ Rolled /\ MixedReceiptExplained /\ [Next]_vars => MixedReceiptExplained'
  BY MixedStep
<1> QED BY <1>1, <1>2, TypeCorrect, RolledCorrect, PTL DEF Spec, IInv

-----------------------------------------------------------------------------
(* The printer as its callers see it                                       *)

LEMMA ServiceStep ==
  ASSUME IInv, [Next]_vars
  PROVE  [Service!Next]_(Service!vars)
<1> USE DEF IInv
<1> DEFINE holder == IF lock = NoThread THEN 0 ELSE job[lock]
<1>1. ASSUME UNCHANGED <<lock, roll, answer>>, lock # NoThread => job'[lock] = job[lock]
      PROVE  UNCHANGED Service!vars
  BY <1>1 DEF Service!vars
<1>2. ASSUME NEW t \in Thread, pc[t] \in Printing PROVE lock = t /\ holder = job[t] /\ job[t] # 0
  BY <1>2, JobOf, ThreadAssumption DEF Turns, Printing
<1>3. ASSUME NEW t \in Thread, NEW k \in Kinds, Begin(t, k) PROVE UNCHANGED Service!vars
  <2>1. lock # t /\ lock \in Thread \cup {NoThread}
    BY <1>3 DEF Begin, TypeOK, Turns, Printing
  <2> QED BY <1>1, <1>3, <2>1 DEF Begin, TypeOK
<1>4. ASSUME NEW t \in Thread, Acquire(t) PROVE Service!Next
  <2>1. lock = NoThread /\ lock' = t /\ UNCHANGED <<job, roll, answer>> /\ pc[t] # "idle"
    BY <1>4 DEF Acquire, Free
  <2>2. job[t] \in Job /\ answer[job[t]] = "none" /\ holder = 0 /\ holder' = job[t]
    BY <2>1, JobOf, ThreadAssumption
  <2>3. Service!Take(job[t])
    BY <2>1, <2>2 DEF Service!Take, Service!Nobody
  <2> QED BY <2>2, <2>3 DEF Service!Next
<1>5. ASSUME NEW t \in Thread, NEW o \in Outcome, Ends(t, o) PROVE Service!Next
  <2>1. lock' = NoThread /\ holder' = 0 /\ roll' = roll /\ holder = job[t] /\ job[t] # 0
    BY <1>2, <1>5 DEF Ends, Leave, Released
  <2>2. Reply(o) \in {"ok", "printer", "input", "server"}
    BY DEF Reply, Outcome
  <2>3. answer' = answer \/ answer' = [answer EXCEPT ![job[t]] = Reply(o)]
    BY <1>5 DEF Ends, Leave
  <2>4. Service!LetGo
    BY <2>1, <2>2, <2>3 DEF Service!LetGo, Service!Nobody
  <2> QED BY <2>4 DEF Service!Next
<1>6. ASSUME NEW t \in Thread, Writes(t) PROVE [Service!Next]_(Service!vars)
  <2> DEFINE p == Body(job[t])[sent[job[t]] + 1]
  <2>1. UNCHANGED <<lock, job, answer>> /\ holder = job[t] /\ job[t] # 0
    BY <1>2, <1>6 DEF Writes, Printing
  <2>2. roll' = IF p \in OnPaper THEN Append(roll, [job |-> job[t], piece |-> p]) ELSE roll
    BY <1>6 DEF Writes, Emit
  <2>3. CASE p \in OnPaper
    <3>1. Service!Emit
      BY <2>1, <2>2, <2>3 DEF Service!Emit, Service!Nobody, OnPaper
    <3> QED BY <3>1 DEF Service!Next
  <2>4. CASE p \notin OnPaper
    BY <1>1, <2>1, <2>2, <2>4
  <2> QED BY <2>3, <2>4
<1>7. ASSUME UNCHANGED <<lock, job, roll, answer>> PROVE UNCHANGED Service!vars
  BY <1>1, <1>7
<1>8. CASE Moves /\ lock' = lock
  BY <1>7, <1>8 DEF Moves
<1>9. CASE Moves /\ \E t \in Thread : Acquire(t)
  BY <1>4, <1>9
<1> QED BY <1>3, <1>5, <1>6, <1>8, <1>9, Ways DEF Moves

\* open_printer with its lock, resets, reopens and error paths takes only the steps
\* of a printer that serves one job at a time.  (That it lets go of every job again
\* needs fairness and is checked by TLC as part of ServiceSpec.)
THEOREM ServesOneAtATime == Spec => Service!Init /\ [][Service!Next]_(Service!vars)
<1>1. Init => Service!Init
  BY DEF Init, Service!Init, Service!Nobody
<1>2. IInv /\ [Next]_vars => [Service!Next]_(Service!vars)
  BY ServiceStep
<1> QED BY <1>1, <1>2, TypeCorrect, PTL DEF Spec, IInv
=============================================================================
