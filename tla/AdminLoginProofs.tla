-------------------------- MODULE AdminLoginProofs --------------------------
(***************************************************************************)
(* Theorems about AdminLogin for any addresses, codes, limits and window:  *)
(* what holds for any number of request threads, and what one thread adds. *)
(***************************************************************************)
EXTENDS AdminLogin, FiniteSetTheorems, SequenceTheorems, TLAPS

Entry == [key : Key, at : Nat, n : Nat]

Place == {"idle", "readIp", "checkIp", "readAll", "checkAll", "verify", "compare", "store",
          "failIp", "writeIp", "failAll", "writeAll"}

Request == [pc : Place, ip : Key, code : Codes, arr : SUBSET Entry, real : Nat,
            step : Step \cup {NoStep}]

Typed ==
  /\ bucket \in [Key -> SUBSET Entry] /\ lastUsed \in Nat
  /\ req \in [Thread -> Request] /\ now \in Nat
  /\ failures \in SUBSET Entry /\ IsFiniteSet(failures)
  /\ redeemed \in Seq(Nat)

\* A request under way has the address the proxy saw, and a step once it is compared.
Addressed ==
  \A t \in Thread : /\ req[t].pc # "idle" => req[t].ip \in Address
                    /\ req[t].pc \in {"compare", "store"} => req[t].step \in Step

\* The key under which a request holds a list it has read.
Listing(t, k) ==
  \/ req[t].pc \in {"checkIp", "writeIp"} /\ k = req[t].ip
  \/ req[t].pc \in {"checkAll", "writeAll"} /\ k = Everyone

Of(k) == {f \in failures : f.key = k}

\* Every list holds failures that happened under its key, whoever wrote it last; a
\* list about to be counted is no longer than the failures there were.
NothingInvented ==
  /\ \A k \in Key : bucket[k] \subseteq Of(k)
  /\ \A t \in Thread, k \in Key : Listing(t, k) => req[t].arr \subseteq Of(k)
  /\ \A t \in Thread :
       req[t].pc \in {"checkIp", "checkAll"} => Cardinality(req[t].arr) <= req[t].real
  /\ NoPhantomLock

IInv == Typed /\ Addressed /\ NothingInvented

-----------------------------------------------------------------------------
(* Operators                                                               *)

\* client_ip answers the hop the proxy appended, whatever came before it.
LEMMA ClientIpIsTheHop ==
  ASSUME NEW a \in Address, NEW hops \in Hops(a)
  PROVE  ClientIp(hops) = a
<1>1. CASE hops = <<a>> BY <1>1 DEF ClientIp, Last
<1>2. CASE hops # <<a>>
  <2>1. PICK b \in Address : hops = <<b, a>> BY <1>2 DEF Hops
  <2> QED BY <2>1 DEF ClientIp, Last
<1> QED BY <1>1, <1>2

\* A part of what happened is finite and no larger.
LEMMA PartCounted ==
  ASSUME IsFiniteSet(failures), NEW A, NEW B, A \subseteq B, B \subseteq failures
  PROVE  /\ IsFiniteSet(A) /\ IsFiniteSet(B)
         /\ Cardinality(A) \in Nat /\ Cardinality(B) \in Nat /\ Cardinality(A) <= Cardinality(B)
<1>1. IsFiniteSet(B) BY FS_Subset
<1>2. IsFiniteSet(A) /\ Cardinality(A) <= Cardinality(B) BY <1>1, FS_Subset
<1> QED BY <1>1, <1>2, FS_CardinalityType

\* verify finds a first step when it finds one: at most three are looked at.
LEMMA LeastAccepted ==
  ASSUME BoundAssumption, Typed, NEW c, Accepted(c) # {}
  PROVE  \E x \in Accepted(c) : \A j \in Accepted(c) : x <= j
<1>1. Accepted(c) \subseteq {now - 1, now, now + 1} /\ now \in Nat
  BY DEF Accepted, Typed
<1>2. CASE now - 1 \in Accepted(c) BY <1>1, <1>2
<1>3. CASE now - 1 \notin Accepted(c) /\ now \in Accepted(c) BY <1>1, <1>3
<1>4. CASE now - 1 \notin Accepted(c) /\ now \notin Accepted(c)
  <2>1. now + 1 \in Accepted(c) BY <1>1, <1>4
  <2> QED BY <1>1, <1>4, <2>1
<1> QED BY <1>2, <1>3, <1>4

\* A failure is an entry.
LEMMA FailureTyped ==
  ASSUME Typed, NEW k \in Key
  PROVE  Failure(k) \in Entry /\ Failure(k).key = k /\ Failure(k).at = now
BY FS_CardinalityType DEF Typed, Failure, Entry

-----------------------------------------------------------------------------
(* Any number of threads                                                   *)

LEMMA InitInv == ASSUME BoundAssumption, Init PROVE IInv
<1>1. Everyone \in Key /\ Wrong \in Codes BY DEF Key, Codes
<1>2. Idle \in Request BY <1>1 DEF Idle, Request, Place, NoStep
<1>3. IsFiniteSet({}) BY FS_EmptySet
<1>4. Typed BY <1>2, <1>3 DEF Init, Typed
<1>5. \A t \in Thread : req[t].pc = "idle" BY DEF Init, Idle
<1>6. Addressed BY <1>5 DEF Addressed
<1>7. NothingInvented BY <1>5 DEF NothingInvented, Init, Listing, NoPhantomLock
<1> QED BY <1>4, <1>6, <1>7 DEF IInv

\* A request takes a step to r and nothing is recorded.
LEMMA Turns ==
  ASSUME IInv, NEW t \in Thread, NEW r \in Request, req' = [req EXCEPT ![t] = r],
         UNCHANGED <<failures, refused>>, \A k \in Key : bucket'[k] \subseteq Of(k),
         r.pc # "idle" => r.ip \in Address,
         r.pc \in {"compare", "store"} => r.step \in Step,
         r.pc \in {"checkIp", "writeIp"} => r.arr \subseteq Of(r.ip),
         r.pc \in {"checkAll", "writeAll"} => r.arr \subseteq Of(Everyone),
         r.pc \in {"checkIp", "checkAll"} => Cardinality(r.arr) <= r.real
  PROVE  Addressed' /\ NothingInvented'
<1>1. req'[t] = r /\ \A u \in Thread : u # t => req'[u] = req[u]
  BY DEF IInv, Typed
<1>2. \A k : Of(k)' = Of(k) BY DEF Of
<1>3. Addressed' BY <1>1 DEF IInv, Addressed
<1>4. \A k \in Key : bucket'[k] \subseteq Of(k)' BY <1>2
<1>5. ASSUME NEW u \in Thread, NEW k \in Key, Listing(u, k)' PROVE req'[u].arr \subseteq Of(k)'
  <2>1. CASE u = t BY <1>1, <1>2, <1>5, <2>1 DEF Listing
  <2>2. CASE u # t BY <1>1, <1>2, <1>5, <2>2 DEF Listing, IInv, NothingInvented
  <2> QED BY <2>1, <2>2
<1>6. ASSUME NEW u \in Thread, req'[u].pc \in {"checkIp", "checkAll"}
      PROVE  Cardinality(req'[u].arr) <= req'[u].real
  <2>1. CASE u = t BY <1>1, <1>6, <2>1
  <2>2. CASE u # t BY <1>1, <1>6, <2>2 DEF IInv, NothingInvented
  <2> QED BY <2>1, <2>2
<1>7. NoPhantomLock' BY DEF IInv, NothingInvented, NoPhantomLock
<1>8. NothingInvented' BY <1>4, <1>5, <1>6, <1>7 DEF NothingInvented
<1> QED BY <1>3, <1>8

\* sliding_check and sliding_record read a bucket.
LEMMA Reads ==
  ASSUME IInv, NEW t \in Thread, NEW from \in Place \ {"idle"}, NEW to \in Place, NEW k \in Key,
         Read(t, from, to, k), to \in {"checkIp", "writeIp", "checkAll", "writeAll"},
         to \in {"checkIp", "writeIp"} => k = req[t].ip,
         to \in {"checkAll", "writeAll"} => k = Everyone
  PROVE  IInv'
<1> DEFINE r == [req[t] EXCEPT !.pc = to, !.arr = Recent(bucket[k]), !.real = Cardinality(Happened(k))]
<1>1. req[t] \in Request /\ req[t].pc = from BY DEF Read, IInv, Typed
<1>2. bucket[k] \subseteq Of(k) /\ bucket[k] \subseteq Entry
  BY DEF IInv, NothingInvented, Typed
<1>3. Recent(bucket[k]) \subseteq Happened(k) /\ Happened(k) \subseteq failures
  BY <1>2 DEF Recent, Happened, Of
<1>4. /\ Cardinality(Happened(k)) \in Nat
      /\ Cardinality(Recent(bucket[k])) <= Cardinality(Happened(k))
  BY <1>3, PartCounted DEF IInv, Typed
<1>5. Recent(bucket[k]) \in SUBSET Entry BY <1>2 DEF Recent
<1>6. r \in Request BY <1>1, <1>4, <1>5 DEF Request
<1>7. /\ r.pc = to /\ r.arr = Recent(bucket[k]) /\ r.real = Cardinality(Happened(k))
      /\ r.ip = req[t].ip /\ r.step = req[t].step
  BY <1>1 DEF Request
<1>8. req' = [req EXCEPT ![t] = r] BY DEF Read
<1>9. UNCHANGED <<bucket, lastUsed, now, failures, redeemed, refused>> BY DEF Read
<1>10. Typed' BY <1>6, <1>8, <1>9 DEF IInv, Typed
<1>11. r.ip \in Address BY <1>1, <1>7 DEF IInv, Addressed
<1>12. r.arr \subseteq Of(k) BY <1>2, <1>7 DEF Recent
<1>13. \A j \in Key : bucket'[j] \subseteq Of(j) BY <1>9 DEF IInv, NothingInvented
<1> HIDE DEF r
<1>14. Addressed' /\ NothingInvented' BY <1>4, <1>6, <1>7, <1>8, <1>9, <1>11, <1>12, <1>13, Turns
<1> QED BY <1>10, <1>14 DEF IInv

\* sliding_check writes the list back and refuses the request, or not.
LEMMA Checks ==
  ASSUME BoundAssumption, IInv, NEW t \in Thread, NEW from \in {"checkIp", "checkAll"},
         NEW to \in {"readAll", "verify"}, NEW k \in Key, NEW limit, Check(t, from, to, k, limit),
         Listing(t, k), limit = IF k = Everyone THEN MaxGlobal ELSE MaxIp
  PROVE  IInv'
<1>1. req[t] \in Request /\ req[t].pc = from BY DEF Check, IInv, Typed
<1>2. req[t].arr \subseteq Of(k) /\ req[t].arr \in SUBSET Entry
  BY <1>1 DEF IInv, NothingInvented, Request
<1>3. bucket' = [bucket EXCEPT ![k] = req[t].arr] /\ UNCHANGED <<lastUsed, now, failures, redeemed>>
  BY DEF Check
<1>4. \A j \in Key : bucket'[j] \subseteq Of(j)
  BY <1>2, <1>3 DEF IInv, NothingInvented, Typed
<1>5. bucket' \in [Key -> SUBSET Entry] BY <1>2, <1>3 DEF IInv, Typed
<1>6. CASE Over(req[t].arr, limit)
  <2>1. req' = [req EXCEPT ![t] = Idle] /\ refused' = refused \cup {[key |-> k, real |-> req[t].real]}
    BY <1>6 DEF Check, Finish
  <2>2. Idle \in Request BY DEF Idle, Request, Place, NoStep, Key, Codes
  <2>3. Typed' BY <1>3, <1>5, <2>1, <2>2 DEF IInv, Typed
  <2>4. req[t].real >= limit
    <3>1. limit \in Nat BY DEF BoundAssumption
    <3>2. Cardinality(req[t].arr) <= req[t].real BY <1>1 DEF IInv, NothingInvented
    <3>3. Cardinality(req[t].arr) \in Nat /\ req[t].real \in Nat
      BY <1>1, <1>2, PartCounted DEF IInv, Typed, Of, Request
    <3> QED BY <1>6, <3>1, <3>2, <3>3 DEF Over
  <2>5. req'[t] = Idle /\ \A u \in Thread : u # t => req'[u] = req[u]
    BY <2>1 DEF IInv, Typed
  <2>6. \A j : Of(j)' = Of(j) BY <1>3 DEF Of
  <2>7. Addressed' BY <2>5 DEF IInv, Addressed, Idle
  <2>8. NoPhantomLock' BY <2>1, <2>4 DEF IInv, NothingInvented, NoPhantomLock
  <2>9. \A u \in Thread, j \in Key : Listing(u, j)' => req'[u].arr \subseteq Of(j)'
    BY <2>5, <2>6 DEF IInv, NothingInvented, Listing, Idle
  <2>10. \A u \in Thread :
           req'[u].pc \in {"checkIp", "checkAll"} => Cardinality(req'[u].arr) <= req'[u].real
    BY <2>5 DEF IInv, NothingInvented, Idle
  <2>11. NothingInvented' BY <1>4, <2>6, <2>8, <2>9, <2>10 DEF NothingInvented
  <2> QED BY <2>3, <2>7, <2>11 DEF IInv
<1>7. CASE ~Over(req[t].arr, limit)
  <2> DEFINE r == [req[t] EXCEPT !.pc = to]
  <2>1. req' = [req EXCEPT ![t] = r] /\ UNCHANGED refused BY <1>7 DEF Check, Goto
  <2>2. r \in Request /\ r.pc = to /\ r.ip = req[t].ip BY <1>1 DEF Request, Place
  <2>3. Typed' BY <1>3, <1>5, <2>1, <2>2 DEF IInv, Typed
  <2>4. r.ip \in Address BY <1>1, <2>2 DEF IInv, Addressed
  <2> HIDE DEF r
  <2>5. Addressed' /\ NothingInvented' BY <1>3, <1>4, <2>1, <2>2, <2>4, Turns
  <2> QED BY <2>3, <2>5 DEF IInv
<1> QED BY <1>6, <1>7

\* sliding_record adds the failure to the list it read and writes it back.
LEMMA Records ==
  ASSUME BoundAssumption, IInv, NEW t \in Thread, NEW k \in Key, Listing(t, k),
         Record(k, req[t].arr),
         \/ Goto(t, "failAll") /\ req[t].pc = "writeIp"
         \/ Finish(t) /\ req[t].pc = "writeAll"
  PROVE  IInv'
<1> DEFINE r == IF req[t].pc = "writeIp" THEN [req[t] EXCEPT !.pc = "failAll"] ELSE Idle
<1>1. req[t] \in Request BY DEF IInv, Typed
<1>2. req' = [req EXCEPT ![t] = r] BY DEF Goto, Finish
<1>3. Idle \in Request BY DEF Idle, Request, Place, NoStep, Key, Codes
<1>4. r \in Request /\ r.pc \in {"failAll", "idle"} /\ (r.pc # "idle" => r.ip = req[t].ip)
  BY <1>1, <1>3 DEF Request, Place, Idle
<1>5. /\ Failure(k) \in Entry /\ Failure(k).key = k
  BY FailureTyped DEF IInv
<1>6. /\ bucket' = [bucket EXCEPT ![k] = req[t].arr \cup {Failure(k)}]
      /\ failures' = failures \cup {Failure(k)}
      /\ UNCHANGED <<lastUsed, now, redeemed, refused>>
  BY DEF Record, Noted
<1>7. req[t].arr \subseteq Of(k) /\ req[t].arr \in SUBSET Entry
  BY <1>1 DEF IInv, NothingInvented, Request
<1> HIDE DEF r
<1>8. Typed'
  <2>1. IsFiniteSet(failures') BY <1>6, FS_AddElement DEF IInv, Typed
  <2>2. bucket' \in [Key -> SUBSET Entry] BY <1>5, <1>6, <1>7 DEF IInv, Typed
  <2>3. failures' \in SUBSET Entry BY <1>5, <1>6 DEF IInv, Typed
  <2>4. req' \in [Thread -> Request] BY <1>2, <1>4 DEF IInv, Typed
  <2> QED BY <1>6, <2>1, <2>2, <2>3, <2>4 DEF IInv, Typed
<1>9. req'[t] = r /\ \A u \in Thread : u # t => req'[u] = req[u]
  BY <1>2 DEF IInv, Typed
<1>10. \A j : Of(j) \subseteq Of(j)' BY <1>6 DEF Of
<1>11. Failure(k) \in Of(k)' BY <1>5, <1>6 DEF Of
<1>12. Addressed'
  <2>1. req[t].ip \in Address
    BY DEF IInv, Addressed
  <2> QED BY <1>4, <1>9, <2>1 DEF IInv, Addressed
<1>13. \A j \in Key : bucket'[j] \subseteq Of(j)'
  BY <1>6, <1>7, <1>10, <1>11 DEF IInv, NothingInvented, Typed
<1>14. \A u \in Thread, j \in Key : Listing(u, j)' => req'[u].arr \subseteq Of(j)'
  <2>1. ASSUME NEW u \in Thread, NEW j \in Key, Listing(u, j)' PROVE u # t /\ Listing(u, j)
    BY <1>4, <1>9, <2>1 DEF Listing
  <2>2. ASSUME NEW u \in Thread, NEW j \in Key, Listing(u, j)' PROVE req'[u].arr \subseteq Of(j)'
    BY <1>9, <1>10, <2>1, <2>2 DEF IInv, NothingInvented
  <2> QED BY <2>2
<1>15. \A u \in Thread :
         req'[u].pc \in {"checkIp", "checkAll"} => Cardinality(req'[u].arr) <= req'[u].real
  BY <1>4, <1>9 DEF IInv, NothingInvented
<1>16. NoPhantomLock' BY <1>6 DEF IInv, NothingInvented, NoPhantomLock
<1>17. NothingInvented' BY <1>13, <1>14, <1>15, <1>16 DEF NothingInvented
<1> QED BY <1>8, <1>12, <1>17 DEF IInv

LEMMA StepInv == ASSUME BoundAssumption, IInv, [Next]_vars PROVE IInv'
<1>1. Everyone \in Key /\ Address \subseteq Key BY DEF Key
<1>2. \A u \in Thread : req[u] \in Request /\ req[u].ip \in Key
  BY DEF IInv, Typed, Request
<1>3. \A j \in Key : bucket[j] \subseteq Of(j) BY DEF IInv, NothingInvented
<1>4. ASSUME NEW t \in Thread, NEW a \in Address, NEW c \in Codes, Begin(t, a, c) PROVE IInv'
  <2>1. PICK hops \in Hops(a) :
          req' = [req EXCEPT ![t] = [Idle EXCEPT !.pc = "readIp", !.ip = ClientIp(hops), !.code = c]]
    BY <1>4 DEF Begin
  <2> DEFINE r == [Idle EXCEPT !.pc = "readIp", !.ip = ClientIp(hops), !.code = c]
  <2>2. ClientIp(hops) = a BY ClientIpIsTheHop
  <2>3. Idle \in Request BY DEF Idle, Request, Place, NoStep, Key, Codes
  <2>4. r \in Request /\ r.pc = "readIp" /\ r.ip \in Address
    BY <1>1, <2>2, <2>3 DEF Request, Place
  <2>5. UNCHANGED <<bucket, lastUsed, now, failures, redeemed, refused>> BY <1>4 DEF Begin
  <2> HIDE DEF r
  <2>6. req' = [req EXCEPT ![t] = r] BY <2>1 DEF r
  <2>7. Typed' BY <2>4, <2>5, <2>6 DEF IInv, Typed
  <2>8. Addressed' /\ NothingInvented' BY <1>3, <2>4, <2>5, <2>6, Turns
  <2> QED BY <2>7, <2>8 DEF IInv
<1>5. ASSUME NEW t \in Thread, ReadIp(t) \/ ReadAll(t) \/ ReadIpAgain(t) \/ ReadAllAgain(t) PROVE IInv'
  <2>1. CASE ReadIp(t) BY <1>1, <1>2, <2>1, Reads DEF ReadIp, Place
  <2>2. CASE ReadAll(t) BY <1>1, <2>2, Reads DEF ReadAll, Place
  <2>3. CASE ReadIpAgain(t) BY <1>1, <1>2, <2>3, Reads DEF ReadIpAgain, Place
  <2>4. CASE ReadAllAgain(t) BY <1>1, <2>4, Reads DEF ReadAllAgain, Place
  <2> QED BY <1>5, <2>1, <2>2, <2>3, <2>4
<1>6. ASSUME NEW t \in Thread, CheckIp(t) PROVE IInv'
  <2>1. req[t].ip # Everyone BY <1>6 DEF BoundAssumption, CheckIp, Check, IInv, Addressed
  <2>2. Listing(t, req[t].ip) BY <1>6 DEF CheckIp, Check, Listing
  <2> QED BY <1>2, <1>6, <2>1, <2>2, Checks DEF CheckIp
<1>7. ASSUME NEW t \in Thread, CheckAll(t) PROVE IInv'
  <2>1. Listing(t, Everyone) BY <1>7 DEF CheckAll, Check, Listing
  <2> QED BY <1>1, <1>7, <2>1, Checks DEF CheckAll
<1>8. ASSUME NEW t \in Thread, NEW s \in Step \cup {NoStep}, NEW to \in {"failIp", "compare", "store"},
             req[t].pc \in {"verify", "compare"}, to \in {"compare", "store"} => s \in Step,
             req' = [req EXCEPT ![t].pc = to, ![t].step = s],
             UNCHANGED <<bucket, lastUsed, now, served, failures, redeemed, refused>>
      PROVE  IInv'
  <2> DEFINE r == [req[t] EXCEPT !.pc = to, !.step = s]
  <2>1. r \in Request /\ r.pc = to /\ r.ip = req[t].ip /\ r.step = s
    BY <1>2 DEF Request, Place
  <2>2. req' = [req EXCEPT ![t] = r] BY <1>8
  <2>3. r.ip \in Address BY <1>8, <2>1 DEF IInv, Addressed
  <2> HIDE DEF r
  <2>4. Typed' BY <1>8, <2>1, <2>2 DEF IInv, Typed
  <2>5. Addressed' /\ NothingInvented' BY <1>3, <1>8, <2>1, <2>2, <2>3, Turns
  <2> QED BY <2>4, <2>5 DEF IInv
<1>9. ASSUME NEW t \in Thread, Verify(t) PROVE IInv'
  <2> DEFINE s == Accepted(req[t].code)
  <2>1. req[t].pc = "verify" /\ UNCHANGED <<bucket, lastUsed, now, served, failures, redeemed, refused>>
    BY <1>9 DEF Verify
  <2>2. CASE s = {}
    <3>1. req' = [req EXCEPT ![t].pc = "failIp"] BY <1>9, <2>2 DEF Verify
    <3>2. req[t].step \in Step \cup {NoStep} BY <1>2 DEF Request
    <3>3. [req[t] EXCEPT !.pc = "failIp"] = [req[t] EXCEPT !.pc = "failIp", !.step = req[t].step]
      BY <1>2 DEF Request
    <3>4. req' = [req EXCEPT ![t].pc = "failIp", ![t].step = req[t].step] BY <3>1, <3>3
    <3> QED BY <1>8, <2>1, <3>2, <3>4
  <2>3. CASE s # {}
    <3>1. PICK i : i = CHOOSE x \in s : \A j \in s : x <= j OBVIOUS
    <3>2. i \in Step
      <4>1. \E x \in s : \A j \in s : x <= j BY <2>3, LeastAccepted DEF IInv
      <4>2. i \in s BY <3>1, <4>1
      <4> QED BY <4>2 DEF Accepted
    <3>3. req' = [req EXCEPT ![t].pc = "compare", ![t].step = i]
      BY <1>9, <2>3, <3>1 DEF Verify
    <3> QED BY <1>8, <2>1, <3>2, <3>3
  <2> QED BY <2>2, <2>3
<1>10. ASSUME NEW t \in Thread, Compare(t) PROVE IInv'
  <2>1. /\ req[t].pc = "compare" /\ req[t].step \in Step
        /\ UNCHANGED <<bucket, lastUsed, now, served, failures, redeemed, refused>>
    BY <1>10 DEF Compare, IInv, Addressed
  <2>2. PICK to \in {"failIp", "store"} : req' = [req EXCEPT ![t].pc = to]
    BY <1>10 DEF Compare, Goto
  <2>3. [req[t] EXCEPT !.pc = to] = [req[t] EXCEPT !.pc = to, !.step = req[t].step]
    BY <1>2 DEF Request
  <2>4. req' = [req EXCEPT ![t].pc = to, ![t].step = req[t].step] BY <2>2, <2>3
  <2> QED BY <1>8, <2>1, <2>2, <2>4
<1>11. ASSUME NEW t \in Thread, Store(t) PROVE IInv'
  <2>1. req[t].pc = "store" /\ req[t].step \in Nat
    BY <1>11 DEF Store, IInv, Addressed, Step
  <2>2. /\ lastUsed' = req[t].step /\ redeemed' = Append(redeemed, req[t].step)
        /\ req' = [req EXCEPT ![t] = Idle] /\ UNCHANGED <<bucket, now, failures, refused>>
    BY <1>11 DEF Store, Marked, Finish
  <2>3. Idle \in Request /\ Idle.pc = "idle" BY DEF Idle, Request, Place, NoStep, Key, Codes
  <2>4. redeemed' \in Seq(Nat) BY <2>1, <2>2 DEF IInv, Typed
  <2>5. Typed' BY <2>1, <2>2, <2>3, <2>4 DEF IInv, Typed
  <2>6. Addressed' /\ NothingInvented' BY <1>3, <2>2, <2>3, Turns
  <2> QED BY <2>5, <2>6 DEF IInv
<1>12. ASSUME NEW t \in Thread, RecordIp(t) PROVE IInv'
  <2>1. Listing(t, req[t].ip) BY <1>12 DEF RecordIp, Listing
  <2> QED BY <1>2, <1>12, <2>1, Records DEF RecordIp
<1>13. ASSUME NEW t \in Thread, RecordAll(t) PROVE IInv'
  <2>1. Listing(t, Everyone) BY <1>13 DEF RecordAll, Listing
  <2> QED BY <1>1, <1>13, <2>1, Records DEF RecordAll
<1>14. ASSUME UNCHANGED <<bucket, lastUsed, req, failures, redeemed, refused>>, now' \in Nat PROVE IInv'
  <2>1. Typed' BY <1>14 DEF IInv, Typed
  <2>2. Addressed' BY <1>14 DEF IInv, Addressed
  <2>3. \A j : Of(j)' = Of(j) BY <1>14 DEF Of
  <2>4. NothingInvented' BY <1>14, <2>3 DEF IInv, NothingInvented, Listing, NoPhantomLock
  <2> QED BY <2>1, <2>2, <2>4 DEF IInv
<1>15. CASE Tick BY <1>14, <1>15 DEF Tick, IInv, Typed
<1>16. CASE UNCHANGED vars BY <1>14, <1>16 DEF vars, IInv, Typed
<1> QED BY <1>4, <1>5, <1>6, <1>7, <1>9, <1>10, <1>11, <1>12, <1>13, <1>15, <1>16
        DEF Next, Handler, Quiesced

\* Nobody is refused for failures that did not happen, with any number of threads,
\* addresses and invented hops: behind each 429 there are as many failures of that
\* address, or of all, inside the window (sliding_check and sliding_record, whose
\* unlocked reads and writes may lose records but never invent one).
THEOREM RefusalsAreEarned == ASSUME BoundAssumption PROVE Spec => []NoPhantomLock
<1>1. Init => IInv BY InitInv
<1>2. IInv /\ [Next]_vars => IInv' BY StepInv
<1>3. IInv => NoPhantomLock BY DEF IInv, NothingInvented
<1> QED BY <1>1, <1>2, <1>3, PTL DEF Spec

-----------------------------------------------------------------------------
(* One thread                                                              *)

OneThread == \A t, u \in Thread : t = u

\* Whoever has compared its step with the guard is the next to move it, and no step
\* above the guard has been redeemed.
GuardAhead ==
  /\ \A t \in Thread : req[t].pc = "store" => req[t].step > lastUsed
  /\ LastUsedIsHighest /\ StepOnce

\* No record is lost: what a list holds of the window is what happened in it.
NothingLost ==
  /\ \A k \in Key : Recent(bucket[k]) = Happened(k)
  /\ \A t \in Thread, k \in Key : Listing(t, k) => Recent(req[t].arr) = Happened(k)
  /\ \A t \in Thread : req[t].pc = "checkIp" => req[t].real <= Cardinality(req[t].arr)
  /\ LimitHolds

LEMMA InitSerial == ASSUME Init PROVE GuardAhead /\ NothingLost
<1>1. \A t \in Thread : req[t].pc = "idle" BY DEF Init, Idle
<1>2. GuardAhead BY <1>1 DEF GuardAhead, Init, LastUsedIsHighest, StepOnce
<1>3. \A k \in Key : Recent(bucket[k]) = Happened(k) BY DEF Init, Recent, Happened
<1>4. NothingLost BY <1>1, <1>3 DEF NothingLost, Listing, LimitHolds
<1> QED BY <1>2, <1>4

LEMMA StepGuard ==
  ASSUME BoundAssumption, OneThread, IInv, GuardAhead, [Next]_vars
  PROVE  GuardAhead'
<1>1. ASSUME UNCHANGED <<lastUsed, redeemed>>,
             \A t \in Thread : req'[t].pc = "store" => req'[t].step > lastUsed
      PROVE  GuardAhead'
  BY <1>1 DEF GuardAhead, LastUsedIsHighest, StepOnce
<1>2. ASSUME NEW t \in Thread, NEW r \in Request, UNCHANGED <<lastUsed, redeemed>>,
             req' = [req EXCEPT ![t] = r], r.pc # "store"
      PROVE  GuardAhead'
  BY <1>1, <1>2 DEF IInv, Typed, GuardAhead
<1>3. \A u \in Thread : req[u] \in Request BY DEF IInv, Typed
<1>4. Idle \in Request /\ Idle.pc = "idle" BY DEF Idle, Request, Place, NoStep, Key, Codes
<1>5. ASSUME NEW t \in Thread, NEW a \in Address, NEW c \in Codes, Begin(t, a, c) PROVE GuardAhead'
  <2>1. /\ UNCHANGED <<lastUsed, redeemed>>
        /\ \A u \in Thread : req'[u].pc = "store" => req'[u] = req[u]
    BY <1>4, <1>5 DEF Begin, IInv, Typed, Request
  <2> QED BY <1>1, <2>1 DEF GuardAhead
<1>6. ASSUME NEW t \in Thread, NEW from, NEW to, NEW k, Read(t, from, to, k), to # "store"
      PROVE  GuardAhead'
  <2>1. /\ UNCHANGED <<lastUsed, redeemed>>
        /\ \A u \in Thread : req'[u].pc = "store" => req'[u] = req[u]
    BY <1>3, <1>6 DEF Read, IInv, Typed, Request
  <2> QED BY <1>1, <2>1 DEF GuardAhead
<1>7. ASSUME NEW t \in Thread, NEW from, NEW to, NEW k, NEW l, Check(t, from, to, k, l), to # "store"
      PROVE  GuardAhead'
  <2>1. /\ UNCHANGED <<lastUsed, redeemed>>
        /\ \A u \in Thread : req'[u].pc = "store" => req'[u] = req[u]
    BY <1>3, <1>4, <1>7 DEF Check, Finish, Goto, IInv, Typed, Request
  <2> QED BY <1>1, <2>1 DEF GuardAhead
<1>8. ASSUME NEW t \in Thread, Verify(t) PROVE GuardAhead'
  <2>1. /\ UNCHANGED <<lastUsed, redeemed>>
        /\ \A u \in Thread : req'[u].pc = "store" => req'[u] = req[u]
    BY <1>3, <1>8 DEF Verify, IInv, Typed, Request
  <2> QED BY <1>1, <2>1 DEF GuardAhead
<1>9. ASSUME NEW t \in Thread, Compare(t) PROVE GuardAhead'
  <2>1. req[t].step \in Step BY <1>9 DEF Compare, IInv, Addressed
  <2>2. UNCHANGED <<lastUsed, redeemed>> BY <1>9 DEF Compare
  <2>3. ASSUME NEW u \in Thread, req'[u].pc = "store" PROVE req'[u].step > lastUsed
    <3>1. CASE u = t
      <4>1. ~Used(req[t].step) /\ req'[u].step = req[t].step
        BY <1>3, <1>9, <2>3, <3>1 DEF Compare, Goto, IInv, Typed, Request
      <4> QED BY <2>1, <4>1 DEF Used, Step, IInv, Typed
    <3>2. CASE u # t BY <1>9, <2>3, <3>2 DEF Compare, Goto, IInv, Typed, GuardAhead
    <3> QED BY <3>1, <3>2
  <2> QED BY <1>1, <2>2, <2>3
<1>10. ASSUME NEW t \in Thread, Store(t) PROVE GuardAhead'
  <2>1. /\ req[t].pc = "store" /\ req[t].step \in Nat /\ req[t].step > lastUsed
        /\ lastUsed \in Nat /\ redeemed \in Seq(Nat)
    BY <1>10 DEF Store, IInv, Typed, Addressed, Step, GuardAhead
  <2>2. /\ lastUsed' = req[t].step /\ redeemed' = Append(redeemed, req[t].step)
        /\ req' = [req EXCEPT ![t] = Idle]
    BY <1>10 DEF Store, Marked, Finish
  <2>3. /\ Len(redeemed') = Len(redeemed) + 1 /\ Len(redeemed) \in Nat
        /\ DOMAIN redeemed = 1..Len(redeemed) /\ DOMAIN redeemed' = 1..Len(redeemed')
        /\ \A i \in 1..Len(redeemed) : redeemed'[i] = redeemed[i] /\ redeemed[i] \in Nat
        /\ redeemed'[Len(redeemed) + 1] = req[t].step
    BY <2>1, <2>2
  <2>4. \A i \in DOMAIN redeemed : redeemed[i] <= lastUsed
    BY DEF GuardAhead, LastUsedIsHighest
  <2>5. LastUsedIsHighest' BY <2>1, <2>2, <2>3, <2>4 DEF LastUsedIsHighest
  <2>6. StepOnce'
    <3>1. SUFFICES ASSUME NEW i \in DOMAIN redeemed', NEW j \in DOMAIN redeemed',
                          redeemed'[i] = redeemed'[j]
                   PROVE  i = j
      BY DEF StepOnce
    <3>2. CASE i \in DOMAIN redeemed /\ j \in DOMAIN redeemed
      BY <2>3, <3>1, <3>2 DEF GuardAhead, StepOnce
    <3>3. CASE i \in DOMAIN redeemed /\ j \notin DOMAIN redeemed BY <2>1, <2>3, <2>4, <3>1, <3>3
    <3>4. CASE i \notin DOMAIN redeemed /\ j \in DOMAIN redeemed BY <2>1, <2>3, <2>4, <3>1, <3>4
    <3>5. CASE i \notin DOMAIN redeemed /\ j \notin DOMAIN redeemed BY <2>3, <3>5
    <3> QED BY <3>2, <3>3, <3>4, <3>5
  <2>7. \A u \in Thread : req'[u].pc # "store" BY <1>4, <2>2 DEF OneThread, IInv, Typed
  <2> QED BY <2>5, <2>6, <2>7 DEF GuardAhead
<1>11. ASSUME NEW t \in Thread, RecordIp(t) \/ RecordAll(t) PROVE GuardAhead'
  <2>1. /\ UNCHANGED <<lastUsed, redeemed>>
        /\ \A u \in Thread : req'[u].pc = "store" => req'[u] = req[u]
    BY <1>3, <1>4, <1>11 DEF RecordIp, RecordAll, Record, Goto, Finish, IInv, Typed, Request
  <2> QED BY <1>1, <2>1 DEF GuardAhead
<1>12. CASE Tick BY <1>1, <1>12 DEF Tick, GuardAhead
<1>13. CASE UNCHANGED vars BY <1>1, <1>13 DEF vars, GuardAhead
<1>14. ASSUME NEW t \in Thread, Handler(t) PROVE GuardAhead'
  BY <1>6, <1>7, <1>8, <1>9, <1>10, <1>11, <1>14
     DEF Handler, ReadIp, ReadAll, ReadIpAgain, ReadAllAgain, CheckIp, CheckAll
<1> QED BY <1>5, <1>12, <1>13, <1>14 DEF Next, Quiesced

\* "Accepting a step only once": with one request thread no TOTP step opens two owner
\* sessions, and the guard is the highest step redeemed (admin.login).  With two, both
\* may compare before either stores, and one code opens two.
THEOREM CodesAreSpent ==
  ASSUME BoundAssumption, OneThread
  PROVE  Spec => [](StepOnce /\ LastUsedIsHighest)
<1>1. Init => IInv /\ GuardAhead BY InitInv, InitSerial
<1>2. IInv /\ GuardAhead /\ [Next]_vars => (IInv /\ GuardAhead)' BY StepInv, StepGuard
<1>3. GuardAhead => StepOnce /\ LastUsedIsHighest BY DEF GuardAhead
<1> QED BY <1>1, <1>2, <1>3, PTL DEF Spec

\* The one request takes a step to r and nothing is recorded.
LEMMA OneTurn ==
  ASSUME OneThread, IInv, NothingLost, NEW t \in Thread, NEW r \in Request,
         req' = [req EXCEPT ![t] = r], UNCHANGED <<failures, now>>,
         \A k \in Key : Recent(bucket'[k]) = Happened(k),
         r.pc \in {"checkIp", "writeIp"} => Recent(r.arr) = Happened(r.ip),
         r.pc \in {"checkAll", "writeAll"} => Recent(r.arr) = Happened(Everyone),
         r.pc = "checkIp" => r.real <= Cardinality(r.arr),
         r.pc = "readAll" => r.real < MaxIp
  PROVE  NothingLost'
<1>1. \A u \in Thread : u = t /\ req'[u] = r BY DEF OneThread, IInv, Typed
<1>2. \A k : Happened(k)' = Happened(k) BY DEF Happened, Recent
<1>3. \A k \in Key : Recent(bucket[k])' = Happened(k)' BY <1>2 DEF Recent
<1>4. ASSUME NEW u \in Thread, NEW k \in Key, Listing(u, k)' PROVE Recent(req[u].arr)' = Happened(k)'
  <2>1. Recent(r.arr) = Happened(k) BY <1>1, <1>4 DEF Listing
  <2> QED BY <1>1, <1>2, <2>1 DEF Recent
<1>5. \A u \in Thread : req'[u].pc = "checkIp" => req'[u].real <= Cardinality(req'[u].arr)
  BY <1>1
<1>6. LimitHolds' BY <1>1 DEF LimitHolds
<1> QED BY <1>3, <1>4, <1>5, <1>6 DEF NothingLost

LEMMA StepNothingLost ==
  ASSUME BoundAssumption, OneThread, IInv, NothingLost, [Next]_vars
  PROVE  NothingLost'
<1>1. Everyone \in Key /\ Address \subseteq Key BY DEF Key
<1>2. \A u \in Thread : req[u] \in Request /\ req[u].ip \in Key
  BY DEF IInv, Typed, Request
<1>3. \A j \in Key : Recent(bucket[j]) = Happened(j) BY DEF NothingLost
<1>4. Idle \in Request /\ Idle.pc = "idle" BY DEF Idle, Request, Place, NoStep, Key, Codes
<1>5. ASSUME NEW t \in Thread, NEW r \in Request, req' = [req EXCEPT ![t] = r],
             UNCHANGED <<bucket, failures, now>>,
             r.pc \notin {"checkIp", "writeIp", "checkAll", "writeAll", "readAll"}
      PROVE  NothingLost'
  BY <1>3, <1>5, OneTurn
<1>6. ASSUME NEW t \in Thread, NEW a \in Address, NEW c \in Codes, Begin(t, a, c) PROVE NothingLost'
  <2>1. PICK hops \in Hops(a) :
          req' = [req EXCEPT ![t] = [Idle EXCEPT !.pc = "readIp", !.ip = ClientIp(hops), !.code = c]]
    BY <1>6 DEF Begin
  <2>2. ClientIp(hops) \in Key BY <1>1, ClientIpIsTheHop
  <2> DEFINE r == [Idle EXCEPT !.pc = "readIp", !.ip = ClientIp(hops), !.code = c]
  <2>3. r \in Request /\ r.pc = "readIp" BY <1>4, <2>2 DEF Request, Place
  <2>4. UNCHANGED <<bucket, failures, now>> /\ req' = [req EXCEPT ![t] = r]
    BY <1>6, <2>1 DEF Begin
  <2> HIDE DEF r
  <2> QED BY <1>5, <2>3, <2>4
<1>7. ASSUME NEW t \in Thread, NEW from \in Place \ {"idle"}, NEW k \in Key,
             NEW to \in {"checkIp", "writeIp", "checkAll", "writeAll"}, Read(t, from, to, k),
             to \in {"checkIp", "writeIp"} => k = req[t].ip,
             to \in {"checkAll", "writeAll"} => k = Everyone
      PROVE  NothingLost'
  <2> DEFINE r == [req[t] EXCEPT !.pc = to, !.arr = Recent(bucket[k]),
                                 !.real = Cardinality(Happened(k))]
  <2>1. Recent(bucket[k]) = Happened(k) /\ bucket[k] \in SUBSET Entry BY <1>3 DEF IInv, Typed
  <2>2. Recent(Recent(bucket[k])) = Recent(bucket[k]) /\ Recent(bucket[k]) \in SUBSET Entry
    BY <2>1 DEF Recent
  <2>3. Cardinality(Happened(k)) \in Nat
    <3>1. Happened(k) \subseteq failures BY DEF Happened, Recent
    <3> QED BY <3>1, PartCounted DEF IInv, Typed
  <2>4. r \in Request BY <1>2, <2>2, <2>3 DEF Request, Place
  <2>5. /\ r.pc = to /\ r.arr = Recent(bucket[k]) /\ r.real = Cardinality(Happened(k))
        /\ r.ip = req[t].ip
    BY <1>2 DEF Request
  <2>6. req' = [req EXCEPT ![t] = r] /\ UNCHANGED <<bucket, failures, now>> BY <1>7 DEF Read
  <2>7. Recent(r.arr) = Happened(k) BY <2>1, <2>2, <2>5
  <2>8. r.real <= Cardinality(r.arr) BY <2>1, <2>3, <2>5
  <2> HIDE DEF r
  <2> QED BY <1>3, <1>7, <2>4, <2>5, <2>6, <2>7, <2>8, OneTurn
<1>8. ASSUME NEW t \in Thread, ReadIp(t) \/ ReadAll(t) \/ ReadIpAgain(t) \/ ReadAllAgain(t)
      PROVE  NothingLost'
  <2>1. CASE ReadIp(t) BY <1>2, <1>7, <2>1 DEF ReadIp, Place
  <2>2. CASE ReadAll(t) BY <1>1, <1>7, <2>2 DEF ReadAll, Place
  <2>3. CASE ReadIpAgain(t) BY <1>2, <1>7, <2>3 DEF ReadIpAgain, Place
  <2>4. CASE ReadAllAgain(t) BY <1>1, <1>7, <2>4 DEF ReadAllAgain, Place
  <2> QED BY <1>8, <2>1, <2>2, <2>3, <2>4
<1>9. ASSUME NEW t \in Thread, NEW from, NEW to \in {"readAll", "verify"}, NEW k \in Key, NEW limit,
             Check(t, from, to, k, limit), Listing(t, k),
             to = "readAll" => from = "checkIp" /\ limit = MaxIp
      PROVE  NothingLost'
  <2>1. bucket' = [bucket EXCEPT ![k] = req[t].arr] /\ UNCHANGED <<failures, now>>
    BY <1>9 DEF Check
  <2>2. Recent(req[t].arr) = Happened(k) BY <1>9 DEF NothingLost
  <2>3. \A j \in Key : Recent(bucket'[j]) = Happened(j) BY <1>3, <2>1, <2>2 DEF IInv, Typed
  <2>4. CASE Over(req[t].arr, limit)
    <3>1. req' = [req EXCEPT ![t] = Idle] BY <1>9, <2>4 DEF Check, Finish
    <3> QED BY <1>4, <2>1, <2>3, <3>1, OneTurn
  <2>5. CASE ~Over(req[t].arr, limit)
    <3> DEFINE r == [req[t] EXCEPT !.pc = to]
    <3>1. req' = [req EXCEPT ![t] = r] BY <1>9, <2>5 DEF Check, Goto
    <3>2. r \in Request /\ r.pc = to /\ r.real = req[t].real BY <1>2 DEF Request, Place
    <3>3. to = "readAll" => req[t].real < MaxIp
      <4>1. SUFFICES ASSUME to = "readAll" PROVE req[t].real < MaxIp OBVIOUS
      <4>2. req[t].real <= Cardinality(req[t].arr) BY <1>9, <4>1 DEF Check, NothingLost
      <4>3. req[t].arr \subseteq failures
        BY <1>9 DEF IInv, NothingInvented, Of
      <4>4. Cardinality(req[t].arr) \in Nat /\ req[t].real \in Nat
        BY <1>2, <4>3, PartCounted DEF IInv, Typed, Request
      <4> QED BY <1>9, <2>5, <4>1, <4>2, <4>4 DEF Over, BoundAssumption
    <3> HIDE DEF r
    <3> QED BY <2>1, <2>3, <3>1, <3>2, <3>3, OneTurn
  <2> QED BY <2>4, <2>5
<1>10. ASSUME NEW t \in Thread, CheckIp(t) PROVE NothingLost'
  <2>1. Listing(t, req[t].ip) BY <1>10 DEF CheckIp, Check, Listing
  <2> QED BY <1>2, <1>9, <1>10, <2>1 DEF CheckIp
<1>11. ASSUME NEW t \in Thread, CheckAll(t) PROVE NothingLost'
  <2>1. Listing(t, Everyone) BY <1>11 DEF CheckAll, Check, Listing
  <2> QED BY <1>1, <1>9, <1>11, <2>1 DEF CheckAll
<1>12. ASSUME NEW t \in Thread, Verify(t) \/ Compare(t) \/ Store(t) PROVE NothingLost'
  <2>1. UNCHANGED <<bucket, failures, now>> BY <1>12 DEF Verify, Compare, Store
  <2>2. req' \in [Thread -> Request] BY StepInv DEF IInv, Typed
  <2>3. PICK r \in Request : r = req'[t] BY <2>2
  <2>4. req' = [req EXCEPT ![t] = r] BY <2>2, <2>3 DEF OneThread, IInv, Typed
  <2>5. r.pc \notin {"checkIp", "writeIp", "checkAll", "writeAll", "readAll"}
    <3>1. CASE Verify(t)
      <4>1. req'[t].pc \in {"failIp", "compare"} BY <1>2, <3>1 DEF Verify, IInv, Typed, Request
      <4> QED BY <2>3, <4>1
    <3>2. CASE Compare(t)
      <4>1. req'[t].pc \in {"failIp", "store"} BY <1>2, <3>2 DEF Compare, Goto, IInv, Typed, Request
      <4> QED BY <2>3, <4>1
    <3>3. CASE Store(t) BY <1>4, <2>3, <3>3 DEF Store, Finish, IInv, Typed
    <3> QED BY <1>12, <3>1, <3>2, <3>3
  <2> QED BY <1>5, <2>1, <2>4, <2>5
<1>13. ASSUME NEW t \in Thread, NEW k \in Key, Listing(t, k), Record(k, req[t].arr),
              req'[t].pc \in {"idle", "failAll"}
       PROVE  NothingLost'
  <2>1. \A u \in Thread : u = t BY DEF OneThread
  <2>2. /\ bucket' = [bucket EXCEPT ![k] = req[t].arr \cup {Failure(k)}]
        /\ failures' = failures \cup {Failure(k)} /\ UNCHANGED now
    BY <1>13 DEF Record, Noted
  <2>3. Failure(k) \in Entry /\ Failure(k).key = k /\ Failure(k).at = now
    BY FailureTyped DEF IInv
  <2>4. Failure(k).at > now - Window BY <2>3 DEF BoundAssumption, IInv, Typed
  <2>5. Recent(req[t].arr) = Happened(k) BY <1>13 DEF NothingLost
  <2>6. Happened(k)' = Happened(k) \cup {Failure(k)}
    BY <2>2, <2>3, <2>4 DEF Happened, Recent
  <2>7. \A j \in Key : j # k => Happened(j)' = Happened(j)
    BY <2>2, <2>3 DEF Happened, Recent
  <2>8. Recent(bucket[k])' = Recent(req[t].arr) \cup {Failure(k)}
    BY <2>2, <2>4 DEF Recent, IInv, Typed
  <2>9. \A j \in Key : j # k => Recent(bucket[j])' = Recent(bucket[j])
    BY <2>2 DEF Recent, IInv, Typed
  <2>10. \A j \in Key : Recent(bucket[j])' = Happened(j)'
    BY <1>3, <2>5, <2>6, <2>7, <2>8, <2>9
  <2>11. \A u \in Thread, j \in Key : ~Listing(u, j)' BY <1>13, <2>1 DEF Listing
  <2>12. LimitHolds' BY <1>13, <2>1 DEF LimitHolds
  <2> QED BY <1>13, <2>1, <2>10, <2>11, <2>12 DEF NothingLost
<1>14. ASSUME NEW t \in Thread, RecordIp(t) PROVE NothingLost'
  <2>1. Listing(t, req[t].ip) BY <1>14 DEF RecordIp, Listing
  <2>2. req'[t].pc = "failAll" BY <1>2, <1>14 DEF RecordIp, Goto, IInv, Typed, Request
  <2> QED BY <1>2, <1>13, <1>14, <2>1, <2>2 DEF RecordIp
<1>15. ASSUME NEW t \in Thread, RecordAll(t) PROVE NothingLost'
  <2>1. Listing(t, Everyone) BY <1>15 DEF RecordAll, Listing
  <2>2. req'[t].pc = "idle" BY <1>4, <1>15 DEF RecordAll, Finish, IInv, Typed
  <2> QED BY <1>1, <1>13, <1>15, <2>1, <2>2 DEF RecordAll
<1>16. CASE Tick
  <2>1. now' = now + 1 /\ now \in Nat /\ UNCHANGED <<bucket, req, failures>>
    BY <1>16 DEF Tick, IInv, Typed
  <2>2. ASSUME NEW A \in SUBSET Entry, NEW B \in SUBSET Entry, Recent(A) = Recent(B)
        PROVE  {f \in A : f.at > now' - Window} = {f \in B : f.at > now' - Window}
    <3>1. \A f \in Entry : f.at > now' - Window => f.at > now - Window
      BY <2>1 DEF Entry, BoundAssumption
    <3>2. ASSUME NEW f \in Entry, f.at > now' - Window PROVE f \in A <=> f \in B
      BY <2>2, <3>1, <3>2 DEF Recent
    <3> QED BY <3>2
  <2>3. \A k \in Key : {f \in failures : f.key = k} \in SUBSET Entry /\ bucket[k] \in SUBSET Entry
    BY DEF IInv, Typed
  <2>4. \A k : Happened(k) = Recent({f \in failures : f.key = k}) BY DEF Happened
  <2>5. \A k \in Key : Recent(bucket[k])' = Happened(k)'
    <3>1. TAKE k \in Key
    <3>2. Recent(bucket[k]) = Recent({f \in failures : f.key = k}) BY <1>3, <2>4
    <3>3. {f \in bucket[k] : f.at > now' - Window}
            = {f \in {f \in failures : f.key = k} : f.at > now' - Window}
      BY <2>2, <2>3, <3>2
    <3> QED BY <2>1, <3>3 DEF Happened, Recent
  <2>6. ASSUME NEW t \in Thread, NEW k \in Key, Listing(t, k)' PROVE Recent(req[t].arr)' = Happened(k)'
    <3>1. Listing(t, k) BY <2>1, <2>6 DEF Listing
    <3>2. Recent(req[t].arr) = Recent({f \in failures : f.key = k})
      BY <2>4, <3>1 DEF NothingLost
    <3>3. req[t].arr \in SUBSET Entry BY <1>2 DEF Request
    <3>4. {f \in req[t].arr : f.at > now' - Window}
            = {f \in {f \in failures : f.key = k} : f.at > now' - Window}
      BY <2>2, <2>3, <3>2, <3>3
    <3> QED BY <2>1, <3>4 DEF Happened, Recent
  <2>7. LimitHolds' BY <2>1 DEF NothingLost, LimitHolds
  <2>8. \A t \in Thread : req'[t].pc = "checkIp" => req'[t].real <= Cardinality(req'[t].arr)
    BY <2>1 DEF NothingLost
  <2> QED BY <2>5, <2>6, <2>7, <2>8 DEF NothingLost
<1>17. CASE UNCHANGED vars
  BY <1>17 DEF vars, NothingLost, Listing, LimitHolds, Recent, Happened
<1>18. ASSUME NEW t \in Thread, Handler(t) PROVE NothingLost'
  BY <1>8, <1>10, <1>11, <1>12, <1>14, <1>15, <1>18 DEF Handler
<1> QED BY <1>6, <1>16, <1>17, <1>18 DEF Next, Quiesced

\* sliding_check lets nobody on whose failures in the window have reached the limit, as
\* they come and age: with one request thread.  With two, both may read the list
\* before either writes it back, and one failure is lost.
THEOREM LimitIsKept ==
  ASSUME BoundAssumption, OneThread
  PROVE  Spec => []LimitHolds
<1>1. Init => IInv /\ NothingLost BY InitInv, InitSerial
<1>2. IInv /\ NothingLost /\ [Next]_vars => (IInv /\ NothingLost)' BY StepInv, StepNothingLost
<1>3. NothingLost => LimitHolds BY DEF NothingLost
<1> QED BY <1>1, <1>2, <1>3, PTL DEF Spec
=============================================================================
