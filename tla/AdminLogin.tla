----------------------------- MODULE AdminLogin -----------------------------
(***************************************************************************)
(* The owner's login: auth/admin.py over auth/totp.py and the sliding      *)
(* windows of auth/ratelimit.py.  The four request threads share the       *)
(* buckets and _last_used_step without a lock, so every read of a bucket   *)
(* and the write of the filtered list are two steps, and so are the        *)
(* comparison with _last_used_step and its update.                         *)
(*                                                                         *)
(* The clock counts TOTP steps of 30 s; codes are numbers, CodeOf gives    *)
(* the code of a step (two steps may share one).  A bucket's list of times *)
(* is the set of the failures it stands for, as nothing looks at its order.*)
(***************************************************************************)
EXTENDS Integers, Sequences, FiniteSets, SequencesExt

CONSTANTS
  Thread,     \* request threads
  Address,    \* addresses the proxy sees
  Wrong,      \* a code no step has
  CodeOf,     \* code of each step of this instance
  MaxTime,    \* bound: the clock
  MaxReq,     \* bound: requests
  Window,     \* _WINDOW_SECONDS, in steps
  MaxIp,      \* _MAX_IP_FAILURES
  MaxGlobal   \* _MAX_GLOBAL_FAILURES

Everyone == "*"     \* _GLOBAL_KEY

\* What the constants may be: no address is the key of all.
BoundAssumption ==
  /\ MaxTime \in Nat /\ MaxReq \in Nat
  /\ Window \in Nat \ {0} /\ MaxIp \in Nat \ {0} /\ MaxGlobal \in Nat \ {0}
  /\ DOMAIN CodeOf = 1..(MaxTime + 1)
  /\ Everyone \notin Address

Key  == Address \cup {Everyone}
Step == 1..(MaxTime + 1)
NoStep == 0

VARIABLES
  bucket,     \* _failures: the failures listed per key
  lastUsed,   \* _last_used_step
  req,        \* per thread: request, next step, the list it read, the failures that
              \* had really happened when it read it, and the step of its code
  now, served,
  failures,   \* every failure there was, with its key, its time and its number
  redeemed,   \* steps that opened a session, in order
  refused     \* 429 answers: what the refusal was based on

vars == <<bucket, lastUsed, req, now, served, failures, redeemed, refused>>
Idle == [pc |-> "idle", ip |-> Everyone, code |-> Wrong, arr |-> {},
         real |-> 0, step |-> NoStep]

Init ==
  /\ bucket = [k \in Key |-> {}] /\ lastUsed = 0
  /\ req = [t \in Thread |-> Idle] /\ now = 2 /\ served = 0
  /\ failures = {} /\ redeemed = <<>> /\ refused = {}

Recent(arr) == {f \in arr : f.at > now - Window}
Goto(t, pc) == req' = [req EXCEPT ![t].pc = pc]
Finish(t)   == req' = [req EXCEPT ![t] = Idle]

\* The failures under key k inside the window, whatever the bucket holds.
Happened(k) == Recent({f \in failures : f.key = k})

-----------------------------------------------------------------------------
(* A request                                                               *)

\* client_ip: the hop the proxy appended.
ClientIp(hops) == Last(hops)

\* X-Forwarded-For as it arrives: the address, perhaps behind an invented hop.
Hops(a) == {<<a>>} \cup {<<b, a>> : b \in Address}

Begin(t, a, code) ==
  /\ req[t].pc = "idle" /\ served < MaxReq /\ served' = served + 1
  /\ \E hops \in Hops(a) :
       req' = [req EXCEPT ![t] = [Idle EXCEPT !.pc = "readIp", !.ip = ClientIp(hops), !.code = code]]
  /\ UNCHANGED <<bucket, lastUsed, now, failures, redeemed, refused>>

\* sliding_check and sliding_record read the bucket and filter it ...
Read(t, from, to, k) ==
  /\ req[t].pc = from
  /\ req' = [req EXCEPT ![t].pc = to, ![t].arr = Recent(bucket[k]),
                     ![t].real = Cardinality(Happened(k))]
  /\ UNCHANGED <<bucket, lastUsed, now, served, failures, redeemed, refused>>

ReadIp(t)  == Read(t, "readIp", "checkIp", req[t].ip)
ReadAll(t) == Read(t, "readAll", "checkAll", Everyone)
ReadIpAgain(t)  == Read(t, "failIp", "writeIp", req[t].ip)
ReadAllAgain(t) == Read(t, "failAll", "writeAll", Everyone)

Over(arr, limit) == Cardinality(arr) >= limit

\* ... sliding_check writes the filtered list back and compares its length.
Check(t, from, to, k, limit) ==
  /\ req[t].pc = from /\ bucket' = [bucket EXCEPT ![k] = req[t].arr]
  /\ IF Over(req[t].arr, limit)
     THEN Finish(t) /\ refused' = refused \cup {[key |-> k, real |-> req[t].real]}
     ELSE Goto(t, to) /\ UNCHANGED refused
  /\ UNCHANGED <<lastUsed, now, served, failures, redeemed>>

CheckIp(t)  == Check(t, "checkIp", "readAll", req[t].ip, MaxIp)
CheckAll(t) == Check(t, "checkAll", "verify", Everyone, MaxGlobal)

\* verify: the steps around now whose code this is; it returns the first.
Accepted(code) == {s \in Step : s \in (now - 1)..(now + 1) /\ CodeOf[s] = code}

Verify(t) ==
  LET s == Accepted(req[t].code) IN
  /\ req[t].pc = "verify"
  /\ req' = IF s = {} THEN [req EXCEPT ![t].pc = "failIp"]
            ELSE [req EXCEPT ![t].pc = "compare",
                             ![t].step = CHOOSE i \in s : \A j \in s : i <= j]
  /\ UNCHANGED <<bucket, lastUsed, now, served, failures, redeemed, refused>>

\* The replay guard.
Used(s) == s <= lastUsed

\* _last_used_step = step.
Marked(s) == s

Compare(t) ==
  /\ req[t].pc = "compare"
  /\ Goto(t, IF Used(req[t].step) THEN "failIp" ELSE "store")
  /\ UNCHANGED <<bucket, lastUsed, now, served, failures, redeemed, refused>>

\* The step is marked, login_admin, 200.
Store(t) ==
  /\ req[t].pc = "store" /\ lastUsed' = Marked(req[t].step)
  /\ redeemed' = Append(redeemed, req[t].step) /\ Finish(t)
  /\ UNCHANGED <<bucket, now, served, failures, refused>>

\* A failure of this moment.
Failure(k) == [key |-> k, at |-> now, n |-> Cardinality(failures)]

\* Mutant of Noted: the failure is forgotten and the list written back as it was.
NotedNot(arr, f) == arr

Noted(arr, f) == arr \cup {f}

\* sliding_record appends to the list it read and writes it back.
Record(k, arr) ==
  /\ bucket' = [bucket EXCEPT ![k] = Noted(arr, Failure(k))]
  /\ failures' = failures \cup {Failure(k)}
  /\ UNCHANGED <<lastUsed, now, served, redeemed, refused>>

RecordIp(t)  == req[t].pc = "writeIp" /\ Record(req[t].ip, req[t].arr) /\ Goto(t, "failAll")
RecordAll(t) == req[t].pc = "writeAll" /\ Record(Everyone, req[t].arr) /\ Finish(t)

Tick == now < MaxTime /\ now' = now + 1
        /\ UNCHANGED <<bucket, lastUsed, req, served, failures, redeemed, refused>>

Quiesced == served = MaxReq /\ (\A t \in Thread : req[t] = Idle) /\ UNCHANGED vars

Handler(t) ==
  \/ ReadIp(t) \/ CheckIp(t) \/ ReadAll(t) \/ CheckAll(t) \/ Verify(t) \/ Compare(t)
  \/ Store(t) \/ ReadIpAgain(t) \/ RecordIp(t) \/ ReadAllAgain(t) \/ RecordAll(t)

Codes == {CodeOf[s] : s \in Step} \cup {Wrong}

Next ==
  \/ \E t \in Thread : Handler(t) \/ \E a \in Address, c \in Codes : Begin(t, a, c)
  \/ Tick \/ Quiesced

Spec == Init /\ [][Next]_vars

-----------------------------------------------------------------------------
(* Properties                                                              *)

\* "Accepting a step only once" (admin.py:36): no TOTP step opens two sessions.
\* With one thread: two compare before either stores.
StepOnce == \A i, j \in DOMAIN redeemed : redeemed[i] = redeemed[j] => i = j

\* "Highest timestep that has already been redeemed".  With one thread only.
LastUsedIsHighest == \A i \in DOMAIN redeemed : redeemed[i] <= lastUsed

\* Nobody is refused for failures that did not happen: behind each 429 there
\* are as many real failures of that address, or of all, inside the window,
\* however the unlocked reads and writes of the buckets interleave and
\* whatever hops a request invents.
NoPhantomLock ==
  \A r \in refused : r.real >= IF r.key = Everyone THEN MaxGlobal ELSE MaxIp

\* sliding_check: "Return True if the key is already at/over the limit", as
\* failures come and age out of the window.  With one thread: two lose each
\* other's records.
LimitHolds ==
  \A t \in Thread : req[t].pc = "readAll" => req[t].real < MaxIp
=============================================================================
