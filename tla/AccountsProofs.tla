--------------------------- MODULE AccountsProofs ---------------------------
(***************************************************************************)
(* Accounts and sessions for any number of browsers, threads, names, rows  *)
(* and links: what a cookie, a link, a stamp and a count of guesses can    *)
(* come to while requests overlap.                                         *)
(***************************************************************************)
EXTENDS Accounts, FiniteSetTheorems, TLAPS

USE DEF Id, Token, None, Never, tables, buckets, history

-----------------------------------------------------------------------------
(* Types                                                                   *)

Session == [uid : Id \cup {None}, admin : (0..MaxTime) \cup {Never}, perm : BOOLEAN]
Place   == {"idle", "run", "insert", "welcome", "verify", "burn", "setpw", "style"}
Request == [pc : Place, op : Ops \cup {"none"}, c : Client \cup {"none"}, s : Session,
            name : Name \cup {NoName}, pw : Pw \cup {NoPw}, uid : Id \cup {None},
            link : Token \cup {None}]
Row     == [name : Name \cup {NoName}, pw : Pw \cup {NoPw},
            status : {"none", "pending", "allowed", "blocked"},
            style : Style \cup {"plain"}, link : Token \cup {None}, until : Nat]

Typed ==
  /\ row \in [Id -> Row] /\ nextId \in Nat \ {0} /\ nextToken \in Nat \ {0}
  /\ userFails \in [Name -> Nat] /\ ipFails \in [Client -> Nat] /\ regs \in [Client -> Nat]
  /\ cookie \in [Client -> Session] /\ req \in [Thread -> Request]
  /\ now \in 0..MaxTime /\ tokenOf \in [Token -> Id \cup {None}]
  /\ redeemed \in [Token -> Nat] /\ born \in [Id -> Nat]
  /\ mine = [c \in Client |-> mine[c]] /\ codeAt \in [Client -> (0..MaxTime) \cup {Never}]
  /\ out \in SUBSET Client /\ adminOut \in SUBSET Client /\ guesses \in [Client -> Nat]

\* What a request holds while it is under way.
Held ==
  \A t \in Thread :
    /\ req[t].pc # "idle" => req[t].c \in Client
    /\ req[t].pc = "insert" => req[t].name \in Name /\ req[t].pw \in Pw
    /\ req[t].pc = "verify" => req[t].name \in Name /\ (req[t].pw # NoPw => req[t].uid \in Id)
    /\ req[t].pc = "welcome" => req[t].uid \in Id
    /\ req[t].pc \in {"burn", "setpw"} =>
         req[t].uid \in Id /\ req[t].link \in Token
    /\ req[t].pc = "style" => req[t].s.uid \in Id

LEMMA InitTyped == ASSUME BoundAssumption, Init PROVE Typed /\ Held
<1>1. NoRow \in Row /\ Visitor \in Session /\ Idle \in Request
  BY DEF NoRow, Visitor, Idle, Row, Session, Request, Place
<1>2. MaxTime \in Nat /\ MaxId \in Nat /\ MaxToken \in Nat
  BY DEF BoundAssumption
<1>3. Typed
  BY <1>1, <1>2 DEF Init, Typed
<1>4. Held
  BY DEF Init, Held, Idle
<1> QED BY <1>3, <1>4

-----------------------------------------------------------------------------
(* The ways of a request                                                   *)

\* Request t goes on as r, the others stay.
Goes(t, r) ==
  /\ req' = [req EXCEPT ![t] = r] /\ r.c = req[t].c /\ r.s = req[t].s
  /\ UNCHANGED <<cookie, now>>

\* Request t is answered; its browser keeps its cookie or gets s.
Closes(t, s) ==
  /\ req' = [req EXCEPT ![t] = Idle] /\ UNCHANGED now
  /\ cookie' = cookie \/ cookie' = [cookie EXCEPT ![req[t].c] = s]

LEMMA Responds ==
  ASSUME NEW t \in Thread, NEW s, NEW changed \in BOOLEAN, Respond(t, s, changed)
  PROVE  Closes(t, s)
  BY DEF Respond, Closes

LEMMA GoesTo == ASSUME Typed, NEW t \in Thread, NEW r, Goes(t, r) PROVE req'[t] = r
  BY DEF Goes, Typed

LEMMA ClosesTyped ==
  ASSUME Typed, Held, NEW t \in Thread, req[t].pc # "idle", NEW s \in Session, Closes(t, s)
  PROVE  /\ cookie' \in [Client -> Session] /\ req' \in [Thread -> Request] /\ now' \in 0..MaxTime
         /\ Held'
<1>1. Idle \in Request /\ Idle.pc = "idle"
  BY DEF Idle, Visitor, Request, Session, Place
<1>2. req[t].c \in Client
  BY DEF Held
<1>3. cookie' \in [Client -> Session] /\ req' \in [Thread -> Request] /\ now' \in 0..MaxTime
  BY <1>1, <1>2 DEF Closes, Typed
<1>4. \A u \in Thread : req'[u] = IF u = t THEN Idle ELSE req[u]
  BY DEF Closes, Typed
<1>5. Held'
  BY <1>1, <1>4 DEF Held
<1> QED BY <1>3, <1>5

LEMMA GoesTyped ==
  ASSUME Typed, Held, NEW t \in Thread, NEW r \in Request, Goes(t, r), req[t].pc # "idle",
         r.pc = "insert" => r.name \in Name /\ r.pw \in Pw,
         r.pc = "verify" => r.name \in Name /\ (r.pw # NoPw => r.uid \in Id),
         r.pc = "welcome" => r.uid \in Id,
         r.pc \in {"burn", "setpw"} => r.uid \in Id /\ r.link \in Token,
         r.pc = "style" => r.s.uid \in Id
  PROVE  /\ cookie' \in [Client -> Session] /\ req' \in [Thread -> Request] /\ now' \in 0..MaxTime
         /\ Held'
<1>1. cookie' \in [Client -> Session] /\ req' \in [Thread -> Request] /\ now' \in 0..MaxTime
  BY DEF Goes, Typed
<1>2. \A u \in Thread : req'[u] = IF u = t THEN r ELSE req[u]
  BY DEF Goes, Typed
<1>3. r.c \in Client
  BY DEF Goes, Held
<1>4. Held'
  BY <1>2, <1>3 DEF Held
<1> QED BY <1>1, <1>4

LEMMA SessionTypes ==
  ASSUME Typed, NEW t \in Thread
  PROVE  /\ req[t] \in Request /\ req[t].s \in Session
         /\ [req[t].s EXCEPT !.uid = None] \in Session
         /\ SignedOut(req[t].s) \in Session
         /\ \A i \in Id \cup {None} : SignedIn(req[t].s, i) \in Session
         /\ [req[t].s EXCEPT !.admin = now, !.perm = TRUE] \in Session
         /\ [req[t].s EXCEPT !.admin = Never] \in Session
<1>1. req[t] \in Request
  BY DEF Typed
<1>2. req[t].s \in Session
  BY <1>1 DEF Request
<1>3. now \in 0..MaxTime
  BY DEF Typed
<1> QED BY <1>1, <1>2, <1>3 DEF Session, SignedOut, SignedIn, Visitor

\* The requests a handler goes on with.
Inserting(r, n, p)   == [r EXCEPT !.pc = "insert", !.name = n, !.pw = p]
Welcoming(r, i)      == [r EXCEPT !.pc = "welcome", !.uid = i]
Verifying(r, n, p, i) == [r EXCEPT !.pc = "verify", !.name = n, !.pw = p, !.uid = i]
Burning(r, k, p, i)  == [r EXCEPT !.pc = "burn", !.link = k, !.pw = p, !.uid = i, !.name = row[i].name]

\* What each handler comes to.
LEMMA RegisterWay ==
  ASSUME Typed, Held, NEW t \in Thread, NEW n \in Name, NEW p \in Pw, Register(t, n, p)
  PROVE  /\ req[t].pc = "run"
         /\ Closes(t, req[t].s) \/ Goes(t, Inserting(req[t], n, p))
         /\ UNCHANGED <<tables, userFails, ipFails, history>> /\ regs' \in [Client -> Nat]
<1>1. req[t] \in Request
  BY DEF Typed
<1>2. CASE Answer(t) /\ (UNCHANGED regs \/ RecordRegister(req[t].c))
  <2>1. Closes(t, req[t].s)
    BY <1>2, Responds DEF Answer
  <2>2. regs' \in [Client -> Nat]
    <3>1. req[t].c \in Client
      BY DEF Register, Runs, Held
    <3> QED BY <1>2, <3>1 DEF RecordRegister, Typed
  <2>3. req[t].pc = "run"
    BY DEF Register, Runs
  <2>4. UNCHANGED <<tables, userFails, ipFails, history>>
    BY DEF Register
  <2> QED BY <2>1, <2>2, <2>3, <2>4
<1>3. CASE /\ req' = [req EXCEPT ![t].pc = "insert", ![t].name = n, ![t].pw = p]
           /\ UNCHANGED <<cookie, regs, now, served>>
  BY <1>1, <1>3 DEF Register, Runs, Goes, Inserting, Request, Typed
<1> QED BY <1>2, <1>3 DEF Register

LEMMA InsertWay ==
  ASSUME Typed, Held, NEW t \in Thread, Insert(t)
  PROVE  /\ req[t].pc = "insert" /\ regs' \in [Client -> Nat]
         /\ UNCHANGED <<nextToken, userFails, ipFails, tokenOf, redeemed, codeAt, out, adminOut, guesses>>
         /\ \/ /\ Closes(t, req[t].s) /\ UNCHANGED <<row, nextId, born, mine>>
            \/ /\ Goes(t, Welcoming(req[t], nextId)) /\ nextId \in Id
               /\ Named(req[t].name) = {} /\ row' = [row EXCEPT ![nextId] = NewRow(req[t].name, req[t].pw)]
               /\ nextId' = nextId + 1 /\ born' = [born EXCEPT ![nextId] = @ + 1]
               /\ mine' = [mine EXCEPT ![req[t].c] = @ \cup {<<nextId, born[nextId] + 1>>}]
<1>1. req[t] \in Request
  BY DEF Typed
<1>2. req[t].pc = "insert" /\ regs' \in [Client -> Nat]
      /\ UNCHANGED <<nextToken, userFails, ipFails, tokenOf, redeemed, codeAt, out, adminOut, guesses>>
  <2>1. regs' = [regs EXCEPT ![req[t].c] = @ + 1]
    BY DEF Insert, RecordRegister
  <2>2. regs' \in [Client -> Nat]
    <3>1. req[t].c \in Client
      BY DEF Insert, Held
    <3> QED BY <2>1, <3>1 DEF Typed
  <2>3. req[t].pc = "insert"
    BY DEF Insert
  <2>4. UNCHANGED <<nextToken, userFails, ipFails, tokenOf, redeemed, codeAt, out, adminOut, guesses>>
    BY DEF Insert
  <2> QED BY <2>2, <2>3, <2>4
<1>3. CASE Answer(t) /\ UNCHANGED <<row, nextId, born, mine>>
  <2>1. Closes(t, req[t].s)
    BY <1>3, Responds DEF Answer
  <2> QED BY <1>2, <1>3, <2>1
<1>4. CASE ~(Answer(t) /\ UNCHANGED <<row, nextId, born, mine>>)
  <2>1. /\ req' = [req EXCEPT ![t].pc = "welcome", ![t].uid = nextId] /\ UNCHANGED <<cookie, now>>
        /\ nextId \in Id /\ Named(req[t].name) = {}
        /\ row' = [row EXCEPT ![nextId] = NewRow(req[t].name, req[t].pw)]
        /\ nextId' = nextId + 1 /\ born' = [born EXCEPT ![nextId] = @ + 1]
        /\ mine' = [mine EXCEPT ![req[t].c] = @ \cup {<<nextId, born[nextId] + 1>>}]
    BY <1>4 DEF Insert, Taken, NewId
  <2>2. Goes(t, Welcoming(req[t], nextId))
    BY <1>1, <2>1 DEF Goes, Welcoming, Request, Typed
  <2> QED BY <1>2, <2>1, <2>2
<1> QED BY <1>2, <1>3, <1>4 DEF Insert

\* The password is only right if the row that was found has it.
LEMMA LoginWay ==
  ASSUME BoundAssumption, Typed, Held, NEW t \in Thread, NEW n \in Name, NEW p \in Pw, Login(t, n, p)
  PROVE  /\ req[t].pc = "run" /\ UNCHANGED <<tables, buckets, history>>
         /\ \/ Closes(t, req[t].s)
            \/ /\ ipFails[req[t].c] < MaxIpFails
               /\ \E q \in Pw \cup {NoPw}, i \in Id \cup {None} :
                    /\ q # NoPw => i \in Named(n)
                    /\ Goes(t, Verifying(req[t], n, q, i))
<1>1. req[t] \in Request /\ NoPw \notin Pw
  BY DEF Typed, BoundAssumption
<1>2. req[t].pc = "run" /\ UNCHANGED <<tables, buckets, history>>
  BY DEF Login, Runs
<1>3. CASE LoginLocked(n, req[t].c)
  <2>1. Closes(t, req[t].s)
    BY <1>3, Responds DEF Login, Answer
  <2> QED BY <1>2, <2>1
<1>4. CASE ~LoginLocked(n, req[t].c)
  <2> DEFINE found == Named(n)
             q == IF \E i \in found : row[i].pw = p THEN p ELSE NoPw
             i == IF found = {} THEN None ELSE CHOOSE i \in found : TRUE
  <2>1. /\ req' = [req EXCEPT ![t].pc = "verify", ![t].name = n, ![t].pw = q, ![t].uid = i]
        /\ UNCHANGED <<cookie, now>>
    BY <1>4 DEF Login
  <2>2. ipFails[req[t].c] < MaxIpFails
    <3>1. ipFails[req[t].c] \in Nat /\ MaxIpFails \in Nat
      BY <1>2 DEF Typed, Held, BoundAssumption
    <3> QED BY <1>4, <3>1 DEF LoginLocked, IpLocked
  <2>3. found \subseteq Id /\ (found # {} => i \in found)
    BY DEF Named
  <2>4. q \in Pw \cup {NoPw} /\ i \in Id \cup {None} /\ (q # NoPw => i \in found)
    BY <2>3
  <2> HIDE DEF q, i
  <2>5. Goes(t, Verifying(req[t], n, q, i))
    BY <1>1, <2>1 DEF Goes, Verifying, Request, Typed
  <2> QED BY <1>2, <2>2, <2>4, <2>5
<1> QED BY <1>3, <1>4

LEMMA VerifyWay ==
  ASSUME Typed, Held, NEW t \in Thread, Verify(t)
  PROVE  /\ req[t].pc = "verify" /\ userFails' \in [Name -> Nat] /\ ipFails' \in [Client -> Nat]
         /\ guesses' \in [Client -> Nat]
         /\ UNCHANGED <<tables, regs, tokenOf, redeemed, born, codeAt, adminOut>>
         /\ \/ /\ req[t].pw = NoPw /\ Closes(t, req[t].s) /\ UNCHANGED <<mine, out>>
               /\ ipFails' = [ipFails EXCEPT ![req[t].c] = @ + 1]
               /\ guesses' = [guesses EXCEPT ![req[t].c] = @ + 1]
            \/ /\ req[t].pw # NoPw /\ Closes(t, SignedIn(req[t].s, req[t].uid))
               /\ out' = out \ {req[t].c} /\ UNCHANGED <<ipFails, guesses>>
               /\ mine' = [mine EXCEPT ![req[t].c] = @ \cup {<<req[t].uid, born[req[t].uid]>>}]
<1>1. req[t].pc = "verify" /\ UNCHANGED <<tables, regs, tokenOf, redeemed, born, codeAt, adminOut>>
  BY DEF Verify
<1>2. req[t].c \in Client /\ req[t].name \in Name
  BY <1>1 DEF Held
<1>3. CASE req[t].pw = NoPw
  <2>1. Failed(req[t].name, req[t].c) /\ Answer(t) /\ UNCHANGED <<mine, out>>
        /\ guesses' = [guesses EXCEPT ![req[t].c] = @ + 1]
    BY <1>3 DEF Verify
  <2>2. Closes(t, req[t].s)
    BY <2>1, Responds DEF Answer
  <2> QED BY <1>1, <1>2, <1>3, <2>1, <2>2 DEF Failed, Typed
<1>4. CASE req[t].pw # NoPw
  <2>1. /\ Cleared(req[t].name, req[t].c) /\ SignIn(t, req[t].uid) /\ UNCHANGED guesses
        /\ mine' = [mine EXCEPT ![req[t].c] = @ \cup {<<req[t].uid, born[req[t].uid]>>}]
    BY <1>4 DEF Verify
  <2>2. Closes(t, SignedIn(req[t].s, req[t].uid)) /\ out' = out \ {req[t].c}
    BY <2>1, Responds DEF SignIn
  <2> QED BY <1>1, <1>2, <1>4, <2>1, <2>2 DEF Cleared, Typed
<1> QED BY <1>3, <1>4

LEMMA FindLinkWay ==
  ASSUME BoundAssumption, Typed, Held, NEW t \in Thread, NEW k \in Token, NEW p \in Pw, FindLink(t, k, p)
  PROVE  /\ req[t].pc = "run"
         /\ UNCHANGED <<tables, userFails, regs, tokenOf, redeemed, born, mine, codeAt, out, adminOut>>
         /\ \/ Closes(t, req[t].s) /\ UNCHANGED <<ipFails, guesses>>
            \/ /\ Closes(t, req[t].s) /\ ipFails[req[t].c] < MaxIpFails
               /\ ipFails' = [ipFails EXCEPT ![req[t].c] = @ + 1]
               /\ guesses' = [guesses EXCEPT ![req[t].c] = @ + 1]
            \/ /\ UNCHANGED <<ipFails, guesses>>
               /\ \E i \in Redeemable(k) : Goes(t, Burning(req[t], k, p, i))
<1>1. /\ req[t].pc = "run" /\ req[t] \in Request
      /\ UNCHANGED <<tables, userFails, regs, tokenOf, redeemed, born, mine, codeAt, out, adminOut>>
  BY DEF FindLink, Runs, Typed
<1>2. CASE IpLocked(req[t].c)
  <2>1. Answer(t) /\ UNCHANGED <<ipFails, guesses>>
    BY <1>2 DEF FindLink
  <2>2. Closes(t, req[t].s)
    BY <2>1, Responds DEF Answer
  <2> QED BY <1>1, <2>1, <2>2
<1>3. CASE ~IpLocked(req[t].c) /\ Redeemable(k) = {}
  <2>1. /\ Answer(t) /\ ipFails' = [ipFails EXCEPT ![req[t].c] = @ + 1]
        /\ guesses' = [guesses EXCEPT ![req[t].c] = @ + 1]
    BY <1>3 DEF FindLink
  <2>2. Closes(t, req[t].s)
    BY <2>1, Responds DEF Answer
  <2>3. ipFails[req[t].c] \in Nat /\ MaxIpFails \in Nat
    BY <1>1 DEF Typed, Held, BoundAssumption
  <2>4. ipFails[req[t].c] < MaxIpFails
    BY <1>3, <2>3 DEF IpLocked
  <2> QED BY <1>1, <2>1, <2>2, <2>4
<1>4. CASE ~IpLocked(req[t].c) /\ Redeemable(k) # {}
  <2>1. PICK i \in Redeemable(k) :
          /\ req' = [req EXCEPT ![t].pc = "burn", ![t].link = k, ![t].pw = p,
                                ![t].uid = i, ![t].name = row[i].name]
          /\ UNCHANGED <<cookie, ipFails, guesses, now, served>>
    <3> DEFINE i == CHOOSE j \in Redeemable(k) : TRUE
    <3>1. i \in Redeemable(k)
      BY <1>4
    <3> QED BY <1>4, <3>1 DEF FindLink
  <2>2. Goes(t, Burning(req[t], k, p, i))
    BY <1>1, <2>1 DEF Goes, Burning, Request, Typed
  <2> QED BY <1>1, <2>1, <2>2
<1> QED BY <1>2, <1>3, <1>4

LEMMA BurnWay ==
  ASSUME Typed, Held, NEW t \in Thread, Burn(t)
  PROVE  /\ req[t].pc = "burn" /\ Goes(t, [req[t] EXCEPT !.pc = "setpw"])
         /\ row' = Burned(req[t].uid) /\ redeemed' = [redeemed EXCEPT ![req[t].link] = @ + 1]
         /\ UNCHANGED <<nextId, nextToken, buckets, tokenOf, born, mine, codeAt, out, adminOut, guesses>>
<1>1. req[t] \in Request
  BY DEF Typed
<1> QED BY <1>1 DEF Burn, Goes, Request, Typed

LEMMA SetPasswordWay ==
  ASSUME Typed, Held, NEW t \in Thread, SetPassword(t)
  PROVE  /\ req[t].pc = "setpw" /\ Closes(t, SignedIn(req[t].s, req[t].uid))
         /\ out' = out \ {req[t].c} /\ userFails' \in [Name -> Nat]
         /\ row' = IF Live(req[t].uid) THEN [row EXCEPT ![req[t].uid].pw = req[t].pw] ELSE row
         /\ mine' = [mine EXCEPT ![req[t].c] = @ \cup {<<tokenOf[req[t].link], born[tokenOf[req[t].link]]>>}]
         /\ UNCHANGED <<nextId, nextToken, ipFails, regs, tokenOf, redeemed, born, codeAt, adminOut, guesses>>
<1>1. SignIn(t, req[t].uid) /\ Cleared(req[t].name, req[t].c)
  BY DEF SetPassword
<1>2. Closes(t, SignedIn(req[t].s, req[t].uid)) /\ out' = out \ {req[t].c}
  BY <1>1, Responds DEF SignIn
<1>3. userFails' \in [Name -> Nat] /\ ipFails' = ipFails
  BY <1>1 DEF Cleared, Typed
<1> QED BY <1>2, <1>3 DEF SetPassword

LEMMA WelcomeWay ==
  ASSUME NEW t \in Thread, Welcome(t)
  PROVE  /\ req[t].pc = "welcome" /\ Closes(t, SignedIn(req[t].s, req[t].uid))
         /\ out' = out \ {req[t].c}
         /\ UNCHANGED <<tables, buckets, tokenOf, redeemed, born, mine, codeAt, adminOut, guesses>>
<1>1. SignIn(t, req[t].uid)
  BY DEF Welcome
<1>2. Closes(t, SignedIn(req[t].s, req[t].uid))
  BY <1>1, Responds DEF SignIn
<1> QED BY <1>1, <1>2 DEF SignIn, Welcome

\* The gate and the settings' own check leave everything but the session.
LEMMA GateWay ==
  ASSUME Typed, NEW t \in Thread, Gate(t) \/ Settings(t)
  PROVE  /\ req[t].pc = "run" /\ UNCHANGED <<tables, buckets, history>>
         /\ \/ Closes(t, req[t].s)
            \/ Closes(t, [req[t].s EXCEPT !.uid = None])
            \/ req[t].s.uid # None /\ Goes(t, [req[t] EXCEPT !.pc = "style"])
<1>1. req[t].pc = "run" /\ UNCHANGED <<tables, buckets, history>> /\ req[t] \in Request
  BY DEF Gate, Settings, Runs, Typed
<1>2. CASE Answer(t)
  <2>1. Closes(t, req[t].s)
    BY <1>2, Responds DEF Answer
  <2> QED BY <1>1, <2>1
<1>3. CASE Gone(t)
  <2>1. Closes(t, [req[t].s EXCEPT !.uid = None])
    BY <1>3, Responds DEF Gone
  <2> QED BY <1>1, <2>1
<1>4. CASE ~(Answer(t) \/ Gone(t))
  <2>1. /\ req[t].s.uid # None
        /\ req' = [req EXCEPT ![t].pc = "style"] /\ UNCHANGED <<cookie, now, served>>
    BY <1>4 DEF Gate, Settings, Allowed
  <2>2. Goes(t, [req[t] EXCEPT !.pc = "style"])
    BY <1>1, <2>1 DEF Goes, Request, Typed
  <2> QED BY <1>1, <2>1, <2>2
<1> QED BY <1>2, <1>3, <1>4

LEMMA SetStyleWay ==
  ASSUME NEW t \in Thread, NEW st \in Style, SetStyle(t, st)
  PROVE  /\ req[t].pc = "style" /\ Closes(t, req[t].s) /\ UNCHANGED <<nextId, nextToken, buckets, history>>
         /\ row' = IF Live(req[t].s.uid) THEN [row EXCEPT ![req[t].s.uid].style = st] ELSE row
  BY Responds DEF SetStyle, Answer

LEMMA LogoutWay ==
  ASSUME NEW t \in Thread, Logout(t)
  PROVE  /\ req[t].pc = "run" /\ Closes(t, SignedOut(req[t].s)) /\ out' = out \cup {req[t].c}
         /\ cookie' = [cookie EXCEPT ![req[t].c] = SignedOut(req[t].s)]
         /\ UNCHANGED <<tables, buckets, tokenOf, redeemed, born, mine, codeAt, adminOut, guesses>>
<1>1. Respond(t, SignedOut(req[t].s), TRUE)
  BY DEF Logout
<1>2. Closes(t, SignedOut(req[t].s))
  BY <1>1, Responds
<1> QED BY <1>1, <1>2 DEF Respond, Logout, Runs

LEMMA AdminWay ==
  ASSUME NEW t \in Thread, AdminLogin(t) \/ AdminLogout(t)
  PROVE  /\ req[t].pc = "run"
         /\ UNCHANGED <<tables, buckets, tokenOf, redeemed, born, mine, out, guesses>>
         /\ \/ /\ cookie' = [cookie EXCEPT ![req[t].c] = [req[t].s EXCEPT !.admin = now, !.perm = TRUE]]
               /\ Closes(t, [req[t].s EXCEPT !.admin = now, !.perm = TRUE])
               /\ codeAt' = [codeAt EXCEPT ![req[t].c] = now] /\ adminOut' = adminOut \ {req[t].c}
            \/ /\ Closes(t, [req[t].s EXCEPT !.admin = Never])
               /\ UNCHANGED codeAt /\ adminOut' = adminOut \cup {req[t].c}
<1>1. CASE AdminLogin(t)
  <2>1. Respond(t, [req[t].s EXCEPT !.admin = now, !.perm = TRUE], TRUE)
    BY <1>1 DEF AdminLogin
  <2>2. Closes(t, [req[t].s EXCEPT !.admin = now, !.perm = TRUE])
    BY <2>1, Responds
  <2> QED BY <1>1, <2>1, <2>2 DEF AdminLogin, Runs, Respond
<1>2. CASE AdminLogout(t)
  <2>1. Respond(t, [req[t].s EXCEPT !.admin = Never], req[t].s.admin # Never)
    BY <1>2 DEF AdminLogout
  <2>2. Closes(t, [req[t].s EXCEPT !.admin = Never])
    BY <2>1, Responds
  <2> QED BY <1>2, <2>2 DEF AdminLogout, Runs
<1> QED BY <1>1, <1>2

LEMMA OwnerWay ==
  ASSUME NEW t \in Thread, NEW i \in Id, Owner(t, i)
  PROVE  /\ req[t].pc = "run" /\ Closes(t, req[t].s)
         /\ UNCHANGED <<tables, buckets, history>> \/ Manage(i)
<1>1. Closes(t, req[t].s)
  BY Responds DEF Owner, Answer
<1> QED BY <1>1 DEF Owner, Runs

LEMMA ManageTyped ==
  ASSUME BoundAssumption, Typed, NEW i \in Id, Manage(i)
  PROVE  /\ row' \in [Id -> Row] /\ nextToken' \in Nat \ {0} /\ tokenOf' \in [Token -> Id \cup {None}]
         /\ UNCHANGED <<nextId, buckets, now, redeemed, born, mine, codeAt, out, adminOut, guesses>>
<1>1. /\ row[i] \in Row /\ NoRow \in Row /\ now + 1 \in Nat /\ None \in Nat
      /\ nextToken \in Nat \ {0}
  BY DEF Typed, NoRow, Row, BoundAssumption
<1>2. CASE Approve(i)
  BY <1>1, <1>2 DEF Manage, Approve, Typed, Row
<1>3. CASE Revoke(i)
  BY <1>1, <1>3 DEF Manage, Revoke, Typed, Row
<1>4. CASE Delete(i)
  BY <1>1, <1>4 DEF Manage, Delete, Typed
<1>5. CASE MintLink(i)
  <2>1. /\ nextToken \in Token /\ nextToken' = nextToken + 1
        /\ row' = [row EXCEPT ![i] = [@ EXCEPT !.link = nextToken, !.until = now + 1]]
        /\ tokenOf' = [tokenOf EXCEPT ![nextToken] = i]
    BY <1>5 DEF MintLink
  <2>2. [row[i] EXCEPT !.link = nextToken, !.until = now + 1] \in Row
    BY <1>1, <2>1 DEF Row
  <2>3. row' \in [Id -> Row]
    BY <2>1, <2>2 DEF Typed
  <2>4. tokenOf' \in [Token -> Id \cup {None}] /\ nextToken' \in Nat \ {0}
    BY <1>1, <2>1 DEF Typed
  <2> QED BY <2>3, <2>4 DEF Manage
<1> QED BY <1>2, <1>3, <1>4, <1>5 DEF Manage

\* A step that closes a request keeps the types if the tables stay typed.
LEMMA CloseStep ==
  ASSUME BoundAssumption, Typed, Held, NEW t \in Thread, NEW s \in Session, Closes(t, s), req[t].pc # "idle",
         row' \in [Id -> Row] /\ nextId' \in Nat \ {0} /\ nextToken' \in Nat \ {0},
         userFails' \in [Name -> Nat] /\ ipFails' \in [Client -> Nat] /\ regs' \in [Client -> Nat],
         tokenOf' \in [Token -> Id \cup {None}] /\ redeemed' \in [Token -> Nat],
         born' \in [Id -> Nat] /\ mine' = [c \in Client |-> mine'[c]],
         codeAt' \in [Client -> (0..MaxTime) \cup {Never}] /\ guesses' \in [Client -> Nat],
         out' \in SUBSET Client /\ adminOut' \in SUBSET Client
  PROVE  Typed' /\ Held'
<1>1. cookie' \in [Client -> Session] /\ req' \in [Thread -> Request] /\ now' \in 0..MaxTime /\ Held'
  BY ClosesTyped
<1> QED BY <1>1 DEF Typed

LEMMA GoStep ==
  ASSUME BoundAssumption, Typed, Held, NEW t \in Thread, NEW r \in Request, Goes(t, r), req[t].pc # "idle",
         r.pc = "insert" => r.name \in Name /\ r.pw \in Pw,
         r.pc = "verify" => r.name \in Name /\ (r.pw # NoPw => r.uid \in Id),
         r.pc = "welcome" => r.uid \in Id,
         r.pc \in {"burn", "setpw"} => r.uid \in Id /\ r.link \in Token,
         r.pc = "style" => r.s.uid \in Id,
         row' \in [Id -> Row] /\ nextId' \in Nat \ {0}, UNCHANGED <<nextToken, buckets>>,
         redeemed' \in [Token -> Nat], born' \in [Id -> Nat],
         mine' = [c \in Client |-> mine'[c]], UNCHANGED <<tokenOf, codeAt, guesses, out, adminOut>>
  PROVE  Typed' /\ Held'
<1>1. cookie' \in [Client -> Session] /\ req' \in [Thread -> Request] /\ now' \in 0..MaxTime /\ Held'
  BY GoesTyped
<1> QED BY <1>1 DEF Typed

-----------------------------------------------------------------------------
(* Types are kept                                                          *)

LEMMA BeginTyped ==
  ASSUME Typed, Held, NEW t \in Thread, NEW c \in Client, NEW op \in Ops, Begin(t, c, op)
  PROVE  Typed' /\ Held'
<1> DEFINE r == [Idle EXCEPT !.pc = "run", !.op = op, !.c = c, !.s = cookie[c]]
<1>1. r \in Request /\ r.pc = "run" /\ r.c = c
  BY DEF Typed, Idle, Visitor, Request, Place
<1>2. req' = [req EXCEPT ![t] = r] /\ UNCHANGED <<tables, buckets, cookie, now, history>>
  BY DEF Begin
<1> HIDE DEF r
<1>3. req' \in [Thread -> Request] /\ \A u \in Thread : req'[u] = IF u = t THEN r ELSE req[u]
  BY <1>1, <1>2 DEF Typed
<1>4. Held'
  BY <1>1, <1>3 DEF Held
<1> QED BY <1>2, <1>3, <1>4 DEF Typed

LEMMA RegisterTyped ==
  ASSUME BoundAssumption, Typed, Held, NEW t \in Thread, NEW n \in Name, NEW p \in Pw, Register(t, n, p)
  PROVE  Typed' /\ Held'
<1> DEFINE r == Inserting(req[t], n, p)
<1>1. /\ req[t].pc = "run" /\ (Closes(t, req[t].s) \/ Goes(t, r))
      /\ UNCHANGED <<tables, userFails, ipFails, history>> /\ regs' \in [Client -> Nat]
  BY RegisterWay
<1>2. req[t] \in Request /\ req[t].s \in Session
  BY SessionTypes
<1>3. CASE Closes(t, req[t].s)
  BY <1>1, <1>2, <1>3, CloseStep DEF Typed
<1>4. CASE Goes(t, r)
  <2>1. r \in Request /\ r.pc = "insert" /\ r.name = n /\ r.pw = p
    BY <1>2 DEF Inserting, Request, Place
  <2> HIDE DEF r
  <2>2. cookie' \in [Client -> Session] /\ req' \in [Thread -> Request] /\ now' \in 0..MaxTime /\ Held'
    BY <1>1, <1>4, <2>1, GoesTyped
  <2> QED BY <1>1, <2>2 DEF Typed
<1> QED BY <1>1, <1>3, <1>4

LEMMA InsertTyped ==
  ASSUME BoundAssumption, Typed, Held, NEW t \in Thread, Insert(t)
  PROVE  Typed' /\ Held'
<1> DEFINE r == Welcoming(req[t], nextId)
<1>1. req[t].pc = "insert" /\ req[t].c \in Client /\ req[t].name \in Name /\ req[t].pw \in Pw
  BY InsertWay DEF Held
<1>2. req[t] \in Request /\ req[t].s \in Session
  BY SessionTypes
<1>3. /\ regs' \in [Client -> Nat]
      /\ UNCHANGED <<nextToken, userFails, ipFails, tokenOf, redeemed, codeAt, out, adminOut, guesses>>
  BY InsertWay
<1>4. CASE Closes(t, req[t].s) /\ UNCHANGED <<row, nextId, born, mine>>
  BY <1>1, <1>2, <1>3, <1>4, CloseStep DEF Typed
<1>5. CASE ~(Closes(t, req[t].s) /\ UNCHANGED <<row, nextId, born, mine>>)
  <2>1. /\ Goes(t, r) /\ nextId \in Id
        /\ row' = [row EXCEPT ![nextId] = NewRow(req[t].name, req[t].pw)]
        /\ nextId' = nextId + 1 /\ born' = [born EXCEPT ![nextId] = @ + 1]
        /\ mine' = [mine EXCEPT ![req[t].c] = @ \cup {<<nextId, born[nextId] + 1>>}]
    BY <1>5, InsertWay
  <2>2. r \in Request /\ r.pc = "welcome" /\ r.uid = nextId
    BY <1>2, <2>1 DEF Welcoming, Request, Place
  <2> HIDE DEF r
  <2>3. cookie' \in [Client -> Session] /\ req' \in [Thread -> Request] /\ now' \in 0..MaxTime /\ Held'
    BY <1>1, <2>1, <2>2, GoesTyped
  <2>4. NewRow(req[t].name, req[t].pw) \in Row
    BY <1>1 DEF NewRow, NoRow, Row
  <2>5. row' \in [Id -> Row] /\ nextId' \in Nat \ {0}
    BY <2>1, <2>4 DEF Typed
  <2>6. born' \in [Id -> Nat]
    BY <2>1 DEF Typed
  <2>7. mine' = [c \in Client |-> mine'[c]]
    BY <1>1, <2>1 DEF Typed
  <2> QED BY <1>3, <2>3, <2>5, <2>6, <2>7 DEF Typed
<1> QED BY <1>4, <1>5

LEMMA LoginTyped ==
  ASSUME BoundAssumption, Typed, Held, NEW t \in Thread, NEW n \in Name, NEW p \in Pw, Login(t, n, p)
  PROVE  Typed' /\ Held'
<1>1. req[t].pc = "run" /\ UNCHANGED <<tables, buckets, history>>
  BY LoginWay
<1>2. req[t] \in Request /\ req[t].s \in Session
  BY SessionTypes
<1>3. CASE Closes(t, req[t].s)
  BY <1>1, <1>2, <1>3, CloseStep DEF Typed
<1>4. CASE ~Closes(t, req[t].s)
  <2>1. PICK q \in Pw \cup {NoPw}, i \in Id \cup {None} :
          (q # NoPw => i \in Named(n)) /\ Goes(t, Verifying(req[t], n, q, i))
    BY <1>4, LoginWay
  <2> DEFINE r == Verifying(req[t], n, q, i)
  <2>2. r \in Request /\ r.pc = "verify" /\ r.name = n /\ r.pw = q /\ r.uid = i
    BY <1>2 DEF Verifying, Request, Place
  <2>3. q # NoPw => i \in Id
    BY <2>1 DEF Named
  <2> HIDE DEF r
  <2>4. cookie' \in [Client -> Session] /\ req' \in [Thread -> Request] /\ now' \in 0..MaxTime /\ Held'
    BY <1>1, <2>1, <2>2, <2>3, GoesTyped DEF r
  <2> QED BY <1>1, <2>4 DEF Typed
<1> QED BY <1>3, <1>4

LEMMA VerifyTyped ==
  ASSUME BoundAssumption, Typed, Held, NEW t \in Thread, Verify(t)
  PROVE  Typed' /\ Held'
<1>1. /\ req[t].pc = "verify" /\ userFails' \in [Name -> Nat] /\ ipFails' \in [Client -> Nat]
      /\ guesses' \in [Client -> Nat]
      /\ UNCHANGED <<tables, regs, tokenOf, redeemed, born, codeAt, adminOut>>
  BY VerifyWay
<1>2. req[t].s \in Session /\ req[t].c \in Client /\ req[t].uid \in Id \cup {None}
  BY <1>1, SessionTypes DEF Held, Request
<1>3. CASE req[t].pw = NoPw
  <2>1. Closes(t, req[t].s) /\ UNCHANGED <<mine, out>>
    BY <1>3, VerifyWay
  <2> QED BY <1>1, <1>2, <2>1, CloseStep DEF Typed
<1>4. CASE req[t].pw # NoPw
  <2>1. /\ Closes(t, SignedIn(req[t].s, req[t].uid)) /\ out' = out \ {req[t].c}
        /\ mine' = [mine EXCEPT ![req[t].c] = @ \cup {<<req[t].uid, born[req[t].uid]>>}]
    BY <1>4, VerifyWay
  <2>2. SignedIn(req[t].s, req[t].uid) \in Session
    BY <1>2, SessionTypes
  <2>3. mine' = [c \in Client |-> mine'[c]]
    BY <1>2, <2>1 DEF Typed
  <2> QED BY <1>1, <2>1, <2>2, <2>3, CloseStep DEF Typed
<1> QED BY <1>3, <1>4

LEMMA FindLinkTyped ==
  ASSUME BoundAssumption, Typed, Held, NEW t \in Thread, NEW k \in Token, NEW p \in Pw, FindLink(t, k, p)
  PROVE  Typed' /\ Held'
<1>1. /\ req[t].pc = "run"
      /\ UNCHANGED <<tables, userFails, regs, tokenOf, redeemed, born, mine, codeAt, out, adminOut>>
  BY FindLinkWay
<1>2. req[t] \in Request /\ req[t].s \in Session /\ req[t].c \in Client
  BY <1>1, SessionTypes DEF Held
<1>3. CASE \E i \in Redeemable(k) : UNCHANGED <<ipFails, guesses>> /\ Goes(t, Burning(req[t], k, p, i))
  <2>1. PICK i \in Redeemable(k) : UNCHANGED <<ipFails, guesses>> /\ Goes(t, Burning(req[t], k, p, i))
    BY <1>3
  <2>2. i \in Id /\ row[i].name \in Name \cup {NoName}
    BY <2>1 DEF Redeemable, Typed, Row
  <2> DEFINE r == Burning(req[t], k, p, i)
  <2>3. r \in Request /\ r.pc = "burn" /\ r.link = k /\ r.uid = i
    BY <1>2, <2>2 DEF Burning, Request, Place
  <2> HIDE DEF r
  <2>4. cookie' \in [Client -> Session] /\ req' \in [Thread -> Request] /\ now' \in 0..MaxTime /\ Held'
    BY <1>1, <2>1, <2>2, <2>3, GoesTyped DEF r
  <2> QED BY <1>1, <2>1, <2>4 DEF Typed
<1>4. CASE ~\E i \in Redeemable(k) : UNCHANGED <<ipFails, guesses>> /\ Goes(t, Burning(req[t], k, p, i))
  <2>1. Closes(t, req[t].s)
    BY <1>4, FindLinkWay
  <2>2. \/ UNCHANGED <<ipFails, guesses>>
        \/ /\ ipFails' = [ipFails EXCEPT ![req[t].c] = @ + 1]
           /\ guesses' = [guesses EXCEPT ![req[t].c] = @ + 1]
    BY <1>4, FindLinkWay
  <2>3. ipFails \in [Client -> Nat] /\ guesses \in [Client -> Nat]
    BY DEF Typed
  <2>5. ipFails' \in [Client -> Nat] /\ guesses' \in [Client -> Nat]
    <3>1. CASE UNCHANGED <<ipFails, guesses>>
      BY <2>3, <3>1
    <3>2. CASE ipFails' = [ipFails EXCEPT ![req[t].c] = @ + 1] /\ guesses' = [guesses EXCEPT ![req[t].c] = @ + 1]
      BY <1>2, <2>3, <3>2
    <3> QED BY <2>2, <3>1, <3>2
  <2>4. cookie' \in [Client -> Session] /\ req' \in [Thread -> Request] /\ now' \in 0..MaxTime /\ Held'
    BY <1>1, <1>2, <2>1, ClosesTyped
  <2> QED BY <1>1, <2>3, <2>4, <2>5 DEF Typed
<1> QED BY <1>3, <1>4

LEMMA BurnTyped ==
  ASSUME BoundAssumption, Typed, Held, NEW t \in Thread, Burn(t)
  PROVE  Typed' /\ Held'
<1> DEFINE r == [req[t] EXCEPT !.pc = "setpw"]
<1>1. /\ req[t].pc = "burn" /\ Goes(t, r)
      /\ row' = Burned(req[t].uid) /\ redeemed' = [redeemed EXCEPT ![req[t].link] = @ + 1]
      /\ UNCHANGED <<nextId, nextToken, buckets, tokenOf, born, mine, codeAt, out, adminOut, guesses>>
  BY BurnWay
<1>2. req[t] \in Request /\ req[t].uid \in Id /\ req[t].link \in Token
  BY <1>1, SessionTypes DEF Held
<1>3. r \in Request /\ r.pc = "setpw" /\ r.uid = req[t].uid /\ r.link = req[t].link
  BY <1>2 DEF Request, Place
<1>4. row' \in [Id -> Row]
  <2>1. row[req[t].uid] \in Row /\ row \in [Id -> Row]
    BY <1>2 DEF Typed
  <2>2. [row[req[t].uid] EXCEPT !.link = None, !.until = 0] \in Row
    BY <2>1 DEF Row
  <2>3. row' = row \/ row' = [row EXCEPT ![req[t].uid] = [row[req[t].uid] EXCEPT !.link = None, !.until = 0]]
    BY <1>1 DEF Burned
  <2> QED BY <1>2, <2>1, <2>2, <2>3
<1>5. redeemed' \in [Token -> Nat]
  BY <1>1, <1>2 DEF Typed
<1> HIDE DEF r
<1>6. cookie' \in [Client -> Session] /\ req' \in [Thread -> Request] /\ now' \in 0..MaxTime /\ Held'
  BY <1>1, <1>2, <1>3, GoesTyped
<1> QED BY <1>1, <1>4, <1>5, <1>6 DEF Typed

LEMMA SetPasswordTyped ==
  ASSUME BoundAssumption, Typed, Held, NEW t \in Thread, SetPassword(t)
  PROVE  Typed' /\ Held'
<1>1. /\ req[t].pc = "setpw" /\ Closes(t, SignedIn(req[t].s, req[t].uid))
      /\ out' = out \ {req[t].c} /\ userFails' \in [Name -> Nat]
      /\ row' = IF Live(req[t].uid) THEN [row EXCEPT ![req[t].uid].pw = req[t].pw] ELSE row
      /\ mine' = [mine EXCEPT ![req[t].c] = @ \cup {<<tokenOf[req[t].link], born[tokenOf[req[t].link]]>>}]
      /\ UNCHANGED <<nextId, nextToken, ipFails, regs, tokenOf, redeemed, born, codeAt, adminOut, guesses>>
  BY SetPasswordWay
<1>2. req[t] \in Request /\ req[t].uid \in Id /\ req[t].c \in Client
  BY <1>1, SessionTypes DEF Held
<1>3. SignedIn(req[t].s, req[t].uid) \in Session
  BY <1>2, SessionTypes
<1>4. row' \in [Id -> Row]
  <2>1. row[req[t].uid] \in Row /\ row \in [Id -> Row] /\ req[t].pw \in Pw \cup {NoPw}
    BY <1>2 DEF Typed, Request
  <2>2. [row[req[t].uid] EXCEPT !.pw = req[t].pw] \in Row
    BY <2>1 DEF Row
  <2>3. row' = row \/ row' = [row EXCEPT ![req[t].uid] = [row[req[t].uid] EXCEPT !.pw = req[t].pw]]
    BY <1>1
  <2> QED BY <1>2, <2>1, <2>2, <2>3
<1>5. mine' = [c \in Client |-> mine'[c]]
  BY <1>1, <1>2 DEF Typed
<1>6. cookie' \in [Client -> Session] /\ req' \in [Thread -> Request] /\ now' \in 0..MaxTime /\ Held'
  BY <1>1, <1>3, ClosesTyped
<1> QED BY <1>1, <1>4, <1>5, <1>6 DEF Typed

LEMMA SetStyleTyped ==
  ASSUME BoundAssumption, Typed, Held, NEW t \in Thread, NEW st \in Style, SetStyle(t, st)
  PROVE  Typed' /\ Held'
<1>1. /\ req[t].pc = "style" /\ Closes(t, req[t].s) /\ UNCHANGED <<nextId, nextToken, buckets, history>>
      /\ row' = IF Live(req[t].s.uid) THEN [row EXCEPT ![req[t].s.uid].style = st] ELSE row
  BY SetStyleWay
<1>2. req[t].s \in Session /\ req[t].s.uid \in Id
  BY <1>1, SessionTypes DEF Held
<1>3. row' \in [Id -> Row]
  <2>1. row[req[t].s.uid] \in Row /\ row \in [Id -> Row]
    BY <1>2 DEF Typed
  <2>2. [row[req[t].s.uid] EXCEPT !.style = st] \in Row
    BY <2>1 DEF Row
  <2>3. row' = row \/ row' = [row EXCEPT ![req[t].s.uid] = [row[req[t].s.uid] EXCEPT !.style = st]]
    BY <1>1
  <2> QED BY <1>2, <2>1, <2>2, <2>3
<1>4. cookie' \in [Client -> Session] /\ req' \in [Thread -> Request] /\ now' \in 0..MaxTime /\ Held'
  BY <1>1, <1>2, ClosesTyped
<1> QED BY <1>1, <1>3, <1>4 DEF Typed

LEMMA SessionsTyped ==
  ASSUME BoundAssumption, Typed, Held, NEW t \in Thread,
         Welcome(t) \/ Gate(t) \/ Settings(t) \/ Logout(t) \/ AdminLogin(t) \/ AdminLogout(t)
  PROVE  Typed' /\ Held'
<1>1. CASE Welcome(t)
  <2>1. req[t].pc = "welcome" /\ req[t].uid \in Id
    BY <1>1, WelcomeWay DEF Held
  <2>2. SignedIn(req[t].s, req[t].uid) \in Session
    BY <2>1, SessionTypes
  <2>3. cookie' \in [Client -> Session] /\ req' \in [Thread -> Request] /\ now' \in 0..MaxTime /\ Held'
    BY <1>1, <2>1, <2>2, WelcomeWay, ClosesTyped
  <2> QED BY <1>1, <2>3, WelcomeWay DEF Typed
<1>2. CASE Gate(t) \/ Settings(t)
  <2>1. req[t].pc = "run" /\ UNCHANGED <<tables, buckets, history>>
    BY <1>2, GateWay
  <2>2. cookie' \in [Client -> Session] /\ req' \in [Thread -> Request] /\ now' \in 0..MaxTime /\ Held'
    <3>1. req[t] \in Request /\ req[t].s \in Session /\ [req[t].s EXCEPT !.uid = None] \in Session
      BY SessionTypes
    <3>2. CASE Closes(t, req[t].s) \/ Closes(t, [req[t].s EXCEPT !.uid = None])
      BY <2>1, <3>1, <3>2, ClosesTyped
    <3>3. CASE req[t].s.uid # None /\ Goes(t, [req[t] EXCEPT !.pc = "style"])
      <4> DEFINE r == [req[t] EXCEPT !.pc = "style"]
      <4>1. r \in Request /\ r.pc = "style" /\ r.s = req[t].s
        BY <3>1 DEF Request, Place
      <4>2. req[t].s.uid \in Id
        BY <3>1, <3>3 DEF Session
      <4> HIDE DEF r
      <4> QED BY <2>1, <3>3, <4>1, <4>2, GoesTyped DEF r
    <3> QED BY <1>2, <3>2, <3>3, GateWay
  <2> QED BY <2>1, <2>2 DEF Typed
<1>3. CASE Logout(t)
  <2>1. req[t].pc = "run" /\ req[t].c \in Client /\ SignedOut(req[t].s) \in Session
    BY <1>3, LogoutWay, SessionTypes DEF Held
  <2>2. cookie' \in [Client -> Session] /\ req' \in [Thread -> Request] /\ now' \in 0..MaxTime /\ Held'
    BY <1>3, <2>1, LogoutWay, ClosesTyped
  <2> QED BY <1>3, <2>1, <2>2, LogoutWay DEF Typed
<1>4. CASE AdminLogin(t) \/ AdminLogout(t)
  <2>1. req[t].pc = "run" /\ req[t].c \in Client
    BY <1>4, AdminWay DEF Held
  <2>2. /\ [req[t].s EXCEPT !.admin = now, !.perm = TRUE] \in Session
        /\ [req[t].s EXCEPT !.admin = Never] \in Session
    BY SessionTypes
  <2>3. cookie' \in [Client -> Session] /\ req' \in [Thread -> Request] /\ now' \in 0..MaxTime /\ Held'
    BY <1>4, <2>1, <2>2, AdminWay, ClosesTyped
  <2>4. codeAt' \in [Client -> (0..MaxTime) \cup {Never}]
    BY <1>4, <2>1, AdminWay DEF Typed
  <2>5. adminOut' \in SUBSET Client
    BY <1>4, <2>1, AdminWay DEF Typed
  <2> QED BY <1>4, <2>3, <2>4, <2>5, AdminWay DEF Typed
<1> QED BY <1>1, <1>2, <1>3, <1>4

LEMMA OwnerTyped ==
  ASSUME BoundAssumption, Typed, Held, NEW i \in Id, NEW t \in Thread, Owner(t, i)
  PROVE  Typed' /\ Held'
<1>1. req[t].pc = "run" /\ Closes(t, req[t].s) /\ req[t].s \in Session
  BY OwnerWay, SessionTypes
<1>2. cookie' \in [Client -> Session] /\ req' \in [Thread -> Request] /\ now' \in 0..MaxTime /\ Held'
  BY <1>1, ClosesTyped
<1>3. CASE UNCHANGED <<tables, buckets, history>>
  BY <1>2, <1>3 DEF Typed
<1>4. CASE Manage(i)
  BY <1>2, <1>4, ManageTyped DEF Typed
<1> QED BY <1>3, <1>4, OwnerWay

LEMMA OwnerCurlTyped ==
  ASSUME BoundAssumption, Typed, Held, NEW i \in Id, OwnerCurl(i)
  PROVE  Typed' /\ Held'
<1>1. Manage(i) /\ UNCHANGED <<cookie, req>>
  BY DEF OwnerCurl
<1>2. Held'
  BY <1>1 DEF Held
<1> QED BY <1>1, <1>2, ManageTyped DEF Typed

LEMMA TypedStep ==
  ASSUME BoundAssumption, Typed, Held, [Next]_vars
  PROVE  Typed' /\ Held'
<1>1. ASSUME NEW t \in Thread, Handler(t)
      PROVE  Typed' /\ Held'
  BY <1>1, RegisterTyped, LoginTyped, FindLinkTyped, InsertTyped, VerifyTyped, BurnTyped,
     SetPasswordTyped, SetStyleTyped, SessionsTyped, OwnerTyped DEF Handler
<1>2. CASE Tick
  <2>1. now' \in 0..MaxTime
    BY <1>2 DEF Tick, Typed, BoundAssumption
  <2>2. Held'
    BY <1>2 DEF Tick, Held
  <2> QED BY <1>2, <2>1, <2>2 DEF Tick, Typed
<1>3. CASE UNCHANGED vars
  BY <1>3 DEF vars, Typed, Held
<1> QED BY <1>1, <1>2, <1>3, BeginTyped, OwnerCurlTyped DEF Next, Quiesced

\* Rows, cookies and buckets hold only values of their kinds, and a request
\* under way knows its browser and the row it works for.
THEOREM TypeCorrect == ASSUME BoundAssumption PROVE Spec => [](TypeOK /\ Typed /\ Held)
<1>1. Init => Typed /\ Held
  BY InitTyped
<1>2. Typed /\ Held /\ [Next]_vars => (Typed /\ Held)'
  BY TypedStep
<1>3. Typed => TypeOK
  BY DEF Typed, TypeOK, Row, Session
<1> QED BY <1>1, <1>2, <1>3, PTL DEF Spec

-----------------------------------------------------------------------------
(* Rows                                                                    *)

\* No row appears, and none changes its name.
NoNewRow ==
  /\ UNCHANGED <<nextId, born>>
  /\ \A i \in Id : Live(i)' => Live(i) /\ row'[i].name = row[i].name

\* Row nextId appears, for request t.
Appears(t) ==
  /\ req[t].pc = "insert" /\ Goes(t, Welcoming(req[t], nextId)) /\ nextId \in Id
  /\ Named(req[t].name) = {} /\ row' = [row EXCEPT ![nextId] = NewRow(req[t].name, req[t].pw)]
  /\ nextId' = nextId + 1 /\ born' = [born EXCEPT ![nextId] = @ + 1]
  /\ mine' = [mine EXCEPT ![req[t].c] = @ \cup {<<nextId, born[nextId] + 1>>}]

LEMMA ManagedRows ==
  ASSUME Typed, NEW i \in Id, Manage(i)
  PROVE  NoNewRow
<1>1. Live(i) /\ UNCHANGED <<nextId, born>> /\ row[i] \in Row
  BY DEF Manage, Typed
<1>2. \A j \in Id : j # i => row'[j] = row[j]
  BY DEF Manage, Approve, Revoke, Delete, MintLink, Typed
<1>3. row'[i].status = "none" \/ row'[i].name = row[i].name
  <2>1. CASE Approve(i) \/ Revoke(i)
    BY <1>1, <2>1 DEF Approve, Revoke, Typed, Row
  <2>2. CASE Delete(i)
    BY <2>2 DEF Delete, Typed, NoRow
  <2>3. CASE MintLink(i)
    BY <1>1, <2>3 DEF MintLink, Typed, Row
  <2> QED BY <2>1, <2>2, <2>3 DEF Manage
<1> QED BY <1>1, <1>2, <1>3 DEF NoNewRow, Live

LEMMA Rows ==
  ASSUME BoundAssumption, Typed, Held, [Next]_vars
  PROVE  NoNewRow \/ \E t \in Thread : Appears(t)
<1>1. CASE UNCHANGED <<nextId, born, row>>
  BY <1>1 DEF NoNewRow, Live
<1>2. ASSUME NEW t \in Thread, Insert(t), ~UNCHANGED <<nextId, born, row>>
      PROVE  Appears(t)
  BY <1>2, InsertWay DEF Appears
<1>3. ASSUME NEW t \in Thread, Burn(t)
      PROVE  NoNewRow
  <2>1. req[t].uid \in Id /\ row[req[t].uid] \in Row
    BY <1>3, BurnWay DEF Held, Typed
  <2>2. row' = Burned(req[t].uid) /\ UNCHANGED <<nextId, born>>
    BY <1>3, BurnWay
  <2> QED BY <2>1, <2>2 DEF Burned, Live, NoNewRow, Typed, Row
<1>4. ASSUME NEW t \in Thread, SetPassword(t)
      PROVE  NoNewRow
  <2>1. req[t].uid \in Id /\ row[req[t].uid] \in Row
    BY <1>4, SetPasswordWay DEF Held, Typed
  <2>2. /\ row' = IF Live(req[t].uid) THEN [row EXCEPT ![req[t].uid].pw = req[t].pw] ELSE row
        /\ UNCHANGED <<nextId, born>>
    BY <1>4, SetPasswordWay
  <2> QED BY <2>1, <2>2 DEF Live, NoNewRow, Typed, Row
<1>5. ASSUME NEW t \in Thread, NEW st \in Style, SetStyle(t, st)
      PROVE  NoNewRow
  <2>1. req[t].s.uid \in Id /\ row[req[t].s.uid] \in Row
    BY <1>5, SetStyleWay DEF Held, Typed
  <2>2. /\ row' = IF Live(req[t].s.uid) THEN [row EXCEPT ![req[t].s.uid].style = st] ELSE row
        /\ UNCHANGED <<nextId, born>>
    BY <1>5, SetStyleWay
  <2> QED BY <2>1, <2>2 DEF Live, NoNewRow, Typed, Row
<1>6. ASSUME NEW t \in Thread, NEW i \in Id, Owner(t, i)
      PROVE  NoNewRow
  <2>1. UNCHANGED <<tables, buckets, history>> \/ Manage(i)
    BY <1>6, OwnerWay
  <2>2. CASE UNCHANGED <<tables, buckets, history>>
    BY <2>2 DEF NoNewRow, Live
  <2>3. CASE Manage(i)
    BY <2>3, ManagedRows
  <2> QED BY <2>1, <2>2, <2>3
<1>7. ASSUME NEW i \in Id, OwnerCurl(i)
      PROVE  NoNewRow
  BY <1>7, ManagedRows DEF OwnerCurl
<1>8. ASSUME NEW t \in Thread, Handler(t), ~\E i \in Id : Owner(t, i), ~Insert(t), ~Burn(t), ~SetPassword(t),
             ~\E st \in Style : SetStyle(t, st)
      PROVE  UNCHANGED <<nextId, born, row>>
  <2>1. CASE \E n \in Name, p \in Pw : Register(t, n, p) \/ Login(t, n, p)
    BY <2>1 DEF Register, Login
  <2>2. CASE \E k \in Token, p \in Pw : FindLink(t, k, p)
    BY <2>2 DEF FindLink
  <2>3. CASE Welcome(t) \/ Verify(t) \/ Gate(t) \/ Settings(t) \/ Logout(t) \/ AdminLogin(t) \/ AdminLogout(t)
    BY <2>3 DEF Welcome, Verify, Gate, Settings, Logout, AdminLogin, AdminLogout
  <2> QED BY <1>8, <2>1, <2>2, <2>3 DEF Handler
<1>9. ASSUME NEW t \in Thread, NEW c \in Client, NEW op \in Ops, Begin(t, c, op)
      PROVE  UNCHANGED <<nextId, born, row>>
  BY <1>9 DEF Begin
<1>10. CASE Tick \/ UNCHANGED vars
  BY <1>1, <1>10 DEF Tick, vars
<1> QED BY <1>1, <1>2, <1>3, <1>4, <1>5, <1>6, <1>7, <1>8, <1>9, <1>10 DEF Next, Quiesced

LEMMA NameStep ==
  ASSUME BoundAssumption, Typed, Held, NameUnique, [Next]_vars
  PROVE  NameUnique'
<1>1. CASE NoNewRow
  BY <1>1 DEF NoNewRow, NameUnique
<1>2. ASSUME NEW t \in Thread, Appears(t)
      PROVE  NameUnique'
  <2>1. NewRow(req[t].name, req[t].pw).name = req[t].name
    BY DEF NewRow, NoRow
  <2>2. \A i \in Id : row'[i] = IF i = nextId THEN NewRow(req[t].name, req[t].pw) ELSE row[i]
    BY <1>2 DEF Appears, Typed
  <2>3. \A i \in Id : Live(i) => row[i].name # req[t].name
    BY <1>2 DEF Appears, Named
  <2> QED BY <2>1, <2>2, <2>3 DEF NameUnique, Live
<1> QED BY <1>1, <1>2, Rows

\* Signups of one name that overlap leave one account: no two rows of the
\* users table have the same name.
THEOREM NamesAreUnique == ASSUME BoundAssumption PROVE Spec => []NameUnique
<1>1. Init => NameUnique
  BY DEF Init, NameUnique, Live, NoRow
<1>2. Typed /\ Held /\ NameUnique /\ [Next]_vars => NameUnique'
  BY NameStep
<1> QED BY <1>1, <1>2, TypeCorrect, PTL DEF Spec

-----------------------------------------------------------------------------
(* Requests                                                                *)

Starts(t) ==
  \E c \in Client, op \in Ops :
    /\ req[t].pc = "idle" /\ UNCHANGED <<tables, buckets, cookie, now, history>>
    /\ req' = [req EXCEPT ![t] = [Idle EXCEPT !.pc = "run", !.op = op, !.c = c, !.s = cookie[c]]]
\* Where the user and the admin stamp of a response come from.
UidFrom(t, u) ==
  \/ u \in {req[t].s.uid, None}
  \/ req[t].pc = "welcome" /\ u = req[t].uid
  \/ /\ req[t].pc = "verify" /\ req[t].pw # NoPw /\ u = req[t].uid /\ UNCHANGED <<nextId, born>>
     /\ mine' = [mine EXCEPT ![req[t].c] = @ \cup {<<u, born[u]>>}]
  \/ /\ req[t].pc = "setpw" /\ u = req[t].uid /\ UNCHANGED <<nextId, born>>
     /\ mine' = [mine EXCEPT ![req[t].c] = @ \cup {<<tokenOf[req[t].link], born[tokenOf[req[t].link]]>>}]
StampFrom(t, a) ==
  a \in {req[t].s.admin, Never} \/ (a = now /\ codeAt' = [codeAt EXCEPT ![req[t].c] = now])

Answers(t)   ==
  req[t].pc # "idle" /\ \E s \in Session : Closes(t, s) /\ UidFrom(t, s.uid) /\ StampFrom(t, s.admin)
Inserts(t)   == req[t].pc = "run" /\ \E n \in Name, p \in Pw : Goes(t, Inserting(req[t], n, p))
Welcomes(t)  == req[t].pc = "insert" /\ Goes(t, Welcoming(req[t], nextId)) /\ Appears(t)
Verifies(t)  ==
  /\ req[t].pc = "run" /\ ipFails[req[t].c] < MaxIpFails /\ UNCHANGED <<tables, buckets, history>>
  /\ \E n \in Name, q \in Pw \cup {NoPw}, i \in Id \cup {None} :
       (q # NoPw => i \in Named(n)) /\ Goes(t, Verifying(req[t], n, q, i))
Finds(t) ==
  /\ req[t].pc = "run" /\ UNCHANGED <<tables, buckets, history>>
  /\ \E k \in Token, p \in Pw : \E i \in Redeemable(k) : Goes(t, Burning(req[t], k, p, i))
Burns(t)     == Burn(t) /\ Goes(t, [req[t] EXCEPT !.pc = "setpw"])
Styles(t)    == req[t].pc = "run" /\ req[t].s.uid # None /\ Goes(t, [req[t] EXCEPT !.pc = "style"])

LEMMA HandlerMoves ==
  ASSUME BoundAssumption, Typed, Held, NEW t \in Thread, Handler(t)
  PROVE  \/ Answers(t) \/ Inserts(t) \/ Welcomes(t) \/ Verifies(t) \/ Finds(t) \/ Burns(t) \/ Styles(t)
<1>1. req[t] \in Request /\ req[t].s \in Session /\ req[t].uid \in Id \cup {None}
  BY SessionTypes DEF Request
<1>12. ASSUME Closes(t, req[t].s), req[t].pc # "idle"
       PROVE  Answers(t)
  BY <1>1, <1>12 DEF Answers, UidFrom, StampFrom
<1>13. ASSUME Closes(t, [req[t].s EXCEPT !.uid = None]), req[t].pc # "idle"
       PROVE  Answers(t)
  <2>1. PICK s \in Session : s = [req[t].s EXCEPT !.uid = None]
    BY SessionTypes
  <2>2. s.uid = None /\ s.admin = req[t].s.admin
    BY <1>1, <2>1 DEF Session
  <2> QED BY <1>13, <2>1, <2>2 DEF Answers, UidFrom, StampFrom
<1>14. ASSUME NEW u \in Id \cup {None}, Closes(t, SignedIn(req[t].s, u)), UidFrom(t, u), req[t].pc # "idle"
       PROVE  Answers(t)
  <2>1. PICK s \in Session : s = SignedIn(req[t].s, u)
    BY SessionTypes
  <2>2. s.uid = u /\ s.admin = req[t].s.admin
    BY <2>1 DEF SignedIn
  <2> QED BY <1>14, <2>1, <2>2 DEF Answers, StampFrom
<1>2. ASSUME NEW n \in Name, NEW p \in Pw, Register(t, n, p)
      PROVE  Answers(t) \/ Inserts(t)
  <2>1. req[t].pc = "run" /\ (Closes(t, req[t].s) \/ Goes(t, Inserting(req[t], n, p)))
    BY <1>2, RegisterWay
  <2> QED BY <1>12, <2>1 DEF Inserts
<1>3. ASSUME NEW n \in Name, NEW p \in Pw, Login(t, n, p)
      PROVE  Answers(t) \/ Verifies(t)
  <2>1. req[t].pc = "run" /\ UNCHANGED <<tables, buckets, history>>
    BY <1>3, LoginWay
  <2>2. CASE Closes(t, req[t].s)
    BY <1>12, <2>1, <2>2
  <2>3. CASE ~Closes(t, req[t].s)
    BY <1>3, <2>1, <2>3, LoginWay DEF Verifies
  <2> QED BY <2>2, <2>3
<1>4. ASSUME NEW k \in Token, NEW p \in Pw, FindLink(t, k, p)
      PROVE  Answers(t) \/ Finds(t)
  <2>1. /\ req[t].pc = "run"
        /\ UNCHANGED <<tables, userFails, regs, tokenOf, redeemed, born, mine, codeAt, out, adminOut>>
    BY <1>4, FindLinkWay
  <2>2. CASE Closes(t, req[t].s)
    BY <1>12, <2>1, <2>2
  <2>3. CASE ~Closes(t, req[t].s)
    <3>1. UNCHANGED <<ipFails, guesses>> /\ \E i \in Redeemable(k) : Goes(t, Burning(req[t], k, p, i))
      BY <1>4, <2>3, FindLinkWay
    <3>2. UNCHANGED <<tables, buckets, history>>
      BY <2>1, <3>1
    <3> QED BY <2>1, <3>1, <3>2 DEF Finds
  <2> QED BY <2>2, <2>3
<1>5. ASSUME Insert(t)
      PROVE  Answers(t) \/ Welcomes(t)
  <2>1. req[t].pc = "insert"
    BY <1>5, InsertWay
  <2>2. CASE Closes(t, req[t].s)
    BY <1>12, <2>1, <2>2
  <2>3. CASE ~Closes(t, req[t].s)
    BY <1>5, <2>3, InsertWay DEF Welcomes, Appears
  <2> QED BY <2>2, <2>3
<1>6. ASSUME Welcome(t) \/ Verify(t) \/ SetPassword(t)
      PROVE  Answers(t)
  <2>1. PICK u \in Id \cup {None} : u = req[t].uid
    BY <1>1
  <2>2. CASE Welcome(t)
    <3>1. req[t].pc = "welcome" /\ Closes(t, SignedIn(req[t].s, u))
      BY <2>1, <2>2, WelcomeWay
    <3> QED BY <1>14, <2>1, <3>1 DEF UidFrom
  <2>3. CASE Verify(t)
    <3>1. req[t].pc = "verify"
      BY <2>3, VerifyWay
    <3>2. CASE Closes(t, req[t].s)
      BY <1>12, <3>1, <3>2
    <3>3. CASE ~Closes(t, req[t].s)
      <4>1. /\ req[t].pw # NoPw /\ Closes(t, SignedIn(req[t].s, u)) /\ UNCHANGED <<nextId, born>>
            /\ mine' = [mine EXCEPT ![req[t].c] = @ \cup {<<u, born[u]>>}]
        BY <2>1, <2>3, <3>3, VerifyWay
      <4> QED BY <1>14, <2>1, <3>1, <4>1 DEF UidFrom
    <3> QED BY <3>2, <3>3
  <2>4. CASE SetPassword(t)
    <3>1. /\ req[t].pc = "setpw" /\ Closes(t, SignedIn(req[t].s, u)) /\ UNCHANGED <<nextId, born>>
          /\ mine' = [mine EXCEPT ![req[t].c] = @ \cup {<<tokenOf[req[t].link], born[tokenOf[req[t].link]]>>}]
      BY <2>1, <2>4, SetPasswordWay
    <3> QED BY <1>14, <2>1, <3>1 DEF UidFrom
  <2> QED BY <1>6, <2>2, <2>3, <2>4
<1>7. ASSUME Burn(t)
      PROVE  Burns(t)
  BY <1>7, BurnWay DEF Burns
<1>8. ASSUME Gate(t) \/ Settings(t)
      PROVE  Answers(t) \/ Styles(t)
  <2>1. req[t].pc = "run"
    BY <1>8, GateWay
  <2>2. \/ Closes(t, req[t].s)
        \/ Closes(t, [req[t].s EXCEPT !.uid = None])
        \/ req[t].s.uid # None /\ Goes(t, [req[t] EXCEPT !.pc = "style"])
    BY <1>8, GateWay
  <2> QED BY <1>12, <1>13, <2>1, <2>2 DEF Styles
<1>9. ASSUME Logout(t) \/ AdminLogin(t) \/ AdminLogout(t)
      PROVE  Answers(t)
  <2>1. CASE Logout(t)
    <3>1. PICK s \in Session : s = SignedOut(req[t].s)
      BY SessionTypes
    <3>2. s.uid = None /\ s.admin = req[t].s.admin
      BY <3>1 DEF SignedOut, Visitor
    <3> QED BY <2>1, <3>1, <3>2, LogoutWay DEF Answers, UidFrom, StampFrom
  <2>2. CASE AdminLogin(t) \/ AdminLogout(t)
    <3>1. PICK s \in Session : s = [req[t].s EXCEPT !.admin = now, !.perm = TRUE]
      BY SessionTypes
    <3>2. s.uid = req[t].s.uid /\ s.admin = now
      BY <1>1, <3>1 DEF Session
    <3>3. PICK z \in Session : z = [req[t].s EXCEPT !.admin = Never]
      BY SessionTypes
    <3>4. z.uid = req[t].s.uid /\ z.admin = Never
      BY <1>1, <3>3 DEF Session
    <3>5. req[t].pc = "run"
      BY <2>2, AdminWay
    <3>6. \/ Closes(t, s) /\ codeAt' = [codeAt EXCEPT ![req[t].c] = now]
          \/ Closes(t, z)
      BY <2>2, <3>1, <3>3, AdminWay
    <3> QED BY <3>2, <3>4, <3>5, <3>6 DEF Answers, UidFrom, StampFrom
  <2> QED BY <1>9, <2>1, <2>2
<1>10. ASSUME NEW st \in Style, SetStyle(t, st)
      PROVE  Answers(t)
  <2>1. req[t].pc = "style" /\ Closes(t, req[t].s)
    BY <1>10, SetStyleWay
  <2> QED BY <1>12, <2>1
<1>11. ASSUME NEW i \in Id, Owner(t, i)
       PROVE  Answers(t)
  <2>1. req[t].pc = "run" /\ Closes(t, req[t].s)
    BY <1>11, OwnerWay
  <2> QED BY <1>12, <2>1
<1> QED BY <1>2, <1>3, <1>4, <1>5, <1>6, <1>7, <1>8, <1>9, <1>10, <1>11 DEF Handler

LEMMA StepMoves ==
  ASSUME BoundAssumption, Typed, Held, [Next]_vars
  PROVE  \/ UNCHANGED <<cookie, req>>
         \/ \E t \in Thread : \/ Starts(t) \/ Answers(t) \/ Inserts(t) \/ Welcomes(t) \/ Verifies(t)
                              \/ Finds(t) \/ Burns(t) \/ Styles(t)
<1>1. ASSUME NEW t \in Thread, NEW c \in Client, NEW op \in Ops, Begin(t, c, op)
      PROVE  Starts(t)
  BY <1>1 DEF Begin, Starts
<1>2. CASE Tick \/ UNCHANGED vars \/ \E i \in Id : OwnerCurl(i)
  BY <1>2 DEF Tick, vars, OwnerCurl
<1> QED BY <1>1, <1>2, HandlerMoves DEF Next, Quiesced

\* Where a request goes on, with its browser and its session.
LEMMA Lands ==
  ASSUME Typed, NEW t \in Thread
  PROVE  /\ Inserts(t) \/ Welcomes(t) \/ Verifies(t) \/ Finds(t) \/ Burns(t) \/ Styles(t) =>
              req'[t].c = req[t].c /\ req'[t].s = req[t].s /\ UNCHANGED cookie
         /\ Inserts(t)  => req'[t].pc = "insert"
         /\ Welcomes(t) => req'[t].pc = "welcome" /\ req'[t].uid = nextId
         /\ Verifies(t) => /\ req'[t].pc = "verify"
                           /\ req'[t].pw # NoPw => req'[t].uid \in Id /\ Live(req'[t].uid)
         /\ Finds(t)    => req'[t].pc = "burn"
         /\ Burns(t)    => req'[t].pc = "setpw"
         /\ Styles(t)   => req'[t].pc = "style"
<1>1. ASSUME NEW r, Goes(t, r)
      PROVE  req'[t] = r /\ req'[t].c = req[t].c /\ req'[t].s = req[t].s /\ UNCHANGED cookie
  BY <1>1, GoesTo DEF Goes
<1>2. req[t] \in Request
  BY DEF Typed
<1>3. ASSUME Inserts(t)
      PROVE  req'[t].c = req[t].c /\ req'[t].s = req[t].s /\ UNCHANGED cookie /\ req'[t].pc = "insert"
  <2>1. PICK n \in Name, p \in Pw : Goes(t, Inserting(req[t], n, p))
    BY <1>3 DEF Inserts
  <2>2. Inserting(req[t], n, p).pc = "insert"
    BY <1>2 DEF Inserting, Request
  <2> QED BY <1>1, <2>1, <2>2
<1>4. ASSUME Welcomes(t)
      PROVE  /\ req'[t].c = req[t].c /\ req'[t].s = req[t].s /\ UNCHANGED cookie
             /\ req'[t].pc = "welcome" /\ req'[t].uid = nextId
  <2>1. PICK i \in Nat : i = nextId
    BY DEF Typed
  <2>2. Goes(t, Welcoming(req[t], i))
    BY <1>4, <2>1 DEF Welcomes
  <2>3. Welcoming(req[t], i).pc = "welcome" /\ Welcoming(req[t], i).uid = i
    BY <1>2 DEF Welcoming, Request
  <2> QED BY <1>1, <2>1, <2>2, <2>3
<1>5. ASSUME Verifies(t)
      PROVE  /\ req'[t].c = req[t].c /\ req'[t].s = req[t].s /\ UNCHANGED cookie
             /\ req'[t].pc = "verify"
             /\ req'[t].pw # NoPw => req'[t].uid \in Id /\ Live(req'[t].uid)
  <2>1. PICK n \in Name, q \in Pw \cup {NoPw}, i \in Id \cup {None} :
          (q # NoPw => i \in Named(n)) /\ Goes(t, Verifying(req[t], n, q, i))
    BY <1>5 DEF Verifies
  <2>2. /\ Verifying(req[t], n, q, i).pc = "verify"
        /\ Verifying(req[t], n, q, i).pw = q /\ Verifying(req[t], n, q, i).uid = i
    BY <1>2 DEF Verifying, Request
  <2>3. i \in Named(n) => i \in Id /\ Live(i)
    BY DEF Named
  <2> QED BY <1>1, <2>1, <2>2, <2>3
<1>6. ASSUME Finds(t)
      PROVE  req'[t].c = req[t].c /\ req'[t].s = req[t].s /\ UNCHANGED cookie /\ req'[t].pc = "burn"
  <2>1. PICK k \in Token, p \in Pw : \E i \in Redeemable(k) : Goes(t, Burning(req[t], k, p, i))
    BY <1>6 DEF Finds
  <2>2. PICK i \in Redeemable(k) : Goes(t, Burning(req[t], k, p, i))
    BY <2>1
  <2>3. Burning(req[t], k, p, i).pc = "burn"
    BY <1>2 DEF Burning, Request
  <2> QED BY <1>1, <2>2, <2>3
<1>7. ASSUME Burns(t)
      PROVE  req'[t].c = req[t].c /\ req'[t].s = req[t].s /\ UNCHANGED cookie /\ req'[t].pc = "setpw"
  <2>1. [req[t] EXCEPT !.pc = "setpw"].pc = "setpw" /\ Goes(t, [req[t] EXCEPT !.pc = "setpw"])
    BY <1>2, <1>7 DEF Burns, Request
  <2> QED BY <1>1, <2>1
<1>8. ASSUME Styles(t)
      PROVE  req'[t].c = req[t].c /\ req'[t].s = req[t].s /\ UNCHANGED cookie /\ req'[t].pc = "style"
  <2>1. [req[t] EXCEPT !.pc = "style"].pc = "style" /\ Goes(t, [req[t] EXCEPT !.pc = "style"])
    BY <1>2, <1>8 DEF Styles, Request
  <2> QED BY <1>1, <2>1
<1> QED BY <1>3, <1>4, <1>5, <1>6, <1>7, <1>8

-----------------------------------------------------------------------------
(* Links                                                                   *)

\* Links are not minted, only dropped.
LinksKept ==
  /\ UNCHANGED <<nextToken, tokenOf>>
  /\ \A i \in Id : row'[i].link = None \/ (row'[i].link = row[i].link /\ (Live(i) => Live(i)'))

LEMMA ManagedLinks ==
  ASSUME Typed, NEW i \in Id, Manage(i)
  PROVE  LinksKept \/ MintLink(i)
<1>1. Live(i) /\ row[i] \in Row
  BY DEF Manage, Typed
<1>2. CASE Approve(i) \/ Revoke(i)
  <2>1. row'[i].status # "none" /\ row'[i].link = row[i].link /\ UNCHANGED <<nextToken, tokenOf>>
        /\ \A j \in Id : j # i => row'[j] = row[j]
    <3>1. CASE Approve(i)
      BY <1>1, <3>1 DEF Approve, Manage, Typed, Row
    <3>2. CASE Revoke(i)
      BY <1>1, <3>2 DEF Revoke, Manage, Typed, Row
    <3> QED BY <1>2, <3>1, <3>2
  <2> QED BY <2>1 DEF LinksKept, Live
<1>3. CASE Delete(i)
  <2>1. row'[i].link = None /\ UNCHANGED <<nextToken, tokenOf>> /\ \A j \in Id : j # i => row'[j] = row[j]
    BY <1>3 DEF Delete, NoRow, Typed
  <2> QED BY <2>1 DEF LinksKept, Live
<1> QED BY <1>2, <1>3 DEF Manage

LEMMA Links ==
  ASSUME BoundAssumption, Typed, Held, [Next]_vars
  PROVE  LinksKept \/ \E i \in Id : Manage(i) /\ MintLink(i)
<1>1. CASE UNCHANGED <<nextToken, tokenOf, row>>
  BY <1>1 DEF LinksKept, Live
<1>2. ASSUME NEW t \in Thread, Insert(t), ~UNCHANGED row
      PROVE  LinksKept
  <2>1. /\ nextId \in Id /\ row' = [row EXCEPT ![nextId] = NewRow(req[t].name, req[t].pw)]
        /\ UNCHANGED <<nextToken, tokenOf>>
    BY <1>2, InsertWay
  <2>2. NewRow(req[t].name, req[t].pw).link = None
    BY DEF NewRow, NoRow
  <2> QED BY <2>1, <2>2 DEF LinksKept, Typed, Live
<1>3. ASSUME NEW t \in Thread, Burn(t)
      PROVE  LinksKept
  <2>1. req[t].uid \in Id /\ row[req[t].uid] \in Row
    BY <1>3, BurnWay DEF Held, Typed
  <2>2. row' = Burned(req[t].uid) /\ UNCHANGED <<nextToken, tokenOf>>
    BY <1>3, BurnWay
  <2> QED BY <2>1, <2>2 DEF Burned, Live, LinksKept, Typed, Row
<1>4. ASSUME NEW t \in Thread, SetPassword(t)
      PROVE  LinksKept
  <2>1. req[t].uid \in Id /\ row[req[t].uid] \in Row
    BY <1>4, SetPasswordWay DEF Held, Typed
  <2>2. /\ row' = IF Live(req[t].uid) THEN [row EXCEPT ![req[t].uid].pw = req[t].pw] ELSE row
        /\ UNCHANGED <<nextToken, tokenOf>>
    BY <1>4, SetPasswordWay
  <2> QED BY <2>1, <2>2 DEF Live, LinksKept, Typed, Row
<1>5. ASSUME NEW t \in Thread, NEW st \in Style, SetStyle(t, st)
      PROVE  LinksKept
  <2>1. req[t].s.uid \in Id /\ row[req[t].s.uid] \in Row
    BY <1>5, SetStyleWay DEF Held, Typed
  <2>2. /\ row' = IF Live(req[t].s.uid) THEN [row EXCEPT ![req[t].s.uid].style = st] ELSE row
        /\ UNCHANGED <<nextToken, tokenOf>>
    BY <1>5, SetStyleWay
  <2> QED BY <2>1, <2>2 DEF Live, LinksKept, Typed, Row
<1>6. ASSUME NEW t \in Thread, NEW i \in Id, Owner(t, i)
      PROVE  LinksKept \/ (Manage(i) /\ MintLink(i))
  <2>1. UNCHANGED <<tables, buckets, history>> \/ Manage(i)
    BY <1>6, OwnerWay
  <2>2. CASE UNCHANGED <<tables, buckets, history>>
    BY <2>2 DEF LinksKept, Live
  <2>3. CASE Manage(i)
    BY <2>3, ManagedLinks
  <2> QED BY <2>1, <2>2, <2>3
<1>7. ASSUME NEW i \in Id, OwnerCurl(i)
      PROVE  LinksKept \/ (Manage(i) /\ MintLink(i))
  BY <1>7, ManagedLinks DEF OwnerCurl
<1>8. ASSUME NEW t \in Thread, Handler(t), ~\E i \in Id : Owner(t, i), ~(Insert(t) /\ ~UNCHANGED row), ~Burn(t),
             ~SetPassword(t), ~\E st \in Style : SetStyle(t, st)
      PROVE  UNCHANGED <<nextToken, tokenOf, row>>
  <2>1. CASE \E n \in Name, p \in Pw : Register(t, n, p) \/ Login(t, n, p)
    BY <2>1 DEF Register, Login
  <2>2. CASE \E k \in Token, p \in Pw : FindLink(t, k, p)
    BY <2>2 DEF FindLink
  <2>3. CASE Welcome(t) \/ Verify(t) \/ Gate(t) \/ Settings(t) \/ Logout(t) \/ AdminLogin(t) \/ AdminLogout(t)
    BY <2>3 DEF Welcome, Verify, Gate, Settings, Logout, AdminLogin, AdminLogout
  <2>4. CASE Insert(t) /\ UNCHANGED row
    BY <2>4 DEF Insert
  <2> QED BY <1>8, <2>1, <2>2, <2>3, <2>4 DEF Handler
<1>9. ASSUME NEW t \in Thread, NEW c \in Client, NEW op \in Ops, Begin(t, c, op)
      PROVE  UNCHANGED <<nextToken, tokenOf, row>>
  BY <1>9 DEF Begin
<1>10. CASE Tick \/ UNCHANGED vars
  BY <1>1, <1>10 DEF Tick, vars
<1> QED BY <1>1, <1>2, <1>3, <1>4, <1>5, <1>6, <1>7, <1>8, <1>9, <1>10 DEF Next, Quiesced

\* A row's link was minted for that row, and a request that found a link
\* works for the row it was minted for.
Linked ==
  /\ \A i \in Id : row[i].link # None =>
       Live(i) /\ row[i].link < nextToken /\ tokenOf[row[i].link] = i
  /\ \A t \in Thread : req[t].pc \in {"burn", "setpw"} =>
       req[t].link < nextToken /\ tokenOf[req[t].link] = req[t].uid

\* What request u holds at the end of a step it held before, or found.
LEMMA HoldersLink ==
  ASSUME BoundAssumption, Typed, Held, [Next]_vars, NEW u \in Thread, req'[u].pc \in {"burn", "setpw"}
  PROVE  /\ req'[u].link \in Token /\ req'[u].uid \in Id
         /\ \/ /\ req[u].pc \in {"burn", "setpw"} /\ req'[u].link = req[u].link
               /\ req'[u].uid = req[u].uid
            \/ req'[u].pc = "burn" /\ Finds(u) /\ req'[u].uid \in Redeemable(req'[u].link)
<1>1. req'[u].link \in Token /\ req'[u].uid \in Id
  BY TypedStep DEF Held
<1>2. CASE req'[u] = req[u]
  BY <1>1, <1>2
<1>3. CASE req'[u] # req[u]
  <2>1. PICK t \in Thread : \/ Starts(t) \/ Answers(t) \/ Inserts(t) \/ Welcomes(t) \/ Verifies(t)
                            \/ Finds(t) \/ Burns(t) \/ Styles(t)
    BY <1>3, StepMoves
  <2>2. t = u /\ req[u] \in Request
    BY <1>3, <2>1 DEF Starts, Answers, Inserts, Welcomes, Verifies, Finds, Burns, Styles, Goes, Closes, Typed
  <2>3. CASE Starts(t) \/ Answers(t)
    <3>1. req'[u].pc \in {"run", "idle"}
      <4>1. CASE Starts(t)
        BY <2>2, <4>1 DEF Starts, Idle, Typed
      <4>2. CASE Answers(t)
        BY <2>2, <4>2 DEF Answers, Closes, Idle, Typed
      <4> QED BY <2>3, <4>1, <4>2
    <3> QED BY <3>1
  <2>7. ASSUME NEW r, Goes(t, r)
        PROVE  req'[u] = r
    BY <2>2, <2>7, GoesTo
  <2>4. CASE Inserts(t) \/ Welcomes(t) \/ Verifies(t) \/ Styles(t)
    <3>1. CASE Inserts(t)
      BY <2>2, <2>7, <3>1 DEF Inserts, Inserting, Request
    <3>2. CASE Welcomes(t)
      BY <2>2, <2>7, <3>2 DEF Welcomes, Welcoming, Request
    <3>3. CASE Verifies(t)
      BY <2>2, <2>7, <3>3 DEF Verifies, Verifying, Request
    <3>4. CASE Styles(t)
      BY <2>2, <2>7, <3>4 DEF Styles, Request
    <3> QED BY <2>4, <3>1, <3>2, <3>3, <3>4
  <2>5. CASE Burns(t)
    <3>1. req'[u] = [req[u] EXCEPT !.pc = "setpw"] /\ req[u].pc = "burn"
      BY <2>2, <2>5, <2>7 DEF Burns, Burn
    <3>2. req'[u].link = req[u].link /\ req'[u].uid = req[u].uid
      BY <2>2, <3>1 DEF Request
    <3> QED BY <1>1, <3>1, <3>2
  <2>6. CASE Finds(t)
    <3>1. PICK k \in Token, p \in Pw : \E i \in Redeemable(k) : Goes(t, Burning(req[t], k, p, i))
      BY <2>6 DEF Finds
    <3>2. PICK i \in Redeemable(k) : Goes(t, Burning(req[t], k, p, i))
      BY <3>1
    <3>3. req'[u] = Burning(req[u], k, p, i)
      BY <2>2, <3>2 DEF Goes, Typed
    <3>4. req'[u].pc = "burn" /\ req'[u].link = k /\ req'[u].uid = i
      BY <2>2, <3>3 DEF Burning, Request
    <3> QED BY <1>1, <2>2, <2>6, <3>2, <3>4
  <2> QED BY <2>1, <2>3, <2>4, <2>5, <2>6
<1> QED BY <1>2, <1>3

\* A request that has burned its link is past it.
LEMMA SetPasswordStays ==
  ASSUME BoundAssumption, Typed, Held, [Next]_vars, NEW u \in Thread, req[u].pc = "setpw"
  PROVE  req'[u].pc \in {"setpw", "idle"}
<1>1. CASE req'[u] = req[u]
  BY <1>1
<1>2. CASE req'[u] # req[u]
  <2>1. PICK t \in Thread : \/ Starts(t) \/ Answers(t) \/ Inserts(t) \/ Welcomes(t) \/ Verifies(t)
                            \/ Finds(t) \/ Burns(t) \/ Styles(t)
    BY <1>2, StepMoves
  <2>2. t = u
    BY <1>2, <2>1 DEF Starts, Answers, Inserts, Welcomes, Verifies, Finds, Burns, Styles, Goes, Closes, Typed
  <2>3. Answers(u)
    BY <2>1, <2>2 DEF Starts, Inserts, Welcomes, Verifies, Finds, Burns, Burn, Styles
  <2> QED BY <2>3 DEF Answers, Closes, Idle, Typed
<1> QED BY <1>1, <1>2

LEMMA LinkedStep ==
  ASSUME BoundAssumption, Typed, Held, Linked, [Next]_vars
  PROVE  Linked'
<1>1. nextToken \in Nat /\ None \notin Token /\ (\A i \in Id : row[i].link \in Token \cup {None})
  BY DEF Typed, Row
<1>2. \A u \in Thread : req'[u].pc \in {"burn", "setpw"} =>
        /\ req'[u].link \in Token /\ req'[u].link < nextToken /\ tokenOf[req'[u].link] = req'[u].uid
  <2> TAKE u \in Thread
  <2> HAVE req'[u].pc \in {"burn", "setpw"}
  <2>1. CASE req[u].pc \in {"burn", "setpw"} /\ req'[u].link = req[u].link /\ req'[u].uid = req[u].uid
    BY <2>1, HoldersLink DEF Linked
  <2>2. CASE req'[u].uid \in Redeemable(req'[u].link)
    BY <1>1, <2>2, HoldersLink DEF Linked, Redeemable
  <2> QED BY <2>1, <2>2, HoldersLink
<1>3. CASE LinksKept
  BY <1>2, <1>3 DEF LinksKept, Linked
<1>4. ASSUME NEW i \in Id, Manage(i), MintLink(i)
      PROVE  Linked'
  <2>1. /\ nextToken \in Token /\ nextToken' = nextToken + 1 /\ Live(i) /\ row[i] \in Row
        /\ row' = [row EXCEPT ![i] = [@ EXCEPT !.link = nextToken, !.until = now + 1]]
        /\ tokenOf' = [tokenOf EXCEPT ![nextToken] = i]
    BY <1>4 DEF Manage, MintLink, Typed
  <2>2. row'[i].link = nextToken /\ row'[i].status = row[i].status /\ \A j \in Id : j # i => row'[j] = row[j]
    BY <2>1 DEF Typed, Row
  <2>3. \A k \in Token : k < nextToken => tokenOf'[k] = tokenOf[k]
    BY <1>1, <2>1 DEF Typed
  <2>4. tokenOf'[nextToken] = i /\ nextToken < nextToken' /\ \A k \in Token : k < nextToken => k < nextToken'
    BY <1>1, <2>1 DEF Typed
  <2>5. \A j \in Id : row'[j].link # None =>
          Live(j)' /\ row'[j].link < nextToken' /\ tokenOf'[row'[j].link] = j
    BY <1>1, <2>1, <2>2, <2>3, <2>4 DEF Linked, Live
  <2> QED BY <1>2, <2>3, <2>4, <2>5 DEF Linked
<1> QED BY <1>3, <1>4, Links

LEMMA LinksLast == ASSUME BoundAssumption PROVE Spec => []Linked
<1>1. Init => Linked
  BY DEF Init, Linked, NoRow, Idle
<1>2. Typed /\ Held /\ Linked /\ [Next]_vars => Linked'
  BY LinkedStep
<1> QED BY <1>1, <1>2, TypeCorrect, PTL DEF Spec

-----------------------------------------------------------------------------
(* How often a link is redeemed                                            *)

\* The requests that found link k and have not burned it yet.
Burners(k) == {t \in Thread : req[t].pc = "burn" /\ req[t].link = k}

\* Once link k is redeemed no row has it, so nobody finds it again.
Spent ==
  \A k \in Token :
    /\ redeemed[k] > 0 => k < nextToken /\ \A i \in Id : row[i].link # k
    /\ redeemed[k] + Cardinality(Burners(k)) <= Cardinality(Thread)

LEMMA RedeemedKept ==
  ASSUME [Next]_vars
  PROVE  UNCHANGED redeemed \/ \E t \in Thread : Burn(t)
<1>1. ASSUME NEW t \in Thread, Handler(t), ~Burn(t)
      PROVE  UNCHANGED redeemed
  <2>1. CASE \E n \in Name, p \in Pw : Register(t, n, p) \/ Login(t, n, p)
    BY <2>1 DEF Register, Login
  <2>2. CASE \E k \in Token, p \in Pw : FindLink(t, k, p)
    BY <2>2 DEF FindLink
  <2>3. CASE \/ Insert(t) \/ Welcome(t) \/ Verify(t) \/ SetPassword(t) \/ Gate(t) \/ Settings(t) \/ Logout(t)
             \/ AdminLogin(t) \/ AdminLogout(t) \/ \E st \in Style : SetStyle(t, st)
    BY <2>3 DEF Insert, Welcome, Verify, SetPassword, Gate, Settings, Logout, AdminLogin, AdminLogout, SetStyle
  <2>4. CASE \E i \in Id : Owner(t, i)
    BY <2>4 DEF Owner, Manage
  <2> QED BY <1>1, <2>1, <2>2, <2>3, <2>4 DEF Handler
<1>2. CASE ~\E t \in Thread : Handler(t)
  BY <1>2 DEF Next, Begin, OwnerCurl, Manage, Tick, Quiesced, vars
<1> QED BY <1>1, <1>2

LEMMA ThreadsFinite ==
  ASSUME IsFiniteSet(Thread), NEW P \in SUBSET Thread
  PROVE  IsFiniteSet(P) /\ Cardinality(P) \in Nat /\ Cardinality(P) <= Cardinality(Thread)
         /\ Cardinality(Thread) \in Nat
  BY FS_Subset, FS_CardinalityType

LEMMA SpentStep ==
  ASSUME BoundAssumption, IsFiniteSet(Thread), Typed, Held, Linked, Spent, [Next]_vars
  PROVE  Spent'
<1> SUFFICES ASSUME NEW k \in Token
             PROVE  /\ redeemed'[k] > 0 => k < nextToken' /\ \A i \in Id : row'[i].link # k
                    /\ redeemed'[k] + Cardinality(Burners(k)') <= Cardinality(Thread)
  BY DEF Spent
<1>1. /\ redeemed[k] \in Nat /\ k # None /\ nextToken \in Nat /\ k \in Nat
      /\ Cardinality(Burners(k)) \in Nat /\ Cardinality(Burners(k)') \in Nat
      /\ Cardinality(Thread) \in Nat
      /\ Cardinality(Burners(k)') <= Cardinality(Thread)
      /\ Burners(k)' \in SUBSET Thread /\ Burners(k) \in SUBSET Thread
      /\ IsFiniteSet(Burners(k)) /\ IsFiniteSet(Burners(k)')
  <2>1. Burners(k) \in SUBSET Thread /\ Burners(k)' \in SUBSET Thread
    BY DEF Burners
  <2>2. redeemed[k] \in Nat /\ k # None /\ nextToken \in Nat /\ k \in Nat
    BY DEF Typed
  <2> QED BY <2>1, <2>2, ThreadsFinite
<1>2. CASE \E t \in Thread : Burn(t) /\ req[t].link = k
  <2>1. PICK t \in Thread : Burn(t) /\ req[t].link = k
    BY <1>2
  <2>2. /\ req[t].pc = "burn" /\ Goes(t, [req[t] EXCEPT !.pc = "setpw"])
        /\ row' = Burned(req[t].uid) /\ redeemed' = [redeemed EXCEPT ![req[t].link] = @ + 1]
        /\ nextToken' = nextToken
    BY <2>1, BurnWay
  <2>3. /\ req[t] \in Request /\ req[t].uid \in Id /\ k < nextToken /\ tokenOf[k] = req[t].uid
        /\ row \in [Id -> Row]
    BY <2>1, <2>2 DEF Held, Typed, Linked
  <2>4. \A i \in Id : row'[i].link # k
    <3>1. \A i \in Id : row[i].link = k => i = req[t].uid /\ Live(i)
      BY <1>1, <2>3 DEF Linked
    <3> QED BY <1>1, <2>2, <2>3, <3>1 DEF Burned, Row
  <2>5. redeemed'[k] = redeemed[k] + 1
    BY <2>1, <2>2 DEF Typed
  <2>6. Burners(k)' = Burners(k) \ {t} /\ t \in Burners(k)
    <3>1. req' = [req EXCEPT ![t] = [req[t] EXCEPT !.pc = "setpw"]] /\ req'[t].pc = "setpw"
      BY <2>2, <2>3 DEF Goes, Request, Typed
    <3>2. \A u \in Thread : u # t => req'[u] = req[u]
      BY <3>1 DEF Typed
    <3> QED BY <2>1, <2>2, <3>1, <3>2 DEF Burners
  <2>7. Cardinality(Burners(k)') = Cardinality(Burners(k)) - 1
    BY <1>1, <2>6, FS_RemoveElement
  <2>8. redeemed[k] + Cardinality(Burners(k)) <= Cardinality(Thread)
    BY DEF Spent
  <2> QED BY <1>1, <2>2, <2>3, <2>4, <2>5, <2>7, <2>8
<1>3. CASE ~\E t \in Thread : Burn(t) /\ req[t].link = k
  <2>1. redeemed'[k] = redeemed[k]
    <3>1. ASSUME NEW t \in Thread, Burn(t)
          PROVE  redeemed'[k] = redeemed[k]
      <4>1. req[t].link \in Token /\ redeemed' = [redeemed EXCEPT ![req[t].link] = @ + 1] /\ req[t].link # k
        BY <1>3, <3>1, BurnWay DEF Held
      <4> QED BY <4>1 DEF Typed
    <3> QED BY <3>1, RedeemedKept
  <2>2. redeemed'[k] > 0 => k < nextToken' /\ \A i \in Id : row'[i].link # k
    <3>1. CASE LinksKept
      BY <1>1, <2>1, <3>1 DEF LinksKept, Spent
    <3>2. ASSUME NEW i \in Id, Manage(i), MintLink(i)
          PROVE  redeemed'[k] > 0 => k < nextToken' /\ \A j \in Id : row'[j].link # k
      <4>1. /\ nextToken' = nextToken + 1 /\ row[i] \in Row
            /\ row' = [row EXCEPT ![i] = [@ EXCEPT !.link = nextToken, !.until = now + 1]]
        BY <3>2 DEF MintLink, Typed
      <4>2. row'[i].link = nextToken /\ \A j \in Id : j # i => row'[j] = row[j]
        BY <4>1 DEF Typed, Row
      <4> QED BY <1>1, <2>1, <4>1, <4>2 DEF Spent
    <3> QED BY <3>1, <3>2, Links
  <2>3. redeemed'[k] + Cardinality(Burners(k)') <= Cardinality(Thread)
    <3>1. CASE Burners(k)' \subseteq Burners(k)
      <4>1. Cardinality(Burners(k)') <= Cardinality(Burners(k))
        BY <1>1, <3>1, FS_Subset
      <4>2. redeemed[k] + Cardinality(Burners(k)) <= Cardinality(Thread)
        BY DEF Spent
      <4> QED BY <1>1, <2>1, <4>1, <4>2
    <3>2. CASE ~(Burners(k)' \subseteq Burners(k))
      <4>1. PICK u \in Thread : req'[u].pc = "burn" /\ req'[u].link = k /\ u \notin Burners(k)
        BY <3>2 DEF Burners
      <4>2. \/ req[u].pc \in {"burn", "setpw"} /\ req'[u].link = req[u].link
            \/ req'[u].uid \in Redeemable(req'[u].link)
        BY <4>1, HoldersLink
      <4>3. req[u].pc # "setpw"
        BY <4>1, SetPasswordStays
      <4>4. \E i \in Id : row[i].link = k
        BY <4>1, <4>2, <4>3 DEF Burners, Redeemable
      <4>5. redeemed[k] = 0
        BY <1>1, <4>4 DEF Spent
      <4> QED BY <1>1, <2>1, <4>5
    <3> QED BY <3>1, <3>2
  <2> QED BY <2>2, <2>3
<1> QED BY <1>2, <1>3

\* A reset link is strictly one shot, up to the requests that found it at the
\* same time: it is redeemed at most once for each request thread.
THEOREM LinksBurn == ASSUME BoundAssumption, IsFiniteSet(Thread) PROVE Spec => []LinkBurns
<1>1. Init => Spent
  <2> SUFFICES ASSUME Init, NEW k \in Token
               PROVE  ~(redeemed[k] > 0) /\ redeemed[k] + Cardinality(Burners(k)) <= Cardinality(Thread)
    BY DEF Spent
  <2>1. redeemed[k] = 0 /\ Burners(k) = {}
    BY DEF Init, Burners, Idle
  <2> QED BY <2>1, FS_EmptySet, FS_CardinalityType
<1>2. Typed /\ Held /\ Linked /\ Spent /\ [Next]_vars => Spent'
  BY SpentStep
<1>3. Typed /\ Spent => LinkBurns
  <2> SUFFICES ASSUME Typed, Spent, NEW k \in Token
               PROVE  redeemed[k] <= Cardinality(Thread)
    BY DEF LinkBurns
  <2>1. Burners(k) \in SUBSET Thread /\ redeemed[k] \in Nat
    BY DEF Burners, Typed
  <2>2. Cardinality(Burners(k)) \in Nat /\ Cardinality(Thread) \in Nat
    BY <2>1, ThreadsFinite
  <2> QED BY <2>1, <2>2 DEF Spent
<1> QED BY <1>1, <1>2, <1>3, TypeCorrect, LinksLast, PTL DEF Spec

-----------------------------------------------------------------------------
(* How many guesses an address has                                         *)

\* The requests from c that passed the limits and have not judged yet.
Judges(c) == {t \in Thread : req[t].pc = "verify" /\ req[t].c = c}

\* A bucket is full only up to the requests that were let past it together.
Judged ==
  \A c \in Client :
    /\ guesses[c] = ipFails[c]
    /\ ipFails[c] + Cardinality(Judges(c)) <= MaxIpFails - 1 + Cardinality(Thread)

Misses(t) ==
  /\ req'[t].pc = "idle" /\ req[t].c \in Client
  /\ ipFails' = [ipFails EXCEPT ![req[t].c] = @ + 1]
  /\ guesses' = [guesses EXCEPT ![req[t].c] = @ + 1]
  /\ req[t].pc = "verify" \/ ipFails[req[t].c] < MaxIpFails

LEMMA Failures ==
  ASSUME BoundAssumption, Typed, Held, [Next]_vars
  PROVE  UNCHANGED <<ipFails, guesses>> \/ Tick \/ \E t \in Thread : Misses(t)
<1>1. ASSUME NEW t \in Thread, Verify(t)
      PROVE  UNCHANGED <<ipFails, guesses>> \/ Misses(t)
  <2>1. req[t].c \in Client /\ req[t].pc = "verify"
    BY <1>1, VerifyWay DEF Held
  <2>2. CASE req[t].pw = NoPw
    <3>1. /\ Closes(t, req[t].s) /\ ipFails' = [ipFails EXCEPT ![req[t].c] = @ + 1]
          /\ guesses' = [guesses EXCEPT ![req[t].c] = @ + 1]
      BY <1>1, <2>2, VerifyWay
    <3>2. req'[t].pc = "idle"
      BY <3>1 DEF Closes, Idle, Typed
    <3> QED BY <2>1, <3>1, <3>2 DEF Misses
  <2>3. CASE req[t].pw # NoPw
    BY <1>1, <2>3, VerifyWay
  <2> QED BY <2>2, <2>3
<1>2. ASSUME NEW t \in Thread, NEW k \in Token, NEW p \in Pw, FindLink(t, k, p)
      PROVE  UNCHANGED <<ipFails, guesses>> \/ Misses(t)
  <2>1. req[t].c \in Client
    BY <1>2, FindLinkWay DEF Held
  <2>2. CASE ~UNCHANGED <<ipFails, guesses>>
    <3>1. /\ Closes(t, req[t].s) /\ ipFails[req[t].c] < MaxIpFails
          /\ ipFails' = [ipFails EXCEPT ![req[t].c] = @ + 1]
          /\ guesses' = [guesses EXCEPT ![req[t].c] = @ + 1]
      BY <1>2, <2>2, FindLinkWay
    <3>2. req'[t].pc = "idle"
      BY <3>1 DEF Closes, Idle, Typed
    <3> QED BY <2>1, <3>1, <3>2 DEF Misses
  <2> QED BY <2>2
<1>3. ASSUME NEW t \in Thread, Handler(t), ~Verify(t), ~\E k \in Token, p \in Pw : FindLink(t, k, p)
      PROVE  UNCHANGED <<ipFails, guesses>>
  <2>1. CASE \E n \in Name, p \in Pw : Register(t, n, p) \/ Login(t, n, p)
    BY <2>1 DEF Register, Login
  <2>2. CASE \/ Insert(t) \/ Welcome(t) \/ Burn(t) \/ Gate(t) \/ Settings(t) \/ Logout(t)
             \/ AdminLogin(t) \/ AdminLogout(t) \/ \E st \in Style : SetStyle(t, st)
    BY <2>2 DEF Insert, Welcome, Burn, Gate, Settings, Logout, AdminLogin, AdminLogout, SetStyle
  <2>3. CASE \E i \in Id : Owner(t, i)
    BY <2>3 DEF Owner, Manage
  <2>4. CASE SetPassword(t)
    BY <2>4, SetPasswordWay
  <2> QED BY <1>3, <2>1, <2>2, <2>3, <2>4 DEF Handler
<1>4. CASE ~\E t \in Thread : Handler(t)
  BY <1>4 DEF Next, Begin, OwnerCurl, Manage, Quiesced, vars
<1> QED BY <1>1, <1>2, <1>3, <1>4

LEMMA NewJudge ==
  ASSUME BoundAssumption, Typed, Held, [Next]_vars, NEW u \in Thread, req'[u].pc = "verify"
  PROVE  req'[u].c \in Client /\ req'[u].c = req[u].c /\ (req'[u] = req[u] \/ Verifies(u))
<1>1. req'[u].c \in Client
  BY TypedStep DEF Held
<1>2. CASE req'[u] = req[u]
  BY <1>1, <1>2
<1>3. CASE req'[u] # req[u]
  <2>1. PICK t \in Thread : \/ Starts(t) \/ Answers(t) \/ Inserts(t) \/ Welcomes(t) \/ Verifies(t)
                            \/ Finds(t) \/ Burns(t) \/ Styles(t)
    BY <1>3, StepMoves
  <2>2. t = u /\ req[u] \in Request
    BY <1>3, <2>1 DEF Starts, Answers, Inserts, Welcomes, Verifies, Finds, Burns, Styles, Goes, Closes, Typed
  <2>3. ~Starts(t)
    BY <2>2 DEF Starts, Idle, Typed
  <2>4. ~Answers(t)
    BY <2>2 DEF Answers, Closes, Idle, Typed
  <2>11. Verifies(u)
    BY <2>1, <2>2, <2>3, <2>4, Lands
  <2>12. req'[u].c = req[u].c
    BY <2>11, Lands
  <2> QED BY <1>1, <2>11, <2>12
<1> QED BY <1>2, <1>3

LEMMA JudgedStep ==
  ASSUME BoundAssumption, IsFiniteSet(Thread), Typed, Held, Judged, [Next]_vars
  PROVE  Judged'
<1> SUFFICES ASSUME NEW c \in Client
             PROVE  /\ guesses'[c] = ipFails'[c]
                    /\ ipFails'[c] + Cardinality(Judges(c)') <= MaxIpFails - 1 + Cardinality(Thread)
  BY DEF Judged
<1>1. /\ Judges(c)' \in SUBSET Thread /\ Judges(c) \in SUBSET Thread
      /\ Cardinality(Judges(c)) \in Nat /\ Cardinality(Judges(c)') \in Nat
      /\ Cardinality(Thread) \in Nat /\ Cardinality(Judges(c)') <= Cardinality(Thread)
      /\ IsFiniteSet(Judges(c))
  <2>1. Judges(c)' \in SUBSET Thread /\ Judges(c) \in SUBSET Thread
    BY DEF Judges
  <2> QED BY <2>1, ThreadsFinite
<1>2. ipFails[c] \in Nat /\ guesses[c] = ipFails[c] /\ MaxIpFails \in Nat \ {0}
  BY DEF Typed, Judged, BoundAssumption
<1>3. ipFails[c] + Cardinality(Judges(c)) <= MaxIpFails - 1 + Cardinality(Thread)
  BY DEF Judged
<1>4. CASE \E u \in Thread : Verifies(u) /\ req[u].c = c
  <2>1. ipFails[c] < MaxIpFails /\ ipFails' = ipFails /\ guesses' = guesses
    BY <1>4 DEF Verifies
  <2> QED BY <1>1, <1>2, <2>1
<1>5. CASE ~\E u \in Thread : Verifies(u) /\ req[u].c = c
  <2>1. Judges(c)' \subseteq Judges(c)
    BY <1>5, NewJudge DEF Judges
  <2>2. Cardinality(Judges(c)') <= Cardinality(Judges(c))
    BY <1>1, <2>1, FS_Subset
  <2>3. CASE UNCHANGED <<ipFails, guesses>>
    BY <1>1, <1>2, <1>3, <2>2, <2>3
  <2>4. CASE Tick
    <3>1. ipFails'[c] = 0 /\ guesses'[c] = 0
      BY <2>4 DEF Tick
    <3> QED BY <1>1, <1>2, <3>1
  <2>5. ASSUME NEW t \in Thread, Misses(t)
        PROVE  /\ guesses'[c] = ipFails'[c]
               /\ ipFails'[c] + Cardinality(Judges(c)') <= MaxIpFails - 1 + Cardinality(Thread)
    <3>1. t \notin Judges(c)'
      BY <2>5 DEF Misses, Judges
    <3>2. CASE req[t].c # c
      <4>1. ipFails'[c] = ipFails[c] /\ guesses'[c] = guesses[c]
        BY <2>5, <3>2 DEF Misses, Typed
      <4> QED BY <1>1, <1>2, <1>3, <2>2, <4>1
    <3>3. CASE req[t].c = c
      <4>1. ipFails'[c] = ipFails[c] + 1 /\ guesses'[c] = guesses[c] + 1
        BY <2>5, <3>3 DEF Misses, Typed
      <4>2. CASE req[t].pc = "verify"
        <5>1. t \in Judges(c)
          BY <3>3, <4>2 DEF Judges
        <5>2. Judges(c)' \subseteq Judges(c) \ {t} /\ IsFiniteSet(Judges(c) \ {t})
          BY <1>1, <2>1, <3>1, FS_Subset
        <5>3. Cardinality(Judges(c)') <= Cardinality(Judges(c) \ {t})
          BY <5>2, FS_Subset
        <5>4. Cardinality(Judges(c) \ {t}) = Cardinality(Judges(c)) - 1
          BY <1>1, <5>1, FS_RemoveElement
        <5> QED BY <1>1, <1>2, <1>3, <4>1, <5>3, <5>4
      <4>3. CASE ipFails[c] < MaxIpFails
        <5>1. Judges(c)' \subseteq Thread \ {t} /\ IsFiniteSet(Thread \ {t})
          BY <1>1, <3>1, FS_Subset
        <5>2. Cardinality(Judges(c)') <= Cardinality(Thread \ {t})
          BY <5>1, FS_Subset
        <5>3. Cardinality(Thread \ {t}) = Cardinality(Thread) - 1
          BY FS_RemoveElement
        <5> QED BY <1>1, <1>2, <4>1, <4>3, <5>2, <5>3
      <4> QED BY <2>5, <3>3, <4>2, <4>3 DEF Misses
    <3> QED BY <3>2, <3>3
  <2> QED BY <2>3, <2>4, <2>5, Failures
<1> QED BY <1>4, <1>5

\* Whatever requests overlap, an address has at most MaxIpFails wrong guesses
\* judged in a window, plus those that were let past the limit together.
THEOREM GuessesAreBounded ==
  ASSUME BoundAssumption, IsFiniteSet(Thread) PROVE Spec => []GuessesBounded
<1>1. Init => Judged
  <2> SUFFICES ASSUME Init, NEW c \in Client
               PROVE  /\ guesses[c] = ipFails[c]
                      /\ ipFails[c] + Cardinality(Judges(c)) <= MaxIpFails - 1 + Cardinality(Thread)
    BY DEF Judged
  <2>1. guesses[c] = 0 /\ ipFails[c] = 0 /\ Judges(c) = {}
    BY DEF Init, Judges, Idle
  <2>2. MaxIpFails \in Nat \ {0} /\ Cardinality(Thread) \in Nat
    BY FS_CardinalityType DEF BoundAssumption
  <2> QED BY <2>1, <2>2, FS_EmptySet
<1>2. Typed /\ Held /\ Judged /\ [Next]_vars => Judged'
  BY JudgedStep
<1>3. Typed /\ Judged => GuessesBounded
  <2> SUFFICES ASSUME Typed, Judged, NEW c \in Client
               PROVE  guesses[c] <= MaxIpFails + Cardinality(Thread) - 1
    BY DEF GuessesBounded
  <2>1. Judges(c) \in SUBSET Thread
    BY DEF Judges
  <2>2. Cardinality(Judges(c)) \in Nat /\ Cardinality(Thread) \in Nat
    BY <2>1, ThreadsFinite
  <2>3. ipFails[c] \in Nat /\ guesses[c] = ipFails[c] /\ MaxIpFails \in Nat
        /\ ipFails[c] + Cardinality(Judges(c)) <= MaxIpFails - 1 + Cardinality(Thread)
    BY DEF Typed, Judged, BoundAssumption
  <2> QED BY <2>2, <2>3
<1> QED BY <1>1, <1>2, <1>3, TypeCorrect, PTL DEF Spec

-----------------------------------------------------------------------------
(* Whose session it is                                                     *)

LEMMA MineGrows ==
  ASSUME BoundAssumption, Typed, Held, [Next]_vars, NEW c \in Client
  PROVE  mine[c] \subseteq mine'[c]
<1>1. ASSUME NEW t \in Thread, Insert(t)
      PROVE  mine[c] \subseteq mine'[c]
  <2>1. UNCHANGED mine \/ mine' = [mine EXCEPT ![req[t].c] = @ \cup {<<nextId, born[nextId] + 1>>}]
    BY <1>1, InsertWay
  <2> QED BY <2>1 DEF Typed
<1>2. ASSUME NEW t \in Thread, Verify(t)
      PROVE  mine[c] \subseteq mine'[c]
  <2>1. UNCHANGED mine \/ mine' = [mine EXCEPT ![req[t].c] = @ \cup {<<req[t].uid, born[req[t].uid]>>}]
    BY <1>2, VerifyWay
  <2> QED BY <2>1 DEF Typed
<1>3. ASSUME NEW t \in Thread, SetPassword(t)
      PROVE  mine[c] \subseteq mine'[c]
  <2>1. mine' = [mine EXCEPT ![req[t].c] = @ \cup {<<tokenOf[req[t].link], born[tokenOf[req[t].link]]>>}]
    BY <1>3, SetPasswordWay
  <2> QED BY <2>1 DEF Typed
<1>4. ASSUME NEW t \in Thread, Handler(t), ~Insert(t), ~Verify(t), ~SetPassword(t)
      PROVE  UNCHANGED mine
  <2>1. CASE \E n \in Name, p \in Pw : Register(t, n, p) \/ Login(t, n, p)
    BY <2>1 DEF Register, Login
  <2>2. CASE \E k \in Token, p \in Pw : FindLink(t, k, p)
    BY <2>2 DEF FindLink
  <2>3. CASE \/ Welcome(t) \/ Burn(t) \/ Gate(t) \/ Settings(t) \/ Logout(t)
             \/ AdminLogin(t) \/ AdminLogout(t) \/ \E st \in Style : SetStyle(t, st)
    BY <2>3 DEF Welcome, Burn, Gate, Settings, Logout, AdminLogin, AdminLogout, SetStyle
  <2>4. CASE \E i \in Id : Owner(t, i)
    BY <2>4 DEF Owner, Manage
  <2> QED BY <1>4, <2>1, <2>2, <2>3, <2>4 DEF Handler
<1>5. CASE ~\E t \in Thread : Handler(t)
  BY <1>5 DEF Next, Begin, OwnerCurl, Manage, Tick, Quiesced, vars
<1> QED BY <1>1, <1>2, <1>3, <1>4, <1>5

\* If browser c's session resolves to u, then c has proven u to be its own.
Owns(c, u) == u < nextId /\ (u # None /\ Live(u) => <<u, born[u]>> \in mine[c])

\* Ids are older than the next one, and so are those that requests work for.
Known ==
  /\ \A i \in Id : Live(i) => i < nextId
  /\ \A t \in Thread :
       (req[t].pc = "verify" /\ req[t].pw # NoPw) \/ req[t].pc \in {"burn", "setpw"} =>
         req[t].uid < nextId

Owned ==
  /\ \A c \in Client : Owns(c, cookie[c].uid)
  /\ \A t \in Thread :
       /\ req[t].pc # "idle" => Owns(req[t].c, req[t].s.uid)
       /\ req[t].pc = "welcome" => Owns(req[t].c, req[t].uid)

LEMMA OwnsKept ==
  ASSUME BoundAssumption, Typed, Held, [Next]_vars, NEW c \in Client, NEW u \in Id \cup {None}, Owns(c, u)
  PROVE  Owns(c, u)'
<1>1. mine[c] \subseteq mine'[c]
  BY MineGrows
<1>2. CASE NoNewRow
  BY <1>1, <1>2 DEF NoNewRow, Owns
<1>3. ASSUME NEW t \in Thread, Appears(t)
      PROVE  Owns(c, u)'
  <2>1. nextId \in Nat /\ nextId' = nextId + 1 /\ u \in Nat /\ u < nextId
    BY <1>3 DEF Appears, Typed, Owns
  <2>2. u # None => row'[u] = row[u] /\ born'[u] = born[u]
    BY <1>3, <2>1 DEF Appears, Typed
  <2> QED BY <1>1, <2>1, <2>2 DEF Owns, Live
<1> QED BY <1>2, <1>3, Rows

LEMMA KnownStep ==
  ASSUME BoundAssumption, Typed, Held, Known, [Next]_vars
  PROVE  Known'
<1>1. nextId \in Nat /\ nextId' \in Nat /\ nextId <= nextId' /\ \A i \in Id : i \in Nat
  <2>1. nextId \in Nat
    BY DEF Typed
  <2>2. nextId' = nextId \/ nextId' = nextId + 1
    BY Rows DEF NoNewRow, Appears
  <2> QED BY <2>1, <2>2
<1>2. \A i \in Id : Live(i)' => i < nextId'
  <2>1. CASE NoNewRow
    BY <2>1 DEF NoNewRow, Known
  <2>2. ASSUME NEW t \in Thread, Appears(t)
        PROVE  \A i \in Id : Live(i)' => i < nextId'
    <3>1. \A i \in Id : i # nextId => row'[i] = row[i]
      BY <2>2 DEF Appears, Typed
    <3>2. nextId' = nextId + 1
      BY <2>2 DEF Appears
    <3> QED BY <1>1, <3>1, <3>2 DEF Known, Live
  <2> QED BY <2>1, <2>2, Rows
<1>3. ASSUME NEW u \in Thread, req'[u].pc = "verify", req'[u].pw # NoPw
      PROVE  req'[u].uid < nextId'
  <2>1. req'[u].uid \in Id
    BY <1>3, TypedStep DEF Held
  <2>2. CASE req'[u] = req[u]
    BY <1>1, <1>3, <2>1, <2>2 DEF Known
  <2>3. CASE Verifies(u)
    BY <1>1, <1>3, <2>1, <2>3, Lands DEF Known
  <2> QED BY <1>3, <2>2, <2>3, NewJudge
<1>4. ASSUME NEW u \in Thread, req'[u].pc \in {"burn", "setpw"}
      PROVE  req'[u].uid < nextId'
  <2>1. req'[u].uid \in Id
    BY <1>4, HoldersLink
  <2>2. CASE req[u].pc \in {"burn", "setpw"} /\ req'[u].uid = req[u].uid
    BY <1>1, <2>1, <2>2 DEF Known
  <2>3. CASE req'[u].uid \in Redeemable(req'[u].link)
    BY <1>1, <2>1, <2>3 DEF Known, Redeemable
  <2> QED BY <1>4, <2>2, <2>3, HoldersLink
<1> QED BY <1>2, <1>3, <1>4 DEF Known

\* The session a response carries is its browser's own.
LEMMA AnswersOwn ==
  ASSUME BoundAssumption, Typed, Held, Linked, Known, Owned, [Next]_vars,
         NEW t \in Thread, NEW c \in Client, NEW u \in Id \cup {None},
         req[t].pc # "idle", c = req[t].c, UidFrom(t, u)
  PROVE  Owns(c, u)'
<1>1. nextId \in Nat \ {0}
  BY DEF Typed
<1>3. CASE u = req[t].s.uid \/ (req[t].pc = "welcome" /\ u = req[t].uid)
  <2>1. Owns(c, u)
    BY <1>3 DEF Owned
  <2>2. Owns(c, u)'
    BY <2>1, OwnsKept
  <2> QED BY <2>2
<1>4. CASE u = None
  <2>1. Owns(c, u)
    BY <1>1, <1>4 DEF Owns
  <2>2. Owns(c, u)'
    BY <2>1, OwnsKept
  <2> QED BY <2>2
<1>5. CASE /\ req[t].pc = "verify" /\ req[t].pw # NoPw /\ u = req[t].uid /\ UNCHANGED <<nextId, born>>
           /\ mine' = [mine EXCEPT ![req[t].c] = @ \cup {<<u, born[u]>>}]
  <2>1. u < nextId /\ u \in Id
    BY <1>5 DEF Known, Held
  <2>2. <<u, born[u]>> \in mine'[c]
    BY <1>5 DEF Typed
  <2> QED BY <1>5, <2>1, <2>2 DEF Owns
<1>6. CASE /\ req[t].pc = "setpw" /\ u = req[t].uid /\ UNCHANGED <<nextId, born>>
           /\ mine' = [mine EXCEPT ![req[t].c] = @ \cup {<<tokenOf[req[t].link], born[tokenOf[req[t].link]]>>}]
  <2>1. u < nextId /\ u \in Id /\ tokenOf[req[t].link] = u
    BY <1>6 DEF Known, Held, Linked
  <2>2. <<u, born[u]>> \in mine'[c]
    BY <1>6, <2>1 DEF Typed
  <2> QED BY <1>6, <2>1, <2>2 DEF Owns
<1> QED BY <1>3, <1>4, <1>5, <1>6 DEF UidFrom

LEMMA OwnedStep ==
  ASSUME BoundAssumption, Typed, Held, Linked, Known, Owned, [Next]_vars
  PROVE  Owned'
<1>1. Typed' /\ Held'
  BY TypedStep
<1>2. ASSUME NEW c \in Client
      PROVE  Owns(c, cookie[c].uid)' /\ \A u : u = cookie[c].uid => Owns(c, u)'
  <2>1. PICK u \in Id \cup {None} : u = cookie'[c].uid
    BY <1>1 DEF Typed, Session
  <2>2. PICK v \in Id \cup {None} : v = cookie[c].uid
    BY DEF Typed, Session
  <2>3. Owns(c, v)'
    BY <2>2, OwnsKept DEF Owned
  <2>4. CASE cookie'[c] = cookie[c]
    BY <2>1, <2>2, <2>3, <2>4 DEF Owns
  <2>5. CASE cookie'[c] # cookie[c]
    <3>1. PICK t \in Thread : Answers(t)
      BY <2>5, StepMoves, Lands DEF Starts
    <3>2. PICK s \in Session : Closes(t, s) /\ UidFrom(t, s.uid) /\ req[t].pc # "idle"
      BY <3>1 DEF Answers
    <3>3. cookie'[c] = s /\ c = req[t].c
      BY <2>5, <3>2 DEF Closes, Typed
    <3>4. Owns(c, u)'
      BY <2>1, <3>2, <3>3, AnswersOwn
    <3> QED BY <2>1, <2>2, <2>3, <3>4 DEF Owns
  <2> QED BY <2>4, <2>5
<1>3. ASSUME NEW t \in Thread, req'[t].pc # "idle"
      PROVE  Owns(req[t].c, req[t].s.uid)'
  <2>1. PICK c \in Client : c = req'[t].c
    BY <1>1, <1>3 DEF Held
  <2>2. PICK u \in Id \cup {None} : u = req'[t].s.uid
    BY <1>1 DEF Typed, Request, Session
  <2>3. CASE req[t].pc # "idle" /\ req'[t].c = req[t].c /\ req'[t].s = req[t].s
    <3>1. Owns(c, u)
      BY <2>1, <2>2, <2>3 DEF Owned
    <3>2. Owns(c, u)'
      BY <3>1, OwnsKept
    <3> QED BY <2>1, <2>2, <3>2 DEF Owns
  <2>4. CASE Starts(t)
    <3>1. cookie[c].uid = u
      <4>1. PICK b \in Client, op \in Ops :
              req' = [req EXCEPT ![t] = [Idle EXCEPT !.pc = "run", !.op = op, !.c = b, !.s = cookie[b]]]
        BY <2>4 DEF Starts
      <4>2. req'[t].c = b /\ req'[t].s = cookie[b]
        BY <4>1 DEF Typed, Idle
      <4> QED BY <2>1, <2>2, <4>2
    <3>2. Owns(c, u)'
      BY <1>2, <3>1
    <3> QED BY <2>1, <2>2, <3>2 DEF Owns
  <2>5. CASE req'[t] # req[t] /\ ~Starts(t)
    <3>1. PICK v \in Thread : \/ Starts(v) \/ Answers(v) \/ Inserts(v) \/ Welcomes(v) \/ Verifies(v)
                              \/ Finds(v) \/ Burns(v) \/ Styles(v)
      BY <2>5, StepMoves
    <3>2. v = t
      BY <2>5, <3>1 DEF Starts, Answers, Inserts, Welcomes, Verifies, Finds, Burns, Styles, Goes, Closes, Typed
    <3>3. ~Answers(t)
      BY <1>3 DEF Answers, Closes, Idle, Typed
    <3>4. Inserts(t) \/ Welcomes(t) \/ Verifies(t) \/ Finds(t) \/ Burns(t) \/ Styles(t)
      BY <2>5, <3>1, <3>2, <3>3
    <3>5. req[t].pc # "idle"
      BY <3>4 DEF Inserts, Welcomes, Verifies, Finds, Burns, Burn, Styles
    <3> QED BY <2>3, <3>4, <3>5, Lands
  <2>6. CASE req'[t] = req[t]
    BY <1>3, <2>3, <2>6
  <2> QED BY <2>4, <2>5, <2>6
<1>4. ASSUME NEW t \in Thread, req'[t].pc = "welcome"
      PROVE  Owns(req[t].c, req[t].uid)'
  <2>1. PICK c \in Client : c = req'[t].c
    BY <1>1, <1>4 DEF Held
  <2>2. PICK u \in Id \cup {None} : u = req'[t].uid
    BY <1>1 DEF Typed, Request
  <2>3. CASE req'[t] = req[t]
    <3>1. Owns(c, u)
      BY <1>4, <2>1, <2>2, <2>3 DEF Owned
    <3>2. Owns(c, u)'
      BY <3>1, OwnsKept
    <3> QED BY <2>1, <2>2, <3>2 DEF Owns
  <2>4. CASE req'[t] # req[t]
    <3>1. PICK v \in Thread : \/ Starts(v) \/ Answers(v) \/ Inserts(v) \/ Welcomes(v) \/ Verifies(v)
                              \/ Finds(v) \/ Burns(v) \/ Styles(v)
      BY <2>4, StepMoves
    <3>2. v = t
      BY <2>4, <3>1 DEF Starts, Answers, Inserts, Welcomes, Verifies, Finds, Burns, Styles, Goes, Closes, Typed
    <3>3. ~Answers(t)
      BY <1>4 DEF Answers, Closes, Idle, Typed
    <3>4. ~Starts(t)
      BY <1>4 DEF Starts, Idle, Typed
    <3>5. Welcomes(t)
      BY <1>4, <3>1, <3>2, <3>3, <3>4, Lands
    <3>6. c = req[t].c /\ u = nextId
      BY <2>1, <2>2, <3>5, Lands
    <3>7. /\ nextId \in Id /\ nextId' = nextId + 1 /\ born' = [born EXCEPT ![nextId] = @ + 1]
          /\ mine' = [mine EXCEPT ![req[t].c] = @ \cup {<<nextId, born[nextId] + 1>>}]
      BY <3>5 DEF Welcomes, Appears
    <3>8. u < nextId' /\ <<u, born'[u]>> \in mine'[c]
      BY <3>6, <3>7 DEF Typed
    <3> QED BY <2>1, <2>2, <3>8 DEF Owns
  <2> QED BY <2>3, <2>4
<1> QED BY <1>2, <1>3, <1>4 DEF Owned

\* A stale cookie never becomes somebody else's: a session resolves only to an
\* account that its browser registered, signed in to or redeemed a link for.
THEOREM SessionsAreProven == ASSUME BoundAssumption PROVE Spec => []SessionProven
<1>1. Init => Known /\ Owned
  BY DEF Init, Known, Owned, Owns, Live, NoRow, Idle, Visitor
<1>2. Typed /\ Held /\ Known /\ [Next]_vars => Known'
  BY KnownStep
<1>3. Typed /\ Held /\ Linked /\ Known /\ Owned /\ [Next]_vars => Owned'
  BY OwnedStep
<1>4. Owned => SessionProven
  BY DEF Owned, Owns, SessionProven
<1> QED BY <1>1, <1>2, <1>3, <1>4, TypeCorrect, LinksLast, PTL DEF Spec

-----------------------------------------------------------------------------
(* The owner's stamp                                                       *)

\* No stamp is younger than the last code typed in its browser.
Stamped ==
  /\ \A c \in Client : cookie[c].admin <= codeAt[c] /\ codeAt[c] <= now
  /\ \A t \in Thread : req[t].pc # "idle" => req[t].s.admin <= codeAt[req[t].c]

LEMMA CodeStep ==
  ASSUME BoundAssumption, Typed, Held, Stamped, [Next]_vars, NEW c \in Client
  PROVE  codeAt[c] <= codeAt'[c] /\ codeAt'[c] <= now'
<1>1. now \in Nat /\ codeAt[c] \in Int /\ codeAt[c] <= now
  BY DEF Typed, Stamped, BoundAssumption
<1>2. now' = now \/ now' = now + 1
  <2>1. CASE \E t \in Thread : Handler(t)
    BY <2>1, HandlerMoves DEF Answers, Inserts, Welcomes, Verifies, Finds, Burns, Styles, Goes, Closes
  <2>2. CASE ~\E t \in Thread : Handler(t)
    BY <2>2 DEF Next, Begin, OwnerCurl, Manage, Tick, Quiesced, vars
  <2> QED BY <2>1, <2>2
<1>3. ASSUME NEW t \in Thread, AdminLogin(t) \/ AdminLogout(t)
      PROVE  codeAt'[c] = codeAt[c] \/ codeAt'[c] = now
  BY <1>3, AdminWay DEF Typed
<1>4. ASSUME NEW t \in Thread, Handler(t), ~AdminLogin(t), ~AdminLogout(t)
      PROVE  codeAt' = codeAt
  <2>1. CASE \E n \in Name, p \in Pw : Register(t, n, p) \/ Login(t, n, p)
    BY <2>1 DEF Register, Login
  <2>2. CASE \E k \in Token, p \in Pw : FindLink(t, k, p)
    BY <2>2 DEF FindLink
  <2>3. CASE \/ Insert(t) \/ Verify(t) \/ SetPassword(t) \/ Welcome(t) \/ Burn(t) \/ Gate(t) \/ Settings(t)
             \/ Logout(t) \/ \E st \in Style : SetStyle(t, st)
    BY <2>3 DEF Insert, Verify, SetPassword, Welcome, Burn, Gate, Settings, Logout, SetStyle
  <2>4. CASE \E i \in Id : Owner(t, i)
    BY <2>4 DEF Owner, Manage
  <2> QED BY <1>4, <2>1, <2>2, <2>3, <2>4 DEF Handler
<1>5. ASSUME ~\E t \in Thread : Handler(t)
      PROVE  codeAt' = codeAt
  BY <1>5 DEF Next, Begin, OwnerCurl, Manage, Tick, Quiesced, vars
<1>6. codeAt'[c] = codeAt[c] \/ codeAt'[c] = now
  <2>1. CASE \E t \in Thread : Handler(t)
    BY <1>3, <1>4, <2>1
  <2>2. CASE ~\E t \in Thread : Handler(t)
    BY <1>5, <2>2
  <2> QED BY <2>1, <2>2
<1> QED BY <1>1, <1>2, <1>6

LEMMA StampedStep ==
  ASSUME BoundAssumption, Typed, Held, Stamped, [Next]_vars
  PROVE  Stamped'
<1>1. Typed' /\ Held'
  BY TypedStep
<1>2. now \in Nat
  BY DEF Typed, BoundAssumption
<1>3. \A n \in (0..MaxTime) \cup {Never} : n \in Int /\ n >= -1
  OBVIOUS
<1>4. codeAt \in [Client -> (0..MaxTime) \cup {Never}] /\ codeAt' \in [Client -> (0..MaxTime) \cup {Never}]
  BY <1>1 DEF Typed
<1>5. \A c \in Client : codeAt[c] \in Int /\ codeAt'[c] \in Int /\ codeAt[c] >= -1
  BY <1>3, <1>4
<1>6. \A s \in Session : s.admin \in Int
  BY DEF Session
<1>7. ASSUME NEW c \in Client
      PROVE  cookie'[c].admin <= codeAt'[c] /\ cookie[c].admin <= codeAt'[c]
  <2>1. cookie[c] \in Session /\ cookie[c].admin <= codeAt[c]
    BY DEF Typed, Stamped
  <2>2. CASE cookie'[c] = cookie[c]
    BY <1>5, <1>6, <2>1, <2>2, CodeStep
  <2>3. CASE cookie'[c] # cookie[c]
    <3>1. PICK t \in Thread : Answers(t)
      BY <2>3, StepMoves, Lands DEF Starts
    <3>2. PICK s \in Session : Closes(t, s) /\ StampFrom(t, s.admin) /\ req[t].pc # "idle"
      BY <3>1 DEF Answers
    <3>3. cookie'[c] = s /\ c = req[t].c
      BY <2>3, <3>2 DEF Closes, Typed
    <3>4. CASE s.admin \in {req[t].s.admin, Never}
      <4>1. s.admin <= codeAt[c]
        BY <1>5, <3>2, <3>3, <3>4 DEF Stamped
      <4> QED BY <1>5, <1>6, <2>1, <3>3, <4>1, CodeStep
    <3>5. CASE s.admin = now /\ codeAt' = [codeAt EXCEPT ![req[t].c] = now]
      <4>1. codeAt'[c] = now
        BY <3>3, <3>5 DEF Typed
      <4> QED BY <1>5, <1>6, <2>1, <3>3, <3>5, <4>1, <1>2, CodeStep
    <3> QED BY <3>2, <3>4, <3>5 DEF StampFrom
  <2> QED BY <2>2, <2>3
<1>8. ASSUME NEW t \in Thread, req'[t].pc # "idle"
      PROVE  req'[t].s.admin <= codeAt'[req'[t].c]
  <2>1. PICK c \in Client : c = req'[t].c
    BY <1>8, <1>1 DEF Held
  <2>2. req'[t].s \in Session
    BY <1>1 DEF Typed, Request
  <2>3. CASE req[t].pc # "idle" /\ req'[t].c = req[t].c /\ req'[t].s = req[t].s
    <3>1. req'[t].s.admin <= codeAt[c]
      BY <2>1, <2>3 DEF Stamped
    <3> QED BY <1>5, <1>6, <2>1, <2>2, <3>1, CodeStep
  <2>4. CASE Starts(t)
    <3>1. req'[t].s = cookie[c]
      <4>1. PICK b \in Client, op \in Ops :
              req' = [req EXCEPT ![t] = [Idle EXCEPT !.pc = "run", !.op = op, !.c = b, !.s = cookie[b]]]
        BY <2>4 DEF Starts
      <4>2. req'[t].c = b /\ req'[t].s = cookie[b]
        BY <4>1 DEF Typed, Idle
      <4> QED BY <2>1, <4>2
    <3> QED BY <1>7, <2>1, <3>1
  <2>5. CASE req'[t] # req[t] /\ ~Starts(t)
    <3>1. PICK v \in Thread : \/ Starts(v) \/ Answers(v) \/ Inserts(v) \/ Welcomes(v) \/ Verifies(v)
                              \/ Finds(v) \/ Burns(v) \/ Styles(v)
      BY <2>5, StepMoves
    <3>2. v = t
      BY <2>5, <3>1 DEF Starts, Answers, Inserts, Welcomes, Verifies, Finds, Burns, Styles, Goes, Closes, Typed
    <3>3. ~Answers(t)
      BY <1>8 DEF Answers, Closes, Idle, Typed
    <3>4. Inserts(t) \/ Welcomes(t) \/ Verifies(t) \/ Finds(t) \/ Burns(t) \/ Styles(t)
      BY <2>5, <3>1, <3>2, <3>3
    <3>5. req[t].pc # "idle"
      BY <3>4 DEF Inserts, Welcomes, Verifies, Finds, Burns, Burn, Styles
    <3> QED BY <2>3, <3>4, <3>5, Lands
  <2>6. CASE req'[t] = req[t]
    BY <1>8, <2>3, <2>6
  <2> QED BY <2>4, <2>5, <2>6
<1> QED BY <1>7, <1>8, CodeStep DEF Stamped

\* An admin session needs a code typed in its browser within AdminLife: no
\* sign-in, refreshed cookie or late response makes a stamp younger.
THEOREM AdminNeedsTheCode == ASSUME BoundAssumption PROVE Spec => []AdminNeedsCode
<1>1. Init => Stamped
  BY DEF Init, Stamped, Idle, Visitor
<1>2. Typed /\ Held /\ Stamped /\ [Next]_vars => Stamped'
  BY StampedStep
<1>3. Typed /\ Stamped => AdminNeedsCode
  <2> SUFFICES ASSUME Typed, Stamped, NEW c \in Client, IsAdmin(cookie[c])
               PROVE  codeAt[c] # Never /\ now - codeAt[c] < AdminLife
    BY DEF AdminNeedsCode
  <2>1. /\ cookie[c].admin \in Nat /\ cookie[c].admin <= codeAt[c] /\ now - cookie[c].admin < AdminLife
    BY DEF IsAdmin, Typed, Session, Stamped
  <2>2. codeAt[c] \in Int /\ now \in Nat /\ AdminLife \in Nat
    BY DEF Typed, BoundAssumption
  <2> QED BY <2>1, <2>2
<1> QED BY <1>1, <1>2, <1>3, TypeCorrect, PTL DEF Spec

-----------------------------------------------------------------------------
(* One request of a browser at a time                                      *)

\* Without overlap a browser has one request under way, and nobody writes the
\* browser's cookie while it runs.
Serial ==
  /\ \A t, u \in Thread :
       req[t].pc # "idle" /\ req[u].pc # "idle" /\ req[t].c = req[u].c => t = u
  /\ \A t \in Thread : req[t].pc # "idle" => req[t].s = cookie[req[t].c]

LEMMA SerialStep ==
  ASSUME BoundAssumption, Overlap = FALSE, Typed, Held, Serial, [Next]_vars
  PROVE  Serial'
<1>1. CASE UNCHANGED <<cookie, req>>
  BY <1>1 DEF Serial
<1>2. ASSUME NEW t \in Thread, NEW c \in Client, NEW op \in Ops, Begin(t, c, op)
      PROVE  Serial'
  <2>1. UNCHANGED cookie /\ \A u \in Thread : req[u].c # c
    BY <1>2 DEF Begin
  <2>2. req' = [req EXCEPT ![t] = [Idle EXCEPT !.pc = "run", !.op = op, !.c = c, !.s = cookie[c]]]
    BY <1>2 DEF Begin
  <2>3. req'[t].c = c /\ req'[t].s = cookie[c] /\ \A u \in Thread : u # t => req'[u] = req[u]
    BY <2>2 DEF Typed, Idle
  <2> QED BY <2>1, <2>3 DEF Serial
<1>3. ASSUME NEW t \in Thread, Answers(t)
      PROVE  Serial'
  <2>1. PICK s \in Session : Closes(t, s) /\ req[t].pc # "idle"
    BY <1>3 DEF Answers
  <2>2. req'[t].pc = "idle" /\ \A u \in Thread : u # t => req'[u] = req[u]
    BY <2>1 DEF Closes, Typed, Idle
  <2>3. \A c \in Client : c # req[t].c => cookie'[c] = cookie[c]
    BY <2>1 DEF Closes, Typed
  <2> QED BY <2>1, <2>2, <2>3 DEF Serial, Held
<1>4. ASSUME NEW t \in Thread, Inserts(t) \/ Welcomes(t) \/ Verifies(t) \/ Finds(t) \/ Burns(t) \/ Styles(t)
      PROVE  Serial'
  <2>1. req'[t].c = req[t].c /\ req'[t].s = req[t].s /\ UNCHANGED cookie
    BY <1>4, Lands
  <2>2. req[t].pc # "idle" /\ \A u \in Thread : u # t => req'[u] = req[u]
    BY <1>4 DEF Inserts, Welcomes, Verifies, Finds, Burns, Burn, Styles, Goes, Typed
  <2> QED BY <2>1, <2>2 DEF Serial
<1>5. ASSUME NEW t \in Thread, Handler(t)
      PROVE  Serial'
  BY <1>3, <1>4, <1>5, HandlerMoves
<1>6. CASE Tick \/ UNCHANGED vars \/ \E i \in Id : OwnerCurl(i)
  BY <1>1, <1>6 DEF Tick, vars, OwnerCurl
<1> QED BY <1>2, <1>5, <1>6 DEF Next, Quiesced

LEMMA CloseCookie ==
  ASSUME Typed, Held, NEW t \in Thread, NEW s \in Session, Closes(t, s), req[t].pc # "idle"
  PROVE  /\ cookie'[req[t].c] \in {cookie[req[t].c], s}
         /\ \A c \in Client : c # req[t].c => cookie'[c] = cookie[c]
  BY DEF Closes, Typed, Held

\* What a handler does to its browser's user, and to who has signed out.
OutKept(t) ==
  /\ \A c \in Client : c # req[t].c => cookie'[c] = cookie[c]
  /\ \/ out' = out \ {req[t].c}
     \/ out' = out \cup {req[t].c} /\ cookie'[req[t].c].uid = None
     \/ out' = out /\ cookie'[req[t].c].uid \in {cookie[req[t].c].uid, req[t].s.uid, None}

LEMMA OutStep ==
  ASSUME BoundAssumption, Typed, Held, NEW t \in Thread, Handler(t)
  PROVE  OutKept(t)
<1>1. /\ req[t].s \in Session /\ req[t] \in Request
      /\ [req[t].s EXCEPT !.uid = None] \in Session /\ SignedOut(req[t].s) \in Session
      /\ [req[t].s EXCEPT !.uid = None].uid = None /\ SignedOut(req[t].s).uid = None
      /\ \A i \in Id \cup {None} : SignedIn(req[t].s, i) \in Session
  BY SessionTypes DEF SignedOut, Visitor, Session
<1>2. ASSUME Closes(t, req[t].s), req[t].pc # "idle", out' = out
      PROVE  OutKept(t)
  BY <1>1, <1>2, CloseCookie DEF OutKept
<1>3. ASSUME Closes(t, [req[t].s EXCEPT !.uid = None]), req[t].pc # "idle", out' = out
      PROVE  OutKept(t)
  BY <1>1, <1>3, CloseCookie DEF OutKept
<1>4. ASSUME cookie' = cookie, out' = out
      PROVE  OutKept(t)
  BY <1>4 DEF OutKept
<1>5. ASSUME NEW i \in Id \cup {None}, Closes(t, SignedIn(req[t].s, i)), req[t].pc # "idle", out' = out \ {req[t].c}
      PROVE  OutKept(t)
  BY <1>1, <1>5, CloseCookie DEF OutKept
<1>6. CASE \E n \in Name, p \in Pw : Register(t, n, p)
  BY <1>2, <1>4, <1>6, RegisterWay DEF Goes
<1>7. CASE \E n \in Name, p \in Pw : Login(t, n, p)
  BY <1>2, <1>4, <1>7, LoginWay DEF Goes
<1>8. CASE \E k \in Token, p \in Pw : FindLink(t, k, p)
  BY <1>2, <1>4, <1>8, FindLinkWay DEF Goes
<1>9. CASE Insert(t)
  BY <1>2, <1>4, <1>9, InsertWay DEF Goes
<1>10. CASE Welcome(t) \/ Verify(t) \/ SetPassword(t)
  <2>1. req[t].uid \in Id \cup {None}
    BY <1>1 DEF Request
  <2> QED BY <1>2, <1>5, <1>10, <2>1, WelcomeWay, VerifyWay, SetPasswordWay
<1>11. CASE Burn(t)
  BY <1>4, <1>11, BurnWay DEF Goes
<1>12. CASE Gate(t) \/ Settings(t)
  BY <1>2, <1>3, <1>4, <1>12, GateWay DEF Goes
<1>13. CASE \E st \in Style : SetStyle(t, st)
  BY <1>2, <1>13, SetStyleWay
<1>14. CASE Logout(t)
  <2>1. req[t].pc # "idle" /\ req[t].c \in Client /\ cookie \in [Client -> Session]
    BY <1>14, LogoutWay DEF Held, Typed
  <2> QED BY <1>1, <1>14, <2>1, LogoutWay DEF OutKept
<1>15. CASE AdminLogin(t) \/ AdminLogout(t)
  <2>1. PICK s \in Session : Closes(t, s) /\ s.uid = req[t].s.uid /\ req[t].pc # "idle" /\ out' = out
    <3>1. PICK s \in Session : s = [req[t].s EXCEPT !.admin = now, !.perm = TRUE]
      BY SessionTypes
    <3>2. PICK z \in Session : z = [req[t].s EXCEPT !.admin = Never]
      BY SessionTypes
    <3>3. s.uid = req[t].s.uid /\ z.uid = req[t].s.uid
      BY <1>1, <3>1, <3>2 DEF Session
    <3>4. req[t].pc # "idle" /\ out' = out /\ (Closes(t, s) \/ Closes(t, z))
      BY <1>15, <3>1, <3>2, AdminWay
    <3> QED BY <3>3, <3>4
  <2> QED BY <2>1, CloseCookie DEF OutKept
<1>16. CASE \E i \in Id : Owner(t, i)
  BY <1>2, <1>16, OwnerWay DEF Manage
<1> QED BY <1>6, <1>7, <1>8, <1>9, <1>10, <1>11, <1>12, <1>13, <1>14, <1>15, <1>16 DEF Handler

LEMMA LogoutStep ==
  ASSUME BoundAssumption, Typed, Held, Serial, LogoutHolds, out \subseteq Client, [Next]_vars
  PROVE  LogoutHolds'
<1>1. ASSUME NEW t \in Thread, Handler(t)
      PROVE  LogoutHolds'
  <2>1. req[t].pc # "idle" /\ req[t].s = cookie[req[t].c]
    <3>1. req[t].pc # "idle"
      BY <1>1, HandlerMoves DEF Answers, Inserts, Welcomes, Verifies, Finds, Burns, Burn, Styles
    <3> QED BY <3>1 DEF Serial
  <2>2. OutKept(t)
    BY <1>1, OutStep
  <2> QED BY <2>1, <2>2 DEF OutKept, LogoutHolds
<1>2. CASE ~\E t \in Thread : Handler(t)
  BY <1>2 DEF Next, Begin, OwnerCurl, Manage, Tick, Quiesced, vars, LogoutHolds
<1> QED BY <1>1, <1>2

\* After a sign-out the browser stays signed out until it signs in again, when
\* its requests do not overlap: no response brings an old cookie back.
THEOREM LogoutLasts == ASSUME BoundAssumption, Overlap = FALSE PROVE Spec => []LogoutHolds
<1>1. Init => Serial /\ LogoutHolds
  BY DEF Init, Serial, LogoutHolds, Idle
<1>2. Typed /\ Held /\ Serial /\ [Next]_vars => Serial'
  BY SerialStep
<1>3. Typed => out \subseteq Client
  BY DEF Typed
<1>4. Typed /\ Held /\ Serial /\ LogoutHolds /\ [Next]_vars => LogoutHolds'
  BY <1>3, LogoutStep
<1> QED BY <1>1, <1>2, <1>4, TypeCorrect, PTL DEF Spec

\* What a handler does to its browser's stamp.
StampMoves(t) ==
  /\ \A c \in Client : c # req[t].c => /\ cookie'[c] = cookie[c] /\ codeAt'[c] = codeAt[c]
                                       /\ c \in adminOut' <=> c \in adminOut
  /\ \/ /\ codeAt' = codeAt /\ adminOut' = adminOut
        /\ cookie'[req[t].c].admin \in {cookie[req[t].c].admin, req[t].s.admin}
     \/ codeAt'[req[t].c] = now /\ cookie'[req[t].c].admin = now
     \/ req[t].c \in adminOut'

LEMMA StampStep ==
  ASSUME BoundAssumption, Typed, Held, NEW t \in Thread, Handler(t)
  PROVE  StampMoves(t)
<1>1. /\ req[t].s \in Session /\ req[t] \in Request
      /\ [req[t].s EXCEPT !.uid = None] \in Session /\ SignedOut(req[t].s) \in Session
      /\ [req[t].s EXCEPT !.uid = None].admin = req[t].s.admin
      /\ SignedOut(req[t].s).admin = req[t].s.admin
      /\ \A i \in Id \cup {None} : SignedIn(req[t].s, i) \in Session
                                   /\ SignedIn(req[t].s, i).admin = req[t].s.admin
  BY SessionTypes DEF SignedOut, SignedIn, Visitor, Session
<1>2. ASSUME NEW s \in Session, Closes(t, s), s.admin = req[t].s.admin, req[t].pc # "idle",
             codeAt' = codeAt, adminOut' = adminOut
      PROVE  StampMoves(t)
  BY <1>1, <1>2, CloseCookie DEF StampMoves
<1>3. ASSUME cookie' = cookie, codeAt' = codeAt, adminOut' = adminOut
      PROVE  StampMoves(t)
  BY <1>3 DEF StampMoves
<1>4. CASE \E n \in Name, p \in Pw : Register(t, n, p)
  BY <1>1, <1>2, <1>3, <1>4, RegisterWay DEF Goes
<1>5. CASE \E n \in Name, p \in Pw : Login(t, n, p)
  BY <1>1, <1>2, <1>3, <1>5, LoginWay DEF Goes
<1>6. CASE \E k \in Token, p \in Pw : FindLink(t, k, p)
  BY <1>1, <1>2, <1>3, <1>6, FindLinkWay DEF Goes
<1>7. CASE Insert(t)
  BY <1>1, <1>2, <1>3, <1>7, InsertWay DEF Goes
<1>8. CASE Welcome(t) \/ Verify(t) \/ SetPassword(t)
  <2>1. req[t].uid \in Id \cup {None}
    BY <1>1 DEF Request
  <2> QED BY <1>1, <1>2, <1>8, <2>1, WelcomeWay, VerifyWay, SetPasswordWay
<1>9. CASE Burn(t)
  BY <1>3, <1>9, BurnWay DEF Goes
<1>10. CASE Gate(t) \/ Settings(t)
  BY <1>1, <1>2, <1>3, <1>10, GateWay DEF Goes
<1>11. CASE \E st \in Style : SetStyle(t, st)
  BY <1>1, <1>2, <1>11, SetStyleWay
<1>12. CASE Logout(t)
  BY <1>1, <1>2, <1>12, LogoutWay
<1>13. CASE AdminLogin(t) \/ AdminLogout(t)
  <2>1. PICK s \in Session : s = [req[t].s EXCEPT !.admin = now, !.perm = TRUE]
    BY SessionTypes
  <2>2. PICK z \in Session : z = [req[t].s EXCEPT !.admin = Never]
    BY SessionTypes
  <2>3. /\ s.admin = now /\ req[t].pc # "idle" /\ req[t].c \in Client
        /\ cookie \in [Client -> Session] /\ codeAt = [c \in Client |-> codeAt[c]]
    BY <1>1, <1>13, <2>1, AdminWay DEF Session, Held, Typed
  <2>4. CASE /\ cookie' = [cookie EXCEPT ![req[t].c] = s]
             /\ codeAt' = [codeAt EXCEPT ![req[t].c] = now] /\ adminOut' = adminOut \ {req[t].c}
    BY <2>3, <2>4 DEF StampMoves
  <2>5. CASE Closes(t, z) /\ UNCHANGED codeAt /\ adminOut' = adminOut \cup {req[t].c}
    BY <2>3, <2>5, CloseCookie DEF StampMoves
  <2> QED BY <1>13, <2>1, <2>2, <2>4, <2>5, AdminWay
<1>14. CASE \E i \in Id : Owner(t, i)
  BY <1>1, <1>2, <1>14, OwnerWay DEF Manage
<1> QED BY <1>4, <1>5, <1>6, <1>7, <1>8, <1>9, <1>10, <1>11, <1>12, <1>13, <1>14 DEF Handler

LEMMA StampKeptStep ==
  ASSUME BoundAssumption, Typed, Held, Serial, StampKept, [Next]_vars
  PROVE  StampKept'
<1>1. ASSUME NEW t \in Thread, Handler(t)
      PROVE  StampKept'
  <2>1. req[t].pc # "idle" /\ req[t].s = cookie[req[t].c] /\ req[t].c \in Client
    <3>1. req[t].pc # "idle"
      BY <1>1, HandlerMoves DEF Answers, Inserts, Welcomes, Verifies, Finds, Burns, Burn, Styles
    <3> QED BY <3>1 DEF Serial, Held
  <2>2. StampMoves(t)
    BY <1>1, StampStep
  <2>3. ASSUME NEW c \in Client, c # req[t].c, codeAt'[c] # Never, c \notin adminOut'
        PROVE  cookie'[c].admin = codeAt'[c]
    BY <2>2, <2>3 DEF StampMoves, StampKept
  <2>4. ASSUME codeAt'[req[t].c] # Never, req[t].c \notin adminOut'
        PROVE  cookie'[req[t].c].admin = codeAt'[req[t].c]
    BY <2>1, <2>2, <2>4 DEF StampMoves, StampKept
  <2> QED BY <2>3, <2>4 DEF StampKept
<1>2. CASE ~\E t \in Thread : Handler(t)
  BY <1>2 DEF Next, Begin, OwnerCurl, Manage, Tick, Quiesced, vars, StampKept
<1> QED BY <1>1, <1>2

\* The owner's stamp survives friend sign-ins, sign-outs and stale sessions
\* until the owner signs out, when a browser's requests do not overlap.
THEOREM StampsAreKept == ASSUME BoundAssumption, Overlap = FALSE PROVE Spec => []StampKept
<1>1. Init => Serial /\ StampKept
  BY DEF Init, Serial, StampKept, Idle
<1>2. Typed /\ Held /\ Serial /\ [Next]_vars => Serial'
  BY SerialStep
<1>3. Typed /\ Held /\ Serial /\ StampKept /\ [Next]_vars => StampKept'
  BY StampKeptStep
<1> QED BY <1>1, <1>2, <1>3, TypeCorrect, PTL DEF Spec
=============================================================================
