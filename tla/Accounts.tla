------------------------------ MODULE Accounts ------------------------------
(***************************************************************************)
(* Friend accounts and browser sessions: auth/blueprint.py, auth/session.py*)
(* and the users table of auth/db.py.  The session is a signed cookie: a   *)
(* request works on the cookie it arrived with, and its response writes a  *)
(* whole cookie back if it changed the session or if the session is        *)
(* permanent (Flask refreshes those on every response).  Requests of one   *)
(* browser may overlap, and a handler makes several database calls.        *)
(*                                                                         *)
(* Names stand for user names up to case (COLLATE NOCASE).  A tick of the  *)
(* clock is an hour or more: it empties the failure windows and expires    *)
(* reset links.                                                            *)
(***************************************************************************)
EXTENDS Integers, FiniteSets

CONSTANTS
  Client,        \* browsers, one address each
  Thread,        \* request threads
  Name, Pw,      \* user names and passwords that are tried
  NoName, NoPw,  \* a row that is not there
  Style,         \* VALID_NAME_STYLES
  Ops,           \* the handlers of this instance
  Overlap,       \* may one browser have several requests under way?
  MaxId, MaxToken, MaxTime, MaxReq,  \* bounds: rows, links, clock, requests
  MaxFails, MaxIpFails, MaxRegs,     \* _MAX_FAILURES, _MAX_IP_FAILURES, _MAX_REGISTERS
  AdminLife      \* ADMIN_SESSION_SECONDS, in ticks

\* What the constants may be.
BoundAssumption ==
  /\ {MaxId, MaxToken, MaxTime, MaxReq} \subseteq Nat
  /\ {MaxFails, MaxIpFails, MaxRegs, AdminLife} \subseteq Nat \ {0}
  /\ Overlap \in BOOLEAN /\ NoName \notin Name /\ NoPw \notin Pw

Id    == 1..MaxId
Token == 1..MaxToken
None  == 0     \* no user, no link
Never == -1    \* no admin stamp

VARIABLES
  row,           \* users table; status "none" where there is no row
  nextId, nextToken,
  userFails, ipFails, regs,  \* the sliding-window buckets
  cookie,        \* per browser: uid, admin stamp, permanent flag
  req,           \* per thread: the request under way
  now, served,   \* clock; requests begun
  tokenOf,       \* per link: the row it was minted for
  redeemed,      \* per link: how often it was redeemed
  born,          \* per id: rows ever inserted under it
  mine,          \* per browser: <<id, birth>> it has signed in to
  codeAt,        \* per browser: time of its last admin login
  out, adminOut, \* browsers that have signed out since their last sign-in
  guesses        \* per browser: wrong passwords and links judged in this window

tables  == <<row, nextId, nextToken>>
buckets == <<userFails, ipFails, regs>>
history == <<tokenOf, redeemed, born, mine, codeAt, out, adminOut, guesses>>
vars == <<tables, buckets, cookie, req, now, served, history>>

NoRow   == [name |-> NoName, pw |-> NoPw, status |-> "none", style |-> "plain",
            link |-> None, until |-> 0]
Visitor == [uid |-> None, admin |-> Never, perm |-> FALSE]
Idle    == [pc |-> "idle", op |-> "none", c |-> "none", s |-> Visitor,
            name |-> NoName, pw |-> NoPw, uid |-> None, link |-> None]

Live(i)  == row[i].status # "none"
Named(n) == {i \in Id : Live(i) /\ row[i].name = n}

Init ==
  /\ row = [i \in Id |-> NoRow] /\ nextId = 1 /\ nextToken = 1
  /\ userFails = [n \in Name |-> 0] /\ ipFails = [c \in Client |-> 0]
  /\ regs = [c \in Client |-> 0] /\ cookie = [c \in Client |-> Visitor]
  /\ req = [t \in Thread |-> Idle] /\ now = 0 /\ served = 0
  /\ tokenOf = [k \in Token |-> None] /\ redeemed = [k \in Token |-> 0]
  /\ born = [i \in Id |-> 0] /\ mine = [c \in Client |-> {}]
  /\ codeAt = [c \in Client |-> Never] /\ out = {} /\ adminOut = {} /\ guesses = [c \in Client |-> 0]

-----------------------------------------------------------------------------
(* Requests and sessions.                                                  *)

\* A request reaches a thread with the cookie its browser has now.
Begin(t, c, op) ==
  /\ req[t].pc = "idle" /\ served < MaxReq
  /\ Overlap \/ \A u \in Thread : req[u].c # c
  /\ op = "register" => nextId + Cardinality({u \in Thread : req[u].op = "register"}) <= MaxId
  /\ req' = [req EXCEPT ![t] = [Idle EXCEPT !.pc = "run", !.op = op, !.c = c, !.s = cookie[c]]]
  /\ served' = served + 1
  /\ UNCHANGED <<tables, buckets, cookie, now, history>>

Runs(t, op) == req[t].pc = "run" /\ req[t].op = op

\* The response carries session s; changed says whether the handler wrote it.
Respond(t, s, changed) ==
  /\ cookie' = IF changed \/ s.perm THEN [cookie EXCEPT ![req[t].c] = s] ELSE cookie
  /\ req' = [req EXCEPT ![t] = Idle]
  /\ UNCHANGED <<now, served>>

\* Answered without touching the session.
Answer(t) == Respond(t, req[t].s, FALSE)

\* sess.login: clear, keep the admin stamp, set the user.
SignedIn(s, i) == [uid |-> i, admin |-> s.admin, perm |-> TRUE]

\* sess.logout: clear (the permanent flag too), keep the admin stamp.
SignedOut(s) == [Visitor EXCEPT !.admin = s.admin]

\* Sign the browser in to row i and say so.
SignIn(t, i) ==
  /\ Respond(t, SignedIn(req[t].s, i), TRUE)
  /\ out' = out \ {req[t].c}

\* is_admin_session, on the session of this request.
IsAdmin(s) == s.admin # Never /\ now - s.admin < AdminLife

-----------------------------------------------------------------------------
(* register                                                                *)

RegisterLocked(c) == regs[c] >= MaxRegs
RecordRegister(c) == regs' = [regs EXCEPT ![c] = @ + 1]

\* Rate limit, then the name lookup.  (A name or password refused for its
\* form is recorded and answered the same way as a taken name.)
Register(t, n, p) ==
  LET c == req[t].c IN
  /\ Runs(t, "register")
  /\ IF RegisterLocked(c)
     THEN Answer(t) /\ UNCHANGED regs
     ELSE IF Named(n) # {}
          THEN Answer(t) /\ RecordRegister(c)
          ELSE /\ req' = [req EXCEPT ![t].pc = "insert", ![t].name = n, ![t].pw = p]
               /\ UNCHANGED <<cookie, regs, now, served>>
  /\ UNCHANGED <<tables, userFails, ipFails, history>>

\* UNIQUE COLLATE NOCASE.
Taken(n) == Named(n) # {}

\* AUTOINCREMENT: never an id used before.
NewId == nextId

NewRow(n, p) == [NoRow EXCEPT !.name = n, !.pw = p, !.status = "pending"]

\* create_pending_user, which raises IntegrityError when the name was taken
\* meanwhile; then the attempt is recorded in any case.
Insert(t) ==
  LET i == NewId  r == req[t] IN
  /\ r.pc = "insert" /\ RecordRegister(r.c)
  /\ \/ /\ Taken(r.name) /\ Answer(t)
        /\ UNCHANGED <<row, nextId, born, mine>>
     \/ /\ ~Taken(r.name) /\ i \in Id
        /\ row' = [row EXCEPT ![i] = NewRow(r.name, r.pw)]
        /\ nextId' = i + 1 /\ born' = [born EXCEPT ![i] = @ + 1]
        /\ mine' = [mine EXCEPT ![r.c] = @ \cup {<<i, born[i] + 1>>}]
        /\ req' = [req EXCEPT ![t].pc = "welcome", ![t].uid = i]
        /\ UNCHANGED <<cookie, now, served>>
  /\ UNCHANGED <<nextToken, userFails, ipFails, tokenOf, redeemed, codeAt, out, adminOut, guesses>>

\* The new session goes out with the response, even when the row is gone
\* again and the answer is a 500.
Welcome(t) ==
  /\ req[t].pc = "welcome" /\ SignIn(t, req[t].uid)
  /\ UNCHANGED <<tables, buckets, tokenOf, redeemed, born, mine, codeAt, adminOut, guesses>>

-----------------------------------------------------------------------------
(* login                                                                   *)

IpLocked(c) == ipFails[c] >= MaxIpFails
LoginLocked(n, c) == userFails[n] >= MaxFails \/ IpLocked(c)

\* The limits, then the row is read; the password is checked against it later.
Login(t, n, p) ==
  LET c == req[t].c  found == Named(n) IN
  /\ Runs(t, "login")
  /\ IF LoginLocked(n, c)
     THEN Answer(t)
     ELSE /\ req' = [req EXCEPT ![t].pc = "verify", ![t].name = n,
                       ![t].pw = IF \E i \in found : row[i].pw = p THEN p ELSE NoPw,
                       ![t].uid = IF found = {} THEN None ELSE CHOOSE i \in found : TRUE]
          /\ UNCHANGED <<cookie, now, served>>
  /\ UNCHANGED <<tables, buckets, history>>

\* _clear_login_failures.
Cleared(n, c) == userFails' = [userFails EXCEPT ![n] = 0] /\ UNCHANGED ipFails

Failed(n, c) ==
  /\ userFails' = [userFails EXCEPT ![n] = @ + 1]
  /\ ipFails' = [ipFails EXCEPT ![c] = @ + 1]

\* verify_password on the row read before, then the bookkeeping.
Verify(t) ==
  LET r == req[t] IN
  /\ r.pc = "verify"
  /\ IF r.pw = NoPw
     THEN /\ Failed(r.name, r.c) /\ Answer(t)
          /\ guesses' = [guesses EXCEPT ![r.c] = @ + 1] /\ UNCHANGED <<mine, out>>
     ELSE /\ Cleared(r.name, r.c) /\ SignIn(t, r.uid)
          /\ mine' = [mine EXCEPT ![r.c] = @ \cup {<<r.uid, born[r.uid]>>}]
          /\ UNCHANGED guesses
  /\ UNCHANGED <<tables, regs, tokenOf, redeemed, born, codeAt, adminOut>>
-----------------------------------------------------------------------------
(* reset_password: three database calls.                                   *)

Redeemable(k) == {i \in Id : Live(i) /\ row[i].link = k /\ row[i].until > now}

\* The address's limit, then consume_reset_token's SELECT.
FindLink(t, k, p) ==
  LET c == req[t].c IN
  /\ Runs(t, "reset")
  /\ IF IpLocked(c)
     THEN Answer(t) /\ UNCHANGED <<ipFails, guesses>>
     ELSE IF Redeemable(k) = {}
          THEN /\ ipFails' = [ipFails EXCEPT ![c] = @ + 1]
               /\ guesses' = [guesses EXCEPT ![c] = @ + 1] /\ Answer(t)
          ELSE LET i == CHOOSE j \in Redeemable(k) : TRUE IN
               /\ req' = [req EXCEPT ![t].pc = "burn", ![t].link = k, ![t].pw = p,
                                     ![t].uid = i, ![t].name = row[i].name]
               /\ UNCHANGED <<cookie, ipFails, guesses, now, served>>
  /\ UNCHANGED <<tables, userFails, regs, tokenOf, redeemed, born, mine, codeAt, out, adminOut>>

\* Mutant of Burned: the link stays.
BurnedNot(i) == row

Burned(i) == IF Live(i) THEN [row EXCEPT ![i].link = None, ![i].until = 0] ELSE row

\* consume_reset_token's UPDATE, by the row's id.
Burn(t) ==
  LET r == req[t] IN
  /\ r.pc = "burn" /\ req' = [req EXCEPT ![t].pc = "setpw"]
  /\ row' = Burned(r.uid)
  /\ redeemed' = [redeemed EXCEPT ![r.link] = @ + 1]
  /\ UNCHANGED <<nextId, nextToken, buckets, cookie, now, served, tokenOf, born, mine,
                 codeAt, out, adminOut, guesses>>

\* set_password, the lifted lockout, and the session.
SetPassword(t) ==
  LET r == req[t] IN
  /\ r.pc = "setpw" /\ SignIn(t, r.uid) /\ Cleared(r.name, r.c)
  /\ row' = IF Live(r.uid) THEN [row EXCEPT ![r.uid].pw = r.pw] ELSE row
  /\ mine' = [mine EXCEPT ![r.c] = @ \cup {<<tokenOf[r.link], born[tokenOf[r.link]]>>}]
  /\ UNCHANGED <<nextId, nextToken, regs, tokenOf, redeemed, born, codeAt, adminOut, guesses>>

-----------------------------------------------------------------------------
(* Session routes, settings, and the owner.                                *)

\* current_user: a session of a missing row loses its uid.
Stale(s) == s.uid # None /\ ~Live(s.uid)
Gone(t) == Respond(t, [req[t].s EXCEPT !.uid = None], TRUE)

\* require_allowed in front of any friend route, and /me.
Gate(t) ==
  /\ Runs(t, "gate")
  /\ IF Stale(req[t].s) THEN Gone(t) ELSE Answer(t)
  /\ UNCHANGED <<tables, buckets, history>>

Allowed(s) == s.uid # None /\ row[s.uid].status = "allowed"

Settings(t) ==
  LET s == req[t].s IN
  /\ Runs(t, "settings")
  /\ IF Stale(s) THEN Gone(t)
     ELSE IF ~Allowed(s) THEN Answer(t)
     ELSE req' = [req EXCEPT ![t].pc = "style"] /\ UNCHANGED <<cookie, now, served>>
  /\ UNCHANGED <<tables, buckets, history>>

\* set_name_style; a row deleted meanwhile is a 500 and stays deleted.
SetStyle(t, st) ==
  /\ req[t].pc = "style" /\ Answer(t)
  /\ row' = IF Live(req[t].s.uid) THEN [row EXCEPT ![req[t].s.uid].style = st] ELSE row
  /\ UNCHANGED <<nextId, nextToken, buckets, history>>

Logout(t) ==
  /\ Runs(t, "logout") /\ Respond(t, SignedOut(req[t].s), TRUE)
  /\ out' = out \cup {req[t].c}
  /\ UNCHANGED <<tables, buckets, tokenOf, redeemed, born, mine, codeAt, adminOut, guesses>>

\* login_admin, after a correct code.
AdminLogin(t) ==
  LET c == req[t].c IN
  /\ Runs(t, "admin") /\ Respond(t, [req[t].s EXCEPT !.admin = now, !.perm = TRUE], TRUE)
  /\ codeAt' = [codeAt EXCEPT ![c] = now] /\ adminOut' = adminOut \ {c}
  /\ UNCHANGED <<tables, buckets, tokenOf, redeemed, born, mine, out, guesses>>

AdminLogout(t) ==
  LET s == req[t].s IN
  /\ Runs(t, "adminout") /\ Respond(t, [s EXCEPT !.admin = Never], s.admin # Never)
  /\ adminOut' = adminOut \cup {req[t].c}
  /\ UNCHANGED <<tables, buckets, tokenOf, redeemed, born, mine, codeAt, out, guesses>>

Approve(i) == row' = [row EXCEPT ![i].status = "allowed"] /\ UNCHANGED <<nextToken, tokenOf>>
Revoke(i)  == row' = [row EXCEPT ![i].status = "blocked"] /\ UNCHANGED <<nextToken, tokenOf>>
Delete(i)  == row' = [row EXCEPT ![i] = NoRow] /\ UNCHANGED <<nextToken, tokenOf>>

\* create_reset_token: a new link replaces the one before.
MintLink(i) ==
  /\ nextToken \in Token /\ nextToken' = nextToken + 1
  /\ row' = [row EXCEPT ![i].link = nextToken, ![i].until = now + 1]
  /\ tokenOf' = [tokenOf EXCEPT ![nextToken] = i]

Manage(i) ==
  /\ Live(i)
  /\ Approve(i) \/ Revoke(i) \/ Delete(i) \/ MintLink(i)
  /\ UNCHANGED <<nextId, buckets, now, redeemed, born, mine, codeAt, out, adminOut, guesses>>

\* require_admin in front of an owner route; 401, 404, or done.
Owner(t, i) ==
  /\ Runs(t, "owner") /\ Answer(t)
  /\ \/ (~IsAdmin(req[t].s) \/ ~Live(i)) /\ UNCHANGED <<tables, buckets, history>>
     \/ IsAdmin(req[t].s) /\ Manage(i)

\* The same routes with the Bearer token: no session.
OwnerCurl(i) == "curl" \in Ops /\ Manage(i) /\ UNCHANGED <<cookie, req, served>>

Tick ==
  /\ now < MaxTime /\ now' = now + 1
  /\ userFails' = [n \in Name |-> 0] /\ ipFails' = [c \in Client |-> 0]
  /\ regs' = [c \in Client |-> 0] /\ guesses' = [c \in Client |-> 0]
  /\ UNCHANGED <<tables, cookie, req, served, tokenOf, redeemed, born, mine, codeAt, out, adminOut>>

Quiesced == served = MaxReq /\ (\A t \in Thread : req[t] = Idle) /\ UNCHANGED vars

Handler(t) ==
  \/ \E n \in Name, p \in Pw : Register(t, n, p) \/ Login(t, n, p)
  \/ \E k \in Token, p \in Pw : FindLink(t, k, p)
  \/ Insert(t) \/ Welcome(t) \/ Verify(t) \/ Burn(t) \/ SetPassword(t)
  \/ Gate(t) \/ Settings(t) \/ (\E st \in Style : SetStyle(t, st)) \/ Logout(t)
  \/ AdminLogin(t) \/ AdminLogout(t) \/ (\E i \in Id : Owner(t, i))

Next ==
  \/ \E t \in Thread : Handler(t) \/ \E c \in Client, op \in Ops \ {"curl"} : Begin(t, c, op)
  \/ (\E i \in Id : OwnerCurl(i)) \/ Tick \/ Quiesced

Spec == Init /\ [][Next]_vars

-----------------------------------------------------------------------------
(* Properties.                                                             *)

\* Rows hold only the values the schema and VALID_STATUSES name, cookies only
\* ids, stamps and the permanent flag.
TypeOK ==
  /\ row \in [Id -> [name : Name \cup {NoName}, pw : Pw \cup {NoPw},
                     status : {"none", "pending", "allowed", "blocked"},
                     style : Style \cup {"plain"}, link : Token \cup {None}, until : Nat]]
  /\ cookie \in [Client -> [uid : Id \cup {None}, admin : (0..MaxTime) \cup {Never}, perm : BOOLEAN]]
  /\ \A n \in Name : userFails[n] \in Nat
  /\ \A c \in Client : ipFails[c] \in Nat /\ regs[c] \in Nat /\ guesses[c] \in Nat

\* A browser's session resolves only to an account this very browser has
\* registered, signed in to or redeemed a link for: a stale cookie of a
\* deleted account never becomes somebody else's (AUTOINCREMENT), whatever
\* requests overlap and whenever the owner deletes.
SessionProven ==
  \A c \in Client : LET u == cookie[c].uid IN
    u # None /\ Live(u) => <<u, born[u]>> \in mine[c]

\* Two signups of one name in flight at once leave one account: the lookup
\* before the insert is only a courtesy, the constraint decides.
NameUnique == \A i, j \in Id : Live(i) /\ Live(j) /\ row[i].name = row[j].name => i = j

\* Within one window an address has at most MaxIpFails wrong passwords and
\* links judged, plus the requests that passed the check together; a success
\* in between does not start the count anew (blueprint.py:99-101).
GuessesBounded ==
  \A c \in Client : guesses[c] <= MaxIpFails + Cardinality(Thread) - 1

\* An admin session needs a code typed in this browser within AdminLife; no
\* friend sign-in, refreshed cookie or late response prolongs it.
AdminNeedsCode ==
  \A c \in Client : IsAdmin(cookie[c]) => codeAt[c] # Never /\ now - codeAt[c] < AdminLife

\* After a sign-out the browser stays signed out until it signs in again, if
\* requests do not overlap: a late response would write the old permanent
\* cookie back.
LogoutHolds == \A c \in out : cookie[c].uid = None

\* The owner's stamp survives friend sign-ins, sign-outs and stale sessions
\* until the owner signs out (session.py:36), if requests do not overlap.
StampKept ==
  \A c \in Client : codeAt[c] # Never /\ c \notin adminOut => cookie[c].admin = codeAt[c]

\* db.py: "a reset link is strictly one shot": a link is redeemed once, plus once
\* for each request that found it before the first of them burned it.
LinkBurns == \A k \in Token : redeemed[k] <= Cardinality(Thread)
=============================================================================
