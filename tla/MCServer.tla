----------------------------- MODULE MCServer ------------------------------
(***************************************************************************)
(* Instances for TLC of the server's parts beside the queue: the run       *)
(* checks each of them by itself, as a behaviour moves one.                *)
(***************************************************************************)
EXTENDS Server, Sequences, TLC

CONSTANTS
  t0, t1, t2    \* threads

\* A zone is a step of its offset (none, forward, back) and the minute of it.
Zones == {-2, 0, 2} \X (0..10)
ZoneOffset(z, m) == IF m < z[2] THEN 3 ELSE 3 + z[1]

\* Jobs of one section and of several, with and without a cut.
SomeKinds == {"strip", "uncut", "caption", "status", "blink"}

\* Two browsers and two threads: signups of one name, sign-ins, links and
\* deletions by the owner overlap.
SomeRaces ==
  [Client |-> {"c1", "c2"}, Thread |-> {t1, t2}, Name |-> {"n1"}, Pw |-> {"p1"}, Style |-> {"plain"},
   Ops |-> {"register", "login", "reset", "gate", "curl"}, Overlap |-> TRUE,
   MaxId |-> 2, MaxToken |-> 1, MaxTime |-> 0, MaxReq |-> 4, MaxFails |-> 3, MaxIpFails |-> 9,
   MaxRegs |-> 9, AdminLife |-> 2]

\* One browser's guesses in every order and overlap, with small limits.
SomeGuesses ==
  [Client |-> {"c1"}, Thread |-> {t1, t2}, Name |-> {"n1"}, Pw |-> {"p1", "p2"}, Style |-> {"plain"},
   Ops |-> {"register", "login", "reset", "curl"}, Overlap |-> TRUE,
   MaxId |-> 1, MaxToken |-> 2, MaxTime |-> 1, MaxReq |-> 5, MaxFails |-> 2, MaxIpFails |-> 1,
   MaxRegs |-> 2, AdminLife |-> 2]

\* Owner and friend in one browser, with overlapping requests and a clock.
SomeOwner ==
  [Client |-> {"c1"}, Thread |-> {t1, t2}, Name |-> {"n1"}, Pw |-> {"p1"}, Style |-> {"plain"},
   Ops |-> {"register", "login", "admin", "adminout", "owner", "gate"}, Overlap |-> TRUE,
   MaxId |-> 1, MaxToken |-> 1, MaxTime |-> 3, MaxReq |-> 5, MaxFails |-> 3, MaxIpFails |-> 9,
   MaxRegs |-> 9, AdminLife |-> 2]

\* One request at a time.
SomeSerial ==
  [Client |-> {"c1"}, Thread |-> {t0}, Name |-> {"n1"}, Pw |-> {"p1"}, Style |-> {"plain", "big"},
   Ops |-> {"register", "login", "logout", "admin", "adminout", "settings", "gate", "curl"},
   Overlap |-> FALSE, MaxId |-> 2, MaxToken |-> 0, MaxTime |-> 1, MaxReq |-> 6, MaxFails |-> 3,
   MaxIpFails |-> 9, MaxRegs |-> 9, AdminLife |-> 2]

SomeUsers == [races |-> SomeRaces, guesses |-> SomeGuesses, owner |-> SomeOwner, serial |-> SomeSerial]

\* Codes of the steps, of which the second and the fourth share one.
CodeTable(n) == [s \in 1..n |-> IF s = 4 THEN 2 ELSE s]

\* One thread and failures that age out of the window, or two threads.
SomeLogins ==
  [one |-> [Thread |-> {t0}, Address |-> {"a1", "a2"}, CodeOf |-> CodeTable(5), MaxTime |-> 4,
            MaxReq |-> 5, Window |-> 2, MaxIp |-> 2, MaxGlobal |-> 3],
   two |-> [Thread |-> {t1, t2}, Address |-> {"a1"}, CodeOf |-> CodeTable(4), MaxTime |-> 3,
            MaxReq |-> 4, Window |-> 2, MaxIp |-> 2, MaxGlobal |-> 3]]

\* Targets away from midnight and values that are no time.
SomeConfigs == {<<1, 0>>, <<1, 2>>, <<>>, <<3, 0>>, <<1, 1, 1>>}

\* Numbers around every clamp; lines of hex ("1b" and "41") and of escapes
\* ("\x1b" and "A").
Numbers == {-5, 0, 1, 9, 10, 15, 16, 96, 97, 255, 256}
Lines ==
  { [escapes |-> FALSE, bytes |-> <<27>>, text |-> <<49, 98>>],
    [escapes |-> FALSE, bytes |-> <<65>>, text |-> <<52, 49>>],
    [escapes |-> TRUE,  bytes |-> <<27>>, text |-> <<>>],
    [escapes |-> TRUE,  bytes |-> <<65>>, text |-> <<>>] }

\* Three candidates a script, the first of which never loads.
SomeFonts ==
  [cjk |-> <<"cjk1", "cjk2", "cjk3">>, rtl |-> <<"rtl1", "rtl2">>, braille |-> <<"braille1">>]
FontThreads == {t0, t1, t2}
UsbThreads  == {t1, t2}

\* One start for each part: what the others begin with does not matter.
MCServerInit ==
  /\ ServerInit
  /\ part = "quiet hours" \/ (first = Nothing /\ last = Nothing /\ zone = <<0, 0>>)
  /\ part = "briefing" \/ (config = <<>> /\ wall = 0)
MCServerSpec == MCServerInit /\ [][ServerNext]_serverVars

Symmetry == Permutations({t1, t2})
=============================================================================
