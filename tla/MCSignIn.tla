------------------------------ MODULE MCSignIn ------------------------------
(* Two clients of shard 2: one connects, and has a password; the other is on   *)
(* the server, and has an issued credential.                                  *)
EXTENDS SignIn
CONSTANTS c1, c2
MCHome == [c \in Conns |-> 2]
MCDoes == [c \in Conns |-> IF c = c1 THEN {"connect", "sasl", "identify", "logout"}
                           ELSE {"identify", "register", "nickserv", "quit"}]
MCUses == [c \in Conns |-> IF c = c1 THEN {"password"} ELSE {"issued"}]
MCAttempts == [c \in Conns |-> IF c = c1 THEN 2 ELSE 1]

\* A check of a session that is gone is answered to nobody.
View == <<session, login, {k \in checks : session[k.conn].on}, shard, inbox, held, store, due,
          listener, trouble>>
=============================================================================
