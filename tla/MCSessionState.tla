--------------------------- MODULE MCSessionState ---------------------------
(***************************************************************************)
(* Two workers on one session: sessions share nothing.  A file with a      *)
(* secret is read and something is sent out, in every order.               *)
(***************************************************************************)
EXTENDS SessionState, TLC

CONSTANTS w1, w2, s1

In(a, secret) == [action |-> a, secret |-> secret, internal |-> FALSE]
MCWorkers == {w1, w2}
MCInputs == {In("file_read", TRUE), In("http", FALSE)}
MCSymmetry == Permutations(MCWorkers)
=============================================================================
