---------------------------- MODULE MCRelayPool ----------------------------
(***************************************************************************)
(* Two messages (one typed while the other is answered), one respawn and   *)
(* one kick by the watchdog, three spawns, one process that dies by        *)
(* itself. A history is followed up to its second mishap.                  *)
(***************************************************************************)
EXTENDS RelayPool, TLC

CONSTANTS q1, q2, w1, k1

MCQueries == {q1, q2}
MCWarmers == {w1}
MCKicks == {k1}
Symmetry == Permutations(MCQueries)
OneMishap == Cardinality(mishaps) <= 1
=============================================================================
