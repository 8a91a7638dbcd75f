---------------------------- MODULE MCRbacCache ----------------------------
(***************************************************************************)
(* Two roles, one of them built in; two calls at once; two changes; a  *)
(* copy that may be answered from for one tick after the one it was read   *)
(* in.                                                                     *)
(***************************************************************************)
EXTENDS RbacCache, TLC

CONSTANTS c1, c2

MCCalls == {c1, c2}
Symmetry == Permutations(MCCalls)
=============================================================================
