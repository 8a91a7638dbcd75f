-------------------------- MODULE MCRelayDaemon --------------------------
(* A small instance of RelayDaemon: three queries, of which one may meet   *)
(* the cap of three hours, and one respawn.                                *)
EXTENDS RelayDaemon

ThreeQueries == 1..3
TwoQueries == 1..2
LastIsSlow == {3}
=============================================================================
