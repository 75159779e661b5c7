------------------------- MODULE MCRefreshSchedule -------------------------
(***************************************************************************)
(* Instances of RefreshSchedule for TLC.  A unit of time is a minute, so   *)
(* that both waits and the first backoff are one unit.                     *)
(***************************************************************************)
EXTENDS RefreshSchedule

CONSTANTS service, cli, other

NoOverride == [p \in Service |-> NoInterval]
=============================================================================
