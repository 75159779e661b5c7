--------------------------- MODULE MCStatusLookup ---------------------------
(***************************************************************************)
(* Instances of StatusLookup for TLC.  The pilot waits for the outcome of  *)
(* the oldest killmail and of one that happened in the same second as the  *)
(* two others that may be on the list.                                     *)
(***************************************************************************)
EXTENDS StatusLookup

CONSTANTS pilot

MCVictimId == [m \in Killmail |-> NoCharacter]
MCVictimCorp == [m \in Killmail |-> NoCorp]
MCKillTime == [m \in Killmail |-> IF m = 1 THEN 0 ELSE 1]
=============================================================================
