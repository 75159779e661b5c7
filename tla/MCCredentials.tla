--------------------------- MODULE MCCredentials ---------------------------
(***************************************************************************)
(* Instances of Credentials for TLC.  Characters are interchangeable.      *)
(***************************************************************************)
EXTENDS Credentials, TLC

Characters == Permutations(Character)
=============================================================================
