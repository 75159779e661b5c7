----------------------------- MODULE MCPosting -----------------------------
(***************************************************************************)
(* Instances of Posting for TLC.  `loss` is the pilot's own loss, `kill` a *)
(* kill of another character; killmails become visible on zKillboard one   *)
(* time unit after they happened.                                          *)
(***************************************************************************)
EXTENDS Posting

CONSTANTS cli, gui, pilot, foe, corp, loss, kill

MCVictimId == [m \in Killmail |-> IF m = loss THEN pilot ELSE foe]
MCVictimCorp == [m \in Killmail |-> IF m = kill /\ corp \in Corporation THEN corp ELSE NoCorp]
MCKillTime == [m \in Killmail |-> IF m = kill THEN 1 ELSE 0]

\* The pilot is authenticated and every killmail is cached.
Stocked ==
  [EmptyStore EXCEPT !.characters = {pilot},
                     !.sources = [m \in Killmail |-> {pilot}]]
MCInitialStore == {Stocked}

\* Both characters are authenticated and sourced the killmails.
Shared ==
  [EmptyStore EXCEPT !.characters = {pilot, foe},
                     !.sources = [m \in Killmail |-> {pilot, foe}]]
MCSharedStore == {Shared}
=============================================================================
