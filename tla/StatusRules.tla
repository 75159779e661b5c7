---------------------------- MODULE StatusRules ----------------------------
(***************************************************************************)
(* The pure part of a zKillboard status refresh (src/src/core/status.rs):  *)
(* which lookups a refresh makes, for which killmails, and what a lookup   *)
(* result does to the recorded statuses.                                   *)
(*                                                                         *)
(* A check asks zKillboard for the kills or the losses of one character.   *)
(* All checks of a refresh are built up front, so the candidate set they   *)
(* were built from is kept by the caller (`unknown`) while the statuses    *)
(* change under it.                                                        *)
(***************************************************************************)
EXTENDS KillmailRules

CONSTANTS
  KillTime,     \* [Killmail -> Nat], the parsed Killmail.time
  Window        \* zkill.rs WITHHOLDING_WINDOW_SECS

ASSUME KillTimeAssumption == KillTime \in [Killmail -> Nat]
ASSUME WindowAssumption == Window \in Nat

Role == {"kills", "losses"}
Check == [character : Character, role : Role]

\* The cached killmails a status refresh at time t has to resolve.
Unknowns(s, t) == {m \in Cached(s) : ReportState(s, m, t) = "Unknown"}

\* The candidates of one check among the killmails of `unknown`: a killmail
\* its character sourced, as a loss when the character is the victim.
Candidates(s, unknown, k) ==
  {m \in unknown : /\ k.character \in s.sources[m]
                   /\ k.role = "losses" <=> VictimId[m] = k.character}

\* status.rs status_checks: one check per authenticated character and role
\* that has candidates.
StatusChecks(s, t) ==
  {k \in [character : s.characters, role : Role] :
     Candidates(s, Unknowns(s, t), k) # {}}

\* What lookup_status returns to apply_lookup.
Lookup == [reported : SUBSET Killmail, complete : BOOLEAN,
           observed : Nat, until : Nat]

\* Mutated form of Disproved: an absence observed before the attempt counts.
DisprovedByAny(s, m, l, t) ==
  /\ l.complete
  /\ l.until > t
  /\ KillTime[m] <= IF l.observed >= Window THEN l.observed - Window ELSE 0

\* apply_lookup's conditions for believing that zKillboard lacks m: complete
\* and still valid evidence, taken after zKillboard stopped withholding the
\* killmail and after the last attempt to submit it.
Disproved(s, m, l, t) ==
  /\ l.complete
  /\ l.until > t
  /\ KillTime[m] <= IF l.observed >= Window THEN l.observed - Window ELSE 0
  /\ s.status[m].kind = "PostAttempted" => l.observed > s.status[m].at

\* The absence l found, with the latest observation on record.
Absent(s, m, l) ==
  Unreported(IF s.status[m].kind = "Unreported" /\ s.status[m].at > l.observed
             THEN s.status[m].at ELSE l.observed, l.until)

\* status.rs apply_lookup.
ApplyLookup(s, candidates, l, t) ==
  [s EXCEPT !.status = [m \in Killmail |->
     IF m \notin candidates \/ s.status[m].kind = "Reported" THEN s.status[m]
     ELSE IF m \in l.reported THEN Reported
     ELSE IF Disproved(s, m, l, t) THEN Absent(s, m, l)
     ELSE s.status[m]]]
=============================================================================
