--------------------------- MODULE KillmailRules ---------------------------
(***************************************************************************)
(* The persisted store of ekmp and the pure rules over it                  *)
(* (src/src/models.rs, src/src/killmail.rs): which killmails are cached,   *)
(* which victims are protected, what is known about a killmail on          *)
(* zKillboard, and how reported killmails and removed characters are       *)
(* pruned.  Every other module of the posting model is built on these      *)
(* operators, so none of them is recursive.                                *)
(*                                                                         *)
(* Data abstraction.  A killmail, a character and a corporation are        *)
(* values told apart only by equality.  What a killmail records never      *)
(* changes once downloaded, so its victim and its time are constants.      *)
(* A cached killmail always names at least one source character (the       *)
(* loader attaches one, removal drops the killmail with the last one), so  *)
(* the cache is the function `sources` and a killmail is cached when its   *)
(* source set is not empty.                                                *)
(***************************************************************************)
EXTENDS Integers, FiniteSets

CONSTANTS
  Killmail,     \* killmail ids
  Character,    \* characters, authenticated or only victims
  Corporation,  \* corporations
  NoCharacter,  \* the absent character id of a victim
  NoCorp,       \* the absent corporation id of a character or a victim
  VictimId,     \* [Killmail -> Character \cup {NoCharacter}], Killmail.victim_id
  VictimCorp    \* [Killmail -> Corporation \cup {NoCorp}]

ASSUME NoCharacterAssumption == NoCharacter \notin Character
ASSUME NoCorpAssumption == NoCorp \notin Corporation
ASSUME VictimIdAssumption ==
         VictimId \in [Killmail -> Character \cup {NoCharacter}]
ASSUME VictimCorpAssumption ==
         VictimCorp \in [Killmail -> Corporation \cup {NoCorp}]

-----------------------------------------------------------------------------
(* The status of a killmail (models.rs ZkillStatus; "None" is a killmail    *)
(* with no entry in the map).  `until` is Unreported.valid_until and `at`   *)
(* is PostAttempted.attempted_at.  For an Unreported status `at` is a       *)
(* history value the code does not store: the latest observation of the     *)
(* absence since the killmail was last attempted.                           *)

StatusKind == {"None", "Reported", "Unreported", "PostAttempted"}
ZkillStatus == [kind : StatusKind, at : Nat, until : Nat]

\* Mutated form of PostAttempted: the time before the attempt is recorded.
PostAttemptedBefore(at) == [kind |-> "PostAttempted", at |-> at - 1, until |-> 0]

NoStatus == [kind |-> "None", at |-> 0, until |-> 0]
Reported == [kind |-> "Reported", at |-> 0, until |-> 0]
Unreported(at, until) == [kind |-> "Unreported", at |-> at, until |-> until]
PostAttempted(at) == [kind |-> "PostAttempted", at |-> at, until |-> 0]

(* The fields of models.rs Store that decide what may be posted.  The       *)
(* zKillboard cooldowns of every scope are one deadline, the latest, since  *)
(* active_api_cooldown compares only the source.  A deadline that passed is *)
(* the same as none, so dropping one is not an effect of its own.           *)

Store ==
  [characters          : SUBSET Character,
   corporation         : [Character -> Corporation \cup {NoCorp}],
   manualCharacters    : SUBSET Character,
   manualCorporations  : SUBSET Corporation,
   manualKillmails     : SUBSET Killmail,
   sources             : [Killmail -> SUBSET Character],
   status              : [Killmail -> ZkillStatus],
   cooldown            : Nat]

EmptyStore ==
  [characters |-> {}, corporation |-> [c \in Character |-> NoCorp],
   manualCharacters |-> {}, manualCorporations |-> {}, manualKillmails |-> {},
   sources |-> [m \in Killmail |-> {}],
   status |-> [m \in Killmail |-> NoStatus], cooldown |-> 0]

Cached(s) == {m \in Killmail : s.sources[m] # {}}

-----------------------------------------------------------------------------
(* Protection *)

\* killmail.rs protection_reasons is not empty.
Protected(s, m) ==
  \/ m \in s.manualKillmails
  \/ VictimId[m] \in s.characters \cup s.manualCharacters
  \/ /\ VictimCorp[m] # NoCorp
     /\ \/ \E c \in s.characters : s.corporation[c] = VictimCorp[m]
        \/ VictimCorp[m] \in s.manualCorporations

\* killmail.rs report_state: an absence only counts until it expires, and an
\* attempt whose outcome is unknown counts as unknown.
ReportState(s, m, t) ==
  IF s.status[m].kind = "Reported" THEN "Reported"
  ELSE IF s.status[m].kind = "Unreported" /\ s.status[m].until > t
  THEN "Unreported" ELSE "Unknown"

\* killmail.rs is_bulk_candidate.
BulkCandidate(s, m, t) == ~Protected(s, m) /\ ReportState(s, m, t) = "Unreported"

-----------------------------------------------------------------------------
(* Changes of a store *)

\* status.rs prune_reported: reported killmails leave the cache and their
\* individual protection flags are dropped.
PruneReported(s) ==
  LET reported == {m \in Killmail : s.status[m].kind = "Reported"}
  IN  [s EXCEPT !.sources = [m \in Killmail |->
                               IF m \in reported THEN {} ELSE s.sources[m]],
                !.manualKillmails = @ \ reported]

\* characters.rs remove_character with killmail.rs
\* remove_killmails_for_removed_character: a killmail the character sourced
\* keeps only its authenticated sources, and goes when none is left.
WithoutCharacter(s, c) ==
  LET rest == s.characters \ {c}
  IN  [s EXCEPT !.characters = rest,
                !.corporation[c] = NoCorp,
                !.sources = [m \in Killmail |->
                               IF c \in s.sources[m] THEN s.sources[m] \cap rest
                                                     ELSE s.sources[m]]]

\* characters.rs authenticate: the character is (re)inserted; a failed
\* corporation lookup keeps what was known of an already present character.
WithCharacter(s, c, corp) ==
  [s EXCEPT !.characters = @ \cup {c},
            !.corporation[c] = IF corp = NoCorp THEN @ ELSE corp]

\* timing.rs merge_api_cooldowns on the zKillboard entries: expired deadlines
\* are dropped, a live one is only ever extended.
MergeCooldown(s, until, t) ==
  LET live == IF s.cooldown > t THEN s.cooldown ELSE 0
  IN  [s EXCEPT !.cooldown = IF until > t /\ until >= live THEN until ELSE live]

\* timing.rs active_api_cooldown for "zkillboard".
CooldownActive(s, t) == s.cooldown > t
=============================================================================
