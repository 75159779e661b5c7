--------------------------- MODULE CharacterLists ---------------------------
(***************************************************************************)
(* What a refresh promises about the killmails it loads, whatever happens  *)
(* to the requests it is made of: each character has one list, which a     *)
(* load replaces as a whole by a list ESI had for that character, or keeps *)
(* as a whole.  A killmail that zKillboard reports is in no list.          *)
(***************************************************************************)
CONSTANTS
  Char,
  Killmail

VARIABLES
  published,    \* per character, the lists ESI has had
  list,         \* per character, the killmails it is a source of
  reported      \* killmails zKillboard is known to have

vars == <<published, list, reported>>

Init ==
  /\ published \in [Char -> SUBSET SUBSET Killmail]
  /\ list \in [Char -> SUBSET Killmail]
  /\ reported \in SUBSET Killmail

Publish(c, l) ==
  /\ published' = [published EXCEPT ![c] = @ \cup {l}]
  /\ UNCHANGED <<list, reported>>

\* The characters in `loaded` get one of their lists, the others keep theirs.
Load(loaded) ==
  /\ \A c \in Char :
        IF c \in loaded
        THEN \E l \in published[c] : list'[c] = l \ reported
        ELSE list'[c] = list[c]
  /\ DOMAIN list' = Char
  /\ UNCHANGED <<published, reported>>

Report(m) ==
  /\ reported' = reported \cup {m}
  /\ list' = [c \in Char |-> list[c] \ {m}]
  /\ UNCHANGED published

Next ==
  \/ \E c \in Char, l \in SUBSET Killmail : Publish(c, l)
  \/ (\E loaded \in SUBSET Char : Load(loaded))
  \/ (\E m \in Killmail : Report(m))

Spec == Init /\ [][Next]_vars
=============================================================================
