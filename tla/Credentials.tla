---------------------------- MODULE Credentials ----------------------------
(***************************************************************************)
(* Where ekmp keeps refresh tokens and preferences, and how they survive   *)
(* (src/src/persistence/storage.rs save and load, persistence/secrets.rs,  *)
(* core/characters.rs, integrations/auth.rs access_token).                 *)
(*                                                                         *)
(* A store is persisted as three files, each replaced atomically but one   *)
(* after the other: the credentials, then the preferences, then the state. *)
(* A refresh token is in the system credential store or, when that failed, *)
(* in the credentials file; a load prefers the file.  Operations are       *)
(* serialised by the store lock, so one runs at a time, and it may fail or *)
(* die between any two writes.                                             *)
(*                                                                         *)
(* Abstractions.  Tokens are numbered in the order EVE hands them out.  Of *)
(* the state file only the characters it names are modelled, the           *)
(* preferences are one value, and an operation that changes neither        *)
(* tokens, characters nor preferences is a single save.                    *)
(***************************************************************************)
EXTENDS Integers

CONSTANTS
  Character,    \* characters that may be authenticated
  Setting,      \* contents of the config file that load
  Malformed,    \* contents of the config file that do not
  Operation,    \* bound: the kinds of operations a run makes
  MaxToken,     \* bound: tokens EVE hands out
  CanCrash,     \* whether a process may die inside an operation
  CanFailPersist \* whether writing a file may fail

ASSUME MalformedAssumption == Malformed \notin Setting
ASSUME MaxTokenAssumption == MaxToken \in Nat
ASSUME FlagAssumption == CanCrash \in BOOLEAN /\ CanFailPersist \in BOOLEAN

VARIABLES
  state,        \* state.json: the characters it names
  credentials,  \* credentials.json: the fallback token of each character
  config,       \* config.toml
  keyring,      \* the system credential store
  step,         \* where the running operation is
  work,         \* its working copy, LockedStore.store
  task,         \* what it works on
  issued,       \* the number of the last token handed out
  \* history variables
  received,     \* the last token an operation accepted for each character
  kept,         \* the last token of each character that was made durable
  interrupted   \* the characters whose token an operation was handling when it
                \* died or could not write

files == <<state, credentials, config, keyring>>
vars == <<state, credentials, config, keyring, step, work, task, issued,
          received, kept, interrupted>>

NoToken == 0
Token == Nat

(* Steps of an operation.                                                   *)
(*   authorize, keyring:  authenticate waits for the user, stores the token *)
(*   delete:              remove_character removes the stored credential    *)
(*   move:                migrate_refresh_tokens, between two characters    *)
(*   load:                a refresh, between two characters                 *)
(*   credentials, config, state:  a save is about to write that file        *)
Step == {"idle", "authorize", "keyring", "delete", "move", "load",
         "credentials", "config", "state"}

Kind == {"none", "authenticate", "remove", "migrate", "refresh", "set", "edit"}

\* The characters still to visit, the one being worked on, and where the
\* operation goes on after its save ("idle" when it is over).
Task == [kind : Kind, ids : SUBSET Character, current : SUBSET Character, then : Step]
NoTask == [kind |-> "none", ids |-> {}, current |-> {}, then |-> "idle"]

Store == [characters : SUBSET Character, fallback : [Character -> Token],
          setting : Setting \cup {Malformed}]
EmptyStore == [characters |-> {}, fallback |-> [c \in Character |-> NoToken],
               setting |-> Malformed]

TypeOK ==
  /\ state \in SUBSET Character
  /\ credentials \in [Character -> Token]
  /\ config \in Setting \cup {Malformed}
  /\ keyring \in [Character -> Token]
  /\ step \in Step
  /\ work \in Store
  /\ task \in Task
  /\ issued \in Nat
  /\ received \in [Character -> Token]
  /\ kept \in [Character -> Token]
  /\ interrupted \in SUBSET Character

Init ==
  /\ state = {}
  /\ credentials = [c \in Character |-> NoToken]
  /\ config \in Setting
  /\ keyring = [c \in Character |-> NoToken]
  /\ step = "idle"
  /\ work = EmptyStore
  /\ task = NoTask
  /\ issued = 0
  /\ received = [c \in Character |-> NoToken]
  /\ kept = [c \in Character |-> NoToken]
  /\ interrupted = {}

-----------------------------------------------------------------------------
(* Loading, saving and ending *)

\* storage.rs load: tokens of characters the state does not name are ignored.
Loaded ==
  [characters |-> state,
   fallback |-> [c \in Character |-> IF c \in state THEN credentials[c] ELSE NoToken],
   setting |-> config]

\* begin_operation: an operation of some kind starts if the files load.
Begin(kind) ==
  /\ kind \in Operation
  /\ step = "idle"
  /\ config # Malformed

WithFallback(s, c, token) == [s EXCEPT !.fallback[c] = token]

End ==
  /\ step' = "idle"
  /\ work' = EmptyStore
  /\ task' = NoTask

\* LockedStore.persist of the working copy s; the operation goes on at `then`.
Save(s, tsk, then) ==
  /\ work' = s
  /\ task' = [tsk EXCEPT !.then = then]
  /\ step' = "credentials"

\* Mutated form of Fallbacks: the file keeps only the tokens it already had.
FallbacksKnown(s) ==
  [c \in Character |-> IF c \in s.characters /\ credentials[c] # NoToken
                       THEN s.fallback[c] ELSE NoToken]

\* What a save of s writes to the credentials file; none is no file.
Fallbacks(s) ==
  [c \in Character |-> IF c \in s.characters THEN s.fallback[c] ELSE NoToken]

Durable(old, tokens) ==
  [c \in Character |-> IF tokens[c] # NoToken THEN tokens[c] ELSE old[c]]

SaveCredentials ==
  /\ step = "credentials"
  /\ credentials' = Fallbacks(work)
  /\ kept' = Durable(kept, credentials')
  /\ step' = "config"
  /\ UNCHANGED <<state, config, keyring, work, task, issued, received, interrupted>>

SaveConfig ==
  /\ step = "config"
  /\ config' = work.setting
  /\ step' = "state"
  /\ UNCHANGED <<state, credentials, keyring, work, task, issued, received, kept, interrupted>>

SaveState ==
  /\ step = "state"
  /\ state' = work.characters
  /\ IF task.then = "idle" THEN End
     ELSE step' = task.then /\ UNCHANGED <<work, task>>
  /\ UNCHANGED <<credentials, config, keyring, issued, received, kept, interrupted>>

\* A file could not be written.  The operation returns the error, except that a
\* refresh whose rotated token was not saved still saves what it has.
SaveFails ==
  /\ CanFailPersist
  /\ step \in {"credentials", "config", "state"}
  /\ IF task.kind = "refresh" /\ task.current # {}
     THEN Save(work, [task EXCEPT !.current = {}], "idle")
     ELSE End
  /\ interrupted' = interrupted \cup task.current
  /\ UNCHANGED <<files, issued, received, kept>>

-----------------------------------------------------------------------------
(* core/characters.rs *)

BeginAuthenticate(c) ==
  /\ Begin("authenticate")
  /\ work' = Loaded
  /\ task' = [NoTask EXCEPT !.kind = "authenticate", !.current = {c}]
  /\ step' = "authorize"
  /\ UNCHANGED <<files, issued, received, kept, interrupted>>

\* The user declined, the exchange failed, or the operation was cancelled.
AuthorizationFails ==
  /\ step = "authorize"
  /\ End
  /\ UNCHANGED <<files, issued, received, kept, interrupted>>

\* The new token is first made durable as a fallback.
Authorized(c) ==
  LET token == issued + 1
  IN  /\ step = "authorize"
      /\ task.current = {c}
      /\ token <= MaxToken
      /\ issued' = token
      /\ received' = [received EXCEPT ![c] = token]
      /\ Save([WithFallback(work, c, token) EXCEPT !.characters = @ \cup {c}],
              task, "keyring")
      /\ interrupted' = interrupted \ {c}
      /\ UNCHANGED <<files, kept>>

\* The credential store takes the token and the fallback is dropped.
TokenStored(c) ==
  /\ step = "keyring"
  /\ task.current = {c}
  /\ keyring' = [keyring EXCEPT ![c] = work.fallback[c]]
  /\ kept' = [kept EXCEPT ![c] = work.fallback[c]]
  /\ Save(WithFallback(work, c, NoToken), task, "idle")
  /\ UNCHANGED <<state, credentials, config, issued, received, interrupted>>

TokenNotStored ==
  /\ step = "keyring"
  /\ End
  /\ UNCHANGED <<files, issued, received, kept, interrupted>>

\* The credential store is only asked to delete when no fallback is in use.
\* The user gives the token up with the character.
BeginRemove(c) ==
  /\ Begin("remove")
  /\ c \in state
  /\ Save([Loaded EXCEPT !.characters = @ \ {c}],
          [NoTask EXCEPT !.kind = "remove", !.current = {c}],
          IF credentials[c] # NoToken THEN "idle" ELSE "delete")
  /\ kept' = [kept EXCEPT ![c] = NoToken]
  /\ UNCHANGED <<files, issued, received, interrupted>>

\* A failure to delete is reported as a warning.
DeleteToken(c) ==
  /\ step = "delete"
  /\ task.current = {c}
  /\ keyring' \in {keyring, [keyring EXCEPT ![c] = NoToken]}
  /\ End
  /\ UNCHANGED <<state, credentials, config, issued, received, kept, interrupted>>

BeginMigrate ==
  /\ Begin("migrate")
  /\ work' = Loaded
  /\ task' = [NoTask EXCEPT !.kind = "migrate",
                            !.ids = {c \in state : credentials[c] # NoToken}]
  /\ step' = "move"
  /\ UNCHANGED <<files, issued, received, kept, interrupted>>

\* Mutated form of MoveToken: the fallback is dropped though nothing was stored.
MoveTokenUnstored(c) ==
  /\ step = "move"
  /\ c \in task.ids
  /\ UNCHANGED <<keyring, kept>>
  /\ Save(WithFallback(work, c, NoToken), [task EXCEPT !.ids = @ \ {c}], "move")
  /\ UNCHANGED <<state, credentials, config, issued, received, interrupted>>

\* Each token is persisted as moved before the next one is touched.
MoveToken(c) ==
  /\ step = "move"
  /\ c \in task.ids
  /\ keyring' = [keyring EXCEPT ![c] = work.fallback[c]]
  /\ kept' = [kept EXCEPT ![c] = work.fallback[c]]
  /\ Save(WithFallback(work, c, NoToken), [task EXCEPT !.ids = @ \ {c}], "move")
  /\ UNCHANGED <<state, credentials, config, issued, received, interrupted>>

\* The credential store refused, and the fallback stays.
MoveFails(c) ==
  /\ step = "move"
  /\ c \in task.ids
  /\ task' = [task EXCEPT !.ids = @ \ {c}]
  /\ UNCHANGED <<files, step, work, issued, received, kept, interrupted>>

EndMigrate ==
  /\ step = "move"
  /\ task.ids = {}
  /\ End
  /\ UNCHANGED <<files, issued, received, kept, interrupted>>

-----------------------------------------------------------------------------
(* A refresh: core/refresh.rs with integrations/auth.rs access_token *)

BeginRefresh ==
  /\ Begin("refresh")
  /\ state # {}
  /\ Save(Loaded, [NoTask EXCEPT !.kind = "refresh", !.ids = state], "load")
  /\ UNCHANGED <<files, issued, received, kept, interrupted>>

\* The token of a character the working copy holds, or refers to.
Chosen(fallback, stored, c) == IF fallback[c] # NoToken THEN fallback[c] ELSE stored[c]

\* Mutated form of RotateToken: a token the credential store refuses is dropped.
RotateTokenUnsaved(c) ==
  LET token == issued + 1
      tsk == [task EXCEPT !.ids = @ \ {c}, !.current = {c}]
  IN  /\ step = "load"
      /\ c \in task.ids
      /\ Chosen(work.fallback, keyring, c) # NoToken
      /\ token <= MaxToken
      /\ issued' = token
      /\ received' = [received EXCEPT ![c] = token]
      /\ interrupted' = interrupted \ {c}
      /\ \/ /\ work.fallback[c] = NoToken
            /\ keyring' = [keyring EXCEPT ![c] = token]
            /\ kept' = [kept EXCEPT ![c] = token]
            /\ Save(work, tsk, "load")
         \/ /\ Save(work, tsk, "load")
            /\ UNCHANGED <<keyring, kept>>
      /\ UNCHANGED <<state, credentials, config>>

\* EVE answers with a new token, which replaces the old one where that was
\* kept; when the credential store refuses it, it becomes a fallback.
RotateToken(c) ==
  LET token == issued + 1
      tsk == [task EXCEPT !.ids = @ \ {c}, !.current = {c}]
  IN  /\ step = "load"
      /\ c \in task.ids
      /\ Chosen(work.fallback, keyring, c) # NoToken
      /\ token <= MaxToken
      /\ issued' = token
      /\ received' = [received EXCEPT ![c] = token]
      /\ interrupted' = interrupted \ {c}
      /\ \/ /\ work.fallback[c] = NoToken
            /\ keyring' = [keyring EXCEPT ![c] = token]
            /\ kept' = [kept EXCEPT ![c] = token]
            /\ Save(work, tsk, "load")
         \/ /\ Save(WithFallback(work, c, token), tsk, "load")
            /\ UNCHANGED <<keyring, kept>>
      /\ UNCHANGED <<state, credentials, config>>

\* However the rest of the refresh went, it ends with a save.
FinishRefresh ==
  /\ step = "load"
  /\ Save(work, [task EXCEPT !.current = {}], "idle")
  /\ UNCHANGED <<files, issued, received, kept, interrupted>>

-----------------------------------------------------------------------------
(* Other operations *)

\* config set, through set_refresh_interval or set_show_protected.
SetConfig(setting) ==
  /\ Begin("set")
  /\ Save([Loaded EXCEPT !.setting = setting], [NoTask EXCEPT !.kind = "set"], "idle")
  /\ UNCHANGED <<files, issued, received, kept, interrupted>>

\* Any operation that changes other parts of the store, such as a post.
EditStore ==
  /\ Begin("edit")
  /\ Save(Loaded, [NoTask EXCEPT !.kind = "edit"], "idle")
  /\ UNCHANGED <<files, issued, received, kept, interrupted>>

-----------------------------------------------------------------------------
(* The environment *)

Crash ==
  /\ CanCrash
  /\ step # "idle"
  /\ End
  /\ interrupted' = interrupted \cup task.current
  /\ UNCHANGED <<files, issued, received, kept>>

\* The user edits the config file, which takes no lock.
EditConfig(contents) ==
  /\ "config" \in Operation
  /\ config' = contents
  /\ UNCHANGED <<state, credentials, keyring, step, work, task, issued, received, kept, interrupted>>

-----------------------------------------------------------------------------
SaveStep == SaveCredentials \/ SaveConfig \/ SaveState \/ SaveFails

CharacterStep ==
  \/ AuthorizationFails
  \/ TokenNotStored
  \/ BeginMigrate
  \/ EndMigrate
  \/ \E c \in Character :
       \/ BeginAuthenticate(c)
       \/ Authorized(c)
       \/ TokenStored(c)
       \/ BeginRemove(c)
       \/ DeleteToken(c)
       \/ MoveToken(c)
       \/ MoveFails(c)

RefreshStep == BeginRefresh \/ FinishRefresh \/ \E c \in Character : RotateToken(c)

OtherStep ==
  \/ \E setting \in Setting : SetConfig(setting)
  \/ EditStore
  \/ Crash
  \/ \E contents \in Setting \cup {Malformed} : EditConfig(contents)

Next == SaveStep \/ CharacterStep \/ RefreshStep \/ OtherStep

Spec == Init /\ [][Next]_vars

-----------------------------------------------------------------------------
(* Properties *)

\* As long as a character is not removed, a load finds the last of its tokens
\* that was ever made durable, in the file or in the credential store: no
\* stale fallback hides a newer token and no fallback is dropped before the
\* credential store has it, wherever a save stopped (characters.rs
\* authenticate and migrate_refresh_tokens, auth.rs access_token).
TokenKept ==
  \A c \in state : kept[c] # NoToken => Chosen(credentials, keyring, c) = kept[c]

(* The inductive invariant behind TokenKept, about a running operation.      *)

\* A token the working copy leaves to the credential store is there.
StoredIsKept ==
  step # "idle" =>
    \A c \in work.characters :
       work.fallback[c] = NoToken /\ kept[c] # NoToken => keyring[c] = kept[c]

\* Only a removal drops a character, and then its token is given up.
DroppedIsGivenUp ==
  /\ step # "idle" => \A c \in state \ work.characters : kept[c] = NoToken
  /\ task.kind = "remove" =>
       \A c \in task.current : c \notin work.characters /\ kept[c] = NoToken

\* Once a save wrote the credentials they are those of the working copy.
SavedIsKept ==
  step \in {"config", "state"} =>
    /\ credentials = Fallbacks(work)
    /\ \A c \in work.characters : work.fallback[c] # NoToken => kept[c] = work.fallback[c]

\* Between saves, an operation that stores tokens works on what is saved.
WorkIsSaved ==
  step \in {"keyring", "move", "load"} =>
    \A c \in work.characters : credentials[c] = work.fallback[c]

\* The characters an operation visits are in its working copy, and it goes on
\* after a save where its kind does.
VisitsItsOwn ==
  /\ step \notin {"idle", "authorize"} /\ task.kind # "remove" =>
       task.ids \cup task.current \subseteq work.characters
  /\ step = "authorize" => task.ids = {} /\ task.kind # "remove"
  /\ step # "idle" => task.then \in {"idle", "keyring", "delete", "move", "load"}
  /\ step = "delete" \/ task.then = "delete" => task.kind = "remove"
  /\ step \in {"keyring", "move", "load"} \/ task.then \in {"keyring", "move", "load"} =>
       task.kind # "remove"

KeptInv ==
  /\ TypeOK
  /\ TokenKept
  /\ StoredIsKept
  /\ DroppedIsGivenUp
  /\ SavedIsKept
  /\ WorkIsSaved
  /\ VisitsItsOwn

\* Unless the operation that accepted the last token of a character died or could
\* not write, that token is the one the next operation finds, whatever the
\* credential store refused and however operations on other characters ended.
TokenIsNewest ==
  step = "idle" =>
    \A c \in state \ interrupted : Chosen(credentials, keyring, c) = received[c]

(* The inductive invariant behind TokenIsNewest.                             *)

KeptIsNewest(c) == received[c] # NoToken /\ kept[c] = received[c]

\* Between operations, and as long as one has not changed its characters, the
\* last token of each is durable.
NewestOfState ==
  step \in {"idle", "authorize", "delete"} =>
    \A c \in state \ interrupted : KeptIsNewest(c)

\* In an operation too, except for a token that is about to be written.
NewestOfWork ==
  step # "idle" =>
    \A c \in work.characters \ interrupted :
       \/ KeptIsNewest(c)
       \/ step = "credentials" /\ c \in task.current /\ work.fallback[c] # NoToken

\* No fallback is stale.
FallbackIsNewest ==
  step # "idle" =>
    \A c \in work.characters \ interrupted :
       work.fallback[c] # NoToken => work.fallback[c] = received[c]

\* Only a removal drops a character, and tokens are only moved where there are.
WorkCovers ==
  /\ step = "authorize" => work.characters = state
  /\ step \notin {"idle", "authorize", "delete"} =>
       state \ work.characters \subseteq (IF task.kind = "remove" THEN task.current ELSE {})
  /\ step = "move" \/ task.then = "move" => \A c \in task.ids : work.fallback[c] # NoToken
  /\ step = "keyring" \/ task.then = "keyring" =>
       \A c \in task.current : work.fallback[c] # NoToken

NewestInv == NewestOfState /\ NewestOfWork /\ FallbackIsNewest /\ WorkCovers

IInv == KeptInv /\ NewestInv

=============================================================================
