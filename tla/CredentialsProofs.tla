------------------------- MODULE CredentialsProofs -------------------------
(***************************************************************************)
(* For every instance of Credentials: types are kept, and no token that    *)
(* was made durable is lost while its character is kept (TokenKept).       *)
(***************************************************************************)
EXTENDS Credentials, TLAPS

\* What no step of an operation that neither saves nor stores a token changes.
Quiet == UNCHANGED <<state, credentials, keyring, kept>>

-----------------------------------------------------------------------------
(* Types *)

LEMMA LoadedType == ASSUME TypeOK PROVE Loaded \in Store
BY DEF TypeOK, Loaded, Store, Token, NoToken

LEMMA FallbacksType ==
  ASSUME NEW s \in Store PROVE Fallbacks(s) \in [Character -> Token]
BY DEF Store, Fallbacks, Token, NoToken

LEMMA FallbackType ==
  ASSUME NEW s \in Store, NEW c \in Character, NEW token \in Nat
  PROVE  WithFallback(s, c, token) \in Store
BY DEF WithFallback, Store, Token

LEMMA EndType == ASSUME End PROVE step' \in Step /\ work' \in Store /\ task' \in Task
BY DEF End, Step, EmptyStore, Store, NoTask, Task, Kind, Token, NoToken

LEMMA SaveType ==
  ASSUME NEW s \in Store, NEW tsk \in Task, NEW then \in Step, Save(s, tsk, then)
  PROVE  step' \in Step /\ work' \in Store /\ task' \in Task
BY DEF Save, Step, Task

LEMMA TypeInductive == ASSUME TypeOK, [Next]_vars PROVE TypeOK'
<1> USE DEF Token, NoToken
<1>0. /\ NoTask \in Task /\ Loaded \in Store /\ work \in Store /\ task \in Task
      /\ task.current \subseteq Character
  BY LoadedType DEF TypeOK, NoTask, Task, Kind, Step
<1>1. CASE UNCHANGED vars
  BY <1>1 DEF vars, TypeOK
<1>2. CASE SaveStep
  <2>1. CASE SaveCredentials
    BY <2>1, <1>0, FallbacksType DEF SaveCredentials, TypeOK, Durable, Step
  <2>2. CASE SaveConfig
    BY <2>2, <1>0 DEF SaveConfig, TypeOK, Step, Store
  <2>3. CASE SaveState
    <3>1. work.characters \in SUBSET Character /\ task.then \in Step
      BY <1>0 DEF Store, Task
    <3> QED
      BY <2>3, <3>1, EndType DEF SaveState, TypeOK
  <2>4. CASE SaveFails
    <3>1. [task EXCEPT !.current = {}] \in Task /\ "idle" \in Step
      BY <1>0 DEF Task, Step
    <3> QED
      BY <2>4, <3>1, <1>0, EndType, SaveType DEF SaveFails, TypeOK, files
  <2> QED
    BY <1>2, <2>1, <2>2, <2>3, <2>4 DEF SaveStep
<1>3. CASE CharacterStep
  <2>1. CASE AuthorizationFails \/ TokenNotStored \/ EndMigrate
    BY <2>1, EndType DEF AuthorizationFails, TokenNotStored, EndMigrate, TypeOK, files
  <2>2. CASE BeginMigrate
    BY <2>2, <1>0 DEF BeginMigrate, TypeOK, files, Task, Kind, Step
  <2>3. ASSUME NEW c \in Character, BeginAuthenticate(c) PROVE TypeOK'
    BY <2>3, <1>0 DEF BeginAuthenticate, TypeOK, files, Task, Kind, Step
  <2>4. ASSUME NEW c \in Character, Authorized(c) PROVE TypeOK'
    <3>1. WithFallback(work, c, issued + 1) \in Store /\ issued + 1 \in Nat
      BY <1>0, FallbackType DEF TypeOK
    <3>3. [WithFallback(work, c, issued + 1) EXCEPT !.characters = @ \cup {c}] \in Store
      BY <3>1 DEF Store
    <3> QED
      BY <2>4, <3>1, <3>3, <1>0, SaveType DEF Authorized, TypeOK, files, Step
  <2>5. ASSUME NEW c \in Character, TokenStored(c) \/ MoveToken(c) PROVE TypeOK'
    <3>1. WithFallback(work, c, NoToken) \in Store /\ work.fallback[c] \in Token
      BY <1>0, FallbackType DEF Store
    <3>2. [task EXCEPT !.ids = @ \ {c}] \in Task
      BY <1>0 DEF Task
    <3> QED
      BY <2>5, <3>1, <3>2, <1>0, SaveType DEF TokenStored, MoveToken, TypeOK, Step
  <2>6. ASSUME NEW c \in Character, BeginRemove(c) PROVE TypeOK'
    <3>1. [Loaded EXCEPT !.characters = @ \ {c}] \in Store
      BY <1>0 DEF Store
    <3>2. [NoTask EXCEPT !.kind = "remove", !.current = {c}] \in Task
      BY <1>0 DEF Task, Kind
    <3>3. (IF credentials[c] # NoToken THEN "idle" ELSE "delete") \in Step
      BY DEF Step
    <3> QED
      BY <2>6, <3>1, <3>2, <3>3, SaveType DEF BeginRemove, TypeOK, files
  <2>7. ASSUME NEW c \in Character, DeleteToken(c) PROVE TypeOK'
    BY <2>7, EndType DEF DeleteToken, TypeOK
  <2>8. ASSUME NEW c \in Character, MoveFails(c) PROVE TypeOK'
    BY <2>8, <1>0 DEF MoveFails, TypeOK, files, Task
  <2> QED
    BY <1>3, <2>1, <2>2, <2>3, <2>4, <2>5, <2>6, <2>7, <2>8 DEF CharacterStep
<1>4. CASE RefreshStep
  <2>1. CASE BeginRefresh
    <3>1. [NoTask EXCEPT !.kind = "refresh", !.ids = state] \in Task /\ "load" \in Step
      BY <1>0 DEF Task, Kind, Step, TypeOK
    <3> QED
      BY <2>1, <3>1, <1>0, SaveType DEF BeginRefresh, TypeOK, files
  <2>2. CASE FinishRefresh
    <3>1. [task EXCEPT !.current = {}] \in Task /\ "idle" \in Step
      BY <1>0 DEF Task, Step
    <3> QED
      BY <2>2, <3>1, <1>0, SaveType DEF FinishRefresh, TypeOK, files
  <2>3. ASSUME NEW c \in Character, RotateToken(c) PROVE TypeOK'
    <3>1. WithFallback(work, c, issued + 1) \in Store
      BY <1>0, FallbackType DEF TypeOK
    <3>2. [task EXCEPT !.ids = @ \ {c}, !.current = {c}] \in Task /\ "load" \in Step
      BY <1>0 DEF Task, Step
    <3> QED
      BY <2>3, <3>1, <3>2, <1>0, SaveType DEF RotateToken, TypeOK
  <2> QED
    BY <1>4, <2>1, <2>2, <2>3 DEF RefreshStep
<1>5. CASE OtherStep
  <2>1. ASSUME NEW setting \in Setting, SetConfig(setting) PROVE TypeOK'
    <3>1. [Loaded EXCEPT !.setting = setting] \in Store
      BY <1>0 DEF Store
    <3>2. [NoTask EXCEPT !.kind = "set"] \in Task /\ "idle" \in Step
      BY <1>0 DEF Task, Kind, Step
    <3> QED
      BY <2>1, <3>1, <3>2, SaveType DEF SetConfig, TypeOK, files
  <2>2. CASE EditStore
    <3>1. [NoTask EXCEPT !.kind = "edit"] \in Task /\ "idle" \in Step
      BY <1>0 DEF Task, Kind, Step
    <3> QED
      BY <2>2, <3>1, <1>0, SaveType DEF EditStore, TypeOK, files
  <2>3. CASE Crash
    BY <2>3, <1>0, EndType DEF Crash, TypeOK, files
  <2>4. ASSUME NEW contents \in Setting \cup {Malformed}, EditConfig(contents) PROVE TypeOK'
    BY <2>4 DEF EditConfig, TypeOK
  <2> QED
    BY <1>5, <2>1, <2>2, <2>3, <2>4 DEF OtherStep
<1> QED
  BY <1>1, <1>2, <1>3, <1>4, <1>5 DEF Next

-----------------------------------------------------------------------------
(* Kept tokens.  An operation that ends leaves nothing to say, one *)
(* that begins works on what the files hold, and one that goes on to a save    *)
(* has changed its working copy only where a token is not kept elsewhere.      *)

LEMMA EndKeeps == ASSUME KeptInv, TypeOK', Quiet, End PROVE KeptInv'
<1> USE DEF Quiet, End
<1>1. TokenKept'
  BY DEF KeptInv, TokenKept, Chosen
<1>2. StoredIsKept' /\ DroppedIsGivenUp' /\ SavedIsKept' /\ WorkIsSaved' /\ VisitsItsOwn'
  BY DEF StoredIsKept, DroppedIsGivenUp, SavedIsKept, WorkIsSaved, VisitsItsOwn, NoTask
<1> QED
  BY <1>1, <1>2 DEF KeptInv

LEMMA BeginKeeps ==
  ASSUME KeptInv, TypeOK', Quiet,
         step' \in {"authorize", "credentials", "move"},
         work'.characters = state, work'.fallback = Loaded.fallback,
         task'.kind # "remove",
         step' = "authorize" => task'.ids = {},
         step' # "authorize" => task'.ids \cup task'.current \subseteq state,
         task'.then \in {"idle", "load"}
  PROVE  KeptInv'
<1> USE DEF Quiet
<1>1. TokenKept'
  BY DEF KeptInv, TokenKept, Chosen
<1>2. \A c \in state : work'.fallback[c] = credentials[c]
  BY DEF Loaded, KeptInv, TypeOK
<1>3. StoredIsKept'
  BY <1>1, <1>2 DEF StoredIsKept, TokenKept, Chosen
<1>4. DroppedIsGivenUp' /\ SavedIsKept' /\ WorkIsSaved'
  BY <1>2 DEF DroppedIsGivenUp, SavedIsKept, WorkIsSaved
<1>5. VisitsItsOwn'
  BY DEF VisitsItsOwn
<1> QED
  BY <1>1, <1>3, <1>4, <1>5 DEF KeptInv

\* An operation that was between two writes saves the same working copy again.
LEMMA SaveAgainKeeps ==
  ASSUME KeptInv, TypeOK', Quiet, step # "idle", step # "authorize", task.kind # "remove",
         Save(work, [task EXCEPT !.current = {}], "idle")
  PROVE  KeptInv'
<1> USE DEF Quiet, Save
<1>1. /\ task'.kind = task.kind /\ task'.ids = task.ids
      /\ task'.current = {} /\ task'.then = "idle"
  BY DEF KeptInv, TypeOK, Task
<1>2. TokenKept' /\ StoredIsKept'
  BY DEF KeptInv, TokenKept, Chosen, StoredIsKept
<1>3. DroppedIsGivenUp' /\ SavedIsKept' /\ WorkIsSaved'
  BY <1>1 DEF KeptInv, DroppedIsGivenUp, SavedIsKept, WorkIsSaved
<1>4. VisitsItsOwn'
  BY <1>1 DEF KeptInv, VisitsItsOwn
<1> QED
  BY <1>2, <1>3, <1>4 DEF KeptInv

LEMMA SaveStepKeeps == ASSUME KeptInv, TypeOK', SaveStep PROVE KeptInv'
<1>1. CASE SaveCredentials
  <2> USE <1>1 DEF SaveCredentials
  <2>1. \A c \in Character :
          /\ c \in work.characters =>
               /\ credentials'[c] = work.fallback[c]
               /\ kept'[c] = IF work.fallback[c] # NoToken THEN work.fallback[c] ELSE kept[c]
          /\ c \notin work.characters => credentials'[c] = NoToken /\ kept'[c] = kept[c]
    BY DEF Fallbacks, Durable
  <2>2. work.characters \subseteq Character /\ state \subseteq Character
        /\ task.current \subseteq Character
    BY DEF KeptInv, TypeOK, Store, Task
  <2>3. TokenKept'
    BY <2>1, <2>2 DEF KeptInv, StoredIsKept, DroppedIsGivenUp, TokenKept, Chosen
  <2>4. StoredIsKept' /\ SavedIsKept'
    BY <2>1, <2>2 DEF KeptInv, StoredIsKept, SavedIsKept, Fallbacks
  <2>5. DroppedIsGivenUp'
    BY <2>1, <2>2 DEF KeptInv, DroppedIsGivenUp
  <2>6. WorkIsSaved' /\ VisitsItsOwn'
    BY DEF KeptInv, WorkIsSaved, VisitsItsOwn
  <2> QED
    BY <2>3, <2>4, <2>5, <2>6 DEF KeptInv
<1>2. CASE SaveConfig
  BY <1>2 DEF SaveConfig, KeptInv, TokenKept, Chosen, StoredIsKept, DroppedIsGivenUp,
              SavedIsKept, Fallbacks, WorkIsSaved, VisitsItsOwn
<1>3. CASE SaveState
  <2> USE <1>3 DEF SaveState
  <2>1. \A c \in work.characters : credentials[c] = work.fallback[c]
    BY DEF KeptInv, SavedIsKept, Fallbacks, TypeOK, Store
  <2>2. TokenKept'
    BY <2>1 DEF KeptInv, SavedIsKept, StoredIsKept, TokenKept, Chosen
  <2>3. CASE task.then = "idle"
    BY <2>2, <2>3 DEF End, KeptInv, StoredIsKept, DroppedIsGivenUp, SavedIsKept, WorkIsSaved,
                      VisitsItsOwn, NoTask
  <2>4. CASE task.then # "idle"
    <3>1. step' = task.then /\ UNCHANGED <<work, task, credentials, keyring, kept>>
      BY <2>4
    <3>2. step' \in {"keyring", "delete", "move", "load"}
      BY <2>4, <3>1 DEF KeptInv, VisitsItsOwn
    <3>3. StoredIsKept' /\ DroppedIsGivenUp' /\ SavedIsKept'
      BY <3>1, <3>2 DEF KeptInv, StoredIsKept, DroppedIsGivenUp, SavedIsKept
    <3>4. WorkIsSaved' /\ VisitsItsOwn'
      BY <2>1, <3>1, <3>2 DEF KeptInv, WorkIsSaved, VisitsItsOwn
    <3> QED
      BY <2>2, <3>3, <3>4 DEF KeptInv
  <2> QED
    BY <2>3, <2>4
<1>4. CASE SaveFails
  <2>1. Quiet
    BY <1>4 DEF SaveFails, Quiet, files
  <2>2. CASE task.kind = "refresh" /\ task.current # {}
    BY <1>4, <2>1, <2>2, SaveAgainKeeps DEF SaveFails
  <2>3. CASE ~(task.kind = "refresh" /\ task.current # {})
    BY <1>4, <2>1, <2>3, EndKeeps DEF SaveFails
  <2> QED
    BY <2>2, <2>3
<1> QED
  BY <1>1, <1>2, <1>3, <1>4 DEF SaveStep

\* A token moves from the working copy to the credential store.
LEMMA TokenMovesKeeps ==
  ASSUME KeptInv, TypeOK', NEW c \in Character,
         step \in {"keyring", "move"}, c \in work.characters, task.kind # "remove",
         keyring' = [keyring EXCEPT ![c] = work.fallback[c]],
         kept' = [kept EXCEPT ![c] = work.fallback[c]],
         work' = WithFallback(work, c, NoToken), step' = "credentials",
         task'.kind = task.kind, task'.ids \cup task'.current \subseteq work.characters,
         task'.then \in {"idle", "move"},
         UNCHANGED <<state, credentials>>
  PROVE  KeptInv'
<1>1. /\ work'.characters = work.characters
      /\ work'.fallback = [work.fallback EXCEPT ![c] = NoToken]
  BY DEF WithFallback, KeptInv, TypeOK, Store
<1>2. /\ keyring'[c] = work.fallback[c] /\ kept'[c] = work.fallback[c]
      /\ \A d \in Character \ {c} : keyring'[d] = keyring[d] /\ kept'[d] = kept[d]
  BY DEF KeptInv, TypeOK
<1>3. state \subseteq Character /\ work.characters \subseteq Character
  BY DEF KeptInv, TypeOK, Store
<1>4. TokenKept'
  <2>1. credentials[c] = work.fallback[c]
    BY DEF KeptInv, WorkIsSaved
  <2> QED
    BY <1>2, <1>3, <2>1 DEF KeptInv, TokenKept, Chosen
<1>5. StoredIsKept'
  <2>1. \A d \in work.characters \ {c} : work'.fallback[d] = work.fallback[d]
    BY <1>1, <1>3 DEF KeptInv, TypeOK, Store
  <2> QED
    BY <1>1, <1>2, <1>3, <2>1 DEF KeptInv, StoredIsKept
<1>6. DroppedIsGivenUp' /\ SavedIsKept' /\ WorkIsSaved' /\ VisitsItsOwn'
  BY <1>1, <1>2, <1>3 DEF KeptInv, DroppedIsGivenUp, SavedIsKept, WorkIsSaved, VisitsItsOwn
<1> QED
  BY <1>4, <1>5, <1>6 DEF KeptInv

LEMMA CharacterStepKeeps == ASSUME KeptInv, TypeOK', CharacterStep PROVE KeptInv'
<1>0. /\ work \in Store /\ work.characters \subseteq Character
      /\ state \subseteq Character /\ task \in Task
  BY DEF KeptInv, TypeOK, Store
<1>1. CASE AuthorizationFails \/ TokenNotStored \/ EndMigrate
  BY <1>1, EndKeeps DEF AuthorizationFails, TokenNotStored, EndMigrate, Quiet, files
<1>2. CASE BeginMigrate
  <2>1. /\ Quiet /\ step' = "move" /\ work' = Loaded
        /\ task' = [NoTask EXCEPT !.kind = "migrate",
                                  !.ids = {c \in state : credentials[c] # NoToken}]
    BY <1>2 DEF BeginMigrate, Quiet, files
  <2>2. /\ task'.kind = "migrate" /\ task'.then = "idle" /\ task'.current = {}
        /\ task'.ids \subseteq state /\ work'.characters = state
    BY <2>1 DEF NoTask, Loaded
  <2> QED
    BY <2>1, <2>2, BeginKeeps
<1>3. ASSUME NEW c \in Character, BeginAuthenticate(c) PROVE KeptInv'
  <2>1. /\ Quiet /\ step' = "authorize" /\ work' = Loaded
        /\ task' = [NoTask EXCEPT !.kind = "authenticate", !.current = {c}]
    BY <1>3 DEF BeginAuthenticate, Quiet, files
  <2>2. task'.kind = "authenticate" /\ task'.then = "idle" /\ task'.ids = {}
        /\ work'.characters = state
    BY <2>1 DEF NoTask, Loaded
  <2> QED
    BY <2>1, <2>2, BeginKeeps
<1>4. ASSUME NEW c \in Character, Authorized(c) PROVE KeptInv'
  <2>1. /\ step = "authorize" /\ task.current = {c} /\ step' = "credentials"
        /\ Quiet /\ task' = [task EXCEPT !.then = "keyring"]
        /\ work' = [WithFallback(work, c, issued + 1) EXCEPT !.characters = @ \cup {c}]
    BY <1>4 DEF Authorized, Save, Quiet, files
  <2>2. /\ work'.characters = work.characters \cup {c}
        /\ work'.fallback[c] = issued + 1 /\ issued + 1 # NoToken
        /\ \A d \in Character \ {c} : work'.fallback[d] = work.fallback[d]
        /\ task'.kind = task.kind /\ task'.ids = task.ids
        /\ task'.current = {c} /\ task'.then = "keyring"
    BY <2>1, <1>0 DEF WithFallback, Store, Task, KeptInv, TypeOK, NoToken
  <2>3. TokenKept'
    BY <2>1 DEF Quiet, KeptInv, TokenKept, Chosen
  <2>4. StoredIsKept'
    BY <2>1, <2>2, <1>0 DEF Quiet, KeptInv, StoredIsKept
  <2>5. task.kind # "remove" /\ task.ids \subseteq work.characters
    BY <2>1 DEF KeptInv, VisitsItsOwn
  <2>6. DroppedIsGivenUp' /\ SavedIsKept' /\ WorkIsSaved' /\ VisitsItsOwn'
    BY <2>1, <2>2, <2>5 DEF Quiet, KeptInv, DroppedIsGivenUp, SavedIsKept, WorkIsSaved, VisitsItsOwn
  <2> QED
    BY <2>3, <2>4, <2>6 DEF KeptInv
<1>5. ASSUME NEW c \in Character, TokenStored(c) PROVE KeptInv'
  <2>1. /\ task.kind # "remove" /\ c \in work.characters
        /\ task.ids \cup task.current \subseteq work.characters
    BY <1>5 DEF TokenStored, KeptInv, VisitsItsOwn
  <2>2. /\ task'.kind = task.kind /\ task'.ids = task.ids /\ task'.current = task.current
        /\ task'.then = "idle"
    BY <1>5, <1>0 DEF TokenStored, Save, Task
  <2> QED
    BY <1>5, <2>1, <2>2, TokenMovesKeeps DEF TokenStored, Save
<1>6. ASSUME NEW c \in Character, BeginRemove(c) PROVE KeptInv'
  <2> DEFINE rest == IF credentials[c] # NoToken THEN "idle" ELSE "delete"
  <2>1. /\ step' = "credentials" /\ UNCHANGED <<state, credentials, keyring>>
        /\ work' = [Loaded EXCEPT !.characters = @ \ {c}]
        /\ task' = [[NoTask EXCEPT !.kind = "remove", !.current = {c}] EXCEPT !.then = rest]
        /\ kept' = [kept EXCEPT ![c] = NoToken]
    BY <1>6 DEF BeginRemove, Save, files
  <2>2. /\ work'.characters = state \ {c}
        /\ \A d \in state : work'.fallback[d] = credentials[d]
        /\ kept'[c] = NoToken /\ \A d \in Character \ {c} : kept'[d] = kept[d]
        /\ task'.kind = "remove" /\ task'.current = {c} /\ task'.ids = {}
        /\ task'.then \in {"idle", "delete"}
    BY <2>1, <1>0 DEF Loaded, NoTask, KeptInv, TypeOK
  <2>3. TokenKept'
    BY <2>1, <2>2, <1>0 DEF KeptInv, TokenKept, Chosen
  <2>4. StoredIsKept'
    BY <2>1, <2>2, <1>0 DEF KeptInv, TokenKept, Chosen, StoredIsKept
  <2>5. DroppedIsGivenUp' /\ SavedIsKept' /\ WorkIsSaved'
    BY <2>1, <2>2, <1>0 DEF DroppedIsGivenUp, SavedIsKept, WorkIsSaved
  <2>6. VisitsItsOwn'
    BY <2>1, <2>2 DEF VisitsItsOwn
  <2> QED
    BY <2>3, <2>4, <2>5, <2>6 DEF KeptInv
<1>7. ASSUME NEW c \in Character, DeleteToken(c) PROVE KeptInv'
  <2>1. /\ step = "delete" /\ task.current = {c} /\ step' = "idle" /\ task' = NoTask
        /\ UNCHANGED <<state, credentials, kept>>
        /\ \A d \in Character \ {c} : keyring'[d] = keyring[d]
    BY <1>7 DEF DeleteToken, End, KeptInv, TypeOK
  <2>2. kept[c] = NoToken
    BY <2>1 DEF KeptInv, VisitsItsOwn, DroppedIsGivenUp
  <2>3. TokenKept'
    BY <2>1, <2>2, <1>0 DEF KeptInv, TokenKept, Chosen
  <2>4. StoredIsKept' /\ DroppedIsGivenUp' /\ SavedIsKept' /\ WorkIsSaved' /\ VisitsItsOwn'
    BY <2>1 DEF StoredIsKept, DroppedIsGivenUp, SavedIsKept, WorkIsSaved, VisitsItsOwn, NoTask
  <2> QED
    BY <2>3, <2>4 DEF KeptInv
<1>8. ASSUME NEW c \in Character, MoveToken(c) PROVE KeptInv'
  <2>1. /\ task.kind # "remove" /\ c \in work.characters
        /\ task.ids \cup task.current \subseteq work.characters
    BY <1>8 DEF MoveToken, KeptInv, VisitsItsOwn
  <2>2. /\ task'.kind = task.kind /\ task'.ids = task.ids \ {c}
        /\ task'.current = task.current /\ task'.then = "move"
    BY <1>8, <1>0 DEF MoveToken, Save, Task
  <2> QED
    BY <1>8, <2>1, <2>2, TokenMovesKeeps DEF MoveToken, Save
<1>9. ASSUME NEW c \in Character, MoveFails(c) PROVE KeptInv'
  <2>1. /\ Quiet /\ UNCHANGED <<step, work>> /\ task'.kind = task.kind
        /\ task'.ids = task.ids \ {c} /\ task'.current = task.current
        /\ task'.then = task.then
    BY <1>9, <1>0 DEF MoveFails, Quiet, files, Task
  <2>2. TokenKept' /\ StoredIsKept'
    BY <2>1 DEF Quiet, KeptInv, TokenKept, Chosen, StoredIsKept
  <2>3. DroppedIsGivenUp' /\ SavedIsKept' /\ WorkIsSaved' /\ VisitsItsOwn'
    BY <2>1 DEF Quiet, KeptInv, DroppedIsGivenUp, SavedIsKept, Fallbacks, WorkIsSaved, VisitsItsOwn
  <2> QED
    BY <2>2, <2>3 DEF KeptInv
<1> QED
  BY <1>1, <1>2, <1>3, <1>4, <1>5, <1>6, <1>7, <1>8, <1>9 DEF CharacterStep

LEMMA RefreshStepKeeps == ASSUME KeptInv, TypeOK', RefreshStep PROVE KeptInv'
<1>0. /\ work \in Store /\ work.characters \subseteq Character
      /\ state \subseteq Character /\ task \in Task
  BY DEF KeptInv, TypeOK, Store
<1>1. CASE BeginRefresh
  <2>1. /\ Quiet /\ step' = "credentials" /\ work' = Loaded
        /\ task' = [[NoTask EXCEPT !.kind = "refresh", !.ids = state] EXCEPT !.then = "load"]
    BY <1>1 DEF BeginRefresh, Save, Quiet, files
  <2>2. /\ task'.kind = "refresh" /\ task'.then = "load" /\ task'.current = {}
        /\ task'.ids = state /\ work'.characters = state
    BY <2>1 DEF NoTask, Loaded
  <2> QED
    BY <2>1, <2>2, BeginKeeps
<1>2. CASE FinishRefresh
  <2>1. task.kind # "remove"
    BY <1>2 DEF FinishRefresh, KeptInv, VisitsItsOwn
  <2> QED
    BY <1>2, <2>1, SaveAgainKeeps DEF FinishRefresh, Quiet, files
<1>3. ASSUME NEW c \in Character, RotateToken(c) PROVE KeptInv'
  <2> DEFINE token == issued + 1
             tsk == [task EXCEPT !.ids = @ \ {c}, !.current = {c}]
  <2>1. /\ step = "load" /\ c \in task.ids /\ token # NoToken
        /\ UNCHANGED <<state, credentials>>
    BY <1>3 DEF RotateToken, KeptInv, TypeOK, NoToken
  <2>2. /\ task.kind # "remove" /\ c \in work.characters
        /\ task.ids \subseteq work.characters
    BY <2>1 DEF KeptInv, VisitsItsOwn
  <2>3. /\ step' = "credentials" /\ task' = [tsk EXCEPT !.then = "load"]
        /\ work'.characters = work.characters
        /\ \A d \in Character \ {c} : /\ keyring'[d] = keyring[d]
                                      /\ kept'[d] = kept[d]
                                      /\ work'.fallback[d] = work.fallback[d]
    BY <1>3, <1>0 DEF RotateToken, Save, WithFallback, Store, KeptInv, TypeOK
  <2>4. /\ task'.kind = task.kind /\ task'.ids = task.ids \ {c}
        /\ task'.current = {c} /\ task'.then = "load"
    BY <2>3, <1>0 DEF Task
  <2>5. \/ /\ work'.fallback[c] = NoToken /\ credentials[c] = NoToken
           /\ keyring'[c] = token /\ kept'[c] = token
        \/ /\ work'.fallback[c] = token
           /\ keyring'[c] = keyring[c] /\ kept'[c] = kept[c]
    <3>1. credentials[c] = work.fallback[c]
      BY <2>1, <2>2 DEF KeptInv, WorkIsSaved
    <3> QED
      BY <1>3, <3>1, <1>0 DEF RotateToken, Save, WithFallback, Store, KeptInv, TypeOK
  <2> HIDE DEF token, tsk
  <2>6. TokenKept'
    BY <2>1, <2>3, <2>5, <1>0 DEF KeptInv, TokenKept, Chosen
  <2>7. StoredIsKept'
    BY <2>1, <2>3, <2>5, <1>0 DEF KeptInv, StoredIsKept
  <2>8. DroppedIsGivenUp' /\ SavedIsKept' /\ WorkIsSaved'
    BY <2>1, <2>2, <2>3, <2>4, <1>0 DEF KeptInv, DroppedIsGivenUp, SavedIsKept, WorkIsSaved
  <2>9. VisitsItsOwn'
    BY <2>2, <2>3, <2>4 DEF VisitsItsOwn
  <2> QED
    BY <2>6, <2>7, <2>8, <2>9 DEF KeptInv
<1> QED
  BY <1>1, <1>2, <1>3 DEF RefreshStep

LEMMA OtherStepKeeps == ASSUME KeptInv, TypeOK', OtherStep PROVE KeptInv'
<1>1. ASSUME NEW setting \in Setting, SetConfig(setting) PROVE KeptInv'
  <2>1. /\ Quiet /\ step' = "credentials"
        /\ work' = [Loaded EXCEPT !.setting = setting]
        /\ task' = [[NoTask EXCEPT !.kind = "set"] EXCEPT !.then = "idle"]
    BY <1>1 DEF SetConfig, Save, Quiet, files
  <2>2. /\ task'.kind = "set" /\ task'.then = "idle" /\ task'.current = {} /\ task'.ids = {}
        /\ work'.characters = state /\ work'.fallback = Loaded.fallback
    BY <2>1 DEF NoTask, Loaded
  <2> QED
    BY <2>1, <2>2, BeginKeeps
<1>2. CASE EditStore
  <2>1. /\ Quiet /\ step' = "credentials" /\ work' = Loaded
        /\ task' = [[NoTask EXCEPT !.kind = "edit"] EXCEPT !.then = "idle"]
    BY <1>2 DEF EditStore, Save, Quiet, files
  <2>2. /\ task'.kind = "edit" /\ task'.then = "idle" /\ task'.current = {} /\ task'.ids = {}
        /\ work'.characters = state
    BY <2>1 DEF NoTask, Loaded
  <2> QED
    BY <2>1, <2>2, BeginKeeps
<1>3. CASE Crash
  BY <1>3, EndKeeps DEF Crash, Quiet, files
<1>4. ASSUME NEW contents \in Setting \cup {Malformed}, EditConfig(contents) PROVE KeptInv'
  BY <1>4 DEF EditConfig, KeptInv, TokenKept, Chosen, StoredIsKept, DroppedIsGivenUp,
              SavedIsKept, Fallbacks, WorkIsSaved, VisitsItsOwn
<1> QED
  BY <1>1, <1>2, <1>3, <1>4 DEF OtherStep

LEMMA Inductive == ASSUME KeptInv, [Next]_vars PROVE KeptInv'
<1>1. TypeOK'
  BY TypeInductive DEF KeptInv
<1>2. CASE UNCHANGED vars
  BY <1>1, <1>2 DEF vars, KeptInv, TokenKept, Chosen, StoredIsKept, DroppedIsGivenUp,
                    SavedIsKept, Fallbacks, WorkIsSaved, VisitsItsOwn
<1>3. CASE Next
  BY <1>1, <1>3, SaveStepKeeps, CharacterStepKeeps, RefreshStepKeeps, OtherStepKeeps DEF Next
<1> QED
  BY <1>2, <1>3

-----------------------------------------------------------------------------
(* The newest tokens.  The same cases once more, now about what was received.  *)

LEMMA EndNewest ==
  ASSUME KeptInv, NewestInv, TypeOK', End, step # "idle",
         UNCHANGED <<state, received, kept>>,
         \/ step \in {"authorize", "delete", "keyring", "move"} /\ interrupted' = interrupted
         \/ interrupted' = interrupted \cup task.current
  PROVE  NewestInv'
<1> USE DEF End, KeptIsNewest
<1>1. CASE step \in {"authorize", "delete"}
  BY <1>1 DEF NewestInv, NewestOfState, NewestOfWork, FallbackIsNewest, WorkCovers, NoTask
<1>2. CASE step \notin {"authorize", "delete"}
  <2>1. \A c \in state \ interrupted' : c \in work.characters \ interrupted /\ KeptIsNewest(c)
    BY <1>2 DEF NewestInv, NewestOfWork, WorkCovers, KeptInv, VisitsItsOwn
  <2> QED
    BY <2>1 DEF NewestInv, NewestOfState, NewestOfWork, FallbackIsNewest, WorkCovers, NoTask
<1> QED
  BY <1>1, <1>2

LEMMA BeginNewest ==
  ASSUME KeptInv, NewestInv, TypeOK', step = "idle",
         UNCHANGED <<state, received, interrupted>>,
         step' \in {"authorize", "credentials", "move"},
         work'.characters \subseteq state, work'.fallback = Loaded.fallback,
         \A c \in work'.characters : kept'[c] = kept[c],
         step' = "authorize" => work'.characters = state,
         state \ work'.characters \subseteq (IF task'.kind = "remove" THEN task'.current ELSE {}),
         step' = "move" => \A c \in task'.ids : c \in state /\ credentials[c] # NoToken,
         task'.then \notin {"move", "keyring"}
  PROVE  NewestInv'
<1>1. \A c \in state : work'.fallback[c] = credentials[c]
  BY DEF Loaded, KeptInv, TypeOK
<1>2. \A c \in work'.characters \ interrupted' : KeptIsNewest(c) /\ KeptIsNewest(c)'
  BY DEF NewestInv, NewestOfState, KeptIsNewest
<1>3. NewestOfState' /\ NewestOfWork'
  BY <1>2 DEF NewestOfState, NewestOfWork
<1>4. FallbackIsNewest'
  BY <1>1, <1>2 DEF FallbackIsNewest, KeptIsNewest, KeptInv, TokenKept, Chosen
<1>5. WorkCovers'
  BY <1>1 DEF WorkCovers
<1> QED
  BY <1>3, <1>4, <1>5 DEF NewestInv

LEMMA SaveAgainNewest ==
  ASSUME KeptInv, NewestInv, TypeOK', step \notin {"idle", "authorize", "delete"},
         task.kind # "remove",
         Save(work, [task EXCEPT !.current = {}], "idle"),
         UNCHANGED <<state, received, kept>>,
         \/ step # "credentials" /\ interrupted' = interrupted
         \/ interrupted' = interrupted \cup task.current
  PROVE  NewestInv'
<1>1. /\ step' = "credentials" /\ work' = work /\ task'.kind = task.kind
      /\ task'.ids = task.ids /\ task'.current = {} /\ task'.then = "idle"
  BY DEF Save, KeptInv, TypeOK, Task
<1>2. NewestOfState' /\ NewestOfWork' /\ FallbackIsNewest'
  BY <1>1 DEF NewestInv, NewestOfState, NewestOfWork, FallbackIsNewest, KeptIsNewest
<1>3. WorkCovers'
  BY <1>1 DEF NewestInv, WorkCovers
<1> QED
  BY <1>2, <1>3 DEF NewestInv

LEMMA SaveStepNewest == ASSUME KeptInv, NewestInv, TypeOK', SaveStep PROVE NewestInv'
<1>1. CASE SaveCredentials
  <2>1. /\ step = "credentials" /\ step' = "config"
        /\ UNCHANGED <<state, work, task, received, interrupted>>
        /\ \A c \in work.characters :
             kept'[c] = IF work.fallback[c] # NoToken THEN work.fallback[c] ELSE kept[c]
    BY <1>1 DEF SaveCredentials, Fallbacks, Durable, KeptInv, TypeOK, Store
  <2>2. NewestOfWork'
    BY <2>1 DEF NewestInv, NewestOfWork, FallbackIsNewest, KeptIsNewest
  <2> QED
    BY <2>1, <2>2 DEF NewestInv, NewestOfState, FallbackIsNewest, WorkCovers
<1>2. CASE SaveConfig
  BY <1>2 DEF SaveConfig, NewestInv, NewestOfState, NewestOfWork, FallbackIsNewest, WorkCovers,
              KeptIsNewest
<1>3. CASE SaveState
  <2> USE <1>3 DEF SaveState
  <2>1. \A c \in work.characters \ interrupted : KeptIsNewest(c)'
    BY DEF NewestInv, NewestOfWork, KeptIsNewest
  <2>2. CASE task.then = "idle"
    BY <2>1, <2>2 DEF End, NewestInv, NewestOfState, NewestOfWork, FallbackIsNewest,
                      WorkCovers, NoTask
  <2>3. CASE task.then # "idle"
    <3>1. step' = task.then /\ UNCHANGED <<work, task, received, interrupted>>
          /\ state' = work.characters
      BY <2>3
    <3>2. step' \in {"keyring", "delete", "move", "load"}
      BY <2>3, <3>1 DEF KeptInv, VisitsItsOwn
    <3> QED
      BY <2>1, <3>1, <3>2 DEF NewestInv, NewestOfState, NewestOfWork, FallbackIsNewest, WorkCovers
  <2> QED
    BY <2>2, <2>3
<1>4. CASE SaveFails
  <2>1. CASE task.kind = "refresh" /\ task.current # {}
    BY <1>4, <2>1, SaveAgainNewest DEF SaveFails, files
  <2>2. CASE ~(task.kind = "refresh" /\ task.current # {})
    BY <1>4, <2>2, EndNewest DEF SaveFails, files
  <2> QED
    BY <2>1, <2>2
<1> QED
  BY <1>1, <1>2, <1>3, <1>4 DEF SaveStep

\* A fallback that is not stale moves to the credential store.
LEMMA TokenMovesNewest ==
  ASSUME KeptInv, NewestInv, TypeOK', NEW c \in Character,
         step \in {"keyring", "move"}, c \in work.characters, task.kind # "remove",
         work.fallback[c] # NoToken,
         kept' = [kept EXCEPT ![c] = work.fallback[c]],
         work' = WithFallback(work, c, NoToken), step' = "credentials",
         task'.kind = task.kind, task'.ids \subseteq task.ids,
         \/ task'.then = "idle"
         \/ task'.then = "move" /\ step = "move" /\ c \notin task'.ids,
         UNCHANGED <<state, received, interrupted>>
  PROVE  NewestInv'
<1>1. /\ work'.characters = work.characters /\ work.characters \subseteq Character
      /\ work'.fallback[c] = NoToken /\ kept'[c] = work.fallback[c]
      /\ \A d \in Character \ {c} : work'.fallback[d] = work.fallback[d] /\ kept'[d] = kept[d]
  BY DEF WithFallback, KeptInv, TypeOK, Store
<1>2. NewestOfState' /\ NewestOfWork' /\ FallbackIsNewest'
  BY <1>1 DEF NewestInv, NewestOfState, NewestOfWork, FallbackIsNewest, KeptIsNewest
<1>3. task.ids \subseteq Character
  BY DEF KeptInv, TypeOK, Task
<1>4. WorkCovers'
  BY <1>1, <1>3 DEF NewestInv, WorkCovers
<1> QED
  BY <1>2, <1>4 DEF NewestInv

LEMMA CharacterStepNewest ==
  ASSUME KeptInv, NewestInv, TypeOK', CharacterStep PROVE NewestInv'
<1>0. /\ work \in Store /\ work.characters \subseteq Character
      /\ state \subseteq Character /\ task \in Task
  BY DEF KeptInv, TypeOK, Store
<1>1. CASE AuthorizationFails \/ TokenNotStored \/ EndMigrate
  BY <1>1, EndNewest DEF AuthorizationFails, TokenNotStored, EndMigrate, files
<1>2. CASE BeginMigrate
  <2>1. /\ step = "idle" /\ step' = "move" /\ work' = Loaded
        /\ UNCHANGED <<state, credentials, received, kept, interrupted>>
        /\ task' = [NoTask EXCEPT !.kind = "migrate",
                                  !.ids = {c \in state : credentials[c] # NoToken}]
    BY <1>2 DEF BeginMigrate, Begin, files
  <2>2. /\ task'.then = "idle" /\ work'.characters = state
        /\ \A c \in task'.ids : c \in state /\ credentials[c] # NoToken
    BY <2>1 DEF NoTask, Loaded
  <2> QED
    BY <2>1, <2>2, BeginNewest
<1>3. ASSUME NEW c \in Character, BeginAuthenticate(c) PROVE NewestInv'
  <2>1. /\ step = "idle" /\ step' = "authorize" /\ work' = Loaded
        /\ UNCHANGED <<state, received, kept, interrupted>>
        /\ task' = [NoTask EXCEPT !.kind = "authenticate", !.current = {c}]
    BY <1>3 DEF BeginAuthenticate, Begin, files
  <2>2. task'.then = "idle" /\ work'.characters = state
    BY <2>1 DEF NoTask, Loaded
  <2> QED
    BY <2>1, <2>2, BeginNewest
<1>4. ASSUME NEW c \in Character, Authorized(c) PROVE NewestInv'
  <2>1. /\ step = "authorize" /\ task.current = {c} /\ step' = "credentials"
        /\ UNCHANGED <<state, kept>> /\ task' = [task EXCEPT !.then = "keyring"]
        /\ work' = [WithFallback(work, c, issued + 1) EXCEPT !.characters = @ \cup {c}]
        /\ received' = [received EXCEPT ![c] = issued + 1] /\ interrupted' = interrupted \ {c}
    BY <1>4 DEF Authorized, Save, files
  <2>2. /\ work'.characters = work.characters \cup {c}
        /\ work'.fallback[c] = issued + 1 /\ received'[c] = issued + 1 /\ issued + 1 # NoToken
        /\ \A d \in Character \ {c} : /\ work'.fallback[d] = work.fallback[d]
                                      /\ received'[d] = received[d]
        /\ task'.kind = task.kind /\ task'.ids = task.ids
        /\ task'.current = {c} /\ task'.then = "keyring"
    BY <2>1, <1>0 DEF WithFallback, Store, Task, KeptInv, TypeOK, NoToken
  <2>3. NewestOfState' /\ NewestOfWork' /\ FallbackIsNewest'
    BY <2>1, <2>2, <1>0 DEF NewestInv, NewestOfState, NewestOfWork, FallbackIsNewest, KeptIsNewest
  <2>4. WorkCovers'
    BY <2>1, <2>2 DEF NewestInv, WorkCovers
  <2> QED
    BY <2>3, <2>4 DEF NewestInv
<1>5. ASSUME NEW c \in Character, TokenStored(c) PROVE NewestInv'
  <2>1. task.kind # "remove" /\ c \in work.characters
    BY <1>5 DEF TokenStored, KeptInv, VisitsItsOwn
  <2>2. work.fallback[c] # NoToken
    BY <1>5 DEF TokenStored, NewestInv, WorkCovers
  <2>3. /\ task'.kind = task.kind /\ task'.ids \subseteq task.ids /\ task'.then = "idle"
    BY <1>5, <1>0 DEF TokenStored, Save, Task
  <2>4. /\ step = "keyring" /\ step' = "credentials"
        /\ kept' = [kept EXCEPT ![c] = work.fallback[c]]
        /\ work' = WithFallback(work, c, NoToken)
        /\ UNCHANGED <<state, received, interrupted>>
    BY <1>5 DEF TokenStored, Save
  <2> QED
    BY <2>1, <2>2, <2>3, <2>4, TokenMovesNewest
<1>6. ASSUME NEW c \in Character, BeginRemove(c) PROVE NewestInv'
  <2> DEFINE rest == IF credentials[c] # NoToken THEN "idle" ELSE "delete"
  <2>1. /\ step = "idle" /\ step' = "credentials" /\ UNCHANGED <<state, received, interrupted>>
        /\ work' = [Loaded EXCEPT !.characters = @ \ {c}]
        /\ task' = [[NoTask EXCEPT !.kind = "remove", !.current = {c}] EXCEPT !.then = rest]
        /\ kept' = [kept EXCEPT ![c] = NoToken]
    BY <1>6 DEF BeginRemove, Begin, Save, files
  <2>2. /\ work'.characters = state \ {c} /\ work'.fallback = Loaded.fallback
        /\ \A d \in Character \ {c} : kept'[d] = kept[d]
        /\ task'.kind = "remove" /\ task'.current = {c} /\ task'.then \in {"idle", "delete"}
    BY <2>1, <1>0 DEF Loaded, NoTask, KeptInv, TypeOK
  <2> QED
    BY <2>1, <2>2, <1>0, BeginNewest
<1>7. ASSUME NEW c \in Character, DeleteToken(c) PROVE NewestInv'
  BY <1>7, EndNewest DEF DeleteToken
<1>8. ASSUME NEW c \in Character, MoveToken(c) PROVE NewestInv'
  <2>1. task.kind # "remove" /\ c \in work.characters
    BY <1>8 DEF MoveToken, KeptInv, VisitsItsOwn
  <2>2. work.fallback[c] # NoToken
    BY <1>8 DEF MoveToken, NewestInv, WorkCovers
  <2>3. /\ task'.kind = task.kind /\ task'.ids = task.ids \ {c} /\ task'.then = "move"
    BY <1>8, <1>0 DEF MoveToken, Save, Task
  <2> QED
    BY <1>8, <2>1, <2>2, <2>3, TokenMovesNewest DEF MoveToken, Save
<1>9. ASSUME NEW c \in Character, MoveFails(c) PROVE NewestInv'
  <2>1. /\ UNCHANGED <<state, step, work, received, kept, interrupted>>
        /\ task'.kind = task.kind /\ task'.ids = task.ids \ {c}
        /\ task'.current = task.current /\ task'.then = task.then
    BY <1>9, <1>0 DEF MoveFails, files, Task
  <2> QED
    BY <2>1 DEF NewestInv, NewestOfState, NewestOfWork, FallbackIsNewest, WorkCovers, KeptIsNewest
<1> QED
  BY <1>1, <1>2, <1>3, <1>4, <1>5, <1>6, <1>7, <1>8, <1>9 DEF CharacterStep

LEMMA RefreshStepNewest ==
  ASSUME KeptInv, NewestInv, TypeOK', RefreshStep PROVE NewestInv'
<1>0. /\ work \in Store /\ work.characters \subseteq Character
      /\ state \subseteq Character /\ task \in Task
  BY DEF KeptInv, TypeOK, Store
<1>1. CASE BeginRefresh
  <2>1. /\ step = "idle" /\ step' = "credentials" /\ work' = Loaded
        /\ UNCHANGED <<state, received, kept, interrupted>>
        /\ task' = [[NoTask EXCEPT !.kind = "refresh", !.ids = state] EXCEPT !.then = "load"]
    BY <1>1 DEF BeginRefresh, Begin, Save, files
  <2>2. task'.then = "load" /\ work'.characters = state
    BY <2>1 DEF NoTask, Loaded
  <2> QED
    BY <2>1, <2>2, BeginNewest
<1>2. CASE FinishRefresh
  <2>1. task.kind # "remove"
    BY <1>2 DEF FinishRefresh, KeptInv, VisitsItsOwn
  <2> QED
    BY <1>2, <2>1, SaveAgainNewest DEF FinishRefresh, files
<1>3. ASSUME NEW c \in Character, RotateToken(c) PROVE NewestInv'
  <2> DEFINE token == issued + 1
             tsk == [task EXCEPT !.ids = @ \ {c}, !.current = {c}]
  <2>1. step = "load" /\ c \in task.ids /\ token # NoToken /\ state' = state
    BY <1>3 DEF RotateToken, KeptInv, TypeOK, NoToken
  <2>2. task.kind # "remove" /\ c \in work.characters
    BY <2>1 DEF KeptInv, VisitsItsOwn
  <2>3. /\ step' = "credentials" /\ task' = [tsk EXCEPT !.then = "load"]
        /\ work'.characters = work.characters
        /\ received'[c] = token /\ interrupted' = interrupted \ {c}
        /\ \A d \in Character \ {c} : /\ received'[d] = received[d]
                                      /\ kept'[d] = kept[d]
                                      /\ work'.fallback[d] = work.fallback[d]
    BY <1>3, <1>0 DEF RotateToken, Save, WithFallback, Store, KeptInv, TypeOK
  <2>4. /\ task'.kind = task.kind /\ task'.current = {c} /\ task'.then = "load"
    BY <2>3, <1>0 DEF Task
  <2>5. \/ work'.fallback[c] = NoToken /\ kept'[c] = token
        \/ work'.fallback[c] = token
    BY <1>3, <1>0 DEF RotateToken, Save, WithFallback, Store, KeptInv, TypeOK
  <2> HIDE DEF token, tsk
  <2>6. NewestOfState' /\ NewestOfWork' /\ FallbackIsNewest'
    BY <2>1, <2>2, <2>3, <2>4, <2>5, <1>0
    DEF NewestInv, NewestOfState, NewestOfWork, FallbackIsNewest, KeptIsNewest
  <2>7. WorkCovers'
    BY <2>1, <2>2, <2>3, <2>4 DEF NewestInv, WorkCovers
  <2> QED
    BY <2>6, <2>7 DEF NewestInv
<1> QED
  BY <1>1, <1>2, <1>3 DEF RefreshStep

LEMMA OtherStepNewest == ASSUME KeptInv, NewestInv, TypeOK', OtherStep PROVE NewestInv'
<1>1. ASSUME NEW setting \in Setting, SetConfig(setting) PROVE NewestInv'
  <2>1. /\ step = "idle" /\ step' = "credentials"
        /\ UNCHANGED <<state, received, kept, interrupted>>
        /\ work' = [Loaded EXCEPT !.setting = setting]
        /\ task' = [[NoTask EXCEPT !.kind = "set"] EXCEPT !.then = "idle"]
    BY <1>1 DEF SetConfig, Begin, Save, files
  <2>2. task'.then = "idle" /\ work'.characters = state /\ work'.fallback = Loaded.fallback
    BY <2>1 DEF NoTask, Loaded
  <2> QED
    BY <2>1, <2>2, BeginNewest
<1>2. CASE EditStore
  <2>1. /\ step = "idle" /\ step' = "credentials" /\ work' = Loaded
        /\ UNCHANGED <<state, received, kept, interrupted>>
        /\ task' = [[NoTask EXCEPT !.kind = "edit"] EXCEPT !.then = "idle"]
    BY <1>2 DEF EditStore, Begin, Save, files
  <2>2. task'.then = "idle" /\ work'.characters = state
    BY <2>1 DEF NoTask, Loaded
  <2> QED
    BY <2>1, <2>2, BeginNewest
<1>3. CASE Crash
  BY <1>3, EndNewest DEF Crash, files
<1>4. ASSUME NEW contents \in Setting \cup {Malformed}, EditConfig(contents) PROVE NewestInv'
  BY <1>4 DEF EditConfig, NewestInv, NewestOfState, NewestOfWork, FallbackIsNewest, WorkCovers,
              KeptIsNewest
<1> QED
  BY <1>1, <1>2, <1>3, <1>4 DEF OtherStep

LEMMA NewestInductive == ASSUME IInv, [Next]_vars PROVE IInv'
<1>1. KeptInv' /\ TypeOK'
  BY Inductive DEF IInv, KeptInv
<1>2. CASE UNCHANGED vars
  BY <1>1, <1>2 DEF vars, IInv, NewestInv, NewestOfState, NewestOfWork, FallbackIsNewest,
                    WorkCovers, KeptIsNewest
<1>3. CASE Next
  BY <1>1, <1>3, SaveStepNewest, CharacterStepNewest, RefreshStepNewest, OtherStepNewest
  DEF Next, IInv
<1> QED
  BY <1>2, <1>3

-----------------------------------------------------------------------------
(* Theorems *)

LEMMA Initially == ASSUME Init PROVE IInv
<1>1. TypeOK
  BY DEF Init, TypeOK, Step, EmptyStore, Store, NoTask, Task, Kind, Token, NoToken
<1>2. /\ TokenKept /\ StoredIsKept /\ DroppedIsGivenUp
      /\ SavedIsKept /\ WorkIsSaved /\ VisitsItsOwn
  BY DEF Init, TokenKept, StoredIsKept, DroppedIsGivenUp, SavedIsKept, WorkIsSaved,
         VisitsItsOwn, NoTask
<1>3. NewestInv
  BY DEF Init, NewestInv, NewestOfState, NewestOfWork, FallbackIsNewest, WorkCovers, NoTask
<1> QED
  BY <1>1, <1>2, <1>3 DEF IInv, KeptInv

\* The inductive invariant of the tokens: state file, credential store and the
\* copies of a running operation agree on the newest token of each character at
\* every step of a save, a migration or a rotation (storage.rs, auth.rs).
THEOREM Invariance == Spec => []IInv
BY Initially, NewestInductive, PTL DEF Spec

\* No token that was made durable is lost or hidden by an older one while its
\* character stays, whichever write of authenticate, migrate_refresh_tokens,
\* access_token or remove_character fails or is never reached.
THEOREM TokenNeverLost == Spec => []TokenKept
<1>1. IInv => TokenKept
  BY DEF IInv, KeptInv
<1> QED
  BY <1>1, Invariance, PTL

\* The token an operation finds is the last one any operation accepted, unless
\* that operation died or could not write: whether it went to the credential
\* store, stayed a fallback or was refused by the store on the way (auth.rs
\* access_token, characters.rs authenticate and migrate_refresh_tokens).
THEOREM TokenInUseIsNewest == Spec => []TokenIsNewest
<1>1. IInv => TokenIsNewest
  BY DEF IInv, KeptInv, TokenKept, NewestInv, NewestOfState, KeptIsNewest, TokenIsNewest
<1> QED
  BY <1>1, Invariance, PTL
=============================================================================
