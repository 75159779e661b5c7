--------------------------- MODULE PostingProofs ---------------------------
(***************************************************************************)
(* Theorems about Posting, for every set of killmails, characters and      *)
(* processes and every bound: the type invariant, and that no submission   *)
(* attempt is ever forgotten.                                              *)
(***************************************************************************)
EXTENDS Posting, TLAPS

-----------------------------------------------------------------------------
(* The operators on stores return stores. *)

LEMMA EmptyStoreType == EmptyStore \in Store
BY DEF EmptyStore, Store, ZkillStatus, StatusKind, NoStatus

LEMMA StatusTypes ==
  /\ NoStatus \in ZkillStatus
  /\ Reported \in ZkillStatus
  /\ \A at, until \in Nat : Unreported(at, until) \in ZkillStatus
  /\ \A at \in Nat : PostAttempted(at) \in ZkillStatus
BY DEF ZkillStatus, StatusKind, NoStatus, Reported, Unreported, PostAttempted

LEMMA PruneReportedType ==
  ASSUME NEW s \in Store
  PROVE  /\ PruneReported(s) \in Store
         /\ PruneReported(s).status = s.status
BY DEF PruneReported, Store

LEMMA MergeCooldownType ==
  ASSUME NEW s \in Store, NEW until \in Nat, NEW t \in Nat
  PROVE  /\ MergeCooldown(s, until, t) \in Store
         /\ MergeCooldown(s, until, t).status = s.status
BY DEF MergeCooldown, Store

LEMMA WithStatusType ==
  ASSUME NEW s \in Store, NEW m \in Killmail, NEW st \in ZkillStatus
  PROVE  LET s1 == [s EXCEPT !.status[m] = st]
         IN  /\ s1 \in Store
             /\ s1.status = [s.status EXCEPT ![m] = st]
BY DEF Store

LEMMA ApplyLookupType ==
  ASSUME NEW s \in Store, NEW candidates, NEW l \in Lookup, NEW t \in Nat
  PROVE  ApplyLookup(s, candidates, l, t) \in Store
<1>1. ASSUME NEW m \in Killmail PROVE Absent(s, m, l) \in ZkillStatus
  BY StatusTypes DEF Absent, Store, ZkillStatus, Lookup
<1> QED
  BY <1>1, StatusTypes DEF ApplyLookup, Store

LEMMA EditTypes ==
  ASSUME NEW s \in Store
  PROVE  /\ \A m \in Killmail : /\ [s EXCEPT !.manualKillmails = @ \cup {m}] \in Store
                                /\ [s EXCEPT !.manualKillmails = @ \ {m}] \in Store
         /\ \A c \in Character : /\ [s EXCEPT !.manualCharacters = @ \cup {c}] \in Store
                                 /\ [s EXCEPT !.manualCharacters = @ \ {c}] \in Store
                                 /\ WithoutCharacter(s, c) \in Store
                                 /\ \A corp \in Corporation \cup {NoCorp} :
                                      WithCharacter(s, c, corp) \in Store
         /\ \A k \in Corporation : /\ [s EXCEPT !.manualCorporations = @ \cup {k}] \in Store
                                   /\ [s EXCEPT !.manualCorporations = @ \ {k}] \in Store
BY DEF Store, WithoutCharacter, WithCharacter

-----------------------------------------------------------------------------
(* Type correctness *)

LEMMA TaskTypes ==
  /\ NoTask \in Task
  /\ NoPost \in PreparedPost
  /\ \A tsk \in Task, s \in Store, t \in Nat :
       [tsk EXCEPT !.unknown = Unknowns(s, t), !.checks = StatusChecks(s, t)] \in Task
<1>1. NoTask \in Task /\ NoPost \in PreparedPost
  BY DEF NoTask, Task, Selection, SelectAll, NoPost, PreparedPost, PostMode
<1>2. ASSUME NEW s \in Store, NEW t \in Nat
      PROVE  Unknowns(s, t) \in SUBSET Killmail /\ StatusChecks(s, t) \in SUBSET Check
  BY DEF Unknowns, Cached, StatusChecks, Check, Store
<1> QED
  BY <1>1, <1>2 DEF Task

\* Dropping the lock leaves well-typed operation state.
LEMMA ReleaseType ==
  Release => /\ holder' \in Proc \cup {NoProc}
             /\ step' \in Step
             /\ work' \in Store
             /\ task' \in Task
BY EmptyStoreType, TaskTypes DEF Release, Step

LEMMA LeaveChecksType ==
  TypeOK /\ LeaveChecks => /\ holder' \in Proc \cup {NoProc}
                           /\ step' \in Step
                           /\ work' \in Store
                           /\ task' \in Task
BY ReleaseType DEF TypeOK, LeaveChecks, Goto, Step

LEMMA StatusStepType == TypeOK /\ StatusStep => TypeOK'
<1> SUFFICES ASSUME TypeOK, StatusStep PROVE TypeOK'
  OBVIOUS
<1> USE DEF history
<1>1. CASE CancelChecks
  BY <1>1, LeaveChecksType DEF CancelChecks, TypeOK
<1>2. ASSUME NEW k \in task.checks, BeginLookup(k) PROVE TypeOK'
  BY <1>2 DEF BeginLookup, Goto, TypeOK, Task, Step
<1>3. CASE ReservePage
  BY <1>3, LeaveChecksType DEF ReservePage, Persist, PersistFails, TypeOK
<1>4. ASSUME NEW until \in {0, now + Backoff}, LookupFails(until) PROVE TypeOK'
  <2>1. until \in Nat
    BY TimeAssumption DEF TypeOK
  <2>2. work' \in Store
    BY <1>4, <2>1, MergeCooldownType DEF LookupFails, TypeOK
  <2>3. task' \in Task
    BY <1>4 DEF LookupFails, EndCheck, TypeOK, Task
  <2> QED
    BY <1>4, <2>1, <2>2, <2>3 DEF LookupFails, Goto, TypeOK, Step
<1>5. ASSUME NEW l \in LookupResult, LookupAnswers(l) PROVE TypeOK'
  <2>1. l \in Lookup
    BY TimeAssumption DEF LookupResult, Lookup
  <2>2. work' \in Store
    BY <1>5, <2>1, ApplyLookupType DEF LookupAnswers, TypeOK
  <2>3. task' \in Task
    BY <1>5, <2>1 DEF LookupAnswers, TypeOK, Task, Lookup
  <2> QED
    BY <1>5, <2>2, <2>3 DEF LookupAnswers, Goto, TypeOK, Step
<1>6. CASE SaveLookup
  <2>1. CASE PersistFails /\ LeaveChecks
    BY <1>6, <2>1, LeaveChecksType DEF SaveLookup, PersistFails, TypeOK
  <2>2. CASE /\ Persist(work)
             /\ work' = MergeCooldown(work, 0, now)
             /\ task' = EndCheck
             /\ Goto("checks")
    <3>1. work' \in Store
      BY <2>2, MergeCooldownType DEF TypeOK
    <3>2. task' \in Task
      BY <2>2 DEF EndCheck, TypeOK, Task
    <3> QED
      BY <1>6, <2>2, <3>1, <3>2 DEF SaveLookup, Persist, Goto, TypeOK, Step
  <2> QED
    BY <1>6, <2>1, <2>2 DEF SaveLookup
<1>7. CASE EndChecks
  BY <1>7, PruneReportedType, ReleaseType
     DEF EndChecks, Goto, Persist, PersistFails, TypeOK, Step
<1> QED
  BY <1>1, <1>2, <1>3, <1>4, <1>5, <1>6, <1>7 DEF StatusStep

LEMMA RefreshStepType == TypeOK /\ RefreshStep => TypeOK'
<1> SUFFICES ASSUME TypeOK, RefreshStep PROVE TypeOK'
  OBVIOUS
<1> USE DEF history
<1>1. ASSUME NEW c \in Character, NEW corp \in Corporation, RefreshAffiliation(c, corp)
      PROVE  TypeOK'
  BY <1>1 DEF RefreshAffiliation, TypeOK, Store
<1>2. CASE RotateToken
  BY <1>2 DEF RotateToken, Persist, PersistFails, TypeOK, Step
<1>3. ASSUME NEW sources \in [Killmail -> SUBSET Character], LoadKillmails(sources)
      PROVE  TypeOK'
  <2>1. [work EXCEPT !.sources = sources] \in Store
    BY DEF TypeOK, Store
  <2>2. work' \in Store
    BY <1>3, <2>1, PruneReportedType DEF LoadKillmails
  <2>3. disk' \in Store
    BY <1>3, <2>2 DEF LoadKillmails, Persist, PersistFails, TypeOK
  <2>4. task' \in Task
    <3>1. [task EXCEPT !.unknown = Unknowns(work', now),
                       !.checks = StatusChecks(work', now)] \in Task
      BY <2>2, TaskTypes DEF TypeOK
    <3>2. \/ task' = task
          \/ task' = [task EXCEPT !.unknown = Unknowns(work', now),
                                  !.checks = StatusChecks(work', now)]
      BY <1>3 DEF LoadKillmails, StartChecks
    <3> QED
      BY <3>1, <3>2 DEF TypeOK
  <2> QED
    BY <1>3, <2>2, <2>3, <2>4 DEF LoadKillmails, Goto, TypeOK, Step
<1>4. CASE LoadFails
  BY <1>4 DEF LoadFails, Goto, TypeOK, Step
<1>5. CASE FinishRefresh
  <2>1. MergeCooldown(work, 0, now) \in Store
    BY MergeCooldownType DEF TypeOK
  <2>2. disk' \in Store
    BY <1>5, <2>1 DEF FinishRefresh, Persist, PersistFails, TypeOK
  <2> QED
    BY <1>5, <2>2, ReleaseType DEF FinishRefresh, TypeOK
<1> QED
  BY <1>1, <1>2, <1>3, <1>4, <1>5 DEF RefreshStep

LEMMA PreparedTypes ==
  /\ \A ids \in SUBSET Killmail, mode \in PostMode, anyway \in BOOLEAN :
       [ids |-> ids, mode |-> mode, anyway |-> anyway] \in PreparedPost
  /\ \A s, sel : ModeOf(s, sel) \in PostMode
  /\ \A s, sel : Confirmable(s, sel) \in SUBSET Killmail
BY DEF PreparedPost, ModeOf, PostMode, Confirmable, Cached

\* Ending a post drops the confirmation it used.
LEMMA EndPostType ==
  TypeOK /\ EndPost => /\ holder' \in Proc \cup {NoProc}
                       /\ step' \in Step
                       /\ work' \in Store
                       /\ task' \in Task
                       /\ prepared' \in [Poster -> PreparedPost]
<1> SUFFICES ASSUME TypeOK, EndPost
             PROVE  /\ holder' \in Proc \cup {NoProc}
                    /\ step' \in Step
                    /\ work' \in Store
                    /\ task' \in Task
                    /\ prepared' \in [Poster -> PreparedPost]
  OBVIOUS
<1>1. prepared' \in [Poster -> PreparedPost]
  BY TaskTypes DEF TypeOK, EndPost
<1> QED
  BY <1>1, ReleaseType DEF EndPost

LEMMA NextIdType == TypeOK => NextId \in Task
BY DEF TypeOK, NextId, Task

LEMMA PostStepType == TypeOK /\ PostStep => TypeOK'
<1> SUFFICES ASSUME TypeOK, PostStep PROVE TypeOK'
  OBVIOUS
<1> USE DEF history
<1>1. CASE Decide
  <2>1. prepared' \in [Poster -> PreparedPost]
    <3> DEFINE ids == Confirmable(work, task.selection)
               prep == IF ids = {} THEN NoPost
                       ELSE [ids |-> ids, mode |-> ModeOf(work, task.selection),
                             anyway |-> task.selection.anyway]
    <3>1. task.selection.anyway \in BOOLEAN
      BY DEF TypeOK, Task, Selection
    <3>2. prep \in PreparedPost
      BY <3>1, TaskTypes, PreparedTypes
    <3>3. prepared' = [prepared EXCEPT ![holder] = prep]
      BY <1>1 DEF Decide
    <3> HIDE DEF prep
    <3> QED
      BY <3>2, <3>3 DEF TypeOK
  <2> QED
    BY <1>1, <2>1, ReleaseType DEF Decide, TypeOK
<1>2. CASE StopPost
  BY <1>2, EndPostType DEF StopPost, TypeOK
<1>3. CASE CancelMarked
  BY <1>3, EndPostType DEF CancelMarked, TypeOK
<1>4. CASE RecordOutcome
  BY <1>4, EndPostType, NextIdType
     DEF RecordOutcome, Persist, PersistFails, Goto, Step, TypeOK
<1>5. ASSUME NEW until \in {0, now + Backoff}, PostFails(until) PROVE TypeOK'
  <2>1. until \in Nat
    BY TimeAssumption DEF TypeOK
  <2>2. work' \in Store
    BY <1>5, <2>1, MergeCooldownType DEF PostFails, TypeOK
  <2> QED
    BY <1>5, <2>1, <2>2 DEF PostFails, Goto, TypeOK, Step
<1>6. ASSUME NEW m \in Killmail, SkipKillmail(m) PROVE TypeOK'
  <2>1. task' \in Task
    BY <1>6 DEF SkipKillmail, Task, TypeOK
  <2> QED
    BY <1>6, <2>1 DEF SkipKillmail, TypeOK
<1>7. ASSUME NEW m \in Killmail, ReservePost(m) PROVE TypeOK'
  <2>1. [task EXCEPT !.current = {m}] \in Task
    BY DEF Task, TypeOK
  <2> QED
    BY <1>7, <2>1, EndPostType
       DEF ReservePost, Persist, PersistFails, Goto, Step, TypeOK
<1>8. ASSUME NEW m \in Killmail, SkipExpired(m) PROVE TypeOK'
  BY <1>8, NextIdType DEF SkipExpired, Goto, Step, TypeOK
<1>9. ASSUME NEW m \in Killmail, MarkAttempt(m) PROVE TypeOK'
  <2>1. [work EXCEPT !.status[m] = PostAttempted(now)] \in Store
    BY StatusTypes, WithStatusType DEF TypeOK
  <2> QED
    BY <1>9, <2>1, EndPostType
       DEF MarkAttempt, Persist, PersistFails, Goto, Step, TypeOK
<1>10. ASSUME NEW m \in Killmail, SendPost(m) PROVE TypeOK'
  <2>1. work.status[m].at \in Nat
    BY DEF TypeOK, Store, ZkillStatus
  <2> QED
    BY <1>10, <2>1 DEF SendPost, Goto, Step, TypeOK
<1>11. ASSUME NEW m \in Killmail, PostAccepted(m) PROVE TypeOK'
  <2>1. MergeCooldown(work, 0, now) \in Store
    BY MergeCooldownType DEF TypeOK
  <2>2. [MergeCooldown(work, 0, now) EXCEPT !.status[m] = Reported] \in Store
    BY <2>1, StatusTypes, WithStatusType
  <2>3. work' \in Store
    BY <1>11, <2>2, PruneReportedType DEF PostAccepted
  <2> QED
    BY <1>11, <2>3 DEF PostAccepted, Goto, Step, TypeOK
<1> QED
  BY <1>1, <1>2, <1>3, <1>4, <1>5, <1>6, <1>7, <1>8, <1>9, <1>10, <1>11 DEF PostStep

LEMMA UserStepType == TypeOK /\ UserStep => TypeOK'
<1> SUFFICES ASSUME TypeOK, UserStep PROVE TypeOK'
  OBVIOUS
<1> USE DEF history
<1>1. ASSUME NEW p \in Refresher, BeginRefresh(p) PROVE TypeOK'
  <2>1. [NoTask EXCEPT !.kind = "refresh"] \in Task
    BY DEF NoTask, SelectAll, Selection, Task
  <2> QED
    BY <1>1, <2>1 DEF BeginRefresh, Acquire, Proc, Step, TypeOK
<1>2. ASSUME NEW p \in Poster, NEW sel \in Selection, BeginPrepare(p, sel) PROVE TypeOK'
  <2> DEFINE tsk == [NoTask EXCEPT !.kind = "prepare", !.selection = sel]
  <2>1. tsk \in Task
    BY DEF NoTask, Task
  <2>2. [tsk EXCEPT !.unknown = Unknowns(disk, now),
                    !.checks = StatusChecks(disk, now)] \in Task
    BY <2>1, TaskTypes DEF TypeOK
  <2>3. \/ task' = tsk
        \/ task' = [tsk EXCEPT !.unknown = Unknowns(disk, now),
                               !.checks = StatusChecks(disk, now)]
    BY <1>2 DEF BeginPrepare, StartChecks
  <2>4. task' \in Task
    BY <2>1, <2>2, <2>3
  <2> QED
    BY <1>2, <2>4 DEF BeginPrepare, Acquire, Proc, Step, TypeOK
<1>3. ASSUME NEW p \in Poster, Decline(p) PROVE TypeOK'
  BY <1>3, TaskTypes DEF Decline, TypeOK
<1>4. ASSUME NEW p \in Poster, BeginPost(p) PROVE TypeOK'
  <2>1. prepared[p].ids \in SUBSET Killmail
    BY DEF TypeOK, PreparedPost
  <2>2. [NoTask EXCEPT !.kind = "post", !.queue = prepared[p].ids] \in Task
    BY <2>1 DEF NoTask, SelectAll, Selection, Task
  <2> QED
    BY <1>4, <2>2 DEF BeginPost, Acquire, Proc, Step, TypeOK
<1>5. SelectAll \in Selection
  BY DEF SelectAll, Selection
<1>6. \A m \in Killmail, anyway \in BOOLEAN : SelectOne(m, anyway) \in Selection
  BY DEF SelectOne, Selection
<1> QED
  BY <1>1, <1>2, <1>3, <1>4, <1>5, <1>6 DEF UserStep

\* An edit leaves a store on disk and changes nothing else.
LEMMA EditStoreType ==
  ASSUME TypeOK, NEW kind, NEW s \in Store, EditStore(kind, s)
  PROVE  TypeOK'
BY DEF EditStore, Persist, TypeOK, history

LEMMA EditStepType == TypeOK /\ EditStep => TypeOK'
<1> SUFFICES ASSUME TypeOK, EditStep PROVE TypeOK'
  OBVIOUS
<1>0. disk \in Store
  BY DEF TypeOK
<1>1. ASSUME NEW m \in Killmail, NEW protected \in BOOLEAN, SetKillmailProtection(m, protected)
      PROVE  TypeOK'
  <2>1. [disk EXCEPT !.manualKillmails = IF protected THEN @ \cup {m} ELSE @ \ {m}] \in Store
    BY <1>0, EditTypes
  <2> QED
    BY <1>1, <2>1, EditStoreType DEF SetKillmailProtection
<1>2. ASSUME NEW c \in Character, AddProtectedCharacter(c) \/ RemoveProtectedCharacter(c)
      PROVE  TypeOK'
  BY <1>0, <1>2, EditTypes, EditStoreType
     DEF AddProtectedCharacter, RemoveProtectedCharacter
<1>3. ASSUME NEW k \in Corporation, AddProtectedCorporation(k) \/ RemoveProtectedCorporation(k)
      PROVE  TypeOK'
  BY <1>0, <1>3, EditTypes, EditStoreType
     DEF AddProtectedCorporation, RemoveProtectedCorporation
<1>4. ASSUME NEW c \in Character, NEW corp \in Corporation \cup {NoCorp}, Authenticate(c, corp)
      PROVE  TypeOK'
  BY <1>0, <1>4, EditTypes, EditStoreType DEF Authenticate
<1>5. ASSUME NEW c \in Character, RemoveCharacter(c) PROVE TypeOK'
  BY <1>0, <1>5, EditTypes, EditStoreType DEF RemoveCharacter
<1> QED
  BY <1>1, <1>2, <1>3, <1>4, <1>5 DEF EditStep

LEMMA EnvironmentType == TypeOK /\ Environment => TypeOK'
<1> SUFFICES ASSUME TypeOK, Environment PROVE TypeOK'
  OBVIOUS
<1> USE DEF history
<1>1. ASSUME NEW p \in Proc, Crash(p) PROVE TypeOK'
  <2>1. prepared' \in [Poster -> PreparedPost]
    BY <1>1, TaskTypes DEF Crash, TypeOK
  <2> QED
    BY <1>1, <2>1, ReleaseType DEF Crash, TypeOK
<1>2. ASSUME NEW m \in Killmail, Land(m) \/ PostedElsewhere(m) PROVE TypeOK'
  BY <1>2 DEF Land, PostedElsewhere, TypeOK
<1>3. CASE Tick
  BY <1>3 DEF Tick, TypeOK
<1> QED
  BY <1>1, <1>2, <1>3 DEF Environment

LEMMA InitType == Init => TypeOK
<1> SUFFICES ASSUME Init PROVE TypeOK
  OBVIOUS
<1>1. disk \in Store
  BY InitialStoreAssumption DEF Init
<1>2. prepared \in [Poster -> PreparedPost] /\ task \in Task
  BY TaskTypes DEF Init
<1>3. stamp \in [Killmail -> Nat \cup {Never}]
  BY DEF Init
<1> QED
  BY <1>1, <1>2, <1>3, EmptyStoreType DEF Init, TypeOK, Step

LEMMA NextType == TypeOK /\ [Next]_vars => TypeOK'
<1> SUFFICES ASSUME TypeOK, [Next]_vars PROVE TypeOK'
  OBVIOUS
<1>1. CASE UNCHANGED vars
  BY <1>1 DEF vars, TypeOK
<1>2. CASE Next
  BY <1>2, StatusStepType, RefreshStepType, PostStepType, UserStepType,
     EditStepType, EnvironmentType DEF Next
<1> QED
  BY <1>1, <1>2

\* Every reachable state is well typed: in particular a recorded attempt time
\* and a validity are times, and only known killmails are queued, sent or
\* recorded, whatever ran, crashed or failed to persist (posting.rs, status.rs,
\* refresh.rs).
THEOREM TypeCorrect == Spec => []TypeOK
<1>1. Init => TypeOK
  BY InitType
<1>2. TypeOK /\ [Next]_vars => TypeOK'
  BY NextType
<1> QED
  BY <1>1, <1>2, PTL DEF Spec

-----------------------------------------------------------------------------
(* No attempt is forgotten *)

(* What the inductive invariant says of one store: a record that can be      *)
(* relied on is newer than the last POST, and no attempt lies in the future. *)
Coherent(s, sent, t) ==
  \A m \in Killmail :
     /\ s.status[m].kind = "None" => sent[m] = Never
     /\ s.status[m].kind = "Unreported" => s.status[m].at > sent[m]
     /\ s.status[m].kind = "PostAttempted" => /\ s.status[m].at >= sent[m]
                                              /\ s.status[m].at <= t

AllCoherent ==
  /\ Coherent(disk, stamp, now)
  /\ holder # NoProc => Coherent(work, stamp, now)
  /\ \A m \in Killmail : stamp[m] <= now

LEMMA IInvIsCoherence ==
  ASSUME TypeOK
  PROVE  IInv <=> AllCoherent /\ LockAgrees /\ MarkedIsDurable
<1>1. \A s \in Store, m \in Killmail : s.status[m].kind \in StatusKind
  BY DEF Store, ZkillStatus
<1>2. ASSUME NEW s \in Store
      PROVE  Coherent(s, stamp, now)
               <=> \A m \in Killmail : Remembers(s, m) /\ MarkIsPast(s, m)
  BY <1>1 DEF Coherent, Remembers, MarkIsPast, StatusKind
<1> QED
  BY <1>2 DEF TypeOK, IInv, AllCoherent, AttemptRemembered, AttemptsArePast

LEMMA CoherentStatus ==
  ASSUME NEW s, NEW s1, NEW sent, NEW t, s1.status = s.status, Coherent(s, sent, t)
  PROVE  Coherent(s1, sent, t)
BY DEF Coherent

LEMMA CoherentLater ==
  ASSUME NEW s \in Store, NEW sent, NEW t \in Nat, Coherent(s, sent, t)
  PROVE  Coherent(s, sent, t + 1)
BY DEF Coherent, Store, ZkillStatus

\* A lookup never replaces a record by one older than the last POST.
LEMMA CoherentLookup ==
  ASSUME NEW s \in Store, NEW candidates, NEW l \in Lookup, NEW t \in Nat,
         NEW sent \in [Killmail -> Nat \cup {Never}], Coherent(s, sent, t)
  PROVE  Coherent(ApplyLookup(s, candidates, l, t), sent, t)
<1> DEFINE s1 == ApplyLookup(s, candidates, l, t)
<1> SUFFICES ASSUME NEW m \in Killmail
             PROVE  /\ s1.status[m].kind = "None" => sent[m] = Never
                    /\ s1.status[m].kind = "Unreported" => s1.status[m].at > sent[m]
                    /\ s1.status[m].kind = "PostAttempted" =>
                         s1.status[m].at >= sent[m] /\ s1.status[m].at <= t
  BY DEF Coherent
<1>1. \/ s1.status[m] = s.status[m]
      \/ s1.status[m] = Reported
      \/ s1.status[m] = Absent(s, m, l) /\ Disproved(s, m, l, t) /\ s.status[m].kind # "Reported"
  BY DEF ApplyLookup, Store
<1>2. CASE s1.status[m] = s.status[m]
  BY <1>2 DEF Coherent
<1>3. CASE s1.status[m] = Reported
  BY <1>3 DEF Reported
<1>4. CASE s1.status[m] = Absent(s, m, l) /\ Disproved(s, m, l, t) /\ s.status[m].kind # "Reported"
  <2>1. s1.status[m].kind = "Unreported" /\ s1.status[m].at = Absent(s, m, l).at
    BY <1>4 DEF Absent, Unreported
  <2>2. l.observed \in Nat /\ s.status[m].at \in Nat /\ s.status[m].kind \in StatusKind
    BY DEF Lookup, Store, ZkillStatus
  <2>3. Absent(s, m, l).at =
          IF s.status[m].kind = "Unreported" /\ s.status[m].at > l.observed
          THEN s.status[m].at ELSE l.observed
    BY DEF Absent, Unreported
  <2>4. s.status[m].kind = "PostAttempted" => l.observed > s.status[m].at
    BY <1>4 DEF Disproved
  <2>5. s1.status[m].at > sent[m]
    BY <1>4, <2>1, <2>2, <2>3, <2>4 DEF Coherent, StatusKind, Never
  <2> QED
    BY <2>1, <2>5
<1> QED
  BY <1>1, <1>2, <1>3, <1>4

LEMMA CoherentMark ==
  ASSUME NEW s \in Store, NEW m \in Killmail, NEW t \in Nat,
         NEW sent \in [Killmail -> Nat \cup {Never}], sent[m] <= t, Coherent(s, sent, t)
  PROVE  Coherent([s EXCEPT !.status[m] = PostAttempted(t)], sent, t)
BY DEF Coherent, PostAttempted, Store, Never

LEMMA CoherentReported ==
  ASSUME NEW s \in Store, NEW m \in Killmail, NEW t, NEW sent, Coherent(s, sent, t)
  PROVE  Coherent([s EXCEPT !.status[m] = Reported], sent, t)
BY DEF Coherent, Reported, Store

LEMMA CoherentSend ==
  ASSUME NEW s \in Store, NEW m \in Killmail, NEW t,
         NEW sent \in [Killmail -> Nat \cup {Never}],
         s.status[m].kind = "PostAttempted", Coherent(s, sent, t)
  PROVE  Coherent(s, [sent EXCEPT ![m] = s.status[m].at], t)
BY DEF Coherent, Store, ZkillStatus

(* Most steps only move a store between the working copy and the disk.       *)
MovesStores ==
  /\ UNCHANGED <<now, stamp>>
  /\ \/ disk'.status = disk.status
     \/ holder # NoProc /\ disk'.status = work.status
  /\ \/ holder' = NoProc
     \/ holder # NoProc /\ work'.status = work.status
     \/ work'.status = disk.status
  /\ LockAgrees'
  /\ step' # "marked"

LEMMA MovesStoresKeeps == IInv /\ TypeOK' /\ MovesStores => IInv'
<1> SUFFICES ASSUME IInv, TypeOK', MovesStores PROVE IInv'
  OBVIOUS
<1>1. AllCoherent
  BY IInvIsCoherence DEF IInv
<1>2. Coherent(disk', stamp, now)
  BY <1>1, CoherentStatus DEF MovesStores, AllCoherent
<1>3. holder' # NoProc => Coherent(work', stamp, now)
  BY <1>1, CoherentStatus DEF MovesStores, AllCoherent
<1>4. AllCoherent'
  BY <1>1, <1>2, <1>3 DEF MovesStores, AllCoherent
<1>5. MarkedIsDurable' /\ LockAgrees'
  BY DEF MovesStores, MarkedIsDurable
<1>6. (IInv <=> AllCoherent /\ LockAgrees /\ MarkedIsDurable)'
  BY IInvIsCoherence, PTL
<1> QED
  BY <1>4, <1>5, <1>6

(* Steps that touch neither stores nor the lock, even while a POST is about  *)
(* to leave.                                                                 *)
LEMMA UntouchedKeeps ==
  IInv /\ TypeOK' /\ UNCHANGED <<now, disk, holder, step, work, task, stamp>> => IInv'
BY DEF IInv, AttemptRemembered, Remembers, LockAgrees, AttemptsArePast, MarkIsPast,
       MarkedIsDurable

LEMMA LeaveChecksLocks ==
  LeaveChecks => /\ step' \in {"idle", "finish"}
                 /\ \/ holder' = NoProc /\ step' = "idle"
                    \/ UNCHANGED <<holder, work>> /\ step' = "finish"
BY DEF LeaveChecks, Release, Goto

LEMMA StatusStepIInv == IInv /\ TypeOK' /\ StatusStep => IInv'
<1> SUFFICES ASSUME IInv, TypeOK', StatusStep PROVE IInv'
  OBVIOUS
<1> USE DEF history
<1>0. TypeOK /\ LockAgrees /\ AllCoherent
  BY IInvIsCoherence DEF IInv
<1>1. CASE CancelChecks
  <2>1. MovesStores
    BY <1>0, <1>1, LeaveChecksLocks DEF CancelChecks, MovesStores, LockAgrees
  <2> QED
    BY <2>1, MovesStoresKeeps
<1>2. ASSUME NEW k \in task.checks, BeginLookup(k) PROVE IInv'
  <2>1. MovesStores
    BY <1>0, <1>2 DEF BeginLookup, Goto, MovesStores, LockAgrees
  <2> QED
    BY <2>1, MovesStoresKeeps
<1>3. CASE ReservePage
  <2>1. MovesStores
    BY <1>0, <1>3, LeaveChecksLocks
       DEF ReservePage, Persist, PersistFails, MovesStores, LockAgrees
  <2> QED
    BY <2>1, MovesStoresKeeps
<1>4. ASSUME NEW until \in {0, now + Backoff}, LookupFails(until) PROVE IInv'
  <2>1. until \in Nat
    BY <1>0, TimeAssumption DEF TypeOK
  <2>2. work'.status = work.status
    BY <1>0, <1>4, <2>1, MergeCooldownType DEF LookupFails, TypeOK
  <2>3. MovesStores
    BY <1>0, <1>4, <2>2 DEF LookupFails, Goto, MovesStores, LockAgrees
  <2> QED
    BY <2>3, MovesStoresKeeps
<1>5. ASSUME NEW l \in LookupResult, LookupAnswers(l) PROVE IInv'
  <2>1. l \in Lookup
    BY TimeAssumption DEF LookupResult, Lookup
  <2>2. holder # NoProc
    BY <1>0, <1>5 DEF LookupAnswers, LockAgrees
  <2>3. Coherent(work', stamp, now)
    BY <1>0, <1>5, <2>1, <2>2, CoherentLookup DEF LookupAnswers, AllCoherent, TypeOK
  <2>4. AllCoherent'
    BY <1>0, <1>5, <2>3 DEF LookupAnswers, AllCoherent
  <2>5. LockAgrees' /\ MarkedIsDurable'
    BY <1>5, <2>2 DEF LookupAnswers, Goto, LockAgrees, MarkedIsDurable
  <2>6. (IInv <=> AllCoherent /\ LockAgrees /\ MarkedIsDurable)'
    BY IInvIsCoherence, PTL
  <2> QED
    BY <2>4, <2>5, <2>6
<1>6. CASE SaveLookup
  <2>1. MergeCooldown(work, 0, now).status = work.status
    BY <1>0, MergeCooldownType DEF TypeOK
  <2>2. MovesStores
    BY <1>0, <1>6, <2>1, LeaveChecksLocks
       DEF SaveLookup, Persist, PersistFails, Goto, MovesStores, LockAgrees
  <2> QED
    BY <2>2, MovesStoresKeeps
<1>7. CASE EndChecks
  <2>1. PruneReported(work).status = work.status
    BY <1>0, PruneReportedType DEF TypeOK
  <2>2. MovesStores
    BY <1>0, <1>7, <2>1
       DEF EndChecks, Persist, PersistFails, Goto, Release, MovesStores, LockAgrees
  <2> QED
    BY <2>2, MovesStoresKeeps
<1> QED
  BY <1>1, <1>2, <1>3, <1>4, <1>5, <1>6, <1>7 DEF StatusStep

LEMMA RefreshStepIInv == IInv /\ TypeOK' /\ RefreshStep => IInv'
<1> SUFFICES ASSUME IInv, TypeOK', RefreshStep PROVE IInv'
  OBVIOUS
<1> USE DEF history
<1>0. TypeOK /\ LockAgrees
  BY DEF IInv
<1> SUFFICES MovesStores
  BY MovesStoresKeeps
<1>1. ASSUME NEW c \in Character, NEW corp \in Corporation, RefreshAffiliation(c, corp)
      PROVE  MovesStores
  <2>1. work'.status = work.status
    BY <1>0, <1>1 DEF RefreshAffiliation, TypeOK, Store
  <2> QED
    BY <1>0, <1>1, <2>1 DEF RefreshAffiliation, MovesStores, LockAgrees
<1>2. CASE RotateToken
  BY <1>0, <1>2 DEF RotateToken, Persist, PersistFails, MovesStores, LockAgrees
<1>3. ASSUME NEW sources \in [Killmail -> SUBSET Character], LoadKillmails(sources)
      PROVE  MovesStores
  <2>1. [work EXCEPT !.sources = sources] \in Store
    BY <1>0 DEF TypeOK, Store
  <2>2. [work EXCEPT !.sources = sources].status = work.status
    BY <1>0 DEF TypeOK, Store
  <2>3. work'.status = work.status
    BY <1>3, <2>1, <2>2, PruneReportedType DEF LoadKillmails
  <2>4. disk' \in {disk, work'} /\ step = "load" /\ step' \in {"checks", "finish"}
        /\ UNCHANGED <<now, stamp, holder>>
    BY <1>3 DEF LoadKillmails, Persist, PersistFails, Goto
  <2> QED
    BY <1>0, <2>3, <2>4 DEF MovesStores, LockAgrees
<1>4. CASE LoadFails
  BY <1>0, <1>4 DEF LoadFails, Goto, MovesStores, LockAgrees
<1>5. CASE FinishRefresh
  <2>1. MergeCooldown(work, 0, now).status = work.status
    BY <1>0, MergeCooldownType DEF TypeOK
  <2> QED
    BY <1>0, <1>5, <2>1
       DEF FinishRefresh, Persist, PersistFails, Release, MovesStores, LockAgrees
<1> QED
  BY <1>1, <1>2, <1>3, <1>4, <1>5 DEF RefreshStep

LEMMA PostStepIInv == IInv /\ TypeOK' /\ PostStep => IInv'
<1> SUFFICES ASSUME IInv, TypeOK', PostStep PROVE IInv'
  OBVIOUS
<1> USE DEF history
<1>0. TypeOK /\ LockAgrees /\ AllCoherent /\ MarkedIsDurable
  BY IInvIsCoherence DEF IInv
<1>a. (IInv <=> AllCoherent /\ LockAgrees /\ MarkedIsDurable)'
  BY IInvIsCoherence, PTL
<1>b. EndPost => holder' = NoProc /\ step' = "idle"
  BY DEF EndPost, Release
<1>1. CASE Decide
  <2>1. MovesStores
    BY <1>1 DEF Decide, Release, MovesStores, LockAgrees
  <2> QED
    BY <2>1, MovesStoresKeeps
<1>2. CASE StopPost \/ CancelMarked
  <2>1. MovesStores
    BY <1>2, <1>b DEF StopPost, CancelMarked, MovesStores, LockAgrees
  <2> QED
    BY <2>1, MovesStoresKeeps
<1>3. CASE RecordOutcome
  <2>1. MovesStores
    BY <1>0, <1>3, <1>b
       DEF RecordOutcome, Persist, PersistFails, Goto, MovesStores, LockAgrees
  <2> QED
    BY <2>1, MovesStoresKeeps
<1>4. ASSUME NEW until \in {0, now + Backoff}, PostFails(until) PROVE IInv'
  <2>1. until \in Nat
    BY <1>0, TimeAssumption DEF TypeOK
  <2>2. work'.status = work.status
    BY <1>0, <1>4, <2>1, MergeCooldownType DEF PostFails, TypeOK
  <2>3. MovesStores
    BY <1>0, <1>4, <2>2 DEF PostFails, Goto, MovesStores, LockAgrees
  <2> QED
    BY <2>3, MovesStoresKeeps
<1>5. ASSUME NEW m \in Killmail, SkipKillmail(m) \/ ReservePost(m) \/ SkipExpired(m)
      PROVE  IInv'
  <2>1. MovesStores
    BY <1>0, <1>5, <1>b DEF SkipKillmail, ReservePost, SkipExpired,
                            Persist, PersistFails, Goto, MovesStores, LockAgrees
  <2> QED
    BY <2>1, MovesStoresKeeps
<1>6. ASSUME NEW m \in Killmail, MarkAttempt(m) PROVE IInv'
  <2>1. CASE PersistFails /\ EndPost
    <3>1. MovesStores
      BY <1>6, <2>1, <1>b DEF MarkAttempt, PersistFails, MovesStores, LockAgrees
    <3> QED
      BY <3>1, MovesStoresKeeps
  <2>2. CASE ~(PersistFails /\ EndPost)
    <3>1. holder # NoProc /\ UNCHANGED <<now, stamp, holder, task>> /\ task.current = {m}
          /\ step' = "marked" /\ disk' = [work EXCEPT !.status[m] = PostAttempted(now)]
          /\ work' = disk'
      BY <1>0, <1>6, <2>2 DEF MarkAttempt, LockAgrees, Persist, Goto
    <3>2. Coherent(work', stamp, now)
      BY <1>0, <3>1, CoherentMark DEF AllCoherent, TypeOK
    <3>3. work'.status[m].kind = "PostAttempted"
      BY <1>0, <3>1 DEF PostAttempted, TypeOK, Store
    <3>4. AllCoherent' /\ LockAgrees' /\ MarkedIsDurable'
      BY <1>0, <3>1, <3>2, <3>3 DEF AllCoherent, LockAgrees, MarkedIsDurable
    <3> QED
      BY <3>4, <1>a
  <2> QED
    BY <2>1, <2>2
<1>7. ASSUME NEW m \in Killmail, SendPost(m) PROVE IInv'
  <2>1. disk = work /\ work.status[m].kind = "PostAttempted" /\ holder # NoProc
    BY <1>0, <1>7 DEF SendPost, MarkedIsDurable, LockAgrees
  <2>2. UNCHANGED <<now, disk, work, holder>> /\ step' = "sent"
        /\ stamp' = [stamp EXCEPT ![m] = work.status[m].at]
    BY <1>7 DEF SendPost, Goto
  <2>3. Coherent(work, stamp', now)
    BY <1>0, <2>1, <2>2, CoherentSend DEF AllCoherent, TypeOK
  <2>4. \A n \in Killmail : stamp'[n] <= now
    BY <1>0, <2>1, <2>2 DEF AllCoherent, Coherent, TypeOK
  <2>5. AllCoherent' /\ LockAgrees' /\ MarkedIsDurable'
    BY <2>1, <2>2, <2>3, <2>4 DEF AllCoherent, LockAgrees, MarkedIsDurable
  <2> QED
    BY <2>5, <1>a
<1>8. ASSUME NEW m \in Killmail, PostAccepted(m) PROVE IInv'
  <2> DEFINE s1 == MergeCooldown(work, 0, now)
             s2 == [s1 EXCEPT !.status[m] = Reported]
  <2>1. holder # NoProc
    BY <1>0, <1>8 DEF PostAccepted, LockAgrees
  <2>2. s1 \in Store /\ s1.status = work.status
    BY <1>0, MergeCooldownType DEF TypeOK
  <2>3. Coherent(s1, stamp, now)
    BY <1>0, <2>1, <2>2, CoherentStatus DEF AllCoherent
  <2> HIDE DEF s1
  <2>4. s2 \in Store /\ Coherent(s2, stamp, now)
    BY <2>2, <2>3, StatusTypes, WithStatusType, CoherentReported
  <2> HIDE DEF s2
  <2>5. Coherent(PruneReported(s2), stamp, now)
    BY <2>4, PruneReportedType, CoherentStatus
  <2>6. work' = PruneReported(s2) /\ UNCHANGED <<now, disk, holder, stamp>> /\ step' = "record"
    BY <1>8 DEF PostAccepted, Goto, s1, s2
  <2>7. AllCoherent' /\ LockAgrees' /\ MarkedIsDurable'
    BY <1>0, <2>1, <2>5, <2>6 DEF AllCoherent, LockAgrees, MarkedIsDurable
  <2> QED
    BY <2>7, <1>a
<1> QED
  BY <1>1, <1>2, <1>3, <1>4, <1>5, <1>6, <1>7, <1>8 DEF PostStep

LEMMA UserStepIInv == IInv /\ TypeOK' /\ UserStep => IInv'
<1> SUFFICES ASSUME IInv, TypeOK', UserStep PROVE IInv'
  OBVIOUS
<1> USE DEF history
<1>1. ASSUME NEW p \in Proc, NEW sel,
             BeginRefresh(p) \/ BeginPrepare(p, sel) \/ BeginPost(p)
      PROVE  IInv'
  <2>1. MovesStores
    BY <1>1, NoProcAssumption
       DEF BeginRefresh, BeginPrepare, BeginPost, Acquire, MovesStores, LockAgrees
  <2> QED
    BY <2>1, MovesStoresKeeps
<1>2. ASSUME NEW p \in Poster, Decline(p) PROVE IInv'
  BY <1>2, UntouchedKeeps DEF Decline
<1> QED
  BY <1>1, <1>2 DEF UserStep, Proc

LEMMA EditStepIInv == IInv /\ TypeOK' /\ EditStep => IInv'
<1> SUFFICES ASSUME IInv, TypeOK', EditStep PROVE IInv'
  OBVIOUS
<1>0. disk \in Store /\ LockAgrees
  BY DEF IInv, TypeOK
<1> SUFFICES MovesStores
  BY MovesStoresKeeps
<1>1. ASSUME NEW kind, NEW s, EditStore(kind, s), s.status = disk.status PROVE MovesStores
  BY <1>0, <1>1 DEF EditStore, Persist, MovesStores, LockAgrees, history
<1>2. ASSUME NEW m \in Killmail, NEW protected \in BOOLEAN, SetKillmailProtection(m, protected)
      PROVE  MovesStores
  BY <1>0, <1>1, <1>2 DEF SetKillmailProtection, Store
<1>3. ASSUME NEW c \in Character,
             AddProtectedCharacter(c) \/ RemoveProtectedCharacter(c) \/ RemoveCharacter(c)
      PROVE  MovesStores
  BY <1>0, <1>1, <1>3
     DEF AddProtectedCharacter, RemoveProtectedCharacter, RemoveCharacter, WithoutCharacter, Store
<1>4. ASSUME NEW k \in Corporation, AddProtectedCorporation(k) \/ RemoveProtectedCorporation(k)
      PROVE  MovesStores
  BY <1>0, <1>1, <1>4 DEF AddProtectedCorporation, RemoveProtectedCorporation, Store
<1>5. ASSUME NEW c \in Character, NEW corp \in Corporation \cup {NoCorp}, Authenticate(c, corp)
      PROVE  MovesStores
  BY <1>0, <1>1, <1>5 DEF Authenticate, WithCharacter, Store
<1> QED
  BY <1>2, <1>3, <1>4, <1>5 DEF EditStep

LEMMA EnvironmentIInv == IInv /\ TypeOK' /\ Environment => IInv'
<1> SUFFICES ASSUME IInv, TypeOK', Environment PROVE IInv'
  OBVIOUS
<1> USE DEF history
<1>1. ASSUME NEW p \in Proc, Crash(p) PROVE IInv'
  <2>1. MovesStores
    BY <1>1 DEF Crash, Release, MovesStores, LockAgrees
  <2> QED
    BY <2>1, MovesStoresKeeps
<1>2. ASSUME NEW m \in Killmail, Land(m) \/ PostedElsewhere(m) PROVE IInv'
  BY <1>2, UntouchedKeeps DEF Land, PostedElsewhere
<1>3. CASE Tick
  <2>1. TypeOK /\ AllCoherent /\ LockAgrees /\ MarkedIsDurable
    BY IInvIsCoherence DEF IInv
  <2>2. AllCoherent'
    BY <1>3, <2>1, CoherentLater DEF Tick, AllCoherent, TypeOK, Never
  <2>3. LockAgrees' /\ MarkedIsDurable'
    BY <1>3, <2>1 DEF Tick, LockAgrees, MarkedIsDurable
  <2>4. (IInv <=> AllCoherent /\ LockAgrees /\ MarkedIsDurable)'
    BY IInvIsCoherence, PTL
  <2> QED
    BY <2>2, <2>3, <2>4
<1> QED
  BY <1>1, <1>2, <1>3 DEF Environment

LEMMA InitIInv == Init => IInv
<1> SUFFICES ASSUME Init PROVE IInv
  OBVIOUS
<1>1. TypeOK
  BY InitType
<1>2. disk.status = [m \in Killmail |-> NoStatus]
  BY InitialStoreAssumption DEF Init
<1>3. AllCoherent
  BY <1>2 DEF Init, AllCoherent, Coherent, NoStatus, Never
<1>4. LockAgrees /\ MarkedIsDurable
  BY DEF Init, LockAgrees, MarkedIsDurable
<1> QED
  BY <1>1, <1>3, <1>4, IInvIsCoherence

LEMMA NextIInv == IInv /\ [Next]_vars => IInv'
<1> SUFFICES ASSUME IInv, [Next]_vars PROVE IInv'
  OBVIOUS
<1>1. TypeOK'
  BY NextType DEF IInv
<1>2. CASE UNCHANGED vars
  BY <1>1, <1>2, UntouchedKeeps DEF vars
<1>3. CASE Next
  BY <1>1, <1>3, StatusStepIInv, RefreshStepIInv, PostStepIInv, UserStepIInv,
     EditStepIInv, EnvironmentIInv DEF Next
<1> QED
  BY <1>2, <1>3

\* The inductive invariant of posting: no attempt is forgotten, recorded ones are
\* past, lock and step agree, and what is marked before a POST is durable, whatever
\* crashes between the write, the POST and its answer (posting.rs post, store.rs).
THEOREM Invariant == Spec => []IInv
<1>1. Init => IInv
  BY InitIInv
<1>2. IInv /\ [Next]_vars => IInv'
  BY NextIInv
<1> QED
  BY <1>1, <1>2, PTL DEF Spec

\* Neither the persisted store nor a working copy ever holds a record about a
\* killmail that is older than its last POST, nor forgets that it was sent,
\* whatever crashed, was cancelled, failed to persist or went unanswered
\* (posting.rs post, status.rs apply_lookup).
THEOREM AttemptNeverForgotten == Spec => []AttemptRemembered
<1>1. IInv => AttemptRemembered
  BY DEF IInv
<1> QED
  BY <1>1, Invariant, PTL
=============================================================================
