--------------------------- MODULE PromiseProofs ---------------------------
(***************************************************************************)
(* For every instance of Posting: nothing is sent that its user did not    *)
(* confirm, and no protected victim is sent unless asked for by name       *)
(* (ProtectionHonoured); and Posting implements Submission: every step of  *)
(* an operation, of the environment or of a crash is a step of the promise *)
(* or leaves what the promise speaks of alone.                             *)
(***************************************************************************)
EXTENDS PostingProofs


PostSteps == {"next", "reserved", "marked", "sent", "record"}

\* What a user may ask prepare_post for.
Asked == {SelectAll} \cup {SelectOne(m, anyway) : m \in Killmail, anyway \in BOOLEAN}

-----------------------------------------------------------------------------
(* The inductive invariant about confirmations. *)

\* A confirmation for a protected victim stems from post_anyway.
AnywayAsked ==
  \A p \in Poster : prepared[p].mode = "ProtectedIndividual" => prepared[p].anyway

\* A poster that prepares has no other confirmation open.
PreparesAfresh ==
  /\ step = "decide" => task.kind = "prepare"
  /\ task.kind = "prepare" => /\ holder \in Poster
                              /\ prepared[holder].ids = {}
                              /\ task.selection \in Asked

\* A post works through what its holder confirmed.
PostsConfirmed ==
  /\ task.kind = "post" <=> step \in PostSteps
  /\ step \in PostSteps =>
       /\ holder \in Poster
       /\ task.queue \subseteq prepared[holder].ids
       /\ task.current \subseteq task.queue
  /\ step = "next" => task.current = {}

\* An id that got its turn is durably what the working copy says, and once it
\* is marked its confirmation covers the protection of its victim.
TurnIsDurable ==
  /\ step = "reserved" => disk = work
  /\ step = "marked" =>
       \A m \in task.current : IF prepared[holder].mode = "ProtectedIndividual"
                               THEN prepared[holder].ids = {m}
                               ELSE ~Protected(work, m)

Consent == AnywayAsked /\ PreparesAfresh /\ PostsConfirmed /\ TurnIsDurable

\* Steps that keep the confirmations and neither post nor prepare afterwards,
\* or go on preparing.
KeepsConsent ==
  /\ UNCHANGED prepared
  /\ step' \notin PostSteps
  /\ step' = "decide" => task'.kind = "prepare"
  /\ task'.kind # "post"
  /\ \/ task'.kind # "prepare"
     \/ task'.kind = task.kind /\ task'.selection = task.selection /\ holder' = holder

LEMMA KeepsConsentKeeps == Consent /\ KeepsConsent => Consent'
BY DEF Consent, KeepsConsent, AnywayAsked, PreparesAfresh, PostsConfirmed, TurnIsDurable, PostSteps

LEMMA LeaveChecksConsent ==
  LeaveChecks /\ task.kind # "post" => /\ step' \notin PostSteps \cup {"decide"}
                                       /\ task'.kind # "post"
                                       /\ task'.kind # "prepare"
BY DEF LeaveChecks, Release, Goto, NoTask, PostSteps

LEMMA StatusStepConsent == TypeOK /\ Consent /\ StatusStep => Consent'
<1> SUFFICES ASSUME TypeOK, Consent, StatusStep PROVE Consent'
  OBVIOUS
<1> SUFFICES KeepsConsent
  BY KeepsConsentKeeps
<1> USE DEF Goto
<1>0. task \in Task /\ task.kind # "post"
  BY DEF TypeOK, Consent, PostsConfirmed, PostSteps, StatusStep, CancelChecks, BeginLookup,
         ReservePage, LookupFails, LookupAnswers, SaveLookup, EndChecks
<1>1. CASE CancelChecks
  BY <1>0, <1>1, LeaveChecksConsent DEF CancelChecks, KeepsConsent
<1>2. ASSUME NEW k \in task.checks, BeginLookup(k) PROVE KeepsConsent
  BY <1>0, <1>2 DEF BeginLookup, KeepsConsent, PostSteps, Task
<1>3. CASE ReservePage
  BY <1>0, <1>3, LeaveChecksConsent DEF ReservePage, KeepsConsent, PostSteps
<1>4. ASSUME NEW until \in {0, now + Backoff}, LookupFails(until) PROVE KeepsConsent
  BY <1>0, <1>4 DEF LookupFails, EndCheck, KeepsConsent, PostSteps, Task
<1>5. ASSUME NEW l \in LookupResult, LookupAnswers(l) PROVE KeepsConsent
  BY <1>0, <1>5 DEF LookupAnswers, KeepsConsent, PostSteps, Task
<1>6. CASE SaveLookup
  BY <1>0, <1>6, LeaveChecksConsent DEF SaveLookup, EndCheck, KeepsConsent, PostSteps, Task
<1>7. CASE EndChecks
  BY <1>0, <1>7 DEF EndChecks, Release, NoTask, KeepsConsent, PostSteps
<1> QED
  BY <1>1, <1>2, <1>3, <1>4, <1>5, <1>6, <1>7 DEF StatusStep

LEMMA RefreshStepConsent == TypeOK /\ Consent /\ RefreshStep => Consent'
<1> SUFFICES ASSUME TypeOK, Consent, RefreshStep PROVE Consent'
  OBVIOUS
<1> SUFFICES KeepsConsent
  BY KeepsConsentKeeps
<1> USE DEF Goto
<1>0. task \in Task /\ task.kind # "post"
  BY DEF TypeOK, Consent, PostsConfirmed, PostSteps, RefreshStep, RefreshAffiliation, RotateToken,
         LoadKillmails, LoadFails, FinishRefresh
<1>1. ASSUME NEW c \in Character, NEW corp \in Corporation, RefreshAffiliation(c, corp)
      PROVE  KeepsConsent
  BY <1>0, <1>1 DEF RefreshAffiliation, KeepsConsent, PostSteps
<1>2. CASE RotateToken \/ LoadFails
  BY <1>0, <1>2 DEF RotateToken, LoadFails, KeepsConsent, PostSteps
<1>3. ASSUME NEW sources \in [Killmail -> SUBSET Character], LoadKillmails(sources)
      PROVE  KeepsConsent
  <2>1. task'.kind = task.kind /\ task'.selection = task.selection
    BY <1>0, <1>3 DEF LoadKillmails, StartChecks, Task
  <2> QED
    BY <1>0, <1>3, <2>1 DEF LoadKillmails, KeepsConsent, PostSteps
<1>4. CASE FinishRefresh
  BY <1>0, <1>4 DEF FinishRefresh, Release, NoTask, KeepsConsent, PostSteps
<1> QED
  BY <1>1, <1>2, <1>3, <1>4 DEF RefreshStep

\* What prepare_post makes of what was asked.
LEMMA DecidedAsked ==
  ASSUME NEW s, NEW sel \in Asked, Confirmable(s, sel) # {}, ModeOf(s, sel) = "ProtectedIndividual"
  PROVE  sel.anyway
BY DEF Asked, SelectAll, SelectOne, Confirmable, ModeOf

LEMMA EndPostConsent ==
  ASSUME TypeOK, Consent, EndPost
  PROVE  Consent'
<1>1. prepared' = [prepared EXCEPT ![holder] = NoPost] /\ task' = NoTask /\ step' = "idle"
  BY DEF EndPost, Release
<1>2. AnywayAsked'
  BY <1>1 DEF AnywayAsked, Consent, TypeOK, NoPost
<1> QED
  BY <1>1, <1>2 DEF Consent, PreparesAfresh, PostsConfirmed, TurnIsDurable, PostSteps, NoTask

LEMMA PostStepConsent == TypeOK /\ Consent /\ PostStep => Consent'
<1> SUFFICES ASSUME TypeOK, Consent, PostStep PROVE Consent'
  OBVIOUS
<1> USE DEF Goto
<1>0. task \in Task
  BY DEF TypeOK
<1>1. CASE Decide
  <2>1. prepared' = [prepared EXCEPT ![holder] =
           IF Confirmable(work, task.selection) = {} THEN NoPost
           ELSE [ids |-> Confirmable(work, task.selection),
                 mode |-> ModeOf(work, task.selection), anyway |-> task.selection.anyway]]
        /\ task' = NoTask /\ step' = "idle" /\ step = "decide"
    BY <1>1 DEF Decide, Release
  <2>2. CASE task.selection \in Asked
    <3>1. AnywayAsked'
      BY <2>1, <2>2, DecidedAsked DEF AnywayAsked, Consent, TypeOK, NoPost
    <3> QED
      BY <2>1, <3>1
         DEF Consent, PreparesAfresh, PostsConfirmed, TurnIsDurable, PostSteps, NoTask
  <2>3. task.selection \in Asked
    BY <2>1 DEF Consent, PreparesAfresh
  <2> QED
    BY <2>2, <2>3
<1>2. CASE StopPost \/ CancelMarked
  BY <1>2, EndPostConsent DEF StopPost, CancelMarked
<1>3. CASE RecordOutcome
  <2>1. CASE EndPost
    BY <2>1, EndPostConsent
  <2>2. CASE ~EndPost
    <3>1. task'.queue = task.queue \ task.current /\ task'.current = {} /\ task'.kind = task.kind
      BY <1>0, <1>3, <2>2 DEF RecordOutcome, NextId, Task
    <3>2. UNCHANGED <<prepared, holder>> /\ step' = "next" /\ step = "record"
      BY <1>3, <2>2 DEF RecordOutcome
    <3> QED
      BY <3>1, <3>2
         DEF Consent, AnywayAsked, PreparesAfresh, PostsConfirmed, TurnIsDurable, PostSteps
  <2> QED
    BY <2>1, <2>2
<1>4. ASSUME NEW until \in {0, now + Backoff}, PostFails(until) PROVE Consent'
  BY <1>4 DEF PostFails, Consent, AnywayAsked, PreparesAfresh, PostsConfirmed, TurnIsDurable,
              PostSteps
<1>5. ASSUME NEW m \in Killmail, SkipKillmail(m) PROVE Consent'
  <2>1. task'.queue = task.queue \ {m} /\ task'.current = task.current /\ task'.kind = task.kind
    BY <1>0, <1>5 DEF SkipKillmail, Task
  <2>2. UNCHANGED <<prepared, holder, step>> /\ step = "next"
    BY <1>5 DEF SkipKillmail
  <2> QED
    BY <2>1, <2>2
       DEF Consent, AnywayAsked, PreparesAfresh, PostsConfirmed, TurnIsDurable, PostSteps
<1>6. ASSUME NEW m \in Killmail, ReservePost(m) PROVE Consent'
  <2>1. CASE EndPost
    BY <2>1, EndPostConsent
  <2>2. CASE ~EndPost
    <3>1. /\ task'.queue = task.queue /\ task'.current = {m} /\ task'.kind = task.kind
          /\ m \in task.queue
      BY <1>0, <1>6, <2>2 DEF ReservePost, Task
    <3>2. /\ UNCHANGED <<prepared, holder, work>> /\ disk' = work
          /\ step' = "reserved" /\ step = "next"
      BY <1>6, <2>2 DEF ReservePost, Persist
    <3> QED
      BY <3>1, <3>2
         DEF Consent, AnywayAsked, PreparesAfresh, PostsConfirmed, TurnIsDurable, PostSteps
  <2> QED
    BY <2>1, <2>2
<1>7. ASSUME NEW m \in Killmail, SkipExpired(m) PROVE Consent'
  <2>1. task'.queue = task.queue \ task.current /\ task'.current = {} /\ task'.kind = task.kind
    BY <1>0, <1>7 DEF SkipExpired, NextId, Task
  <2>2. UNCHANGED <<prepared, holder>> /\ step' = "next" /\ step = "reserved"
    BY <1>7 DEF SkipExpired
  <2> QED
    BY <2>1, <2>2
       DEF Consent, AnywayAsked, PreparesAfresh, PostsConfirmed, TurnIsDurable, PostSteps
<1>8. ASSUME NEW m \in Killmail, MarkAttempt(m) PROVE Consent'
  <2>1. CASE EndPost
    BY <2>1, EndPostConsent
  <2>2. CASE ~EndPost
    <3>1. /\ UNCHANGED <<prepared, holder, task>> /\ task.current = {m}
          /\ work' = [work EXCEPT !.status[m] = PostAttempted(now)]
          /\ step' = "marked" /\ step = "reserved"
          /\ Permitted(work, m, prepared[holder])
      BY <1>8, <2>2 DEF MarkAttempt
    <3>2. Protected(work', m) <=> Protected(work, m)
      BY <3>1 DEF Protected, TypeOK, Store
    <3> QED
      BY <3>1, <3>2 DEF Permitted, Consent, AnywayAsked, PreparesAfresh, PostsConfirmed,
                        TurnIsDurable, PostSteps
  <2> QED
    BY <2>1, <2>2
<1>9. ASSUME NEW m \in Killmail, SendPost(m) \/ PostAccepted(m) PROVE Consent'
  BY <1>9 DEF SendPost, PostAccepted, Consent, AnywayAsked, PreparesAfresh, PostsConfirmed,
              TurnIsDurable, PostSteps
<1> QED
  BY <1>1, <1>2, <1>3, <1>4, <1>5, <1>6, <1>7, <1>8, <1>9 DEF PostStep

LEMMA UserStepConsent == TypeOK /\ LockAgrees /\ Consent /\ UserStep => Consent'
<1> SUFFICES ASSUME TypeOK, LockAgrees, Consent, UserStep PROVE Consent'
  OBVIOUS
<1>1. ASSUME NEW p \in Refresher, BeginRefresh(p) PROVE Consent'
  <2>1. task'.kind = "refresh" /\ step' = "load" /\ UNCHANGED prepared
    BY <1>1 DEF BeginRefresh, NoTask
  <2> QED
    BY <2>1, KeepsConsentKeeps DEF KeepsConsent, PostSteps
<1>2. ASSUME NEW p \in Poster, NEW sel \in Asked, BeginPrepare(p, sel) PROVE Consent'
  <2>1. /\ task'.kind = "prepare" /\ task'.selection = sel
        /\ step' \in {"checks", "decide"} /\ holder' = p
        /\ UNCHANGED prepared /\ prepared[p] = NoPost
    BY <1>2 DEF BeginPrepare, Acquire, StartChecks, NoTask
  <2> QED
    BY <2>1 DEF Consent, AnywayAsked, PreparesAfresh, PostsConfirmed, TurnIsDurable, PostSteps,
                NoPost
<1>3. ASSUME NEW p \in Poster, Decline(p) PROVE Consent'
  <2>1. /\ UNCHANGED <<step, task, holder, disk, work>> /\ holder # p
        /\ prepared' = [prepared EXCEPT ![p] = NoPost]
    BY <1>3 DEF Decline
  <2>2. \A q \in Poster : q # p => prepared'[q] = prepared[q]
    BY <2>1 DEF TypeOK
  <2>3. prepared'[p] = NoPost
    BY <2>1 DEF TypeOK
  <2> QED
    BY <2>1, <2>2, <2>3
       DEF Consent, AnywayAsked, PreparesAfresh, PostsConfirmed, TurnIsDurable, PostSteps, NoPost
<1>4. ASSUME NEW p \in Poster, BeginPost(p) PROVE Consent'
  <2>1. /\ task'.kind = "post" /\ task'.queue = prepared[p].ids /\ task'.current = {}
        /\ step' = "next" /\ holder' = p /\ UNCHANGED prepared
    BY <1>4 DEF BeginPost, Acquire, NoTask
  <2> QED
    BY <2>1 DEF Consent, AnywayAsked, PreparesAfresh, PostsConfirmed, TurnIsDurable, PostSteps
<1> QED
  BY <1>1, <1>2, <1>3, <1>4 DEF UserStep, Asked

LEMMA OtherStepConsent ==
  TypeOK /\ LockAgrees /\ Consent /\ (EditStep \/ Environment) => Consent'
<1> SUFFICES ASSUME TypeOK, LockAgrees, Consent, EditStep \/ Environment PROVE Consent'
  OBVIOUS
<1>1. CASE EditStep
  <2>1. step = "idle" /\ UNCHANGED <<step, task, holder, prepared, work>>
    BY <1>1 DEF EditStep, SetKillmailProtection, AddProtectedCharacter, RemoveProtectedCharacter,
                AddProtectedCorporation, RemoveProtectedCorporation, Authenticate,
                RemoveCharacter, EditStore, LockAgrees
  <2> QED
    BY <2>1 DEF Consent, AnywayAsked, PreparesAfresh, PostsConfirmed, TurnIsDurable, PostSteps
<1>2. ASSUME NEW p \in Proc, Crash(p) PROVE Consent'
  <2>1. task' = NoTask /\ step' = "idle"
        /\ prepared' = [q \in Poster |-> IF q = p THEN NoPost ELSE prepared[q]]
    BY <1>2 DEF Crash, Release
  <2> QED
    BY <2>1 DEF Consent, AnywayAsked, PreparesAfresh, PostsConfirmed, TurnIsDurable, PostSteps,
                NoTask, NoPost
<1>3. CASE Tick \/ \E m \in Killmail : Land(m) \/ PostedElsewhere(m)
  BY <1>3 DEF Tick, Land, PostedElsewhere, Consent, AnywayAsked, PreparesAfresh, PostsConfirmed,
              TurnIsDurable, PostSteps
<1> QED
  BY <1>1, <1>2, <1>3 DEF Environment

LEMMA InitConsent == Init => Consent
BY DEF Init, Consent, AnywayAsked, PreparesAfresh, PostsConfirmed, TurnIsDurable, PostSteps,
       NoTask, NoPost

LEMMA NextConsent == IInv /\ Consent /\ [Next]_vars => Consent'
<1> SUFFICES ASSUME IInv, Consent, [Next]_vars PROVE Consent'
  OBVIOUS
<1>1. CASE UNCHANGED vars
  BY <1>1 DEF vars, Consent, AnywayAsked, PreparesAfresh, PostsConfirmed, TurnIsDurable, PostSteps
<1>2. CASE Next
  BY <1>2, StatusStepConsent, RefreshStepConsent, PostStepConsent, UserStepConsent,
     OtherStepConsent DEF Next, IInv
<1> QED
  BY <1>1, <1>2

LEMMA ConsentInvariant == Spec => []Consent
<1>1. Init => Consent
  BY InitConsent
<1>2. IInv /\ Consent /\ [Next]_vars => Consent'
  BY NextConsent
<1> QED
  BY <1>1, <1>2, Invariant, PTL DEF Spec

-----------------------------------------------------------------------------
(* Protection *)

\* Only a POST that leaves changes a stamp.
LEMMA OnlySendStamps ==
  ASSUME [Next]_vars, stamp' # stamp
  PROVE  \E m \in Killmail : SendPost(m)
<1> USE DEF history
<1>1. ~StatusStep
  BY DEF StatusStep, CancelChecks, BeginLookup, ReservePage, LookupFails, LookupAnswers,
         SaveLookup, EndChecks
<1>2. ~RefreshStep
  BY DEF RefreshStep, RefreshAffiliation, RotateToken, LoadKillmails, LoadFails, FinishRefresh
<1>3. ~UserStep
  BY DEF UserStep, BeginRefresh, BeginPrepare, Decline, BeginPost
<1>4. ~EditStep
  BY DEF EditStep, SetKillmailProtection, AddProtectedCharacter, RemoveProtectedCharacter,
         AddProtectedCorporation, RemoveProtectedCorporation, Authenticate, RemoveCharacter,
         EditStore
<1>5. ~Environment
  BY DEF Environment, Crash, Land, PostedElsewhere, Tick
<1>6. PostStep
  BY <1>1, <1>2, <1>3, <1>4, <1>5 DEF Next, vars
<1> QED
  BY <1>6 DEF PostStep, Decide, StopPost, CancelMarked, RecordOutcome, PostFails, SkipKillmail,
              ReservePost, SkipExpired, MarkAttempt, PostAccepted

\* Whatever edits of the protection, of the characters and of their
\* corporations run between a confirmation and the POST it allows, a killmail
\* whose victim is protected in the persisted store is only sent when the user
\* asked for exactly that killmail with post_anyway (posting.rs prepare_post,
\* post_permission).
THEOREM ProtectionIsHonoured == Spec => ProtectionHonoured
<1>1. IInv /\ Consent /\ [Next]_vars =>
        [\A m \in Killmail : stamp'[m] # stamp[m] =>
           /\ m \in prepared[holder].ids
           /\ Protected(disk, m) => prepared[holder].anyway /\ prepared[holder].ids = {m}]_vars
  <2> SUFFICES ASSUME IInv, Consent, [Next]_vars, NEW m \in Killmail, stamp'[m] # stamp[m]
               PROVE  /\ m \in prepared[holder].ids
                      /\ Protected(disk, m) =>
                           prepared[holder].anyway /\ prepared[holder].ids = {m}
    OBVIOUS
  <2>1. PICK n \in Killmail : SendPost(n)
    BY OnlySendStamps
  <2>2. step = "marked" /\ task.current = {n} /\ m = n
    BY <2>1 DEF SendPost, IInv, TypeOK
  <2>3. holder \in Poster /\ n \in prepared[holder].ids
    BY <2>2 DEF Consent, PostsConfirmed, PostSteps
  <2>4. disk = work
    BY <2>2 DEF IInv, MarkedIsDurable
  <2>5. IF prepared[holder].mode = "ProtectedIndividual" THEN prepared[holder].ids = {n}
                                                         ELSE ~Protected(work, n)
    BY <2>2 DEF Consent, TurnIsDurable
  <2>6. prepared[holder].mode = "ProtectedIndividual" => prepared[holder].anyway
    BY <2>3 DEF Consent, AnywayAsked
  <2> QED
    BY <2>2, <2>3, <2>4, <2>5, <2>6
<1> QED
  BY <1>1, Invariant, ConsentInvariant, PTL DEF Spec, ProtectionHonoured

-----------------------------------------------------------------------------
(* Posting implements Submission *)


EvidenceOf(s) ==
  [m \in Killmail |-> IF ReportState(s, m, now) = "Unreported" THEN s.status[m].at ELSE Never]

(* The evidence a step may leave on disk without a POST being about to leave: *)
(* what was there, nothing, or something newer than the last POST.            *)
Learned(s) ==
  \A m \in Killmail :
     \/ EvidenceOf(s)[m] \in {EvidenceOf(disk)[m], Never}
     \/ EvidenceOf(s)[m] > stamp[m]

LEMMA LearnedSame == ASSUME NEW s, s.status = disk.status PROVE Learned(s)
BY DEF Learned, EvidenceOf, ReportState

LEMMA LearnedWork ==
  ASSUME IInv, holder # NoProc, NEW s, s.status = work.status PROVE Learned(s)
<1>1. Coherent(work, stamp, now)
  BY IInvIsCoherence DEF IInv, AllCoherent
<1> QED
  BY <1>1 DEF Learned, EvidenceOf, ReportState, Coherent

\* A step that neither arms nor fires, and gives up no confirmation.
LEMMA LearnStep ==
  ASSUME Learned(disk'), Armed = {}, Armed' = {}, UNCHANGED <<now, stamp>>,
         OpenConsent' = OpenConsent
  PROVE  [Promise!Next]_Promise!vars
<1>1. DurableEvidence = EvidenceOf(disk) /\ DurableEvidence' = EvidenceOf(disk')
  BY DEF DurableEvidence, EvidenceOf, ReportState
<1>2. Promise!Learn
  BY <1>1 DEF Promise!Learn, Promise!Never, Learned, Never
<1> QED
  BY <1>2 DEF Promise!Next

\* A step that may give up confirmations of p, and what was armed with them.
LEMMA WithdrawStep ==
  ASSUME disk'.status = disk.status, Armed' \in {Armed, {}}, UNCHANGED <<now, stamp>>,
         NEW p \in Poster, NEW ids \in SUBSET OpenConsent[p],
         OpenConsent' = [OpenConsent EXCEPT ![p] = ids]
  PROVE  [Promise!Next]_Promise!vars
<1>1. DurableEvidence' = DurableEvidence
  BY DEF DurableEvidence, ReportState
<1>2. Promise!Withdraw(p)
  BY <1>1 DEF Promise!Withdraw
<1> QED
  BY <1>2 DEF Promise!Next

(* Steps outside a post, or at its edges, that leave the confirmations alone. *)
QuietStep ==
  /\ UNCHANGED <<now, prepared, stamp>>
  /\ step # "marked"
  /\ step' # "marked"
  /\ task.kind # "post"
  /\ task'.kind # "post"
  /\ Learned(disk')

LEMMA QuietStepRefines ==
  ASSUME QuietStep
  PROVE  [Promise!Next]_Promise!vars
<1>1. OpenConsent' = OpenConsent
  BY DEF QuietStep, OpenConsent
<1>2. Armed = {} /\ Armed' = {}
  BY DEF QuietStep, Armed
<1> QED
  BY <1>1, <1>2, LearnStep DEF QuietStep

LEMMA StatusStepRefines ==
  ASSUME IInv, Consent, StatusStep
  PROVE  [Promise!Next]_Promise!vars
<1> SUFFICES QuietStep
  BY QuietStepRefines
<1> USE DEF history, Goto, Persist, PersistFails
<1>0. TypeOK /\ holder # NoProc /\ task.kind # "post" /\ task \in Task /\ step # "marked"
  BY DEF IInv, LockAgrees, TypeOK, Consent, PostsConfirmed, PostSteps, StatusStep, CancelChecks,
         BeginLookup, ReservePage, LookupFails, LookupAnswers, SaveLookup, EndChecks
<1>1. Learned(disk) /\ Learned(work)
  BY <1>0, LearnedSame, LearnedWork
<1>a. LeaveChecks => step' # "marked" /\ task'.kind # "post"
  BY <1>0, LeaveChecksConsent DEF PostSteps
<1>2. CASE CancelChecks \/ ReservePage
  BY <1>0, <1>1, <1>2, <1>a DEF CancelChecks, ReservePage, QuietStep
<1>3. ASSUME NEW k \in task.checks, BeginLookup(k) PROVE QuietStep
  BY <1>0, <1>1, <1>3 DEF BeginLookup, QuietStep, Task
<1>4. ASSUME NEW until \in {0, now + Backoff}, LookupFails(until) PROVE QuietStep
  BY <1>0, <1>1, <1>4 DEF LookupFails, EndCheck, QuietStep, Task
<1>5. ASSUME NEW l \in LookupResult, LookupAnswers(l) PROVE QuietStep
  BY <1>0, <1>1, <1>5 DEF LookupAnswers, QuietStep, Task
<1>6. CASE SaveLookup
  BY <1>0, <1>1, <1>6, <1>a DEF SaveLookup, EndCheck, QuietStep, Task
<1>7. CASE EndChecks
  <2>1. Learned(PruneReported(work))
    BY <1>0, LearnedWork, PruneReportedType DEF TypeOK
  <2>2. /\ UNCHANGED <<now, prepared, stamp>> /\ disk' \in {disk, PruneReported(work)}
        /\ step' # "marked" /\ task' \in {task, NoTask}
    BY <1>7 DEF EndChecks, Release
  <2> QED
    BY <1>0, <1>1, <2>1, <2>2 DEF QuietStep, NoTask
<1> QED
  BY <1>2, <1>3, <1>4, <1>5, <1>6, <1>7 DEF StatusStep

LEMMA RefreshStepRefines ==
  ASSUME IInv, Consent, RefreshStep
  PROVE  [Promise!Next]_Promise!vars
<1> SUFFICES QuietStep
  BY QuietStepRefines
<1> USE DEF history, Goto, Persist, PersistFails
<1>0. TypeOK /\ holder # NoProc /\ task.kind # "post" /\ task \in Task /\ step # "marked"
  BY DEF IInv, LockAgrees, TypeOK, Consent, PostsConfirmed, PostSteps, RefreshStep,
         RefreshAffiliation, RotateToken, LoadKillmails, LoadFails, FinishRefresh
<1>1. Learned(disk) /\ Learned(work)
  BY <1>0, LearnedSame, LearnedWork
<1>2. ASSUME NEW c \in Character, NEW corp \in Corporation, RefreshAffiliation(c, corp)
      PROVE  QuietStep
  BY <1>0, <1>1, <1>2 DEF RefreshAffiliation, QuietStep
<1>3. CASE RotateToken \/ LoadFails
  BY <1>0, <1>1, <1>3 DEF RotateToken, LoadFails, QuietStep
<1>4. ASSUME NEW sources \in [Killmail -> SUBSET Character], LoadKillmails(sources)
      PROVE  QuietStep
  <2>1. /\ [work EXCEPT !.sources = sources] \in Store
        /\ [work EXCEPT !.sources = sources].status = work.status
    BY <1>0 DEF TypeOK, Store
  <2>2. work'.status = work.status
    BY <1>4, <2>1, PruneReportedType DEF LoadKillmails
  <2>3. Learned(work')
    BY <1>0, <2>2, LearnedWork
  <2>4. task'.kind = task.kind
    BY <1>0, <1>4 DEF LoadKillmails, StartChecks, Task
  <2> QED
    BY <1>0, <1>1, <1>4, <2>3, <2>4 DEF LoadKillmails, QuietStep
<1>5. CASE FinishRefresh
  <2>1. Learned(MergeCooldown(work, 0, now))
    BY <1>0, LearnedWork, MergeCooldownType DEF TypeOK
  <2> QED
    BY <1>0, <1>1, <1>5, <2>1 DEF FinishRefresh, Release, NoTask, QuietStep
<1> QED
  BY <1>2, <1>3, <1>4, <1>5 DEF RefreshStep

-----------------------------------------------------------------------------
(* Posting.  The holder's confirmation is worked off the queue. *)

LEMMA ConsentFunctions ==
  ASSUME NEW p \in Poster, \A q \in Poster : q # p => OpenConsent'[q] = OpenConsent[q]
  PROVE  OpenConsent' = [OpenConsent EXCEPT ![p] = OpenConsent'[p]]
BY DEF OpenConsent

\* Ending a post withdraws what is left of its confirmation.
LEMMA EndPostRefines ==
  ASSUME IInv, Consent, step \in PostSteps, EndPost, disk' = disk, UNCHANGED <<now, stamp>>
  PROVE  [Promise!Next]_Promise!vars
<1>1. holder \in Poster /\ task.kind = "post"
  BY DEF Consent, PostsConfirmed
<1>2. /\ prepared' = [prepared EXCEPT ![holder] = NoPost] /\ task' = NoTask
      /\ step' = "idle" /\ holder' = NoProc
  BY DEF EndPost, Release
<1>3. OpenConsent'[holder] = {}
  BY <1>1, <1>2 DEF OpenConsent, NoTask, NoPost, IInv, TypeOK
<1>4. \A q \in Poster : q # holder => OpenConsent'[q] = OpenConsent[q]
  BY <1>1, <1>2 DEF OpenConsent, NoTask, IInv, TypeOK
<1>5. OpenConsent' = [OpenConsent EXCEPT ![holder] = {}]
  BY <1>1, <1>3, <1>4, ConsentFunctions
<1>6. Armed' = {}
  BY <1>2 DEF Armed
<1> QED
  BY <1>1, <1>5, <1>6, WithdrawStep

\* Within a post, a step that may shorten the queue and sends nothing.
QueueStep ==
  /\ UNCHANGED <<now, prepared, stamp, holder>>
  /\ step \in PostSteps \ {"marked"}
  /\ step' \in PostSteps \ {"marked"}
  /\ task'.kind = "post"

Open(st, tsk) == IF st \in {"sent", "record"} THEN tsk.queue \ tsk.current ELSE tsk.queue

LEMMA QueueStepRefines ==
  ASSUME IInv, Consent, QueueStep,
         \/ disk' = disk /\ Open(step', task') \subseteq Open(step, task)
         \/ Learned(disk') /\ Open(step', task') = Open(step, task)
  PROVE  [Promise!Next]_Promise!vars
<1>1. holder \in Poster /\ task.kind = "post"
  BY DEF Consent, PostsConfirmed, QueueStep
<1>2. OpenConsent[holder] = Open(step, task) /\ OpenConsent'[holder] = Open(step', task')
  BY <1>1 DEF OpenConsent, Open, QueueStep
<1>3. \A q \in Poster : q # holder => OpenConsent'[q] = OpenConsent[q]
  BY <1>1 DEF OpenConsent, QueueStep
<1>4. Armed = {} /\ Armed' = {}
  BY DEF Armed, QueueStep
<1>5. OpenConsent' = [OpenConsent EXCEPT ![holder] = Open(step', task')]
  BY <1>1, <1>2, <1>3, ConsentFunctions
<1>6. CASE disk' = disk /\ Open(step', task') \subseteq Open(step, task)
  BY <1>1, <1>2, <1>4, <1>5, <1>6, WithdrawStep DEF QueueStep
<1>7. CASE Learned(disk') /\ Open(step', task') = Open(step, task)
  <2>1. OpenConsent' = OpenConsent
    BY <1>2, <1>5, <1>7 DEF OpenConsent
  <2> QED
    BY <1>4, <1>7, <2>1, LearnStep DEF QueueStep
<1> QED
  BY <1>6, <1>7

LEMMA MarkRefines ==
  ASSUME IInv, Consent, NEW m \in Killmail, MarkAttempt(m), ~EndPost
  PROVE  [Promise!Next]_Promise!vars
<1>1. /\ step = "reserved" /\ step' = "marked" /\ task.current = {m}
      /\ UNCHANGED <<now, task, prepared, holder, stamp>>
      /\ disk' = [work EXCEPT !.status[m] = PostAttempted(now)]
      /\ Permitted(work, m, prepared[holder])
  BY DEF MarkAttempt, Persist, PersistFails, Goto, history
<1>2. holder \in Poster /\ task.kind = "post" /\ m \in task.queue /\ disk = work
  BY <1>1 DEF Consent, PostsConfirmed, TurnIsDurable, PostSteps
<1>3. ReportState(disk, m, now) = "Unreported" /\ disk.status[m].at \in Nat
  BY <1>1, <1>2 DEF Permitted, ReportState, IInv, TypeOK, Store, ZkillStatus
<1>4. m \in OpenConsent[holder] /\ OpenConsent' = OpenConsent
  BY <1>1, <1>2 DEF OpenConsent
<1>5. Armed = {} /\ Armed' = {m}
  BY <1>1 DEF Armed
<1>6. disk' = [disk EXCEPT !.status[m] = PostAttempted(now)]
  BY <1>1, <1>2
<1>7. disk'.status = [disk.status EXCEPT ![m] = PostAttempted(now)]
  BY <1>6 DEF IInv, TypeOK, Store
<1>8. DurableEvidence[m] # Never /\ DurableEvidence' = [DurableEvidence EXCEPT ![m] = Never]
  <2>1. disk'.status[m].kind = "PostAttempted"
    BY <1>7 DEF PostAttempted, IInv, TypeOK, Store
  <2>2. \A n \in Killmail : n # m => disk'.status[n] = disk.status[n]
    BY <1>7 DEF IInv, TypeOK, Store
  <2>3. DurableEvidence'[m] = Never
    BY <2>1 DEF DurableEvidence, ReportState
  <2>4. \A n \in Killmail : n # m => DurableEvidence'[n] = DurableEvidence[n]
    BY <1>1, <2>2 DEF DurableEvidence, ReportState
  <2>5. DurableEvidence[m] = disk.status[m].at
    BY <1>3 DEF DurableEvidence
  <2>6. DurableEvidence' = [DurableEvidence EXCEPT ![m] = Never]
    BY <2>3, <2>4 DEF DurableEvidence
  <2> QED
    BY <1>3, <2>5, <2>6 DEF Never
<1>9. Promise!Arm(holder, m)
  BY <1>1, <1>4, <1>5, <1>8 DEF Promise!Arm, Promise!Never, Never
<1> QED
  BY <1>2, <1>9 DEF Promise!Next

LEMMA SendRefines ==
  ASSUME IInv, Consent, NEW m \in Killmail, SendPost(m)
  PROVE  [Promise!Next]_Promise!vars
<1>1. /\ step = "marked" /\ step' = "sent" /\ task.current = {m}
      /\ UNCHANGED <<now, task, prepared, holder, disk>>
      /\ stamp' = [stamp EXCEPT ![m] = work.status[m].at]
  BY DEF SendPost, Goto
<1>2. holder \in Poster /\ task.kind = "post" /\ m \in task.queue
  BY <1>1 DEF Consent, PostsConfirmed, PostSteps
<1>3. work.status[m].kind = "PostAttempted" /\ holder # NoProc
  BY <1>1 DEF IInv, MarkedIsDurable, LockAgrees
<1>4. work.status[m].at >= stamp[m]
  BY <1>3 DEF IInv, AttemptRemembered, Remembers
<1>5. stamp'[m] >= stamp[m] /\ stamp' = [stamp EXCEPT ![m] = stamp'[m]]
  BY <1>1, <1>4 DEF IInv, TypeOK
<1>6. Armed = {m} /\ Armed' = {}
  BY <1>1 DEF Armed
<1>7. m \in OpenConsent[holder] /\ OpenConsent[holder] = task.queue
      /\ OpenConsent'[holder] = task.queue \ {m}
  BY <1>1, <1>2 DEF OpenConsent
<1>8. \A q \in Poster : q # holder => OpenConsent'[q] = OpenConsent[q]
  BY <1>1, <1>2 DEF OpenConsent
<1>9. OpenConsent' = [OpenConsent EXCEPT ![holder] = OpenConsent[holder] \ {m}]
  <2>1. OpenConsent' = [OpenConsent EXCEPT ![holder] = OpenConsent'[holder]]
    BY <1>2, <1>8, ConsentFunctions
  <2>2. OpenConsent'[holder] = OpenConsent[holder] \ {m}
    BY <1>7
  <2> QED
    BY <2>1, <2>2
<1>10. DurableEvidence' = DurableEvidence
  BY <1>1 DEF DurableEvidence, ReportState
<1>11. Promise!Fire(holder, m)
  BY <1>5, <1>6, <1>7, <1>9, <1>10, Zenon DEF Promise!Fire
<1> QED
  BY <1>2, <1>11 DEF Promise!Next

LEMMA DecideRefines ==
  ASSUME IInv, Consent, Decide
  PROVE  [Promise!Next]_Promise!vars
<1> DEFINE ids == Confirmable(work, task.selection)
           prep == IF ids = {} THEN NoPost
                   ELSE [ids |-> ids, mode |-> ModeOf(work, task.selection),
                         anyway |-> task.selection.anyway]
<1>1. /\ step = "decide" /\ step' = "idle" /\ task' = NoTask /\ holder' = NoProc
      /\ prepared' = [prepared EXCEPT ![holder] = prep] /\ UNCHANGED <<now, disk, stamp>>
  BY DEF Decide, Release, history
<1>2. task.kind = "prepare" /\ holder \in Poster /\ prepared[holder].ids = {}
  BY <1>1 DEF Consent, PreparesAfresh
<1>3. prep.ids \in SUBSET Killmail
  BY PreparedTypes DEF NoPost
<1> HIDE DEF prep
<1>4. OpenConsent[holder] = {} /\ OpenConsent'[holder] = prep.ids
  BY <1>1, <1>2 DEF OpenConsent, NoTask, IInv, TypeOK
<1>5. \A q \in Poster : q # holder => OpenConsent'[q] = OpenConsent[q]
  BY <1>1, <1>2 DEF OpenConsent, NoTask, IInv, TypeOK
<1>6. OpenConsent' = [OpenConsent EXCEPT ![holder] = prep.ids]
  BY <1>2, <1>4, <1>5, ConsentFunctions
<1>7. DurableEvidence' = DurableEvidence /\ Armed' = Armed
  BY <1>1 DEF DurableEvidence, ReportState, Armed
<1>8. Promise!Confirm(holder)
  BY <1>1, <1>3, <1>4, <1>6, <1>7 DEF Promise!Confirm
<1> QED
  BY <1>2, <1>8 DEF Promise!Next

LEMMA PostStepRefines ==
  ASSUME IInv, Consent, PostStep
  PROVE  [Promise!Next]_Promise!vars
<1> USE DEF history, Goto, Persist, PersistFails
<1>0. TypeOK /\ task \in Task
  BY DEF IInv, TypeOK
<1>a. step \in PostSteps => task.kind = "post" /\ holder \in Poster /\ holder # NoProc
  BY NoProcAssumption DEF Consent, PostsConfirmed, Proc
<1>b. holder # NoProc => Learned(disk) /\ Learned(work)
  BY LearnedSame, LearnedWork
<1>1. CASE Decide
  BY <1>1, DecideRefines
<1>2. CASE StopPost \/ CancelMarked
  BY <1>2, EndPostRefines DEF StopPost, CancelMarked, PostSteps
<1>3. CASE RecordOutcome
  <2>1. CASE PersistFails /\ EndPost
    BY <1>3, <2>1, EndPostRefines DEF RecordOutcome, PostSteps
  <2>2. CASE ~(PersistFails /\ EndPost)
    <3>1. /\ step = "record" /\ step' = "next" /\ task' = NextId /\ disk' = work
          /\ UNCHANGED <<now, prepared, stamp, holder>>
      BY <1>3, <2>2 DEF RecordOutcome
    <3>2. task'.kind = task.kind /\ task'.queue = task.queue \ task.current
      BY <1>0, <3>1 DEF NextId, Task
    <3>3. QueueStep /\ Learned(disk') /\ Open(step', task') = Open(step, task)
      BY <1>a, <1>b, <3>1, <3>2 DEF QueueStep, Open, PostSteps
    <3> QED
      BY <3>3, QueueStepRefines
  <2> QED
    BY <2>1, <2>2
<1>4. ASSUME NEW until \in {0, now + Backoff}, PostFails(until)
      PROVE  [Promise!Next]_Promise!vars
  <2>1. QueueStep /\ disk' = disk /\ Open(step', task') = Open(step, task)
    BY <1>a, <1>4 DEF PostFails, QueueStep, Open, PostSteps
  <2> QED
    BY <2>1, QueueStepRefines
<1>5. ASSUME NEW m \in Killmail, SkipKillmail(m) PROVE [Promise!Next]_Promise!vars
  <2>1. task'.kind = task.kind /\ task'.queue = task.queue \ {m}
    BY <1>0, <1>5 DEF SkipKillmail, Task
  <2>2. QueueStep /\ disk' = disk /\ Open(step', task') \subseteq Open(step, task)
    BY <1>a, <1>5, <2>1 DEF SkipKillmail, QueueStep, Open, PostSteps
  <2> QED
    BY <2>2, QueueStepRefines
<1>6. ASSUME NEW m \in Killmail, ReservePost(m) PROVE [Promise!Next]_Promise!vars
  <2>1. CASE PersistFails /\ EndPost
    BY <1>6, <2>1, EndPostRefines DEF ReservePost, PostSteps
  <2>2. CASE ~(PersistFails /\ EndPost)
    <3>1. /\ step = "next" /\ step' = "reserved" /\ disk' = work
          /\ task' = [task EXCEPT !.current = {m}]
          /\ UNCHANGED <<now, prepared, stamp, holder>>
      BY <1>6, <2>2 DEF ReservePost
    <3>2. task'.kind = task.kind /\ task'.queue = task.queue
      BY <1>0, <3>1 DEF Task
    <3>3. QueueStep /\ Learned(disk') /\ Open(step', task') = Open(step, task)
      BY <1>a, <1>b, <3>1, <3>2 DEF QueueStep, Open, PostSteps
    <3> QED
      BY <3>3, QueueStepRefines
  <2> QED
    BY <2>1, <2>2
<1>7. ASSUME NEW m \in Killmail, SkipExpired(m) PROVE [Promise!Next]_Promise!vars
  <2>1. task'.kind = task.kind /\ task'.queue = task.queue \ task.current
    BY <1>0, <1>7 DEF SkipExpired, NextId, Task
  <2>2. QueueStep /\ disk' = disk /\ Open(step', task') \subseteq Open(step, task)
    BY <1>a, <1>7, <2>1 DEF SkipExpired, QueueStep, Open, PostSteps
  <2> QED
    BY <2>2, QueueStepRefines
<1>8. ASSUME NEW m \in Killmail, MarkAttempt(m) PROVE [Promise!Next]_Promise!vars
  <2>1. CASE EndPost
    <3>1. PersistFails \/ Goto("marked")
      BY <1>8 DEF MarkAttempt
    <3>2. step' = "idle"
      BY <2>1 DEF EndPost, Release
    <3>3. disk' = disk /\ UNCHANGED <<now, stamp>> /\ step \in PostSteps
      BY <1>8, <3>2 DEF MarkAttempt, PostSteps
    <3> QED
      BY <2>1, <3>3, EndPostRefines
  <2>2. CASE ~EndPost
    BY <1>8, <2>2, MarkRefines
  <2> QED
    BY <2>1, <2>2
<1>9. ASSUME NEW m \in Killmail, SendPost(m) PROVE [Promise!Next]_Promise!vars
  BY <1>9, SendRefines
<1>10. ASSUME NEW m \in Killmail, PostAccepted(m) PROVE [Promise!Next]_Promise!vars
  <2>1. QueueStep /\ disk' = disk /\ Open(step', task') = Open(step, task)
    BY <1>a, <1>10 DEF PostAccepted, QueueStep, Open, PostSteps
  <2> QED
    BY <2>1, QueueStepRefines
<1> QED
  BY <1>1, <1>2, <1>3, <1>4, <1>5, <1>6, <1>7, <1>8, <1>9, <1>10 DEF PostStep

-----------------------------------------------------------------------------
(* Everything else: only a decline, a crash and a posting that begins touch   *)
(* confirmations.                                                             *)

LEMMA StutterRefines ==
  ASSUME disk'.status = disk.status, UNCHANGED <<now, stamp>>, Armed' = Armed,
         OpenConsent' = OpenConsent
  PROVE  [Promise!Next]_Promise!vars
<1>1. DurableEvidence' = DurableEvidence
  BY DEF DurableEvidence, ReportState
<1> QED
  BY <1>1 DEF Promise!vars

LEMMA UserStepRefines ==
  ASSUME IInv, Consent, UserStep
  PROVE  [Promise!Next]_Promise!vars
<1> USE DEF history
<1>0. holder = NoProc => step = "idle" /\ task.kind # "post"
  BY DEF IInv, LockAgrees, Consent, PostsConfirmed, PostSteps
<1>1. ASSUME NEW p \in Refresher, BeginRefresh(p) PROVE [Promise!Next]_Promise!vars
  <2>1. QuietStep
    BY <1>0, <1>1, LearnedSame DEF BeginRefresh, Acquire, QuietStep, NoTask
  <2> QED
    BY <2>1, QuietStepRefines
<1>2. ASSUME NEW p \in Poster, NEW sel, BeginPrepare(p, sel) PROVE [Promise!Next]_Promise!vars
  <2>1. task'.kind = "prepare"
    BY <1>2 DEF BeginPrepare, StartChecks, NoTask
  <2>2. QuietStep
    BY <1>0, <1>2, <2>1, LearnedSame DEF BeginPrepare, Acquire, QuietStep
  <2> QED
    BY <2>2, QuietStepRefines
<1>3. ASSUME NEW p \in Poster, Decline(p) PROVE [Promise!Next]_Promise!vars
  <2>1. /\ UNCHANGED <<now, step, task, holder, disk, stamp>> /\ holder # p
        /\ prepared' = [prepared EXCEPT ![p] = NoPost]
    BY <1>3 DEF Decline
  <2>2. OpenConsent'[p] = {} /\ \A q \in Poster : q # p => OpenConsent'[q] = OpenConsent[q]
    BY <2>1 DEF OpenConsent, NoPost, IInv, TypeOK
  <2>3. OpenConsent' = [OpenConsent EXCEPT ![p] = {}]
    BY <2>2, ConsentFunctions
  <2>4. Armed' = Armed
    BY <2>1 DEF Armed
  <2> QED
    BY <2>1, <2>3, <2>4, WithdrawStep
<1>4. ASSUME NEW p \in Poster, BeginPost(p) PROVE [Promise!Next]_Promise!vars
  <2>1. /\ step' = "next" /\ task'.kind = "post" /\ task'.queue = prepared[p].ids
        /\ holder = NoProc /\ holder' = p /\ UNCHANGED <<now, prepared, disk, stamp>>
    BY <1>4 DEF BeginPost, Acquire, NoTask
  <2>2. OpenConsent' = OpenConsent /\ Armed' = Armed
    BY <1>0, <2>1 DEF OpenConsent, Armed
  <2> QED
    BY <2>1, <2>2, StutterRefines
<1> QED
  BY <1>1, <1>2, <1>3, <1>4 DEF UserStep

LEMMA EditStepRefines ==
  ASSUME IInv, Consent, EditStep
  PROVE  [Promise!Next]_Promise!vars
<1>1. disk'.status = disk.status
  <2>1. /\ \A x : [disk EXCEPT !.manualKillmails = x].status = disk.status
        /\ \A x : [disk EXCEPT !.manualCharacters = x].status = disk.status
        /\ \A x : [disk EXCEPT !.manualCorporations = x].status = disk.status
        /\ \A c \in Character : \A corp : WithCharacter(disk, c, corp).status = disk.status
        /\ \A c \in Character : WithoutCharacter(disk, c).status = disk.status
    BY DEF WithCharacter, WithoutCharacter, IInv, TypeOK, Store
  <2>2. ASSUME NEW kind, NEW s, EditStore(kind, s), s.status = disk.status
        PROVE  disk'.status = disk.status
    BY <2>2 DEF EditStore, Persist
  <2> QED
    BY <2>1, <2>2
       DEF EditStep, SetKillmailProtection, AddProtectedCharacter, RemoveProtectedCharacter,
           AddProtectedCorporation, RemoveProtectedCorporation, Authenticate, RemoveCharacter
<1>2. UNCHANGED <<now, holder, step, task, prepared, stamp>>
  BY DEF EditStep, SetKillmailProtection, AddProtectedCharacter, RemoveProtectedCharacter,
         AddProtectedCorporation, RemoveProtectedCorporation, Authenticate, RemoveCharacter,
         EditStore, history
<1>3. Armed' = Armed /\ OpenConsent' = OpenConsent
  BY <1>2 DEF Armed, OpenConsent
<1> QED
  BY <1>1, <1>2, <1>3, StutterRefines

LEMMA EnvironmentRefines ==
  ASSUME IInv, Consent, Environment
  PROVE  [Promise!Next]_Promise!vars
<1> USE DEF history
<1>1. ASSUME NEW p \in Proc, Crash(p) PROVE [Promise!Next]_Promise!vars
  <2>1. /\ holder = p /\ holder' = NoProc /\ task' = NoTask /\ step' = "idle"
        /\ prepared' = [q \in Poster |-> IF q = p THEN NoPost ELSE prepared[q]]
        /\ UNCHANGED <<now, disk, stamp>>
    BY <1>1 DEF Crash, Release
  <2>2. \A q \in Poster : q # p => OpenConsent'[q] = OpenConsent[q]
    BY <2>1 DEF OpenConsent, NoTask
  <2>3. Armed' = {}
    BY <2>1 DEF Armed
  <2>4. CASE p \in Poster
    <3>1. OpenConsent'[p] = {}
      BY <2>1, <2>4 DEF OpenConsent, NoTask, NoPost
    <3>2. OpenConsent' = [OpenConsent EXCEPT ![p] = {}]
      BY <2>2, <2>4, <3>1, ConsentFunctions
    <3> QED
      BY <2>1, <2>3, <2>4, <3>2, WithdrawStep
  <2>5. CASE p \notin Poster
    <3>1. Armed = {}
      BY <2>1, <2>5 DEF Armed, Consent, PostsConfirmed, PostSteps
    <3>2. OpenConsent' = OpenConsent
      BY <2>2, <2>5 DEF OpenConsent
    <3> QED
      BY <2>1, <2>3, <3>1, <3>2, StutterRefines
  <2> QED
    BY <2>4, <2>5
<1>2. CASE Tick
  <2>1. now' = now + 1 /\ UNCHANGED <<holder, step, task, prepared, stamp, disk>>
    BY <1>2 DEF Tick
  <2>2. Armed' = Armed /\ OpenConsent' = OpenConsent
    BY <2>1 DEF Armed, OpenConsent
  <2>3. Promise!Expire
    <3>1. ASSUME NEW m \in Killmail PROVE DurableEvidence'[m] \in {DurableEvidence[m], Never}
      <4>1. ReportState(disk, m, now') = "Unreported" => ReportState(disk, m, now) = "Unreported"
        BY <2>1 DEF ReportState, IInv, TypeOK, Store, ZkillStatus
      <4>2. DurableEvidence'[m] = IF ReportState(disk, m, now') = "Unreported"
                                  THEN disk.status[m].at ELSE Never
        BY <2>1 DEF DurableEvidence, ReportState
      <4> QED
        BY <4>1, <4>2 DEF DurableEvidence
    <3> QED
      BY <2>1, <2>2, <3>1 DEF Promise!Expire, Promise!Never, Never
  <2> QED
    BY <2>3 DEF Promise!Next
<1>3. CASE \E m \in Killmail : Land(m) \/ PostedElsewhere(m)
  <2>1. UNCHANGED <<now, holder, step, task, prepared, stamp, disk>>
    BY <1>3 DEF Land, PostedElsewhere
  <2>2. Armed' = Armed /\ OpenConsent' = OpenConsent
    BY <2>1 DEF Armed, OpenConsent
  <2> QED
    BY <2>1, <2>2, StutterRefines
<1> QED
  BY <1>1, <1>2, <1>3 DEF Environment

LEMMA InitRefines == Init => Promise!Init
<1> SUFFICES ASSUME Init PROVE Promise!Init
  OBVIOUS
<1>1. disk.status = [m \in Killmail |-> NoStatus]
  BY InitialStoreAssumption DEF Init
<1>2. DurableEvidence = [m \in Killmail |-> Never]
  BY <1>1 DEF DurableEvidence, ReportState, NoStatus
<1>3. Armed = {} /\ OpenConsent = [p \in Poster |-> {}]
  BY DEF Init, Armed, OpenConsent, NoTask, NoPost
<1> QED
  BY <1>2, <1>3 DEF Init, Promise!Init, Promise!Never, Never

LEMMA NextRefines ==
  ASSUME IInv, Consent, [Next]_vars
  PROVE  [Promise!Next]_Promise!vars
<1>1. CASE UNCHANGED vars
  <2>1. Armed' = Armed /\ OpenConsent' = OpenConsent
    BY <1>1 DEF vars, Armed, OpenConsent
  <2> QED
    BY <1>1, <2>1, StutterRefines DEF vars
<1> QED
  BY <1>1, StatusStepRefines, RefreshStepRefines, PostStepRefines, UserStepRefines,
     EditStepRefines, EnvironmentRefines DEF Next

\* Posting keeps the promise of Submission: each POST spends one confirmation of
\* its user and one durable absence that was observed after the killmail was
\* last sent and has not expired, and gives the absence up durably before the
\* POST leaves
\* (posting.rs prepare_post, post).
THEOREM PromiseKept == Spec => SubmissionPromise
<1>1. Init => Promise!Init
  BY InitRefines
<1>2. IInv /\ Consent /\ [Next]_vars => [Promise!Next]_Promise!vars
  BY NextRefines
<1> QED
  BY <1>1, <1>2, Invariant, ConsentInvariant, PTL DEF Spec, SubmissionPromise, Promise!Spec
=============================================================================
