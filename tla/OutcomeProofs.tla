--------------------------- MODULE OutcomeProofs ---------------------------
(***************************************************************************)
(* What ekmp records as reported, for every instance of Posting: it is     *)
(* true, and it is never taken back.                                       *)
(***************************************************************************)
EXTENDS PostingProofs

ReportedIn(s, m) == s.status[m].kind = "Reported"

LEMMA ReportedStatus ==
  /\ NoStatus.kind # "Reported"
  /\ Reported.kind = "Reported"
  /\ \A at : PostAttempted(at).kind # "Reported"
  /\ \A at, until : Unreported(at, until).kind # "Reported"
BY DEF NoStatus, Reported, PostAttempted, Unreported

LEMMA NothingReported == \A m \in Killmail : ~ReportedIn(EmptyStore, m)
BY DEF ReportedIn, EmptyStore, NoStatus

LEMMA SameReported ==
  ASSUME NEW s, NEW s1, s1.status = s.status, NEW m
  PROVE  ReportedIn(s1, m) <=> ReportedIn(s, m)
BY DEF ReportedIn

\* A lookup adds what zKillboard listed to what is known as reported.
LEMMA LookupReports ==
  ASSUME NEW s \in Store, NEW candidates, NEW l, NEW t, NEW m \in Killmail
  PROVE  /\ ReportedIn(s, m) => ReportedIn(ApplyLookup(s, candidates, l, t), m)
         /\ ReportedIn(ApplyLookup(s, candidates, l, t), m) =>
              ReportedIn(s, m) \/ m \in l.reported
BY ReportedStatus DEF ReportedIn, ApplyLookup, Absent, Store

-----------------------------------------------------------------------------
(* Where the records of a step come from: what is reported in a store after *)
(* a step was reported in a store before it or is on zKillboard.            *)
Grounded(s) ==
  \A m \in Killmail :
     ReportedIn(s, m) => ReportedIn(disk, m) \/ ReportedIn(work, m) \/ m \in zkill'

LEMMA SameIsGrounded ==
  /\ Grounded(disk)
  /\ Grounded(work)
  /\ Grounded(EmptyStore)
  /\ \A s : s.status = work.status => Grounded(s)
  /\ \A s : s.status = disk.status => Grounded(s)
BY NothingReported DEF Grounded, ReportedIn

LEMMA LeftChecksGrounded == LeaveChecks => Grounded(work')
BY SameIsGrounded DEF LeaveChecks, Release

LEMMA StatusStepGrounded ==
  ASSUME TypeOK, StatusStep
  PROVE  Grounded(disk') /\ Grounded(work') /\ zkill \subseteq zkill'
<1> USE DEF Persist, PersistFails, Goto
<1>1. CASE CancelChecks \/ ReservePage
  BY <1>1, SameIsGrounded, LeftChecksGrounded DEF CancelChecks, ReservePage
<1>2. ASSUME NEW k \in task.checks, BeginLookup(k)
      PROVE  Grounded(disk') /\ Grounded(work') /\ zkill \subseteq zkill'
  BY <1>2, SameIsGrounded DEF BeginLookup
<1>3. ASSUME NEW until \in {0, now + Backoff}, LookupFails(until)
      PROVE  Grounded(disk') /\ Grounded(work') /\ zkill \subseteq zkill'
  <2>1. work'.status = work.status
    BY <1>3, MergeCooldownType, TimeAssumption DEF LookupFails, TypeOK
  <2> QED
    BY <1>3, <2>1, SameIsGrounded DEF LookupFails
<1>4. ASSUME NEW l \in LookupResult, LookupAnswers(l)
      PROVE  Grounded(disk') /\ Grounded(work') /\ zkill \subseteq zkill'
  <2>1. Grounded(work')
    BY <1>4, LookupReports DEF LookupAnswers, Grounded, TypeOK
  <2> QED
    BY <1>4, <2>1, SameIsGrounded DEF LookupAnswers
<1>5. CASE SaveLookup
  <2>1. MergeCooldown(work, 0, now).status = work.status
    BY MergeCooldownType DEF TypeOK
  <2> QED
    BY <1>5, <2>1, SameIsGrounded, LeftChecksGrounded DEF SaveLookup
<1>6. CASE EndChecks
  <2>1. PruneReported(work).status = work.status
    BY PruneReportedType DEF TypeOK
  <2> QED
    BY <1>6, <2>1, SameIsGrounded DEF EndChecks, Release
<1> QED
  BY <1>1, <1>2, <1>3, <1>4, <1>5, <1>6 DEF StatusStep

LEMMA RefreshStepGrounded ==
  ASSUME TypeOK, RefreshStep
  PROVE  Grounded(disk') /\ Grounded(work') /\ zkill \subseteq zkill'
<1> USE DEF Persist, PersistFails, Goto
<1>1. ASSUME NEW c \in Character, NEW corp \in Corporation, RefreshAffiliation(c, corp)
      PROVE  Grounded(disk') /\ Grounded(work') /\ zkill \subseteq zkill'
  <2>1. work'.status = work.status
    BY <1>1 DEF RefreshAffiliation, TypeOK, Store
  <2> QED
    BY <1>1, <2>1, SameIsGrounded DEF RefreshAffiliation
<1>2. CASE RotateToken \/ LoadFails
  BY <1>2, SameIsGrounded DEF RotateToken, LoadFails
<1>3. ASSUME NEW sources \in [Killmail -> SUBSET Character], LoadKillmails(sources)
      PROVE  Grounded(disk') /\ Grounded(work') /\ zkill \subseteq zkill'
  <2>1. /\ [work EXCEPT !.sources = sources] \in Store
        /\ [work EXCEPT !.sources = sources].status = work.status
    BY DEF TypeOK, Store
  <2>2. work'.status = work.status
    BY <1>3, <2>1, PruneReportedType DEF LoadKillmails
  <2>3. disk' \in {disk, work'} /\ zkill' = zkill
    BY <1>3 DEF LoadKillmails
  <2> QED
    BY <2>2, <2>3, SameIsGrounded
<1>4. CASE FinishRefresh
  <2>1. MergeCooldown(work, 0, now).status = work.status
    BY MergeCooldownType DEF TypeOK
  <2> QED
    BY <1>4, <2>1, SameIsGrounded DEF FinishRefresh, Release
<1> QED
  BY <1>1, <1>2, <1>3, <1>4 DEF RefreshStep

LEMMA PostStepGrounded ==
  ASSUME TypeOK, PostStep
  PROVE  Grounded(disk') /\ Grounded(work') /\ zkill \subseteq zkill'
<1> USE DEF Persist, PersistFails, Goto
<1>0. EndPost => Grounded(work')
  BY SameIsGrounded DEF EndPost, Release
<1>1. CASE Decide \/ StopPost \/ CancelMarked \/ RecordOutcome
  BY <1>0, <1>1, SameIsGrounded DEF Decide, Release, StopPost, CancelMarked, RecordOutcome
<1>2. ASSUME NEW until \in {0, now + Backoff}, PostFails(until)
      PROVE  Grounded(disk') /\ Grounded(work') /\ zkill \subseteq zkill'
  <2>1. work'.status = work.status
    BY <1>2, MergeCooldownType, TimeAssumption DEF PostFails, TypeOK
  <2> QED
    BY <1>2, <2>1, SameIsGrounded DEF PostFails
<1>3. ASSUME NEW m \in Killmail,
             SkipKillmail(m) \/ ReservePost(m) \/ SkipExpired(m) \/ SendPost(m)
      PROVE  Grounded(disk') /\ Grounded(work') /\ zkill \subseteq zkill'
  BY <1>0, <1>3, SameIsGrounded DEF SkipKillmail, ReservePost, SkipExpired, SendPost
<1>4. ASSUME NEW m \in Killmail, MarkAttempt(m)
      PROVE  Grounded(disk') /\ Grounded(work') /\ zkill \subseteq zkill'
  <2>1. Grounded([work EXCEPT !.status[m] = PostAttempted(now)])
    BY ReportedStatus DEF Grounded, ReportedIn, TypeOK, Store
  <2> QED
    BY <1>0, <1>4, <2>1, SameIsGrounded DEF MarkAttempt
<1>5. ASSUME NEW m \in Killmail, PostAccepted(m)
      PROVE  Grounded(disk') /\ Grounded(work') /\ zkill \subseteq zkill'
  <2> DEFINE s1 == MergeCooldown(work, 0, now)
             s2 == [s1 EXCEPT !.status[m] = Reported]
  <2>1. s1 \in Store /\ s1.status = work.status
    BY MergeCooldownType DEF TypeOK
  <2>2. zkill' = zkill \cup {m} /\ disk' = disk /\ work' = PruneReported(s2)
    BY <1>5 DEF PostAccepted
  <2> HIDE DEF s1
  <2>3. s2 \in Store
    BY <2>1, StatusTypes, WithStatusType
  <2>4. \A n \in Killmail : n # m => s2.status[n] = work.status[n]
    BY <2>1 DEF Store
  <2> HIDE DEF s2
  <2>5. work'.status = s2.status
    BY <2>2, <2>3, PruneReportedType
  <2>6. Grounded(work')
    BY <2>2, <2>4, <2>5 DEF Grounded, ReportedIn
  <2> QED
    BY <2>2, <2>6, SameIsGrounded
<1> QED
  BY <1>1, <1>2, <1>3, <1>4, <1>5 DEF PostStep

LEMMA OtherStepGrounded ==
  ASSUME TypeOK, UserStep \/ EditStep \/ Environment
  PROVE  Grounded(disk') /\ Grounded(work') /\ zkill \subseteq zkill'
<1>1. CASE UserStep
  BY <1>1, SameIsGrounded
     DEF UserStep, BeginRefresh, BeginPrepare, Decline, BeginPost, Acquire
<1>2. CASE EditStep
  <2>1. ASSUME NEW kind, NEW s, EditStore(kind, s), s.status = disk.status
        PROVE  Grounded(disk') /\ Grounded(work') /\ zkill \subseteq zkill'
    BY <2>1, SameIsGrounded DEF EditStore, Persist
  <2>2. /\ \A x : [disk EXCEPT !.manualKillmails = x].status = disk.status
        /\ \A x : [disk EXCEPT !.manualCharacters = x].status = disk.status
        /\ \A x : [disk EXCEPT !.manualCorporations = x].status = disk.status
        /\ \A c \in Character : \A corp : WithCharacter(disk, c, corp).status = disk.status
        /\ \A c \in Character : WithoutCharacter(disk, c).status = disk.status
    BY DEF WithCharacter, WithoutCharacter, TypeOK, Store
  <2> QED
    BY <1>2, <2>1, <2>2
       DEF EditStep, SetKillmailProtection, AddProtectedCharacter, RemoveProtectedCharacter,
           AddProtectedCorporation, RemoveProtectedCorporation, Authenticate, RemoveCharacter
<1>3. CASE Environment
  BY <1>3, SameIsGrounded DEF Environment, Crash, Release, Land, PostedElsewhere, Tick
<1> QED
  BY <1>1, <1>2, <1>3

LEMMA NextGrounded ==
  ASSUME TypeOK, [Next]_vars
  PROVE  Grounded(disk') /\ Grounded(work') /\ zkill \subseteq zkill'
<1>1. CASE UNCHANGED vars
  BY <1>1, SameIsGrounded DEF vars
<1> QED
  BY <1>1, StatusStepGrounded, RefreshStepGrounded, PostStepGrounded, OtherStepGrounded
     DEF Next

\* A killmail is recorded as reported, on disk or in a working copy, only when
\* zKillboard has it: through a listing or an accepted submission, never because
\* a submission was attempted (posting.rs post, status.rs apply_lookup).
THEOREM ReportsAreTrue == Spec => []ReportedIsTrue
<1>1. Init => ReportedIsTrue
  <2> SUFFICES ASSUME Init PROVE ReportedIsTrue
    OBVIOUS
  <2>1. disk.status = [m \in Killmail |-> NoStatus] /\ work = EmptyStore
    BY InitialStoreAssumption DEF Init
  <2> QED
    BY <2>1, ReportedStatus DEF ReportedIsTrue, EmptyStore
<1>2. TypeOK /\ ReportedIsTrue /\ [Next]_vars => ReportedIsTrue'
  <2> SUFFICES ASSUME TypeOK, ReportedIsTrue, [Next]_vars PROVE ReportedIsTrue'
    OBVIOUS
  <2>1. Grounded(disk') /\ Grounded(work') /\ zkill \subseteq zkill'
    BY NextGrounded
  <2> QED
    BY <2>1 DEF ReportedIsTrue, Grounded, ReportedIn
<1> QED
  BY <1>1, <1>2, TypeCorrect, PTL DEF Spec

-----------------------------------------------------------------------------
(* What is reported stays reported *)

\* s1 keeps what s knows to be reported, and does not cache it anew.
Keeps(s, s1) ==
  \A m \in Killmail :
     ReportedIn(s, m) => /\ ReportedIn(s1, m)
                         /\ m \in Cached(s1) => m \in Cached(s)

\* The inductive invariant behind ReportedIsFinal: the working copy keeps what
\* the persisted store knows.
WorkKeeps == holder # NoProc => Keeps(disk, work)

LEMMA KeepsSelf == \A s : Keeps(s, s)
BY DEF Keeps

LEMMA KeepsTransitive ==
  ASSUME NEW s, NEW s1, NEW s2, Keeps(s, s1), Keeps(s1, s2)
  PROVE  Keeps(s, s2)
BY DEF Keeps

LEMMA MergeKeeps ==
  ASSUME NEW s \in Store, NEW until, NEW t
  PROVE  Keeps(s, MergeCooldown(s, until, t))
BY DEF Keeps, ReportedIn, Cached, MergeCooldown, Store

LEMMA PruneKeeps ==
  ASSUME NEW s \in Store
  PROVE  Keeps(s, PruneReported(s))
BY DEF Keeps, ReportedIn, Cached, PruneReported, Store

LEMMA LookupKeeps ==
  ASSUME NEW s \in Store, NEW candidates, NEW l, NEW t
  PROVE  Keeps(s, ApplyLookup(s, candidates, l, t))
<1>1. ApplyLookup(s, candidates, l, t).sources = s.sources
  BY DEF ApplyLookup, Store
<1> QED
  BY <1>1, LookupReports DEF Keeps, Cached

LEMMA ReportKeeps ==
  ASSUME NEW s \in Store, NEW m \in Killmail
  PROVE  Keeps(s, [s EXCEPT !.status[m] = Reported])
BY ReportedStatus DEF Keeps, ReportedIn, Cached, Store

LEMMA MarkKeeps ==
  ASSUME NEW s \in Store, NEW m \in Killmail, NEW t, ~ReportedIn(s, m)
  PROVE  Keeps(s, [s EXCEPT !.status[m] = PostAttempted(t)])
BY DEF Keeps, ReportedIn, Cached, Store

LEMMA EditKeeps ==
  ASSUME NEW s \in Store
  PROVE  /\ \A x : Keeps(s, [s EXCEPT !.manualKillmails = x])
         /\ \A x : Keeps(s, [s EXCEPT !.manualCharacters = x])
         /\ \A x : Keeps(s, [s EXCEPT !.manualCorporations = x])
         /\ \A c, x : Keeps(s, [s EXCEPT !.corporation[c] = x])
         /\ \A c \in Character : \A corp : Keeps(s, WithCharacter(s, c, corp))
         /\ \A c \in Character : Keeps(s, WithoutCharacter(s, c))
<1>1. \A c \in Character : Keeps(s, WithoutCharacter(s, c))
  BY DEF Keeps, ReportedIn, Cached, WithoutCharacter, Store
<1> QED
  BY <1>1 DEF Keeps, ReportedIn, Cached, WithCharacter, Store

-----------------------------------------------------------------------------
(* Every step keeps what the persisted store knows.  A step that changes a   *)
(* working copy extends it; a step that persists has the lock.               *)

LEMMA HeldKeeps ==
  ASSUME WorkKeeps, holder # NoProc, Keeps(work, work') \/ holder' = NoProc,
         \/ disk' = disk
         \/ disk' = work
         \/ disk' = work' /\ holder' # NoProc
         \/ Keeps(work, disk') /\ holder' = NoProc,
         disk' = work => work' = work \/ Keeps(work, work') \/ holder' = NoProc
  PROVE  Keeps(disk, disk') /\ WorkKeeps'
<1>1. Keeps(disk, work)
  BY DEF WorkKeeps
<1>2. Keeps(disk, disk')
  BY <1>1, KeepsSelf, KeepsTransitive
<1>3. ASSUME holder' # NoProc PROVE Keeps(disk', work')
  BY <1>1, <1>3, KeepsSelf, KeepsTransitive
<1> QED
  BY <1>2, <1>3 DEF WorkKeeps

LEMMA StatusStepKeeps ==
  ASSUME TypeOK, LockAgrees, WorkKeeps, StatusStep
  PROVE  Keeps(disk, disk') /\ WorkKeeps'
<1> USE DEF Persist, PersistFails, Goto
<1>0. holder # NoProc /\ Keeps(work, work)
  BY KeepsSelf DEF LockAgrees, StatusStep, CancelChecks, BeginLookup, ReservePage, LookupFails,
                   LookupAnswers, SaveLookup, EndChecks
<1>1. CASE CancelChecks \/ ReservePage
  BY <1>0, <1>1, HeldKeeps, LeaveChecksLocks DEF CancelChecks, ReservePage
<1>2. ASSUME NEW k \in task.checks, BeginLookup(k)
      PROVE  Keeps(disk, disk') /\ WorkKeeps'
  BY <1>0, <1>2, HeldKeeps DEF BeginLookup
<1>3. ASSUME NEW until \in {0, now + Backoff}, LookupFails(until)
      PROVE  Keeps(disk, disk') /\ WorkKeeps'
  <2>1. Keeps(work, work')
    BY <1>3, MergeKeeps DEF LookupFails, TypeOK
  <2> QED
    BY <1>0, <1>3, <2>1, HeldKeeps DEF LookupFails
<1>4. ASSUME NEW l \in LookupResult, LookupAnswers(l)
      PROVE  Keeps(disk, disk') /\ WorkKeeps'
  <2>1. Keeps(work, work')
    BY <1>4, LookupKeeps DEF LookupAnswers, TypeOK
  <2> QED
    BY <1>0, <1>4, <2>1, HeldKeeps DEF LookupAnswers
<1>5. CASE SaveLookup
  <2>1. Keeps(work, MergeCooldown(work, 0, now))
    BY MergeKeeps DEF TypeOK
  <2>2. Keeps(work, work') \/ holder' = NoProc
    BY <1>0, <1>5, <2>1, LeaveChecksLocks DEF SaveLookup
  <2>3. disk' \in {disk, work}
    BY <1>5 DEF SaveLookup
  <2> QED
    BY <1>0, <2>2, <2>3, HeldKeeps
<1>6. CASE EndChecks
  <2>1. Keeps(work, PruneReported(work))
    BY PruneKeeps DEF TypeOK
  <2>2. \/ work' = PruneReported(work) /\ disk' \in {disk, work'} /\ holder' = holder
        \/ disk' = disk /\ holder' = NoProc
    BY <1>6 DEF EndChecks, Release
  <2> QED
    BY <1>0, <2>1, <2>2, HeldKeeps
<1> QED
  BY <1>1, <1>2, <1>3, <1>4, <1>5, <1>6 DEF StatusStep

LEMMA RefreshStepKeeps ==
  ASSUME TypeOK, LockAgrees, WorkKeeps, RefreshStep
  PROVE  Keeps(disk, disk') /\ WorkKeeps'
<1> USE DEF Persist, PersistFails, Goto
<1>0. holder # NoProc /\ Keeps(work, work) /\ work \in Store
  BY KeepsSelf DEF TypeOK, LockAgrees, RefreshStep, RefreshAffiliation, RotateToken,
                   LoadKillmails, LoadFails, FinishRefresh
<1>1. ASSUME NEW c \in Character, NEW corp \in Corporation, RefreshAffiliation(c, corp)
      PROVE  Keeps(disk, disk') /\ WorkKeeps'
  <2>1. Keeps(work, work')
    BY <1>0, <1>1, EditKeeps DEF RefreshAffiliation
  <2> QED
    BY <1>0, <1>1, <2>1, HeldKeeps DEF RefreshAffiliation
<1>2. CASE RotateToken \/ LoadFails
  BY <1>0, <1>2, HeldKeeps DEF RotateToken, LoadFails
<1>3. ASSUME NEW sources \in [Killmail -> SUBSET Character], LoadKillmails(sources)
      PROVE  Keeps(disk, disk') /\ WorkKeeps'
  <2> DEFINE s1 == [work EXCEPT !.sources = sources]
  <2>1. s1 \in Store /\ s1.status = work.status /\ s1.sources = sources
    BY <1>0 DEF Store
  <2>2. \A m \in Killmail : work.status[m].kind = "Reported" => sources[m] = {}
    BY <1>3 DEF LoadKillmails
  <2>3. work' = PruneReported(s1) /\ disk' \in {disk, work'} /\ holder' = holder
    BY <1>3 DEF LoadKillmails
  <2> HIDE DEF s1
  <2>4. Keeps(work, s1)
    BY <2>1, <2>2 DEF Keeps, ReportedIn, Cached
  <2>5. Keeps(work, work')
    BY <2>1, <2>3, <2>4, PruneKeeps, KeepsTransitive
  <2> QED
    BY <1>0, <2>3, <2>5, HeldKeeps
<1>4. CASE FinishRefresh
  <2>1. Keeps(work, MergeCooldown(work, 0, now))
    BY <1>0, MergeKeeps
  <2> QED
    BY <1>0, <1>4, <2>1, HeldKeeps DEF FinishRefresh, Release
<1> QED
  BY <1>1, <1>2, <1>3, <1>4 DEF RefreshStep

LEMMA PostStepKeeps ==
  ASSUME TypeOK, LockAgrees, WorkKeeps, PostStep
  PROVE  Keeps(disk, disk') /\ WorkKeeps'
<1> USE DEF Persist, PersistFails, Goto
<1>0. holder # NoProc /\ Keeps(work, work) /\ work \in Store
  BY KeepsSelf DEF TypeOK, LockAgrees, PostStep, Decide, StopPost, CancelMarked, RecordOutcome,
                   PostFails, SkipKillmail, ReservePost, SkipExpired, MarkAttempt, SendPost,
                   PostAccepted
<1>a. EndPost => holder' = NoProc
  BY DEF EndPost, Release
<1>1. CASE Decide \/ StopPost \/ CancelMarked \/ RecordOutcome
  BY <1>0, <1>a, <1>1, HeldKeeps DEF Decide, Release, StopPost, CancelMarked, RecordOutcome
<1>2. ASSUME NEW until \in {0, now + Backoff}, PostFails(until)
      PROVE  Keeps(disk, disk') /\ WorkKeeps'
  <2>1. Keeps(work, work')
    BY <1>0, <1>2, MergeKeeps DEF PostFails
  <2> QED
    BY <1>0, <1>2, <2>1, HeldKeeps DEF PostFails
<1>3. ASSUME NEW m \in Killmail,
             SkipKillmail(m) \/ ReservePost(m) \/ SkipExpired(m) \/ SendPost(m)
      PROVE  Keeps(disk, disk') /\ WorkKeeps'
  BY <1>0, <1>a, <1>3, HeldKeeps DEF SkipKillmail, ReservePost, SkipExpired, SendPost
<1>4. ASSUME NEW m \in Killmail, MarkAttempt(m)
      PROVE  Keeps(disk, disk') /\ WorkKeeps'
  <2>1. ~ReportedIn(work, m)
    BY <1>4 DEF MarkAttempt, Permitted, ReportState, ReportedIn
  <2>2. Keeps(work, [work EXCEPT !.status[m] = PostAttempted(now)])
    BY <1>0, <2>1, MarkKeeps
  <2>3. \/ disk' = disk /\ holder' = NoProc
        \/ /\ work' = [work EXCEPT !.status[m] = PostAttempted(now)]
           /\ disk' = work' /\ holder' = holder
    BY <1>a, <1>4 DEF MarkAttempt
  <2> QED
    BY <1>0, <2>2, <2>3, HeldKeeps
<1>5. ASSUME NEW m \in Killmail, PostAccepted(m)
      PROVE  Keeps(disk, disk') /\ WorkKeeps'
  <2> DEFINE s1 == MergeCooldown(work, 0, now)
             s2 == [s1 EXCEPT !.status[m] = Reported]
  <2>1. s1 \in Store /\ Keeps(work, s1)
    BY <1>0, MergeCooldownType, MergeKeeps DEF TypeOK
  <2>2. disk' = disk /\ work' = PruneReported(s2)
    BY <1>5 DEF PostAccepted
  <2> HIDE DEF s1
  <2>3. s2 \in Store /\ Keeps(s1, s2)
    BY <2>1, StatusTypes, WithStatusType, ReportKeeps
  <2> HIDE DEF s2
  <2>4. Keeps(work, work')
    BY <2>1, <2>2, <2>3, PruneKeeps, KeepsTransitive
  <2> QED
    BY <1>0, <2>2, <2>4, HeldKeeps
<1> QED
  BY <1>1, <1>2, <1>3, <1>4, <1>5 DEF PostStep

LEMMA OtherStepKeeps ==
  ASSUME TypeOK, LockAgrees, WorkKeeps, UserStep \/ EditStep \/ Environment
  PROVE  Keeps(disk, disk') /\ WorkKeeps'
<1>1. CASE UserStep
  BY <1>1, KeepsSelf
     DEF UserStep, BeginRefresh, BeginPrepare, Decline, BeginPost, Acquire, WorkKeeps
<1>2. CASE EditStep
  <2>1. ASSUME NEW kind, NEW s, EditStore(kind, s), Keeps(disk, s)
        PROVE  Keeps(disk, disk') /\ WorkKeeps'
    BY <2>1 DEF EditStore, Persist, WorkKeeps
  <2>2. disk \in Store
    BY DEF TypeOK
  <2> QED
    BY <1>2, <2>1, <2>2, EditKeeps
       DEF EditStep, SetKillmailProtection, AddProtectedCharacter, RemoveProtectedCharacter,
           AddProtectedCorporation, RemoveProtectedCorporation, Authenticate, RemoveCharacter
<1>3. CASE Environment
  BY <1>3, KeepsSelf
     DEF Environment, Crash, Release, Land, PostedElsewhere, Tick, WorkKeeps
<1> QED
  BY <1>1, <1>2, <1>3

LEMMA NextKeeps ==
  ASSUME IInv, WorkKeeps, [Next]_vars
  PROVE  Keeps(disk, disk') /\ WorkKeeps'
<1>1. CASE UNCHANGED vars
  BY <1>1, KeepsSelf DEF vars, WorkKeeps
<1> QED
  BY <1>1, StatusStepKeeps, RefreshStepKeeps, PostStepKeeps, OtherStepKeeps DEF Next, IInv

\* Once the persisted store knows that a killmail is reported, no operation, no
\* crash and no failed write makes it forget, and no load brings it back into
\* the cache (status.rs apply_lookup, refresh.rs perform_refresh).
THEOREM ReportsAreFinal == Spec => ReportedIsFinal
<1>1. Init => WorkKeeps
  BY DEF Init, WorkKeeps
<1>2. IInv /\ WorkKeeps /\ [Next]_vars => WorkKeeps'
  BY NextKeeps
<1>3. IInv /\ WorkKeeps /\ [Next]_vars =>
        [\A m \in Killmail : disk.status[m].kind = "Reported" =>
           /\ disk'.status[m].kind = "Reported"
           /\ m \in Cached(disk') => m \in Cached(disk)]_vars
  BY NextKeeps DEF Keeps, ReportedIn
<1> QED
  BY <1>1, <1>2, <1>3, Invariant, PTL DEF Spec, ReportedIsFinal
=============================================================================
