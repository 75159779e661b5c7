------------------------------ MODULE Posting ------------------------------
(***************************************************************************)
(* Posting killmails to zKillboard (src/src/core/posting.rs, with the      *)
(* status refresh of core/status.rs, the refresh of core/refresh.rs, the   *)
(* store lock of core/store.rs and the mutations of core/protection.rs and *)
(* core/characters.rs that a posting races with).                          *)
(*                                                                         *)
(* A process runs one operation at a time.  An operation takes the         *)
(* exclusive store lock, loads the persisted store into a working copy,    *)
(* changes the copy, and makes it durable by persisting the whole copy;    *)
(* whatever was not persisted when it ends or crashes is lost.  Between    *)
(* preparing a post and sending it the lock is released while the user is  *)
(* asked to confirm, so every other operation may run in between.          *)
(*                                                                         *)
(* Abstractions.  A lookup returns any observation time, validity and any  *)
(* part of what zKillboard has (the pages behind it are not modelled       *)
(* here), the order of checks and of the ids of a batch is arbitrary, and  *)
(* a cancellation may be noticed at each place the code looks for one.     *)
(***************************************************************************)
EXTENDS StatusRules

CONSTANTS
  Poster,       \* processes that prepare and post: command line, GUI
  Refresher,    \* processes that refresh: the service, command line, GUI
  NoProc,       \* no process
  MaxTime,      \* bound: the clock stops here
  MaxAge,       \* zkill.rs QUERY_VALIDITY_SECS
  Backoff,      \* length of the cooldowns zKillboard asks for
  InitialStore, \* the stores a run may find on disk
  Edit,         \* bound: the kinds of store edits a run makes
  CanCrash,     \* whether a process may die inside an operation
  CanFailPersist \* whether writing the store may fail

Proc == Poster \cup Refresher

ASSUME NoProcAssumption == NoProc \notin Proc
ASSUME TimeAssumption == MaxTime \in Nat /\ MaxAge \in Nat /\ Backoff \in Nat
ASSUME InitialStoreAssumption ==
         \A s \in InitialStore :
            /\ s \in Store
            /\ s.status = [m \in Killmail |-> NoStatus]
            /\ s.cooldown = 0
ASSUME FaultAssumption == CanCrash \in BOOLEAN /\ CanFailPersist \in BOOLEAN

VARIABLES
  now,          \* the local clock, clock.rs unix_time
  disk,         \* the persisted store
  holder,       \* the process holding the store lock, or NoProc
  step,         \* where the holder's operation is
  work,         \* the holder's working copy, LockedStore.store
  task,         \* what the holder's operation works on
  prepared,     \* per poster, the PreparedPost waiting for a confirmation
  zkill,        \* killmails zKillboard has
  flight,       \* POSTs sent whose effect on zKillboard is still open
  \* history variables
  stamp,        \* attempted_at of the last POST sent of each killmail
  told          \* the latest deadline zKillboard asked to wait for

vars == <<now, disk, holder, step, work, task, prepared, zkill, flight,
          stamp, told>>
history == <<stamp, told>>

Never == -1     \* stamp of a killmail that was never sent

(* Steps of an operation.                                                   *)
(*   load, finish:          a refresh before and after its status refresh   *)
(*   checks, lookup, apply: a status refresh, of a refresh or a prepare     *)
(*   decide:                prepare_post after its status refresh           *)
(*   next, reserved, marked, sent, record: one id of a post                 *)
Step == {"idle", "load", "finish", "checks", "lookup", "apply", "decide",
         "next", "reserved", "marked", "sent", "record"}

PostMode == {"Bulk", "Individual", "ProtectedIndividual"}

\* PostSelection: All, or One with its post_anyway flag.
Selection == [all : BOOLEAN, id : SUBSET Killmail, anyway : BOOLEAN]
SelectAll == [all |-> TRUE, id |-> {}, anyway |-> FALSE]
SelectOne(m, anyway) == [all |-> FALSE, id |-> {m}, anyway |-> anyway]

\* PreparedPost, with the confirmed post_anyway choice as history.
PreparedPost == [ids : SUBSET Killmail, mode : PostMode, anyway : BOOLEAN]
NoPost == [ids |-> {}, mode |-> "Bulk", anyway |-> FALSE]

\* The selection of a prepare_post, the candidates and remaining checks of a
\* status refresh with the check being looked up and what it observed when, and
\* the remaining ids of a post with the id being posted.
Task ==
  [kind : {"none", "prepare", "refresh", "post"}, selection : Selection,
   unknown : SUBSET Killmail, checks : SUBSET Check, check : SUBSET Check,
   observed : Nat, queue : SUBSET Killmail, current : SUBSET Killmail]
NoTask ==
  [kind |-> "none", selection |-> SelectAll, unknown |-> {}, checks |-> {},
   check |-> {}, observed |-> 0, queue |-> {}, current |-> {}]

TypeOK ==
  /\ now \in Nat
  /\ disk \in Store
  /\ holder \in Proc \cup {NoProc}
  /\ step \in Step
  /\ work \in Store
  /\ task \in Task
  /\ prepared \in [Poster -> PreparedPost]
  /\ zkill \in SUBSET Killmail
  /\ flight \in SUBSET Killmail
  /\ stamp \in [Killmail -> Nat \cup {Never}]
  /\ told \in Nat

Init ==
  /\ now = 0
  /\ disk \in InitialStore
  /\ holder = NoProc
  /\ step = "idle"
  /\ work = EmptyStore
  /\ task = NoTask
  /\ prepared = [p \in Poster |-> NoPost]
  /\ zkill = {}
  /\ flight = {}
  /\ stamp = [m \in Killmail |-> Never]
  /\ told = 0

-----------------------------------------------------------------------------
(* The store lock.  begin_operation fails with Busy while another process   *)
(* holds the lock, which changes nothing.                                   *)

Acquire(p) ==
  /\ holder = NoProc
  /\ holder' = p
  /\ work' = disk

\* The end of an operation: the working copy is dropped as it is.
Release ==
  /\ holder' = NoProc
  /\ step' = "idle"
  /\ work' = EmptyStore
  /\ task' = NoTask

Goto(next) == step' = next /\ UNCHANGED holder

\* LockedStore.persist: the whole store replaces the file, or nothing does.
Persist(s) == disk' = s
PersistFails == CanFailPersist /\ UNCHANGED disk

-----------------------------------------------------------------------------
(* The status refresh inside a prepare or a refresh: refresh_statuses_locked *)

\* The checks are built from the store as it is when the loop starts.
StartChecks(s, tsk) ==
  task' = [tsk EXCEPT !.unknown = Unknowns(s, now),
                      !.checks = StatusChecks(s, now)]

\* A cancellation or a failed write leaves the loop: prepare_post returns the
\* error at once, a refresh goes on to record its schedule.
LeaveChecks ==
  IF task.kind = "prepare"
  THEN Release
  ELSE Goto("finish") /\ UNCHANGED <<work, task>>

\* The loop looks for a cancellation before each check, and so does the lookup;
\* after the last check nothing does.
CancelChecks ==
  /\ \/ step = "checks" /\ task.checks # {}
     \/ step = "lookup"
  /\ LeaveChecks
  /\ UNCHANGED <<now, disk, prepared, zkill, flight, history>>

\* The kills of a character are checked before its losses.
BeginLookup(k) ==
  /\ step = "checks"
  /\ k \in task.checks
  /\ k.role = "losses" => [k EXCEPT !.role = "kills"] \notin task.checks
  /\ task' = [task EXCEPT !.check = {k}]
  /\ Goto("lookup")
  /\ UNCHANGED <<now, disk, work, prepared, zkill, flight, history>>

\* reserve_zkill_request before a page that is not cached: the reservation is
\* durable, and with it everything else in the working copy.
ReservePage ==
  /\ step = "lookup"
  /\ ~CooldownActive(work, now)
  /\ \/ Persist(work) /\ UNCHANGED <<holder, step, work, task>>
     \/ PersistFails /\ LeaveChecks
  /\ UNCHANGED <<now, prepared, zkill, flight, history>>

\* Mutated form of EndCheck: a check that is over is made again.
EndCheckRetried == [task EXCEPT !.check = {}, !.observed = 0]

EndCheck == [task EXCEPT !.checks = @ \ task.check, !.check = {}, !.observed = 0]

\* A page is needed that may not be asked for, or the request failed, perhaps
\* with a Retry-After; absorb_api_observations keeps it in the working copy.
LookupFails(until) ==
  /\ step = "lookup"
  /\ until # 0 => ~CooldownActive(work, now)
  /\ work' = MergeCooldown(work, until, now)
  /\ told' = IF until > told THEN until ELSE told
  /\ task' = EndCheck
  /\ Goto("checks")
  /\ UNCHANGED <<now, disk, prepared, zkill, flight, stamp>>

CandidatesNow == UNION {Candidates(work, task.unknown, k) : k \in task.check}

LookupAnswers(l) ==
  /\ step = "lookup"
  /\ l.reported \subseteq CandidatesNow \cap zkill
  /\ l.observed <= now
  /\ work' = ApplyLookup(work, CandidatesNow, l, now)
  /\ task' = [task EXCEPT !.observed = l.observed]
  /\ Goto("apply")
  /\ UNCHANGED <<now, disk, prepared, zkill, flight, history>>

SaveLookup ==
  /\ step = "apply"
  /\ \/ /\ Persist(work)
        /\ work' = MergeCooldown(work, 0, now)
        /\ task' = EndCheck
        /\ Goto("checks")
     \/ PersistFails /\ LeaveChecks
  /\ UNCHANGED <<now, prepared, zkill, flight, history>>

\* The loop is over: reported killmails leave the cache.  prepare_post makes
\* that durable, a refresh does so with its schedule.
EndChecks ==
  /\ step = "checks"
  /\ task.checks = {}
  /\ \/ /\ task.kind = "refresh"
        /\ work' = PruneReported(work)
        /\ Goto("finish")
        /\ UNCHANGED <<disk, task>>
     \/ /\ task.kind = "prepare"
        /\ \/ /\ work' = PruneReported(work)
              /\ Persist(work')
              /\ Goto("decide")
              /\ UNCHANGED task
           \/ PersistFails /\ Release
  /\ UNCHANGED <<now, prepared, zkill, flight, history>>

-----------------------------------------------------------------------------
(* A refresh: refresh_with_interval and perform_refresh.  When it is due is *)
(* not modelled here.                                                       *)

BeginRefresh(p) ==
  /\ Acquire(p)
  /\ disk.characters # {}
  /\ step' = "load"
  /\ task' = [NoTask EXCEPT !.kind = "refresh"]
  /\ UNCHANGED <<now, disk, prepared, zkill, flight, history>>

RefreshAffiliation(c, corp) ==
  /\ "affiliation" \in Edit
  /\ step = "load"
  /\ c \in work.characters
  /\ work' = [work EXCEPT !.corporation[c] = corp]
  /\ UNCHANGED <<now, disk, holder, step, task, prepared, zkill, flight, history>>

\* on_character_updated: a rotated refresh token persists the working copy.
RotateToken ==
  /\ step = "load"
  /\ \/ Persist(work) /\ UNCHANGED step
     \/ PersistFails /\ step' = "finish"
  /\ UNCHANGED <<now, holder, work, task, prepared, zkill, flight, history>>

\* Mutated form of LoadKillmails: reported killmails are loaded like others.
LoadKillmailsAgain(sources) ==
  LET loaded == [work EXCEPT !.sources = sources]
  IN  /\ step = "load"
      /\ \A m \in Killmail : sources[m] \subseteq work.characters
      /\ work' = loaded
      /\ \/ /\ Persist(loaded)
            /\ StartChecks(loaded, task)
            /\ Goto("checks")
         \/ PersistFails /\ Goto("finish") /\ UNCHANGED task
      /\ UNCHANGED <<now, prepared, zkill, flight, history>>

\* The loaded killmails replace the cache: any killmails that are not
\* reported, each for any authenticated characters.
LoadKillmails(sources) ==
  LET loaded == PruneReported([work EXCEPT !.sources = sources])
  IN  /\ step = "load"
      /\ \A m \in Killmail :
            /\ sources[m] \subseteq work.characters
            /\ work.status[m].kind = "Reported" => sources[m] = {}
      /\ work' = loaded
      /\ \/ /\ Persist(loaded)
            /\ StartChecks(loaded, task)
            /\ Goto("checks")
         \/ PersistFails /\ Goto("finish") /\ UNCHANGED task
      /\ UNCHANGED <<now, prepared, zkill, flight, history>>

LoadFails ==
  /\ step = "load"
  /\ Goto("finish")
  /\ UNCHANGED <<now, disk, work, task, prepared, zkill, flight, history>>

\* However a refresh ended, what it changed is persisted with its schedule.
FinishRefresh ==
  /\ step = "finish"
  /\ \/ Persist(MergeCooldown(work, 0, now))
     \/ PersistFails
  /\ Release
  /\ UNCHANGED <<now, prepared, zkill, flight, history>>

-----------------------------------------------------------------------------
(* Preparing a post: prepare_post *)

NeedsStatus(s, sel) ==
  \E m \in Unknowns(s, now) : IF sel.all THEN ~Protected(s, m) ELSE m \in sel.id

BeginPrepare(p, sel) ==
  /\ prepared[p] = NoPost
  /\ Acquire(p)
  /\ LET tsk == [NoTask EXCEPT !.kind = "prepare", !.selection = sel]
     IN  IF NeedsStatus(disk, sel)
         THEN step' = "checks" /\ StartChecks(disk, tsk)
         ELSE step' = "decide" /\ task' = tsk
  /\ UNCHANGED <<now, disk, prepared, zkill, flight, history>>

\* The ids a selection resolves to once their status is known; an id that is
\* gone, reported, unknown, or protected without post_anyway is refused.
Confirmable(s, sel) ==
  {m \in Cached(s) :
     IF sel.all THEN BulkCandidate(s, m, now)
     ELSE /\ m \in sel.id
          /\ ReportState(s, m, now) = "Unreported"
          /\ Protected(s, m) => sel.anyway}

ModeOf(s, sel) ==
  IF sel.all THEN "Bulk"
  ELSE IF \E m \in sel.id : Protected(s, m) THEN "ProtectedIndividual"
  ELSE "Individual"

\* The lock is released and the user asked, unless nothing can be posted.
Decide ==
  LET ids == Confirmable(work, task.selection)
  IN  /\ step = "decide"
      /\ prepared' = [prepared EXCEPT ![holder] =
           IF ids = {} THEN NoPost
           ELSE [ids |-> ids, mode |-> ModeOf(work, task.selection),
                 anyway |-> task.selection.anyway]]
      /\ Release
      /\ UNCHANGED <<now, disk, zkill, flight, history>>

\* The user declines, or the confirmed post finds the store busy.
Decline(p) ==
  /\ prepared[p] # NoPost
  /\ holder # p
  /\ prepared' = [prepared EXCEPT ![p] = NoPost]
  /\ UNCHANGED <<now, disk, holder, step, work, task, zkill, flight, history>>

-----------------------------------------------------------------------------
(* Posting what was confirmed: post *)

BeginPost(p) ==
  /\ prepared[p] # NoPost
  /\ Acquire(p)
  /\ step' = "next"
  /\ task' = [NoTask EXCEPT !.kind = "post", !.queue = prepared[p].ids]
  /\ UNCHANGED <<now, disk, prepared, zkill, flight, history>>

\* Mutated form of Permitted: the protection is taken as it was when the user
\* confirmed.
PermittedWhateverProtection(s, m, prep) ==
  /\ ReportState(s, m, now) = "Unreported"
  /\ prep.mode = "ProtectedIndividual" => prep.ids = {m}

\* post_permission: the confirmation is revalidated against the store.
Permitted(s, m, prep) ==
  /\ ReportState(s, m, now) = "Unreported"
  /\ IF prep.mode = "ProtectedIndividual" THEN prep.ids = {m}
                                          ELSE ~Protected(s, m)

EndPost == Release /\ prepared' = [prepared EXCEPT ![holder] = NoPost]

NextId == [task EXCEPT !.queue = @ \ task.current, !.current = {}]

\* The batch is done, cancelled, or stopped by a cooldown.
StopPost ==
  /\ step = "next"
  /\ EndPost
  /\ UNCHANGED <<now, disk, zkill, flight, history>>

SkipKillmail(m) ==
  /\ step = "next"
  /\ m \in task.queue
  /\ ~CooldownActive(work, now)
  /\ m \notin Cached(work) \/ ~Permitted(work, m, prepared[holder])
  /\ task' = [task EXCEPT !.queue = @ \ {m}]
  /\ UNCHANGED <<now, disk, holder, step, work, prepared, zkill, flight, history>>

ReservePost(m) ==
  /\ step = "next"
  /\ m \in task.queue
  /\ ~CooldownActive(work, now)
  /\ m \in Cached(work)
  /\ Permitted(work, m, prepared[holder])
  /\ \/ /\ Persist(work)
        /\ task' = [task EXCEPT !.current = {m}]
        /\ Goto("reserved")
        /\ UNCHANGED <<work, prepared>>
     \/ PersistFails /\ EndPost
  /\ UNCHANGED <<now, zkill, flight, history>>

\* The evidence expired while the request waited for its turn.
SkipExpired(m) ==
  /\ step = "reserved"
  /\ task.current = {m}
  /\ ~Permitted(work, m, prepared[holder])
  /\ task' = NextId
  /\ Goto("next")
  /\ UNCHANGED <<now, disk, work, prepared, zkill, flight, history>>

\* Mutated form of MarkAttempt: the marker is not persisted.
MarkAttemptInMemory(m) ==
  /\ step = "reserved"
  /\ task.current = {m}
  /\ Permitted(work, m, prepared[holder])
  /\ work' = [work EXCEPT !.status[m] = PostAttempted(now)]
  /\ Goto("marked")
  /\ UNCHANGED <<now, disk, task, prepared, zkill, flight, history>>

\* Mutated form of MarkAttempt: nobody looks again after the wait for the turn.
MarkAttemptUnlooked(m) ==
  LET marked == [work EXCEPT !.status[m] = PostAttempted(now)]
  IN  /\ step = "reserved"
      /\ task.current = {m}
      /\ \/ /\ Persist(marked)
            /\ work' = marked
            /\ Goto("marked")
            /\ UNCHANGED <<task, prepared>>
         \/ PersistFails /\ EndPost
      /\ UNCHANGED <<now, zkill, flight, history>>

\* The attempt replaces the evidence, durably, before anything is sent.
MarkAttempt(m) ==
  LET marked == [work EXCEPT !.status[m] = PostAttempted(now)]
  IN  /\ step = "reserved"
      /\ task.current = {m}
      /\ Permitted(work, m, prepared[holder])
      /\ \/ /\ Persist(marked)
            /\ work' = marked
            /\ Goto("marked")
            /\ UNCHANGED <<task, prepared>>
         \/ PersistFails /\ EndPost
      /\ UNCHANGED <<now, zkill, flight, history>>

\* Cancelled after the marker was written: nothing is sent.
CancelMarked ==
  /\ step = "marked"
  /\ EndPost
  /\ UNCHANGED <<now, disk, zkill, flight, history>>

SendPost(m) ==
  /\ step = "marked"
  /\ task.current = {m}
  /\ flight' = flight \cup {m}
  /\ stamp' = [stamp EXCEPT ![m] = work.status[m].at]
  /\ Goto("sent")
  /\ UNCHANGED <<now, disk, work, task, prepared, zkill, told>>

\* zKillboard answers that it has the killmail, now or already.
PostAccepted(m) ==
  /\ step = "sent"
  /\ task.current = {m}
  /\ zkill' = zkill \cup {m}
  /\ flight' = flight \ {m}
  /\ work' = PruneReported([MergeCooldown(work, 0, now) EXCEPT !.status[m] = Reported])
  /\ Goto("record")
  /\ UNCHANGED <<now, disk, task, prepared, history>>

\* Mutated form of PostFails: a killmail that was sent counts as reported.
PostFailsAsReported(until) ==
  /\ step = "sent"
  /\ work' = [MergeCooldown(work, until, now) EXCEPT !.status =
                 [m \in Killmail |-> IF m \in task.current THEN Reported ELSE @[m]]]
  /\ told' = IF until > told THEN until ELSE told
  /\ Goto("record")
  /\ UNCHANGED <<now, disk, task, prepared, zkill, flight, stamp>>

\* The request failed or timed out: its effect stays open.
PostFails(until) ==
  /\ step = "sent"
  /\ work' = MergeCooldown(work, until, now)
  /\ told' = IF until > told THEN until ELSE told
  /\ Goto("record")
  /\ UNCHANGED <<now, disk, task, prepared, zkill, flight, stamp>>

RecordOutcome ==
  /\ step = "record"
  /\ \/ /\ Persist(work)
        /\ task' = NextId
        /\ Goto("next")
        /\ UNCHANGED <<work, prepared>>
     \/ PersistFails /\ EndPost
  /\ UNCHANGED <<now, zkill, flight, history>>

-----------------------------------------------------------------------------
(* Whole operations that only edit the store: lock, change, persist, unlock *)

EditStore(kind, s) ==
  /\ kind \in Edit
  /\ holder = NoProc
  /\ Persist(s)
  /\ UNCHANGED <<now, holder, step, work, task, prepared, zkill, flight, history>>

SetKillmailProtection(m, protected) ==
  /\ m \in Cached(disk)
  /\ EditStore("killmail", [disk EXCEPT !.manualKillmails =
                              IF protected THEN @ \cup {m} ELSE @ \ {m}])

\* add_protected_victim adds nothing that is already protected.
AddProtectedCharacter(c) ==
  /\ c \notin disk.characters
  /\ EditStore("victim", [disk EXCEPT !.manualCharacters = @ \cup {c}])

AddProtectedCorporation(k) ==
  /\ \A c \in disk.characters : disk.corporation[c] # k
  /\ EditStore("victim", [disk EXCEPT !.manualCorporations = @ \cup {k}])

RemoveProtectedCharacter(c) ==
  EditStore("victim", [disk EXCEPT !.manualCharacters = @ \ {c}])

RemoveProtectedCorporation(k) ==
  EditStore("victim", [disk EXCEPT !.manualCorporations = @ \ {k}])

Authenticate(c, corp) == EditStore("character", WithCharacter(disk, c, corp))

RemoveCharacter(c) ==
  /\ c \in disk.characters
  /\ EditStore("character", WithoutCharacter(disk, c))

-----------------------------------------------------------------------------
(* The environment *)

\* The process dies: its working copy and its confirmation are gone.
Crash(p) ==
  /\ CanCrash
  /\ holder = p
  /\ Release
  /\ prepared' = [q \in Poster |-> IF q = p THEN NoPost ELSE prepared[q]]
  /\ UNCHANGED <<now, disk, zkill, flight, history>>

\* A POST whose answer was lost takes effect.
Land(m) ==
  /\ m \in flight
  /\ zkill' = zkill \cup {m}
  /\ flight' = flight \ {m}
  /\ UNCHANGED <<now, disk, holder, step, work, task, prepared, history>>

\* Somebody else posts the killmail.
PostedElsewhere(m) ==
  /\ m \notin zkill
  /\ zkill' = zkill \cup {m}
  /\ UNCHANGED <<now, disk, holder, step, work, task, prepared, flight, history>>

Tick ==
  /\ now < MaxTime
  /\ now' = now + 1
  /\ UNCHANGED <<disk, holder, step, work, task, prepared, zkill, flight, history>>

-----------------------------------------------------------------------------
\* The lookup results of a run, no older than the clock's origin.
LookupResult ==
  {l \in [reported : SUBSET Killmail, complete : BOOLEAN,
          observed : 0..MaxTime, until : 0..(MaxTime + MaxAge)] :
     l.until <= l.observed + MaxAge}

StatusStep ==
  \/ CancelChecks
  \/ \E k \in task.checks : BeginLookup(k)
  \/ ReservePage
  \/ \E until \in {0, now + Backoff} : LookupFails(until)
  \/ \E l \in LookupResult : LookupAnswers(l)
  \/ SaveLookup
  \/ EndChecks

RefreshStep ==
  \/ \E c \in Character, corp \in Corporation : RefreshAffiliation(c, corp)
  \/ RotateToken
  \/ \E sources \in [Killmail -> SUBSET Character] : LoadKillmails(sources)
  \/ LoadFails
  \/ FinishRefresh

PostStep ==
  \/ Decide
  \/ StopPost
  \/ CancelMarked
  \/ RecordOutcome
  \/ \E until \in {0, now + Backoff} : PostFails(until)
  \/ \E m \in Killmail :
       \/ SkipKillmail(m)
       \/ ReservePost(m)
       \/ SkipExpired(m)
       \/ MarkAttempt(m)
       \/ SendPost(m)
       \/ PostAccepted(m)

UserStep ==
  \/ \E p \in Refresher : BeginRefresh(p)
  \/ \E p \in Poster :
       \/ BeginPrepare(p, SelectAll)
       \/ \E m \in Killmail, anyway \in BOOLEAN : BeginPrepare(p, SelectOne(m, anyway))
       \/ Decline(p)
       \/ BeginPost(p)

EditStep ==
  \/ \E m \in Killmail, protected \in BOOLEAN : SetKillmailProtection(m, protected)
  \/ \E c \in Character : AddProtectedCharacter(c) \/ RemoveProtectedCharacter(c)
  \/ \E k \in Corporation : AddProtectedCorporation(k) \/ RemoveProtectedCorporation(k)
  \/ \E c \in Character, corp \in Corporation \cup {NoCorp} : Authenticate(c, corp)
  \/ \E c \in Character : RemoveCharacter(c)

Environment ==
  \/ \E p \in Proc : Crash(p)
  \/ \E m \in Killmail : Land(m) \/ PostedElsewhere(m)
  \/ Tick

Next == StatusStep \/ RefreshStep \/ PostStep \/ UserStep \/ EditStep \/ Environment

Spec == Init /\ [][Next]_vars

\* An operation that runs goes on: every request has a timeout (http.rs), every
\* loop runs over a finite list, and no operation waits for another one.
Advance ==
  \/ \E k \in task.checks : BeginLookup(k)
  \/ LookupFails(0)
  \/ \E l \in LookupResult : LookupAnswers(l)
  \/ SaveLookup
  \/ EndChecks
  \/ \E sources \in [Killmail -> SUBSET Character] : LoadKillmails(sources)
  \/ LoadFails
  \/ FinishRefresh
  \/ PostStep

FairSpec == Spec /\ WF_vars(Advance)

-----------------------------------------------------------------------------
(* Safety *)

\* What a store says about a killmail is newer than its last POST: its absence
\* was observed after it, an attempt marker is not older than it, and a killmail
\* that was sent never goes back to having no record.
Remembers(s, m) ==
  CASE s.status[m].kind = "None"          -> stamp[m] = Never
    [] s.status[m].kind = "Unreported"    -> s.status[m].at > stamp[m]
    [] s.status[m].kind = "PostAttempted" -> s.status[m].at >= stamp[m]
    [] OTHER                              -> TRUE

\* An attempt is never forgotten and never overruled by older evidence, in the
\* persisted store or in a working copy, whatever crashes, cancellations,
\* failed writes and lost answers happened (posting.rs post, status.rs
\* apply_lookup).
AttemptRemembered ==
  \A m \in Killmail :
     /\ Remembers(disk, m)
     /\ holder # NoProc => Remembers(work, m)

\* The inductive invariant behind AttemptRemembered.  The lock and the step of
\* its holder agree; no recorded attempt lies in the future; and from the moment
\* a POST is about to leave, the persisted store and the working copy agree and
\* both carry the attempt marker of the killmail being sent.
LockAgrees == holder = NoProc <=> step = "idle"

MarkIsPast(s, m) == s.status[m].kind = "PostAttempted" => s.status[m].at <= now

AttemptsArePast ==
  \A m \in Killmail :
     /\ stamp[m] <= now
     /\ MarkIsPast(disk, m)
     /\ holder # NoProc => MarkIsPast(work, m)

MarkedIsDurable ==
  step = "marked" =>
    /\ disk = work
    /\ \A m \in task.current : work.status[m].kind = "PostAttempted"

IInv == TypeOK /\ AttemptRemembered /\ LockAgrees /\ AttemptsArePast /\ MarkedIsDurable

\* A killmail is only recorded as reported when zKillboard has it (status.rs
\* apply_lookup, posting.rs post).
ReportedIsTrue ==
  \A m \in Killmail :
     disk.status[m].kind = "Reported" \/ work.status[m].kind = "Reported" => m \in zkill

\* Only a killmail the poster's user confirmed is sent, and while its victim is
\* protected in the persisted store only when the user confirmed exactly that
\* one with post_anyway, however the protection changed after the confirmation
\* was prepared (posting.rs post_permission).
ProtectionHonoured ==
  [][\A m \in Killmail : stamp'[m] # stamp[m] =>
        /\ m \in prepared[holder].ids
        /\ Protected(disk, m) => prepared[holder].anyway /\ prepared[holder].ids = {m}]_vars

\* A killmail known to be reported stays so and never reenters the persisted
\* cache with a load (refresh.rs perform_refresh, status.rs apply_lookup).
ReportedIsFinal ==
  [][\A m \in Killmail : disk.status[m].kind = "Reported" =>
        /\ disk'.status[m].kind = "Reported"
        /\ m \in Cached(disk') => m \in Cached(disk)]_vars

-----------------------------------------------------------------------------
(* Liveness *)

\* No operation keeps the store lock for ever, so no other process finds the
\* store busy for ever because of it (store.rs begin_operation, LockedStore).
LockReleased == holder # NoProc ~> holder = NoProc

-----------------------------------------------------------------------------
(* Posting implements the promise of Submission *)

DurableEvidence ==
  [m \in Killmail |->
     IF ReportState(disk, m, now) = "Unreported" THEN disk.status[m].at ELSE Never]

Armed == IF step = "marked" THEN task.current ELSE {}

OpenConsent ==
  [p \in Poster |->
     IF p = holder /\ task.kind = "post"
     THEN IF step \in {"sent", "record"} THEN task.queue \ task.current ELSE task.queue
     ELSE prepared[p].ids]

Promise == INSTANCE Submission WITH evidence <- DurableEvidence, armed <- Armed,
                                    consent <- OpenConsent

\* Every POST has its own confirmation and its own durable evidence, newer than
\* the previous POST of the killmail, still valid when it is given up, and given
\* up before the POST is sent (posting.rs post).
SubmissionPromise == Promise!Spec

-----------------------------------------------------------------------------
(* Claims of the comments that the code does not keep *)

\* status.rs apply_lookup: when what is known of a killmail has expired, only an
\* absence observed after its last submission makes it unreported again.
AbsenceAfterAttempt ==
  step = "apply" =>
    \A m \in Killmail :
       /\ ReportState(disk, m, now) = "Unknown"
       /\ work.status[m].kind = "Unreported"
       /\ work.status[m] # disk.status[m]
       => task.observed > stamp[m]

\* http.rs ApiLog: core persists the cooldowns it drains from the backend.
CooldownPersisted ==
  holder = NoProc /\ told > now => disk.cooldown >= told
=============================================================================
