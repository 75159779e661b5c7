-------------------------- MODULE RefreshSchedule --------------------------
(***************************************************************************)
(* When ekmp refreshes (src/src/core/refresh.rs refresh, refresh_due,      *)
(* refresh_with_interval; core/store.rs snapshot, begin_operation;         *)
(* cli/service.rs run): the refresh service and foreground refreshes       *)
(* decide from a snapshot, take the store lock, decide again, refresh, and *)
(* record how it went.  Other operations hold the lock in between, change  *)
(* preferences or are told to leave an API alone for a while.              *)
(*                                                                         *)
(* All times are relative to now, as the code only ever compares them with *)
(* now: an age grows and a delay shrinks with each Tick.  What a refresh   *)
(* loads and saves is the subject of Posting; here it takes some time,     *)
(* observes cooldowns and ends.                                            *)
(***************************************************************************)
EXTENDS Integers

CONSTANTS
  Service,      \* processes that run `ekmp service run`
  Foreground,   \* processes that refresh once, `ekmp refresh` or the GUI
  Other,        \* processes that run any other operation
  Interval,     \* refresh intervals that can be set or given on the command line
  Override,     \* the --interval of each service, or NoInterval
  NoInterval,
  Base,         \* the first backoff, 60 s
  MinWait,      \* service.rs MIN_WAIT
  MaxWait,      \* service.rs MAX_WAIT
  MaxAge,       \* ages are not told apart beyond this
  MaxFailures,  \* failure counts are not told apart beyond this, nor are their backoffs
  Cooldown,     \* cooldowns the services ask for
  Mortal,       \* processes that may die
  CanFailPersist \* whether writing the store may fail

Refresher == Service \cup Foreground
Proc == Refresher \cup Other

ASSUME ProcAssumption == Refresher \cap Other = {}
ASSUME IntervalAssumption ==
  /\ Interval \subseteq Nat
  /\ NoInterval \notin Interval
  /\ Override \in [Service -> Interval \cup {NoInterval}]
ASSUME TimeAssumption ==
  /\ {Base, MinWait, MaxWait, MaxAge} \subseteq Nat
  /\ MaxFailures \in Nat \ {0}
  /\ Cooldown \subseteq Nat
  /\ \A i \in Interval : i <= MaxAge
ASSUME FlagAssumption == CanFailPersist \in BOOLEAN

VARIABLES
  disk,         \* the persisted store
  work,         \* the working copy of whoever holds the operation lock
  step,         \* where each process is
  asked,        \* the interval each refresh goes by
  wait,         \* how long each service still sleeps
  cancelled,    \* who was interrupted
  told          \* history: what is left of the cooldowns that were recorded

vars == <<disk, work, step, asked, wait, cancelled, told>>

MaxOf(a, b) == IF a >= b THEN a ELSE b
MinOf(a, b) == IF a <= b THEN a ELSE b

\* How long ago a refresh was completed, and completed well; how many failed in a
\* row; how long until the next may start after a failure; the longest cooldown.
Store == [completed : 0 .. MaxAge, success : 0 .. MaxAge, failures : 0 .. MaxFailures, eligible : Nat,
          cooldown : Nat, interval : Interval, characters : BOOLEAN]

(* Steps of a process.                                                        *)
(*   due, dueRead:   refresh_due takes a snapshot, and releases its lock      *)
(*   read:           refresh does the same, for the interval only             *)
(*   begin:          refresh_with_interval is about to take the lock          *)
(*   run:            it refreshes                                             *)
(*   plan, planRead: next_wait takes a snapshot, and releases its lock        *)
(*   wait:           the service sleeps                                       *)
(*   hold:           another operation has the lock                           *)
Step == {"off", "due", "dueRead", "read", "begin", "run", "plan", "planRead", "wait", "hold"}

TypeOK ==
  /\ disk \in Store
  /\ work \in Store
  /\ step \in [Proc -> Step]
  /\ asked \in [Refresher -> Interval \cup {NoInterval}]
  /\ wait \in [Service -> 0 .. MaxOf(MinWait, MaxWait)]
  /\ cancelled \in SUBSET Refresher
  /\ told \in Nat

Init ==
  /\ disk \in [completed : {MaxAge}, success : {MaxAge}, failures : {0}, eligible : {0},
               cooldown : {0}, interval : Interval, characters : BOOLEAN]
  /\ work = disk
  /\ step = [p \in Proc |-> "off"]
  /\ asked = [p \in Refresher |-> NoInterval]
  /\ wait = [p \in Service |-> 0]
  /\ cancelled = {}
  /\ told = 0

-----------------------------------------------------------------------------
(* The schedule *)

\* refresh_not_before, as a delay.
Scheduled(s, interval) ==
  IF s.failures > 0 THEN s.eligible ELSE MaxOf(interval - s.completed, 0)
NotBefore(s, interval) == MaxOf(Scheduled(s, interval), s.cooldown)

\* refresh_backoff: the first backoff doubles up to ten times.
Doubling == <<1, 2, 4, 8, 16, 32, 64, 128, 256, 512, 1024>>
Backoff(failures, interval) ==
  MinOf(Base * Doubling[MinOf(failures, 11)], MaxOf(interval, Base))

\* Mutated form of WithCooldown: the last one observed replaces the others.
WithLastCooldown(s, cooldown) == [s EXCEPT !.cooldown = cooldown]

\* merge_api_cooldowns, as far as the longest of them is concerned.
WithCooldown(s, cooldown) == [s EXCEPT !.cooldown = MaxOf(@, cooldown)]

\* How perform_refresh ends: all went well, something failed, or it noticed that
\* it was interrupted.
Outcome == {"ok", "failed", "cancelled"}

\* What refresh_with_interval makes of it.
FailuresAfter(s, outcome) ==
  CASE outcome = "ok" -> 0
    [] outcome = "failed" -> MinOf(s.failures + 1, MaxFailures)
    [] outcome = "cancelled" -> s.failures
DelayAfter(s, outcome, interval) ==
  CASE outcome = "ok" -> interval
    [] outcome = "failed" -> Backoff(FailuresAfter(s, outcome), interval)
    [] outcome = "cancelled" -> 0
Concluded(s, outcome, interval) ==
  [s EXCEPT !.completed = 0,
            !.success = IF outcome = "ok" THEN 0 ELSE @,
            !.failures = FailuresAfter(s, outcome),
            !.eligible = MaxOf(DelayAfter(s, outcome, interval), s.cooldown)]

\* Without characters there is nothing to refresh, and it is done at once.
Idle(s, interval) == [s EXCEPT !.completed = 0, !.eligible = interval]

-----------------------------------------------------------------------------
(* Processes *)

\* Whoever is off has nothing in memory.
Goto(p, to) ==
  /\ step' = [step EXCEPT ![p] = to]
  /\ cancelled' = IF to = "off" THEN cancelled \ {p} ELSE cancelled

\* A refresh of p that was not interrupted is over.
Return(p) == Goto(p, IF p \in Service THEN "plan" ELSE "off")

\* Who has the operation lock, and who shares it to take a snapshot.
Holders == {p \in Proc : step[p] \in {"run", "hold"}}
Readers == {p \in Proc : step[p] \in {"dueRead", "read", "planRead"}}

CanRead == Holders = {}
CanLock == Holders = {} /\ Readers = {}

Remember(p, interval) == asked' = [asked EXCEPT ![p] = interval]
Forget(p) == asked' = [q \in Refresher |-> IF q = p THEN NoInterval ELSE asked[q]]

IntervalOf(p) == IF Override[p] = NoInterval THEN disk.interval ELSE Override[p]

StartService(p) ==
  /\ step[p] = "off"
  /\ Goto(p, "due")
  /\ UNCHANGED <<disk, work, asked, wait, told>>

\* refresh_due looks whether anything is to be done, by the time it began.
DueSnapshot(p) ==
  /\ step[p] = "due"
  /\ CanRead
  /\ IF disk.characters /\ NotBefore(disk, IntervalOf(p)) = 0
     THEN Remember(p, IntervalOf(p))
     ELSE UNCHANGED asked
  /\ Goto(p, "dueRead")
  /\ UNCHANGED <<disk, work, wait, told>>

DueBusy(p) ==
  /\ step[p] = "due"
  /\ ~CanRead
  /\ Goto(p, "plan")
  /\ UNCHANGED <<disk, work, asked, wait, told>>

RefreshDue(p) ==
  /\ step[p] = "dueRead"
  /\ Goto(p, IF asked[p] = NoInterval THEN "plan" ELSE "begin")
  /\ UNCHANGED <<disk, work, asked, wait, told>>

\* A foreground refresh only takes the interval from its snapshot.
RefreshSnapshot(p) ==
  /\ step[p] = "off"
  /\ CanRead
  /\ Goto(p, "read")
  /\ UNCHANGED <<disk, work, asked, wait, told>>

Refresh(p) ==
  /\ step[p] = "read"
  /\ Remember(p, disk.interval)
  /\ Goto(p, "begin")
  /\ UNCHANGED <<disk, work, wait, told>>

BeginBusy(p) ==
  /\ step[p] = "begin"
  /\ ~CanLock
  /\ Forget(p)
  /\ Return(p)
  /\ UNCHANGED <<disk, work, wait, told>>

BeginCancelled(p) ==
  /\ step[p] = "begin"
  /\ CanLock
  /\ p \in cancelled
  /\ Forget(p)
  /\ Goto(p, "off")
  /\ UNCHANGED <<disk, work, wait, told>>

\* Under the lock it is decided again, by the interval of the snapshot: not yet due,
\* or the attempt could not be recorded.
BeginDeferred(p) ==
  /\ step[p] = "begin"
  /\ CanLock
  /\ p \notin cancelled
  /\ NotBefore(disk, asked[p]) > 0 \/ CanFailPersist
  /\ Forget(p)
  /\ Return(p)
  /\ UNCHANGED <<disk, work, wait, told>>

BeginIdle(p) ==
  /\ step[p] = "begin"
  /\ CanLock
  /\ p \notin cancelled
  /\ NotBefore(disk, asked[p]) = 0
  /\ ~disk.characters
  /\ disk' = Idle(disk, asked[p])
  /\ work' = disk'
  /\ Forget(p)
  /\ Return(p)
  /\ UNCHANGED <<wait, told>>

\* Mutated form of BeginRun: what the snapshot said is not checked again.
BeginRunUnchecked(p) ==
  /\ step[p] = "begin"
  /\ CanLock
  /\ p \notin cancelled
  /\ disk.characters
  /\ Goto(p, "run")
  /\ UNCHANGED <<disk, work, asked, wait, told>>

BeginRun(p) ==
  /\ step[p] = "begin"
  /\ CanLock
  /\ p \notin cancelled
  /\ NotBefore(disk, asked[p]) = 0
  /\ disk.characters
  /\ Goto(p, "run")
  /\ UNCHANGED <<disk, work, asked, wait, told>>

\* An answer comes with a cooldown, and what is done so far may be persisted.
Observe(p, cooldown) ==
  /\ step[p] = "run"
  /\ work' = WithCooldown(work, cooldown)
  /\ \/ disk' = work' /\ told' = MaxOf(told, cooldown)
     \/ UNCHANGED <<disk, told>>
  /\ UNCHANGED <<step, asked, wait, cancelled>>

\* A service that was interrupted in a refresh stops, unless the outcome could not
\* be persisted: then that is the error.
Finish(p, outcome) ==
  LET s == Concluded(work, outcome, asked[p])
  IN  /\ step[p] = "run"
      /\ outcome = "cancelled" => p \in cancelled
      /\ \/ /\ disk' = s
            /\ told' = MaxOf(told, s.cooldown)
            /\ IF outcome = "cancelled" THEN Goto(p, "off") ELSE Return(p)
         \/ /\ CanFailPersist
            /\ Return(p)
            /\ UNCHANGED <<disk, told>>
      /\ work' = disk'
      /\ Forget(p)
      /\ UNCHANGED wait

PlanSnapshot(p) ==
  /\ step[p] = "plan"
  /\ CanRead
  /\ Goto(p, "planRead")
  /\ UNCHANGED <<disk, work, asked, wait, told>>

\* Mutated form of PlanBusy: a store that is in use is an error, which ends the
\* service.
PlanBusyStops(p) ==
  /\ step[p] = "plan"
  /\ ~CanRead
  /\ Goto(p, "off")
  /\ UNCHANGED <<disk, work, asked, wait, told>>

PlanBusy(p) ==
  /\ step[p] = "plan"
  /\ ~CanRead
  /\ wait' = [wait EXCEPT ![p] = MaxWait]
  /\ Goto(p, "wait")
  /\ UNCHANGED <<disk, work, asked, told>>

\* Mutated form of NextWait: it sleeps until the next refresh is due, however late
\* that is and whatever changes meanwhile.
NextWaitUnclamped(p) ==
  IF disk.characters THEN MaxOf(NotBefore(disk, IntervalOf(p)), MinWait) ELSE MaxWait

\* next_wait.
NextWait(p) ==
  IF disk.characters
  THEN MinOf(MaxOf(NotBefore(disk, IntervalOf(p)), MinWait), MaxWait)
  ELSE MaxWait

Plan(p) ==
  /\ step[p] = "planRead"
  /\ wait' = [wait EXCEPT ![p] = NextWait(p)]
  /\ Goto(p, "wait")
  /\ UNCHANGED <<disk, work, asked, told>>

Wake(p) ==
  /\ step[p] = "wait"
  /\ wait[p] = 0 \/ p \in cancelled
  /\ wait' = [wait EXCEPT ![p] = 0]
  /\ Goto(p, IF p \in cancelled THEN "off" ELSE "due")
  /\ UNCHANGED <<disk, work, asked, told>>

-----------------------------------------------------------------------------
(* Other operations, interruptions and time *)

Hold(p) ==
  /\ step[p] = "off"
  /\ CanLock
  /\ Goto(p, "hold")
  /\ UNCHANGED <<disk, work, asked, wait, told>>

\* It may change the interval, add or remove characters, and observe a cooldown.
Release(p, interval, characters, cooldown) ==
  /\ step[p] = "hold"
  /\ disk' = [WithCooldown(work, cooldown) EXCEPT !.interval = interval,
                                                  !.characters = characters]
  /\ work' = disk'
  /\ told' = MaxOf(told, cooldown)
  /\ Goto(p, "off")
  /\ UNCHANGED <<asked, wait>>

Cancel(p) ==
  /\ step[p] # "off"
  /\ cancelled' = cancelled \cup {p}
  /\ UNCHANGED <<disk, work, step, asked, wait, told>>

\* The system releases the locks of a process that dies.
Crash(p) ==
  /\ p \in Mortal
  /\ step[p] # "off"
  /\ Goto(p, "off")
  /\ work' = IF p \in Holders THEN disk ELSE work
  /\ Forget(p)
  /\ wait' = [q \in Service |-> IF q = p THEN 0 ELSE wait[q]]
  /\ UNCHANGED <<disk, told>>

\* Beyond MaxAge, ages are not told apart.
Older(age) == MinOf(age + 1, MaxAge)
Shorter(delay) == MaxOf(delay - 1, 0)
Aged(s) == [s EXCEPT !.completed = Older(@), !.success = Older(@),
                     !.eligible = Shorter(@), !.cooldown = Shorter(@)]

Tick ==
  /\ disk' = Aged(disk)
  /\ work' = Aged(work)
  /\ wait' = [p \in Service |-> Shorter(wait[p])]
  /\ told' = Shorter(told)
  /\ UNCHANGED <<step, asked, cancelled>>

-----------------------------------------------------------------------------
RefreshStep(p) ==
  \/ BeginBusy(p)
  \/ BeginCancelled(p)
  \/ BeginDeferred(p)
  \/ BeginIdle(p)
  \/ BeginRun(p)
  \/ \E cooldown \in Cooldown : Observe(p, cooldown)
  \/ \E outcome \in Outcome : Finish(p, outcome)

ServiceStep(p) ==
  \/ DueSnapshot(p)
  \/ DueBusy(p)
  \/ RefreshDue(p)
  \/ PlanSnapshot(p)
  \/ PlanBusy(p)
  \/ Plan(p)
  \/ Wake(p)

OtherStep(p) ==
  \/ Hold(p)
  \/ \E interval \in Interval, characters \in BOOLEAN, cooldown \in Cooldown :
       Release(p, interval, characters, cooldown)

Next ==
  \/ \E p \in Refresher : RefreshStep(p) \/ Cancel(p)
  \/ \E p \in Service : StartService(p) \/ ServiceStep(p)
  \/ \E p \in Foreground : RefreshSnapshot(p) \/ Refresh(p)
  \/ \E p \in Other : OtherStep(p)
  \/ \E p \in Proc : Crash(p)
  \/ Tick

Spec == Init /\ [][Next]_vars

\* A running service goes on and time passes; what a service asks of the APIs comes
\* to an end.  A write that is tried again and again succeeds at last.
Fairness ==
  /\ WF_vars(Tick)
  /\ \A p \in Service :
       /\ WF_vars(ServiceStep(p))
       /\ WF_vars(BeginBusy(p) \/ BeginCancelled(p) \/ BeginDeferred(p) \/ BeginIdle(p))
       /\ SF_vars(BeginRun(p))
       /\ WF_vars(\E outcome \in Outcome : Finish(p, outcome))

FairSpec == Spec /\ Fairness

-----------------------------------------------------------------------------
(* Properties *)

\* The last success is not more recent than the shortest interval that can be set.
LongAgo(s) == \E i \in Interval : s.success >= i

\* What a store says of the past: failures in a row began after that long.
Sound(s) ==
  /\ s.completed <= s.success
  /\ s.failures > 0 => LongAgo(s)

\* There is one operation at a time, and only its working copy differs.
Exclusive ==
  /\ \A p, q \in Holders : p = q
  /\ Holders = {} => work = disk

\* The inductive invariant: both copies are sound and know every cooldown that was
\* recorded, and a refresh that runs began long after a success.
IInv ==
  /\ TypeOK
  /\ Exclusive
  /\ Sound(disk) /\ Sound(work)
  /\ told <= disk.cooldown /\ told <= work.cooldown
  /\ \A p \in Refresher : step[p] \in {"begin", "run"} => asked[p] \in Interval
  /\ \A p \in Refresher : step[p] = "run" => LongAgo(work)

Begins(p) == step[p] = "begin" /\ step'[p] = "run"

\* Whoever refreshed last and whatever changed meanwhile, no refresh begins
\* sooner than the shortest interval that can be set after one that went well
\* (README: refreshes run at most every 5 minutes; refresh.rs refresh_not_before).
RefreshesSpaced ==
  [][\A p \in Refresher : Begins(p) => LongAgo(disk)]_vars

\* No refresh begins while a cooldown that any process recorded is running, also
\* when its snapshot did not know of it (README: cooldowns hold across restarts
\* and between the CLI and the service; timing.rs merge_api_cooldowns).
CooldownsHonoured == [][\A p \in Refresher : Begins(p) => told = 0]_vars

\* A service that is not interrupted keeps refreshing, once there are characters
\* and other processes leave the store alone, whatever failed before
\* (service.rs run).
ServiceRefreshes ==
  \A p \in Service :
    /\ <>(step[p] # "off")
    /\ [](p \notin cancelled)
    /\ <>[](disk.characters /\ Holders \cup Readers \subseteq {p})
    => []<>(step[p] = "run")
=============================================================================
