----------------------- MODULE RefreshScheduleProofs -----------------------
(***************************************************************************)
(* Proofs about RefreshSchedule: its inductive invariant, the spacing of   *)
(* refreshes and the cooldowns, for any number of processes.               *)
(***************************************************************************)
EXTENDS RefreshSchedule, TLAPS

Parameters == ProcAssumption /\ IntervalAssumption /\ TimeAssumption

\* The table of refresh_backoff holds natural numbers.
LEMMA DoublingNat == \A k \in 1 .. 11 : Doubling[k] \in Nat
  BY SMTT(30) DEF Doubling

\* Every backoff is a delay.
LEMMA BackoffNat ==
  ASSUME NEW failures \in Nat \ {0}, NEW interval \in Nat, Base \in Nat
  PROVE  Backoff(failures, interval) \in Nat
<1> DEFINE k == MinOf(failures, 11)
<1>1. k \in 1 .. 11
  BY DEF MinOf
<1>2. Doubling[k] \in Nat
  BY <1>1, DoublingNat
<1> HIDE DEF k
<1>3. Base * Doubling[k] \in Nat
  BY <1>2
<1>4. MaxOf(interval, Base) \in Nat
  BY DEF MaxOf
<1> QED
  BY <1>3, <1>4 DEF Backoff, MinOf, k

-----------------------------------------------------------------------------
(* Stores *)

\* What an invariant has to keep of a store.
Good(s) == s \in Store /\ Sound(s)

\* Cooldowns only add up.
LEMMA WithCooldownGood ==
  ASSUME NEW s \in Store, NEW cooldown \in Nat, Good(s)
  PROVE  /\ Good(WithCooldown(s, cooldown))
         /\ WithCooldown(s, cooldown) = [s EXCEPT !.cooldown = MaxOf(s.cooldown, cooldown)]
         /\ WithCooldown(s, cooldown).cooldown >= s.cooldown
         /\ WithCooldown(s, cooldown).cooldown >= cooldown
         /\ WithCooldown(s, cooldown).success = s.success
BY DEF Good, WithCooldown, MaxOf, Store, Sound, LongAgo

\* However a refresh ends that began long after a success, the store is sound.
LEMMA ConcludedGood ==
  ASSUME NEW s \in Store, NEW outcome \in Outcome, NEW interval \in Interval,
         Good(s), LongAgo(s), IntervalAssumption, TimeAssumption
  PROVE  /\ Good(Concluded(s, outcome, interval))
         /\ Concluded(s, outcome, interval).cooldown = s.cooldown
<1> DEFINE f == FailuresAfter(s, outcome)
           d == MaxOf(DelayAfter(s, outcome, interval), s.cooldown)
           c == Concluded(s, outcome, interval)
           v == IF outcome = "ok" THEN 0 ELSE s.success
<1>1. f \in 0 .. MaxFailures /\ (outcome = "failed" => f # 0) /\ (outcome = "ok" => f = 0)
  BY DEF FailuresAfter, Outcome, MinOf, Store, TimeAssumption
<1>2. DelayAfter(s, outcome, interval) \in Nat
  <2>1. CASE outcome = "failed"
    <3>1. Backoff(f, interval) \in Nat
      BY <1>1, <2>1, BackoffNat DEF IntervalAssumption, TimeAssumption
    <3> QED
      BY <2>1, <3>1 DEF DelayAfter
  <2>2. CASE outcome # "failed"
    BY <2>2 DEF DelayAfter, Outcome, IntervalAssumption
  <2> QED
    BY <2>1, <2>2
<1>3. d \in Nat
  BY <1>2 DEF MaxOf, Store
<1>4. c = [s EXCEPT !.completed = 0, !.success = v,
                    !.failures = f, !.eligible = d]
  BY DEF Concluded
<1>v. v \in 0 .. s.success /\ (outcome # "ok" => v = s.success)
  BY DEF Store
<1>z. 0 \in 0 .. MaxAge
  BY DEF TimeAssumption
<1>w. v \in 0 .. MaxAge
  BY <1>z, <1>v DEF Store, TimeAssumption
<1> HIDE DEF f, d, c, v
<1>5. c \in Store /\ c.cooldown = s.cooldown
  BY <1>1, <1>3, <1>4, <1>w, <1>z DEF Store
<1>6. c.completed = 0 /\ c.success = v /\ c.failures = f
  BY <1>4 DEF Store
<1>7. Sound(c)
  BY <1>1, <1>6, <1>v DEF Sound, LongAgo, Store
<1> QED
  BY <1>5, <1>7 DEF c, Good

\* How long to wait is a delay.
LEMMA NotBeforeNat ==
  ASSUME NEW s \in Store, NEW interval \in Interval, IntervalAssumption
  PROVE  NotBefore(s, interval) \in Nat
<1>1. s.eligible \in Nat /\ s.cooldown \in Nat /\ s.completed \in Int /\ interval \in Nat
  BY DEF Store, IntervalAssumption
<1> QED
  BY <1>1 DEF NotBefore, Scheduled, MaxOf

\* So it is without characters, and when time passes.
LEMMA IdleGood ==
  ASSUME NEW s \in Store, NEW interval \in Interval, Good(s),
         IntervalAssumption, TimeAssumption
  PROVE  Good(Idle(s, interval)) /\ Idle(s, interval).cooldown = s.cooldown
<1> DEFINE i == Idle(s, interval)
<1>1. i = [s EXCEPT !.completed = 0, !.eligible = interval]
  BY DEF Idle
<1> HIDE DEF i
<1>z. 0 \in 0 .. MaxAge /\ interval \in Nat
  BY DEF TimeAssumption, IntervalAssumption
<1>2. /\ i \in Store /\ i.cooldown = s.cooldown
      /\ i.completed = 0 /\ i.success = s.success /\ i.failures = s.failures
  BY <1>1, <1>z DEF Store
<1>3. Sound(i)
  BY <1>2 DEF Good, Sound, LongAgo, Store
<1> QED
  BY <1>2, <1>3 DEF i, Good

LEMMA AgedGood ==
  ASSUME NEW s \in Store, Good(s), IntervalAssumption, TimeAssumption
  PROVE  /\ Good(Aged(s))
         /\ Aged(s).cooldown = Shorter(s.cooldown)
         /\ LongAgo(s) => LongAgo(Aged(s))
<1>1. Aged(s) = [s EXCEPT !.completed = Older(s.completed), !.success = Older(s.success),
                          !.eligible = Shorter(s.eligible), !.cooldown = Shorter(s.cooldown)]
  BY DEF Aged
<1>2. /\ Older(s.completed) \in 0 .. MaxAge
      /\ Older(s.success) \in 0 .. MaxAge
      /\ Shorter(s.eligible) \in Nat
      /\ Shorter(s.cooldown) \in Nat
      /\ s.completed <= s.success => Older(s.completed) <= Older(s.success)
      /\ s.success <= Older(s.success)
  BY DEF Older, Shorter, MinOf, MaxOf, Store, TimeAssumption
<1>3. /\ Aged(s) \in Store
      /\ Aged(s).cooldown = Shorter(s.cooldown)
      /\ Aged(s).completed = Older(s.completed)
      /\ Aged(s).success = Older(s.success)
      /\ Aged(s).failures = s.failures
  BY <1>1, <1>2 DEF Store
<1>4. LongAgo(s) => LongAgo(Aged(s))
  BY <1>2, <1>3 DEF LongAgo, Store, IntervalAssumption
<1> QED
  BY <1>2, <1>3, <1>4 DEF Good, Sound

\* When a refresh may begin, the last success was long ago and no cooldown runs.
LEMMA WhenDue ==
  ASSUME NEW s \in Store, NEW interval \in Interval, Good(s),
         NotBefore(s, interval) = 0, IntervalAssumption
  PROVE  LongAgo(s) /\ s.cooldown = 0
<1>1. s.cooldown = 0 /\ (s.failures = 0 => s.completed >= interval)
  BY DEF NotBefore, Scheduled, MaxOf, Store, IntervalAssumption
<1>2. CASE s.failures = 0
  BY <1>1, <1>2 DEF Good, Sound, LongAgo, Store, IntervalAssumption
<1>3. CASE s.failures # 0
  BY <1>1, <1>3 DEF Good, Sound, Store
<1> QED
  BY <1>2, <1>3

-----------------------------------------------------------------------------
(* Processes *)

\* One process goes on and what each refresh goes by stays known.
Moves(p) ==
  /\ step' \in [Proc -> Step]
  /\ \A q \in Proc \ {p} : step'[q] = step[q]
  /\ cancelled' \in SUBSET Refresher
  /\ asked' \in [Refresher -> Interval \cup {NoInterval}]
  /\ \A q \in Refresher \ {p} : asked'[q] = asked[q]
  /\ wait' \in [Service -> 0 .. MaxOf(MinWait, MaxWait)]

\* How a process goes from one step to the next.
LEMMA GotoStep ==
  ASSUME TypeOK, NEW p \in Proc, NEW to \in Step, Goto(p, to)
  PROVE  /\ step' = [step EXCEPT ![p] = to] /\ step' \in [Proc -> Step] /\ step'[p] = to
         /\ \A q \in Proc \ {p} : step'[q] = step[q]
         /\ cancelled' \in SUBSET Refresher
BY DEF TypeOK, Goto

LEMMA ReturnStep ==
  ASSUME TypeOK, NEW p \in Proc, Return(p)
  PROVE  /\ step' \in [Proc -> Step] /\ step'[p] \in {"plan", "off"}
         /\ \A q \in Proc \ {p} : step'[q] = step[q]
         /\ cancelled' \in SUBSET Refresher
BY GotoStep DEF Return, Step

LEMMA AskedType ==
  ASSUME TypeOK, NEW p \in Proc
  PROVE  /\ Forget(p) => /\ asked' \in [Refresher -> Interval \cup {NoInterval}]
                         /\ \A q \in Refresher \ {p} : asked'[q] = asked[q]
         /\ \A i \in Interval : p \in Refresher /\ Remember(p, i) =>
              /\ asked' \in [Refresher -> Interval \cup {NoInterval}]
              /\ asked'[p] = i
              /\ \A q \in Refresher \ {p} : asked'[q] = asked[q]
BY DEF TypeOK, Forget, Remember

\* Without the lock, nothing of the store changes.
LEMMA WithoutLock ==
  ASSUME IInv, NEW p \in Proc, Moves(p), p \notin Holders,
         step'[p] \notin {"run", "hold"},
         p \in Refresher /\ step'[p] = "begin" => asked'[p] \in Interval,
         UNCHANGED <<disk, work, told>>
  PROVE  IInv'
<1>1. Holders' = Holders
  BY DEF Holders, Moves, IInv, TypeOK
<1>2. TypeOK'
  BY DEF IInv, TypeOK, Moves
<1>3. Exclusive'
  BY <1>1 DEF IInv, Exclusive
<1>4. Sound(disk)' /\ Sound(work)' /\ told' <= disk'.cooldown /\ told' <= work'.cooldown
  BY DEF IInv, Sound, LongAgo
<1>5. ASSUME NEW q \in Refresher, step'[q] \in {"begin", "run"}
      PROVE  asked'[q] \in Interval
  BY <1>5 DEF Moves, IInv, Refresher, Proc
<1>6. ASSUME NEW q \in Refresher, step'[q] = "run" PROVE LongAgo(work)'
  BY <1>6 DEF Moves, IInv, Refresher, Proc, LongAgo
<1> QED
  BY <1>2, <1>3, <1>4, <1>5, <1>6 DEF IInv

\* Whoever has the lock, or could have it, gives it back with a good store.
LEMMA GivesBack ==
  ASSUME IInv, NEW p \in Proc, Moves(p), Holders \subseteq {p},
         step'[p] \notin {"begin", "run", "hold"},
         Good(disk'), work' = disk', told' \in Nat, told' <= disk'.cooldown
  PROVE  IInv'
<1>1. Holders' = {}
  BY DEF Holders, Moves
<1>2. TypeOK'
  BY DEF IInv, TypeOK, Moves, Good
<1>3. Exclusive'
  BY <1>1 DEF Exclusive
<1>4. Sound(disk)' /\ Sound(work)' /\ told' <= work'.cooldown
  BY DEF Good, Sound, LongAgo
<1>5. ASSUME NEW q \in Refresher, step'[q] \in {"begin", "run"}
      PROVE  q \in Proc \ {p} /\ step[q] \in {"begin", "run"}
  BY <1>5 DEF Moves, Refresher, Proc
<1>6. ASSUME NEW q \in Refresher, step'[q] \in {"begin", "run"}
      PROVE  asked'[q] \in Interval
  BY <1>5, <1>6 DEF Moves, IInv, Refresher, Proc
<1>7. ASSUME NEW q \in Refresher, step'[q] = "run" PROVE LongAgo(work)'
  BY <1>1, <1>7 DEF Holders, Refresher, Proc
<1> QED
  BY <1>2, <1>3, <1>4, <1>6, <1>7 DEF IInv

-----------------------------------------------------------------------------
(* The inductive invariant *)

LEMMA Initially == Parameters /\ Init => IInv
<1> SUFFICES ASSUME Parameters, Init PROVE IInv
  OBVIOUS
<1>1. /\ disk \in [completed : {MaxAge}, success : {MaxAge}, failures : {0},
                   eligible : {0}, cooldown : {0}, interval : Interval,
                   characters : BOOLEAN]
      /\ work = disk
  BY DEF Init
<1>2. MaxAge \in 0 .. MaxAge /\ 0 \in 0 .. MaxFailures
  BY DEF Parameters, TimeAssumption
<1>3. disk \in Store
  BY <1>1, <1>2 DEF Store
<1>4. 0 \in 0 .. MaxOf(MinWait, MaxWait)
  BY DEF Parameters, TimeAssumption, MaxOf
<1>5. TypeOK
  BY <1>1, <1>3, <1>4 DEF Init, TypeOK, Step
<1>6. Sound(disk)
  BY <1>1, <1>2 DEF Sound
<1>7. Exclusive
  BY <1>1 DEF Init, Exclusive, Holders
<1>8. told <= disk.cooldown /\ told <= work.cooldown
  BY <1>1 DEF Init
<1>9. \A p \in Refresher : step[p] = "off"
  BY DEF Init, Refresher, Proc
<1>10. Sound(work)
  BY <1>1, <1>6
<1> QED
  BY <1>5, <1>6, <1>7, <1>8, <1>9, <1>10 DEF IInv

\* A service and whoever is about to take the lock leave the store alone.
LEMMA IntervalOfType ==
  ASSUME Parameters, IInv, NEW p \in Service
  PROVE  IntervalOf(p) \in Interval
BY DEF Parameters, IntervalAssumption, IInv, TypeOK, Store, IntervalOf

LEMMA ServiceStays ==
  ASSUME Parameters, IInv, NEW p \in Service, StartService(p) \/ ServiceStep(p)
  PROVE  IInv'
<1> USE DEF Parameters
<1>p. p \in Proc /\ p \in Refresher /\ TypeOK
  BY DEF Proc, Refresher, IInv
<1>w. wait \in [Service -> 0 .. MaxOf(MinWait, MaxWait)]
      /\ asked \in [Refresher -> Interval \cup {NoInterval}]
      /\ step \in [Proc -> Step]
  BY DEF IInv, TypeOK
<1>c. MaxWait \in 0 .. MaxOf(MinWait, MaxWait) /\ 0 \in 0 .. MaxOf(MinWait, MaxWait)
  BY DEF TimeAssumption, MaxOf
<1>1. CASE StartService(p)
  BY <1>1, <1>p, <1>w, GotoStep, WithoutLock DEF StartService, Step, Moves, Holders
<1>2. CASE DueSnapshot(p)
  <2>1. /\ asked' \in [Refresher -> Interval \cup {NoInterval}]
        /\ \A q \in Refresher \ {p} : asked'[q] = asked[q]
    BY <1>2, <1>p, <1>w, AskedType, IntervalOfType DEF DueSnapshot
  <2> QED
    BY <1>2, <2>1, <1>p, <1>w, GotoStep, WithoutLock DEF DueSnapshot, Step, Moves, Holders
<1>3. CASE DueBusy(p)
  BY <1>3, <1>p, <1>w, GotoStep, WithoutLock DEF DueBusy, Step, Moves, Holders
<1>4. CASE RefreshDue(p)
  <2>1. CASE asked[p] = NoInterval
    BY <1>4, <2>1, <1>p, <1>w, GotoStep, WithoutLock DEF RefreshDue, Step, Moves, Holders
  <2>2. CASE asked[p] # NoInterval
    <3>1. step'[p] = "begin" /\ asked'[p] \in Interval /\ Moves(p)
      BY <1>4, <2>2, <1>p, <1>w, GotoStep DEF RefreshDue, Step, Moves
    <3> QED
      BY <1>4, <3>1, <1>p, WithoutLock DEF RefreshDue, Holders
  <2> QED
    BY <2>1, <2>2
<1>5. CASE PlanSnapshot(p)
  BY <1>5, <1>p, <1>w, GotoStep, WithoutLock DEF PlanSnapshot, Step, Moves, Holders
<1>6. CASE PlanBusy(p)
  BY <1>6, <1>p, <1>w, <1>c, GotoStep, WithoutLock DEF PlanBusy, Step, Moves, Holders
<1>7. CASE Plan(p)
  <2>1. NotBefore(disk, IntervalOf(p)) \in Nat
    BY IntervalOfType, NotBeforeNat, <1>p DEF TypeOK
  <2>2. NextWait(p) \in 0 .. MaxOf(MinWait, MaxWait)
    BY <2>1 DEF NextWait, MinOf, MaxOf, TimeAssumption
  <2> QED
    BY <1>7, <2>2, <1>p, <1>w, GotoStep, WithoutLock DEF Plan, Step, Moves, Holders
<1>8. CASE Wake(p)
  <2>1. wait' \in [Service -> 0 .. MaxOf(MinWait, MaxWait)]
    BY <1>8, <1>w, <1>c DEF Wake
  <2>2. CASE p \in cancelled
    BY <1>8, <2>1, <2>2, <1>p, <1>w, GotoStep, WithoutLock DEF Wake, Step, Moves, Holders
  <2>3. CASE p \notin cancelled
    BY <1>8, <2>1, <2>3, <1>p, <1>w, GotoStep, WithoutLock DEF Wake, Step, Moves, Holders
  <2> QED
    BY <2>2, <2>3
<1> QED
  BY <1>1, <1>2, <1>3, <1>4, <1>5, <1>6, <1>7, <1>8 DEF ServiceStep

LEMMA ForegroundStays ==
  ASSUME Parameters, IInv, NEW p \in Foreground, RefreshSnapshot(p) \/ Refresh(p)
  PROVE  IInv'
<1>p. p \in Proc /\ p \in Refresher /\ TypeOK
  BY DEF Proc, Refresher, IInv
<1>w. wait \in [Service -> 0 .. MaxOf(MinWait, MaxWait)]
      /\ asked \in [Refresher -> Interval \cup {NoInterval}]
      /\ step \in [Proc -> Step]
  BY DEF IInv, TypeOK
<1>1. CASE RefreshSnapshot(p)
  BY <1>1, <1>p, <1>w, GotoStep, WithoutLock DEF RefreshSnapshot, Step, Moves, Holders
<1>2. CASE Refresh(p)
  <2>1. disk.interval \in Interval
    BY DEF IInv, TypeOK, Store
  <2>2. step'[p] = "begin" /\ asked'[p] \in Interval /\ Moves(p)
    BY <1>2, <2>1, <1>p, <1>w, GotoStep, AskedType DEF Refresh, Step, Moves
  <2> QED
    BY <1>2, <2>2, <1>p, WithoutLock DEF Refresh, Holders
<1> QED
  BY <1>1, <1>2

\* Before the lock is taken, and without it.
LEMMA BeginStays ==
  ASSUME Parameters, IInv, NEW p \in Refresher,
         BeginBusy(p) \/ BeginCancelled(p) \/ BeginDeferred(p)
  PROVE  IInv'
<1>p. p \in Proc /\ TypeOK
  BY DEF Proc, IInv
<1>w. wait \in [Service -> 0 .. MaxOf(MinWait, MaxWait)]
  BY DEF IInv, TypeOK
<1>1. CASE BeginBusy(p)
  BY <1>1, <1>p, <1>w, ReturnStep, AskedType, WithoutLock DEF BeginBusy, Moves, Holders
<1>2. CASE BeginCancelled(p)
  BY <1>2, <1>p, <1>w, GotoStep, AskedType, WithoutLock
  DEF BeginCancelled, Step, Moves, Holders
<1>3. CASE BeginDeferred(p)
  BY <1>3, <1>p, <1>w, ReturnStep, AskedType, WithoutLock DEF BeginDeferred, Moves, Holders
<1> QED
  BY <1>1, <1>2, <1>3

LEMMA IdleStays ==
  ASSUME Parameters, IInv, NEW p \in Refresher, BeginIdle(p)
  PROVE  IInv'
<1>p. p \in Proc /\ TypeOK
  BY DEF Proc, IInv
<1>1. asked[p] \in Interval /\ Good(disk) /\ disk \in Store /\ told \in Nat
  BY DEF BeginIdle, IInv, TypeOK, Good
<1>2. Good(disk') /\ disk'.cooldown = disk.cooldown
  BY <1>1, IdleGood DEF BeginIdle, Parameters
<1>3. Moves(p) /\ step'[p] \in {"plan", "off"}
  BY <1>p, ReturnStep, AskedType DEF BeginIdle, Moves, TypeOK
<1>4. told' \in Nat /\ told' <= disk'.cooldown
  BY <1>1, <1>2 DEF BeginIdle, IInv
<1> QED
  BY <1>p, <1>2, <1>3, <1>4, GivesBack DEF BeginIdle, CanLock

\* What holds when a refresh begins: this is where it matters that it decides
\* again under the lock.
LEMMA WhenItBegins ==
  ASSUME Parameters, IInv, NEW p \in Refresher, BeginRun(p)
  PROVE  LongAgo(disk) /\ told = 0
<1>1. asked[p] \in Interval /\ Good(disk) /\ disk \in Store /\ told \in Nat
  BY DEF BeginRun, IInv, TypeOK, Good
<1>2. LongAgo(disk) /\ disk.cooldown = 0
  BY <1>1, WhenDue DEF BeginRun, Parameters
<1> QED
  BY <1>1, <1>2 DEF IInv

LEMMA RunStays ==
  ASSUME Parameters, IInv, NEW p \in Refresher, BeginRun(p)
  PROVE  IInv'
<1>p. p \in Proc /\ TypeOK
  BY DEF Proc, IInv
<1>1. LongAgo(disk) /\ work = disk
  BY WhenItBegins DEF BeginRun, CanLock, IInv, Exclusive
<1>2. /\ step' \in [Proc -> Step] /\ step'[p] = "run"
      /\ \A q \in Proc \ {p} : step'[q] = step[q]
      /\ cancelled' \in SUBSET Refresher
  BY <1>p, GotoStep DEF BeginRun, Step
<1>3. Holders' = {p}
  BY <1>p, <1>2 DEF BeginRun, CanLock, Holders
<1>4. TypeOK' /\ Exclusive'
  BY <1>2, <1>3 DEF BeginRun, IInv, TypeOK, Exclusive
<1>5. Sound(disk)' /\ Sound(work)' /\ told' <= disk'.cooldown /\ told' <= work'.cooldown
  BY DEF BeginRun, IInv, Sound, LongAgo
<1>6. ASSUME NEW q \in Refresher, step'[q] \in {"begin", "run"}
      PROVE  asked'[q] \in Interval
  BY <1>2, <1>6 DEF BeginRun, IInv, Refresher, Proc
<1>7. LongAgo(work)'
  BY <1>1 DEF BeginRun, LongAgo
<1> QED
  BY <1>4, <1>5, <1>6, <1>7 DEF IInv

LEMMA ObserveStays ==
  ASSUME Parameters, IInv, NEW p \in Refresher, NEW cooldown \in Cooldown,
         Observe(p, cooldown)
  PROVE  IInv'
<1>1. cooldown \in Nat /\ Good(work) /\ work \in Store /\ Good(disk)
      /\ told \in Nat /\ told <= work.cooldown /\ told <= disk.cooldown
  BY DEF Parameters, TimeAssumption, IInv, TypeOK, Good
<1>2. /\ Good(work') /\ work'.cooldown >= work.cooldown /\ work'.cooldown >= cooldown
      /\ work'.success = work.success
  BY <1>1, WithCooldownGood DEF Observe
<1>3. Good(disk') /\ told' \in Nat /\ told' <= work'.cooldown /\ told' <= disk'.cooldown
  <2>1. work'.cooldown \in Nat /\ work.cooldown \in Nat /\ disk.cooldown \in Nat
    BY <1>1, <1>2 DEF Good, Store
  <2> QED
    BY <1>1, <1>2, <2>1 DEF Observe, MaxOf
<1>4. p \in Holders /\ Holders' = Holders
  BY DEF Observe, Holders, Proc
<1>5. TypeOK' /\ Exclusive'
  BY <1>2, <1>3, <1>4 DEF Observe, IInv, TypeOK, Exclusive, Good
<1>6. Sound(disk)' /\ Sound(work)'
  BY <1>2, <1>3 DEF Good, Sound, LongAgo
<1>7. ASSUME NEW q \in Refresher, step'[q] \in {"begin", "run"}
      PROVE  asked'[q] \in Interval
  BY <1>7 DEF Observe, IInv
<1>8. LongAgo(work)'
  BY <1>2 DEF Observe, IInv, LongAgo
<1> QED
  BY <1>3, <1>5, <1>6, <1>7, <1>8 DEF IInv

LEMMA FinishStays ==
  ASSUME Parameters, IInv, NEW p \in Refresher, NEW outcome \in Outcome,
         Finish(p, outcome)
  PROVE  IInv'
<1> DEFINE s == Concluded(work, outcome, asked[p])
<1>p. p \in Proc /\ TypeOK /\ p \in Holders
  BY DEF Proc, IInv, Finish, Holders
<1>1. asked[p] \in Interval /\ Good(work) /\ work \in Store /\ LongAgo(work) /\ Good(disk)
      /\ told \in Nat /\ told <= disk.cooldown /\ told <= work.cooldown
  BY DEF Finish, IInv, TypeOK, Good
<1>2. Good(s) /\ s.cooldown = work.cooldown
  BY <1>1, ConcludedGood DEF Parameters
<1> HIDE DEF s
<1>3. \/ disk' = s /\ told' = MaxOf(told, s.cooldown)
      \/ UNCHANGED <<disk, told>>
  BY DEF Finish, s
<1>4. Good(disk') /\ told' \in Nat /\ told' <= disk'.cooldown
  <2>1. s.cooldown \in Nat
    BY <1>2 DEF Good, Store
  <2> QED
    BY <1>1, <1>2, <1>3, <2>1 DEF MaxOf
<1>5. Goto(p, "off") \/ Return(p)
  BY DEF Finish
<1>6. step'[p] \in {"plan", "off"} /\ Moves(p)
  BY <1>5, <1>p, GotoStep, ReturnStep, AskedType DEF Finish, Moves, Step, TypeOK
<1>7. Holders \subseteq {p}
  BY <1>p DEF IInv, Exclusive
<1> QED
  BY <1>p, <1>4, <1>6, <1>7, GivesBack DEF Finish

\* Other operations keep what they find in the store.
LEMMA OtherStays ==
  ASSUME Parameters, IInv, NEW p \in Other, OtherStep(p)
  PROVE  IInv'
<1>p. p \in Proc /\ p \notin Refresher /\ TypeOK
  BY DEF Proc, IInv, Parameters, ProcAssumption
<1>w. /\ wait \in [Service -> 0 .. MaxOf(MinWait, MaxWait)]
      /\ asked \in [Refresher -> Interval \cup {NoInterval}]
  BY DEF IInv, TypeOK
<1>1. CASE Hold(p)
  <2>1. /\ step' \in [Proc -> Step] /\ step'[p] = "hold"
        /\ \A q \in Proc \ {p} : step'[q] = step[q]
        /\ cancelled' \in SUBSET Refresher
    BY <1>1, <1>p, GotoStep DEF Hold, Step
  <2>2. Holders' = {p}
    BY <1>1, <1>p, <2>1 DEF Hold, CanLock, Holders
  <2>3. TypeOK' /\ Exclusive'
    BY <1>1, <2>1, <2>2 DEF Hold, IInv, TypeOK, Exclusive
  <2>4. Sound(disk)' /\ Sound(work)' /\ told' <= disk'.cooldown /\ told' <= work'.cooldown
    BY <1>1 DEF Hold, IInv, Sound, LongAgo
  <2>5. ASSUME NEW q \in Refresher, step'[q] \in {"begin", "run"}
        PROVE  asked'[q] \in Interval
    BY <1>1, <1>p, <2>1, <2>5 DEF Hold, IInv, Refresher, Proc
  <2>6. ASSUME NEW q \in Refresher, step'[q] = "run" PROVE LongAgo(work)'
    BY <1>1, <1>p, <2>1, <2>6 DEF Hold, IInv, Refresher, Proc, LongAgo
  <2> QED
    BY <2>3, <2>4, <2>5, <2>6 DEF IInv
<1>2. ASSUME NEW interval \in Interval, NEW characters \in BOOLEAN,
             NEW cooldown \in Cooldown, Release(p, interval, characters, cooldown)
      PROVE  IInv'
  <2> DEFINE s == WithCooldown(work, cooldown)
  <2>1. /\ Good(work) /\ work \in Store /\ told \in Nat /\ told <= work.cooldown
        /\ cooldown \in Nat
    BY DEF IInv, TypeOK, Good, Parameters, TimeAssumption
  <2>2. Good(s) /\ s.cooldown >= work.cooldown /\ s.cooldown >= cooldown
    BY <2>1, WithCooldownGood
  <2>3. disk' = [s EXCEPT !.interval = interval, !.characters = characters]
    BY <1>2 DEF Release
  <2> HIDE DEF s
  <2>4. /\ disk' \in Store /\ disk'.cooldown = s.cooldown /\ disk'.completed = s.completed
        /\ disk'.success = s.success /\ disk'.failures = s.failures
    BY <2>2, <2>3 DEF Good, Store
  <2>5. Good(disk')
    BY <2>2, <2>4 DEF Good, Sound, LongAgo
  <2>6. told' \in Nat /\ told' <= disk'.cooldown
    <3>1. s.cooldown \in Nat /\ work.cooldown \in Nat
      BY <2>1, <2>2 DEF Good, Store
    <3> QED
      BY <1>2, <2>1, <2>2, <2>4, <3>1 DEF Release, MaxOf
  <2>7. Moves(p) /\ step'[p] = "off"
    BY <1>2, <1>p, <1>w, GotoStep DEF Release, Moves, Step
  <2>8. Holders \subseteq {p}
    BY <1>2, <1>p DEF Release, IInv, Exclusive, Holders
  <2> QED
    BY <1>2, <1>p, <2>5, <2>6, <2>7, <2>8, GivesBack DEF Release
<1> QED
  BY <1>1, <1>2 DEF OtherStep

LEMMA CancelStays ==
  ASSUME IInv, NEW p \in Refresher, Cancel(p)
  PROVE  IInv'
<1>1. TypeOK'
  BY DEF IInv, TypeOK, Cancel
<1>2. Exclusive'
  BY DEF IInv, Exclusive, Holders, Cancel
<1> QED
  BY <1>1, <1>2 DEF IInv, Cancel, Sound, LongAgo

\* A process that dies loses its working copy, and no more.
LEMMA CrashStays ==
  ASSUME Parameters, IInv, NEW p \in Proc, Crash(p)
  PROVE  IInv'
<1>1. step'[p] = "off" /\ Moves(p)
  <2>1. 0 \in 0 .. MaxOf(MinWait, MaxWait)
    BY DEF Parameters, TimeAssumption, MaxOf
  <2>2. wait' \in [Service -> 0 .. MaxOf(MinWait, MaxWait)]
    BY <2>1 DEF Crash, IInv, TypeOK
  <2> QED
    BY <2>2, GotoStep, AskedType DEF Crash, Step, Moves, IInv
<1>2. CASE p \in Holders
  BY <1>1, <1>2, GivesBack DEF Crash, IInv, Exclusive, TypeOK, Good
<1>3. CASE p \notin Holders
  BY <1>1, <1>3, WithoutLock DEF Crash
<1> QED
  BY <1>2, <1>3

LEMMA TickStays ==
  ASSUME Parameters, IInv, Tick
  PROVE  IInv'
<1>1. disk \in Store /\ work \in Store /\ Good(disk) /\ Good(work) /\ told \in Nat
  BY DEF IInv, TypeOK, Good
<1>2. Good(disk') /\ Good(work') /\ (LongAgo(work) => LongAgo(work)')
  BY <1>1, AgedGood DEF Tick, Parameters, LongAgo
<1>3. disk'.cooldown = Shorter(disk.cooldown) /\ work'.cooldown = Shorter(work.cooldown)
  BY <1>1, AgedGood DEF Tick, Parameters
<1>4. told' \in Nat /\ told' <= disk'.cooldown /\ told' <= work'.cooldown
  BY <1>1, <1>3 DEF Tick, Shorter, MaxOf, Store, IInv
<1>5. wait' \in [Service -> 0 .. MaxOf(MinWait, MaxWait)]
  BY DEF Tick, Shorter, MaxOf, IInv, TypeOK, Parameters, TimeAssumption
<1>6. TypeOK'
  BY <1>2, <1>4, <1>5 DEF Tick, IInv, TypeOK, Good
<1>7. Exclusive'
  BY DEF Tick, IInv, Exclusive, Holders
<1>8. Sound(disk)' /\ Sound(work)'
  BY <1>2 DEF Good, Sound, LongAgo
<1> QED
  BY <1>2, <1>4, <1>6, <1>7, <1>8 DEF Tick, IInv

LEMMA StepStays ==
  ASSUME Parameters, IInv, [Next]_vars
  PROVE  IInv'
<1>1. CASE UNCHANGED vars
  BY <1>1 DEF vars, IInv, TypeOK, Exclusive, Holders, Sound, LongAgo
<1>2. ASSUME NEW p \in Refresher, RefreshStep(p) PROVE IInv'
  BY <1>2, BeginStays, IdleStays, RunStays, ObserveStays, FinishStays DEF RefreshStep
<1> QED
  BY <1>1, <1>2, CancelStays, ServiceStays, ForegroundStays, OtherStays, CrashStays,
     TickStays DEF Next

\* What the processes keep together, at any number of them: stores that are sound and
\* know all cooldowns, one operation at a time (refresh.rs, store.rs).
THEOREM Invariant == Spec => []IInv
<1>p. Parameters
  BY ProcAssumption, IntervalAssumption, TimeAssumption DEF Parameters
<1>1. Init => IInv
  BY <1>p, Initially
<1>2. IInv /\ [Next]_vars => IInv'
  BY <1>p, StepStays
<1> QED
  BY <1>1, <1>2, PTL DEF Spec

\* Every value is of its type (refresh.rs, models.rs RefreshSchedule).
THEOREM TypeCorrect == Spec => []TypeOK
<1>1. IInv => TypeOK
  BY DEF IInv
<1> QED
  BY <1>1, Invariant, PTL

-----------------------------------------------------------------------------
(* What a refresh that begins may rely on *)

\* Every other action leads elsewhere.
Elsewhere == \E q \in Proc, to \in Step \ {"run"} : Goto(q, to)

LEMMA OtherActions ==
  ASSUME Next, \A q \in Refresher : ~BeginRun(q)
  PROVE  Elsewhere \/ UNCHANGED step
<1> USE DEF Elsewhere, Proc, Refresher, Step, Return
<1>1. ASSUME NEW q \in Refresher, RefreshStep(q) \/ Cancel(q) PROVE Elsewhere \/ UNCHANGED step
  BY <1>1 DEF RefreshStep, Cancel, BeginBusy, BeginCancelled, BeginDeferred, BeginIdle,
     Observe, Finish
<1>2. ASSUME NEW q \in Service, StartService(q) \/ ServiceStep(q) PROVE Elsewhere
  BY <1>2 DEF StartService, ServiceStep, DueSnapshot, DueBusy, RefreshDue, PlanSnapshot,
     PlanBusy, Plan, Wake
<1>3. ASSUME NEW q \in Foreground, RefreshSnapshot(q) \/ Refresh(q) PROVE Elsewhere
  BY <1>3 DEF RefreshSnapshot, Refresh
<1>4. ASSUME NEW q \in Other, OtherStep(q) PROVE Elsewhere
  BY <1>4 DEF OtherStep, Hold, Release
<1>5. ASSUME NEW q \in Proc, Crash(q) PROVE Elsewhere
  BY <1>5 DEF Crash
<1>6. CASE Tick
  BY <1>6 DEF Tick
<1> QED
  BY <1>1, <1>2, <1>3, <1>4, <1>5, <1>6 DEF Next

LEMMA OnlyRunBegins ==
  ASSUME IInv, [Next]_vars, NEW p \in Refresher, Begins(p)
  PROVE  BeginRun(p)
<1>1. step # step' /\ p \in Proc /\ step \in [Proc -> Step]
  BY DEF Begins, Proc, IInv, TypeOK
<1>2. Next
  BY <1>1 DEF vars
<1>3. ~Elsewhere
  BY <1>1 DEF Elsewhere, Goto, Begins
<1>4. PICK q \in Refresher : BeginRun(q)
  BY <1>1, <1>2, <1>3, OtherActions
<1>5. q = p
  BY <1>1, <1>4 DEF BeginRun, Goto, Begins, Proc
<1> QED
  BY <1>4, <1>5

\* No refresh begins sooner after one that went well than the shortest interval, by
\* any number of services, foreground refreshes and other operations, any interval
\* and any backoff (refresh.rs refresh_with_interval, refresh_not_before).
THEOREM Spacing == Spec => RefreshesSpaced
<1>p. Parameters
  BY ProcAssumption, IntervalAssumption, TimeAssumption DEF Parameters
<1>1. IInv /\ [Next]_vars => [\A p \in Refresher : Begins(p) => LongAgo(disk)]_vars
  BY <1>p, OnlyRunBegins, WhenItBegins
<1> QED
  BY <1>1, Invariant, PTL DEF Spec, RefreshesSpaced

\* Nor while any recorded cooldown runs, of whichever process and API
\* (timing.rs merge_api_cooldowns, refresh.rs refresh_not_before).
THEOREM Cooling == Spec => CooldownsHonoured
<1>p. Parameters
  BY ProcAssumption, IntervalAssumption, TimeAssumption DEF Parameters
<1>1. IInv /\ [Next]_vars => [\A p \in Refresher : Begins(p) => told = 0]_vars
  BY <1>p, OnlyRunBegins, WhenItBegins
<1> QED
  BY <1>1, Invariant, PTL DEF Spec, CooldownsHonoured
=============================================================================
