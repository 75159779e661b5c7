------------------------ MODULE GuiOperationsProofs ------------------------
(***************************************************************************)
(* Proofs about GuiOperations: the inductive invariant, and what follows    *)
(* from it of the sign-in's button and URL, of blocked stores, cancelled    *)
(* sign-ins and snapshots, and of the consent to post a protected killmail, *)
(* for any stores, edits, commands and numbers of clicks.                   *)
(***************************************************************************)
EXTENDS GuiOperations, TLAPS

Parameters ==
  /\ NobodyAssumption /\ StoresAssumption /\ EditsAssumption /\ CommandAssumption
  /\ BoundsAssumption /\ ProcessAssumption

LEMMA ParametersHold == Parameters
BY NobodyAssumption, StoresAssumption, EditsAssumption, CommandAssumption, BoundsAssumption,
   ProcessAssumption DEF Parameters

LEMMA NobodyApart ==
  /\ {"gui", "peek", "cli", "service"} = Process
  /\ Nobody # "gui" /\ Nobody # "peek" /\ Nobody # "cli" /\ Nobody # "service"
BY ParametersHold DEF Parameters, NobodyAssumption, ProcessAssumption

-----------------------------------------------------------------------------
(* The parts of the invariant *)

\* The store, its locks and the operation of the writer.
OpGood ==
  /\ OperationsTypeOK /\ CancelledStoresNothing /\ WorkKnown
  /\ readers # {} => writer = Nobody

\* The interface for itself.
GuiGood(g) ==
  /\ g \in Gui
  /\ g.active = "none" <=> g.job = "none"
  /\ g.cancellable \/ g.url \/ g.urlSent => g.active = "signIn"
  /\ g.blocked => g.active = "none"
  /\ ~g.open => g = Closed
  /\ g.job # "done" => g.prepared = "none"
  /\ g.active = "prepare" => g.arg \in {"all", "one", "anyway"}
  /\ g.active = "prepare" /\ g.arg = "anyway" => g.drawn
  /\ g.active = "post" /\ g.arg = "protected" => g.drawn
  /\ g.prepared = "protected" => g.drawn
  /\ g.pending.mode = "protected" => g.pending.drawn

\* The threads of the interface and what they hold.
ThreadsGood ==
  /\ writer = "gui" <=> gui.job = "run"
  /\ writer = "gui" => op.kind = gui.active /\ op.arg = gui.arg
  /\ writer = "gui" /\ op.prepared = "protected" => gui.drawn
  /\ gui.peek = "reading" => "peek" \in readers

\* The command, the service and the bounds.
OthersGood ==
  /\ cli \in Cli
  /\ refresher \in {"stopped", "waiting", "refreshing"}
  /\ clicks \in 0 .. MaxClicks /\ commands \in 0 .. MaxCommands
  /\ writer = "cli" <=> cli.at = "run"
  /\ writer = "service" <=> refresher = "refreshing"

LEMMA IInvIs == IInv <=> OpGood /\ GuiGood(gui) /\ ThreadsGood /\ OthersGood
<1>1. TypeOK => ((gui.active = "none" <=> gui.job = "none")
                  /\ (writer = "gui" <=> gui.job = "run")
                  /\ (writer = "cli" <=> cli.at = "run")
                  /\ (writer = "service" <=> refresher = "refreshing"))
  BY DEF TypeOK
<1>2. OpGood /\ GuiGood(gui) /\ ThreadsGood /\ OthersGood => TypeOK
  BY DEF TypeOK, OpGood, GuiGood, ThreadsGood, OthersGood
<1>3. IInv => OpGood /\ GuiGood(gui) /\ ThreadsGood /\ OthersGood
  <2> SUFFICES ASSUME IInv PROVE OpGood /\ GuiGood(gui) /\ ThreadsGood /\ OthersGood
    OBVIOUS
  <2>1. /\ TypeOK /\ SignInTidy /\ BlockedStartsNothing /\ CancelledStoresNothing
        /\ JobTidy /\ WorkKnown /\ LocksExclude /\ DrawnKnown
    BY DEF IInv
  <2>2. OpGood
    BY <2>1 DEF TypeOK, OpGood, LocksExclude
  <2>3. GuiGood(gui)
    BY <2>1, <1>1 DEF TypeOK, GuiGood, SignInTidy, BlockedStartsNothing, JobTidy, DrawnKnown
  <2>4. ThreadsGood /\ OthersGood
    BY <2>1, <1>1 DEF TypeOK, ThreadsGood, OthersGood, JobTidy, LocksExclude, DrawnKnown
  <2> QED
    BY <2>2, <2>3, <2>4
<1>4. OpGood /\ GuiGood(gui) /\ ThreadsGood /\ OthersGood => IInv
  BY <1>2 DEF IInv, OpGood, GuiGood, ThreadsGood, SignInTidy, BlockedStartsNothing, JobTidy,
              LocksExclude, DrawnKnown
<1> QED
  BY <1>3, <1>4

LEMMA NextIInvIs == IInv' <=> OpGood' /\ GuiGood(gui)' /\ ThreadsGood' /\ OthersGood'
BY IInvIs, PTL

-----------------------------------------------------------------------------
(* The frames of the interface *)

\* h is what a frame or a click may make of g: as good, and the same for a thread
\* that runs.
Follows(g, h) ==
  /\ GuiGood(h) /\ h.open
  /\ h.job = "run" <=> g.job = "run"
  /\ g.job = "run" => h.active = g.active /\ h.arg = g.arg /\ h.drawn = g.drawn
  /\ h.peek = "reading" => g.peek = "reading"
  /\ h.peeked \in {g.peeked, EmptyStore}

LEMMA FollowsItself == ASSUME NEW g, GuiGood(g), g.open PROVE Follows(g, g)
BY DEF Follows

LEMMA FollowsOn ==
  ASSUME NEW g, NEW h, NEW k, Follows(g, h), Follows(h, k)
  PROVE  Follows(g, k)
BY DEF Follows

\* What a click or a completed snapshot may ask the core for.
Askable(kind, arg, drawn) ==
  /\ kind \in Kind /\ arg \in Arg /\ drawn \in BOOLEAN
  /\ kind = "prepare" => arg \in {"all", "one", "anyway"} /\ (arg = "anyway" => drawn)
  /\ kind = "post" /\ arg = "protected" => drawn

LEMMA NoneApart == "none" \notin Kind
BY DEF Kind

LEMMA StartedFollows ==
  ASSUME NEW g, GuiGood(g), g.open, g.active = "none", ~g.blocked,
         NEW kind, NEW arg, NEW drawn, Askable(kind, arg, drawn)
  PROVE  Follows(g, Started(g, kind, arg, drawn))
<1> DEFINE h == Started(g, kind, arg, drawn)
<1>1. g \in Gui /\ g.job = "none"
  BY DEF GuiGood
<1>2. h \in Gui
  BY <1>1 DEF Gui, Started, Askable, Job
<1>3. /\ h.active = kind /\ h.arg = arg /\ h.drawn = drawn /\ h.job = "new"
      /\ h.cancellable = FALSE /\ h.url = g.url /\ h.urlSent = g.urlSent /\ h.blocked = g.blocked
      /\ h.open = g.open /\ h.prepared = g.prepared /\ h.pending = g.pending
      /\ h.peek = g.peek /\ h.peeked = g.peeked
  BY <1>1 DEF Gui, Started
<1> HIDE DEF h
<1>4. GuiGood(h)
  BY <1>1, <1>2, <1>3, NoneApart DEF GuiGood, Askable
<1> QED
  BY <1>1, <1>3, <1>4 DEF Follows, h

\* start_operation starts nothing beside another operation, and nothing at all if
\* the store could not be loaded (operations.rs:290).
LEMMA StartFollows ==
  ASSUME NEW g, GuiGood(g), g.open, NEW kind, NEW arg, NEW drawn, Askable(kind, arg, drawn)
  PROVE  Follows(g, StartWith(g, kind, arg, drawn))
<1>1. CASE Busy(g) \/ g.blocked
  BY <1>1, FollowsItself DEF StartWith
<1>2. CASE ~(Busy(g) \/ g.blocked)
  <2>1. StartWith(g, kind, arg, drawn) = Started(g, kind, arg, drawn)
    BY <1>2 DEF StartWith
  <2> QED
    BY <1>2, <2>1, StartedFollows DEF Busy
<1> QED
  BY <1>1, <1>2

LEMMA SnapshotFollows ==
  ASSUME NEW g, GuiGood(g), g.open
  PROVE  Follows(g, RequestSnapshot(g))
<1>1. CASE g.peek # "none"
  BY <1>1, FollowsItself DEF RequestSnapshot
<1>2. CASE g.peek = "none"
  <2> DEFINE h == [g EXCEPT !.peek = "new"]
  <2>1. g \in Gui
    BY DEF GuiGood
  <2>2. h \in Gui
    BY <2>1 DEF Gui, Peek
  <2>3. /\ h.active = g.active /\ h.arg = g.arg /\ h.drawn = g.drawn /\ h.job = g.job
        /\ h.cancellable = g.cancellable /\ h.url = g.url /\ h.urlSent = g.urlSent
        /\ h.blocked = g.blocked /\ h.open = g.open /\ h.prepared = g.prepared
        /\ h.pending = g.pending /\ h.peek = "new" /\ h.peeked = g.peeked
    BY <2>1 DEF Gui
  <2>4. RequestSnapshot(g) = h
    BY <1>2 DEF RequestSnapshot
  <2> HIDE DEF h
  <2>5. GuiGood(h)
    BY <2>2, <2>3 DEF GuiGood
  <2> QED
    BY <2>3, <2>4, <2>5 DEF Follows
<1> QED
  BY <1>1, <1>2

LEMMA RefreshFollows ==
  ASSUME NEW g, GuiGood(g), g.open
  PROVE  Follows(g, RefreshKillmails(g))
<1>1. Askable("refresh", "none", FALSE)
  BY DEF Askable, Kind, Arg
<1> QED
  BY <1>1, StartFollows, FollowsItself DEF RefreshKillmails, Start

\* A result leaves nothing of its operation but the dialog of a prepared post,
\* which is as drawn as the card it was asked from (operations.rs:337).
LEMMA FinishFollows ==
  ASSUME NEW g, GuiGood(g), g.open, g.job = "done", ~g.urlSent
  PROVE  Follows(g, FinishOperation(g))
<1> DEFINE idle == [g EXCEPT !.active = "none", !.job = "none", !.cancellable = FALSE,
                             !.cancelled = FALSE, !.url = FALSE, !.arg = "none", !.drawn = FALSE,
                             !.result = "ok", !.prepared = "none"]
           next == IF g.result = "ok" THEN Completion(idle, g) ELSE idle
<1>1. g \in Gui
  BY DEF GuiGood
<1>2. idle \in Gui
  BY <1>1 DEF Gui, Job, Arg, Result
<1>3. /\ idle.active = "none" /\ idle.job = "none" /\ ~idle.cancellable /\ ~idle.url
      /\ idle.urlSent = g.urlSent /\ idle.prepared = "none" /\ idle.open = g.open
      /\ idle.pending = g.pending /\ idle.peek = g.peek /\ idle.peeked = g.peeked
  BY <1>1 DEF Gui
<1> HIDE DEF idle
<1>4. /\ next.active = "none" /\ next.job = "none" /\ ~next.cancellable /\ ~next.url
      /\ next.urlSent = g.urlSent /\ next.prepared = "none" /\ next.open = g.open
      /\ next.peek = g.peek /\ next.peeked = g.peeked
      /\ next.pending = g.pending \/ (next.pending = [mode |-> g.prepared, drawn |-> g.drawn])
  BY <1>2, <1>3 DEF Gui, Completion
<1>5. next \in Gui
  <2>1. [mode |-> g.prepared, drawn |-> g.drawn] \in Pending
    BY <1>1 DEF Gui, Pending
  <2>2. \A follow \in BOOLEAN, pending \in Pending :
          [idle EXCEPT !.follow = follow, !.pending = pending] \in Gui
    BY <1>2 DEF Gui
  <2>3. (idle.follow \/ g.active \in {"migrate", "signIn"}) \in BOOLEAN
    OBVIOUS
  <2>4. idle.pending \in Pending
    BY <1>2 DEF Gui
  <2>5. Completion(idle, g) \in Gui
    BY <2>1, <2>2, <2>3, <2>4, Zenon DEF Completion
  <2> QED
    BY <1>2, <2>5
<1>6. FinishOperation(g) = RequestSnapshot(next)
  BY DEF FinishOperation, FinishWith, idle
<1> HIDE DEF next
<1>7. next.pending.mode = "protected" => next.pending.drawn
  BY <1>4 DEF GuiGood
<1>8. GuiGood(next)
  BY <1>4, <1>5, <1>7, NoneApart DEF GuiGood
<1>9. Follows(g, next)
  BY <1>4, <1>8 DEF Follows
<1> QED
  BY <1>4, <1>6, <1>8, <1>9, SnapshotFollows, FollowsOn

LEMMA EventsFollow ==
  ASSUME NEW g, GuiGood(g), g.open
  PROVE  Follows(g, PollEvents(g))
<1>1. CASE ~g.changed
  BY <1>1, FollowsItself DEF PollEvents
<1>2. CASE g.changed
  <2> DEFINE h == [g EXCEPT !.changed = FALSE]
  <2>1. g \in Gui
    BY DEF GuiGood
  <2>2. h \in Gui
    BY <2>1 DEF Gui
  <2>3. /\ h.active = g.active /\ h.arg = g.arg /\ h.drawn = g.drawn /\ h.job = g.job
        /\ h.cancellable = g.cancellable /\ h.url = g.url /\ h.urlSent = g.urlSent
        /\ h.blocked = g.blocked /\ h.open = g.open /\ h.prepared = g.prepared
        /\ h.pending = g.pending /\ h.peek = g.peek /\ h.peeked = g.peeked
    BY <2>1 DEF Gui
  <2>4. PollEvents(g) = RequestSnapshot(h)
    BY <1>2 DEF PollEvents
  <2> HIDE DEF h
  <2>5. GuiGood(h)
    BY <2>2, <2>3 DEF GuiGood
  <2>6. Follows(g, h)
    BY <2>3, <2>5 DEF Follows
  <2> QED
    BY <2>3, <2>4, <2>5, <2>6, SnapshotFollows, FollowsOn
<1> QED
  BY <1>1, <1>2

\* The URL is shown before the result that hides it (operations.rs:337).
LEMMA UpdatesFollow ==
  ASSUME NEW g, GuiGood(g), g.open
  PROVE  Follows(g, PollUpdates(g))
<1> DEFINE h == IF g.urlSent THEN [g EXCEPT !.url = TRUE, !.urlSent = FALSE] ELSE g
<1>1. g \in Gui
  BY DEF GuiGood
<1>2. h \in Gui
  <2>1. [g EXCEPT !.url = TRUE, !.urlSent = FALSE] \in Gui
    BY <1>1 DEF Gui
  <2> QED
    BY <1>1, <2>1
<1>3. /\ h.active = g.active /\ h.arg = g.arg /\ h.drawn = g.drawn /\ h.job = g.job
      /\ h.cancellable = g.cancellable /\ h.blocked = g.blocked /\ h.open = g.open
      /\ h.prepared = g.prepared /\ h.pending = g.pending /\ h.peek = g.peek
      /\ h.peeked = g.peeked /\ ~h.urlSent /\ (h.url => g.url \/ g.urlSent)
  BY <1>1 DEF Gui
<1>4. PollUpdates(g) = IF h.job = "done" THEN FinishOperation(h) ELSE h
  BY <1>3 DEF PollUpdates
<1> HIDE DEF h
<1>5. GuiGood(h)
  BY <1>1, <1>2, <1>3 DEF GuiGood, Closed
<1>6. Follows(g, h)
  BY <1>3, <1>5 DEF Follows
<1> QED
  BY <1>3, <1>4, <1>5, <1>6, FinishFollows, FollowsOn

\* A snapshot that ended replaces the view, or nothing, and may start a refresh
\* (operations.rs:395).
LEMMA ReloadFollows ==
  ASSUME NEW g, GuiGood(g), g.open
  PROVE  Follows(g, PollReload(g))
<1>1. g \in Gui
  BY DEF GuiGood
<1>2. ASSUME NEW k \in Gui, GuiGood(k), k.open, k.peek \in {"ok", "failed"}
      PROVE  Follows(k, Idle(k)) /\ GuiGood(Idle(k)) /\ Idle(k).open
  <2> DEFINE h == Idle(k)
  <2>1. h \in Gui
    BY <1>2 DEF Gui, Peek, Idle, EmptyStore, Store, Queue
  <2>2. /\ h.active = k.active /\ h.arg = k.arg /\ h.drawn = k.drawn /\ h.job = k.job
        /\ h.cancellable = k.cancellable /\ h.url = k.url /\ h.urlSent = k.urlSent
        /\ h.blocked = k.blocked /\ h.open = k.open /\ h.prepared = k.prepared
        /\ h.pending = k.pending /\ h.peek = "none" /\ h.peeked = EmptyStore
    BY <1>2 DEF Gui, Idle
  <2> HIDE DEF h
  <2>3. GuiGood(h)
    BY <1>2, <2>1, <2>2 DEF GuiGood
  <2>4. Follows(k, h) /\ h.open
    BY <1>2, <2>2, <2>3 DEF Follows
  <2> QED
    BY <2>3, <2>4 DEF h
<1>3. CASE g.peek = "failed"
  BY <1>1, <1>2, <1>3 DEF PollReload
<1>4. CASE g.peek = "ok"
  <2> DEFINE k == [g EXCEPT !.view = g.peeked, !.shown = g.probed]
             h == Idle(k)
             i == [h EXCEPT !.follow = FALSE]
  <2>1. k \in Gui
    BY <1>1 DEF Gui
  <2>2. /\ k.active = g.active /\ k.arg = g.arg /\ k.drawn = g.drawn /\ k.job = g.job
        /\ k.cancellable = g.cancellable /\ k.url = g.url /\ k.urlSent = g.urlSent
        /\ k.blocked = g.blocked /\ k.open = g.open /\ k.prepared = g.prepared
        /\ k.pending = g.pending /\ k.peek = g.peek /\ k.peeked = g.peeked
    BY <1>1 DEF Gui
  <2>3. PollReload(g) = FollowUp(Idle(k))
    BY <1>4 DEF PollReload
  <2> HIDE DEF k
  <2>4. GuiGood(k)
    BY <2>1, <2>2 DEF GuiGood
  <2>5. Follows(g, k)
    BY <2>2, <2>4 DEF Follows
  <2>6. Follows(g, h) /\ GuiGood(h) /\ h.open /\ h \in Gui
    <3>1. Follows(k, h) /\ GuiGood(h) /\ h.open
      BY <1>2, <1>4, <2>1, <2>2, <2>4
    <3> QED
      BY <2>5, <3>1, FollowsOn DEF GuiGood
  <2> HIDE DEF h
  <2>7. Follows(h, i) /\ GuiGood(i) /\ i.open
    <3>1. i \in Gui
      BY <2>6 DEF Gui
    <3>2. /\ i.active = h.active /\ i.arg = h.arg /\ i.drawn = h.drawn /\ i.job = h.job
          /\ i.cancellable = h.cancellable /\ i.url = h.url /\ i.urlSent = h.urlSent
          /\ i.blocked = h.blocked /\ i.open = h.open /\ i.prepared = h.prepared
          /\ i.pending = h.pending /\ i.peek = h.peek /\ i.peeked = h.peeked
      BY <2>6 DEF Gui
    <3> HIDE DEF i
    <3>3. GuiGood(i)
      BY <2>6, <3>1, <3>2 DEF GuiGood
    <3> QED
      BY <2>6, <3>2, <3>3 DEF Follows
  <2>8. FollowUp(h) \in {h, RefreshKillmails(i)}
    BY DEF FollowUp
  <2> HIDE DEF i
  <2>9. Follows(i, RefreshKillmails(i))
    BY <2>7, RefreshFollows
  <2>10. Follows(g, RefreshKillmails(i))
    BY <2>6, <2>7, <2>9, FollowsOn
  <2> QED
    BY <2>3, <2>6, <2>8, <2>10 DEF h
<1>5. CASE g.peek \notin {"ok", "failed"}
  <2>1. PollReload(g) = g
    BY <1>5 DEF PollReload
  <2> QED
    BY <2>1, FollowsItself
<1> QED
  BY <1>3, <1>4, <1>5

LEMMA FrameFollows ==
  ASSUME NEW g, GuiGood(g), g.open, NEW due
  PROVE  Follows(g, PollTimer(PollReload(PollUpdates(PollEvents(g))), due))
<1> DEFINE e == PollEvents(g)
           u == PollUpdates(e)
           r == PollReload(u)
           t == PollTimer(r, due)
<1>1. Follows(g, e) /\ GuiGood(e) /\ e.open
  BY EventsFollow DEF Follows
<1> HIDE DEF e
<1>2. Follows(g, u) /\ GuiGood(u) /\ u.open
  <2>1. Follows(e, u)
    BY <1>1, UpdatesFollow
  <2> QED
    BY <1>1, <2>1, FollowsOn DEF Follows
<1> HIDE DEF u
<1>3. Follows(g, r) /\ GuiGood(r) /\ r.open
  <2>1. Follows(u, r)
    BY <1>2, ReloadFollows
  <2> QED
    BY <1>2, <2>1, FollowsOn DEF Follows
<1> HIDE DEF r
<1>4. Follows(g, t)
  <2>1. Follows(r, t)
    BY <1>3, SnapshotFollows, FollowsItself DEF PollTimer
  <2> QED
    BY <1>3, <2>1, FollowsOn
<1> QED
  BY <1>4 DEF t, r, u, e

-----------------------------------------------------------------------------
(* The operations and their locks *)

LEMMA StoresAre ==
  ASSUME NEW s \in Store
  PROVE  /\ s.character \in BOOLEAN /\ s.fallback \in BOOLEAN /\ s.queue \in Queue
         /\ s.flagged \in BOOLEAN /\ s.victim \in BOOLEAN /\ s.show \in BOOLEAN
         /\ \A b \in BOOLEAN : /\ [s EXCEPT !.fallback = b] \in Store
                               /\ [s EXCEPT !.flagged = b] \in Store
                               /\ [s EXCEPT !.victim = b] \in Store
                               /\ [s EXCEPT !.show = b] \in Store
                               /\ [s EXCEPT !.character = TRUE, !.fallback = b] \in Store
         /\ \A q \in Queue : [s EXCEPT !.queue = q] \in Store
         /\ [s EXCEPT !.character = FALSE, !.fallback = FALSE, !.queue = "none"] \in Store
         /\ Reported(s) \in Store
BY DEF Store, Queue, Reported

LEMMA SavedAndLeft ==
  ASSUME NEW s \in Store, NEW result \in Result
  PROVE  /\ Saved(s) \in Outcome /\ Left(s, result) \in Outcome
         /\ Saved(s).result = "ok" /\ Saved(s).prepared = "none" /\ Saved(s).saves
         /\ Left(s, result).result = result /\ Left(s, result).prepared = "none"
         /\ ~Left(s, result).saves
         /\ \A r \in Result : [Saved(s) EXCEPT !.result = r] \in Outcome
BY DEF Saved, Left, Outcome, Result

\* What a check makes of the killmail to post, and the consent it takes
\* (posting.rs prepare_post).
LEMMA PreparedGood ==
  ASSUME NEW s \in Store, NEW selection \in Arg
  PROVE  /\ Prepared(s, selection) \in Outcome
         /\ Prepared(s, selection).result \in {"ok", "failed"}
         /\ Prepared(s, selection).prepared = "protected" => selection \notin {"all", "one"}
         /\ [Prepared(s, selection) EXCEPT !.saves = TRUE] \in Outcome
<1>1. "ok" \in Result /\ "failed" \in Result
  BY DEF Result
<1>a. ASSUME NEW r \in {"ok", "failed"}
      PROVE  /\ Left(s, r) \in Outcome /\ Left(s, r).result = r /\ Left(s, r).prepared = "none"
             /\ [Left(s, r) EXCEPT !.saves = TRUE] \in Outcome
  <2>1. r \in Result
    BY <1>1
  <2>2. Left(s, r) \in Outcome /\ Left(s, r).result = r /\ Left(s, r).prepared = "none"
    BY <2>1, SavedAndLeft
  <2> QED
    BY <2>2 DEF Outcome
<1>2. CASE selection = "all" /\ s.queue # "ready"
  <2>1. Prepared(s, selection) = Left(s, "ok")
    BY <1>2 DEF Prepared
  <2> QED
    BY <1>a, <2>1
<1>3. CASE ~(selection = "all" /\ s.queue # "ready") /\ Refused(s, selection)
  <2>1. Prepared(s, selection) = Left(s, "failed")
    BY <1>3 DEF Prepared
  <2> QED
    BY <1>a, <2>1
<1>4. CASE ~(selection = "all" /\ s.queue # "ready") /\ ~Refused(s, selection)
  <2> DEFINE mode == PreparedMode(s, selection)
  <2>1. Prepared(s, selection) = [Left(s, "ok") EXCEPT !.prepared = mode]
    BY <1>4 DEF Prepared
  <2>2. mode \in Mode \cup {"none"}
    BY DEF PreparedMode, Mode
  <2>3. mode = "protected" => selection \notin {"all", "one"}
    BY <1>4 DEF PreparedMode, Refused
  <2> HIDE DEF mode
  <2>4. Prepared(s, selection) \in Outcome
    BY <1>a, <2>1, <2>2 DEF Outcome
  <2>5. /\ Prepared(s, selection).result = "ok" /\ Prepared(s, selection).prepared = mode
    BY <1>a, <2>1 DEF Outcome
  <2> QED
    BY <2>3, <2>4, <2>5 DEF Outcome
<1> QED
  BY <1>2, <1>3, <1>4

\* What an operation may leave: it is never reported as cancelled, and only what
\* was confirmed as protected is prepared or posted as such (posting.rs).
LEMMA OutcomesGood ==
  ASSUME NEW s \in Store, NEW kind \in Kind \ {"signIn"}, NEW arg \in Arg,
         NEW o \in Outcomes(kind, arg, s)
  PROVE  /\ o \in Outcome /\ o.result \in {"ok", "failed"}
         /\ o.prepared = "protected" => kind = "prepare" /\ arg \notin {"all", "one"}
         /\ kind = "post" /\ o.saves /\ Protected(s) => arg = "protected"
<1> DEFINE Good == /\ o \in Outcome /\ o.result \in {"ok", "failed"}
                   /\ o.prepared = "protected" => kind = "prepare" /\ arg \notin {"all", "one"}
                   /\ kind = "post" /\ o.saves /\ Protected(s) => arg = "protected"
<1>1. ASSUME NEW t \in Store, o = Saved(t), kind = "post" /\ Protected(s) => arg = "protected"
      PROVE  Good
  <2>1. "ok" \in Result
    BY DEF Result
  <2>2. o \in Outcome /\ o.result = "ok" /\ o.prepared = "none"
    BY <1>1, <2>1, SavedAndLeft
  <2> QED
    BY <1>1, <2>2
<1>a. ASSUME NEW r \in {"ok", "failed"}, o = Left(s, r)
      PROVE  Good
  <2>1. r \in Result
    BY DEF Result
  <2>2. o \in Outcome /\ o.result = r /\ o.prepared = "none" /\ ~o.saves
    BY <1>a, <2>1, SavedAndLeft
  <2> QED
    BY <2>2
<1>2. CASE kind = "migrate"
  <2>1. o \in {Saved([s EXCEPT !.fallback = FALSE]), Left(s, "ok")}
    BY <1>2 DEF Outcomes, Migrations
  <2> QED
    BY <1>1, <1>a, <1>2, <2>1, StoresAre
<1>3. CASE kind = "remove"
  <2>1. \/ o = Saved([s EXCEPT !.character = FALSE, !.fallback = FALSE, !.queue = "none"])
        \/ o = Left(s, "failed")
    BY <1>3 DEF Outcomes, Removals
  <2> QED
    BY <1>1, <1>a, <1>3, <2>1, StoresAre
<1>4. CASE kind = "refresh"
  <2>1. o \in Refreshes(s)
    BY <1>4 DEF Outcomes
  <2>2. CASE s.character
    <3>1. PICK t \in {Reported(s)} \cup {[s EXCEPT !.queue = q] : q \in Queue},
               r \in {"ok", "failed"} : o = [Saved(t) EXCEPT !.result = r]
      BY <2>1, <2>2 DEF Refreshes
    <3>2. t \in Store
      <4>1. t = Reported(s) \/ \E q \in Queue : t = [s EXCEPT !.queue = q]
        BY <3>1
      <4> QED
        BY <4>1, StoresAre
    <3>a. r \in Result
      BY <3>1 DEF Result
    <3>3. o \in Outcome /\ o.result = r /\ o.prepared = "none"
      BY <3>1, <3>2, <3>a, SavedAndLeft DEF Saved
    <3> QED
      BY <1>4, <3>3
  <2>3. CASE ~s.character
    <3>1. o = Left(s, "ok")
      BY <2>1, <2>3 DEF Refreshes
    <3> QED
      BY <1>a, <3>1
  <2> QED
    BY <2>2, <2>3
<1>5. CASE kind \in {"addVictim", "removeVictim"}
  <2>1. \/ \E b \in BOOLEAN : o = Saved([s EXCEPT !.victim = b])
        \/ \E r \in {"ok", "failed"} : o = Left(s, r)
    BY <1>5 DEF Outcomes, VictimEdits
  <2> QED
    BY <1>1, <1>a, <1>5, <2>1, StoresAre
<1>6. CASE kind = "protect"
  <2>1. \/ \E b \in BOOLEAN : o = Saved([s EXCEPT !.flagged = b])
        \/ o = Left(s, "failed")
    BY <1>6 DEF Outcomes, Flaggings
  <2> QED
    BY <1>1, <1>a, <1>6, <2>1, StoresAre
<1>7. CASE kind = "show"
  <2>1. \E b \in BOOLEAN : o = Saved([s EXCEPT !.show = b])
    BY <1>7 DEF Outcomes, Showings
  <2> QED
    BY <1>1, <1>a, <1>7, <2>1, StoresAre
<1>8. CASE kind = "prepare"
  <2>1. Reported(s) \in Store /\ [s EXCEPT !.queue = "ready"] \in Store
    BY StoresAre DEF Queue
  <2>2. \E t \in Store : o \in {Prepared(t, arg), [Prepared(t, arg) EXCEPT !.saves = TRUE]}
    BY <1>8, <2>1 DEF Outcomes, Preparations
  <2>3. PICK t \in Store : o \in {Prepared(t, arg), [Prepared(t, arg) EXCEPT !.saves = TRUE]}
    BY <2>2
  <2>4. /\ o \in Outcome /\ o.result = Prepared(t, arg).result
        /\ o.prepared = Prepared(t, arg).prepared
    <3>1. Prepared(t, arg) \in Outcome /\ [Prepared(t, arg) EXCEPT !.saves = TRUE] \in Outcome
      BY PreparedGood
    <3> QED
      BY <2>3, <3>1 DEF Outcome
  <2> QED
    BY <1>8, <2>4, PreparedGood
<1>9. CASE kind = "post"
  <2>1. \/ Permitted(s, arg) /\ \E t \in Store : o = Saved(t)
        \/ o = Left(s, "ok")
    <3>1. Reported(s) \in Store /\ [s EXCEPT !.queue = "checking"] \in Store
      BY StoresAre DEF Queue
    <3> QED
      BY <1>9, <3>1 DEF Outcomes, Posts
  <2>2. CASE Permitted(s, arg) /\ \E t \in Store : o = Saved(t)
    BY <1>1, <1>9, <2>2 DEF Permitted
  <2>3. CASE o = Left(s, "ok")
    BY <1>a, <2>3
  <2> QED
    BY <2>1, <2>2, <2>3
<1> QED
  BY <1>2, <1>3, <1>4, <1>5, <1>6, <1>7, <1>8, <1>9 DEF Kind

\* Nothing of the store but its locks, or whether it loads, changes.
LEMMA LocksKeep ==
  ASSUME OpGood, UNCHANGED <<writer, signIn, disk, op>>, loadable' \in BOOLEAN,
         readers' \in SUBSET Process, service' \in Process \cup {Nobody},
         readers' # {} => writer = Nobody
  PROVE  OpGood'
BY DEF OpGood, OperationsTypeOK, LocksTypeOK, CancelledStoresNothing, WorkKnown

LEMMA BeginKeeps ==
  ASSUME OpGood, NEW p \in Process, NEW kind \in Kind, NEW arg \in Arg, Begin(p, kind, arg)
  PROVE  /\ OpGood'
         /\ writer = Nobody /\ writer' = p /\ UNCHANGED readers
         /\ op'.kind = kind /\ op'.arg = arg /\ op'.prepared = "none"
<1>1. /\ writer = Nobody /\ readers = {} /\ writer' = p /\ UNCHANGED <<readers, service, disk, loadable>>
      /\ disk \in Store /\ loadable \in BOOLEAN /\ service \in Process \cup {Nobody} /\ p # Nobody
  BY NobodyApart DEF Begin, LockForOperation, Lockable, OpGood, OperationsTypeOK, LocksTypeOK
<1>2. op' = [kind |-> kind, arg |-> arg, base |-> disk, store |-> disk,
             at |-> IF loadable THEN "work" ELSE "end",
             result |-> IF loadable THEN "ok" ELSE "failed", prepared |-> "none"]
  BY DEF Begin
<1>3. /\ op' \in Operation /\ op'.kind = kind /\ op'.arg = arg /\ op'.prepared = "none"
      /\ op'.base = disk /\ op'.at = (IF loadable THEN "work" ELSE "end")
      /\ op'.result \in {"ok", "failed"}
  BY <1>1, <1>2 DEF Operation, Result
<1>4. signIn' \in Phase /\ (signIn' # "none" => kind = "signIn" /\ loadable)
  BY DEF Begin, Phase
<1>5. OpGood'
  BY <1>1, <1>3, <1>4 DEF OpGood, OperationsTypeOK, LocksTypeOK, CancelledStoresNothing, WorkKnown
<1> QED
  BY <1>1, <1>3, <1>5

LEMMA ReleaseKeeps ==
  ASSUME OpGood, NEW p \in Process, Release(p)
  PROVE  OpGood' /\ writer = p /\ writer' = Nobody /\ op' = NoOperation /\ UNCHANGED readers
<1>1. /\ writer = p /\ op.at = "end" /\ writer' = Nobody /\ op' = NoOperation
      /\ UNCHANGED <<readers, service, signIn, disk, loadable>>
  BY DEF Release, UnlockOperation
<1>2. op' \in Operation /\ op'.at = "end" /\ op'.result = "ok"
  BY <1>1 DEF NoOperation, Operation, Kind, Arg, EmptyStore, Store, Queue, Result
<1>3. OpGood'
  BY <1>1, <1>2 DEF OpGood, OperationsTypeOK, LocksTypeOK, CancelledStoresNothing, WorkKnown
<1> QED
  BY <1>1, <1>3

\* An operation ends, or writes the first of its files; if it was cancelled it
\* writes none (characters.rs:32, storage.rs).
LEMMA EndWithKeeps ==
  ASSUME OpGood, op.at = "work", NEW o \in Outcome, o.result = "cancelled" => ~o.saves,
         EndWith(o), UNCHANGED <<lockVars, loadable>>, signIn' = "none"
  PROVE  /\ OpGood'
         /\ op'.kind = op.kind /\ op'.arg = op.arg /\ op'.prepared = o.prepared
         /\ op'.at = "half" => o.saves
<1>1. op \in Operation /\ disk \in Store /\ disk = op.base
  BY DEF OpGood, OperationsTypeOK, WorkKnown
<1>2. /\ o.store \in Store /\ o.result \in Result /\ o.prepared \in Mode \cup {"none"}
      /\ o.saves \in BOOLEAN
  BY DEF Outcome
<1>3. /\ op' = [op EXCEPT !.store = o.store, !.at = IF o.saves THEN "half" ELSE "end",
                          !.result = o.result, !.prepared = o.prepared]
      /\ disk' = IF o.saves THEN [disk EXCEPT !.fallback = o.store.fallback] ELSE disk
  BY DEF EndWith
<1>4. /\ op' \in Operation /\ op'.kind = op.kind /\ op'.arg = op.arg /\ op'.base = op.base
      /\ op'.result = o.result /\ op'.prepared = o.prepared
      /\ op'.at = (IF o.saves THEN "half" ELSE "end")
  BY <1>1, <1>2, <1>3 DEF Operation
<1>5. disk' \in Store
  BY <1>1, <1>2, <1>3, StoresAre
<1>6. writer # Nobody
  BY DEF OpGood, OperationsTypeOK, NoOperation
<1>7. signIn' \in Phase
  BY DEF Phase
<1>8. ~o.saves => disk' = op'.base
  BY <1>1, <1>3, <1>4
<1>9. OperationsTypeOK'
  BY <1>4, <1>5, <1>6, <1>7 DEF OpGood, OperationsTypeOK, LocksTypeOK, lockVars
<1>10. CancelledStoresNothing' /\ WorkKnown'
  BY <1>4, <1>8 DEF CancelledStoresNothing, WorkKnown
<1>11. OpGood'
  BY <1>9, <1>10 DEF OpGood, lockVars
<1> QED
  BY <1>4, <1>11

\* The steps of a sign-in.
SignsIn ==
  \/ SignInStep(Listen, Cancelled) \/ SignInStep(OfferPaste, Cancelled)
  \/ SignInStep(ReadPasted, Cancelled) \/ SignInStep(ReadCallback, Cancelled)
  \/ SignInStep(GiveUp, Cancelled) \/ SignInStep(Exchange, Cancelled)
  \/ SignInStore(Cancelled)

LEMMA SignInKeeps ==
  ASSUME OpGood, SignsIn
  PROVE  /\ OpGood' /\ UNCHANGED lockVars /\ op.kind = "signIn" /\ op.at = "work"
         /\ op'.kind = op.kind /\ op'.arg = op.arg
         /\ op'.prepared \in {op.prepared, "none"}
<1>1. /\ op.at = "work" /\ op.kind = "signIn" /\ UNCHANGED <<lockVars, loadable>>
      /\ op.store \in Store
  BY DEF SignsIn, SignInStep, SignInStore, OpGood, OperationsTypeOK, Operation
<1>2. \/ signIn' \in Phase /\ UNCHANGED <<op, disk>>
      \/ /\ signIn' = "none"
         /\ \E outcome \in Failing : EndWith(Left(op.store, outcome))
      \/ /\ signIn' = "none"
         /\ \E s \in SignedIn(op.store) : EndWith(Saved(s))
  <2> USE DEF Failing, Failure, Try, Checked, Phase
  <2>1. CASE SignInStep(Listen, Cancelled)
    BY <2>1 DEF SignInStep, Listen
  <2>2. CASE SignInStep(OfferPaste, Cancelled)
    BY <2>2 DEF SignInStep, OfferPaste
  <2>3. CASE SignInStep(ReadPasted, Cancelled)
    BY <2>3 DEF SignInStep, ReadPasted
  <2>4. CASE SignInStep(ReadCallback, Cancelled)
    BY <2>4 DEF SignInStep, ReadCallback
  <2>5. CASE SignInStep(GiveUp, Cancelled)
    BY <2>5 DEF SignInStep, GiveUp
  <2>6. CASE SignInStep(Exchange, Cancelled)
    BY <2>6 DEF SignInStep, Exchange
  <2>7. CASE SignInStore(Cancelled)
    BY <2>7 DEF SignInStore, Affiliate
  <2> QED
    BY <2>1, <2>2, <2>3, <2>4, <2>5, <2>6, <2>7 DEF SignsIn
<1>3. CASE signIn' \in Phase /\ UNCHANGED <<op, disk>>
  BY <1>1, <1>3 DEF OpGood, OperationsTypeOK, LocksTypeOK, CancelledStoresNothing, WorkKnown, lockVars
<1>4. CASE signIn' = "none" /\ \E outcome \in Failing : EndWith(Left(op.store, outcome))
  <2>1. PICK outcome \in Failing : EndWith(Left(op.store, outcome))
    BY <1>4
  <2>2. outcome \in Result
    BY DEF Failing, Result
  <2> QED
    BY <1>1, <1>4, <2>1, <2>2, SavedAndLeft, EndWithKeeps
<1>5. CASE signIn' = "none" /\ \E s \in SignedIn(op.store) : EndWith(Saved(s))
  <2>1. PICK s \in SignedIn(op.store) : EndWith(Saved(s))
    BY <1>5
  <2>2. s \in Store
    BY <1>1, StoresAre DEF SignedIn
  <2>3. Saved(s) \in Outcome /\ Saved(s).result = "ok" /\ Saved(s).prepared = "none"
    BY <2>2, SavedAndLeft DEF Result
  <2> QED
    BY <1>1, <1>5, <2>1, <2>3, EndWithKeeps
<1> QED
  BY <1>2, <1>3, <1>4, <1>5

LEMMA WorkKeeps ==
  ASSUME OpGood, Work
  PROVE  /\ OpGood' /\ UNCHANGED lockVars
         /\ op'.kind = op.kind /\ op'.arg = op.arg
         /\ op'.prepared = "protected" => op.kind = "prepare" /\ op.arg \notin {"all", "one"}
         /\ op.kind = "post" /\ op'.at = "half" /\ Protected(op.store) => op.arg = "protected"
<1>1. PICK o \in Outcomes(op.kind, op.arg, op.store) : EndWith(o)
  BY DEF Work
<1>2. /\ op.at = "work" /\ op.kind \in Kind \ {"signIn"} /\ op.arg \in Arg /\ op.store \in Store
      /\ UNCHANGED <<lockVars, signIn, loadable>>
  BY DEF Work, OpGood, OperationsTypeOK, Operation
<1>3. signIn' = "none"
  BY <1>2 DEF OpGood, OperationsTypeOK
<1>4. /\ o \in Outcome /\ o.result \in {"ok", "failed"}
      /\ o.prepared = "protected" => op.kind = "prepare" /\ op.arg \notin {"all", "one"}
      /\ op.kind = "post" /\ o.saves /\ Protected(op.store) => op.arg = "protected"
  BY <1>2, OutcomesGood
<1>5. /\ OpGood' /\ op'.kind = op.kind /\ op'.arg = op.arg /\ op'.prepared = o.prepared
      /\ op'.at = "half" => o.saves
  BY <1>1, <1>2, <1>3, <1>4, EndWithKeeps
<1> QED
  BY <1>2, <1>4, <1>5

LEMMA PersistKeeps ==
  ASSUME OpGood, Persist
  PROVE  /\ OpGood' /\ UNCHANGED lockVars
         /\ op'.kind = op.kind /\ op'.arg = op.arg /\ op'.prepared = op.prepared
<1>1. op \in Operation /\ op.at = "half" /\ op.result # "cancelled" /\ signIn = "none"
  BY DEF Persist, OpGood, OperationsTypeOK, WorkKnown
<1>2. /\ op' = [op EXCEPT !.at = "end"] /\ disk' = op.store /\ UNCHANGED <<lockVars, signIn, loadable>>
  BY DEF Persist
<1>3. /\ op' \in Operation /\ op'.kind = op.kind /\ op'.arg = op.arg /\ op'.prepared = op.prepared
      /\ op'.at = "end" /\ op'.result = op.result /\ disk' \in Store
  BY <1>1, <1>2 DEF Operation
<1>4. writer # Nobody
  BY <1>1 DEF OpGood, OperationsTypeOK, NoOperation
<1>5. OpGood'
  BY <1>1, <1>2, <1>3, <1>4
  DEF OpGood, OperationsTypeOK, LocksTypeOK, CancelledStoresNothing, WorkKnown, lockVars
<1> QED
  BY <1>2, <1>3, <1>5

-----------------------------------------------------------------------------
(* The main thread of the interface *)

\* What every step is shown to do: it keeps the invariant, takes no store into a
\* snapshot while it is half saved, and sends no protected killmail unless the user
\* was shown that it is.
Sound ==
  /\ IInv'
  /\ gui'.peeked \notin {gui.peeked, EmptyStore} => op.at # "half"
  /\ writer = "gui" /\ Posting /\ Protected(op.store) => gui.drawn

LEMMA NoPost == UNCHANGED op => ~Posting
BY DEF Posting

\* A frame or a click changes nothing of the store and of other processes.
LEMMA InterfaceKeeps ==
  ASSUME IInv, gui.open, Follows(gui, gui'), UNCHANGED <<opVars, cli, refresher, commands>>,
         clicks' \in 0 .. MaxClicks
  PROVE  Sound
<1>1. OpGood /\ GuiGood(gui) /\ ThreadsGood /\ OthersGood
  BY IInvIs
<1>2. UNCHANGED <<writer, readers, service, signIn, disk, loadable, op>>
  BY DEF opVars, lockVars
<1>3. OpGood'
  BY <1>1, <1>2 DEF OpGood, OperationsTypeOK, LocksTypeOK, CancelledStoresNothing, WorkKnown
<1>4. GuiGood(gui)'
  BY DEF Follows, GuiGood
<1>5. ThreadsGood'
  BY <1>1, <1>2 DEF ThreadsGood, Follows
<1>6. OthersGood'
  BY <1>1, <1>2 DEF OthersGood
<1> QED
  BY <1>2, <1>3, <1>4, <1>5, <1>6, NextIInvIs, NoPost DEF Sound, Follows

\* The first snapshot of a window that opens, if there is one (mod.rs App::build).
LEMMA OpenKeeps ==
  ASSUME IInv, Open
  PROVE  Sound
<1>1. OpGood /\ GuiGood(gui) /\ ThreadsGood /\ OthersGood /\ gui = Closed
  BY IInvIs DEF Open, GuiGood
<1>2. UNCHANGED <<writer, readers, service, signIn, disk, loadable, op, cli, refresher, clicks, commands>>
  BY DEF Open, OthersUnchanged, opVars, lockVars
<1>3. EmptyStore \in Store /\ disk \in Store
  BY <1>1 DEF EmptyStore, Store, Queue, OpGood, OperationsTypeOK
<1> DEFINE opened == [Closed EXCEPT !.open = TRUE]
           late == [opened EXCEPT !.follow = TRUE]
           blocked == [opened EXCEPT !.blocked = TRUE]
           shown == [opened EXCEPT !.view = disk, !.shown = service # Nobody]
<1>4. Closed \in Gui
  BY <1>1 DEF GuiGood
<1>5. opened \in Gui /\ late \in Gui /\ blocked \in Gui /\ shown \in Gui
  BY <1>3, <1>4 DEF Gui
<1>6. ASSUME NEW g \in {opened, late, blocked, shown}
      PROVE  /\ g.active = "none" /\ g.job = "none" /\ ~g.cancellable /\ ~g.url /\ ~g.urlSent
             /\ g.open /\ g.prepared = "none" /\ g.pending = NoPending
             /\ g.peek = "none" /\ g.peeked = EmptyStore
  <2>1. CASE g = opened
    BY <2>1 DEF Closed
  <2>2. CASE g = late
    BY <2>2 DEF Closed
  <2>3. CASE g = blocked
    BY <2>3 DEF Closed
  <2>4. CASE g = shown
    BY <2>4 DEF Closed
  <2> QED
    BY <1>6, <2>1, <2>2, <2>3, <2>4
<1> HIDE DEF opened, late, blocked, shown
<1>7. ASSUME NEW g \in {opened, late, blocked, shown}
      PROVE  GuiGood(g) /\ g.open /\ Follows(gui, g)
  <2>1. g \in Gui
    BY <1>5
  <2>2. GuiGood(g)
    BY <1>6, <2>1, NoneApart DEF GuiGood, NoPending
  <2> QED
    BY <1>1, <1>6, <2>2 DEF Follows, Closed
<1>8. Askable("migrate", "none", FALSE)
  BY DEF Askable, Kind, Arg
<1>9. Follows(gui, OpenWith(shown))
  <2>1. Follows(shown, OpenWith(shown))
    BY <1>7, <1>8, StartFollows, RefreshFollows, FollowsItself DEF OpenWith, Start
  <2> QED
    BY <1>7, <2>1, FollowsOn
<1>10. gui' \in {late, blocked, OpenWith(shown)}
  BY DEF Open, opened, late, blocked, shown
<1>11. Follows(gui, gui')
  BY <1>7, <1>9, <1>10
<1>12. OpGood'
  BY <1>1, <1>2 DEF OpGood, OperationsTypeOK, LocksTypeOK, CancelledStoresNothing, WorkKnown
<1>13. GuiGood(gui)'
  BY <1>11 DEF Follows, GuiGood
<1>14. ThreadsGood'
  BY <1>1, <1>2, <1>11 DEF ThreadsGood, Follows
<1>15. OthersGood'
  BY <1>1, <1>2 DEF OthersGood
<1> QED
  BY <1>2, <1>11, <1>12, <1>13, <1>14, <1>15, NextIInvIs, NoPost DEF Sound, Follows

LEMMA PollKeeps ==
  ASSUME IInv, NEW due, PollCore(due)
  PROVE  Sound
<1>1. GuiGood(gui) /\ gui.open /\ clicks \in 0 .. MaxClicks
  BY IInvIs DEF PollCore, OthersGood
<1>2. Follows(gui, gui')
  BY <1>1, FrameFollows DEF PollCore
<1>3. UNCHANGED <<opVars, cli, refresher, commands, clicks>>
  BY DEF PollCore, OthersUnchanged
<1> QED
  BY <1>1, <1>2, <1>3, InterfaceKeeps

LEMMA ClickKeeps ==
  ASSUME IInv, NEW g, Click(g), Follows(gui, g)
  PROVE  Sound
<1>1. clicks \in 0 .. MaxClicks /\ MaxClicks \in Nat /\ clicks > 0 /\ clicks' = clicks - 1
  BY IInvIs, ParametersHold DEF Click, OthersGood, Parameters, BoundsAssumption
<1>2. clicks' \in 0 .. MaxClicks
  BY <1>1
<1>3. gui.open /\ gui' = g /\ UNCHANGED <<opVars, cli, refresher, commands>>
  BY DEF Click, OthersUnchanged
<1> QED
  BY <1>2, <1>3, InterfaceKeeps

\* A dialog is opened or closed, or an operation cancelled: nothing of what the
\* invariant knows of g changes but what it allows.
LEMMA SmallClick ==
  ASSUME NEW g, GuiGood(g), g.open
  PROVE  /\ g.active = "signIn" => \A c \in BOOLEAN : Follows(g, [g EXCEPT !.cancellable = c])
         /\ Follows(g, [g EXCEPT !.cancelled = TRUE, !.url = FALSE])
         /\ \A r \in BOOLEAN : Follows(g, [g EXCEPT !.removing = r])
         /\ Follows(g, [g EXCEPT !.pending = NoPending])
<1>1. g \in Gui
  BY DEF GuiGood
<1> DEFINE Agrees(h) ==
             /\ h \in Gui /\ h.active = g.active /\ h.arg = g.arg /\ h.drawn = g.drawn /\ h.job = g.job
             /\ h.cancellable => g.cancellable \/ g.active = "signIn"
             /\ h.url => g.url
             /\ h.urlSent = g.urlSent
             /\ h.blocked = g.blocked /\ h.open = g.open /\ h.prepared = g.prepared
             /\ h.pending \in {g.pending, NoPending} /\ h.peek = g.peek /\ h.peeked = g.peeked
<1>2. ASSUME NEW h, Agrees(h) PROVE Follows(g, h)
  <2>1. h.pending.mode = "protected" => h.pending.drawn
    BY <1>2 DEF GuiGood, NoPending
  <2>2. GuiGood(h)
    BY <1>2, <2>1 DEF GuiGood
  <2> QED
    BY <1>2, <2>2 DEF Follows
<1>3. g.active = "signIn" => \A c \in BOOLEAN : Agrees([g EXCEPT !.cancellable = c])
  BY <1>1 DEF Gui
<1>4. Agrees([g EXCEPT !.cancelled = TRUE, !.url = FALSE])
  BY <1>1 DEF Gui
<1>5. \A r \in BOOLEAN : Agrees([g EXCEPT !.removing = r])
  BY <1>1 DEF Gui
<1>6. Agrees([g EXCEPT !.pending = NoPending])
  <2>1. NoPending \in Pending
    BY DEF NoPending, Pending
  <2> QED
    BY <1>1, <2>1 DEF Gui
<1> HIDE DEF Agrees
<1> QED
  BY <1>2, <1>3, <1>4, <1>5, <1>6

LEMMA ClicksKeep ==
  ASSUME IInv, Clicks
  PROVE  Sound
<1>1. GuiGood(gui) /\ gui \in Gui /\ gui.open
  <2>1. gui.open
    BY DEF Clicks, CancelClick, ConnectClick, DisconnectClick, EditClick, RefreshClick,
           PostAllClick, PostClick, ConfirmPost, DeclinePost, ConfirmRemoval, DeclineRemoval, Click
  <2> QED
    BY <2>1, IInvIs DEF GuiGood
<1>2. CASE CancelClick
  <2>1. Follows(gui, [gui EXCEPT !.cancelled = TRUE, !.url = FALSE])
    BY <1>1, SmallClick
  <2> QED
    BY <1>2, <2>1, ClickKeeps DEF CancelClick
<1>3. CASE ConnectClick
  <2> DEFINE g == Started(gui, "signIn", "loopback", FALSE)
  <2>1. gui.active = "none" /\ ~gui.blocked
    BY <1>3 DEF ConnectClick, ControlsEnabled, Busy
  <2>2. Start(gui, "signIn", "loopback") = g
    BY <2>1 DEF Start, StartWith, Busy
  <2>3. Askable("signIn", "loopback", FALSE)
    BY DEF Askable, Kind, Arg
  <2>4. Follows(gui, g)
    BY <1>1, <2>1, <2>3, StartedFollows
  <2>5. g.active = "signIn"
    BY <1>1 DEF Started, Gui
  <2>6. Click([g EXCEPT !.cancellable = g.active # "none"])
    BY <1>3, <2>2 DEF ConnectClick
  <2> HIDE DEF g
  <2>7. (g.active # "none") = TRUE
    BY <2>5
  <2>8. Click([g EXCEPT !.cancellable = TRUE])
    BY <2>6, <2>7
  <2>9. Follows(g, [g EXCEPT !.cancellable = TRUE])
    BY <2>4, <2>5, SmallClick DEF Follows
  <2>10. Follows(gui, [g EXCEPT !.cancellable = TRUE])
    BY <2>4, <2>9, FollowsOn
  <2> QED
    BY <2>8, <2>10, ClickKeeps
<1>4. CASE DisconnectClick \/ DeclineRemoval
  <2>1. \A r \in BOOLEAN : Follows(gui, [gui EXCEPT !.removing = r])
    BY <1>1, SmallClick
  <2> QED
    BY <1>4, <2>1, ClickKeeps DEF DisconnectClick, DeclineRemoval
<1>5. CASE EditClick
  <2>1. PICK kind \in Edits : Click(Start(gui, kind, EditArg(kind)))
    BY <1>5 DEF EditClick
  <2>2. kind \in {"addVictim", "removeVictim", "show", "protect"}
    BY ParametersHold DEF Parameters, EditsAssumption
  <2>3. EditArg(kind) \in {"on", "off", "none"}
    BY <2>2 DEF EditArg, Switched
  <2>4. Askable(kind, EditArg(kind), FALSE)
    BY <2>2, <2>3 DEF Askable, Kind, Arg
  <2> QED
    BY <1>1, <2>1, <2>4, StartFollows, ClickKeeps DEF Start
<1>6. CASE RefreshClick
  BY <1>1, <1>6, RefreshFollows, ClickKeeps DEF RefreshClick
<1>7. CASE PostAllClick
  <2>1. Askable("prepare", "all", FALSE)
    BY DEF Askable, Kind, Arg
  <2> QED
    BY <1>1, <1>7, <2>1, StartFollows, ClickKeeps DEF PostAllClick, Start
<1>8. CASE PostClick
  <2> DEFINE drawn == Protected(gui.view)
             selection == CardSelection(gui.view)
  <2>1. drawn \in BOOLEAN
    BY DEF Protected
  <2>2. selection \in {"one", "anyway"} /\ (selection = "anyway" => drawn)
    BY DEF CardSelection
  <2>3. Click(StartWith(gui, "prepare", selection, drawn))
    BY <1>8 DEF PostClick
  <2> HIDE DEF drawn, selection
  <2>4. Askable("prepare", selection, drawn)
    BY <2>1, <2>2 DEF Askable, Kind, Arg
  <2> QED
    BY <1>1, <2>3, <2>4, StartFollows, ClickKeeps
<1>9. CASE ConfirmPost
  <2> DEFINE g == [gui EXCEPT !.pending = NoPending]
  <2>1. Follows(gui, g) /\ GuiGood(g) /\ g.open
    BY <1>1, SmallClick DEF Follows
  <2> HIDE DEF g
  <2>2. /\ gui.pending.mode \in Mode /\ gui.pending.drawn \in BOOLEAN
        /\ gui.pending.mode = "protected" => gui.pending.drawn
    BY <1>1, <1>9 DEF ConfirmPost, Gui, Pending, GuiGood
  <2>3. Askable("post", gui.pending.mode, gui.pending.drawn)
    BY <2>2 DEF Askable, Kind, Arg
  <2>4. Follows(g, StartWith(g, "post", gui.pending.mode, gui.pending.drawn))
    BY <2>1, <2>3, StartFollows
  <2>5. Follows(gui, StartWith(g, "post", gui.pending.mode, gui.pending.drawn))
    BY <2>1, <2>4, FollowsOn
  <2> QED
    BY <1>9, <2>5, ClickKeeps DEF ConfirmPost, g
<1>10. CASE DeclinePost
  <2>1. Follows(gui, [gui EXCEPT !.pending = NoPending])
    BY <1>1, SmallClick
  <2> QED
    BY <1>10, <2>1, ClickKeeps DEF DeclinePost
<1>11. CASE ConfirmRemoval
  <2> DEFINE g == [gui EXCEPT !.removing = FALSE]
  <2>1. Follows(gui, g) /\ GuiGood(g) /\ g.open
    BY <1>1, SmallClick DEF Follows
  <2> HIDE DEF g
  <2>2. Askable("remove", "none", FALSE)
    BY DEF Askable, Kind, Arg
  <2>3. Follows(g, Start(g, "remove", "none"))
    BY <2>1, <2>2, StartFollows DEF Start
  <2>4. Follows(gui, Start(g, "remove", "none"))
    BY <2>1, <2>3, FollowsOn
  <2> QED
    BY <1>11, <2>4, ClickKeeps DEF ConfirmRemoval, g
<1> QED
  BY <1>2, <1>3, <1>4, <1>5, <1>6, <1>7, <1>8, <1>9, <1>10, <1>11 DEF Clicks

-----------------------------------------------------------------------------
(* The threads of the interface *)

\* A thread that runs has an interface that is open.
LEMMA ThreadOpen ==
  ASSUME NEW g, GuiGood(g), g.job # "none" \/ g.peek # "none"
  PROVE  g.open
BY DEF GuiGood, Closed

LEMMA JobDoneKeeps ==
  ASSUME GuiGood(gui), gui.job # "none", NEW result \in Result, NEW prepared \in Mode \cup {"none"},
         prepared = "protected" => gui.drawn, JobDone(result, prepared)
  PROVE  GuiGood(gui)' /\ gui'.job = "done" /\ gui'.peek = gui.peek /\ gui'.peeked = gui.peeked
<1>1. gui \in Gui /\ gui.open
  BY ThreadOpen DEF GuiGood
<1>2. gui' \in Gui
  BY <1>1 DEF JobDone, Gui, Job
<1>3. /\ gui'.active = gui.active /\ gui'.arg = gui.arg /\ gui'.drawn = gui.drawn
      /\ gui'.job = "done" /\ gui'.cancellable = gui.cancellable /\ gui'.url = gui.url
      /\ gui'.urlSent = gui.urlSent /\ gui'.blocked = gui.blocked /\ gui'.open = gui.open
      /\ gui'.prepared = prepared /\ gui'.pending = gui.pending /\ gui'.peek = gui.peek
      /\ gui'.peeked = gui.peeked
  BY <1>1 DEF JobDone, Gui
<1>4. GuiGood(gui)'
  BY <1>1, <1>2, <1>3 DEF GuiGood
<1> QED
  BY <1>3, <1>4

LEMMA JobRuns ==
  ASSUME NEW g, GuiGood(g), g.job = "new"
  PROVE  LET h == [g EXCEPT !.job = "run"]
         IN  /\ GuiGood(h) /\ h.job = "run" /\ h.active = g.active /\ h.arg = g.arg
             /\ h.drawn = g.drawn /\ h.peek = g.peek /\ h.peeked = g.peeked
<1> DEFINE h == [g EXCEPT !.job = "run"]
<1>1. g \in Gui /\ g.open
  BY ThreadOpen DEF GuiGood
<1>2. h \in Gui
  BY <1>1 DEF Gui, Job
<1>3. /\ h.active = g.active /\ h.arg = g.arg /\ h.drawn = g.drawn /\ h.job = "run"
      /\ h.cancellable = g.cancellable /\ h.url = g.url /\ h.urlSent = g.urlSent
      /\ h.blocked = g.blocked /\ h.open = g.open /\ h.prepared = g.prepared
      /\ h.pending = g.pending /\ h.peek = g.peek /\ h.peeked = g.peeked
  BY <1>1 DEF Gui
<1> HIDE DEF h
<1>4. GuiGood(h)
  BY <1>1, <1>2, <1>3 DEF GuiGood
<1> QED
  BY <1>3, <1>4 DEF h

\* The thread of an operation (worker.rs).
LEMMA JobBeginKeeps ==
  ASSUME IInv, JobBegin
  PROVE  Sound
<1>1. /\ OpGood /\ GuiGood(gui) /\ ThreadsGood /\ OthersGood /\ gui.job = "new"
      /\ gui.active \in Kind /\ gui.arg \in Arg /\ gui.prepared = "none"
      /\ UNCHANGED <<cli, refresher, clicks, commands>>
  BY IInvIs DEF JobBegin, ThreadUnchanged, GuiGood, Gui
<1>2. CASE Begin("gui", gui.active, gui.arg) /\ gui' = [gui EXCEPT !.job = "run"]
  <2>1. /\ OpGood' /\ writer = Nobody /\ writer' = "gui" /\ UNCHANGED readers
        /\ op'.kind = gui.active /\ op'.arg = gui.arg /\ op'.prepared = "none"
    BY <1>1, <1>2, NobodyApart, BeginKeeps
  <2>2. /\ GuiGood(gui') /\ gui'.job = "run" /\ gui'.active = gui.active /\ gui'.arg = gui.arg
        /\ gui'.drawn = gui.drawn /\ gui'.peek = gui.peek /\ gui'.peeked = gui.peeked
    BY <1>1, <1>2, JobRuns
  <2>3. GuiGood(gui)'
    BY <2>2 DEF GuiGood
  <2>4. ThreadsGood'
    BY <1>1, <2>1, <2>2 DEF ThreadsGood
  <2>5. OthersGood'
    BY <1>1, <2>1, NobodyApart DEF OthersGood
  <2> QED
    BY <2>1, <2>2, <2>3, <2>4, <2>5, NobodyApart, NextIInvIs DEF Sound
<1>3. CASE JobDone("busy", "none") /\ UNCHANGED opVars
  <2>1. UNCHANGED <<writer, readers, service, signIn, disk, loadable, op>>
    BY <1>3 DEF opVars, lockVars
  <2>2. "busy" \in Result /\ "none" \in Mode \cup {"none"}
    BY DEF Result
  <2>3. GuiGood(gui)' /\ gui'.job = "done" /\ gui'.peek = gui.peek /\ gui'.peeked = gui.peeked
    BY <1>1, <1>3, <2>2, JobDoneKeeps
  <2>5. ThreadsGood' /\ OthersGood'
    BY <1>1, <2>1, <2>3 DEF ThreadsGood, OthersGood
  <2>6. OpGood'
    BY <1>1, <2>1 DEF OpGood, OperationsTypeOK, LocksTypeOK, CancelledStoresNothing, WorkKnown
  <2> QED
    BY <2>1, <2>3, <2>5, <2>6, NextIInvIs, NoPost DEF Sound
<1> QED
  BY <1>2, <1>3 DEF JobBegin

LEMMA JobEndKeeps ==
  ASSUME IInv, JobEnd
  PROVE  Sound
<1>1. /\ OpGood /\ GuiGood(gui) /\ ThreadsGood /\ OthersGood
      /\ UNCHANGED <<cli, refresher, clicks, commands>>
  BY IInvIs DEF JobEnd, ThreadUnchanged
<1>2. OpGood' /\ writer = "gui" /\ writer' = Nobody /\ op' = NoOperation /\ UNCHANGED readers
  BY <1>1, NobodyApart, ReleaseKeeps DEF JobEnd
<1>3. /\ op.result \in Result /\ op.prepared \in Mode \cup {"none"} /\ gui.job = "run"
      /\ op.prepared = "protected" => gui.drawn
  BY <1>1, <1>2 DEF OpGood, OperationsTypeOK, Operation, ThreadsGood
<1>4. GuiGood(gui)' /\ gui'.job = "done" /\ gui'.peek = gui.peek /\ gui'.peeked = gui.peeked
  BY <1>1, <1>3, JobDoneKeeps DEF JobEnd
<1>6. ThreadsGood' /\ OthersGood'
  BY <1>1, <1>2, <1>4, NobodyApart DEF ThreadsGood, OthersGood
<1>7. ~Posting
  BY <1>2 DEF Posting, NoOperation
<1> QED
  BY <1>2, <1>4, <1>6, <1>7, NextIInvIs DEF Sound

\* The thread of the snapshot changes only what is its own.
LEMMA PeekGood ==
  ASSUME GuiGood(gui), gui.peek # "none", NEW peek \in Peek, NEW peeked \in Store, NEW probed \in BOOLEAN,
         gui' \in {[gui EXCEPT !.peek = peek],
                   [gui EXCEPT !.peek = peek, !.peeked = peeked],
                   [gui EXCEPT !.peek = peek, !.peeked = peeked, !.probed = probed]}
  PROVE  /\ GuiGood(gui)' /\ gui'.peek = peek /\ gui'.peeked \in {gui.peeked, peeked}
         /\ gui'.job = gui.job /\ gui'.active = gui.active /\ gui'.arg = gui.arg
         /\ gui'.drawn = gui.drawn
<1>1. gui \in Gui /\ gui.open
  BY ThreadOpen DEF GuiGood
<1>2. gui' \in Gui
  <2>1. CASE gui' = [gui EXCEPT !.peek = peek]
    BY <1>1, <2>1 DEF Gui
  <2>2. CASE gui' = [gui EXCEPT !.peek = peek, !.peeked = peeked]
    BY <1>1, <2>2 DEF Gui
  <2>3. CASE gui' = [gui EXCEPT !.peek = peek, !.peeked = peeked, !.probed = probed]
    BY <1>1, <2>3 DEF Gui
  <2> QED
    BY <2>1, <2>2, <2>3
<1>3. /\ gui'.active = gui.active /\ gui'.arg = gui.arg /\ gui'.drawn = gui.drawn
      /\ gui'.job = gui.job /\ gui'.cancellable = gui.cancellable /\ gui'.url = gui.url
      /\ gui'.urlSent = gui.urlSent /\ gui'.blocked = gui.blocked /\ gui'.open = gui.open
      /\ gui'.prepared = gui.prepared /\ gui'.pending = gui.pending /\ gui'.peek = peek
      /\ gui'.peeked \in {gui.peeked, peeked}
  BY <1>1 DEF Gui
<1>4. GuiGood(gui)'
  BY <1>1, <1>2, <1>3 DEF GuiGood
<1> QED
  BY <1>3, <1>4

\* A snapshot is read while no operation holds the lock (store.rs:256,
\* storage.rs try_snapshot_lock_for).
LEMMA SnapshotsKeep ==
  ASSUME IInv, Snapshots
  PROVE  Sound
<1>1. /\ OpGood /\ GuiGood(gui) /\ ThreadsGood /\ OthersGood /\ disk \in Store /\ EmptyStore \in Store
      /\ readers \in SUBSET Process /\ service \in Process \cup {Nobody} /\ loadable \in BOOLEAN
      /\ gui.peek # "none"
      /\ UNCHANGED <<cli, refresher, clicks, commands, signIn, disk, loadable, op>>
  BY IInvIs DEF Snapshots, PeekBegin, PeekRead, PeekProbed, ThreadUnchanged, OpGood,
     OperationsTypeOK, LocksTypeOK, EmptyStore, Store, Queue
<1>2. \/ /\ writer = Nobody /\ readers' = readers \cup {"peek"} /\ UNCHANGED <<writer, service>>
         /\ gui' = [gui EXCEPT !.peek = "reading"]
      \/ /\ UNCHANGED <<writer, readers, service>> /\ gui' = [gui EXCEPT !.peek = "failed"]
      \/ /\ gui.peek = "reading" /\ readers' = readers \ {"peek"} /\ UNCHANGED writer
         /\ service' \in {service, "peek"}
         /\ \/ gui' = [gui EXCEPT !.peek = "failed"]
            \/ gui' = [gui EXCEPT !.peek = "ok", !.peeked = disk, !.probed = TRUE]
            \/ gui' = [gui EXCEPT !.peek = "probing", !.peeked = disk]
      \/ /\ UNCHANGED <<writer, readers>> /\ service' = Nobody
         /\ gui' = [gui EXCEPT !.peek = "ok"]
  BY DEF Snapshots, PeekBegin, PeekRead, PeekProbed, LockForSnapshot, Shareable, lockVars,
     UnlockSnapshot, UnlockAndProbe, UnlockService
<1>3. /\ UNCHANGED <<writer, signIn, disk, op>> /\ loadable' \in BOOLEAN
      /\ readers' \in SUBSET Process /\ service' \in Process \cup {Nobody}
      /\ readers' # {} => writer = Nobody
  BY <1>1, <1>2, NobodyApart DEF OpGood
<1>4. OpGood'
  BY <1>1, <1>3, LocksKeep
<1>5. OthersGood'
  BY <1>1, <1>3 DEF OthersGood
<1>6. PICK peek \in Peek, probed \in BOOLEAN :
        /\ gui' \in {[gui EXCEPT !.peek = peek],
                     [gui EXCEPT !.peek = peek, !.peeked = disk],
                     [gui EXCEPT !.peek = peek, !.peeked = disk, !.probed = probed]}
        /\ peek = "reading" => "peek" \in readers'
  BY <1>2 DEF Peek
<1>7. /\ GuiGood(gui)' /\ gui'.peek = peek
      /\ gui'.job = gui.job /\ gui'.active = gui.active /\ gui'.arg = gui.arg
      /\ gui'.drawn = gui.drawn
  BY <1>1, <1>6, PeekGood
<1>8. ThreadsGood'
  BY <1>1, <1>3, <1>6, <1>7 DEF ThreadsGood
<1>9. gui'.peeked \notin {gui.peeked, EmptyStore} => op.at # "half"
  <2>1. CASE gui.peek = "reading"
    <3>1. writer = Nobody
      BY <1>1, <2>1 DEF ThreadsGood, OpGood
    <3>2. op = NoOperation
      BY <1>1, <3>1 DEF OpGood, OperationsTypeOK
    <3> QED
      BY <3>2 DEF NoOperation
  <2>2. CASE gui.peek # "reading"
    <3>1. PICK p \in Peek : gui' = [gui EXCEPT !.peek = p]
      BY <1>2, <2>2 DEF Peek
    <3>2. gui'.peeked = gui.peeked
      BY <1>1, <3>1 DEF GuiGood, Gui
    <3> QED
      BY <3>2
  <2> QED
    BY <2>1, <2>2
<1> QED
  BY <1>1, <1>4, <1>5, <1>7, <1>8, <1>9, NextIInvIs, NoPost DEF Sound

-----------------------------------------------------------------------------
(* The command line and the refresh service *)

\* Another process leaves the interface alone, and the lock it holds.
LEMMA OthersKeep ==
  ASSUME IInv, OpGood', OthersGood', UNCHANGED gui,
         "peek" \in readers => "peek" \in readers',
         \/ writer # "gui" /\ writer' # "gui"
         \/ UNCHANGED <<writer, op>>,
         writer # "gui" \/ ~Posting
  PROVE  Sound
<1>1. GuiGood(gui) /\ ThreadsGood
  BY IInvIs
<1>2. GuiGood(gui)'
  BY <1>1 DEF GuiGood
<1>3. ThreadsGood'
  BY <1>1 DEF ThreadsGood
<1> QED
  BY <1>2, <1>3, NextIInvIs DEF Sound

LEMMA CliGood ==
  ASSUME NEW at \in {"idle", "prompt", "run", "reading", "probing"}, NEW kind \in Kind \cup {"status"},
         NEW arg \in Arg
  PROVE  /\ [NoCommand EXCEPT !.at = at, !.kind = kind, !.arg = arg] \in Cli
         /\ [NoCommand EXCEPT !.at = at, !.kind = kind, !.arg = arg].at = at
         /\ [NoCommand EXCEPT !.at = at] \in Cli /\ [NoCommand EXCEPT !.at = at].at = at
BY DEF NoCommand, Cli, Arg

LEMMA ExitGood ==
  ASSUME NEW code \in Result, Exit(code)
  PROVE  cli' \in Cli /\ cli'.at = "idle"
BY DEF Exit, NoCommand, Cli, Arg

LEMMA PromptGood ==
  ASSUME NEW kind \in Kind \cup {"status"}, NEW arg \in Arg, Prompt(kind, arg)
  PROVE  cli' \in Cli /\ cli'.at = "prompt"
BY DEF Prompt, NoCommand, Cli, Arg

\* The commands leave the store and its lock as they should (cli/mod.rs,
\* cli/commands.rs).
LEMMA CommandBeginsGood ==
  ASSUME IInv, NEW kind \in Kind \cup {"status"}, NEW arg \in Arg, CommandBegins(kind, arg),
         cli.at # "run"
  PROVE  /\ OpGood' /\ cli' \in Cli /\ (writer' = "cli" <=> cli'.at = "run")
         /\ "peek" \in readers => "peek" \in readers'
         /\ (writer # "gui" /\ writer' # "gui") \/ UNCHANGED <<writer, op>>
         /\ writer # "gui" \/ ~Posting
         /\ (writer # "service" /\ writer' # "service") \/ UNCHANGED writer
<1>1. OpGood /\ writer # "cli"
  BY IInvIs DEF OthersGood
<1>2. /\ readers \in SUBSET Process /\ service \in Process \cup {Nobody} /\ loadable \in BOOLEAN
      /\ readers # {} => writer = Nobody
  BY <1>1 DEF OpGood, OperationsTypeOK, LocksTypeOK
<1>3. CASE /\ kind # "status" /\ Begin("cli", kind, arg)
           /\ cli' = [NoCommand EXCEPT !.at = "run", !.kind = kind, !.arg = arg]
  <2>1. OpGood' /\ writer = Nobody /\ writer' = "cli" /\ UNCHANGED readers
    BY <1>1, <1>3, NobodyApart, BeginKeeps
  <2>2. cli' \in Cli /\ cli'.at = "run"
    BY <1>3, CliGood
  <2> QED
    BY <2>1, <2>2, NobodyApart
<1>4. CASE /\ LockForSnapshot("cli")
           /\ cli' = [NoCommand EXCEPT !.at = "reading"]
           /\ UNCHANGED <<signIn, disk, loadable, op>>
  <2>1. writer = Nobody /\ readers' = readers \cup {"cli"} /\ UNCHANGED <<writer, service>>
    BY <1>4 DEF LockForSnapshot, Shareable
  <2>2. OpGood'
    BY <1>1, <1>2, <1>4, <2>1, NobodyApart, LocksKeep
  <2>3. cli' \in Cli /\ cli'.at = "reading"
    BY <1>4, CliGood
  <2> QED
    BY <1>1, <1>4, <2>1, <2>2, <2>3, NoPost
<1>5. CASE Exit("busy") /\ UNCHANGED opVars
  <2>1. UNCHANGED <<writer, readers, service, signIn, disk, loadable, op>>
    BY <1>5 DEF opVars, lockVars
  <2>2. OpGood'
    BY <1>1, <1>2, <2>1, LocksKeep
  <2>3. cli' \in Cli /\ cli'.at = "idle"
    BY <1>5, ExitGood DEF Result
  <2> QED
    BY <1>1, <2>1, <2>2, <2>3, NoPost
<1> QED
  BY <1>3, <1>4, <1>5 DEF CommandBegins

LEMMA CommandsKeep ==
  ASSUME IInv, Commands
  PROVE  Sound
<1>1. /\ OpGood /\ OthersGood /\ cli \in Cli
      /\ readers \in SUBSET Process /\ service \in Process \cup {Nobody} /\ loadable \in BOOLEAN
      /\ readers # {} => writer = Nobody
  BY IInvIs DEF OthersGood, OpGood, OperationsTypeOK, LocksTypeOK
<1>2. UNCHANGED <<gui, refresher, clicks>>
  BY DEF Commands, CommandGiven, Answer, CommandEnd, StatusRead, StatusProbed, Interrupt, CliUnchanged
<1>3. commands' \in 0 .. MaxCommands
  <2>1. commands \in 0 .. MaxCommands /\ MaxCommands \in Nat
    BY <1>1, ParametersHold DEF OthersGood, Parameters, BoundsAssumption
  <2>2. commands' = commands \/ (commands > 0 /\ commands' = commands - 1)
    BY DEF Commands, CommandGiven, Answer, CommandEnd, StatusRead, StatusProbed, Interrupt
  <2> QED
    BY <2>1, <2>2
<1>4. ASSUME cli' \in Cli, writer' = "cli" <=> cli'.at = "run",
             (writer # "service" /\ writer' # "service") \/ UNCHANGED writer
      PROVE  OthersGood'
  BY <1>1, <1>2, <1>3, <1>4 DEF OthersGood
<1>5. ASSUME NEW kind \in Kind \cup {"status"}, NEW arg \in Arg, cli.at # "run",
             CommandBegins(kind, arg) \/ (Prompt(kind, arg) /\ UNCHANGED opVars)
                                      \/ (Exit("cancelled") /\ UNCHANGED opVars)
      PROVE  Sound
  <2>1. CASE CommandBegins(kind, arg)
    <3>1. /\ OpGood' /\ cli' \in Cli /\ (writer' = "cli" <=> cli'.at = "run")
          /\ "peek" \in readers => "peek" \in readers'
          /\ (writer # "gui" /\ writer' # "gui") \/ UNCHANGED <<writer, op>>
          /\ writer # "gui" \/ ~Posting
          /\ (writer # "service" /\ writer' # "service") \/ UNCHANGED writer
      BY <1>5, <2>1, CommandBeginsGood
    <3>2. OthersGood'
      BY <1>4, <3>1
    <3> QED
      BY <1>2, <3>1, <3>2, OthersKeep
  <2>2. CASE (Prompt(kind, arg) \/ Exit("cancelled")) /\ UNCHANGED opVars
    <3>1. UNCHANGED <<writer, readers, service, signIn, disk, loadable, op>>
      BY <2>2 DEF opVars, lockVars
    <3>2. cli' \in Cli /\ cli'.at \in {"idle", "prompt"}
      BY <2>2, PromptGood, ExitGood DEF Result
    <3>3. OpGood'
      BY <1>1, <3>1, LocksKeep
    <3>4. OthersGood'
      <4>1. writer # "cli"
        BY <1>1, <1>5 DEF OthersGood
      <4> QED
        BY <1>4, <3>1, <3>2, <4>1
    <3> QED
      BY <1>2, <3>1, <3>3, <3>4, OthersKeep, NoPost
  <2> QED
    BY <1>5, <2>1, <2>2
<1>6. CASE CommandGiven
  <2>1. PICK kind \in Command : \E arg \in Arguments(kind) :
          CommandBegins(kind, arg) \/ (Prompt(kind, arg) /\ UNCHANGED opVars)
    BY <1>6 DEF CommandGiven
  <2>2. PICK arg \in Arguments(kind) :
          CommandBegins(kind, arg) \/ (Prompt(kind, arg) /\ UNCHANGED opVars)
    BY <2>1
  <2>3. kind \in Kind \cup {"status"} /\ arg \in Arg /\ cli.at # "run"
    BY <1>6, ParametersHold DEF Parameters, CommandAssumption, Arguments, Arg, CommandGiven
  <2> QED
    BY <1>5, <2>2, <2>3
<1>7. CASE Answer
  <2>1. cli.kind \in Kind \cup {"status"} /\ cli.arg \in Arg /\ cli.at # "run"
    BY <1>1, <1>7 DEF Answer, Cli
  <2> QED
    BY <1>5, <1>7, <2>1 DEF Answer
<1>8. CASE CommandEnd
  <2>1. OpGood' /\ writer = "cli" /\ writer' = Nobody /\ UNCHANGED readers
    BY <1>1, <1>8, NobodyApart, ReleaseKeeps DEF CommandEnd
  <2>2. cli' \in Cli /\ cli'.at \in {"idle", "prompt"}
    <3>1. op.prepared \in Mode \cup {"none"} /\ op.result \in Result
      BY <1>1 DEF OpGood, OperationsTypeOK, Operation
    <3>2. CASE op.prepared = "none"
      <4>1. ExitCode(op.result) \in Result /\ "failed" \in Result
        BY <3>1 DEF ExitCode, Result
      <4>2. \E code \in Result : Exit(code)
        BY <1>8, <3>2, <4>1 DEF CommandEnd
      <4> QED
        BY <4>2, ExitGood
    <3>3. CASE op.prepared # "none"
      <4>1. op.prepared \in Arg /\ "post" \in Kind
        BY <3>1, <3>3 DEF Arg, Kind
      <4> QED
        BY <1>8, <3>3, <4>1, PromptGood DEF CommandEnd
    <3> QED
      BY <3>2, <3>3
  <2>3. OthersGood'
    BY <1>4, <2>1, <2>2, NobodyApart
  <2> QED
    BY <1>2, <2>1, <2>3, NobodyApart, OthersKeep
<1>9. CASE StatusRead \/ StatusProbed
  <2>1. /\ UNCHANGED <<writer, signIn, disk, loadable, op>> /\ cli.at # "run"
        /\ readers' \in {readers, readers \ {"cli"}}
        /\ service' \in {service, "cli", Nobody}
    BY <1>9 DEF StatusRead, StatusProbed, UnlockSnapshot, UnlockAndProbe, UnlockService
  <2>2. OpGood'
    BY <1>1, <2>1, NobodyApart, LocksKeep
  <2>3. cli' \in Cli /\ cli'.at # "run"
    <3>1. [cli EXCEPT !.at = "probing"] \in Cli /\ [cli EXCEPT !.at = "probing"].at = "probing"
      BY <1>1 DEF Cli
    <3>2. cli' = [cli EXCEPT !.at = "probing"] \/ \E code \in Result : Exit(code)
      BY <1>9 DEF StatusRead, StatusProbed, Result
    <3> QED
      BY <3>1, <3>2, ExitGood
  <2>4. OthersGood'
    <3>1. writer # "cli"
      BY <1>1, <2>1 DEF OthersGood
    <3> QED
      BY <1>4, <2>1, <2>3, <3>1
  <2> QED
    BY <1>2, <2>1, <2>2, <2>4, OthersKeep, NoPost
<1>10. CASE Interrupt
  <2>1. UNCHANGED <<writer, readers, service, signIn, disk, loadable, op>>
    BY <1>10 DEF Interrupt, opVars, lockVars
  <2>2. cli' = [cli EXCEPT !.cancelled = TRUE]
    BY <1>10 DEF Interrupt
  <2>3. cli' \in Cli /\ cli'.at = cli.at
    BY <1>1, <2>2 DEF Cli
  <2>4. OpGood' /\ OthersGood'
    BY <1>1, <1>4, <2>1, <2>3, LocksKeep DEF OthersGood
  <2> QED
    BY <1>2, <2>1, <2>4, OthersKeep, NoPost
<1> QED
  BY <1>6, <1>7, <1>8, <1>9, <1>10 DEF Commands

\* The refresh service holds its lock while it runs (cli/service.rs).
LEMMA ServicesKeep ==
  ASSUME IInv, Services
  PROVE  Sound
<1>1. /\ OpGood /\ OthersGood
      /\ readers \in SUBSET Process /\ service \in Process \cup {Nobody} /\ loadable \in BOOLEAN
      /\ readers # {} => writer = Nobody
  BY IInvIs DEF OpGood, OperationsTypeOK, LocksTypeOK
<1>2. UNCHANGED <<gui, cli, clicks>>
  BY DEF Services, StartService, ServiceRefresh, ServiceRefreshed, StopService, ServiceUnchanged
<1>3. commands' \in 0 .. MaxCommands
  <2>1. commands \in 0 .. MaxCommands /\ MaxCommands \in Nat
    BY <1>1, ParametersHold DEF OthersGood, Parameters, BoundsAssumption
  <2>2. commands' = commands \/ (commands > 0 /\ commands' = commands - 1)
    BY DEF Services, StartService, ServiceRefresh, ServiceRefreshed, StopService
  <2> QED
    BY <2>1, <2>2
<1>4. CASE StartService \/ StopService
  <2>1. /\ UNCHANGED <<writer, readers, signIn, disk, loadable, op>>
        /\ service' \in {"service", Nobody} /\ refresher # "refreshing"
        /\ refresher' \in {"stopped", "waiting"}
    BY <1>4 DEF StartService, StopService, LockService, UnlockService
  <2>2. OpGood'
    BY <1>1, <2>1, NobodyApart, LocksKeep
  <2>3. OthersGood'
    BY <1>1, <1>2, <1>3, <2>1 DEF OthersGood
  <2> QED
    BY <1>2, <2>1, <2>2, <2>3, OthersKeep, NoPost
<1>5. CASE ServiceRefresh
  <2>1. "refresh" \in Kind /\ "none" \in Arg
    BY DEF Kind, Arg
  <2>2. OpGood' /\ writer = Nobody /\ writer' = "service" /\ UNCHANGED readers
    BY <1>1, <1>5, <2>1, NobodyApart, BeginKeeps DEF ServiceRefresh
  <2>3. OthersGood'
    BY <1>1, <1>2, <1>3, <1>5, <2>2, NobodyApart DEF OthersGood, ServiceRefresh
  <2> QED
    BY <1>2, <2>2, <2>3, NobodyApart, OthersKeep
<1>6. CASE ServiceRefreshed
  <2>1. OpGood' /\ writer = "service" /\ writer' = Nobody /\ UNCHANGED readers
    BY <1>1, <1>6, NobodyApart, ReleaseKeeps DEF ServiceRefreshed
  <2>2. OthersGood'
    BY <1>1, <1>2, <1>3, <1>6, <2>1, NobodyApart DEF OthersGood, ServiceRefreshed
  <2> QED
    BY <1>2, <2>1, <2>2, NobodyApart, OthersKeep
<1> QED
  BY <1>4, <1>5, <1>6 DEF Services

-----------------------------------------------------------------------------
(* The holder of the lock *)

\* What the holder tells the interface: the URL of its sign-in, or that something
\* was saved.
LEMMA HolderKeeps ==
  ASSUME IInv, OpGood', UNCHANGED <<lockVars, cli, refresher, clicks, commands>>,
         op'.kind = op.kind, op'.arg = op.arg,
         op'.prepared = "protected" =>
           op.prepared = "protected" \/ (op.kind = "prepare" /\ op.arg \notin {"all", "one"}),
         \/ UNCHANGED gui
         \/ writer = "gui" /\ op.kind = "signIn" /\ gui' = [gui EXCEPT !.urlSent = TRUE]
         \/ writer = "gui" /\ gui' = [gui EXCEPT !.changed = TRUE]
  PROVE  IInv' /\ gui'.peeked = gui.peeked
<1>1. GuiGood(gui) /\ ThreadsGood /\ OthersGood /\ gui \in Gui /\ UNCHANGED <<writer, readers>>
  BY IInvIs DEF GuiGood, lockVars
<1>2. OthersGood'
  BY <1>1 DEF OthersGood
<1>3. /\ gui' \in Gui
      /\ gui'.active = gui.active /\ gui'.arg = gui.arg /\ gui'.drawn = gui.drawn
      /\ gui'.job = gui.job /\ gui'.cancellable = gui.cancellable /\ gui'.url = gui.url
      /\ gui'.urlSent => gui.urlSent \/ (writer = "gui" /\ op.kind = "signIn")
      /\ gui'.blocked = gui.blocked /\ gui'.open = gui.open
      /\ gui'.prepared = gui.prepared /\ gui'.pending = gui.pending /\ gui'.peek = gui.peek
      /\ gui'.peeked = gui.peeked
      /\ writer # "gui" => gui' = gui
  <2>1. CASE UNCHANGED gui
    BY <1>1, <2>1
  <2>2. CASE writer = "gui" /\ op.kind = "signIn" /\ gui' = [gui EXCEPT !.urlSent = TRUE]
    BY <1>1, <2>2 DEF Gui
  <2>3. CASE writer = "gui" /\ gui' = [gui EXCEPT !.changed = TRUE]
    BY <1>1, <2>3 DEF Gui
  <2> QED
    BY <2>1, <2>2, <2>3
<1>4. writer = "gui" => gui.open /\ op.kind = gui.active /\ op.arg = gui.arg
  <2>1. writer = "gui" => gui.job # "none"
    BY <1>1 DEF ThreadsGood
  <2> QED
    BY <1>1, <2>1, ThreadOpen DEF ThreadsGood
<1>5. GuiGood(gui)'
  BY <1>1, <1>3, <1>4 DEF GuiGood
<1>6. ThreadsGood'
  <2>1. writer = "gui" /\ op'.prepared = "protected" => gui.drawn
    BY <1>1, <1>4 DEF ThreadsGood, GuiGood
  <2> QED
    BY <1>1, <1>3, <2>1 DEF ThreadsGood
<1> QED
  BY <1>2, <1>3, <1>5, <1>6, NextIInvIs

LEMMA WorkSound ==
  ASSUME IInv, OperationWork
  PROVE  Sound
<1>1. OpGood /\ GuiGood(gui) /\ ThreadsGood
  BY IInvIs
<1>2. /\ OpGood' /\ UNCHANGED lockVars
      /\ op'.kind = op.kind /\ op'.arg = op.arg
      /\ op'.prepared = "protected" => op.kind = "prepare" /\ op.arg \notin {"all", "one"}
      /\ op.kind = "post" /\ op'.at = "half" /\ Protected(op.store) => op.arg = "protected"
  BY <1>1, WorkKeeps DEF OperationWork
<1>3. UNCHANGED <<gui, cli, refresher, clicks, commands>>
  BY DEF OperationWork, ProcessesUnchanged
<1>4. IInv' /\ gui'.peeked = gui.peeked
  BY <1>2, <1>3, HolderKeeps
<1>5. ASSUME writer = "gui", Posting, Protected(op.store) PROVE gui.drawn
  <2>1. op.kind = "post" /\ op.arg = "protected"
    BY <1>2, <1>5 DEF Posting
  <2>2. gui.active = "post" /\ gui.arg = "protected"
    BY <1>1, <1>5, <2>1 DEF ThreadsGood
  <2> QED
    BY <1>1, <2>2 DEF GuiGood
<1> QED
  BY <1>4, <1>5 DEF Sound

\* A sign-in stores nothing before its last look at the cancellation
\* (characters.rs:48).
LEMMA SignInSound ==
  ASSUME IInv, Listening \/ Pasting \/ Callback \/ CallbackTimeout \/ Authorization
  PROVE  Sound
<1>1. OpGood
  BY IInvIs
<1>2. SignsIn
  BY DEF SignsIn, Listening, Pasting, Callback, CallbackTimeout, Authorization
<1>3. /\ OpGood' /\ UNCHANGED lockVars /\ op.kind = "signIn"
      /\ op'.kind = op.kind /\ op'.arg = op.arg /\ op'.prepared \in {op.prepared, "none"}
  BY <1>1, <1>2, SignInKeeps
<1>4. /\ UNCHANGED <<cli, refresher, clicks, commands>>
      /\ \/ UNCHANGED gui
         \/ writer = "gui" /\ gui' = [gui EXCEPT !.urlSent = TRUE]
  BY DEF Listening, Pasting, Callback, CallbackTimeout, Authorization, ProcessesUnchanged
<1>5. IInv' /\ gui'.peeked = gui.peeked
  BY <1>3, <1>4, HolderKeeps
<1> QED
  BY <1>3, <1>5 DEF Sound, Posting

LEMMA SaveSound ==
  ASSUME IInv, Save
  PROVE  Sound
<1>1. OpGood /\ op.at = "half"
  BY IInvIs DEF Save, Persist
<1>2. /\ OpGood' /\ UNCHANGED lockVars
      /\ op'.kind = op.kind /\ op'.arg = op.arg /\ op'.prepared = op.prepared
  BY <1>1, PersistKeeps DEF Save
<1>3. /\ UNCHANGED <<cli, refresher, clicks, commands>>
      /\ \/ UNCHANGED gui
         \/ writer = "gui" /\ gui' = [gui EXCEPT !.changed = TRUE]
  BY DEF Save, ProcessesUnchanged
<1>4. IInv' /\ gui'.peeked = gui.peeked
  BY <1>2, <1>3, HolderKeeps
<1> QED
  BY <1>1, <1>4 DEF Sound, Posting

LEMMA RepairSound ==
  ASSUME IInv, Repair
  PROVE  Sound
<1>1. OpGood /\ OthersGood
  BY IInvIs
<1>2. /\ UNCHANGED <<writer, readers, service, signIn, disk, op, gui, cli, refresher, clicks, commands>>
      /\ loadable' = TRUE
  BY DEF Repair, lockVars
<1>3. OpGood'
  BY <1>1, <1>2 DEF OpGood, OperationsTypeOK, LocksTypeOK, CancelledStoresNothing, WorkKnown
<1>4. OthersGood'
  BY <1>1, <1>2 DEF OthersGood
<1> QED
  BY <1>2, <1>3, <1>4, OthersKeep, NoPost

-----------------------------------------------------------------------------
(* The invariant, and what follows from it *)

LEMMA Initially == Init => IInv
<1> SUFFICES ASSUME Init PROVE IInv
  OBVIOUS
<1>1. /\ writer = Nobody /\ readers = {} /\ signIn = "none" /\ op = NoOperation /\ disk \in Stores
      /\ loadable \in {TRUE, ~CanBreak} /\ gui = Closed /\ cli = NoCommand
      /\ service \in {"service", Nobody} /\ refresher \in {"waiting", "stopped"}
      /\ clicks = MaxClicks /\ commands = MaxCommands
  BY DEF Init, OperationsInit
<1>2. EmptyStore \in Store /\ disk \in Store
  BY <1>1, ParametersHold DEF EmptyStore, Store, Queue, Parameters, StoresAssumption
<1>3. loadable \in BOOLEAN
  BY <1>1
<1>4. op \in Operation /\ op.at = "end" /\ op.result = "ok"
  BY <1>1, <1>2 DEF NoOperation, Operation, Kind, Arg, Result
<1>5. OpGood
  BY <1>1, <1>2, <1>3, <1>4, NobodyApart
  DEF OpGood, OperationsTypeOK, LocksTypeOK, CancelledStoresNothing, WorkKnown, Phase
<1>6. Closed \in Gui
  BY <1>2 DEF Closed, Gui, Arg, Job, Result, NoPending, Pending, Peek
<1>7. GuiGood(gui)
  BY <1>1, <1>6 DEF GuiGood, Closed, NoPending
<1>8. ThreadsGood
  BY <1>1, NobodyApart DEF ThreadsGood, Closed
<1>9. OthersGood
  <2>1. cli \in Cli /\ cli.at = "idle"
    BY <1>1 DEF NoCommand, Cli, Arg
  <2>2. clicks \in 0 .. MaxClicks /\ commands \in 0 .. MaxCommands
    BY <1>1, ParametersHold DEF Parameters, BoundsAssumption
  <2> QED
    BY <1>1, <2>1, <2>2, NobodyApart DEF OthersGood
<1> QED
  BY <1>5, <1>7, <1>8, <1>9, IInvIs

LEMMA QuietSound ==
  ASSUME IInv, UNCHANGED vars
  PROVE  Sound
<1>1. OpGood /\ OthersGood
  BY IInvIs
<1>2. UNCHANGED <<writer, readers, service, signIn, disk, loadable, op, gui, cli, refresher, clicks, commands>>
  BY DEF vars, opVars, lockVars
<1>3. OpGood' /\ OthersGood'
  BY <1>1, <1>2 DEF OpGood, OperationsTypeOK, LocksTypeOK, CancelledStoresNothing, WorkKnown, OthersGood
<1> QED
  BY <1>2, <1>3, OthersKeep, NoPost

LEMMA StepsAreSound == IInv /\ [Next]_vars => Sound
<1> SUFFICES ASSUME IInv, [Next]_vars PROVE Sound
  OBVIOUS
<1>1. CASE Open
  BY <1>1, OpenKeeps
<1>2. CASE PollCore(TRUE) \/ PollCore(FALSE)
  BY <1>2, PollKeeps
<1>3. CASE Clicks
  BY <1>3, ClicksKeep
<1>4. CASE Commands
  BY <1>4, CommandsKeep
<1>5. CASE Services
  BY <1>5, ServicesKeep
<1>6. CASE Holder \/ Pasting \/ Callback
  BY <1>6, WorkSound, SignInSound, SaveSound DEF Holder
<1>7. CASE Threads
  BY <1>7, JobBeginKeeps, JobEndKeeps DEF Threads
<1>8. CASE Snapshots
  BY <1>8, SnapshotsKeep
<1>9. CASE Repair
  BY <1>9, RepairSound
<1>10. CASE UNCHANGED vars
  BY <1>10, QuietSound
<1> QED
  BY <1>1, <1>2, <1>3, <1>4, <1>5, <1>6, <1>7, <1>8, <1>9, <1>10 DEF Next

\* The interface, its threads, the locks and the operation of the writer agree on
\* what is under way and on what the user was shown, in every order of frames,
\* clicks, threads and other processes (operations.rs, ui/mod.rs, store.rs).
THEOREM InvariantHolds == Spec => []IInv
<1>1. IInv /\ [Next]_vars => IInv'
  BY StepsAreSound DEF Sound
<1> QED
  BY <1>1, Initially, PTL DEF Spec

\* Each variable of the interface, the commands and the store has its type, and
\* the lock is held by who is said to run (operations.rs, cli/, store.rs).
THEOREM TypeCorrect == Spec => []TypeOK
BY InvariantHolds, PTL DEF IInv

\* The URL of a sign-in and the button that cancels it are there only while the
\* sign-in runs, whatever order its messages come in (operations.rs:69,
\* operations.rs:337, operations.rs:350).
THEOREM SignInIsTidy == Spec => []SignInTidy
BY InvariantHolds, PTL DEF IInv

\* If the local state could not be loaded no operation is ever started, even when a
\* later snapshot fills the view (operations.rs:290, ui/mod.rs:247).
THEOREM BlockedIsSafe == Spec => []BlockedStartsNothing
BY InvariantHolds, PTL DEF IInv

\* A sign-in that the core ends as cancelled, which is what the interface is told,
\* left the store as it was (characters.rs:32, characters.rs:48).  It says nothing of
\* the exit code 130 of a command, which a sign-in that was stored may get as well.
THEOREM CancellationIsClean == Spec => []CancelledStoresNothing
BY InvariantHolds, PTL DEF IInv

\* A step of a sign-in that was cancelled goes on or ends it as cancelled.
LEMMA CancelledStep ==
  ASSUME SignsIn, Cancelled
  PROVE  UNCHANGED <<op, disk>> \/ EndWith(Left(op.store, "cancelled"))
<1> USE DEF Failing, Failure, Try, Checked
<1>1. CASE SignInStep(Listen, Cancelled)
  BY <1>1 DEF SignInStep, Listen
<1>2. CASE SignInStep(OfferPaste, Cancelled)
  BY <1>2 DEF SignInStep, OfferPaste
<1>3. CASE SignInStep(ReadPasted, Cancelled)
  BY <1>3 DEF SignInStep, ReadPasted
<1>4. CASE SignInStep(ReadCallback, Cancelled)
  BY <1>4 DEF SignInStep, ReadCallback
<1>5. CASE SignInStep(GiveUp, Cancelled)
  BY <1>5 DEF SignInStep, GiveUp
<1>6. CASE SignInStep(Exchange, Cancelled)
  BY <1>6 DEF SignInStep, Exchange
<1>7. CASE SignInStore(Cancelled)
  BY <1>7 DEF SignInStore, Affiliate
<1> QED
  BY <1>1, <1>2, <1>3, <1>4, <1>5, <1>6, <1>7 DEF SignsIn

\* While a sign-in is under way nothing but its own steps touches the store or the
\* operation.
LEMMA OnlySignsIn ==
  ASSUME IInv, [Next]_vars, signIn # "none"
  PROVE  SignsIn \/ UNCHANGED <<op, disk>>
<1>1. OpGood
  BY IInvIs
<1>2. op.kind = "signIn" /\ op.at = "work" /\ writer # Nobody
  BY <1>1 DEF OpGood, OperationsTypeOK, NoOperation
<1>3. CASE Open \/ PollCore(TRUE) \/ PollCore(FALSE) \/ Snapshots \/ Repair \/ UNCHANGED vars
  BY <1>3 DEF Open, PollCore, OthersUnchanged, opVars, Snapshots, PeekBegin, PeekRead, PeekProbed,
              Repair, vars
<1>4. CASE Clicks
  BY <1>4 DEF Clicks, CancelClick, ConnectClick, DisconnectClick, EditClick, RefreshClick,
              PostAllClick, PostClick, ConfirmPost, DeclinePost, ConfirmRemoval, DeclineRemoval,
              Click, OthersUnchanged, opVars
<1>5. CASE Commands
  BY <1>2, <1>5 DEF Commands, CommandGiven, Answer, CommandBegins, CommandEnd, StatusRead,
     StatusProbed, Interrupt, Begin, LockForOperation, Lockable, Release, opVars
<1>6. CASE Services
  BY <1>2, <1>6 DEF Services, StartService, ServiceRefresh, ServiceRefreshed, StopService, Begin,
     LockForOperation, Lockable, Release
<1>7. CASE Threads
  BY <1>2, <1>7 DEF Threads, JobBegin, JobEnd, Begin, LockForOperation, Lockable, Release, opVars
<1>8. CASE Holder \/ Pasting \/ Callback
  BY <1>2, <1>8 DEF Holder, OperationWork, Work, Save, Persist, SignsIn, Listening, Pasting,
     Callback, CallbackTimeout, Authorization
<1> QED
  BY <1>3, <1>4, <1>5, <1>6, <1>7, <1>8 DEF Next

LEMMA CancelledEnds ==
  ASSUME IInv, [Next]_vars, signIn # "none", Cancelled
  PROVE  disk' = disk /\ (op'.at = "end" => op'.result = "cancelled")
<1>1. op \in Operation /\ op.at = "work"
  BY IInvIs DEF OpGood, OperationsTypeOK
<1>2. CASE UNCHANGED <<op, disk>>
  BY <1>1, <1>2
<1>3. CASE EndWith(Left(op.store, "cancelled"))
  BY <1>1, <1>3 DEF EndWith, Left, Operation
<1> QED
  BY <1>2, <1>3, OnlySignsIn, CancelledStep

\* A sign-in that is cancelled while it still asks or waits for something stores
\* nothing, however late its answers come, and ends as cancelled for the interface
\* and the command line alike (characters.rs:32, characters.rs:48, auth.rs:88).
THEOREM CancellationsInTime == Spec => CancelledInTime
<1>1. IInv /\ [Next]_vars =>
        [signIn # "none" /\ Cancelled
           => disk' = disk /\ (op'.at = "end" => op'.result = "cancelled")]_vars
  BY CancelledEnds
<1> QED
  BY <1>1, InvariantHolds, PTL DEF Spec, CancelledInTime

\* A snapshot never sees a store between the files of a save (storage.rs:212).
THEOREM SnapshotsAreWhole == Spec => ViewWhole
<1>1. IInv /\ [Next]_vars =>
        [gui'.peeked \notin {gui.peeked, EmptyStore} => op.at # "half"]_vars
  BY StepsAreSound DEF Sound
<1> QED
  BY <1>1, InvariantHolds, PTL DEF Spec, ViewWhole

\* The interface sends a protected killmail only if its card was drawn as protected
\* when the user asked to post it, whatever the store became between the drawing,
\* the check, the dialog and the POST (ui/killmail.rs:135, posting.rs:74,
\* posting.rs:199).
THEOREM ProtectedPostsAreMeant == Spec => ProtectedPostMeant
<1>1. IInv /\ [Next]_vars =>
        [writer = "gui" /\ Posting /\ Protected(op.store) => gui.drawn]_vars
  BY StepsAreSound DEF Sound
<1> QED
  BY <1>1, InvariantHolds, PTL DEF Spec, ProtectedPostMeant
=============================================================================
