--------------------------- MODULE GuiOperations ---------------------------
(***************************************************************************)
(* The desktop interface (src/src/app/operations.rs, mod.rs, ui/) beside    *)
(* the command line (cli/commands.rs, mod.rs) and the refresh service       *)
(* (cli/service.rs), which share its store.                                *)
(*                                                                         *)
(* The interface draws a copy of the store, its view.  A click starts a     *)
(* thread for an operation, at most one at a time; another thread, at most  *)
(* one, takes snapshots.  Every frame polls what they have sent, and draws. *)
(*                                                                         *)
(* Abstractions.  One character, one killmail, one victim to protect.  No   *)
(* process dies here (Posting and Credentials let them), and only what is   *)
(* broken when the interface opens is repaired.  What is expanded or typed  *)
(* is any click of the user.                                               *)
(***************************************************************************)
EXTENDS StoreOperations, Integers

CONSTANTS
  Stores,       \* the stores the interface may find
  Edits,        \* the edits of protection the user makes
  Command,      \* the commands given on the command line
  ServiceRuns,  \* whether the refresh service already runs
  CanBreak,     \* whether the interface may find files that do not load
  MaxClicks,    \* bound: what the user clicks in the interface
  MaxCommands   \* bound: the commands, and the refreshes of the service

ASSUME StoresAssumption == Stores \subseteq Store
ASSUME EditsAssumption == Edits \subseteq {"addVictim", "removeVictim", "show", "protect"}
ASSUME CommandAssumption == Command \subseteq Kind \cup {"status"}
ASSUME BoundsAssumption ==
  MaxClicks \in Nat /\ MaxCommands \in Nat /\ {ServiceRuns, CanBreak} \subseteq BOOLEAN
ASSUME ProcessAssumption == Process = {"gui", "peek", "cli", "service"}

VARIABLES
  gui,          \* the interface and its two threads
  cli,          \* a command
  refresher,    \* the loop of the refresh service
  clicks,       \* clicks left
  commands      \* commands left

vars == <<opVars, gui, cli, refresher, clicks, commands>>

\* The thread of the active operation, and the one of the snapshot.
Job == {"none", "new", "run", "done"}
Peek == {"none", "new", "reading", "probing", "failed", "ok"}

\* A PreparedPost to confirm; `drawn` remembers whether the killmail was drawn
\* as protected when it was asked for.
Pending == [mode : Mode \cup {"none"}, drawn : BOOLEAN]
NoPending == [mode |-> "none", drawn |-> FALSE]

Gui ==
  [open : BOOLEAN, blocked : BOOLEAN, view : Store, shown : BOOLEAN,
   active : Kind \cup {"none"}, arg : Arg, drawn : BOOLEAN, job : Job, result : Result,
   prepared : Mode \cup {"none"}, cancellable : BOOLEAN, cancelled : BOOLEAN,
   urlSent : BOOLEAN, url : BOOLEAN, changed : BOOLEAN, follow : BOOLEAN,
   pending : Pending, removing : BOOLEAN, peek : Peek, peeked : Store, probed : BOOLEAN]

\* The command that runs: at its prompt, in its operation or in a snapshot.
\* `cancelled` is the flag that Ctrl-C sets, `exit` what the exit code of the last
\* command says: 0 is "ok", 1 "failed", 3 "busy" and 130 "cancelled".
Cli == [at : {"idle", "prompt", "run", "reading", "probing"},
        kind : Kind \cup {"status"}, arg : Arg, cancelled : BOOLEAN, exit : Result \cup {"none"}]
NoCommand ==
  [at |-> "idle", kind |-> "status", arg |-> "none", cancelled |-> FALSE, exit |-> "none"]

TypeOK ==
  /\ OperationsTypeOK
  /\ gui \in Gui
  /\ cli \in Cli
  /\ refresher \in {"stopped", "waiting", "refreshing"}
  /\ clicks \in 0 .. MaxClicks /\ commands \in 0 .. MaxCommands
  /\ (gui.active = "none") = (gui.job = "none")
  /\ (writer = "gui") = (gui.job = "run")
  /\ (writer = "cli") = (cli.at = "run")
  /\ (writer = "service") = (refresher = "refreshing")

Closed ==
  [open |-> FALSE, blocked |-> FALSE, view |-> EmptyStore, shown |-> FALSE,
   active |-> "none", arg |-> "none", drawn |-> FALSE, job |-> "none", result |-> "ok",
   prepared |-> "none", cancellable |-> FALSE, cancelled |-> FALSE,
   urlSent |-> FALSE, url |-> FALSE, changed |-> FALSE, follow |-> FALSE,
   pending |-> NoPending, removing |-> FALSE,
   peek |-> "none", peeked |-> EmptyStore, probed |-> FALSE]

Init ==
  /\ OperationsInit
  /\ disk \in Stores /\ loadable \in {TRUE, ~CanBreak}
  /\ gui = Closed /\ cli = NoCommand
  /\ service = IF ServiceRuns THEN "service" ELSE Nobody
  /\ refresher = IF ServiceRuns THEN "waiting" ELSE "stopped"
  /\ clicks = MaxClicks /\ commands = MaxCommands

-----------------------------------------------------------------------------
(* What the interface does in one frame, as functions of its state *)

Switched(value) == IF value THEN "off" ELSE "on"
Busy(g) == g.active # "none"

Started(g, kind, arg, drawn) ==
  [g EXCEPT !.active = kind, !.arg = arg, !.drawn = drawn, !.job = "new",
            !.cancellable = FALSE, !.cancelled = FALSE]

\* Mutated form of StartWith: the operation starts although the state is blocked.
StartBlocked(g, kind, arg, drawn) == IF Busy(g) THEN g ELSE Started(g, kind, arg, drawn)

\* start_operation: its thread starts, unless another one is active or the
\* local state could not be loaded.
StartWith(g, kind, arg, drawn) ==
  IF Busy(g) \/ g.blocked THEN g ELSE Started(g, kind, arg, drawn)
Start(g, kind, arg) == StartWith(g, kind, arg, FALSE)

\* request_snapshot_reload: one snapshot at a time.
RequestSnapshot(g) == IF g.peek = "none" THEN [g EXCEPT !.peek = "new"] ELSE g

RefreshKillmails(g) == IF g.view.character THEN Start(g, "refresh", "none") ELSE g

\* What the completion of an operation that succeeded makes of g, from `done`.
Completion(g, done) ==
  [g EXCEPT !.follow = @ \/ done.active \in {"migrate", "signIn"},
            !.pending = IF done.prepared = "none" THEN @
                        ELSE [mode |-> done.prepared, drawn |-> done.drawn]]

FinishWith(g, url) ==
  LET idle == [g EXCEPT !.active = "none", !.job = "none", !.cancellable = FALSE,
                        !.cancelled = FALSE, !.url = url, !.arg = "none", !.drawn = FALSE,
                        !.result = "ok", !.prepared = "none"]
  IN  RequestSnapshot(IF g.result = "ok" THEN Completion(idle, g) ELSE idle)

\* Mutated form of FinishOperation: the URL of the sign-in stays.
FinishKeepingUrl(g) == FinishWith(g, g.url)
FinishOperation(g) == FinishWith(g, FALSE)

\* The events of the core: something was persisted.
PollEvents(g) == IF g.changed THEN RequestSnapshot([g EXCEPT !.changed = FALSE]) ELSE g

\* The updates of the operation: its URL, then its result.
PollUpdates(g) ==
  LET shown == IF g.urlSent THEN [g EXCEPT !.url = TRUE, !.urlSent = FALSE] ELSE g
  IN  IF g.job = "done" THEN FinishOperation(shown) ELSE shown

Idle(g) == [g EXCEPT !.peek = "none", !.peeked = EmptyStore, !.probed = FALSE]

\* After a sign-in the first snapshot that has characters starts a refresh, or
\* gives it up if an operation is active.
FollowUp(g) ==
  IF g.follow /\ g.view.character THEN RefreshKillmails([g EXCEPT !.follow = FALSE]) ELSE g

\* Mutated form of PollReload: a busy snapshot takes the follow-up with it.
PollReloadOnce(g) ==
  CASE g.peek = "ok" -> FollowUp(Idle([g EXCEPT !.view = g.peeked, !.shown = g.probed]))
    [] g.peek = "failed" -> Idle([g EXCEPT !.follow = FALSE])
    [] OTHER -> g

\* poll_snapshot_reload: a snapshot that was busy or failed changes nothing.
PollReload(g) ==
  CASE g.peek = "ok" -> FollowUp(Idle([g EXCEPT !.view = g.peeked, !.shown = g.probed]))
    [] g.peek = "failed" -> Idle(g)
    [] OTHER -> g

\* Mutated form of PollTimer: snapshots are only taken after a change.
PollNoTimer(g, due) == g
PollTimer(g, due) == IF due THEN RequestSnapshot(g) ELSE g

-----------------------------------------------------------------------------
(* The main thread of the interface *)

OthersUnchanged == UNCHANGED <<opVars, cli, refresher, commands>>

\* App::build: the first snapshot is taken before the window opens.  If it is
\* busy, a refresh follows the first one that succeeds.
OpenWith(g) ==
  IF g.blocked THEN g
  ELSE IF g.view.fallback THEN Start(g, "migrate", "none")
  ELSE RefreshKillmails(g)

Open ==
  /\ ~gui.open
  /\ gui' = LET opened == [Closed EXCEPT !.open = TRUE] IN
            IF ~Shareable THEN [opened EXCEPT !.follow = TRUE]
            ELSE IF ~loadable THEN [opened EXCEPT !.blocked = TRUE]
            ELSE OpenWith([opened EXCEPT !.view = disk, !.shown = service # Nobody])
  /\ OthersUnchanged /\ UNCHANGED clicks

\* One frame: poll_core, in its order.
PollCore(due) ==
  /\ gui.open
  /\ gui' = PollTimer(PollReload(PollUpdates(PollEvents(gui))), due)
  /\ OthersUnchanged /\ UNCHANGED clicks

Click(g) ==
  /\ gui.open /\ clicks > 0
  /\ clicks' = clicks - 1
  /\ gui' = g
  /\ OthersUnchanged

\* persisted_controls_enabled.
ControlsEnabled == ~Busy(gui) /\ ~gui.blocked

\* show_top_bar: the button of an operation that can be cancelled.
CancelClick ==
  /\ gui.cancellable /\ ~gui.cancelled
  /\ Click([gui EXCEPT !.cancelled = TRUE, !.url = FALSE])

\* show_sidebar: connect and disconnect a character, edit protected victims.
\* begin_auth labels whatever operation is active afterwards.
ConnectClick ==
  /\ ControlsEnabled
  /\ LET g == Start(gui, "signIn", "loopback")
     IN  Click([g EXCEPT !.cancellable = g.active # "none"])

DisconnectClick ==
  /\ ControlsEnabled /\ gui.view.character
  /\ Click([gui EXCEPT !.removing = TRUE])

\* show_queue_toolbar: "Post eligible" is drawn enabled unless an operation is
\* active, even if the local state could not be loaded.
RefreshClick == ControlsEnabled /\ gui.view.character /\ Click(RefreshKillmails(gui))
PostAllClick ==
  /\ ~Busy(gui) /\ gui.view.queue = "ready" /\ ~Protected(gui.view)
  /\ Click(Start(gui, "prepare", "all"))

\* displayed_killmails: what is not reported, and protected ones if they are shown.
Displayed == gui.view.queue # "none" /\ (Protected(gui.view) => gui.view.show)

\* killmail_card: a card drawn as protected asks to post anyway.
CardSelection(s) == IF Protected(s) THEN "anyway" ELSE "one"

PostClick ==
  /\ ~Busy(gui) /\ Displayed /\ gui.view.queue = "ready"
  /\ Click(StartWith(gui, "prepare", CardSelection(gui.view), Protected(gui.view)))

\* The edits of protection: protected victims in the sidebar, the visibility of
\* protected killmails above the list, the flag of a killmail on its card.  What
\* is switched is what is drawn.
Offered(kind) ==
  CASE kind = "removeVictim" -> gui.view.victim
    [] kind = "protect" -> Displayed
    [] OTHER -> TRUE
EditArg(kind) ==
  CASE kind = "protect" -> Switched(gui.view.flagged)
    [] kind = "show" -> Switched(gui.view.show)
    [] OTHER -> "none"
EditClick ==
  \E kind \in Edits :
    ControlsEnabled /\ Offered(kind) /\ Click(Start(gui, kind, EditArg(kind)))

\* show_post_confirmation: the dialog is not modal, and what it confirms is taken
\* before post_prepared may refuse it.
ConfirmPost ==
  /\ gui.pending.mode # "none"
  /\ Click(StartWith([gui EXCEPT !.pending = NoPending], "post", gui.pending.mode,
                     gui.pending.drawn))
DeclinePost == gui.pending.mode # "none" /\ Click([gui EXCEPT !.pending = NoPending])

\* show_character_removal_confirmation.
ConfirmRemoval ==
  gui.removing /\ Click(Start([gui EXCEPT !.removing = FALSE], "remove", "none"))
DeclineRemoval == gui.removing /\ Click([gui EXCEPT !.removing = FALSE])

-----------------------------------------------------------------------------
(* The threads of the interface *)

ThreadUnchanged == UNCHANGED <<cli, refresher, clicks, commands>>

JobDone(result, prepared) ==
  gui' = [gui EXCEPT !.job = "done", !.result = result, !.prepared = prepared]

\* The thread of the operation takes the lock or gives up.
JobBegin ==
  /\ gui.job = "new"
  /\ \/ Begin("gui", gui.active, gui.arg) /\ gui' = [gui EXCEPT !.job = "run"]
     \/ ~Lockable /\ JobDone("busy", "none") /\ UNCHANGED opVars
  /\ ThreadUnchanged

\* The lock is given back, and the result sent.
JobEnd ==
  /\ Release("gui")
  /\ JobDone(op.result, op.prepared)
  /\ ThreadUnchanged

\* The thread of the snapshot: it locks or gives up, loads and unlocks, and asks
\* whether the service lock is taken (status_for), by taking it for a moment.
PeekBegin ==
  /\ gui.peek = "new"
  /\ \/ LockForSnapshot("peek") /\ gui' = [gui EXCEPT !.peek = "reading"]
     \/ ~Shareable /\ gui' = [gui EXCEPT !.peek = "failed"] /\ UNCHANGED lockVars
  /\ UNCHANGED <<signIn, disk, loadable, op>> /\ ThreadUnchanged

PeekRead ==
  /\ gui.peek = "reading"
  /\ \/ ~loadable /\ gui' = [gui EXCEPT !.peek = "failed"] /\ UnlockSnapshot("peek")
     \/ loadable /\ gui' = [gui EXCEPT !.peek = "ok", !.peeked = disk, !.probed = TRUE]
        /\ service # Nobody /\ UnlockSnapshot("peek")
     \/ loadable /\ gui' = [gui EXCEPT !.peek = "probing", !.peeked = disk]
        /\ UnlockAndProbe("peek")
  /\ UNCHANGED <<signIn, disk, loadable, op>> /\ ThreadUnchanged

PeekProbed ==
  /\ gui.peek = "probing"
  /\ UnlockService
  /\ gui' = [gui EXCEPT !.peek = "ok"]
  /\ UNCHANGED <<signIn, disk, loadable, op>> /\ ThreadUnchanged

-----------------------------------------------------------------------------
(* The command line *)

CliUnchanged == UNCHANGED <<gui, refresher, clicks>>

\* What a command is asked for; remove and post ask for a confirmation.
Arguments(kind) ==
  CASE kind = "signIn" -> {"loopback", "paste"}
    [] kind \in {"show", "protect"} -> {"on", "off"}
    [] kind = "prepare" -> {"all", "one", "anyway"}
    [] OTHER -> {"none"}

Exit(code) == cli' = [NoCommand EXCEPT !.exit = code]

\* A command that does not get its lock ends as busy.
CommandBegins(kind, arg) ==
  \/ /\ kind # "status" /\ Begin("cli", kind, arg)
     /\ cli' = [NoCommand EXCEPT !.at = "run", !.kind = kind, !.arg = arg]
  \/ /\ kind = "status" /\ LockForSnapshot("cli")
     /\ cli' = [NoCommand EXCEPT !.at = "reading"]
     /\ UNCHANGED <<signIn, disk, loadable, op>>
  \/ /\ IF kind = "status" THEN ~Shareable ELSE ~Lockable
     /\ Exit("busy") /\ UNCHANGED opVars

Prompt(kind, arg) == cli' = [NoCommand EXCEPT !.at = "prompt", !.kind = kind, !.arg = arg]

\* A command is given; remove asks for a confirmation first.
CommandGiven ==
  /\ cli.at = "idle" /\ commands > 0
  /\ commands' = commands - 1
  /\ \E kind \in Command : \E arg \in Arguments(kind) :
        \/ kind # "remove" /\ CommandBegins(kind, arg)
        \/ kind = "remove" /\ Prompt(kind, arg) /\ UNCHANGED opVars
  /\ CliUnchanged

\* confirm and read_line: yes goes on, anything else and Ctrl-C end the command.
Answer ==
  /\ cli.at = "prompt"
  /\ \/ CommandBegins(cli.kind, cli.arg)
     \/ Exit("cancelled") /\ UNCHANGED opVars
  /\ UNCHANGED commands /\ CliUnchanged

\* A Ctrl-C that the operation did not notice, because it looks at none or had its
\* last look, does not undo its success, but makes the exit code 130.
ExitCode(result) == IF result = "ok" /\ cli.cancelled THEN "cancelled" ELSE result

\* A prepare that found something to post asks for a confirmation, and fails if it
\* found nothing.
CommandEnd ==
  /\ Release("cli")
  /\ \/ op.prepared # "none" /\ Prompt("post", op.prepared)
     \/ /\ op.prepared = "none"
        /\ Exit(IF op.kind = "prepare" /\ op.result = "ok" THEN "failed" ELSE ExitCode(op.result))
  /\ UNCHANGED commands /\ CliUnchanged

\* The snapshot of a command that only shows something.
StatusRead ==
  /\ cli.at = "reading"
  /\ \/ ~loadable /\ UnlockSnapshot("cli") /\ Exit("failed")
     \/ loadable /\ service # Nobody /\ UnlockSnapshot("cli") /\ Exit("ok")
     \/ loadable /\ UnlockAndProbe("cli") /\ cli' = [cli EXCEPT !.at = "probing"]
  /\ UNCHANGED <<signIn, disk, loadable, op, commands>> /\ CliUnchanged

StatusProbed ==
  /\ cli.at = "probing"
  /\ UnlockService
  /\ Exit("ok")
  /\ UNCHANGED <<signIn, disk, loadable, op, commands>> /\ CliUnchanged

\* Ctrl-C during a sign-in.  At the prompt it is an answer, of a refresh, a prepare
\* or a post it makes one of its results, and of the other commands only the exit
\* code, the way it does of a sign-in that is over.
Interrupt ==
  /\ cli.at = "run" /\ cli.kind = "signIn" /\ ~cli.cancelled
  /\ cli' = [cli EXCEPT !.cancelled = TRUE]
  /\ UNCHANGED <<opVars, commands>> /\ CliUnchanged

-----------------------------------------------------------------------------
(* The refresh service *)

ServiceUnchanged == UNCHANGED <<gui, cli, clicks>>

\* It starts if nobody holds its lock, a snapshot that asks for it included.
StartService ==
  /\ refresher = "stopped" /\ commands > 0
  /\ LockService("service")
  /\ refresher' = "waiting" /\ commands' = commands - 1
  /\ UNCHANGED <<signIn, disk, loadable, op>> /\ ServiceUnchanged

ServiceRefresh ==
  /\ refresher = "waiting" /\ commands > 0
  /\ Begin("service", "refresh", "none")
  /\ refresher' = "refreshing" /\ commands' = commands - 1
  /\ ServiceUnchanged

ServiceRefreshed ==
  /\ Release("service")
  /\ refresher' = "waiting"
  /\ UNCHANGED commands /\ ServiceUnchanged

StopService ==
  /\ refresher = "waiting"
  /\ UnlockService
  /\ refresher' = "stopped"
  /\ UNCHANGED <<signIn, disk, loadable, op, commands>> /\ ServiceUnchanged

-----------------------------------------------------------------------------
(* The operation that holds the lock, whoever runs it *)

Cancelled == IF writer = "gui" THEN gui.cancelled ELSE cli.cancelled
ProcessesUnchanged == UNCHANGED <<cli, refresher, clicks, commands>>

OperationWork == Work /\ UNCHANGED gui /\ ProcessesUnchanged
\* The URL is sent once the listener is bound, whether or not the browser opens.
Listening ==
  /\ op.arg = "loopback" /\ SignInStep(Listen, Cancelled)
  /\ \/ writer = "gui" /\ ~Cancelled /\ gui' = [gui EXCEPT !.urlSent = TRUE]
     \/ (writer = "gui" => signIn' = "none") /\ UNCHANGED gui
  /\ ProcessesUnchanged
Pasting ==
  /\ \/ op.arg = "paste" /\ SignInStep(OfferPaste, Cancelled)
     \/ SignInStep(ReadPasted, Cancelled)
  /\ UNCHANGED gui /\ ProcessesUnchanged
Callback == SignInStep(ReadCallback, Cancelled) /\ UNCHANGED gui /\ ProcessesUnchanged
\* Mutated form of CallbackTimeout: the callback is waited for until cancelled.
CallbackForever == Cancelled /\ SignInStep(GiveUp, Cancelled) /\ UNCHANGED gui /\ ProcessesUnchanged
CallbackTimeout == SignInStep(GiveUp, Cancelled) /\ UNCHANGED gui /\ ProcessesUnchanged
Authorization ==
  /\ SignInStep(Exchange, Cancelled) \/ SignInStore(Cancelled)
  /\ UNCHANGED gui /\ ProcessesUnchanged

\* persist, and the event of what the interface itself changed.
Save ==
  /\ Persist
  /\ gui' = IF writer = "gui" THEN [gui EXCEPT !.changed = TRUE] ELSE gui
  /\ ProcessesUnchanged

\* Someone repairs a file that could not be read.
Repair ==
  /\ ~loadable
  /\ loadable' = TRUE
  /\ UNCHANGED <<lockVars, signIn, disk, op, gui, cli, refresher, clicks, commands>>

Clicks ==
  \/ CancelClick \/ ConnectClick \/ DisconnectClick \/ EditClick
  \/ RefreshClick \/ PostAllClick \/ PostClick \/ ConfirmPost \/ DeclinePost \/ ConfirmRemoval \/ DeclineRemoval
Commands ==
  \/ CommandGiven \/ Answer \/ CommandEnd \/ StatusRead \/ StatusProbed \/ Interrupt
Services == StartService \/ ServiceRefresh \/ ServiceRefreshed \/ StopService
Holder ==
  \/ OperationWork \/ Listening \/ CallbackTimeout \/ Authorization \/ Save
Threads == JobBegin \/ JobEnd
Snapshots == PeekBegin \/ PeekRead \/ PeekProbed

Next ==
  \/ Open \/ PollCore(TRUE) \/ PollCore(FALSE)
  \/ Clicks \/ Commands \/ Services \/ Holder \/ Pasting \/ Callback
  \/ Threads \/ Snapshots \/ Repair

Spec == Init /\ [][Next]_vars

\* The threads of the interface and the processes that have started something
\* run until it is over: requests end, and the callback is waited for five
\* minutes at most.  The window is drawn at least every two seconds.  Nobody has
\* to click, to paste, to answer a prompt or to give a command.
Underway ==
  \/ Threads \/ Holder \/ CommandEnd \/ StatusRead \/ StatusProbed \/ ServiceRefreshed
FairSpec ==
  /\ Spec
  /\ WF_vars(Open) /\ WF_vars(PollCore(TRUE)) /\ WF_vars(Snapshots) /\ WF_vars(Underway)

-----------------------------------------------------------------------------
(* Properties *)

\* The URL of a sign-in and the button that cancels it are there only while the
\* sign-in runs, whatever order its messages come in: no other operation can be
\* cancelled (operations.rs:69, operations.rs:337, operations.rs:350).
SignInTidy == gui.cancellable \/ gui.url => gui.active = "signIn"

\* If the local state could not be loaded nothing is written over it, even when
\* a later snapshot fills the view (operations.rs:290, ui/mod.rs:247).
BlockedStartsNothing == gui.blocked => gui.active = "none"

\* A sign-in that the core ends as cancelled, which is what the interface is told,
\* left the store as it was (characters.rs:32, characters.rs:48).  The exit code 130
\* of a command says less: ExitCode also gives it to a sign-in that was stored.
CancelledStoresNothing == op.at = "end" /\ op.result = "cancelled" => disk = op.base

\* Before the window opens nothing of the interface is under way, and a URL that
\* was sent is the one of the active sign-in.
JobTidy ==
  /\ ~gui.open => gui = Closed
  /\ gui.urlSent => gui.active = "signIn"
  /\ gui.job # "done" => gui.prepared = "none"
  /\ writer = "gui" => op.kind = gui.active /\ op.arg = gui.arg

\* An operation starts from the files, and one that saves was not cancelled.
WorkKnown ==
  /\ op.at = "work" => disk = op.base
  /\ op.at = "half" => op.result # "cancelled"

\* Snapshots and operations exclude each other.
LocksExclude ==
  /\ readers # {} => writer = Nobody
  /\ gui.peek = "reading" => "peek" \in readers

\* Wherever the permission to post a protected killmail has got to, from the card
\* over the check and the dialog to the operation, the card was drawn as protected.
DrawnKnown ==
  /\ gui.active = "prepare" => gui.arg \in {"all", "one", "anyway"}
  /\ gui.active = "prepare" /\ gui.arg = "anyway" => gui.drawn
  /\ gui.active = "post" /\ gui.arg = "protected" => gui.drawn
  /\ gui.prepared = "protected" => gui.drawn
  /\ writer = "gui" /\ op.prepared = "protected" => gui.drawn
  /\ gui.pending.mode = "protected" => gui.pending.drawn

\* The inductive invariant: the interface, its threads, the locks and the operation
\* of the writer agree on what is under way and what the user was shown
\* (operations.rs start_operation, poll_core, ui/mod.rs, store.rs).
IInv ==
  /\ TypeOK /\ SignInTidy /\ BlockedStartsNothing /\ CancelledStoresNothing
  /\ JobTidy /\ WorkKnown /\ LocksExclude /\ DrawnKnown

\* A sign-in that is cancelled while it still asks or waits for something stores
\* nothing, however late its answers come, and ends as cancelled for the interface
\* and the command line alike (characters.rs:32, characters.rs:48, auth.rs:88).
CancelledInTime ==
  [][signIn # "none" /\ Cancelled
       => disk' = disk /\ (op'.at = "end" => op'.result = "cancelled")]_vars

\* A snapshot never sees a store between the files of a save (storage.rs:212).
ViewWhole ==
  [][gui'.peeked \notin {gui.peeked, EmptyStore} => op.at # "half"]_vars

\* The interface sends a protected killmail only if its card was drawn as
\* protected when the user asked to post it, whatever the store became between
\* the drawing, the check, the dialog and the POST (ui/killmail.rs:135,
\* posting.rs:74, posting.rs:199).
Posting == op.kind = "post" /\ op.at = "work" /\ op'.at = "half"
ProtectedPostMeant ==
  [][writer = "gui" /\ Posting /\ Protected(op.store) => gui.drawn]_vars

\* Every operation of the interface ends, sign-ins the user forgets included
\* (auth.rs:201, operations.rs:348).
OperationsEnd == Busy(gui) ~> ~Busy(gui)

\* When nobody writes any more, the view becomes the store, and the interface
\* knows whether the service runs, whatever snapshots were busy or asked for the
\* service at the same time (operations.rs:342, operations.rs:400, store.rs:256).
CatchesUp ==
  <>[](writer = Nobody /\ loadable)
    => <>[](gui.view = disk /\ gui.shown = (service = "service"))

\* After a sign-in, a migration or a busy start the killmails are refreshed
\* unless the user starts something else first or the character is gone
\* (operations.rs:395).
FollowUpRefreshes ==
  <>[](writer = Nobody /\ loadable)
    => (gui.follow /\ ~Busy(gui) /\ clicks = 0)
          ~> (gui.active = "refresh" \/ ~disk.character)
=============================================================================
