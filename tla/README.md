# ekmp: verification project

ekmp collects a player's EVE Online killmails and posts the chosen ones to
zKillboard, from a command line, a refresh service and a GUI that share one
persisted store. This directory holds TLA+ models of its core, the TLC runs that
check them and TLAPS proofs about them. Paths below are relative to the
repository; the Rust sources are in `src/`.

## The system

| Component | State it keeps | Operations | What makes it correct |
| --- | --- | --- | --- |
| Posting (`core/posting.rs`) | the attempt marker of each killmail, the session's reports | `prepare_post`, `post` | nothing is sent twice without newer evidence, nothing without consent |
| Status refresh (`core/status.rs`) | status per killmail, cached zKillboard pages | `refresh_statuses_locked` | old evidence never overrules newer knowledge |
| Killmail rules (`killmail.rs`) | none | protection, report state, pruning | pure functions the others rely on |
| Store access (`core/store.rs`) | the working copy, the operation and the service lock | `begin_operation`, `persist`, `snapshot`, `try_service_guard` | one writer, no snapshot of half a save, nobody waits |
| Refresh (`core/refresh.rs`) | the refresh schedule | `refresh`, `refresh_due`, `next_refresh_delay` | completed parts survive a failure, no refresh before its time |
| Timing (`core/timing.rs`) | cooldowns, the next request time | `reserve_zkill_request`, `merge_api_cooldowns` | requests are spaced across processes, cooldowns outlive them |
| Protection (`core/protection.rs`) | protected victims and killmails | set, add, remove | an edit takes effect on posts already confirmed |
| Characters (`core/characters.rs`) | characters and their tokens | authenticate, remove, migrate | a token is never lost between its two places |
| Persistence (`persistence/`) | state file, preferences, fallback credentials, keyring | load, save | a crash leaves a state some save wrote |
| ESI (`integrations/esi/`) | response cache, log of cooldowns | load killmails, affiliations, resolve victims | a cached body is what its validator says, failed characters keep their killmails, nothing enriched is lost |
| EVE sign-in (`integrations/auth.rs`) | the listener, the code | authenticate | it ends, and a cancelled one stores nothing |
| zKillboard client (`integrations/zkill.rs`, `http.rs`) | the log of cooldowns observed | page query, post | a post is never retried or redirected |
| Service (`cli/service.rs`) | the service lock | one loop | it refreshes eventually |
| Command line (`cli/`) | the prompt, the Ctrl-C flag | every operation of the core | nothing is done before its confirmation |
| GUI (`app/`) | a copy of the store, the active operation, the snapshot under way, dialogs | every operation of the core, one frame | the view catches up, operations end, nothing starts that may not |

The components meet in the store. Every operation takes an exclusive file lock
without waiting (a second process fails with `Busy`), loads the persisted store
into a working copy, changes the copy, and writes the whole copy back at each
`persist`. Whatever was not persisted when an operation returns or its process
dies is lost. The lock is *not* held while a user is asked to confirm a post, so
anything may happen between `prepare_post` and `post`. The two outside services
may be slow, answer from caches of any age, lose an answer after acting on the
request, and ask to be left alone for a while.

## Modules

| Module | Models | Uses |
| --- | --- | --- |
| `KillmailRules` | the store's fields that decide what may be posted (`models.rs`), protection, report state and pruning (`killmail.rs`), cooldowns (`timing.rs`) | |
| `StatusRules` | which lookups a status refresh makes and what an answer does (`status.rs`: `status_checks`, `apply_lookup`) | `KillmailRules` |
| `Posting` | processes, lock, working copy, prepare, refresh, post, edits, crashes, and zKillboard | `StatusRules` |
| `Submission` | the promise about submissions, abstractly | |
| `Credentials` | the three files of a save (`storage.rs`), the system credential store (`secrets.rs`), authenticate, remove and migrate (`characters.rs`), token rotation (`auth.rs`) | |
| `RefreshSchedule` | when a refresh begins (`refresh.rs`), what its end does to the schedule, cooldowns (`timing.rs`), snapshots against the lock (`store.rs`), the service loop (`service.rs`) | |
| `StatusLookup` | one lookup page by page (`status.rs` `lookup_status`), the validity of a page (`zkill.rs`), the cache of pages, the distance of requests (`timing.rs`) | `StatusRules` |
| `EsiClient` | one request to ESI with its cooldowns, budget and response cache (`client.rs`, `esi_cache.rs`, `http.rs`) | |
| `EsiLoad` | the load of killmails (`killmails.rs`, `esi/mod.rs`) in a refresh, and the other operations that ask ESI | `EsiClient` |
| `CharacterLists` | the promise about a load, abstractly | |
| `StoreLocks` | the two file locks (`storage.rs`) | |
| `SignIn` | the phases of a sign-in (`auth.rs`, `characters.rs`) | |
| `StoreOperations` | an operation as its callers see it: lock, outcome, first and last file of a save, result | `StoreLocks`, `SignIn` |
| `GuiOperations` | the interface with its frames and threads (`app/`), a command with its prompts (`cli/`), the service beside them | `StoreOperations` |
| `MCPosting`, `MCCredentials`, `MCRefreshSchedule`, `MCStatusLookup`, `MCEsiLoad`, `MCGuiOperations` | instances for TLC | the module each is named for |
| `PostingProofs`, `OutcomeProofs`, `PromiseProofs` | proofs | `Posting`, each the one before it |
| `CredentialsProofs`, `RefreshScheduleProofs`, `StatusLookupProofs`, `EsiLoadProofs`, `GuiOperationsProofs` | proofs | the module each is named for |

A component is modelled in detail once; where it meets others a coarser view of
it is enough. `Posting` has the posting in detail and lets a lookup answer
anything; `StatusLookup` has the lookup in detail and lets a submission only take
part in the spacing. `GuiOperations` composes the processes: there an operation is
one of the outcomes the detailed modules allow.

### How `Posting` corresponds to the code

`disk` is the state file, `holder` and `step` say which process runs an
operation and where in it the process is, `work` is `LockedStore.store`, `task`
holds the local variables of the operation, `prepared` the `PreparedPost` each
poster's user is looking at. `zkill` is what zKillboard has; `flight` holds the
killmails whose POST was sent and may still take effect. `stamp` (when a killmail
was last sent) and `told` (how long zKillboard asked to wait) are history: no
action reads them.

An operation is cut into steps exactly where something else can matter: at every
`persist`, every request, every place where a cancellation is noticed. One id of
a batch goes `next` (checks and reservation), `reserved` (second check, marker),
`marked` (marker durable, last cancellation point), `sent` (the request is out),
`record` (outcome to persist). A write either happens or, where `CanFailPersist`
allows, fails and ends the operation the way the code's `?` does. `Crash` may
interrupt at any step.

Abstractions, all on the side of more behaviours:
- a lookup (`lookup_status`) answers any part of what zKillboard has, complete or
  not, observed at any time up to now and valid for at most `MaxAge`: cached pages
  of any age, a truncated page list and a missing header are all such answers;
- a load returns any killmails that are not reported, for any authenticated
  characters, or fails;
- checks and the ids of a batch are taken in any order;
- the cooldowns of the different zKillboard scopes are their latest deadline,
  which is all `active_api_cooldown` looks at;
- when a refresh is due is left out: it may start whenever the lock is free.

The time of an absence (`at` of an `Unreported` status) is not stored by the
code. It is carried as history in the status itself, so that "newer than the
last POST" can be said of a status, and no guard reads it.

`Submission` says what this is for: evidence that zKillboard lacks a killmail is
durable and newer than its last POST; a POST uses up one confirmation and the
evidence, which has not expired, and gives the evidence up before it leaves.
`Posting` implements it with `evidence` read off `disk` and the clock, `armed` off the
step and `consent` off what is left of the prepared post. The clock may tick
between any two steps, so evidence that expires while a request waits for its turn is
part of it: without the second look at the permission (`posting.rs:138`) `race` fails.

### How `Credentials` corresponds to the code

`Posting` treats a save as one atomic write, which is what it is for the state
file. `Credentials` opens it up: `state`, `credentials` and `config` are the three
files, written one after the other by the steps of the same names, and `keyring`
is the system credential store. `work` is `LockedStore.store` again; `task.then`
says where the operation goes on after its save: an authentication offers the
token to the credential store, a removal deletes it there, a migration visits the
next character, a refresh loads with the next. A crash or a failed write may come
between any two of these steps. Operations are serialised by the store lock, so
there is one at a time; only the hand edit of the config file takes no lock.

Tokens are numbered in the order EVE hands them out, so "newer" means greater.
`received`, `kept` and `interrupted` are history: the last token an operation
accepted for a character, the last one that was made durable, and the characters
an operation was working on when it died or could not write. An edit of anything
else in the store is one save.

### How `RefreshSchedule` corresponds to the code

`Posting` lets a refresh begin at any time; `RefreshSchedule` says when it does.
`disk` holds the schedule of the persisted store, `work` the copy of whoever has
the lock, `step` where each process is. A service takes a snapshot, decides,
takes the lock and decides again (`due`, `dueRead`, `begin`, `run`), then takes
another snapshot to see how long it sleeps (`plan`, `planRead`, `wait`). A
snapshot shares its lock with other snapshots, so it is a step of its own that
makes others `Busy`. The interval is the one of the snapshot (`asked`), even if
the setting changed by the time the lock is taken. `Other` is every other
operation: it may change the interval, add or remove characters, observe a
cooldown.

Times are relative to now: the code compares them with the clock and nothing
else, so ages grow and delays shrink with `Tick` and the model has no clock to
bound. The cooldowns are their latest deadline, which is all `refresh_not_before`
looks at. `success` is `last_success_at`, which the code records and only
displays. The snapshot of the log line after a refresh (`report`) is left out: it
makes others `Busy` no longer than the one that follows. Nothing keeps two
services from running here; the service lock is in `GuiOperations`.
`told` is history.

### How `StatusLookup` corresponds to the code

One character in one role: other characters and roles have other cache keys.
`disk` and `work` are the persisted store and the copy of the operation that has
the lock, `step` is where in `lookup_status` it is, `look` what it gathered:
`reported`, `complete`, `observed` and `until` are the variables of the same
meaning in the code. zKillboard lists what it has and does not withhold, newest
first, `PageSize` to a page; it may get more between two pages (`Record`). An answer
was composed at any time up to `MaxAge` ago, by the site or by a proxy, and carries
the headers a proxy leaves it (`HeadersOf`), from which `ObservedAt` and
`ValidUntil` compute what `lookup_metadata` does. A request waits for the
reservation of the one before, makes its own and persists it before it leaves;
`writing` is how long that took, at most `SendDelay`. An operation may stop at
any step, by a crash, a failed write or a cancellation.

### How `EsiClient` and `EsiLoad` correspond to the code

ESI is only asked by operations that hold the store lock, so a request is one
step: `Get` is `fetch` (fresh from the cache, refused during a cooldown, sent,
revalidated by a 304, stored, or stale because of a failure), `Send` a request that
is not cached. `log` is the `ApiLog`: what ESI asked for and nobody drained yet.
`server` has the content of each URL as a version, `cache` the row of the table
with the version of its body and of its validator.

In `EsiLoad` `step` is the next request of the operation `op`, `todo` what is left
of the loop it is in; the lookup of a protected victim has its look at the cooldown
(`BeginResolve`, `protection.rs:37`) and its request (`ResolveVictim`) as steps of their own;
`lists`, `failed` and `mails` are the local variables of `load_killmails_at`, `view` is the persisted `cached_killmails`. An error is
fatal or not exactly where the code's `?` and `match` make it so. `stored`
is the longest persisted cooldown, `told` (history) the longest ESI asked for;
`lost` says that an operation that died or a cancelled sign-in dropped one.
`calm` is the point from which everything works; only liveness speaks of it.
Times are relative to now. `CharacterLists` is the promise: per character a list
of ESI as a whole or the old list as a whole, without what is reported.

### How `GuiOperations` and its parts correspond to the code

`gui` is the struct `App` with what is decided by: `active` and `job` are
`active_operation` and its thread, `peek` the thread of `request_snapshot_reload`,
`view` the copy of the store that is drawn, `shown` whether it says that the
service runs, `pending` and `removing` the two dialogs, `blocked`
`persistence_blocked`, `follow` `refresh_after_snapshot`, `changed` and `urlSent` the
messages that wait in its channels. A frame is `PollCore`, the
composition of the functions `PollEvents`, `PollUpdates`, `PollReload` and
`PollTimer` in the order of `poll_core`; each click is an action whose guard is
the condition the button is drawn enabled under. A click may come at any moment
between two frames, and what it uses is what was drawn.

`cli` is one command: its prompt (without the lock), its operation, or its
snapshot, and the exit code it ends with (`exit`): `ExitCode` turns a success into
130 when Ctrl-C was pressed in the meantime, as `cli/mod.rs:215` does. Here
Ctrl-C is modelled during a sign-in; what it does to a refresh, a prepare or a post
is in `Posting`, and of the other commands it changes only the exit code. `refresher`
is the service. They meet in `StoreLocks`: the operation lock,
exclusive for operations and shared for snapshots, and the service lock, which
a snapshot takes for a moment to see whether somebody has it. `StoreOperations` has
the one operation that holds the lock: `Begin` loads, `Work` and the steps of
`SignIn` reach an outcome, a save writes its first file with `EndWith` and its
last with `Persist`, `Release` gives the lock back. The outcomes per operation
(`Outcomes`) are what `Posting`, `EsiLoad` and `Credentials` allow. One
character, one killmail and one protected victim stand for all.

## Runs

| Run | Question | Instance |
| --- | --- | --- |
| `evidence` | Is an attempt ever forgotten, is a killmail wrongly reported, does a reported one come back? | one loss two characters sourced (so two lookups share it), clock to 3, every fault |
| `race` | Do two posters keep the promise of `Submission`? | two posters and a refresher, one killmail, every fault |
| `protection` | Does a late protection edit stop a confirmed post? | one kill of a corporation's member, all seven kinds of edit |
| `liveness` | Is the lock always released? | two killmails, failing writes, fair operations |
| `tokens` | Is a durable token ever lost or hidden, is the one in use always the last one? | two characters, four tokens, every operation and fault |
| `schedule` | Does no refresh begin too soon or during a cooldown, and does the service go on? | a service, a foreground refresh and another operation, two intervals, every fault |
| `lookup` | Is an absence recent and true, is an answer one that `Posting` allows, do requests keep their distance? | four killmails, two of them candidates, pages of one, at most three pages, answers up to 1 old |
| `load` | Does the cache serve what it says, is ESI left alone, is nothing enriched lost, are lists replaced whole, does a backlog load? | two characters who share a killmail, one gets a second list; unreadable bodies, crashes, sign-ins |
| `gui` | Do the interface, its threads and a command that share a store keep out of each other's way, and does a cancelled sign-in store nothing? | two stores to start from, two clicks, one command of four kinds, files that do not load |
| `settles` | Does every operation end, does the view catch up, is the refresh after a sign-in made? | a running service, two stores to start from, one of them with a fallback token, one click, one command |
| `absence` | a statement of a comment the code does not keep | one killmail of two characters, no faults |
| `cooldown` | a statement of a comment the code does not keep | a loss and a kill of one character, so a prepare makes two checks; no faults |

**Bounds.** The clock stops at `MaxTime`, so runs end and deadlock is not
checked. A forgotten attempt needs an observation, a later attempt and one more
lookup: three clock values, hence `MaxTime = 3` where time matters, with
`Window = 1` so that withheld killmails occur. `Edit` limits a run to the edits
it is about. One killmail is enough where the property speaks of one; `liveness`
has two, because a batch goes on after its first id. Two characters
make two checks for one killmail, the shape in which old pages meet new ones.
In `Credentials` two characters let a migration or a refresh stop halfway, and
four tokens are enough for each to get a first and a rotated one.
In `RefreshSchedule` a unit of time is a minute: the first backoff is 1, the
intervals are 2 and 3 instead of 5 or more, so that the third backoff already
reaches them, a cooldown may be 2, and the service sleeps between 1 and 2. Ages
beyond the longest interval (`MaxAge`) are not told apart by any comparison, nor
are failures beyond the third (`MaxFailures`) by their backoff; so neither bound
hides a behaviour.

In `StatusLookup` a page of one entry makes every killmail a page, so that an entry
moves to the next page whenever the list grows; three pages are one more than the
oldest candidate needs. Candidates 1 and 3 with 2 and 4 around them give a first,
a middle and a last place, and killmails 2 to 4 are of the same second. `QueryValidity`
is above `MaxAge`, as 3600 s are above the age of what a proxy serves. In
`EsiLoad` a rate budget of one detail makes two details exceed it, one version
more per list is an addition, and `MaxTtl` and `Wait` of 1 are "fresh" and "told to
wait". Only first lists may be stored with an expiry, the case in which an old
list meets a new one. In `GuiOperations` a hazard takes the operation that runs, a
click during it and one process beside it: two clicks and a command, or one click,
a service and a command for liveness, where more would not add an order of events
but only repeat one.

**Fairness.** `FairSpec` assumes that a running operation goes on. The code
justifies it: every request has a timeout of 30 s (`http.rs`), every loop runs
over a finite list, and locks are tried, never waited for. Nothing is assumed of
users, of other processes, or of zKillboard. In `RefreshSchedule` time passes, and
a service that may begin a refresh again and again does begin one, rather than
fail to write its attempt for ever. `ServiceRefreshes` supposes that nobody
interrupts the service and that others leave the store alone at last: locks are
tried, so a service that always finds the store busy never refreshes. Liveness
of `Posting` is checked without crashes
because the operating system releases the lock of a dead process. In `EsiLoad` a
request ends, time passes and a refresh is begun again, by the service or by whoever
uses the program; `BacklogLoads` supposes that failures end at last (`calm`). In
`GuiOperations` the window is drawn at least every two seconds
(`request_repaint_after`), threads and processes go on with what they have begun, and
a sign-in waits for its callback five minutes at most; nobody has to click, paste,
answer a prompt or give a command, and `CatchesUp` and `FollowUpRefreshes` suppose
that others stop writing, since a snapshot that is `Busy` is simply not taken.

### What the violation runs show

- `absence`: the comparison with `attempted_at` protects only while the marker is
  there. Once a newer absence replaced it and expired, an older cached page of
  another character that is still valid makes the killmail unreported again.
- `cooldown`: a prepare makes two checks; the first is told to wait, and the user
  cancels before the second (`status.rs:28`). The operation returns without a save and
  drops the cooldown. After the last check nothing looks for a cancellation any
  more, and the save at `posting.rs:41` keeps it.

Further disagreements the models show, which have no run of their own:

- `README.md:160` says that refreshes run at most every 5 minutes. The interval
  follows a success; after a failure the next refresh is due after the backoff, a
  minute at first (`refresh.rs:119`), and after one that was cancelled after a failure
  at once. `RefreshesSpaced` says what does hold.
- `README.md:27` says that removing a character removes its credentials. A
  character with a fallback token may also have an older one in the credential
  store (a rotation it refused, `auth.rs:116`); `characters.rs:115` does not delete that
  one and warns of nothing.
- `storage.rs:119` says that credentials are written first so that a state file never
  names a character without its fallback token. The order protects a token that is
  added; a removal drops the fallback first (`storage.rs:130`), so a crash leaves the
  character without a token, which the user has just asked for.
- `storage.rs:16` says that the config file is rewritten only when a setting changes.
  A save compares it with the settings its operation loaded (`storage.rs:145`), so
  it undoes a hand edit made in between.
- A lookup may call a killmail unreported that zKillboard had all along: when a
  cached page is older than the page in front of it, the killmail may have moved
  from the one to the other (`status.rs:178`), and a page that ends with an entry of
  the second of the oldest candidate counts as complete although the candidate may
  come first on the next (`status.rs:191`). `AbsenceTruthful` excepts just these two, with
  the history variables `ordered` and `boundary`; without either exception the run
  `lookup` fails, and with both the theorem `AbsencesAreTruthful` says that there is no third. The consequence is one superfluous submission.
- Any failed detail ends a load and drops the details it got (`killmails.rs:79`), and
  a low rate budget makes the next request fail (`client.rs:275`). A backlog that
  does not fit the budget therefore never loads, however often it is tried:
  `BacklogLoads` supposes that it fits.
- A body is cached before it is parsed (`client.rs:197`). One that cannot be read is
  revalidated until ESI has another version; `BacklogLoads` supposes there is none.
- A sign-in that is cancelled after its request drained the log drops the cooldown
  it observed (`characters.rs:48`), the way `cooldown` shows it for a prepare.
- `README.md:11` documents exit code 130 as cancelled. A command that succeeded
  ends with it whenever Ctrl-C was pressed before it ended (`cli/mod.rs:215`), so a
  sign-in interrupted after its last look (`characters.rs:48`) ends with 130
  although the character is stored. `exit` of `GuiOperations` reaches this;
  `CancelledInTime` and `CancelledStoresNothing` say what does hold, the one of a
  cancellation that the core still looks for, the other of what the core ends as
  cancelled, which is what the interface shows.
- A load that cannot have the market prices goes on without them (`killmails.rs:56`)
  and estimates every killmail anew (`killmails.rs:84`), so the value an earlier load
  estimated is gone until the prices are back. The models leave values out.

Three smaller things: a cancellation
right after the marker was persisted leaves `PostAttempted` for a killmail that was
never sent (the next lookup resolves it), a cancellation between two lookups
leaves the full record of a killmail found reported until the next complete round of
lookups, and after a cancelled refresh `next_eligible_at`, which `status` displays, is
now although `refresh_not_before` goes by the completion time and defers the next one.

## Proofs

All are for every value of the constants, from the assumptions named beside them
(absent ids are not ids, times are naturals, a fresh store has no statuses).
Every inductive invariant `IInv` has the type invariant `TypeOK` as a conjunct and is checked
by a run as well.

- `PostingProofs`: `TypeCorrect`, and the inductive invariant `IInv`, from which
  `AttemptNeverForgotten` follows. `AttemptRemembered` alone is not inductive: it
  needs that recorded attempts are not in the future (a later lookup could
  otherwise be compared with the wrong time), that lock and step agree, and that
  once a marker is written the disk and the working copy agree (`MarkedIsDurable`),
  or the crash between marker and POST would lose it. The argument per action is
  about the pair (status, last POST) of one killmail, stated once as `Coherent`.
- `OutcomeProofs`: `ReportsAreTrue` and the action property `ReportsAreFinal`.
- `PromiseProofs`: `ProtectionIsHonoured`, from an invariant about confirmations
  (`AnywayAsked`, `PreparesAfresh`, `PostsConfirmed`, `TurnIsDurable`), and
  `PromiseKept`, the refinement of `Submission`: the initial state
  maps to an initial state and each action to a step of it or a stutter.
- `CredentialsProofs`: `TokenNeverLost` and `TokenInUseIsNewest` from
  the inductive invariant `IInv` of `Credentials`. `TokenKept` speaks of the files
  alone; what a save is about to write must be known too: a token the working copy
  leaves to the credential store is there (`StoredIsKept`), only a removal drops a
  character (`DroppedIsGivenUp`), after the first file of a save the files and the
  working copy agree (`SavedIsKept`), and so they do whenever a token is about to
  move (`WorkIsSaved`). `TokenIsNewest` adds that what is kept was the last received,
  except for the one token a save is about to write (`NewestInv`). Operations that
  begin, end, or save again are one lemma each, once for either half.
- `RefreshScheduleProofs`: `Spacing` and `Cooling` for any processes, intervals,
  backoffs and cooldowns. Both look at the moment a refresh begins, where the
  schedule is that of the store. `IInv` explains why it says enough: the last
  completion is never older than the last success, and a row of failures began long
  after one (`Sound`), so neither a backoff nor a cancelled refresh opens a way
  around the interval; both copies of the store know every recorded cooldown.
  For the working copy this needs that operations exclude each other (`Exclusive`).
- `StatusLookupProofs`: `AbsencesAreRecent` and `RequestsAreSpaced` from the inductive
  invariant `IInv` of `StatusLookup`. An absence is as recent as what it was concluded
  from, so `Evidence` says of the cached pages, of what a lookup gathered and of the
  recorded absences alike that they are valid for at most `QueryValidity` after their
  observation; the minimum over pages keeps that (`GatheredIsRecent`). `Reservations`
  says that the persisted reservation reaches `Spacing` beyond the last one that was
  used: an operation that dies before its write has sent nothing, one that dies after it
  leaves the reservation to the others.

  `AbsencesAreTruthful` has an invariant of its own, `TruthInv`: every valid page is
  the page of a list zKillboard had (`Honest`); what a lookup missed is behind the pages
  it has seen (`Followed`), so a lookup that is complete missed nothing (`Concluded`);
  and no candidate has an absence on record that an operation which stops could bring
  back (`Outstanding`). The argument counts: a list only grows, so the place of a
  killmail in it never falls (`PlaceGrows`), places are taken once (`PlacesTaken`), so
  a page in front of a killmail is full (`FullPage`), and a lookup that stops in front of a
  candidate stops at its second (`StopsInFront`). It needs that killmails are finitely
  many and that ids grow with time (`OrderAssumption`): the code takes the last entry of
  a page to be the oldest, and zKillboard lists by id. `AnswersAreAllowed` says that
  what a lookup ends with is an answer `Posting` allows (what it reports is on
  zKillboard, its observation is past, its validity bounded), so what is proved of `Posting`
  with any answers holds with these; it rests on `Genuine`, that everything cached or
  gathered is of the past.
- `EsiLoadProofs`: `CacheIsTruthful`, `EsiIsLeftAlone` and the action property
  `EnrichmentIsKept` from the inductive invariant `IInv` of `EsiLoad`. `CacheTruthful` needs
  that a cached body is a version ESI has had (`CacheKnown`), or the next version could
  be one that is cached already. `EsiLeftAlone` needs to know where a cooldown is: in
  the store or in the log of the operation that heard of it (`CooldownsKnown`), and an
  operation that asks, for a protected victim too, began with none in the store. That nothing enriched is lost takes
  what the load has by each of its steps (`LoopsGoOn`, `ListsKnown`, `Enriched`): a load that
  reaches its save has every detail, and starts from the regions the store had.
  `LoadsReplaceWholeLists` is the refinement of `CharacterLists`: a save is `Load` with the
  characters whose request failed keeping their lists, a killmail reported
  and a list published are the steps of the same names, everything else is a stutter. A
  request is one lemma (`RequestKeeps`) for all steps that make one.
  Assumed: URLs, lists and systems are what they are called, and a refresh has a
  character (`CharAssumption`), since one without asks for nothing.
- `GuiOperationsProofs`: `SignInIsTidy`, `BlockedIsSafe`, `CancellationIsClean` and the
  action properties `CancellationsInTime`, `SnapshotsAreWhole` and
  `ProtectedPostsAreMeant` from the inductive invariant `IInv` of `GuiOperations`, for any stores, numbers of clicks and commands.
  `LocksExclude` says that no snapshot reads beside a writer, `WorkKnown` that an operation
  which may still be cancelled has written nothing. `DrawnKnown` follows the permission
  to post a protected killmail from the card over the check and the dialog to the operation:
  at each of the four places it is there only if the card was drawn as protected.
  `JobTidy` ties the thread to the interface that started it. What a frame does to the
  interface is a chain of four functions, so each has a lemma about what may follow from a
  good interface (`Follows`), and `FrameFollows` composes them as `poll_core` does.

Only model-checked: the liveness properties (`LockReleased`, `ServiceRefreshes`,
`BacklogLoads`, `OperationsEnd`, `CatchesUp`, `FollowUpRefreshes`), which are out of
the prover's reach because they rest on fairness. Every safety and action property of a
passing run is a theorem.

## Plan

Done: every component that decides something is modelled, and every safety property
is proved. Next: the arguments that are longest (`EsiLoadProofs`, `GuiOperationsProofs`)
in fewer steps, and more theorems that say how the coarse view of a component fits
the detailed one, as `AnswersAreAllowed` does for lookups: that an operation of
`GuiOperations` ends with an outcome the detailed modules allow.

## Not modelled

- Layout, texts and colours (`app/ui`, `cli/output.rs`, `cli/text.rs`), the
  activity log, completions and manual pages: they have no state a property could be
  about. The conditions under which a button is enabled are modelled.
- Images (`integrations/images.rs`, `persistence/image_cache.rs`, `app/worker.rs`):
  decoration that nothing else reads.
- The simulated backend (`integrations/simulation.rs`): a stand-in for the
  two services in development builds, with the in-memory persistence that goes with it.
- Cryptography and the building of requests: PKCE, the state parameter and the
  signature of a token are one check that passes or fails.
- Packaging and build files.
