------------------------------ MODULE EsiLoad ------------------------------
(***************************************************************************)
(* Loading killmails from ESI (src/src/integrations/esi/killmails.rs,      *)
(* mod.rs, universe.rs) as the operations that use ESI do it: a refresh    *)
(* (core/refresh.rs perform_refresh), a sign-in (core/characters.rs        *)
(* authenticate) and the lookup of a protected victim (core/protection.rs  *)
(* add_protected_victim).  Each holds the store lock, so one runs at a     *)
(* time and the step of that operation is the step of the system.          *)
(*                                                                         *)
(* Abstractions.  What ESI says of a character, a price and a name is not  *)
(* told apart, only whether the request succeeds.  All the killmails of a  *)
(* system share its lookup.  The hash of a killmail never changes.         *)
(***************************************************************************)
EXTENDS EsiClient, Sequences

CONSTANTS
  Char,         \* the authenticated characters
  Killmail,     \* killmail ids
  Lists,        \* [Char -> Seq(SUBSET Killmail)], the lists ESI will have in turn
  System,       \* solar systems
  SystemOf,     \* [Killmail -> System]
  Budget,       \* details ESI gives before its rate budget is low
  CanCrash,     \* whether a process may die, or fail to write the store
  CanSignIn     \* whether someone signs in

\* The URLs the operations ask for, the last two with a POST.
UrlOf(route, id) == <<route, id>>
CharacterUrls == {"info", "corporation", "recent"} \X Char
SystemUrls == {"system", "constellation", "region"} \X System
CachedUrls == CharacterUrls \cup SystemUrls \cup {<<"prices", "all">>}
Urls == CachedUrls \cup {"detail"} \X Killmail \cup {<<"names", "all">>, <<"ids", "all">>}

ASSUME UrlsAssumption == Url = Urls /\ Cached = CachedUrls
ASSUME ListsAssumption ==
  /\ Lists \in [Char -> Seq(SUBSET Killmail)]
  /\ \A c \in Char : Len(Lists[c]) \in 1 .. MaxVersion
\* A refresh without characters asks for nothing.
ASSUME CharAssumption == Char # {}
ASSUME SystemAssumption == SystemOf \in [Killmail -> System]
ASSUME BudgetAssumption == Budget \in Nat /\ {CanCrash, CanSignIn} \subseteq BOOLEAN

VARIABLES
  op,           \* the operation that holds the store lock
  step,         \* its next request
  todo,         \* what is left of the loop it is in
  lists,        \* what the load got: the list of each character
  failed,       \* character_failures
  mails,        \* what the load has made of the pending killmails
  view,         \* the persisted cached_killmails
  reported,     \* the killmails with the status Reported
  stored,       \* what is left of the longest persisted cooldown
  spent,        \* details asked for since ESI's budget was full
  \* history and environment
  told,         \* what is left of the longest cooldown ESI asked for
  lost,         \* a crash or a failed write lost what ESI asked for
  calm          \* from now on everything works

vars == <<server, cache, log, op, step, todo, lists, failed, mails, view, reported,
          stored, spent, told, lost, calm>>
loadVars == <<lists, failed, mails>>

Op == {"none", "refresh", "signIn", "resolve"}
Step == {"idle", "info", "corporation", "recent", "prices", "details",
         "system", "constellation", "region", "names", "save", "resolve", "end"}

\* The killmails in the cache have sources; which have their detail (every
\* loaded one, not those of a store written before details were kept) and which
\* of these a region.
View == [sources : [Killmail -> SUBSET Char], detailed : SUBSET Killmail, located : SUBSET Killmail]
CachedMails(v) == {m \in Killmail : v.sources[m] # {}}
NoMails == [detailed |-> {}, located |-> {}]

TypeOK ==
  /\ ClientTypeOK
  /\ op \in Op /\ step \in Step /\ (op = "none" <=> step = "idle")
  /\ todo \in (SUBSET Char) \cup (SUBSET Killmail) \cup (SUBSET System)
  /\ lists \in [Char -> SUBSET Killmail] /\ failed \in SUBSET Char
  /\ mails \in [detailed : SUBSET Killmail, located : SUBSET Killmail]
  /\ view \in View
  /\ view.located \subseteq view.detailed /\ view.detailed \subseteq CachedMails(view)
  /\ CachedMails(view) \cap reported = {}
  /\ reported \in SUBSET Killmail
  /\ stored \in Nat /\ spent \in Nat /\ told \in Nat
  /\ lost \in BOOLEAN /\ calm \in BOOLEAN

\* The first lists are loaded, from a store that has no details yet.
Init ==
  /\ ClientInit
  /\ op = "none" /\ step = "idle" /\ todo = {}
  /\ lists = [c \in Char |-> {}] /\ failed = {} /\ mails = NoMails
  /\ view = [sources |-> [m \in Killmail |-> {c \in Char : m \in Lists[c][1]}],
             detailed |-> {}, located |-> {}]
  /\ reported = {}
  /\ stored = 0 /\ spent = 0 /\ told = 0 /\ lost = FALSE /\ calm = FALSE

-----------------------------------------------------------------------------
(* The store lock and the loops *)

Goto(next, left) == step' = next /\ todo' = left
\* The loops go through the store's lists in order.
First(left) == CHOOSE x \in left : TRUE

Release ==
  /\ op' = "none" /\ Goto("idle", {})
  /\ lists' = [c \in Char |-> {}] /\ failed' = {} /\ mails' = NoMails

\* What ESI may answer to the request for u, and what it tells to wait.
Ask(u) ==
  LET entry == IF u \in Cached THEN cache[u] ELSE NoEntry
      waits == IF u[1] = "detail" /\ spent >= Budget THEN Wait \ {0}
               ELSE IF calm THEN {0} ELSE Wait
  IN  IF calm THEN GoodAnswers(u, entry, waits) ELSE Answers(u, entry, waits)

Request(u, r) ==
  /\ IF u \in Cached THEN Get(u, r, Ask(u)) ELSE Send(u, r, Ask(u))
  /\ told' = Longer(told, log')
  /\ UNCHANGED <<view, reported, stored, lost, calm>>

\* An error that aborts the load; the refresh records it and ends.
Abort == Goto("end", {}) /\ UNCHANGED loadVars

-----------------------------------------------------------------------------
(* perform_refresh asks for the affiliation of every character; no error of *)
(* refresh_character_affiliation is fatal to it.                            *)

\* The next character, or what follows the affiliations.
AfterAffiliation(left) ==
  IF left # {} THEN Goto("info", left)
  ELSE IF op = "refresh" THEN Goto("recent", Char) ELSE Goto("end", {})

CharacterInfo ==
  /\ step = "info"
  /\ \E r \in Result :
        /\ Request(UrlOf("info", First(todo)), r)
        /\ IF r.kind = "ok" THEN Goto("corporation", todo)
           ELSE AfterAffiliation(todo \ {First(todo)})
  /\ UNCHANGED <<op, loadVars, spent>>

CorporationName ==
  /\ step = "corporation"
  /\ \E r \in Result : Request(UrlOf("corporation", First(todo)), r)
  /\ AfterAffiliation(todo \ {First(todo)})
  /\ UNCHANGED <<op, loadVars, spent>>

-----------------------------------------------------------------------------
(* load_killmails_at *)

\* Mutated form of Pending: reported killmails are loaded like others.
PendingAll(ls) == {m \in Killmail : \E c \in Char : m \in ls[c]}

\* The killmails of the lists but those zKillboard reports.
Pending(ls) == {m \in Killmail \ reported : \E c \in Char : m \in ls[c]}

RecentKillmails ==
  LET c == First(todo)
      u == UrlOf("recent", c)
  IN  /\ step = "recent"
      /\ \E r \in Result :
            /\ \/ Request(u, r)
               \/ /\ ~calm /\ TokenFails(u, r)
                  /\ UNCHANGED <<view, reported, stored, told, lost, calm>>
            /\ \/ r.kind = "fatal" /\ Abort
               \/ /\ r.kind # "fatal"
                  /\ lists' = [lists EXCEPT ![c] = IF r.kind = "ok" THEN Lists[c][r.body] ELSE {}]
                  /\ failed' = IF r.kind = "ok" THEN failed ELSE failed \cup {c}
                  /\ IF todo # {c} THEN Goto("recent", todo \ {c})
                     ELSE Goto(IF Pending(lists') = {} THEN "save" ELSE "prices", {})
                  /\ UNCHANGED mails
      /\ UNCHANGED <<op, spent>>

\* Mutated form of NeedsDetail: the details of cached killmails are asked for again.
NeedsDetailAlways(pending) == pending

\* The pending killmails that are not in the cache with a detail.
NeedsDetail(pending) == pending \ view.detailed

\* The killmails whose system is looked up, or the names.
AfterDetails(located) ==
  LET left == Pending(lists) \ located
  IN  IF left = {} THEN Goto("names", {}) ELSE Goto("system", left)

MarketPrices ==
  /\ step = "prices"
  /\ \E r \in Result :
        /\ Request(UrlOf("prices", "all"), r)
        /\ \/ r.kind = "fatal" /\ Abort
           \/ LET needed == NeedsDetail(Pending(lists))
                  kept == Pending(lists) \ needed
              IN  /\ r.kind # "fatal"
                  /\ mails' = [detailed |-> kept, located |-> kept \cap view.located]
                  /\ IF needed = {} THEN AfterDetails(mails'.located) ELSE Goto("details", needed)
                  /\ UNCHANGED <<lists, failed>>
  /\ UNCHANGED <<op, spent>>

\* new_killmail, convert_detail: the killmail has its detail, but no region yet.
WithDetail(m) == [mails EXCEPT !.detailed = @ \cup {m}]

\* Any error of a detail request ends the load, with all it got so far.
KillmailDetail ==
  LET m == First(todo)
  IN  /\ step = "details"
      /\ spent' = IF log = 0 /\ spent < Budget THEN spent + 1 ELSE spent
      /\ \E r \in Result :
            /\ Request(UrlOf("detail", m), r)
            /\ \/ r.kind # "ok" /\ Abort
               \/ /\ r.kind = "ok"
                  /\ mails' = WithDetail(m)
                  /\ IF todo # {m} THEN Goto("details", todo \ {m}) ELSE AfterDetails(mails.located)
                  /\ UNCHANGED <<lists, failed>>
      /\ UNCHANGED op

-----------------------------------------------------------------------------
(* enrich_locations: the region of each killmail that has none, through its *)
(* system and constellation.  A system whose lookup failed is looked up     *)
(* again for the next killmail in it.                                       *)

AfterLocation(left) ==
  IF left = {} THEN Goto("names", {}) ELSE Goto("system", left)

Neighbours(m) == {n \in Killmail : SystemOf[n] = SystemOf[m]}

Locate(stage, next) ==
  LET m == First(todo)
  IN  /\ step = stage
      /\ \E r \in Result :
            /\ Request(UrlOf(stage, SystemOf[m]), r)
            /\ \/ r.kind = "fatal" /\ Abort
               \/ r.kind = "failed" /\ AfterLocation(todo \ {m}) /\ UNCHANGED loadVars
               \/ /\ r.kind = "ok"
                  /\ next # "located"
                  /\ Goto(next, todo)
                  /\ UNCHANGED loadVars
               \/ /\ r.kind = "ok"
                  /\ next = "located"
                  /\ mails' = [mails EXCEPT !.located = @ \cup (Neighbours(m) \cap Pending(lists))]
                  /\ AfterLocation(todo \ Neighbours(m))
                  /\ UNCHANGED <<lists, failed>>
      /\ UNCHANGED <<op, spent>>

SystemInfo == Locate("system", "constellation")
ConstellationInfo == Locate("constellation", "region")
RegionName == Locate("region", "located")

\* resolve_names; names that could not be had stay as they are.
ResolveNames ==
  /\ step = "names"
  /\ \E r \in Result :
        /\ Request(UrlOf("names", "all"), r)
        /\ IF r.kind = "fatal" THEN Abort ELSE Goto("save", {}) /\ UNCHANGED loadVars
  /\ UNCHANGED <<op, spent>>

-----------------------------------------------------------------------------
(* The end of a load *)

Fresh(m) == IF m \in reported THEN {} ELSE {c \in Char : m \in lists[c]}

\* Mutated form of Retained: what the failed characters had goes.
RetainedNothing(m) == {}

\* retain_failed_character_cache: the characters whose list could not be had
\* remain sources of what they were sources of.
Retained(m) == view.sources[m] \cap failed

\* The outcome of the load: what it got, and what is retained.
Loaded ==
  LET old == {m \in Killmail : Fresh(m) = {} /\ Retained(m) # {}}
  IN  [sources  |-> [m \in Killmail |-> Fresh(m) \cup Retained(m)],
       detailed |-> mails.detailed \cup (view.detailed \cap old),
       located  |-> mails.located \cup (view.located \cap old)]

\* The loaded killmails replace the cache, durably, unless the store cannot be
\* written.  The status refresh that follows is not part of this module.
SaveKillmails ==
  /\ step = "save"
  /\ \/ view' = Loaded
     \/ CanCrash /\ ~calm /\ UNCHANGED view
  /\ Goto("end", {})
  /\ UNCHANGED <<clientVars, op, loadVars, reported, stored, spent, told, lost, calm>>

\* check_cancelled in the loops: the refresh records it and ends.
Cancel ==
  /\ ~calm
  /\ op \in {"refresh", "signIn"}
  /\ step \notin {"save", "end"}
  /\ Goto("end", {})
  /\ UNCHANGED <<clientVars, op, loadVars, view, reported, stored, spent, told, lost, calm>>

-----------------------------------------------------------------------------
(* The operations around it *)

\* refresh_with_interval does not begin while a cooldown is in the store.
BeginRefresh ==
  /\ op = "none"
  /\ stored = 0
  /\ op' = "refresh" /\ Goto("info", Char)
  /\ spent' = 0
  /\ UNCHANGED <<clientVars, loadVars, view, reported, stored, told, lost, calm>>

\* authenticate leaves the affiliation out while a cooldown is in the store.
BeginSignIn ==
  /\ CanSignIn /\ ~calm
  /\ op = "none"
  /\ op' = "signIn"
  /\ IF stored = 0 THEN \E c \in Char : Goto("info", {c}) ELSE Goto("end", {})
  /\ UNCHANGED <<clientVars, loadVars, view, reported, stored, spent, told, lost, calm>>

\* Mutated form of BeginResolve: whatever cooldown is in the store.
BeginResolveAnyway ==
  /\ ~calm
  /\ op = "none"
  /\ op' = "resolve" /\ Goto("resolve", {})
  /\ UNCHANGED <<clientVars, loadVars, view, reported, stored, spent, told, lost, calm>>

\* add_protected_victim is refused while a cooldown is in the store.
BeginResolve ==
  /\ ~calm
  /\ op = "none"
  /\ stored = 0
  /\ op' = "resolve" /\ Goto("resolve", {})
  /\ UNCHANGED <<clientVars, loadVars, view, reported, stored, spent, told, lost, calm>>

\* It looks an id up, or a name.
VictimUrls == {"info", "corporation"} \X Char \cup {<<"ids", "all">>}
ResolveVictim ==
  /\ step = "resolve"
  /\ \E r \in Result, u \in VictimUrls : Request(u, r)
  /\ Goto("end", {})
  /\ UNCHANGED <<op, loadVars, spent>>

\* Mutated form of Absorbed: the log is drained and what was in it not kept.
AbsorbedNothing == stored

\* absorb_api_observations: the log is drained into the store.
Absorbed == Longer(stored, log)

Lose == lost' = (lost \/ told > stored)

\* Every operation absorbs the log and persists; a sign-in that was cancelled
\* meanwhile ends in between.
EndOperation ==
  /\ step = "end"
  /\ log' = 0
  /\ \/ stored' = Absorbed /\ UNCHANGED lost
     \/ /\ ~calm
        /\ CanCrash \/ op = "signIn"
        /\ UNCHANGED stored
        /\ Lose
  /\ Release
  /\ UNCHANGED <<server, cache, view, reported, spent, told, calm>>

Crash ==
  /\ CanCrash /\ ~calm
  /\ op # "none"
  /\ log' = 0
  /\ Lose
  /\ Release
  /\ UNCHANGED <<server, cache, view, reported, stored, spent, told, calm>>

\* A posting or a status refresh finds a killmail on zKillboard.
Report(m) ==
  /\ op = "none"
  /\ m \notin reported
  /\ reported' = reported \cup {m}
  /\ view' = [sources |-> [view.sources EXCEPT ![m] = {}],
              detailed |-> view.detailed \ {m}, located |-> view.located \ {m}]
  /\ UNCHANGED <<clientVars, op, step, todo, loadVars, stored, spent, told, lost, calm>>

-----------------------------------------------------------------------------
(* ESI and time *)

Publish(c) ==
  LET u == UrlOf("recent", c)
  IN  /\ ~calm
      /\ server[u] < Len(Lists[c])
      /\ server' = [server EXCEPT ![u] = @ + 1]
      /\ UNCHANGED <<cache, log, op, step, todo, loadVars, view, reported, stored, spent, told,
                     lost, calm>>

Tick ==
  /\ Elapse
  /\ stored' = Less(stored)
  /\ told' = Less(told)
  /\ lost' = (lost /\ told > 1)
  /\ UNCHANGED <<op, step, todo, loadVars, view, reported, spent, calm>>

\* From here on ESI answers, nobody interferes and nothing fails.
CalmDown ==
  /\ ~calm
  /\ calm' = TRUE
  /\ UNCHANGED <<clientVars, op, step, todo, loadVars, view, reported, stored, spent, told, lost>>

Proceed ==
  \/ CharacterInfo \/ CorporationName \/ RecentKillmails \/ MarketPrices \/ KillmailDetail
  \/ SystemInfo \/ ConstellationInfo \/ RegionName \/ ResolveNames
  \/ SaveKillmails \/ ResolveVictim \/ EndOperation

Next ==
  \/ Proceed \/ Cancel \/ Crash
  \/ BeginRefresh \/ BeginSignIn \/ BeginResolve
  \/ \E m \in Killmail : Report(m)
  \/ \E c \in Char : Publish(c)
  \/ Tick \/ CalmDown

Spec == Init /\ [][Next]_vars

\* Requests end, time passes, and a refresh is tried again and again: by the
\* service, or by whoever uses the program.
FairSpec == Spec /\ WF_vars(Proceed) /\ WF_vars(Tick) /\ WF_vars(BeginRefresh)

-----------------------------------------------------------------------------
(* Properties *)

\* A cached body is what its validator stands for, so a 304 never revives
\* another one (client.rs:144, esi_cache.rs:103), unless the body was
\* unreadable when it was stored.
CacheTruthful ==
  \A u \in Cached : cache[u].etag # Nothing => cache[u].body \in {cache[u].etag, Garbled}

\* An operation about to make a request, any but one that is over, and that has
\* seen no cooldown of its own would not be refused by the client: then ESI is not
\* waiting to be left alone, whichever operation it told so, unless that operation
\* died or was cancelled (client.rs:102, refresh.rs:71, characters.rs:33,
\* protection.rs:37).
EsiLeftAlone ==
  step \notin {"idle", "end"} /\ log = 0 => told = 0 \/ lost

\* The characters whose list the load has been given an answer about.
Loading == {"prices", "details", "system", "constellation", "region", "names", "save"}
Answered == IF step = "recent" THEN Char \ todo ELSE IF step \in Loading THEN Char ELSE {}
Published(c) == {Lists[c][v] : v \in 1 .. server[UrlOf("recent", c)]}

\* A loop has something left, of what it goes through.
LoopsGoOn ==
  /\ step \in {"info", "corporation", "recent"} => todo # {} /\ todo \subseteq Char
  /\ step \in {"details", "system", "constellation", "region"} =>
       todo # {} /\ todo \subseteq Pending(lists)

\* What ESI and the response cache have of each URL is a version it has had.
CacheKnown ==
  /\ \A c \in Char : server[UrlOf("recent", c)] <= Len(Lists[c])
  /\ \A u \in Cached : cache[u].body \in 1 .. server[u] \cup {Garbled, Nothing}

\* A list the load was answered is one ESI has had; the others are empty.
ListsKnown ==
  step # "end" =>
    \A c \in Char : IF c \in Answered \ failed THEN lists[c] \in Published(c) ELSE lists[c] = {}

\* What the load made of the pending killmails: all but those left in the loop
\* over the details have one, and no region that was known is missing.
Enriched ==
  /\ step \in {"idle", "info", "corporation", "recent"} => failed \subseteq Answered
  /\ step \in {"idle", "info", "corporation", "recent", "prices"} => mails = NoMails
  /\ step \in Loading \ {"prices"} =>
       /\ mails.detailed = Pending(lists) \ (IF step = "details" THEN todo ELSE {})
       /\ view.located \cap Pending(lists) \subseteq mails.located
       /\ mails.located \subseteq mails.detailed

\* What ESI asked for is in the store or in the log of the operation that runs,
\* and an operation that asks ESI began with none in the store.
CooldownsKnown ==
  /\ told <= stored \/ told <= log \/ lost
  /\ step \notin {"idle", "end"} => stored = 0

\* The inductive invariant: what the caches, the store, the log and the load under
\* way know of ESI's contents and cooldowns fits together at every step of every
\* operation (killmails.rs load_killmails_at, client.rs, timing.rs absorb).
IInv ==
  /\ TypeOK /\ CacheTruthful /\ CacheKnown /\ LoopsGoOn /\ ListsKnown /\ Enriched
  /\ CooldownsKnown

\* A killmail that stays in the cache keeps its detail and its region, however
\* the loads meanwhile end (killmails.rs:72, esi/mod.rs:54).
EnrichmentKept ==
  [][LET staying == CachedMails(view')
     IN  /\ view.detailed \cap staying \subseteq view'.detailed
         /\ view.located \cap staying \subseteq view'.located]_vars

\* Each character's list is replaced as a whole or kept as a whole, whatever
\* requests of the load fail (killmails.rs:134).
AbstractLists ==
  INSTANCE CharacterLists WITH
    published <- [c \in Char |-> Published(c)],
    list <- [c \in Char |-> {m \in Killmail : c \in view.sources[m]}]
ListsReplacedWhole == AbstractLists!Spec

\* Once everything works, a backlog of details that fits ESI's rate budget is
\* loaded: the cache becomes what ESI has, with details and regions.  It would
\* not if a body that cannot be read were cached (client.rs:197), nor if the
\* backlog did not fit (client.rs:275).
Current ==
  \A m \in Killmail :
    view.sources[m] = IF m \in reported THEN {}
                      ELSE {c \in Char : m \in Lists[c][server[UrlOf("recent", c)]]}
Listed == {m \in Killmail : \E c \in Char : m \in Lists[c][server[UrlOf("recent", c)]]}
Backlog == Listed \ (reported \cup view.detailed)
Readable == \A u \in Cached : cache[u].body # Garbled
BacklogLoads ==
  (calm /\ Readable /\ Cardinality(Backlog) <= Budget)
    ~> (Current /\ CachedMails(view) \subseteq view.located)
=============================================================================
