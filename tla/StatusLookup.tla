---------------------------- MODULE StatusLookup ----------------------------
(***************************************************************************)
(* Looking up what zKillboard lists of one character in one role           *)
(* (src/src/core/status.rs lookup_status, integrations/zkill.rs            *)
(* killmail_page), page by page, from a cache of pages and with requests   *)
(* that keep their distance (core/timing.rs reserve_zkill_request).        *)
(*                                                                         *)
(* Posting lets a lookup answer anything; here an answer is what zKillboard*)
(* listed when it composed the pages, so it can be asked whether what the  *)
(* lookup concludes is true.  Pages of other characters and roles have     *)
(* other cache keys and do not interfere.  Cooldowns are left to Posting:  *)
(* a lookup may fail before as well as after it sent its request.          *)
(***************************************************************************)
EXTENDS StatusRules

CONSTANTS
  Candidate,      \* the cached killmails of the character in the role
  Others,         \* killmails zKillboard has from the start
  PageSize,       \* zkill.rs KILLMAILS_PER_PAGE
  MaxPages,       \* status.rs MAX_ZKILL_STATUS_PAGES
  QueryValidity,  \* zkill.rs QUERY_VALIDITY_SECS
  Spacing,        \* Backend::request_spacing
  SendDelay,      \* the longest from a reservation to its request, the write included
  MaxAge,         \* the oldest answer a proxy of zKillboard gives
  MaxTime         \* bound of the clock

ASSUME IdsAssumption == Killmail \subseteq Nat /\ Candidate \subseteq Killmail /\ Others \subseteq Killmail
\* models.rs ZkillEntry: zKillboard lists by id, and ids grow with time, so the
\* last entry of a page is its oldest.
ASSUME OrderAssumption ==
  /\ IsFiniteSet(Killmail)
  /\ \A j, k \in Killmail : j <= k => KillTime[j] <= KillTime[k]
ASSUME PagesAssumption == {PageSize, MaxPages} \subseteq Nat \ {0}
ASSUME TimesAssumption ==
  {QueryValidity, Spacing, SendDelay, MaxAge, MaxTime} \subseteq Nat /\ Window + MaxAge <= MaxTime

VARIABLES
  now,        \* the clock of everyone
  recorded,   \* when zKillboard got each killmail
  disk,       \* the persisted part of the store
  work,       \* LockedStore.store of the operation that runs
  op,         \* the operation that holds the store lock
  step,       \* where it is
  asking,     \* the candidates of its lookup
  number,     \* page_number
  look,       \* what lookup_status gathered so far
  writing,    \* how long ago the reservation under way was made
  since       \* history: how long ago the last request that left was reserved

vars == <<now, recorded, disk, work, op, step, asking, number, look, writing, since>>

Time == 0 .. MaxTime
Never == MaxTime + 1
Pages == 1 .. MaxPages

(* models.rs ZkillPage; a page that is not cached is one that never was     *)
(* valid.                                                                   *)
NoPage == [entries |-> {}, observed |-> 0, until |-> 0]
Page == [entries : SUBSET Killmail, observed : Time, until : 0 .. MaxTime + QueryValidity]

\* ordered and boundary are history: whether each page was composed later
\* than the one before it, and whether the lookup ended with a page whose last
\* entry is of the second of the oldest candidate.
NoLook == [reported |-> {}, complete |-> FALSE, observed |-> Never,
           until |-> Never + QueryValidity, last |-> 0, ordered |-> TRUE, boundary |-> FALSE]

Step == {"idle", "page", "reserve", "writing", "send", "sent", "apply", "save"}

-----------------------------------------------------------------------------
(* zKillboard *)

\* What it lists at time o: what it has and does not withhold any more.
Listed(o) == {k \in Killmail : recorded[k] <= o /\ KillTime[k] + Window <= o}

\* The place of k in a list S that begins with the newest, and its n-th page.
Place(S, k) == Cardinality({j \in S : j >= k})
PageOf(S, n) == {k \in S : Place(S, k) \in (n - 1) * PageSize + 1 .. n * PageSize}
ListedPage(n, o) == PageOf(Listed(o), n)

\* Somebody else submits killmail k.
Record(k) ==
  /\ recorded[k] = Never
  /\ KillTime[k] <= now
  /\ recorded' = [recorded EXCEPT ![k] = now]
  /\ UNCHANGED <<now, disk, work, op, step, asking, number, look, writing, since>>

(* The headers of an answer composed at o: a proxy keeps the Date or, when  *)
(* it writes its own, adds the Age; either may be missing.                  *)
HeadersOf(o) ==
  {h \in [date : {o, now, Never}, age : {now - o, Never}, expires : {o + 1, o + QueryValidity + 1}] :
     h.date = now /\ o # now => h.age # Never}

\* lookup_metadata: an answer is as old as its Date or its Age says, and of no
\* known time without either.
ObservedAt(h) ==
  LET dated == IF h.date = Never THEN now ELSE h.date
      aged == IF h.age = Never THEN now ELSE now - h.age
  IN  IF h.date = Never /\ h.age = Never THEN 0 ELSE IF dated < aged THEN dated ELSE aged

\* Mutated form of ValidUntil: the answer says how long it is valid.
ValidAsTold(h) == IF h.date = Never /\ h.age = Never THEN 0 ELSE h.expires

ValidUntil(h) ==
  LET maximum == ObservedAt(h) + QueryValidity
  IN  IF h.date = Never /\ h.age = Never THEN 0
      ELSE IF h.expires < maximum THEN h.expires ELSE maximum

-----------------------------------------------------------------------------
(* Operations.  Each holds the store lock from Begin to End, so one runs at *)
(* a time whatever process it belongs to.                                   *)

End ==
  /\ op' = "none" /\ step' = "idle" /\ work' = disk'
  /\ asking' = {} /\ number' = 0 /\ look' = NoLook /\ writing' = 0

\* status_checks has the check only when it has candidates.
BeginLookup ==
  LET unknown == {m \in Candidate : ReportState(disk, m, now) = "Unknown"}
  IN  /\ op = "none"
      /\ unknown # {}
      /\ op' = "lookup" /\ step' = "page" /\ asking' = unknown /\ number' = 1
      /\ UNCHANGED <<now, recorded, disk, work, look, writing, since>>

\* A submission takes part in the spacing only; Posting has the rest of it.
BeginPost ==
  /\ op = "none"
  /\ op' = "post" /\ step' = "reserve"
  /\ UNCHANGED <<now, recorded, disk, work, asking, number, look, writing, since>>

OldestTime == CHOOSE t \in {KillTime[m] : m \in asking} : \A m \in asking : t <= KillTime[m]
LastTime(p) == CHOOSE t \in {KillTime[k] : k \in p.entries} : \A k \in p.entries : t <= KillTime[k]
Smaller(a, b) == IF a < b THEN a ELSE b

\* The list ends with this page or reaches back to the oldest candidate.
Covered(p) == \/ Cardinality(p.entries) < PageSize
              \/ LastTime(p) <= OldestTime

\* Mutated form of Gathered: the evidence is as new as the newest page.
GatheredNewest(p) ==
  [reported |-> look.reported \cup (p.entries \cap asking),
   complete |-> Covered(p),
   observed |-> p.observed,
   until |-> Smaller(look.until, p.until),
   last |-> p.observed,
   ordered |-> look.ordered /\ p.observed > look.last,
   boundary |-> Cardinality(p.entries) = PageSize /\ LastTime(p) = OldestTime]

\* What a lookup knows after page p: its evidence is as old as its oldest page
\* and valid as long as all of them.
Gathered(p) ==
  [reported |-> look.reported \cup (p.entries \cap asking),
   complete |-> Covered(p),
   observed |-> Smaller(look.observed, p.observed),
   until |-> Smaller(look.until, p.until),
   last |-> p.observed,
   ordered |-> look.ordered /\ p.observed > look.last,
   boundary |-> Cardinality(p.entries) = PageSize /\ LastTime(p) = OldestTime]

\* Mutated form of UsePage: one page more is asked for.
UsePageBeyond(p) ==
  /\ look' = Gathered(p)
  /\ IF Covered(p) \/ number > MaxPages
     THEN step' = "apply" /\ number' = number
     ELSE step' = "page" /\ number' = number + 1

UsePage(p) ==
  /\ look' = Gathered(p)
  /\ IF Covered(p) \/ number = MaxPages
     THEN step' = "apply" /\ number' = number
     ELSE step' = "page" /\ number' = number + 1

CachedPage ==
  /\ step = "page"
  /\ work.pages[number].until > now
  /\ UsePage(work.pages[number])
  /\ UNCHANGED <<now, recorded, disk, work, op, asking, writing, since>>

NoCachedPage ==
  /\ step = "page"
  /\ work.pages[number].until <= now
  /\ step' = IF Spacing = 0 THEN "send" ELSE "reserve"
  /\ UNCHANGED <<now, recorded, disk, work, op, asking, number, look, writing, since>>

\* reserve_zkill_request: wait until the last reservation is over, make the
\* next one, and persist it before the request may leave.
Reserve ==
  /\ step = "reserve"
  /\ work.next <= now
  /\ work' = [work EXCEPT !.next = now + Spacing]
  /\ step' = "writing"
  /\ UNCHANGED <<now, recorded, disk, op, asking, number, look, writing, since>>

\* Mutated form of Reserved: the reservation is persisted with the next save.
ReservedInMemory == UNCHANGED disk

Reserved == disk' = work

PersistReservation ==
  /\ step = "writing"
  /\ Reserved
  /\ step' = "send"
  /\ UNCHANGED <<now, recorded, work, op, asking, number, look, writing, since>>

Send ==
  /\ step = "send"
  /\ since' = Smaller(writing, Spacing) /\ writing' = 0
  /\ step' = "sent"
  /\ UNCHANGED <<now, recorded, disk, work, op, asking, number, look>>

\* killmail_page: an answer composed at o, by zKillboard or a proxy.
Answer(o, h) ==
  LET p == [entries |-> ListedPage(number, o), observed |-> ObservedAt(h), until |-> ValidUntil(h)]
  IN  /\ op = "lookup" /\ step = "sent"
      /\ work' = [work EXCEPT !.pages[number] = p]
      /\ UsePage(p)
      /\ UNCHANGED <<now, recorded, disk, op, asking, writing, since>>

\* A cooldown is active, or the request failed: the refresh goes on without the
\* lookup and saves what it has.  A submission ends with its answer.
Fails ==
  /\ \/ op = "lookup" /\ step \in {"page", "sent"}
     \/ op = "post" /\ step = "sent"
  /\ step' = "save"
  /\ UNCHANGED <<now, recorded, disk, work, op, asking, number, look, writing, since>>

\* apply_lookup.
Apply ==
  /\ step = "apply"
  /\ work' = ApplyLookup(work, asking, look, now)
  /\ step' = "save"
  /\ UNCHANGED <<now, recorded, disk, op, asking, number, look, writing, since>>

Save ==
  /\ step = "save"
  /\ disk' = work
  /\ End
  /\ UNCHANGED <<now, recorded, since>>

\* A crash, a write that fails or, where the code looks, a cancellation.
Stops ==
  /\ op # "none"
  /\ UNCHANGED disk
  /\ End
  /\ UNCHANGED <<now, recorded, since>>

\* At time t a page or an absence that expired is the same as none, and so is a
\* reservation that is over.
At(s, t) ==
  [status |-> [m \in Killmail |->
                 IF s.status[m].kind = "Unreported" /\ s.status[m].until <= t
                 THEN NoStatus ELSE s.status[m]],
   pages |-> [n \in Pages |-> IF s.pages[n].until <= t THEN NoPage ELSE s.pages[n]],
   next |-> IF s.next <= t THEN 0 ELSE s.next]

Tick ==
  LET leaving == step \in {"writing", "send"} IN
  /\ now < MaxTime
  /\ leaving => writing < SendDelay
  /\ now' = now + 1
  /\ disk' = At(disk, now') /\ work' = At(work, now')
  /\ writing' = IF leaving THEN writing + 1 ELSE 0
  /\ since' = Smaller(since + 1, Spacing)
  /\ UNCHANGED <<recorded, op, step, asking, number, look>>

-----------------------------------------------------------------------------
Init ==
  /\ now = Window + MaxAge
  /\ recorded = [k \in Killmail |-> IF k \in Others THEN 0 ELSE Never]
  /\ disk = [status |-> [m \in Killmail |-> NoStatus], pages |-> [n \in Pages |-> NoPage], next |-> 0]
  /\ work = disk
  /\ op = "none" /\ step = "idle" /\ asking = {} /\ number = 0 /\ look = NoLook
  /\ writing = 0 /\ since = Spacing

Next ==
  \/ \E k \in Killmail : Record(k)
  \/ BeginLookup \/ BeginPost
  \/ CachedPage \/ NoCachedPage
  \/ Reserve \/ PersistReservation \/ Send
  \/ \E o \in Time : now - MaxAge <= o /\ o <= now /\ \E h \in HeadersOf(o) : Answer(o, h)
  \/ Fails \/ Apply \/ Save \/ Stops \/ Tick

Spec == Init /\ [][Next]_vars

-----------------------------------------------------------------------------
StoreType == [status : [Killmail -> ZkillStatus], pages : [Pages -> Page], next : 0 .. MaxTime + Spacing]

\* The type of the state; the copy an operation works on is the persisted one
\* when none runs.
TypeOK ==
  /\ now \in Time /\ recorded \in [Killmail -> 0 .. Never]
  /\ disk \in StoreType /\ work \in StoreType
  /\ op \in {"none", "lookup", "post"} /\ step \in Step
  /\ op = "none" <=> step = "idle"
  /\ op = "none" => work = disk
  /\ asking \subseteq Candidate /\ number \in 0 .. MaxPages
  /\ writing \in 0 .. SendDelay /\ since \in 0 .. Spacing

\* The absence a lookup concludes was true when it was observed: zKillboard
\* did not have the killmail before that second, however the list moved between its pages and
\* however old the answers of proxies were.  Two cases are excepted, and in both
\* the code may be wrong: a cached page that was composed before the page in
\* front of it, and a last entry of the second of the oldest candidate
\* (status.rs lookup_status, apply_lookup; zkill.rs lookup_metadata).
AbsenceTruthful ==
  [][\A m \in Killmail :
       /\ work'.status[m] # work.status[m] /\ work'.status[m].kind = "Unreported"
       /\ op = "lookup" /\ look.ordered /\ ~look.boundary
       => recorded[m] >= look.observed]_vars

\* What an absence is concluded from is never valid for longer than it may be.
Recent(v) == v.until <= v.observed + QueryValidity
RecentStore(s) ==
  /\ \A n \in Pages : Recent(s.pages[n])
  /\ \A m \in Killmail :
        s.status[m].kind = "Unreported" => s.status[m].until <= s.status[m].at + QueryValidity
LookType == [reported : SUBSET Killmail, complete : BOOLEAN, observed : Nat, until : Nat,
             last : Nat, ordered : BOOLEAN, boundary : BOOLEAN]
Evidence ==
  /\ RecentStore(disk) /\ RecentStore(work)
  /\ look \in LookType /\ Recent(look)
  /\ op = "lookup" => number # 0
  /\ step = "page" => op = "lookup"

\* A reservation made `ago` that lasts until `next` is still held or over.
Holds(next, ago) == ago < Spacing => next + ago >= now + Spacing
Reservations ==
  /\ step # "writing" => work.next = disk.next
  /\ step = "writing" => Holds(work.next, writing)
  /\ step = "send" => Holds(disk.next, writing)
  /\ step \in {"writing", "send"} => since >= Spacing
  /\ Holds(disk.next, since)

\* The inductive invariant: no evidence outlives its validity, wherever it is on
\* its way to a status, and the persisted reservation reaches as far as the
\* last request that left, although it is made before it is persisted and used
\* after (timing.rs reserve_zkill_request, zkill.rs lookup_metadata).
IInv == TypeOK /\ Evidence /\ Reservations

\* What zKillboard may have listed at some moment of second o: a killmail it got
\* in that second may or may not be there yet.
Early(o) == {k \in Listed(o) : recorded[k] < o}
Lists(o) == {Early(o) \cup late : late \in SUBSET (Listed(o) \ Early(o))}

\* A valid page is a page of such a list.
Honest(n, p) ==
  p.until > 0 =>
    /\ Window <= p.observed /\ p.observed <= now
    /\ \E S \in Lists(p.observed) : p.entries = PageOf(S, n)

\* What is missing although zKillboard had it when the first page was composed.
Missed == (asking \ look.reported) \cap Early(look.observed)
Sound == look.until > 0 /\ look.ordered

\* While a lookup goes from page to page, what it missed is behind the pages it
\* has seen; when it is complete, it missed nothing.
Paging == {"page", "reserve", "writing", "send", "sent"}
Followed ==
  op = "lookup" /\ step \in Paging =>
    /\ number = 1 => look = NoLook
    /\ number > 1 /\ Sound =>
         /\ Window <= look.observed /\ look.observed <= look.last /\ look.last <= now
         /\ \E S \in Lists(look.last) :
              \A m \in Missed : Place(S, m) > (number - 1) * PageSize
Concluded ==
  step = "apply" /\ Sound /\ look.complete /\ ~look.boundary =>
    Window <= look.observed /\ look.observed <= now /\ Missed = {}

\* An absence on record counts, and no candidate of the lookup has one.
Outstanding ==
  /\ step # "save" => work.status = disk.status
  /\ \A m \in Killmail :
       /\ work.status[m].kind = "Unreported" => work.status[m].until > now
       /\ disk.status[m].kind = "Unreported" =>
            /\ disk.status[m].until > now
            /\ op = "lookup" => m \notin asking /\ work.status[m] = disk.status[m]
HonestPages == \A n \in Pages : \A s \in {work, disk} : Honest(n, s.pages[n])

\* The inductive invariant behind AbsenceTruthful: every page and everything
\* gathered from pages is about lists zKillboard had, which only grow
\* (status.rs lookup_status, zkill.rs killmail_page).
TruthInv ==
  /\ now >= Window + MaxAge
  /\ HonestPages
  /\ op = "none" => look = NoLook
  /\ Followed /\ Concluded /\ Outstanding

\* Pages and what was gathered from them are of the past.
Genuine ==
  /\ \A n \in Pages : \A s \in {work, disk} :
       s.pages[n].observed <= now /\ \A k \in s.pages[n].entries : recorded[k] <= now
  /\ step \in Paging \cup {"apply"} =>
       /\ look.reported \subseteq asking /\ \A m \in look.reported : recorded[m] <= now
       /\ (look = NoLook /\ step # "apply") \/ look.observed <= now

\* The answer of a lookup is one that Posting allows (its LookupAnswers and
\* LookupResult, with QueryValidity for MaxAge): whatever pages of whatever age it
\* was put together from, it reports what zKillboard has, and its
\* observation is past and its validity no longer than that of a query
\* (status.rs lookup_status, zkill.rs lookup_metadata).
AnswerAllowed ==
  step = "apply" =>
    /\ look.reported \subseteq {m \in asking : recorded[m] <= now}
    /\ look.observed <= now
    /\ look.until <= look.observed + QueryValidity

\* An absence that still counts was observed less than QueryValidity ago,
\* whatever zKillboard and its proxies say of the validity of their answers
\* and whatever pages of different ages a lookup combines (zkill.rs
\* lookup_metadata, status.rs lookup_status).
AbsenceRecent ==
  \A m \in Killmail :
    ReportState(disk, m, now) = "Unreported" => disk.status[m].at + QueryValidity > now

\* No request leaves sooner than Spacing after the one before it was reserved,
\* although operations crash or fail between reserving and sending: two requests
\* are closer only by what the first took from its reservation to its leaving
\* (timing.rs reserve_zkill_request; README.md:159 "spaced at least one second
\* apart across processes").
RequestsSpaced ==
  [][step = "send" /\ step' = "sent" => since >= Spacing]_vars
=============================================================================
