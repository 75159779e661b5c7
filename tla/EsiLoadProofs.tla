--------------------------- MODULE EsiLoadProofs ---------------------------
(***************************************************************************)
(* Proofs about EsiLoad and the client it asks ESI with: the inductive     *)
(* invariant, the response cache, the cooldowns, what a load does to the   *)
(* cached killmails, and that it implements CharacterLists, for any        *)
(* characters, killmails, lists, systems and answers of ESI.               *)
(***************************************************************************)
EXTENDS EsiLoad, TLAPS

Parameters ==
  /\ UrlAssumption /\ BoundAssumption /\ WaitAssumption /\ GarbleAssumption
  /\ UrlsAssumption /\ ListsAssumption /\ CharAssumption /\ SystemAssumption
  /\ BudgetAssumption

LEMMA ParametersHold == Parameters
BY UrlAssumption, BoundAssumption, WaitAssumption, GarbleAssumption, UrlsAssumption,
   ListsAssumption, CharAssumption, SystemAssumption, BudgetAssumption DEF Parameters

\* What is asked for is a URL, and the lists are cached ones.
LEMMA UrlsKnown ==
  /\ Cached \subseteq Url
  /\ \A c \in Char : UrlOf("recent", c) \in Cached
  /\ \A c \in Char, d \in Char : UrlOf("recent", c) = UrlOf("recent", d) => c = d
  /\ \A c \in Char : {UrlOf("info", c), UrlOf("corporation", c)} \subseteq Url
  /\ \A m \in Killmail : UrlOf("detail", m) \in Url
  /\ \A s \in {"system", "constellation", "region"}, m \in Killmail : UrlOf(s, SystemOf[m]) \in Url
  /\ {UrlOf("prices", "all"), UrlOf("names", "all"), UrlOf("ids", "all")} \subseteq Url
BY ParametersHold DEF Parameters, UrlAssumption, UrlsAssumption, SystemAssumption,
   Urls, CachedUrls, CharacterUrls, SystemUrls, UrlOf

-----------------------------------------------------------------------------
(* The response cache *)

\* A row of the table that is what ESI has had.
RowGood(u, e) ==
  /\ e \in Entry
  /\ e.etag # Nothing => e.body \in {e.etag, Garbled}
  /\ e.body \in 1 .. server[u] \cup {Garbled, Nothing}
CacheGood == cache \in [Cached -> Entry] /\ \A u \in Cached : RowGood(u, cache[u])

LEMMA VersionsApart ==
  /\ Garbled \notin Version /\ Nothing \notin Version /\ Garbled # Nothing
  /\ Version \subseteq Nat
BY ParametersHold DEF Parameters, BoundAssumption, Version, Garbled, Nothing

\* Whatever ESI answers is about the version it has.
LEMMA AnswersKnown ==
  ASSUME NEW u \in Url, NEW entry \in Entry, NEW waits \in SUBSET Wait, server \in [Url -> Version],
         NEW a \in Answers(u, entry, waits) \cup GoodAnswers(u, entry, waits)
  PROVE  /\ a.wait \in Nat /\ a.etag \in BOOLEAN /\ a.ttl \in 0 .. MaxTtl \cup {Nothing}
         /\ a.kind \in Kind
         /\ a.kind = "ok" => a.body \in {server[u], Garbled}
         /\ a.kind = "notModified" => entry.etag = server[u]
<1> USE ParametersHold DEF Parameters
<1>1. /\ Wait \subseteq Nat /\ 0 \in Wait /\ waits \subseteq Nat
  BY DEF WaitAssumption
<1>2. CASE a \in Bare({"none"}, {0}) \cup Bare({"limited", "serverError", "refused"}, waits)
  BY <1>1, <1>2 DEF Bare, Kind
<1>3. CASE a \in NotModified(u, entry, waits)
  BY <1>1, <1>3 DEF NotModified, Kind
<1>4. CASE a \in Content(u, waits)
  <2>1. /\ a.kind = "ok" /\ a.body \in {server[u], Garbled} /\ a.wait \in waits
        /\ a.etag \in BOOLEAN /\ a.ttl \in 0 .. MaxTtl \cup {Nothing}
    BY <1>4 DEF Content
  <2> QED
    BY <1>1, <2>1 DEF Kind
<1> QED
  BY <1>2, <1>3, <1>4 DEF Answers, GoodAnswers

\* An answer replaces the body together with its validator (client.rs fetch,
\* esi_cache.rs store).
LEMMA StoredGood ==
  ASSUME NEW u \in Cached, NEW e, server \in [Url -> Version], NEW a, MayStore(a),
         a.body \in {server[u], Garbled}, a.etag \in BOOLEAN, a.ttl \in 0 .. MaxTtl \cup {Nothing}
  PROVE  RowGood(u, Stored(u, e, a))
<1>1. server[u] \in Version /\ server[u] \in 1 .. server[u]
  BY UrlsKnown, VersionsApart DEF Version
<1>2. a.ttl \in 0 .. MaxTtl
  BY DEF MayStore
<1> QED
  BY <1>1, <1>2 DEF RowGood, Stored, Entry

LEMMA EmptyRowGood == ASSUME NEW u PROVE RowGood(u, NoEntry)
<1>1. 0 \in 0 .. MaxTtl
  BY ParametersHold DEF Parameters, BoundAssumption
<1> QED
  BY <1>1 DEF RowGood, NoEntry, Entry

\* The answer is written, and rows that are not used make room for it.
LEMMA StoreKeepsCache ==
  ASSUME CacheGood, server \in [Url -> Version], UNCHANGED server, NEW u \in Cached, NEW a, Store(u, a),
         a.body \in {server[u], Garbled}, a.etag \in BOOLEAN, a.ttl \in 0 .. MaxTtl \cup {Nothing}
  PROVE  CacheGood'
<1>1. CASE UNCHANGED cache
  BY <1>1 DEF CacheGood, RowGood
<1>2. CASE /\ MayStore(a)
           /\ \E dropped \in Dropped(u) :
                cache' = [v \in Cached |-> IF v = u THEN Stored(u, cache[u], a)
                                           ELSE IF v \in dropped THEN NoEntry ELSE cache[v]]
  <2>1. PICK dropped \in Dropped(u) :
          cache' = [v \in Cached |-> IF v = u THEN Stored(u, cache[u], a)
                                     ELSE IF v \in dropped THEN NoEntry ELSE cache[v]]
    BY <1>2
  <2>2. ASSUME NEW v \in Cached PROVE RowGood(v, cache'[v])
    <3>1. cache'[v] \in {NoEntry, cache[v]} \/ (v = u /\ cache'[v] = Stored(u, cache[u], a))
      BY <2>1
    <3>2. RowGood(u, Stored(u, cache[u], a))
      BY <1>2, StoredGood
    <3>3. RowGood(v, NoEntry) /\ RowGood(v, cache[v])
      BY EmptyRowGood DEF CacheGood
    <3> QED
      BY <3>1, <3>2, <3>3
  <2>3. cache' = [v \in Cached |-> cache'[v]]
    BY <2>1
  <2> QED
    BY <2>2, <2>3 DEF CacheGood, RowGood
<1> QED
  BY <1>1, <1>2 DEF Store

\* A 304 renews the row it was asked with (client.rs fetch, esi_cache.rs revalidate).
LEMMA RevalidateKeepsCache ==
  ASSUME CacheGood, server \in [Url -> Version], UNCHANGED server, NEW u \in Cached, NEW a, Revalidate(u, a),
         cache[u].etag = server[u], a.etag \in BOOLEAN, a.ttl \in 0 .. MaxTtl \cup {Nothing}
  PROVE  CacheGood'
<1>1. CASE UNCHANGED cache
  BY <1>1 DEF CacheGood, RowGood
<1>2. CASE /\ MayStore(a)
           /\ cache' = [cache EXCEPT ![u].ttl = a.ttl, ![u].etag = IF a.etag THEN server[u] ELSE @]
  <2>1. cache[u] \in Entry /\ a.ttl \in 0 .. MaxTtl
    BY <1>2 DEF CacheGood, MayStore
  <2>2. cache' = [cache EXCEPT ![u] = [body |-> cache[u].body, etag |-> server[u], ttl |-> a.ttl]]
    <3>1. (IF a.etag THEN server[u] ELSE cache[u].etag) = server[u]
      OBVIOUS
    <3>2. /\ cache' \in [Cached -> {cache'[v] : v \in Cached}]
          /\ \A v \in Cached \ {u} : cache'[v] = cache[v]
          /\ cache'[u] = [[cache[u] EXCEPT !.ttl = a.ttl] EXCEPT !.etag = server[u]]
      BY <1>2, <3>1 DEF CacheGood
    <3>3. cache'[u] = [body |-> cache[u].body, etag |-> server[u], ttl |-> a.ttl]
      BY <2>1, <3>2 DEF Entry
    <3> QED
      BY <3>2, <3>3 DEF CacheGood
  <2>3. server[u] \in Version /\ server[u] # Nothing /\ RowGood(u, cache[u])
    BY UrlsKnown, VersionsApart DEF CacheGood
  <2>4. RowGood(u, [body |-> cache[u].body, etag |-> server[u], ttl |-> a.ttl])
    BY <2>1, <2>3 DEF RowGood, Entry
  <2>5. ASSUME NEW v \in Cached PROVE RowGood(v, cache'[v])
    BY <2>2, <2>4 DEF CacheGood
  <2> QED
    BY <2>2, <2>5 DEF CacheGood, RowGood
<1> QED
  BY <1>1, <1>2 DEF Revalidate

-----------------------------------------------------------------------------
(* Requests *)

LEMMA LongerIs ==
  ASSUME NEW a \in Nat, NEW b \in Nat
  PROVE  Longer(a, b) \in Nat /\ Longer(a, b) \in {a, b} /\ Longer(a, b) >= a /\ Longer(a, b) >= b
BY DEF Longer

\* What is kept of ESI's state while a request is made.
ClientGood == server \in [Url -> Version] /\ CacheGood /\ log \in Nat
LEMMA ClientGoodIs == ClientGood <=> ClientTypeOK /\ CacheTruthful /\
                                     \A u \in Cached : cache[u].body \in 1 .. server[u] \cup {Garbled, Nothing}
BY DEF ClientGood, ClientTypeOK, CacheTruthful, CacheGood, RowGood

\* A request leaves the contents of ESI alone, keeps the cache true, and its
\* answer is a version ESI has had (client.rs fetch, post).
LEMMA RequestKeeps ==
  ASSUME ClientGood, NEW u \in Url, NEW r \in Result, told \in Nat, stored \in Nat, Request(u, r)
  PROVE  /\ UNCHANGED <<server, view, reported, stored, lost, calm>>
         /\ ClientGood'
         /\ u \in Cached /\ r.kind = "ok" => r.body \in 1 .. server[u]
         /\ told' \in Nat
         /\ told <= stored \/ told <= log \/ lost => told' <= stored \/ told' <= log' \/ lost
<1> DEFINE entry == IF u \in Cached THEN cache[u] ELSE NoEntry
           waits == IF u[1] = "detail" /\ spent >= Budget THEN Wait \ {0}
                    ELSE IF calm THEN {0} ELSE Wait
<1>1. entry \in Entry /\ waits \in SUBSET Wait
  <2>1. NoEntry \in Entry
    BY EmptyRowGood DEF RowGood
  <2>2. 0 \in Wait
    BY ParametersHold DEF Parameters, WaitAssumption
  <2> QED
    BY <2>1, <2>2 DEF ClientGood, CacheGood
<1>2. Ask(u) \subseteq Answers(u, entry, waits) \cup GoodAnswers(u, entry, waits)
  BY DEF Ask
<1> HIDE DEF entry, waits
<1>3. ASSUME NEW a \in Ask(u)
      PROVE  /\ a.wait \in Nat /\ a.etag \in BOOLEAN /\ a.ttl \in 0 .. MaxTtl \cup {Nothing}
             /\ a.kind \in Kind
             /\ a.kind = "ok" => a.body \in {server[u], Garbled}
             /\ a.kind = "notModified" => entry.etag = server[u]
  BY <1>1, <1>2, <1>3, AnswersKnown DEF ClientGood
<1>4. UNCHANGED <<server, view, reported, stored, lost, calm>> /\ told' = Longer(told, log')
  BY DEF Request, Get, Send, Refuse, clientVars
<1>5. log' \in Nat /\ log' >= log
  <2>1. CASE UNCHANGED log
    BY <2>1 DEF ClientGood
  <2>2. CASE \E a \in Ask(u) : Observe(a)
    <3>1. PICK a \in Ask(u) : Observe(a)
      BY <2>2
    <3> QED
      BY <3>1, <1>3, LongerIs DEF Observe, ClientGood
  <2> QED
    BY <2>1, <2>2 DEF Request, Get, Send, Refuse, clientVars
<1>6. CacheGood' /\ (u \in Cached /\ r.kind = "ok" => r.body \in 1 .. server[u])
  <2>1. CASE u \notin Cached
    <3>1. UNCHANGED <<server, cache>>
      BY <2>1 DEF Request, Send, Refuse, clientVars
    <3> QED
      BY <2>1, <3>1 DEF ClientGood, CacheGood, RowGood
  <2>2. CASE u \in Cached
    <3>1. Get(u, r, Ask(u))
      BY <2>2 DEF Request
    <3>2. /\ cache[u].body \in 1 .. server[u] \cup {Garbled, Nothing} /\ server[u] \in 1 .. server[u]
          /\ entry = cache[u]
      BY <2>2, UrlsKnown, VersionsApart DEF ClientGood, CacheGood, RowGood, Version, entry
    <3>3. ASSUME NEW body \in 1 .. server[u] \cup {Garbled, Nothing}, r = Parsed(body), r.kind = "ok"
          PROVE  r.body \in 1 .. server[u]
      BY <3>3, VersionsApart DEF Parsed, Failed, Result, Garbled, Nothing, Version
    <3>4. CASE Refuse(r)
      BY <3>4, <1>4 DEF Refuse, Fatal, clientVars, ClientGood, CacheGood, RowGood
    <3>5. CASE r = Parsed(cache[u].body) /\ UNCHANGED clientVars
      BY <3>5, <3>2, <3>3 DEF clientVars, ClientGood, CacheGood, RowGood
    <3>6. CASE \E a \in Ask(u) :
                  /\ r = Served(cache[u], a)
                  /\ Observe(a)
                  /\ \/ a.kind = "ok" /\ Store(u, a)
                     \/ a.kind = "notModified" /\ Revalidate(u, a)
                     \/ a.kind \notin {"ok", "notModified"} /\ UNCHANGED cache
      <4>1. PICK a \in Ask(u) :
                  /\ r = Served(cache[u], a)
                  /\ \/ a.kind = "ok" /\ Store(u, a)
                     \/ a.kind = "notModified" /\ Revalidate(u, a)
                     \/ a.kind \notin {"ok", "notModified"} /\ UNCHANGED cache
        BY <3>6
      <4>2. CacheGood'
        <5>1. CASE a.kind = "ok" /\ Store(u, a)
          BY <5>1, <1>3, <1>4, <2>2, StoreKeepsCache DEF ClientGood
        <5>2. CASE a.kind = "notModified" /\ Revalidate(u, a)
          BY <5>2, <1>3, <1>4, <2>2, <3>2, RevalidateKeepsCache DEF ClientGood
        <5>3. CASE UNCHANGED cache
          BY <5>3, <1>4 DEF ClientGood, CacheGood, RowGood
        <5> QED
          BY <4>1, <5>1, <5>2, <5>3
      <4>3. CASE r = Parsed(cache[u].body)
        BY <4>2, <4>3, <3>2, <3>3
      <4>4. CASE r = Plain(a)
        <5>1. CASE a.kind = "ok"
          <6>1. r = Parsed(a.body) /\ a.body \in 1 .. server[u] \cup {Garbled, Nothing}
            BY <5>1, <4>4, <1>3, <3>2 DEF Plain
          <6> QED
            BY <6>1, <4>2, <3>3
        <5>2. CASE a.kind # "ok"
          <6>1. r \in {Fatal, Failed}
            BY <5>2, <4>4, <1>3 DEF Plain, Kind
          <6> QED
            BY <6>1, <4>2 DEF Fatal, Failed
        <5> QED
          BY <5>1, <5>2
      <4> QED
        BY <4>1, <4>3, <4>4 DEF Served
    <3> QED
      BY <3>1, <3>4, <3>5, <3>6 DEF Get
  <2> QED
    BY <2>1, <2>2
<1>7. /\ told' \in Nat
      /\ told <= stored \/ told <= log \/ lost => told' <= stored \/ told' <= log' \/ lost
  <2>1. told' \in {told, log'} /\ log \in Nat /\ UNCHANGED <<stored, lost>>
    BY <1>4, <1>5, LongerIs DEF ClientGood
  <2> QED
    BY <1>5, <2>1
<1> QED
  BY <1>4, <1>5, <1>6, <1>7 DEF ClientGood

-----------------------------------------------------------------------------
(* The parts of the invariant *)

LoadTypes ==
  /\ op \in Op /\ step \in Step /\ (op = "none" <=> step = "idle")
  /\ todo \in (SUBSET Char) \cup (SUBSET Killmail) \cup (SUBSET System)
  /\ lists \in [Char -> SUBSET Killmail] /\ failed \in SUBSET Char
  /\ mails \in [detailed : SUBSET Killmail, located : SUBSET Killmail]
  /\ spent \in Nat

\* What the load under way knows.
LoadGood == LoadTypes /\ LoopsGoOn /\ ListsKnown /\ Enriched

ViewTypes ==
  /\ view \in View
  /\ view.located \subseteq view.detailed /\ view.detailed \subseteq CachedMails(view)
  /\ CachedMails(view) \cap reported = {}
  /\ reported \in SUBSET Killmail

\* What outlives an operation.
SharedGood ==
  /\ ClientGood /\ ViewTypes
  /\ \A c \in Char : server[UrlOf("recent", c)] <= Len(Lists[c])
  /\ stored \in Nat /\ told \in Nat /\ lost \in BOOLEAN /\ calm \in BOOLEAN
  /\ told <= stored \/ told <= log \/ lost

NoneStored == step \notin {"idle", "end"} => stored = 0

LEMMA IInvIs == IInv <=> SharedGood /\ LoadGood /\ NoneStored
BY ClientGoodIs DEF IInv, TypeOK, CacheKnown, CooldownsKnown, SharedGood, LoadGood, LoadTypes,
   ViewTypes, NoneStored

LEMMA NextIInvIs == IInv' <=> SharedGood' /\ LoadGood' /\ NoneStored'
BY IInvIs, PTL

LEMMA FirstIn == ASSUME NEW left, left # {} PROVE First(left) \in left
BY DEF First

\* A request in an operation leaves what outlives it sound (client.rs fetch, post).
LEMMA RequestShared ==
  ASSUME IInv, NEW u \in Url, NEW r \in Result, Request(u, r)
  PROVE  /\ SharedGood'
         /\ UNCHANGED <<server, view, reported, stored>>
         /\ u \in Cached /\ r.kind = "ok" => r.body \in 1 .. server[u]
<1>1. SharedGood
  BY IInvIs
<1>2. /\ UNCHANGED <<server, view, reported, stored, lost, calm>>
      /\ ClientGood' /\ told' \in Nat
      /\ u \in Cached /\ r.kind = "ok" => r.body \in 1 .. server[u]
      /\ told' <= stored \/ told' <= log' \/ lost
  BY <1>1, RequestKeeps DEF SharedGood
<1>3. ViewTypes'
  BY <1>1, <1>2 DEF SharedGood, ViewTypes, CachedMails
<1> QED
  BY <1>1, <1>2, <1>3 DEF SharedGood

\* A load that ends leaves nothing to know.
LEMMA AbortGood ==
  ASSUME LoadGood, step # "idle", Abort, UNCHANGED <<op, spent>>
  PROVE  LoadGood' /\ NoneStored'
<1>1. LoadTypes'
  BY DEF LoadGood, LoadTypes, Abort, Goto, loadVars, Step
<1>2. LoopsGoOn' /\ ListsKnown' /\ Enriched' /\ NoneStored'
  BY DEF Abort, Goto, LoopsGoOn, ListsKnown, Enriched, Loading, NoneStored
<1> QED
  BY <1>1, <1>2 DEF LoadGood

-----------------------------------------------------------------------------
(* The requests of a load *)

\* After the affiliations the lists are asked for, or the sign-in ends
\* (refresh.rs perform_refresh).
LEMMA AfterAffiliationGood ==
  ASSUME LoadGood, op # "none", step \in {"info", "corporation"}, NEW left \in SUBSET Char,
         AfterAffiliation(left), UNCHANGED <<op, loadVars, spent, server, view, reported>>
  PROVE  LoadGood' /\ step' \in {"info", "recent", "end"}
<1>1. /\ step' \in {"info", "recent", "end"} /\ todo' \in SUBSET Char
      /\ step' \in {"info", "recent"} => todo' # {}
      /\ step' = "recent" => todo' = Char
  BY ParametersHold DEF AfterAffiliation, Goto, Parameters, CharAssumption
<1>2. LoadTypes'
  BY <1>1 DEF LoadGood, LoadTypes, loadVars, Step
<1>3. LoopsGoOn'
  BY <1>1 DEF LoopsGoOn
<1>4. Answered = {} /\ (step' # "end" => Answered' = {})
  BY <1>1 DEF Answered, Loading
<1>5. ListsKnown'
  BY <1>1, <1>4 DEF LoadGood, ListsKnown, loadVars
<1>6. Enriched'
  BY <1>1, <1>4 DEF LoadGood, Enriched, loadVars, Loading
<1> QED
  BY <1>1, <1>2, <1>3, <1>5, <1>6 DEF LoadGood

LEMMA AffiliationKeeps ==
  ASSUME IInv, CharacterInfo \/ CorporationName
  PROVE  IInv'
<1>1. /\ LoadGood /\ NoneStored /\ stored = 0 /\ step \in {"info", "corporation"}
      /\ op # "none" /\ todo # {} /\ todo \subseteq Char /\ First(todo) \in Char
  BY IInvIs, FirstIn DEF CharacterInfo, CorporationName, NoneStored, LoadGood, LoadTypes, LoopsGoOn
<1>2. SharedGood' /\ UNCHANGED <<server, view, reported, stored>>
  BY <1>1, UrlsKnown, RequestShared DEF CharacterInfo, CorporationName
<1>3. UNCHANGED <<op, loadVars, spent>>
  BY DEF CharacterInfo, CorporationName
<1>4. CASE AfterAffiliation(todo \ {First(todo)})
  <2>1. LoadGood'
    BY <1>1, <1>2, <1>3, <1>4, AfterAffiliationGood
  <2> QED
    BY <1>1, <1>2, <2>1, NextIInvIs DEF NoneStored
<1>5. CASE Goto("corporation", todo) /\ step = "info"
  <2>1. step' = "corporation" /\ todo' = todo
    BY <1>5 DEF Goto
  <2>2. LoadTypes' /\ LoopsGoOn'
    BY <1>1, <1>3, <2>1 DEF LoadGood, LoadTypes, loadVars, Step, LoopsGoOn
  <2>3. Answered = {} /\ Answered' = {}
    BY <1>5, <2>1 DEF Answered, Loading
  <2>4. ListsKnown' /\ Enriched'
    BY <1>1, <1>3, <1>5, <2>1, <2>3 DEF LoadGood, ListsKnown, Enriched, loadVars, Loading
  <2> QED
    BY <1>1, <1>2, <2>2, <2>4, NextIInvIs DEF LoadGood, NoneStored
<1> QED
  BY <1>4, <1>5 DEF CharacterInfo, CorporationName

\* The list of the next character is one ESI has had, or the character counts as
\* failed (killmails.rs load_killmails_at).
LEMMA RecentKeeps ==
  ASSUME IInv, RecentKillmails
  PROVE  IInv'
<1> DEFINE c == First(todo)
           u == UrlOf("recent", c)
<1>1. /\ LoadGood /\ NoneStored /\ SharedGood /\ stored = 0 /\ step = "recent" /\ op # "none"
      /\ todo # {} /\ todo \subseteq Char /\ c \in todo
  BY IInvIs, FirstIn DEF RecentKillmails, NoneStored, LoadGood, LoadTypes, LoopsGoOn
<1>2. u \in Cached /\ u \in Url
  BY <1>1, UrlsKnown
<1> HIDE DEF u
<1>3. PICK r \in Result :
        /\ \/ Request(u, r)
           \/ TokenFails(u, r) /\ UNCHANGED <<view, reported, stored, told, lost, calm>>
        /\ \/ r.kind = "fatal" /\ Abort
           \/ /\ r.kind # "fatal"
              /\ lists' = [lists EXCEPT ![c] = IF r.kind = "ok" THEN Lists[c][r.body] ELSE {}]
              /\ failed' = IF r.kind = "ok" THEN failed ELSE failed \cup {c}
              /\ IF todo # {c} THEN Goto("recent", todo \ {c})
                 ELSE Goto(IF Pending(lists') = {} THEN "save" ELSE "prices", {})
              /\ UNCHANGED mails
  BY DEF RecentKillmails, u
<1>4. /\ SharedGood' /\ UNCHANGED <<server, view, reported, stored>>
      /\ r.kind = "ok" => r.body \in 1 .. server[u]
  <2>1. CASE Request(u, r)
    BY <1>2, <2>1, RequestShared
  <2>2. CASE TokenFails(u, r) /\ UNCHANGED <<view, reported, stored, told, lost, calm>>
    <3>1. UNCHANGED <<server, cache, log, view, reported, stored, told, lost, calm>> /\ r.kind # "ok"
      BY <2>2 DEF TokenFails, clientVars, Failed, Fatal
    <3> QED
      BY <1>1, <3>1 DEF SharedGood, ClientGood, CacheGood, RowGood, ViewTypes, CachedMails
  <2> QED
    BY <1>3, <2>1, <2>2
<1>5. UNCHANGED <<op, spent>>
  BY DEF RecentKillmails
<1>6. CASE Abort
  BY <1>1, <1>4, <1>5, <1>6, AbortGood, NextIInvIs
<1>7. CASE /\ r.kind # "fatal"
           /\ lists' = [lists EXCEPT ![c] = IF r.kind = "ok" THEN Lists[c][r.body] ELSE {}]
           /\ failed' = IF r.kind = "ok" THEN failed ELSE failed \cup {c}
           /\ IF todo # {c} THEN Goto("recent", todo \ {c})
              ELSE Goto(IF Pending(lists') = {} THEN "save" ELSE "prices", {})
           /\ UNCHANGED mails
  <2>1. r.kind = "ok" => Lists[c][r.body] \in SUBSET Killmail /\ Lists[c][r.body] \in Published(c)
    <3>1. ASSUME r.kind = "ok" PROVE r.body \in 1 .. server[u] /\ server[u] <= Len(Lists[c])
      BY <1>1, <1>4, <3>1 DEF SharedGood, u
    <3>2. Lists[c] \in Seq(SUBSET Killmail)
      BY <1>1, ParametersHold DEF Parameters, ListsAssumption
    <3>3. server[u] \in Nat
      BY <1>1, <1>2, VersionsApart DEF SharedGood, ClientGood
    <3> QED
      BY <3>1, <3>2, <3>3 DEF Published, u
  <2>2. \/ step' = "recent" /\ todo' = todo \ {c} /\ todo' # {}
        \/ /\ todo = {c} /\ todo' = {}
           /\ step' \in {"save", "prices"} /\ (step' = "save" => Pending(lists') = {})
    BY <1>1, <1>7 DEF Goto
  <2>3. Answered' = Answered \cup {c} /\ c \notin Answered /\ Answered = Char \ todo
    BY <1>1, <2>2 DEF Answered, Loading
  <2>4. failed \subseteq Answered
    BY <1>1 DEF LoadGood, Enriched
  <2>5. LoadTypes'
    BY <1>1, <1>5, <1>7, <2>1, <2>2 DEF LoadGood, LoadTypes, Step
  <2>6. LoopsGoOn'
    BY <1>1, <2>2 DEF LoopsGoOn
  <2>7. ListsKnown'
    <3>1. SUFFICES ASSUME NEW d \in Char
                   PROVE  IF d \in Answered' \ failed' THEN lists'[d] \in Published(d)
                                                       ELSE lists'[d] = {}
      BY <1>4 DEF ListsKnown, Published
    <3>2. lists \in [Char -> SUBSET Killmail] /\ c \in Char
      BY <1>1 DEF LoadGood, LoadTypes
    <3>3. CASE d = c
      BY <1>7, <2>1, <2>3, <2>4, <3>2, <3>3
    <3>4. CASE d # c
      <4>1. lists'[d] = lists[d] /\ (d \in Answered' \ failed' <=> d \in Answered \ failed)
        BY <1>7, <2>3, <3>2, <3>4
      <4> QED
        BY <1>1, <4>1 DEF LoadGood, ListsKnown
    <3> QED
      BY <3>3, <3>4
  <2>8. Enriched'
    <3>1. mails' = NoMails /\ Pending(lists)' = Pending(lists')
      BY <1>1, <1>4, <1>7 DEF LoadGood, Enriched, Pending
    <3>2. failed' \subseteq Answered'
      BY <1>7, <2>3, <2>4
    <3> QED
      BY <2>2, <3>1, <3>2 DEF Enriched, Loading, NoMails
  <2> QED
    BY <1>1, <1>4, <2>5, <2>6, <2>7, <2>8, NextIInvIs DEF LoadGood, NoneStored
<1> QED
  BY <1>3, <1>6, <1>7

\* What follows the details: all of the pending killmails have one, and the
\* located ones are not looked up again (killmails.rs, esi/mod.rs enrich_locations).
LEMMA AfterDetailsGood ==
  ASSUME LoadGood, op # "none", step \in {"prices", "details"}, NEW located, AfterDetails(located),
         UNCHANGED <<op, lists, failed, server, view, reported>>, spent' \in Nat,
         mails' \in [detailed : SUBSET Killmail, located : SUBSET Killmail],
         mails'.detailed = Pending(lists),
         view.located \cap Pending(lists) \subseteq mails'.located,
         mails'.located \subseteq mails'.detailed
  PROVE  LoadGood' /\ step' \in {"names", "system"}
<1>1. /\ step' \in {"names", "system"} /\ todo' \subseteq Pending(lists)
      /\ step' = "system" => todo' # {}
  BY DEF AfterDetails, Goto
<1>2. Pending(lists)' = Pending(lists) /\ Pending(lists) \subseteq Killmail
  BY DEF Pending
<1>a. todo' \in SUBSET Killmail /\ step' \in Step /\ step' # "idle"
  BY <1>1, <1>2 DEF Step
<1>3. LoadTypes' /\ LoopsGoOn'
  <2>1. LoadTypes'
    BY <1>a DEF LoadGood, LoadTypes
  <2>2. LoopsGoOn'
    BY <1>1, <1>2 DEF LoopsGoOn
  <2> QED
    BY <2>1, <2>2
<1>4. Answered = Char /\ Answered' = Char
  BY <1>1 DEF Answered, Loading
<1>5. ListsKnown'
  BY <1>4 DEF LoadGood, ListsKnown, Published
<1>6. Enriched'
  BY <1>1, <1>2 DEF Enriched, Loading
<1> QED
  BY <1>1, <1>3, <1>5, <1>6 DEF LoadGood

LEMMA PricesKeeps ==
  ASSUME IInv, MarketPrices
  PROVE  IInv'
<1> DEFINE needed == NeedsDetail(Pending(lists))
           kept == Pending(lists) \ needed
<1>1. /\ LoadGood /\ SharedGood /\ NoneStored /\ stored = 0 /\ step = "prices" /\ op # "none"
  BY IInvIs DEF MarketPrices, NoneStored, LoadGood, LoadTypes
<1>2. PICK r \in Result :
        /\ Request(UrlOf("prices", "all"), r)
        /\ \/ r.kind = "fatal" /\ Abort
           \/ /\ mails' = [detailed |-> kept, located |-> kept \cap view.located]
              /\ IF needed = {} THEN AfterDetails(mails'.located) ELSE Goto("details", needed)
              /\ UNCHANGED <<lists, failed>>
  BY DEF MarketPrices
<1>3. SharedGood' /\ UNCHANGED <<server, view, reported, stored>>
  BY <1>2, UrlsKnown, RequestShared
<1>4. UNCHANGED <<op, spent>> /\ spent \in Nat
  BY <1>1 DEF MarketPrices, LoadGood, LoadTypes
<1>5. CASE Abort
  BY <1>1, <1>3, <1>4, <1>5, AbortGood, NextIInvIs
<1>6. CASE /\ mails' = [detailed |-> kept, located |-> kept \cap view.located]
           /\ IF needed = {} THEN AfterDetails(mails'.located) ELSE Goto("details", needed)
           /\ UNCHANGED <<lists, failed>>
  <2>1. /\ Pending(lists) \subseteq Killmail /\ Pending(lists)' = Pending(lists)
        /\ needed = Pending(lists) \ view.detailed
    BY <1>3, <1>6 DEF Pending, NeedsDetail
  <2>2. view.located \subseteq view.detailed
    BY <1>1 DEF SharedGood, ViewTypes
  <2>3. /\ mails' \in [detailed : SUBSET Killmail, located : SUBSET Killmail]
        /\ mails'.detailed = Pending(lists) \ needed
        /\ view.located \cap Pending(lists) \subseteq mails'.located
        /\ mails'.located \subseteq mails'.detailed
    BY <1>6, <2>1, <2>2
  <2>4. CASE needed = {}
    <3>1. LoadGood' /\ step' \in {"names", "system"}
      BY <1>1, <1>3, <1>4, <1>6, <2>1, <2>3, <2>4, AfterDetailsGood
    <3> QED
      BY <1>1, <1>3, <3>1, NextIInvIs DEF NoneStored
  <2>5. CASE needed # {}
    <3>1. step' = "details" /\ todo' = needed
      BY <1>6, <2>5 DEF Goto
    <3>2. todo' \in SUBSET Killmail /\ todo' \subseteq Pending(lists)
      BY <2>1, <3>1
    <3>3. LoadTypes'
      BY <1>1, <1>4, <1>6, <2>3, <3>1, <3>2 DEF LoadGood, LoadTypes, Step
    <3>4. LoopsGoOn'
      BY <2>1, <2>5, <3>1, <3>2 DEF LoopsGoOn
    <3>5. Answered = Char /\ Answered' = Char
      BY <1>1, <3>1 DEF Answered, Loading
    <3>6. ListsKnown'
      BY <1>1, <1>3, <1>6, <3>1, <3>5 DEF LoadGood, ListsKnown, Published
    <3>7. Enriched'
      BY <1>3, <2>1, <2>3, <3>1 DEF Enriched, Loading
    <3> QED
      BY <1>1, <1>3, <3>3, <3>4, <3>6, <3>7, NextIInvIs DEF LoadGood, NoneStored
  <2> QED
    BY <2>4, <2>5
<1> QED
  BY <1>2, <1>5, <1>6

\* One killmail more has its detail (killmails.rs new_killmail).
LEMMA DetailKeeps ==
  ASSUME IInv, KillmailDetail
  PROVE  IInv'
<1> DEFINE m == First(todo)
<1>1. /\ LoadGood /\ SharedGood /\ NoneStored /\ stored = 0 /\ step = "details" /\ op # "none"
      /\ todo # {} /\ todo \subseteq Pending(lists) /\ m \in todo
  BY IInvIs, FirstIn DEF KillmailDetail, NoneStored, LoadGood, LoadTypes, LoopsGoOn
<1>2. Pending(lists) \subseteq Killmail
  BY DEF Pending
<1> HIDE DEF m
<1>3. PICK r \in Result :
        /\ Request(UrlOf("detail", m), r)
        /\ \/ r.kind # "ok" /\ Abort
           \/ /\ mails' = WithDetail(m)
              /\ IF todo # {m} THEN Goto("details", todo \ {m}) ELSE AfterDetails(mails.located)
              /\ UNCHANGED <<lists, failed>>
  BY DEF KillmailDetail, m
<1>4. SharedGood' /\ UNCHANGED <<server, view, reported, stored>>
  BY <1>1, <1>2, <1>3, UrlsKnown, RequestShared
<1>5. UNCHANGED op /\ spent' \in Nat
  BY <1>1 DEF KillmailDetail, LoadGood, LoadTypes
<1>6. CASE Abort
  <2>1. step' = "end" /\ todo' = {} /\ UNCHANGED <<op, loadVars>>
    BY <1>5, <1>6 DEF Abort, Goto
  <2>2. LoadTypes'
    BY <1>1, <1>5, <2>1 DEF LoadGood, LoadTypes, loadVars, Step
  <2>3. LoopsGoOn' /\ ListsKnown' /\ Enriched' /\ NoneStored'
    BY <2>1 DEF LoopsGoOn, ListsKnown, Enriched, Loading, NoneStored
  <2> QED
    BY <1>4, <2>2, <2>3, NextIInvIs DEF LoadGood
<1>7. CASE /\ mails' = WithDetail(m)
           /\ IF todo # {m} THEN Goto("details", todo \ {m}) ELSE AfterDetails(mails.located)
           /\ UNCHANGED <<lists, failed>>
  <2>1. /\ Pending(lists)' = Pending(lists)
        /\ mails \in [detailed : SUBSET Killmail, located : SUBSET Killmail]
        /\ mails.detailed = Pending(lists) \ todo
        /\ view.located \cap Pending(lists) \subseteq mails.located
        /\ mails.located \subseteq mails.detailed
    BY <1>1, <1>4, <1>7 DEF Pending, LoadGood, LoadTypes, Enriched, Loading
  <2>2. /\ mails' \in [detailed : SUBSET Killmail, located : SUBSET Killmail]
        /\ mails'.detailed = Pending(lists) \ (todo \ {m})
        /\ mails'.located = mails.located
        /\ mails'.located \subseteq mails'.detailed
    BY <1>1, <1>2, <1>7, <2>1 DEF WithDetail
  <2>3. CASE todo = {m}
    <3>1. LoadGood' /\ step' \in {"names", "system"}
      BY <1>1, <1>4, <1>5, <1>7, <2>1, <2>2, <2>3, AfterDetailsGood
    <3> QED
      BY <1>1, <1>4, <3>1, NextIInvIs DEF NoneStored
  <2>4. CASE todo # {m}
    <3>1. step' = "details" /\ todo' = todo \ {m} /\ todo' # {}
      BY <1>1, <1>7, <2>4 DEF Goto
    <3>2. todo' \in SUBSET Killmail /\ todo' \subseteq Pending(lists)
      BY <1>1, <1>2, <3>1
    <3>3. LoadTypes'
      BY <1>1, <1>5, <1>7, <2>2, <3>1, <3>2 DEF LoadGood, LoadTypes, Step
    <3>4. LoopsGoOn'
      BY <2>1, <3>1, <3>2 DEF LoopsGoOn
    <3>5. Answered = Char /\ Answered' = Char
      BY <1>1, <3>1 DEF Answered, Loading
    <3>6. ListsKnown'
      BY <1>1, <1>4, <1>7, <3>1, <3>5 DEF LoadGood, ListsKnown, Published
    <3>7. Enriched'
      BY <1>4, <2>1, <2>2, <3>1 DEF Enriched, Loading
    <3> QED
      BY <1>1, <1>4, <3>3, <3>4, <3>6, <3>7, NextIInvIs DEF LoadGood, NoneStored
  <2> QED
    BY <2>3, <2>4
<1> QED
  BY <1>3, <1>6, <1>7

-----------------------------------------------------------------------------
(* Locations and names *)

Locating == {"system", "constellation", "region"}

\* A later stage of the enrichment, with no less than before.
LEMMA LocatedGood ==
  ASSUME LoadGood, op # "none", step \in Locating \cup {"names"},
         UNCHANGED <<op, lists, failed, spent, server, view, reported>>,
         step' \in Locating \cup {"names", "save"}, todo' \subseteq todo,
         step' \in Locating => todo' # {} /\ step # "names",
         mails' \in [detailed : SUBSET Killmail, located : SUBSET Killmail],
         mails'.detailed = mails.detailed, mails.located \subseteq mails'.located,
         mails'.located \subseteq mails'.detailed
  PROVE  LoadGood'
<1>1. Pending(lists)' = Pending(lists) /\ Pending(lists) \subseteq Killmail
  BY DEF Pending
<1>2. step' \in Step /\ step' # "idle" /\ step' # "end"
  BY DEF Locating, Step
<1>3. todo' \in (SUBSET Char) \cup (SUBSET Killmail) \cup (SUBSET System)
  BY DEF LoadGood, LoadTypes
<1>4. LoadTypes'
  BY <1>2, <1>3 DEF LoadGood, LoadTypes
<1>5. LoopsGoOn'
  BY <1>1 DEF LoadGood, LoopsGoOn, Locating
<1>6. Answered = Char /\ Answered' = Char
  BY DEF Answered, Loading, Locating
<1>7. ListsKnown'
  BY <1>6 DEF LoadGood, ListsKnown, Published, Locating
<1>8. Enriched'
  BY <1>1 DEF LoadGood, Enriched, Loading, Locating
<1> QED
  BY <1>4, <1>5, <1>7, <1>8 DEF LoadGood

LEMMA LocateKeeps ==
  ASSUME IInv, NEW stage \in Locating, NEW next \in Locating \cup {"located"}, Locate(stage, next)
  PROVE  IInv'
<1> DEFINE m == First(todo)
<1>1. /\ LoadGood /\ SharedGood /\ NoneStored /\ stored = 0 /\ step = stage /\ step \in Locating
      /\ op # "none" /\ todo # {} /\ todo \subseteq Pending(lists) /\ m \in todo
  BY IInvIs, FirstIn DEF Locate, NoneStored, LoadGood, LoadTypes, LoopsGoOn, Locating
<1>2. Pending(lists) \subseteq Killmail
  BY DEF Pending
<1> HIDE DEF m
<1>3. PICK r \in Result :
        /\ Request(UrlOf(stage, SystemOf[m]), r)
        /\ \/ Abort
           \/ AfterLocation(todo \ {m}) /\ UNCHANGED loadVars
           \/ next # "located" /\ Goto(next, todo) /\ UNCHANGED loadVars
           \/ /\ mails' = [mails EXCEPT !.located = @ \cup (Neighbours(m) \cap Pending(lists))]
              /\ AfterLocation(todo \ Neighbours(m))
              /\ UNCHANGED <<lists, failed>>
  BY DEF Locate, m
<1>4. SharedGood' /\ UNCHANGED <<server, view, reported, stored>>
  BY <1>1, <1>2, <1>3, UrlsKnown, RequestShared DEF Locating
<1>5. UNCHANGED <<op, spent>>
  BY DEF Locate
<1>6. /\ mails \in [detailed : SUBSET Killmail, located : SUBSET Killmail]
      /\ mails.detailed = Pending(lists) /\ mails.located \subseteq mails.detailed
  BY <1>1 DEF LoadGood, LoadTypes, Enriched, Loading, Locating
<1>7. CASE Abort
  BY <1>1, <1>4, <1>5, <1>7, AbortGood, NextIInvIs DEF Locating
<1>8. ASSUME NEW left \in SUBSET todo, AfterLocation(left)
      PROVE  step' \in {"names", "system"} /\ todo' \subseteq todo /\ (step' = "system" => todo' # {})
  BY <1>8 DEF AfterLocation, Goto
<1>9. CASE \/ AfterLocation(todo \ {m}) /\ UNCHANGED loadVars
           \/ next # "located" /\ Goto(next, todo) /\ UNCHANGED loadVars
  <2>1. step' \in Locating \cup {"names"} /\ todo' \subseteq todo /\ (step' \in Locating => todo' # {})
    BY <1>1, <1>8, <1>9 DEF Goto, Locating
  <2>2. UNCHANGED <<lists, failed, mails>>
    BY <1>9 DEF loadVars
  <2>3. LoadGood'
    BY <1>1, <1>4, <1>5, <1>6, <2>1, <2>2, LocatedGood DEF Locating
  <2> QED
    BY <1>1, <1>4, <2>3, NextIInvIs DEF NoneStored
<1>10. CASE /\ mails' = [mails EXCEPT !.located = @ \cup (Neighbours(m) \cap Pending(lists))]
            /\ AfterLocation(todo \ Neighbours(m))
            /\ UNCHANGED <<lists, failed>>
  <2>1. step' \in {"names", "system"} /\ todo' \subseteq todo /\ (step' = "system" => todo' # {})
    BY <1>8, <1>10
  <2>2. /\ mails' \in [detailed : SUBSET Killmail, located : SUBSET Killmail]
        /\ mails'.detailed = mails.detailed /\ mails.located \subseteq mails'.located
        /\ mails'.located \subseteq mails'.detailed
    BY <1>2, <1>6, <1>10
  <2>3. LoadGood'
    BY <1>1, <1>4, <1>5, <1>10, <2>1, <2>2, LocatedGood DEF Locating
  <2> QED
    BY <1>1, <1>4, <2>3, NextIInvIs DEF NoneStored
<1> QED
  BY <1>3, <1>7, <1>9, <1>10

LEMMA NamesKeep ==
  ASSUME IInv, ResolveNames
  PROVE  IInv'
<1>1. /\ LoadGood /\ SharedGood /\ NoneStored /\ stored = 0 /\ step = "names" /\ op # "none"
  BY IInvIs DEF ResolveNames, NoneStored, LoadGood, LoadTypes
<1>2. \E r \in Result : Request(UrlOf("names", "all"), r)
  BY DEF ResolveNames
<1>3. SharedGood' /\ UNCHANGED <<server, view, reported, stored>>
  BY <1>2, UrlsKnown, RequestShared
<1>4. UNCHANGED <<op, spent>>
  BY DEF ResolveNames
<1>5. CASE Abort
  BY <1>1, <1>3, <1>4, <1>5, AbortGood, NextIInvIs
<1>6. CASE Goto("save", {}) /\ UNCHANGED loadVars
  <2>1. step' = "save" /\ todo' = {} /\ UNCHANGED <<lists, failed, mails>>
    BY <1>6 DEF Goto, loadVars
  <2>2. /\ mails \in [detailed : SUBSET Killmail, located : SUBSET Killmail]
        /\ mails.located \subseteq mails.detailed
    BY <1>1 DEF LoadGood, LoadTypes, Enriched, Loading
  <2>3. LoadGood'
    BY <1>1, <1>3, <1>4, <2>1, <2>2, LocatedGood DEF Locating
  <2> QED
    BY <1>1, <1>3, <2>3, NextIInvIs DEF NoneStored
<1> QED
  BY <1>5, <1>6 DEF ResolveNames

-----------------------------------------------------------------------------
(* The end of a load *)

\* What a load makes of the cached killmails: none is without a source, none is
\* reported, and none loses its detail or region while it stays (killmails.rs
\* load_killmails_at, retain_failed_character_cache).
LEMMA LoadedGood ==
  ASSUME SharedGood, LoadGood, step = "save"
  PROVE  /\ Loaded \in View
         /\ Loaded.located \subseteq Loaded.detailed
         /\ Loaded.detailed \subseteq CachedMails(Loaded)
         /\ CachedMails(Loaded) \cap reported = {}
         /\ view.detailed \cap CachedMails(Loaded) \subseteq Loaded.detailed
         /\ view.located \cap CachedMails(Loaded) \subseteq Loaded.located
<1> DEFINE old == {m \in Killmail : Fresh(m) = {} /\ Retained(m) # {}}
<1>1. /\ Loaded.sources = [m \in Killmail |-> Fresh(m) \cup Retained(m)]
      /\ Loaded.detailed = mails.detailed \cup (view.detailed \cap old)
      /\ Loaded.located = mails.located \cup (view.located \cap old)
      /\ Loaded = [sources |-> Loaded.sources, detailed |-> Loaded.detailed, located |-> Loaded.located]
  BY DEF Loaded
<1>2. /\ view \in View /\ view.located \subseteq view.detailed
      /\ CachedMails(view) \cap reported = {}
  BY DEF SharedGood, ViewTypes
<1>3. /\ mails \in [detailed : SUBSET Killmail, located : SUBSET Killmail]
      /\ mails.detailed = Pending(lists) /\ mails.located \subseteq mails.detailed
      /\ view.located \cap Pending(lists) \subseteq mails.located
  BY DEF LoadGood, LoadTypes, Enriched, Loading
<1>4. ASSUME NEW m \in Killmail
      PROVE  /\ Fresh(m) \in SUBSET Char /\ Retained(m) \in SUBSET Char
             /\ m \in Pending(lists) <=> Fresh(m) # {}
             /\ m \in reported => Fresh(m) = {} /\ Retained(m) = {}
             /\ m \in CachedMails(Loaded) <=> Fresh(m) # {} \/ Retained(m) # {}
  <2>1. Fresh(m) \in SUBSET Char /\ Retained(m) \in SUBSET Char
    BY <1>2 DEF Fresh, Retained, View
  <2>2. m \in Pending(lists) <=> Fresh(m) # {}
    BY DEF Pending, Fresh
  <2>3. m \in reported => Fresh(m) = {} /\ Retained(m) = {}
    BY <1>2 DEF Fresh, Retained, CachedMails
  <2>4. m \in CachedMails(Loaded) <=> Fresh(m) # {} \/ Retained(m) # {}
    BY <1>1 DEF CachedMails
  <2> QED
    BY <2>1, <2>2, <2>3, <2>4
<1>5. Loaded.detailed \subseteq Killmail /\ Loaded.located \subseteq Killmail
  BY <1>1, <1>3
<1>6. Loaded \in View
  <2>1. Loaded.sources \in [Killmail -> SUBSET Char]
    BY <1>1, <1>4
  <2> QED
    BY <1>1, <1>5, <2>1 DEF View
<1>7. Loaded.located \subseteq Loaded.detailed
  BY <1>1, <1>2, <1>3
<1>8. CachedMails(Loaded) \subseteq Killmail
  BY DEF CachedMails
<1>9. Loaded.detailed \subseteq CachedMails(Loaded)
  BY <1>1, <1>3, <1>4, <1>5
<1>10. CachedMails(Loaded) \cap reported = {}
  BY <1>4, <1>8
<1>11. /\ view.detailed \cap CachedMails(Loaded) \subseteq Loaded.detailed
       /\ view.located \cap CachedMails(Loaded) \subseteq Loaded.located
  <2>1. ASSUME NEW m \in CachedMails(Loaded) PROVE m \in Pending(lists) \/ m \in old
    BY <1>4, <1>8, <2>1
  <2> QED
    BY <1>1, <1>3, <2>1
<1> QED
  BY <1>6, <1>7, <1>9, <1>10, <1>11

LEMMA SaveKeeps ==
  ASSUME IInv, SaveKillmails
  PROVE  IInv'
<1>1. LoadGood /\ SharedGood /\ step = "save" /\ op # "none"
  BY IInvIs DEF SaveKillmails, LoadGood, LoadTypes
<1>2. view' \in {view, Loaded} /\ UNCHANGED <<clientVars, reported, stored, told, lost, calm>>
  BY DEF SaveKillmails
<1>3. ViewTypes'
  BY <1>1, <1>2, LoadedGood DEF SharedGood, ViewTypes, CachedMails
<1>4. ClientGood'
  BY <1>1, <1>2 DEF SharedGood, ClientGood, CacheGood, RowGood, clientVars
<1>5. SharedGood'
  BY <1>1, <1>2, <1>3, <1>4 DEF SharedGood, clientVars
<1>6. LoadGood' /\ NoneStored'
  BY <1>1, AbortGood DEF SaveKillmails, Abort
<1> QED
  BY <1>5, <1>6, NextIInvIs

LEMMA CancelKeeps ==
  ASSUME IInv, Cancel
  PROVE  IInv'
<1>1. LoadGood /\ SharedGood /\ step # "idle"
  BY IInvIs DEF Cancel, LoadGood, LoadTypes
<1>2. SharedGood'
  BY <1>1 DEF Cancel, SharedGood, ClientGood, CacheGood, RowGood, clientVars, ViewTypes, CachedMails
<1>3. LoadGood' /\ NoneStored'
  BY <1>1, AbortGood DEF Cancel, Abort
<1> QED
  BY <1>2, <1>3, NextIInvIs

-----------------------------------------------------------------------------
(* Operations begin and end *)

\* Between two operations no load is under way.
LEMMA NoLoad ==
  ASSUME LoadGood, step = "idle"
  PROVE  /\ lists = [c \in Char |-> {}] /\ failed = {} /\ mails = NoMails
<1>1. Answered = {}
  BY DEF Answered, Loading
<1> QED
  BY <1>1 DEF LoadGood, LoadTypes, ListsKnown, Enriched

\* An operation begins, with a loop or with nothing to load.
LEMMA BeginGood ==
  ASSUME LoadGood, step = "idle", op' \in Op \ {"none"}, UNCHANGED loadVars, spent' \in Nat,
         \/ step' = "info" /\ todo' \in (SUBSET Char) \ {{}}
         \/ step' \in {"resolve", "end"} /\ todo' = {}
  PROVE  LoadGood'
<1>1. lists' = [c \in Char |-> {}] /\ failed' = {} /\ mails' = NoMails
  BY NoLoad DEF loadVars
<1>2. LoadTypes'
  BY <1>1 DEF LoadTypes, Step, NoMails
<1>3. LoopsGoOn'
  BY DEF LoopsGoOn
<1>4. Answered' = {}
  BY DEF Answered, Loading
<1>5. ListsKnown' /\ Enriched'
  BY <1>1, <1>4 DEF ListsKnown, Enriched, Loading
<1> QED
  BY <1>2, <1>3, <1>5 DEF LoadGood

LEMMA BeginKeeps ==
  ASSUME IInv, BeginRefresh \/ BeginSignIn \/ BeginResolve
  PROVE  IInv'
<1>1. LoadGood /\ SharedGood /\ step = "idle" /\ spent \in Nat
  BY IInvIs DEF BeginRefresh, BeginSignIn, BeginResolve, LoadGood, LoadTypes
<1>2. CASE BeginRefresh
  <2>1. SharedGood'
    BY <1>1, <1>2 DEF BeginRefresh, SharedGood, ClientGood, CacheGood, RowGood, clientVars,
                      ViewTypes, CachedMails
  <2>2. LoadGood'
    BY <1>1, <1>2, BeginGood, ParametersHold
    DEF BeginRefresh, Goto, Op, Parameters, CharAssumption
  <2>3. NoneStored'
    BY <1>2 DEF BeginRefresh, NoneStored
  <2> QED
    BY <2>1, <2>2, <2>3, NextIInvIs
<1>3. CASE BeginSignIn
  <2>1. SharedGood'
    BY <1>1, <1>3 DEF BeginSignIn, SharedGood, ClientGood, CacheGood, RowGood, clientVars,
                      ViewTypes, CachedMails
  <2>2. \/ stored = 0 /\ step' = "info" /\ todo' \in (SUBSET Char) \ {{}}
        \/ step' = "end" /\ todo' = {}
    BY <1>3 DEF BeginSignIn, Goto
  <2>3. LoadGood'
    BY <1>1, <1>3, <2>2, BeginGood DEF BeginSignIn, Op
  <2>4. NoneStored'
    BY <1>3, <2>2 DEF BeginSignIn, NoneStored
  <2> QED
    BY <2>1, <2>3, <2>4, NextIInvIs
<1>4. CASE BeginResolve
  <2>1. SharedGood'
    BY <1>1, <1>4 DEF BeginResolve, SharedGood, ClientGood, CacheGood, RowGood, clientVars,
                      ViewTypes, CachedMails
  <2>2. LoadGood'
    BY <1>1, <1>4, BeginGood DEF BeginResolve, Goto, Op
  <2>3. NoneStored'
    BY <1>4 DEF BeginResolve, NoneStored
  <2> QED
    BY <2>1, <2>2, <2>3, NextIInvIs
<1> QED
  BY <1>2, <1>3, <1>4

\* The lookup of a protected victim leaves nothing of a load behind.
LEMMA ResolveKeeps ==
  ASSUME IInv, ResolveVictim
  PROVE  IInv'
<1>1. LoadGood /\ SharedGood /\ step = "resolve"
  BY IInvIs DEF ResolveVictim
<1>2. PICK r \in Result, u \in VictimUrls : Request(u, r)
  BY DEF ResolveVictim
<1>3. u \in Url
  BY ParametersHold DEF Parameters, UrlsAssumption, Urls, CachedUrls, CharacterUrls, VictimUrls
<1>4. SharedGood'
  BY <1>1, <1>2, <1>3, RequestShared
<1>5. step' = "end" /\ todo' = {} /\ UNCHANGED <<op, lists, failed, mails, spent>>
  BY DEF ResolveVictim, Goto, loadVars
<1>6. LoadTypes'
  BY <1>1, <1>5 DEF LoadGood, LoadTypes, Step
<1>7. LoopsGoOn' /\ ListsKnown' /\ Enriched'
  BY <1>5 DEF LoopsGoOn, ListsKnown, Enriched, Loading
<1>8. NoneStored'
  BY <1>5 DEF NoneStored
<1> QED
  BY <1>4, <1>6, <1>7, <1>8, NextIInvIs DEF LoadGood

LEMMA ReleaseGood ==
  ASSUME LoadGood, Release, UNCHANGED spent
  PROVE  LoadGood' /\ NoneStored'
<1>1. /\ step' = "idle" /\ todo' = {} /\ op' = "none"
      /\ lists' = [c \in Char |-> {}] /\ failed' = {} /\ mails' = NoMails
  BY DEF Release, Goto
<1>2. LoadTypes'
  BY <1>1 DEF LoadGood, LoadTypes, Op, Step, NoMails
<1>3. Answered' = {}
  BY <1>1 DEF Answered, Loading
<1>4. LoopsGoOn' /\ ListsKnown' /\ Enriched' /\ NoneStored'
  BY <1>1, <1>3 DEF LoopsGoOn, ListsKnown, Enriched, Loading, NoneStored
<1> QED
  BY <1>2, <1>4 DEF LoadGood

\* The log is drained into the store, or what was lost is known (timing.rs
\* absorb_api_observations).
LEMMA EndKeeps ==
  ASSUME IInv, EndOperation \/ Crash
  PROVE  IInv'
<1>1. LoadGood /\ SharedGood
  BY IInvIs
<1>2. LoadGood' /\ NoneStored'
  BY <1>1, ReleaseGood DEF EndOperation, Crash
<1>3. /\ log' = 0 /\ UNCHANGED <<server, cache, view, reported, told, calm>>
      /\ \/ stored' = Longer(stored, log) /\ UNCHANGED lost
         \/ UNCHANGED stored /\ lost' = (lost \/ told > stored)
  BY DEF EndOperation, Crash, Lose, Absorbed
<1>4. stored \in Nat /\ log \in Nat /\ told \in Nat /\ lost \in BOOLEAN /\ calm \in BOOLEAN
  BY <1>1 DEF SharedGood, ClientGood
<1>5. ClientGood' /\ ViewTypes'
  BY <1>1, <1>3 DEF SharedGood, ClientGood, CacheGood, RowGood, ViewTypes, CachedMails
<1>6. /\ stored' \in Nat /\ told' \in Nat /\ lost' \in BOOLEAN /\ calm' \in BOOLEAN
      /\ told' <= stored' \/ told' <= log' \/ lost'
  <2>1. CASE stored' = Longer(stored, log) /\ UNCHANGED lost
    <3>1. stored' \in Nat /\ stored' >= stored /\ stored' >= log
      BY <1>4, <2>1, LongerIs
    <3>2. told <= stored \/ told <= log \/ lost
      BY <1>1 DEF SharedGood
    <3>3. told <= stored' \/ lost
      BY <1>4, <3>1, <3>2
    <3> QED
      BY <1>3, <1>4, <2>1, <3>1, <3>3
  <2>2. CASE UNCHANGED stored /\ lost' = (lost \/ told > stored)
    <3>1. lost' \in BOOLEAN
      BY <1>4, <2>2
    <3>2. told <= stored \/ told > stored
      BY <1>4
    <3> QED
      BY <1>3, <1>4, <2>2, <3>1, <3>2
  <2> QED
    BY <1>3, <2>1, <2>2
<1>7. SharedGood'
  BY <1>1, <1>3, <1>5, <1>6 DEF SharedGood
<1> QED
  BY <1>2, <1>7, NextIInvIs

\* A killmail that is reported leaves the cache (posting.rs, status.rs).
LEMMA ReportKeeps ==
  ASSUME IInv, NEW m \in Killmail, Report(m)
  PROVE  IInv'
<1>1. /\ LoadGood /\ SharedGood /\ step = "idle" /\ step' = "idle"
      /\ UNCHANGED <<clientVars, op, step, todo, loadVars, stored, spent, told, lost, calm>>
  BY IInvIs DEF Report, LoadGood, LoadTypes
<1>2. LoadGood' /\ NoneStored'
  <2>1. LoadTypes' /\ LoopsGoOn'
    BY <1>1 DEF LoadGood, LoadTypes, loadVars, LoopsGoOn
  <2>2. Answered = {} /\ Answered' = {}
    BY <1>1 DEF Answered, Loading
  <2>3. ListsKnown' /\ Enriched' /\ NoneStored'
    BY <1>1, <2>2 DEF LoadGood, ListsKnown, Enriched, loadVars, Loading, NoneStored
  <2> QED
    BY <2>1, <2>3 DEF LoadGood
<1>3. ViewTypes'
  <2>1. /\ view \in View /\ view.located \subseteq view.detailed
        /\ view.detailed \subseteq CachedMails(view)
        /\ CachedMails(view) \cap reported = {} /\ reported \in SUBSET Killmail
    BY <1>1 DEF SharedGood, ViewTypes
  <2>2. /\ reported' = reported \cup {m}
        /\ view' = [sources |-> [view.sources EXCEPT ![m] = {}],
                    detailed |-> view.detailed \ {m}, located |-> view.located \ {m}]
    BY DEF Report
  <2>3. view' \in View
    BY <2>1, <2>2 DEF View
  <2>4. CachedMails(view') = CachedMails(view) \ {m}
    BY <2>1, <2>2 DEF CachedMails, View
  <2>5. /\ view'.located \subseteq view'.detailed /\ view'.detailed \subseteq CachedMails(view')
        /\ CachedMails(view') \cap reported' = {} /\ reported' \in SUBSET Killmail
    BY <2>1, <2>2, <2>4
  <2> QED
    BY <2>3, <2>5 DEF ViewTypes
<1>4. ClientGood'
  BY <1>1 DEF SharedGood, ClientGood, CacheGood, RowGood, clientVars
<1>5. SharedGood'
  BY <1>1, <1>3, <1>4 DEF SharedGood, clientVars
<1> QED
  BY <1>2, <1>5, NextIInvIs

-----------------------------------------------------------------------------
(* ESI and time *)

\* ESI gets another list; it still has had the earlier ones.
LEMMA PublishGrows ==
  ASSUME SharedGood, NEW c \in Char, Publish(c)
  PROVE  /\ server' \in [Url -> Version]
         /\ \A u \in Url : server[u] <= server'[u]
         /\ \A d \in Char : server'[UrlOf("recent", d)] <= Len(Lists[d])
         /\ \A d \in Char : Published(d) \subseteq Published(d)'
         /\ UNCHANGED <<cache, log, op, step, todo, loadVars, view, reported, stored, spent, told,
                        lost, calm>>
<1> DEFINE u == UrlOf("recent", c)
<1>1. /\ server \in [Url -> Version] /\ u \in Url
      /\ server' = [server EXCEPT ![u] = server[u] + 1]
      /\ server[u] < Len(Lists[c])
  BY UrlsKnown DEF SharedGood, ClientGood, Publish
<1>2. /\ MaxVersion \in Nat /\ Len(Lists[c]) \in 1 .. MaxVersion
  BY ParametersHold DEF Parameters, BoundAssumption, ListsAssumption
<1>3. server[u] \in Version /\ server[u] + 1 \in Version
  BY <1>1, <1>2 DEF Version
<1>4. server' \in [Url -> Version] /\ \A v \in Url : v # u => server'[v] = server[v]
  BY <1>1, <1>3
<1>5. server'[u] = server[u] + 1
  BY <1>1
<1>6. ASSUME NEW v \in Url PROVE server[v] <= server'[v]
  <2>1. server[v] \in Nat
    BY <1>1, VersionsApart
  <2>2. server'[v] = server[v] \/ server'[v] = server[v] + 1
    BY <1>4, <1>5
  <2> QED
    BY <2>1, <2>2
<1>7. ASSUME NEW d \in Char
      PROVE  server'[UrlOf("recent", d)] <= Len(Lists[d]) /\ Published(d) \subseteq Published(d)'
  <2> DEFINE v == UrlOf("recent", d)
  <2>1. v \in Url /\ server[v] <= Len(Lists[d]) /\ Len(Lists[d]) \in Nat
        /\ (d # c => v # u)
    BY UrlsKnown, ParametersHold DEF SharedGood, Parameters, BoundAssumption, ListsAssumption
  <2>2. server'[v] <= Len(Lists[d])
    <3>1. CASE d = c
      BY <1>1, <1>2, <1>3, <1>5, <3>1 DEF Version
    <3>2. CASE d # c
      BY <1>4, <2>1, <3>2
    <3> QED
      BY <3>1, <3>2
  <2>3. server[v] \in Nat /\ server'[v] \in Nat /\ server[v] <= server'[v]
    BY <1>1, <1>4, <1>6, <2>1, VersionsApart
  <2>4. Published(d) \subseteq Published(d)'
    BY <2>3 DEF Published
  <2> QED
    BY <2>2, <2>4
<1> QED
  BY <1>4, <1>6, <1>7 DEF Publish

LEMMA PublishKeeps ==
  ASSUME IInv, NEW c \in Char, Publish(c)
  PROVE  IInv'
<1>1. LoadGood /\ SharedGood /\ NoneStored
  BY IInvIs
<1>2. /\ server' \in [Url -> Version] /\ server \in [Url -> Version]
      /\ \A u \in Url : server[u] <= server'[u]
      /\ \A d \in Char : server'[UrlOf("recent", d)] <= Len(Lists[d])
      /\ \A d \in Char : Published(d) \subseteq Published(d)'
      /\ UNCHANGED <<cache, log, op, step, todo, loadVars, view, reported, stored, spent, told,
                     lost, calm>>
  BY <1>1, PublishGrows DEF SharedGood, ClientGood
<1>3. CacheGood'
  <2>1. CacheGood
    BY <1>1 DEF SharedGood, ClientGood
  <2>2. ASSUME NEW u \in Cached PROVE RowGood(u, cache[u])'
    <3>1. server[u] \in Nat /\ server'[u] \in Nat /\ server[u] <= server'[u]
      BY <1>2, UrlsKnown, VersionsApart
    <3>2. 1 .. server[u] \subseteq 1 .. server'[u]
      BY <3>1
    <3>3. RowGood(u, cache[u]) /\ cache' = cache
      BY <1>2, <2>1 DEF CacheGood
    <3> QED
      BY <3>2, <3>3 DEF RowGood
  <2>3. cache' \in [Cached -> Entry]
    BY <1>2, <2>1 DEF CacheGood
  <2> QED
    BY <2>2, <2>3 DEF CacheGood
<1>4. SharedGood'
  BY <1>1, <1>2, <1>3 DEF SharedGood, ClientGood, ViewTypes, CachedMails
<1>5. LoadTypes' /\ LoopsGoOn' /\ Enriched' /\ NoneStored'
  BY <1>1, <1>2 DEF LoadGood, LoadTypes, LoopsGoOn, Enriched, NoneStored, Answered, Pending, loadVars
<1>6. ListsKnown'
  <2>1. Answered' = Answered /\ UNCHANGED <<lists, failed, step>>
    BY <1>2 DEF Answered, loadVars
  <2> QED
    BY <1>1, <1>2, <2>1 DEF LoadGood, ListsKnown
<1> QED
  BY <1>4, <1>5, <1>6, NextIInvIs DEF LoadGood

LEMMA LessIs == ASSUME NEW t \in Nat PROVE Less(t) \in Nat /\ Less(t) <= t
BY DEF Less

\* Every cooldown gets shorter by the same (timing.rs, http.rs ApiLog).
LEMMA LessOrdered ==
  ASSUME NEW a \in Nat, NEW b \in Nat, a <= b
  PROVE  Less(a) <= Less(b)
BY DEF Less

LEMMA TickKeeps ==
  ASSUME IInv, Tick
  PROVE  IInv'
<1>1. LoadGood /\ SharedGood /\ NoneStored
  BY IInvIs
<1>2. /\ stored \in Nat /\ told \in Nat /\ log \in Nat /\ lost \in BOOLEAN
      /\ ClientGood /\ CacheGood /\ server \in [Url -> Version]
  BY <1>1 DEF SharedGood, ClientGood
<1>3. /\ stored' = Less(stored) /\ told' = Less(told) /\ log' = Less(log)
      /\ lost' = (lost /\ told > 1)
      /\ cache' = [u \in Cached |-> [cache[u] EXCEPT !.ttl = Less(@)]]
      /\ UNCHANGED <<server, op, step, todo, loadVars, view, reported, spent, calm>>
  BY DEF Tick, Elapse
<1>4. CacheGood'
  <2>1. ASSUME NEW u \in Cached PROVE RowGood(u, cache[u])'
    <3>1. /\ cache[u] \in Entry /\ RowGood(u, cache[u])
          /\ cache'[u] = [cache[u] EXCEPT !.ttl = Less(cache[u].ttl)]
      BY <1>2, <1>3 DEF CacheGood
    <3>2. /\ cache'[u].body = cache[u].body /\ cache'[u].etag = cache[u].etag
      BY <3>1 DEF Entry
    <3>3. Less(cache[u].ttl) \in 0 .. MaxTtl
      BY <3>1, ParametersHold DEF Entry, Less, Parameters, BoundAssumption
    <3>4. cache'[u] \in Entry
      BY <3>1, <3>3 DEF Entry
    <3> QED
      BY <1>3, <3>1, <3>2, <3>4 DEF RowGood
  <2>2. cache' \in [Cached -> Entry]
    BY <1>3, <2>1 DEF RowGood
  <2> QED
    BY <2>1, <2>2 DEF CacheGood
<1>5. stored' \in Nat /\ told' \in Nat /\ log' \in Nat /\ lost' \in BOOLEAN
  <2>1. lost' \in BOOLEAN
    BY <1>3
  <2> QED
    BY <1>2, <1>3, <2>1, LessIs
<1>6. told' <= stored' \/ told' <= log' \/ lost'
  <2>1. told <= stored => told' <= stored'
    BY <1>2, <1>3, LessOrdered
  <2>2. told <= log => told' <= log'
    BY <1>2, <1>3, LessOrdered
  <2>3. told <= stored \/ told <= log \/ lost
    BY <1>1 DEF SharedGood
  <2>4. CASE told > 1
    <3>1. lost => lost'
      BY <1>3, <2>4
    <3> QED
      BY <2>1, <2>2, <2>3, <3>1
  <2>5. CASE told <= 1
    <3>1. told' = 0
      BY <1>2, <1>3, <2>5 DEF Less
    <3> QED
      BY <1>5, <3>1
  <2> QED
    BY <1>2, <2>4, <2>5
<1>7. SharedGood'
  BY <1>1, <1>2, <1>3, <1>4, <1>5, <1>6 DEF SharedGood, ClientGood, ViewTypes, CachedMails
<1>8. LoadGood'
  BY <1>1, <1>3 DEF LoadGood, LoadTypes, LoopsGoOn, ListsKnown, Enriched, Answered, Pending,
                    Published, loadVars
<1>9. NoneStored'
  <2>1. stored = 0 => stored' = 0
    BY <1>3 DEF Less
  <2> QED
    BY <1>1, <1>3, <2>1 DEF NoneStored
<1> QED
  BY <1>7, <1>8, <1>9, NextIInvIs

-----------------------------------------------------------------------------
(* The invariant *)

LEMMA Initially == Init => IInv
<1> SUFFICES ASSUME Init PROVE IInv
  OBVIOUS
<1>1. 1 \in Version /\ MaxVersion \in Nat
  BY ParametersHold DEF Parameters, BoundAssumption, Version
<1>2. ClientGood
  <2>1. server \in [Url -> Version] /\ cache = [u \in Cached |-> NoEntry] /\ log = 0
    BY <1>1 DEF Init, ClientInit
  <2>2. \A u \in Cached : RowGood(u, cache[u])
    BY <2>1, EmptyRowGood
  <2>3. cache \in [Cached -> Entry]
    BY <2>1, <2>2 DEF RowGood
  <2> QED
    BY <2>1, <2>2, <2>3 DEF ClientGood, CacheGood
<1>3. \A c \in Char : server[UrlOf("recent", c)] <= Len(Lists[c])
  BY <1>1, UrlsKnown, ParametersHold DEF Init, ClientInit, Parameters, ListsAssumption
<1>4. ViewTypes
  <2>1. view.sources \in [Killmail -> SUBSET Char]
    BY DEF Init
  <2>2. view = [sources |-> view.sources, detailed |-> {}, located |-> {}]
    BY DEF Init
  <2>3. view \in View /\ view.located = {} /\ view.detailed = {}
    BY <2>1, <2>2 DEF View
  <2> QED
    BY <2>3 DEF Init, ViewTypes
<1>5. SharedGood
  <2>1. stored = 0 /\ told = 0 /\ lost = FALSE /\ calm = FALSE
    BY DEF Init
  <2>2. stored \in Nat /\ told \in Nat /\ told <= stored
    BY <2>1
  <2>3. lost \in BOOLEAN /\ calm \in BOOLEAN
    BY <2>1, Zenon
  <2> QED
    BY <1>2, <1>3, <1>4, <2>2, <2>3 DEF SharedGood
<1>6. LoadTypes
  BY DEF Init, LoadTypes, Op, Step, NoMails
<1>7. Answered = {}
  BY DEF Init, Answered, Loading
<1>8. LoopsGoOn /\ ListsKnown /\ Enriched /\ NoneStored
  BY <1>7 DEF Init, LoopsGoOn, ListsKnown, Enriched, Loading, NoneStored
<1> QED
  BY <1>5, <1>6, <1>8, IInvIs DEF LoadGood

\* Nothing the invariant speaks of changes.
LEMMA QuietKeeps ==
  ASSUME IInv, UNCHANGED <<clientVars, op, step, todo, loadVars, view, reported, stored, spent,
                           told, lost>>, calm' \in BOOLEAN
  PROVE  IInv'
<1>1. LoadGood /\ SharedGood /\ NoneStored
  BY IInvIs
<1>2. SharedGood'
  BY <1>1 DEF SharedGood, ClientGood, CacheGood, RowGood, clientVars, ViewTypes, CachedMails
<1>3. LoadGood' /\ NoneStored'
  BY <1>1 DEF LoadGood, LoadTypes, LoopsGoOn, ListsKnown, Enriched, Answered, Pending,
              Published, loadVars, clientVars, NoneStored
<1> QED
  BY <1>2, <1>3, NextIInvIs

LEMMA Inductive == IInv /\ [Next]_vars => IInv'
<1> SUFFICES ASSUME IInv, [Next]_vars PROVE IInv'
  OBVIOUS
<1>1. CASE CharacterInfo \/ CorporationName
  BY <1>1, AffiliationKeeps
<1>2. CASE RecentKillmails
  BY <1>2, RecentKeeps
<1>3. CASE MarketPrices
  BY <1>3, PricesKeeps
<1>4. CASE KillmailDetail
  BY <1>4, DetailKeeps
<1>5. CASE SystemInfo \/ ConstellationInfo \/ RegionName
  BY <1>5, LocateKeeps DEF SystemInfo, ConstellationInfo, RegionName, Locating
<1>6. CASE ResolveNames
  BY <1>6, NamesKeep
<1>7. CASE SaveKillmails
  BY <1>7, SaveKeeps
<1>8. CASE EndOperation \/ Crash
  BY <1>8, EndKeeps
<1>9. CASE Cancel
  BY <1>9, CancelKeeps
<1>10. CASE BeginRefresh \/ BeginSignIn \/ BeginResolve
  BY <1>10, BeginKeeps
<1>16. CASE ResolveVictim
  BY <1>16, ResolveKeeps
<1>11. CASE \E m \in Killmail : Report(m)
  BY <1>11, ReportKeeps
<1>12. CASE \E c \in Char : Publish(c)
  BY <1>12, PublishKeeps
<1>13. CASE Tick
  BY <1>13, TickKeeps
<1>14. CASE CalmDown
  BY <1>14, QuietKeeps DEF CalmDown
<1>15. CASE UNCHANGED vars
  <2>1. UNCHANGED <<clientVars, op, step, todo, loadVars, view, reported, stored, spent,
                    told, lost, calm>>
    BY <1>15 DEF vars, clientVars, loadVars
  <2>2. calm \in BOOLEAN
    BY IInvIs DEF SharedGood
  <2> QED
    BY <2>1, <2>2, QuietKeeps
<1> QED
  BY <1>1, <1>2, <1>3, <1>4, <1>5, <1>6, <1>7, <1>8, <1>9, <1>10, <1>11, <1>12, <1>13, <1>14,
     <1>15, <1>16 DEF Next, Proceed

\* What the response cache, the store, the log and the load under way know of
\* ESI's contents and cooldowns fits together at every step of every operation
\* (killmails.rs load_killmails_at, client.rs fetch, timing.rs absorb).
THEOREM InvariantHolds == Spec => []IInv
<1>1. Init => IInv
  BY Initially
<1>2. IInv /\ [Next]_vars => IInv'
  BY Inductive
<1> QED
  BY <1>1, <1>2, PTL DEF Spec
\* Each variable of the loads and of the client has its type (refresh.rs,
\* characters.rs and protection.rs, esi/).
THEOREM TypeCorrect == Spec => []TypeOK
BY InvariantHolds, PTL DEF IInv

\* A cached body is what its validator stands for, through every store, prune and
\* 304, so no 304 revives another body (client.rs:144, esi_cache.rs:103).
THEOREM CacheIsTruthful == Spec => []CacheTruthful
BY InvariantHolds, PTL DEF IInv

LEMMA QuietWhenTold == IInv => EsiLeftAlone
<1> SUFFICES ASSUME IInv, step \notin {"idle", "end"}, log = 0
             PROVE  told = 0 \/ lost
  BY DEF EsiLeftAlone
<1>1. stored = 0 /\ told \in Nat /\ (told <= stored \/ told <= log \/ lost)
  BY DEF IInv, CooldownsKnown, TypeOK
<1> QED
  BY <1>1

\* No operation, the lookup of a protected victim included, is about to make a
\* request that the client would let through while ESI waits to be left alone,
\* whichever operation it told so, unless that operation died or was cancelled
\* (client.rs:102, refresh.rs:71, characters.rs:33, protection.rs:37).
THEOREM EsiIsLeftAlone == Spec => []EsiLeftAlone
<1>1. IInv => EsiLeftAlone
  BY QuietWhenTold
<1> QED
  BY <1>1, InvariantHolds, PTL

-----------------------------------------------------------------------------
(* What the loads do to the cached killmails *)

\* Only the end of a load and a report change the cached killmails.
LEMMA ViewChanges ==
  ASSUME IInv, [Next]_vars
  PROVE  \/ UNCHANGED view
         \/ SaveKillmails /\ view' = Loaded
         \/ \E m \in Killmail : Report(m)
<1>1. SharedGood
  BY IInvIs
<1>2. CASE \/ CharacterInfo \/ CorporationName \/ MarketPrices \/ KillmailDetail
           \/ SystemInfo \/ ConstellationInfo \/ RegionName \/ ResolveNames \/ ResolveVictim
  BY <1>2 DEF CharacterInfo, CorporationName, MarketPrices, KillmailDetail, SystemInfo,
     ConstellationInfo, RegionName, Locate, ResolveNames, ResolveVictim, Request
<1>3. CASE RecentKillmails
  BY <1>3 DEF RecentKillmails, Request
<1>4. CASE SaveKillmails
  BY <1>4 DEF SaveKillmails
<1>5. CASE \/ EndOperation \/ Crash \/ Cancel \/ BeginRefresh \/ BeginSignIn \/ BeginResolve
           \/ (\E c \in Char : Publish(c)) \/ Tick \/ CalmDown
  BY <1>5 DEF EndOperation, Crash, Cancel, BeginRefresh, BeginSignIn, BeginResolve, Publish, Tick, CalmDown
<1>6. CASE UNCHANGED vars
  BY <1>6 DEF vars
<1> QED
  BY <1>2, <1>3, <1>4, <1>5, <1>6 DEF Next, Proceed

\* A killmail that stays in the cache keeps its detail and its region, whatever
\* of the load fails or ends it (killmails.rs:72, esi/mod.rs:54).
THEOREM EnrichmentIsKept == Spec => EnrichmentKept
<1> DEFINE Kept == LET staying == CachedMails(view')
                   IN  /\ view.detailed \cap staying \subseteq view'.detailed
                       /\ view.located \cap staying \subseteq view'.located
<1>1. IInv /\ [Next]_vars => [Kept]_vars
  <2> SUFFICES ASSUME IInv, [Next]_vars PROVE Kept
    OBVIOUS
  <2>1. LoadGood /\ SharedGood
    BY IInvIs
  <2>2. CASE UNCHANGED view
    BY <2>2
  <2>3. CASE SaveKillmails /\ view' = Loaded
    BY <2>1, <2>3, LoadedGood DEF SaveKillmails
  <2>4. CASE \E m \in Killmail : Report(m)
    <3>1. PICK m \in Killmail : Report(m)
      BY <2>4
    <3>2. /\ view' = [sources |-> [view.sources EXCEPT ![m] = {}],
                      detailed |-> view.detailed \ {m}, located |-> view.located \ {m}]
          /\ view \in View
      BY <2>1, <3>1 DEF Report, SharedGood, ViewTypes
    <3>3. m \notin CachedMails(view')
      BY <3>2 DEF CachedMails, View
    <3> QED
      BY <3>2, <3>3
  <2> QED
    BY <2>2, <2>3, <2>4, ViewChanges
<1>2. IInv /\ [Next]_vars => [LET staying == CachedMails(view')
                              IN  /\ view.detailed \cap staying \subseteq view'.detailed
                                  /\ view.located \cap staying \subseteq view'.located]_vars
  BY <1>1
<1> QED
  BY <1>2, InvariantHolds, PTL DEF Spec, EnrichmentKept

-----------------------------------------------------------------------------
(* EsiLoad implements CharacterLists *)

\* The killmails a character is a source of.
ListOf(c) == {m \in Killmail : c \in view.sources[m]}

LEMMA ListsInitially ==
  ASSUME Init, IInv
  PROVE  AbstractLists!Init
<1>1. SharedGood
  BY IInvIs
<1>2. \A c \in Char : Published(c) \in SUBSET SUBSET Killmail
  <2>1. SUFFICES ASSUME NEW c \in Char, NEW v \in 1 .. server[UrlOf("recent", c)]
                 PROVE  Lists[c][v] \in SUBSET Killmail
    BY DEF Published
  <2>2. Lists[c] \in Seq(SUBSET Killmail) /\ server[UrlOf("recent", c)] \in Nat
    BY <1>1, UrlsKnown, VersionsApart, ParametersHold
    DEF SharedGood, ClientGood, Parameters, ListsAssumption
  <2>3. server[UrlOf("recent", c)] <= Len(Lists[c])
    BY <1>1 DEF SharedGood
  <2> QED
    BY <2>2, <2>3
<1>3. reported \in SUBSET Killmail
  BY <1>1 DEF SharedGood, ViewTypes
<1> QED
  BY <1>2, <1>3 DEF AbstractLists!Init

\* The end of a load replaces the lists it was answered, and keeps the others.
LEMMA SaveIsLoad ==
  ASSUME IInv, SaveKillmails, view' = Loaded
  PROVE  \E loaded \in SUBSET Char : AbstractLists!Load(loaded)
<1>1. LoadGood /\ SharedGood /\ step = "save"
  BY IInvIs DEF SaveKillmails
<1>2. UNCHANGED <<server, reported>>
  BY DEF SaveKillmails, clientVars
<1>3. /\ view \in View /\ CachedMails(view) \cap reported = {}
  BY <1>1 DEF SharedGood, ViewTypes
<1>4. view'.sources = [m \in Killmail |-> Fresh(m) \cup Retained(m)]
  BY DEF Loaded
<1>5. Answered = Char
  BY <1>1 DEF Answered, Loading
<1>6. ASSUME NEW c \in Char
      PROVE  IF c \in Char \ failed
             THEN \E l \in Published(c) : ListOf(c)' = l \ reported
             ELSE ListOf(c)' = ListOf(c)
  <2>1. ListOf(c)' = {m \in Killmail : c \in Fresh(m) \cup Retained(m)}
    BY <1>4 DEF ListOf
  <2>2. CASE c \in Char \ failed
    <3>1. lists[c] \in Published(c) /\ lists[c] \in SUBSET Killmail
      BY <1>1, <1>5, <2>2 DEF LoadGood, LoadTypes, ListsKnown
    <3>2. ListOf(c)' = lists[c] \ reported
      BY <2>1, <2>2, <3>1 DEF Fresh, Retained
    <3> QED
      BY <2>2, <3>1, <3>2
  <2>3. CASE c \in failed
    <3>1. lists[c] = {}
      BY <1>1, <2>3 DEF LoadGood, ListsKnown
    <3>2. ListOf(c)' = ListOf(c)
      BY <2>1, <2>3, <3>1 DEF Fresh, Retained, ListOf
    <3> QED
      BY <2>3, <3>2
  <2> QED
    BY <2>2, <2>3
<1>7. \A c \in Char : Published(c)' = Published(c)
  BY <1>2 DEF Published
<1>8. PICK loaded \in SUBSET Char : loaded = Char \ failed
  OBVIOUS
<1>9. AbstractLists!Load(loaded)
  BY <1>2, <1>6, <1>7, <1>8 DEF AbstractLists!Load, ListOf
<1> QED
  BY <1>9

\* A report takes the killmail out of every list.
LEMMA ReportIsReport ==
  ASSUME IInv, NEW m \in Killmail, Report(m)
  PROVE  AbstractLists!Report(m)
<1>1. view \in View
  BY IInvIs DEF SharedGood, ViewTypes
<1>2. /\ view'.sources = [view.sources EXCEPT ![m] = {}] /\ reported' = reported \cup {m}
      /\ UNCHANGED server
  BY DEF Report, clientVars
<1>3. \A c \in Char : {n \in Killmail : c \in view'.sources[n]}
                        = {n \in Killmail : c \in view.sources[n]} \ {m}
  BY <1>1, <1>2 DEF View
<1>4. \A c \in Char : Published(c)' = Published(c)
  BY <1>2 DEF Published
<1> QED
  BY <1>2, <1>3, <1>4 DEF AbstractLists!Report

\* ESI has one list more for one character.
LEMMA PublishIsPublish ==
  ASSUME IInv, NEW c \in Char, Publish(c)
  PROVE  \E l \in SUBSET Killmail : AbstractLists!Publish(c, l)
<1> DEFINE u == UrlOf("recent", c)
           l == Lists[c][server[u] + 1]
<1>1. SharedGood
  BY IInvIs
<1>2. /\ server \in [Url -> Version] /\ u \in Url /\ server[u] \in Nat
      /\ server[u] < Len(Lists[c]) /\ Lists[c] \in Seq(SUBSET Killmail)
  BY <1>1, UrlsKnown, VersionsApart, ParametersHold
  DEF SharedGood, ClientGood, Publish, Parameters, ListsAssumption
<1>3. l \in SUBSET Killmail
  BY <1>2
<1>4. server' = [server EXCEPT ![u] = server[u] + 1]
  BY DEF Publish
<1>5. Published(c)' = Published(c) \cup {l}
  <2>1. server'[u] = server[u] + 1
    BY <1>2, <1>4
  <2>2. 1 .. server'[u] = (1 .. server[u]) \cup {server[u] + 1}
    BY <1>2, <2>1
  <2> QED
    BY <2>2 DEF Published
<1>6. \A d \in Char \ {c} : Published(d)' = Published(d)
  <2>1. \A d \in Char \ {c} : server'[UrlOf("recent", d)] = server[UrlOf("recent", d)]
    BY <1>2, <1>4, UrlsKnown
  <2> QED
    BY <2>1 DEF Published
<1>7. UNCHANGED <<view, reported>>
  BY DEF Publish
<1> HIDE DEF l
<1>8. AbstractLists!Publish(c, l)
  <2>1. [d \in Char |-> Published(d)]' = [[d \in Char |-> Published(d)] EXCEPT ![c] = @ \cup {l}]
    BY <1>5, <1>6
  <2> QED
    BY <1>7, <2>1 DEF AbstractLists!Publish
<1> QED
  BY <1>3, <1>8

\* ESI publishes its lists one after the other; nothing else changes them.
LEMMA ServerChanges ==
  ASSUME IInv, [Next]_vars
  PROVE  UNCHANGED <<server, reported>> \/ (\E c \in Char : Publish(c)) \/ (\E m \in Killmail : Report(m))
<1>1. CASE \/ CharacterInfo \/ CorporationName \/ MarketPrices \/ KillmailDetail
           \/ SystemInfo \/ ConstellationInfo \/ RegionName \/ ResolveNames \/ ResolveVictim
  BY <1>1 DEF CharacterInfo, CorporationName, MarketPrices, KillmailDetail, SystemInfo,
     ConstellationInfo, RegionName, Locate, ResolveNames, ResolveVictim, Request,
     Get, Send, Refuse, clientVars
<1>2. CASE RecentKillmails
  BY <1>2 DEF RecentKillmails, Request, TokenFails, Get, Send, Refuse, clientVars
<1>3. CASE \/ EndOperation \/ Crash \/ Cancel \/ BeginRefresh \/ BeginSignIn \/ BeginResolve
           \/ SaveKillmails
           \/ Tick \/ CalmDown
  BY <1>3 DEF EndOperation, Crash, Cancel, BeginRefresh, BeginSignIn, BeginResolve, SaveKillmails, Tick, Elapse,
     CalmDown, clientVars
<1>4. CASE UNCHANGED vars
  BY <1>4 DEF vars
<1> QED
  BY <1>1, <1>2, <1>3, <1>4 DEF Next, Proceed

LEMMA StepsImplement ==
  IInv /\ [Next]_vars => [AbstractLists!Next]_(AbstractLists!vars)
<1> SUFFICES ASSUME IInv, [Next]_vars PROVE [AbstractLists!Next]_(AbstractLists!vars)
  OBVIOUS
<1>1. CASE SaveKillmails /\ view' = Loaded
  BY <1>1, SaveIsLoad DEF AbstractLists!Next
<1>2. CASE \E m \in Killmail : Report(m)
  BY <1>2, ReportIsReport DEF AbstractLists!Next
<1>3. CASE \E c \in Char : Publish(c)
  BY <1>3, PublishIsPublish DEF AbstractLists!Next
<1>4. CASE UNCHANGED <<view, server, reported>>
  BY <1>4 DEF AbstractLists!vars, Published
<1> QED
  BY <1>1, <1>2, <1>3, <1>4, ViewChanges, ServerChanges DEF SaveKillmails, clientVars, Publish

\* Each character's list is replaced as a whole by one ESI had for it, or kept as
\* a whole, whatever requests fail, are cancelled or served from the cache, and a
\* reported killmail is in none: the loads implement CharacterLists
\* (killmails.rs:134 retain_failed_character_cache, client.rs fetch).
THEOREM LoadsReplaceWholeLists == Spec => ListsReplacedWhole
<1>1. Init /\ IInv => AbstractLists!Init
  BY ListsInitially
<1>2. IInv /\ [Next]_vars => [AbstractLists!Next]_(AbstractLists!vars)
  BY StepsImplement
<1> QED
  BY <1>1, <1>2, InvariantHolds, PTL DEF Spec, ListsReplacedWhole, AbstractLists!Spec
=============================================================================
