----------------------------- MODULE EsiClient -----------------------------
(***************************************************************************)
(* One request to ESI (src/src/integrations/esi/client.rs fetch and post), *)
(* with the response cache it goes through (persistence/esi_cache.rs) and  *)
(* the log of what ESI asked for (integrations/http.rs ApiLog).            *)
(*                                                                         *)
(* ESI is only used by operations that hold the store lock, so a request   *)
(* is one step: it is refused, answered from the cache, or sent and        *)
(* answered.  The content of a URL is a version number; times are          *)
(* relative to now and shrink with each Elapse.                            *)
(***************************************************************************)
EXTENDS Integers, FiniteSets

CONSTANTS
  Url,          \* what the operations ask ESI for
  Cached,       \* the URLs asked for with a cached GET
  Storable,     \* those whose answers may carry an Expires header
  MaxVersion,   \* bound: contents of a URL
  MaxTtl,       \* bound: how long an answer stays fresh
  Wait,         \* how long ESI asks to be left alone; 0 is not at all
  CanGarble     \* whether an answer may be unreadable

ASSUME UrlAssumption == Storable \subseteq Cached /\ Cached \subseteq Url
ASSUME BoundAssumption == MaxVersion \in Nat \ {0} /\ MaxTtl \in Nat
ASSUME WaitAssumption == Wait \subseteq Nat /\ 0 \in Wait
ASSUME GarbleAssumption == CanGarble \in BOOLEAN

VARIABLES
  server,       \* the content ESI has for each URL
  cache,        \* esi_cache.rs, the responses table
  log           \* what is left of the longest cooldown not drained yet

clientVars == <<server, cache, log>>

Version == 1 .. MaxVersion
Garbled == 0    \* a body that cannot be parsed
Nothing == -1   \* no body, no validator, no Expires header

\* A row of the table: the version its validators stand for is Nothing when
\* ESI sent neither an ETag nor a Last-Modified.
Entry == [body : Version \cup {Garbled, Nothing}, etag : Version \cup {Nothing}, ttl : 0 .. MaxTtl]
NoEntry == [body |-> Nothing, etag |-> Nothing, ttl |-> 0]

\* How a request ends: is_fatal tells a failure from an error that must abort.
Result == [kind : {"ok"}, body : Version] \cup [kind : {"failed", "fatal"}, body : {Nothing}]
Failed == [kind |-> "failed", body |-> Nothing]
Fatal == [kind |-> "fatal", body |-> Nothing]
Parsed(body) == IF body = Garbled THEN Failed ELSE [kind |-> "ok", body |-> body]

ClientTypeOK ==
  /\ server \in [Url -> Version]
  /\ cache \in [Cached -> Entry]
  /\ log \in Nat

ClientInit ==
  /\ server = [u \in Url |-> 1]
  /\ cache = [u \in Cached |-> NoEntry]
  /\ log = 0

Longer(a, b) == IF a >= b THEN a ELSE b
Less(t) == IF t > 0 THEN t - 1 ELSE 0

-----------------------------------------------------------------------------
(* What ESI may answer.  A 304 only answers a request with a validator that *)
(* still holds.  `etag` tells whether an answer has a validator, `ttl` is   *)
(* Nothing when it may not be stored (no-store, no readable Expires).       *)

Kind == {"ok", "notModified", "limited", "serverError", "refused", "none"}
Answer == [kind : Kind, body : Version \cup {Garbled, Nothing}, etag : BOOLEAN,
           ttl : 0 .. MaxTtl \cup {Nothing}, wait : Wait]

\* The answers that carry no body and no cache header, and those that do.
Bare(kinds, waits) ==
  [kind : kinds, body : {Nothing}, etag : {FALSE}, ttl : {Nothing}, wait : waits]
NotModified(u, entry, waits) ==
  IF entry.etag = server[u]
  THEN [kind : {"notModified"}, body : {Nothing}, etag : BOOLEAN,
        ttl : 0 .. MaxTtl \cup {Nothing}, wait : waits]
  ELSE {}
Content(u, waits) ==
  [kind : {"ok"}, body : {server[u]} \cup (IF CanGarble THEN {Garbled} ELSE {}),
   etag : IF u \in Storable THEN BOOLEAN ELSE {FALSE},
   ttl : IF u \in Storable THEN 0 .. MaxTtl \cup {Nothing} ELSE {Nothing}, wait : waits]

Answers(u, entry, waits) ==
  Bare({"none"}, {0}) \cup Bare({"limited", "serverError", "refused"}, waits)
  \cup NotModified(u, entry, waits) \cup Content(u, waits)

\* An ESI in order: it answers what was asked, and in a form that can be read.
GoodAnswers(u, entry, waits) ==
  NotModified(u, entry, waits) \cup {a \in Content(u, waits) : a.body # Garbled}

-----------------------------------------------------------------------------
(* The response cache *)

\* Mutated form of Stored: the validator of the earlier body is kept.
StoredUnderOldTag(u, entry, a) ==
  [body |-> a.body, ttl |-> a.ttl,
   etag |-> IF entry.etag # Nothing THEN entry.etag ELSE IF a.etag THEN server[u] ELSE Nothing]

\* The row an answer becomes, validators included, whether or not it can be parsed.
Stored(u, entry, a) ==
  [body |-> a.body, ttl |-> a.ttl, etag |-> IF a.etag THEN server[u] ELSE Nothing]

\* An answer says whether it may be stored: no "no-store", a readable Expires.
MayStore(a) == a.ttl # Nothing

\* prune: the least recently used rows go, any but the one just written.
Dropped(u) == SUBSET {v \in Cached \ {u} : cache[v] # NoEntry}

\* store: a write that fails changes nothing.
Store(u, a) ==
  \/ UNCHANGED cache
  \/ /\ MayStore(a)
     /\ \E dropped \in Dropped(u) :
           cache' = [v \in Cached |-> IF v = u THEN Stored(u, cache[u], a)
                                      ELSE IF v \in dropped THEN NoEntry ELSE cache[v]]

\* revalidate: a new expiry, and the validators ESI sent again.
Revalidate(u, a) ==
  \/ UNCHANGED cache
  \/ /\ MayStore(a)
     /\ cache' = [cache EXCEPT ![u].ttl = a.ttl, ![u].etag = IF a.etag THEN server[u] ELSE @]

-----------------------------------------------------------------------------
(* observe_rate_limit and esi_limit_error.  Retry-After, an exhausted error *)
(* budget and a low rate budget are all cooldowns of the source "esi", and  *)
(* check_cooldown looks at the longest.                                     *)

Observe(a) == log' = Longer(log, a.wait)

Refuse(r) == log > 0 /\ r = Fatal /\ UNCHANGED clientVars

\* An answer to a request without a cached response.
Plain(a) ==
  CASE a.kind = "ok"      -> Parsed(a.body)
    [] a.kind = "limited" -> Fatal
    [] OTHER              -> Failed

\* post, and fetch of what is never cached.
Send(u, r, answers) ==
  \/ Refuse(r)
  \/ /\ log = 0
     /\ \E a \in answers : r = Plain(a) /\ Observe(a)
     /\ UNCHANGED <<server, cache>>

\* With a cached response: the answer, or the response however old.
Served(entry, a) ==
  IF entry.body # Nothing /\ a.kind \in {"none", "serverError", "notModified"}
  THEN Parsed(entry.body)
  ELSE Plain(a)

\* fetch of what may be cached: refused before anything else, then the fresh
\* response, then ESI with the validators of a stale one.
Get(u, r, answers) ==
  \/ Refuse(r)
  \/ log = 0 /\ cache[u].ttl > 0 /\ r = Parsed(cache[u].body) /\ UNCHANGED clientVars
  \/ /\ log = 0
     /\ cache[u].ttl = 0
     /\ \E a \in answers :
           /\ r = Served(cache[u], a)
           /\ Observe(a)
           /\ \/ a.kind = "ok" /\ Store(u, a)
              \/ a.kind = "notModified" /\ Revalidate(u, a)
              \/ a.kind \notin {"ok", "notModified"} /\ UNCHANGED cache
     /\ UNCHANGED server

\* The token of get_authed is asked for when the network is needed, and may
\* fail or abort; ESI is not asked then.
TokenFails(u, r) ==
  /\ log = 0
  /\ cache[u].ttl = 0
  /\ r \in {Failed, Fatal}
  /\ UNCHANGED clientVars

\* A second passes for the cached responses and the log.
Elapse ==
  /\ cache' = [u \in Cached |-> [cache[u] EXCEPT !.ttl = Less(@)]]
  /\ log' = Less(log)
  /\ UNCHANGED server
=============================================================================
