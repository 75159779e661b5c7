------------------------ MODULE StatusLookupProofs ------------------------
(***************************************************************************)
(* Proofs about StatusLookup: its inductive invariant, how recent an       *)
(* absence is and the distance of requests, for any killmails, pages,      *)
(* proxies and clocks.                                                     *)
(***************************************************************************)
EXTENDS StatusLookup, FiniteSetTheorems, TLAPS

Parameters ==
  /\ KillTimeAssumption /\ WindowAssumption
  /\ IdsAssumption /\ PagesAssumption /\ TimesAssumption

\* What is used of the constants everywhere: they are natural numbers.
LEMMA ConstantsNat ==
  ASSUME Parameters
  PROVE  /\ QueryValidity \in Nat /\ Spacing \in Nat /\ SendDelay \in Nat
         /\ MaxAge \in Nat /\ MaxTime \in Nat /\ Window \in Nat
         /\ PageSize \in Nat \ {0} /\ MaxPages \in Nat \ {0}
         /\ Window + MaxAge <= MaxTime
BY DEF Parameters, WindowAssumption, PagesAssumption, TimesAssumption

-----------------------------------------------------------------------------
(* Pages and what is gathered from them *)

\* An answer of zKillboard or a proxy is a page that is valid long enough at
\* most, whatever its headers say (zkill.rs lookup_metadata).
LEMMA AnswerIsRecent ==
  ASSUME Parameters, now \in Time, NEW o \in Time, now - MaxAge <= o, o <= now,
         NEW h \in HeadersOf(o)
  PROVE  LET p == [entries |-> ListedPage(number, o), observed |-> ObservedAt(h),
                   until |-> ValidUntil(h)]
         IN  p \in Page /\ Recent(p)
<1> USE ConstantsNat
<1>1. /\ h.date \in {o, now, Never} /\ h.age \in {now - o, Never}
      /\ h.expires \in {o + 1, o + QueryValidity + 1}
  BY DEF HeadersOf
<1>2. ObservedAt(h) \in Time
  BY <1>1 DEF ObservedAt, Time, Never
<1>3. ValidUntil(h) \in 0 .. MaxTime + QueryValidity /\ ValidUntil(h) <= ObservedAt(h) + QueryValidity
  BY <1>1, <1>2 DEF ValidUntil, Time, Never
<1>4. ListedPage(number, o) \in SUBSET Killmail
  BY DEF ListedPage, PageOf, Listed
<1> QED
  BY <1>2, <1>3, <1>4 DEF Page, Recent

\* What was gathered stays as recent as its oldest page (status.rs lookup_status).
LEMMA GatheredIsRecent ==
  ASSUME Parameters, look \in LookType, Recent(look), NEW p \in Page, Recent(p),
         asking \subseteq Killmail
  PROVE  Gathered(p) \in LookType /\ Recent(Gathered(p))
<1> USE ConstantsNat
<1>1. p.observed \in Nat /\ p.until \in Nat /\ p.entries \subseteq Killmail
  BY DEF Page, Time
<1>2. look.observed \in Nat /\ look.until \in Nat /\ look.reported \subseteq Killmail
  BY DEF LookType
<1>3. Covered(p) \in BOOLEAN
  BY DEF Covered
<1>4. Smaller(look.observed, p.observed) \in Nat /\ Smaller(look.until, p.until) \in Nat
  BY <1>1, <1>2 DEF Smaller
<1>5. Smaller(look.until, p.until) <= Smaller(look.observed, p.observed) + QueryValidity
  BY <1>1, <1>2 DEF Smaller, Recent
<1>6. (look.ordered /\ p.observed > look.last) \in BOOLEAN
      /\ (Cardinality(p.entries) = PageSize /\ LastTime(p) = OldestTime) \in BOOLEAN
  OBVIOUS
<1> QED
  BY <1>1, <1>2, <1>3, <1>4, <1>5, <1>6 DEF Gathered, LookType, Recent

\* A lookup is applied: every absence in the store is still recent
\* (status.rs apply_lookup).
LEMMA AppliedIsRecent ==
  ASSUME Parameters, work \in StoreType, RecentStore(work), look \in LookType, Recent(look)
  PROVE  LET applied == ApplyLookup(work, asking, look, now)
         IN  /\ applied \in StoreType /\ RecentStore(applied)
             /\ applied.next = work.next
<1> USE ConstantsNat
<1> DEFINE applied == ApplyLookup(work, asking, look, now)
<1>1. /\ applied.pages = work.pages /\ applied.next = work.next
      /\ applied = [status |-> applied.status, pages |-> work.pages, next |-> work.next]
  BY DEF ApplyLookup, StoreType
<1>2. ASSUME NEW m \in Killmail
      PROVE  /\ applied.status[m] \in ZkillStatus
             /\ applied.status[m].kind = "Unreported" =>
                  applied.status[m].until <= applied.status[m].at + QueryValidity
  <2>1. applied.status[m] \in {work.status[m], Reported, Absent(work, m, look)}
    BY DEF ApplyLookup, StoreType
  <2>2. /\ work.status[m] \in ZkillStatus
        /\ work.status[m].kind = "Unreported" =>
             work.status[m].until <= work.status[m].at + QueryValidity
    BY DEF StoreType, RecentStore
  <2>3. Absent(work, m, look) \in ZkillStatus
        /\ Absent(work, m, look).until <= Absent(work, m, look).at + QueryValidity
    BY <2>2 DEF Absent, Unreported, ZkillStatus, StatusKind, LookType, Recent
  <2>4. Reported \in ZkillStatus /\ Reported.kind # "Unreported"
    BY DEF Reported, ZkillStatus, StatusKind
  <2> QED
    BY <2>1, <2>2, <2>3, <2>4
<1>3. applied.status \in [Killmail -> ZkillStatus]
  <2>1. applied.status = [m \in Killmail |-> applied.status[m]]
    BY DEF ApplyLookup, StoreType
  <2> QED
    BY <1>2, <2>1
<1> QED
  BY <1>1, <1>2, <1>3 DEF StoreType, RecentStore

\* Time passes for a store.
LEMMA StoreLater ==
  ASSUME Parameters, now \in Time, now < MaxTime, NEW s \in StoreType, RecentStore(s)
  PROVE  /\ At(s, now + 1) \in StoreType /\ RecentStore(At(s, now + 1))
         /\ At(s, now + 1).next = IF s.next <= now + 1 THEN 0 ELSE s.next
<1> USE ConstantsNat
<1> DEFINE t == At(s, now + 1)
<1>1. /\ NoStatus \in ZkillStatus /\ NoStatus.kind # "Unreported"
      /\ NoPage \in Page /\ Recent(NoPage)
  BY DEF NoStatus, ZkillStatus, StatusKind, NoPage, Page, Time, Recent
<1>2. t.status \in [Killmail -> ZkillStatus] /\ t.pages \in [Pages -> Page]
  BY <1>1 DEF At, StoreType
<1>3. t.next \in 0 .. MaxTime + Spacing /\ t.next = IF s.next <= now + 1 THEN 0 ELSE s.next
  BY DEF At, StoreType
<1>4. t \in StoreType
  BY <1>2, <1>3 DEF At, StoreType
<1>5. RecentStore(t)
  BY <1>1 DEF At, StoreType, RecentStore
<1> QED
  BY <1>3, <1>4, <1>5

-----------------------------------------------------------------------------
(* The steps of a lookup and of a submission *)

LEMMA ParametersHold == Parameters
BY KillTimeAssumption, WindowAssumption, IdsAssumption, PagesAssumption, TimesAssumption
DEF Parameters

LEMMA Initially == ASSUME Init PROVE IInv
<1> USE ConstantsNat, ParametersHold
<1>1. /\ NoStatus \in ZkillStatus /\ NoStatus.kind # "Unreported"
      /\ NoPage \in Page /\ Recent(NoPage)
  BY DEF NoStatus, ZkillStatus, StatusKind, NoPage, Page, Time, Recent
<1>2. disk \in StoreType /\ RecentStore(disk) /\ disk.next = 0
  BY <1>1 DEF Init, StoreType, RecentStore
<1>3. TypeOK
  BY <1>2 DEF Init, TypeOK, Time, Never, Step
<1>4. look \in LookType /\ Recent(look)
  BY DEF Init, NoLook, LookType, Recent, Never
<1>5. Evidence
  BY <1>2, <1>4 DEF Init, Evidence
<1>6. Reservations
  BY <1>2 DEF Init, Reservations, Holds
<1> QED
  BY <1>3, <1>5, <1>6 DEF IInv

\* Whatever ends an operation leaves the persisted store to the next one.
LEMMA EndKeeps ==
  ASSUME IInv, End, UNCHANGED <<now, recorded, since>>,
         disk' \in StoreType, RecentStore(disk)', Holds(disk.next, since)'
  PROVE  IInv'
<1> USE ConstantsNat, ParametersHold
<1>1. TypeOK'
  BY DEF IInv, TypeOK, End, Step
<1>2. (look \in LookType /\ Recent(look))'
  BY DEF End, NoLook, LookType, Recent, Never
<1>3. Evidence'
  BY <1>2 DEF IInv, Evidence, End, RecentStore
<1>4. Reservations'
  BY DEF Reservations, End
<1> QED
  BY <1>1, <1>3, <1>4 DEF IInv

\* Operations begin and killmails are submitted by others (store.rs update).
LEMMA BeginKeeps ==
  ASSUME IInv, (\E k \in Killmail : Record(k)) \/ BeginLookup \/ BeginPost
  PROVE  IInv'
<1> USE ConstantsNat, ParametersHold
<1>1. CASE \E k \in Killmail : Record(k)
  <2>1. PICK k \in Killmail : Record(k)
    BY <1>1
  <2>2. TypeOK'
    BY <2>1 DEF IInv, TypeOK, Record, Time, Never, StoreType
  <2>3. Evidence' /\ Reservations'
    BY <2>1 DEF IInv, Record, Evidence, Reservations, RecentStore, Recent, Holds
  <2> QED
    BY <2>2, <2>3 DEF IInv
<1>2. CASE BeginLookup
  <2>1. TypeOK'
    BY <1>2 DEF IInv, TypeOK, BeginLookup, Step
  <2>2. Evidence' /\ Reservations'
    BY <1>2 DEF IInv, TypeOK, BeginLookup, Evidence, Reservations, RecentStore, Recent, Holds
  <2> QED
    BY <2>1, <2>2 DEF IInv
<1>3. CASE BeginPost
  <2>1. TypeOK'
    BY <1>3 DEF IInv, TypeOK, BeginPost, Step
  <2>2. Evidence' /\ Reservations'
    BY <1>3 DEF IInv, TypeOK, BeginPost, Evidence, Reservations, RecentStore, Recent, Holds
  <2> QED
    BY <2>1, <2>2 DEF IInv
<1> QED
  BY <1>1, <1>2, <1>3

\* A page is gathered, from the cache or from an answer (status.rs lookup_status).
LEMMA UsePageKeeps ==
  ASSUME IInv, op = "lookup", step \in {"page", "sent"}, NEW p \in Page, Recent(p), UsePage(p),
         UNCHANGED <<now, recorded, disk, op, asking, writing, since>>,
         work' \in StoreType, RecentStore(work)', work'.next = work.next
  PROVE  IInv'
<1> USE ConstantsNat, ParametersHold
<1>1. look' \in LookType /\ Recent(look)'
  <2>1. asking \subseteq Killmail
    BY IdsAssumption DEF IInv, TypeOK
  <2>2. Gathered(p) \in LookType /\ Recent(Gathered(p))
    BY <2>1, GatheredIsRecent DEF IInv, Evidence
  <2> QED
    BY <2>2 DEF UsePage, Recent
<1>2. number \in Pages
  BY DEF IInv, TypeOK, Evidence, Pages
<1>3. number' \in 1 .. MaxPages /\ step' \in {"apply", "page"}
  <2>1. \/ step' = "apply" /\ number' = number
        \/ number # MaxPages /\ step' = "page" /\ number' = number + 1
    BY Zenon DEF UsePage
  <2> QED
    BY <1>2, <2>1 DEF Pages
<1>4. TypeOK'
  BY <1>3 DEF IInv, TypeOK, Step
<1>5. Evidence'
  BY <1>1, <1>3 DEF IInv, Evidence, RecentStore
<1>6. Reservations'
  BY <1>3 DEF IInv, Reservations, Holds
<1> QED
  BY <1>4, <1>5, <1>6 DEF IInv

LEMMA PageKeeps ==
  ASSUME IInv, CachedPage \/ NoCachedPage
  PROVE  IInv'
<1> USE ConstantsNat, ParametersHold
<1>1. CASE CachedPage
  <2>1. op = "lookup" /\ number \in Pages /\ step = "page"
    BY <1>1 DEF IInv, TypeOK, Evidence, CachedPage, Pages
  <2>2. work.pages[number] \in Page /\ Recent(work.pages[number])
    BY <2>1 DEF IInv, TypeOK, Evidence, RecentStore, StoreType
  <2>3. work' \in StoreType /\ RecentStore(work)' /\ work'.next = work.next
    BY <1>1 DEF IInv, TypeOK, Evidence, CachedPage, RecentStore
  <2> QED
    BY <1>1, <2>1, <2>2, <2>3, UsePageKeeps DEF CachedPage
<1>2. CASE NoCachedPage
  <2>1. TypeOK'
    BY <1>2 DEF IInv, TypeOK, NoCachedPage, Step
  <2>2. Evidence'
    BY <1>2 DEF IInv, NoCachedPage, Evidence, RecentStore, Recent
  <2>3. Reservations'
    BY <1>2 DEF IInv, TypeOK, NoCachedPage, Reservations, Holds
  <2> QED
    BY <2>1, <2>2, <2>3 DEF IInv
<1> QED
  BY <1>1, <1>2

\* A request is reserved, the reservation persisted, the request sent
\* (timing.rs reserve_zkill_request).
LEMMA RequestKeeps ==
  ASSUME IInv, Reserve \/ PersistReservation \/ Send
  PROVE  IInv' /\ (Send => since >= Spacing)
<1> USE ConstantsNat, ParametersHold
<1>0. /\ now \in Nat /\ now <= MaxTime /\ writing \in Nat /\ since \in Nat
      /\ disk.next \in Nat /\ work.next \in Nat
  BY DEF IInv, TypeOK, Time, StoreType
<1>1. CASE Reserve
  <2>1. since >= Spacing
    BY <1>0, <1>1 DEF IInv, Reserve, Reservations, Holds
  <2>2. work' \in StoreType /\ work'.next = now + Spacing /\ RecentStore(work)'
    BY <1>0, <1>1 DEF IInv, TypeOK, Reserve, StoreType, Evidence, RecentStore
  <2>3. TypeOK'
    BY <1>1, <2>2 DEF IInv, TypeOK, Reserve, Step
  <2>4. Evidence'
    BY <1>1, <2>2 DEF IInv, Reserve, Evidence, RecentStore, Recent
  <2>5. Reservations'
    BY <1>0, <1>1, <2>1, <2>2 DEF IInv, Reserve, Reservations, Holds
  <2> QED
    BY <1>1, <2>3, <2>4, <2>5 DEF IInv, Reserve, Send
<1>2. CASE PersistReservation
  <2>1. TypeOK'
    BY <1>2 DEF IInv, TypeOK, PersistReservation, Reserved, Step
  <2>2. Evidence'
    BY <1>2 DEF IInv, PersistReservation, Reserved, Evidence, RecentStore, Recent
  <2>3. Reservations'
    BY <1>0, <1>2 DEF IInv, PersistReservation, Reserved, Reservations, Holds
  <2> QED
    BY <1>2, <2>1, <2>2, <2>3 DEF IInv, PersistReservation, Send
<1>3. CASE Send
  <2>1. since' \in 0 .. Spacing /\ (since' < Spacing => since' = writing)
    BY <1>0, <1>3 DEF Send, Smaller
  <2>2. TypeOK'
    BY <1>3, <2>1 DEF IInv, TypeOK, Send, Step
  <2>3. Evidence'
    BY <1>3 DEF IInv, Send, Evidence, RecentStore, Recent
  <2>4. Reservations'
    BY <1>0, <1>3, <2>1 DEF IInv, Send, Reservations, Holds
  <2>5. since >= Spacing
    BY <1>3 DEF IInv, Send, Reservations
  <2> QED
    BY <2>2, <2>3, <2>4, <2>5 DEF IInv
<1> QED
  BY <1>1, <1>2, <1>3

\* An answer arrives, or none (zkill.rs killmail_page, status.rs refresh).
LEMMA AnswerKeeps ==
  ASSUME IInv,
         \/ \E o \in Time : now - MaxAge <= o /\ o <= now /\ \E h \in HeadersOf(o) : Answer(o, h)
         \/ Fails
  PROVE  IInv'
<1> USE ConstantsNat, ParametersHold
<1>1. CASE \E o \in Time : now - MaxAge <= o /\ o <= now /\ \E h \in HeadersOf(o) : Answer(o, h)
  <2>1. PICK o \in Time : now - MaxAge <= o /\ o <= now /\ \E h \in HeadersOf(o) : Answer(o, h)
    BY <1>1
  <2>2. PICK h \in HeadersOf(o) : Answer(o, h)
    BY <2>1
  <2> DEFINE p == [entries |-> ListedPage(number, o), observed |-> ObservedAt(h),
                   until |-> ValidUntil(h)]
  <2>3. p \in Page /\ Recent(p)
    BY <2>1, AnswerIsRecent DEF IInv, TypeOK
  <2>4. /\ op = "lookup" /\ step = "sent" /\ UsePage(p)
        /\ work' = [work EXCEPT !.pages[number] = p]
        /\ UNCHANGED <<now, recorded, disk, op, asking, writing, since>>
    BY <2>2 DEF Answer
  <2> HIDE DEF p
  <2>5. number \in Pages
    BY <2>4 DEF IInv, TypeOK, Evidence, Pages
  <2>6. work' \in StoreType /\ RecentStore(work)' /\ work'.next = work.next
    BY <2>3, <2>4, <2>5 DEF IInv, TypeOK, Evidence, StoreType, RecentStore
  <2> QED
    BY <2>3, <2>4, <2>6, UsePageKeeps
<1>2. CASE Fails
  <2>1. TypeOK'
    BY <1>2 DEF IInv, TypeOK, Fails, Step
  <2>2. Evidence' /\ Reservations'
    BY <1>2 DEF IInv, Fails, Evidence, Reservations, RecentStore, Recent, Holds
  <2> QED
    BY <2>1, <2>2 DEF IInv
<1> QED
  BY <1>1, <1>2

\* A lookup is applied, and operations end (status.rs apply_lookup, store.rs save).
LEMMA ApplyKeeps ==
  ASSUME IInv, Apply \/ Save \/ Stops
  PROVE  IInv'
<1> USE ConstantsNat, ParametersHold
<1>1. CASE Apply
  <2>1. work' \in StoreType /\ RecentStore(work)' /\ work'.next = work.next
    BY <1>1, AppliedIsRecent DEF IInv, TypeOK, Evidence, Apply, RecentStore
  <2>2. TypeOK'
    BY <1>1, <2>1 DEF IInv, TypeOK, Apply, Step
  <2>3. Evidence' /\ Reservations'
    BY <1>1, <2>1 DEF IInv, Apply, Evidence, Reservations, RecentStore, Recent, Holds
  <2> QED
    BY <2>2, <2>3 DEF IInv
<1>2. CASE Save
  <2>1. work.next = disk.next
    BY <1>2 DEF IInv, Reservations, Save
  <2>2. disk' \in StoreType /\ RecentStore(disk)' /\ Holds(disk.next, since)'
    BY <1>2, <2>1 DEF IInv, TypeOK, Evidence, Reservations, Save, RecentStore, Holds
  <2> QED
    BY <1>2, <2>2, EndKeeps DEF Save
<1>3. CASE Stops
  <2>1. disk' \in StoreType /\ RecentStore(disk)' /\ Holds(disk.next, since)'
    BY <1>3 DEF IInv, TypeOK, Evidence, Reservations, Stops, RecentStore, Holds
  <2> QED
    BY <1>3, <2>1, EndKeeps DEF Stops
<1> QED
  BY <1>1, <1>2, <1>3

\* Time passes: what was reserved is still held as long as it matters.
LEMMA TickKeeps ==
  ASSUME IInv, Tick
  PROVE  IInv'
<1> USE ConstantsNat, ParametersHold
<1>0. /\ now \in Nat /\ now + 1 <= MaxTime /\ now' = now + 1
      /\ writing \in 0 .. SendDelay /\ since \in 0 .. Spacing
      /\ disk.next \in Nat /\ work.next \in Nat
  BY DEF IInv, TypeOK, Time, StoreType, Tick
<1>1. /\ disk' \in StoreType /\ RecentStore(disk')
      /\ disk'.next = IF disk.next <= now' THEN 0 ELSE disk.next
  BY <1>0, StoreLater DEF IInv, TypeOK, Evidence, Tick
<1>2. /\ work' \in StoreType /\ RecentStore(work')
      /\ work'.next = IF work.next <= now' THEN 0 ELSE work.next
  BY <1>0, StoreLater DEF IInv, TypeOK, Evidence, Tick
<1>3. since' \in 0 .. Spacing /\ since' >= since /\ (since' < Spacing => since' = since + 1)
  <2>1. since' = IF since + 1 < Spacing THEN since + 1 ELSE Spacing
    BY Zenon DEF Tick, Smaller
  <2>2. since \in Nat /\ since <= Spacing /\ Spacing \in Nat
    BY <1>0
  <2>3. CASE since + 1 < Spacing
    BY <2>1, <2>2, <2>3
  <2>4. CASE ~(since + 1 < Spacing)
    BY <2>1, <2>2, <2>4
  <2> QED
    BY <2>3, <2>4
<1>4. writing' \in 0 .. SendDelay /\ (step \in {"writing", "send"} => writing' = writing + 1)
  BY <1>0 DEF Tick
<1>5. TypeOK'
  BY <1>0, <1>1, <1>2, <1>3, <1>4 DEF IInv, TypeOK, Tick, Time, Never
<1>6. Evidence'
  BY <1>1, <1>2 DEF IInv, Evidence, Tick, RecentStore, Recent
<1>7. ASSUME NEW next \in Nat, NEW later, NEW ago \in Nat,
             Holds(next, ago), later = IF next <= now + 1 THEN 0 ELSE next, ago + 1 < Spacing
      PROVE  later + ago + 1 >= now + 1 + Spacing
  BY <1>0, <1>7 DEF Holds
<1>8. step \in {"writing", "send"} => since' >= Spacing
  BY <1>0, <1>3 DEF IInv, Reservations
<1>9. Holds(disk.next, since)'
  BY <1>0, <1>1, <1>3, <1>7 DEF IInv, Reservations, Holds
<1>10. step = "writing" => Holds(work.next, writing)'
  BY <1>0, <1>2, <1>4, <1>7 DEF IInv, Reservations, Holds
<1>11. step = "send" => Holds(disk.next, writing)'
  BY <1>0, <1>1, <1>4, <1>7 DEF IInv, Reservations, Holds
<1>12. Reservations'
  BY <1>1, <1>2, <1>8, <1>9, <1>10, <1>11 DEF IInv, Reservations, Tick
<1> QED
  BY <1>5, <1>6, <1>12 DEF IInv

LEMMA Inductive == ASSUME IInv, [Next]_vars PROVE IInv'
<1>1. CASE UNCHANGED vars
  BY <1>1 DEF vars, IInv, TypeOK, Evidence, Reservations, RecentStore, Recent, Holds
<1>2. CASE Next
  BY <1>2, BeginKeeps, PageKeeps, RequestKeeps, AnswerKeeps, ApplyKeeps, TickKeeps DEF Next
<1> QED
  BY <1>1, <1>2

-----------------------------------------------------------------------------
(* Counting lists: the place of a killmail and the pages of a list *)

LEMMA KillmailsFinite ==
  /\ IsFiniteSet(Killmail) /\ Killmail \subseteq Nat /\ KillTime \in [Killmail -> Nat]
  /\ \A j, k \in Killmail : j <= k => KillTime[j] <= KillTime[k]
BY OrderAssumption, IdsAssumption, KillTimeAssumption

LEMMA LeastNumber ==
  ASSUME NEW T \in SUBSET Nat, T # {}
  PROVE  \E t \in T : \A u \in T : t <= u
<1>1. \E t \in T : \A u \in T : ~ (<<u, t>> \in OpToRel(<, Nat))
  BY NatLessThanWellFounded, WFMin
<1>2. \A u, t \in T : u < t => <<u, t>> \in OpToRel(<, Nat)
  BY DEF OpToRel
<1>3. \E t \in T : \A u \in T : ~ (u < t)
  BY <1>1, <1>2, Zenon
<1> QED
  BY <1>3

LEMMA PageBounds ==
  ASSUME NEW n \in Nat \ {0}
  PROVE  /\ (n - 1) * PageSize \in Nat /\ n * PageSize \in Nat
         /\ n * PageSize = (n - 1) * PageSize + PageSize
<1>1. PageSize \in Nat
  BY ConstantsNat, ParametersHold
<1> QED
  BY <1>1

LEMMA PlaceType ==
  ASSUME NEW S \in SUBSET Killmail, NEW k \in Killmail
  PROVE  /\ IsFiniteSet(S) /\ Cardinality(S) \in Nat
         /\ Place(S, k) \in Nat /\ Place(S, k) <= Cardinality(S)
         /\ k \in S => Place(S, k) >= 1
<1> DEFINE before == {j \in S : j >= k}
<1>1. IsFiniteSet(S)
  BY KillmailsFinite, FS_Subset
<1>2. before \in SUBSET S
  OBVIOUS
<1>3. IsFiniteSet(before) /\ Cardinality(before) <= Cardinality(S)
  BY <1>1, <1>2, FS_Subset
<1>4. Cardinality(S) \in Nat /\ Cardinality(before) \in Nat
  BY <1>1, <1>3, FS_CardinalityType
<1>5. k \in S => k \in before
  BY KillmailsFinite
<1>6. k \in S => Cardinality(before) # 0
  BY <1>3, <1>5, FS_EmptySet
<1> QED
  BY <1>1, <1>3, <1>4, <1>6 DEF Place

\* A list that grows moves nothing to the front.
LEMMA PlaceGrows ==
  ASSUME NEW S \in SUBSET Killmail, NEW T \in SUBSET Killmail, S \subseteq T, NEW k \in Killmail
  PROVE  Place(S, k) <= Place(T, k)
<1>1. {j \in S : j >= k} \in SUBSET {j \in T : j >= k}
  OBVIOUS
<1>2. IsFiniteSet({j \in T : j >= k})
  <2>1. {j \in T : j >= k} \in SUBSET Killmail
    OBVIOUS
  <2> QED
    BY <2>1, KillmailsFinite, FS_Subset
<1> QED
  BY <1>1, <1>2, FS_Subset DEF Place

\* Newer killmails come first.
LEMMA PlaceOrder ==
  ASSUME NEW S \in SUBSET Killmail, NEW j \in S, NEW k \in S, j > k
  PROVE  Place(S, j) < Place(S, k)
<1> DEFINE A == {i \in S : i >= j}
           B == {i \in S : i >= k}
<1>0. j \in Nat /\ k \in Nat /\ S \subseteq Nat
  BY KillmailsFinite
<1>1. A \in SUBSET B
  <2>1. \A i \in S : i \in Nat /\ (i >= j => i >= k)
    BY <1>0
  <2> QED
    BY <2>1
<1>2. k \in B /\ k \notin A
  BY <1>0
<1>3. IsFiniteSet(B) /\ Cardinality(B) \in Nat /\ Cardinality(A) \in Nat
  <2>1. B \in SUBSET Killmail /\ A \in SUBSET Killmail
    OBVIOUS
  <2> QED
    BY <2>1, KillmailsFinite, FS_Subset, FS_CardinalityType
<1>4. Cardinality(A) <= Cardinality(B) /\ Cardinality(A) # Cardinality(B)
  <2> HIDE DEF A, B
  <2> QED
    BY <1>1, <1>2, <1>3, FS_Subset
<1> QED
  BY <1>3, <1>4 DEF Place

\* Every place of a list is taken once.
LEMMA PlacesTaken ==
  ASSUME NEW S \in SUBSET Killmail
  PROVE  /\ \A j, k \in S : Place(S, j) = Place(S, k) => j = k
         /\ \A i \in 1 .. Cardinality(S) : \E k \in S : Place(S, k) = i
<1> DEFINE f == [k \in S |-> Place(S, k)]
           I == 1 .. Cardinality(S)
<1>1. \A j, k \in S : Place(S, j) = Place(S, k) => j = k
  <2> SUFFICES ASSUME NEW j \in S, NEW k \in S, j # k
               PROVE  Place(S, j) # Place(S, k)
    OBVIOUS
  <2>1. j \in Nat /\ k \in Nat /\ Place(S, j) \in Nat /\ Place(S, k) \in Nat
    BY KillmailsFinite, PlaceType
  <2>2. CASE j > k
    BY <2>1, <2>2, PlaceOrder
  <2>3. CASE k > j
    BY <2>1, <2>3, PlaceOrder
  <2> QED
    BY <2>1, <2>2, <2>3
<1>2. \A k \in S : Place(S, k) \in I
  BY PlaceType
<1>3. f \in Injection(S, I)
  BY <1>1, <1>2 DEF Injection, IsInjective
<1>4. IsFiniteSet(S) /\ Cardinality(S) \in Nat
  BY KillmailsFinite, FS_Subset, FS_CardinalityType
<1>5. IsFiniteSet(I) /\ Cardinality(I) = Cardinality(S)
  <2>1. IsFiniteSet(I) /\ Cardinality(I) = IF 1 > Cardinality(S) THEN 0 ELSE Cardinality(S) - 1 + 1
    BY <1>4, FS_Interval
  <2> QED
    BY <1>4, <2>1
<1>6. f \in Surjection(S, I)
  <2> HIDE DEF f, I
  <2> QED
    BY <1>3, <1>5, FS_Injection
<1>7. \A i \in I : \E k \in S : f[k] = i
  BY <1>6 DEF Surjection
<1> QED
  BY <1>1, <1>7

\* A page in front of a killmail of the list is full.
LEMMA FullPage ==
  ASSUME NEW S \in SUBSET Killmail, NEW m \in Killmail, NEW n \in Nat \ {0},
         Place(S, m) > n * PageSize
  PROVE  Cardinality(PageOf(S, n)) = PageSize
<1> DEFINE a == (n - 1) * PageSize
           b == n * PageSize
           P == PageOf(S, n)
           g == [k \in P |-> Place(S, k)]
<1>0. a \in Nat /\ b \in Nat /\ b = a + PageSize /\ PageSize \in Nat \ {0}
  BY PageBounds, ConstantsNat, ParametersHold
<1>1. b <= Cardinality(S) /\ Cardinality(S) \in Nat
  BY <1>0, PlaceType
<1>2. P \in SUBSET S /\ \A k \in S : k \in P <=> Place(S, k) \in a + 1 .. b
  BY DEF PageOf
<1>3. IsFiniteSet(P)
  BY <1>2, PlaceType, FS_Subset
<1> HIDE DEF a, b, P
<1>4. g \in Injection(P, a + 1 .. b)
  <2>1. g \in [P -> a + 1 .. b]
    BY <1>2
  <2>2. \A j, k \in P : g[j] = g[k] => j = k
    BY <1>2, PlacesTaken
  <2> QED
    BY <2>1, <2>2 DEF Injection, IsInjective
<1>5. g \in Surjection(P, a + 1 .. b)
  <2>1. \A i \in a + 1 .. b : i \in 1 .. Cardinality(S)
    BY <1>0, <1>1
  <2>2. \A i \in a + 1 .. b : \E k \in S : Place(S, k) = i
    BY <2>1, PlacesTaken
  <2>3. \A i \in a + 1 .. b : \E k \in P : g[k] = i
    BY <1>2, <2>2
  <2>4. g \in [P -> a + 1 .. b]
    BY <1>2
  <2> QED
    BY <2>3, <2>4 DEF Surjection
<1>6. ExistsBijection(P, a + 1 .. b)
  BY <1>4, <1>5 DEF ExistsBijection, Bijection
<1>7. Cardinality(a + 1 .. b) = Cardinality(P)
  BY <1>3, <1>6, FS_Bijection
<1>8. Cardinality(a + 1 .. b) = IF a + 1 > b THEN 0 ELSE b - (a + 1) + 1
  BY <1>0, FS_Interval
<1> QED
  BY <1>0, <1>7, <1>8 DEF P

\* A lookup that stops in front of a candidate it has not seen stops at the
\* second of the oldest candidate (status.rs lookup_status `complete`).
LEMMA StopsInFront ==
  ASSUME NEW S \in SUBSET Killmail, asking \subseteq Killmail, NEW m \in S, m \in asking,
         NEW n \in Nat \ {0}, Place(S, m) > n * PageSize,
         NEW p, p.entries = PageOf(S, n), Covered(p)
  PROVE  Cardinality(p.entries) = PageSize /\ LastTime(p) = OldestTime
<1>0. PageSize \in Nat \ {0} /\ n * PageSize \in Nat
  BY PageBounds, ConstantsNat, ParametersHold
<1>1. Cardinality(p.entries) = PageSize
  BY FullPage
<1>2. p.entries \subseteq S /\ p.entries # {}
  BY <1>0, <1>1, FS_EmptySet DEF PageOf
<1>3. \A k \in p.entries : KillTime[m] <= KillTime[k]
  <2> SUFFICES ASSUME NEW k \in p.entries PROVE KillTime[m] <= KillTime[k]
    OBVIOUS
  <2>1. k \in S /\ Place(S, k) <= n * PageSize
    BY <1>0, PageBounds DEF PageOf
  <2>2. Place(S, k) \in Nat /\ Place(S, m) \in Nat /\ k \in Nat /\ m \in Nat
    BY <2>1, PlaceType, KillmailsFinite
  <2>3. ~ (m > k)
    BY <1>0, <2>1, <2>2, PlaceOrder
  <2> QED
    BY <2>1, <2>2, <2>3, KillmailsFinite
<1>4. LastTime(p) \in {KillTime[k] : k \in p.entries}
  <2> DEFINE T == {KillTime[k] : k \in p.entries}
  <2>1. T \in SUBSET Nat /\ T # {}
    BY <1>2, KillmailsFinite
  <2>2. \E t \in T : \A u \in T : t <= u
    <3> HIDE DEF T
    <3> QED
      BY <2>1, LeastNumber
  <2>3. \E t \in T : \A k \in p.entries : t <= KillTime[k]
    BY <2>2
  <2> QED
    BY <2>3 DEF LastTime
<1>5. OldestTime \in Nat /\ OldestTime <= KillTime[m]
  <2> DEFINE T == {KillTime[k] : k \in asking}
  <2>1. T \in SUBSET Nat /\ T # {}
    BY KillmailsFinite
  <2>2. \E t \in T : \A u \in T : t <= u
    <3> HIDE DEF T
    <3> QED
      BY <2>1, LeastNumber
  <2>3. \E t \in T : \A k \in asking : t <= KillTime[k]
    BY <2>2
  <2>4. OldestTime \in T /\ \A k \in asking : OldestTime <= KillTime[k]
    BY <2>3 DEF OldestTime
  <2> QED
    BY <2>1, <2>4
<1>6. LastTime(p) \in Nat /\ KillTime[m] <= LastTime(p) /\ KillTime[m] \in Nat
  BY <1>2, <1>3, <1>4, KillmailsFinite
<1>7. LastTime(p) <= OldestTime
  BY <1>0, <1>1 DEF Covered
<1> QED
  BY <1>1, <1>5, <1>6, <1>7

-----------------------------------------------------------------------------
(* What zKillboard listed, and what a lookup missed of it *)

LEMMA ListFacts ==
  ASSUME NEW o, NEW S
  PROVE  /\ Listed(o) \subseteq Killmail /\ Early(o) \subseteq Listed(o)
         /\ S \in Lists(o) <=> Early(o) \subseteq S /\ S \subseteq Listed(o)
<1>1. Listed(o) \subseteq Killmail /\ Early(o) \subseteq Listed(o)
  BY DEF Listed, Early
<1>2. ASSUME Early(o) \subseteq S, S \subseteq Listed(o)
      PROVE  S \in Lists(o)
  <2>1. S \ Early(o) \in SUBSET (Listed(o) \ Early(o)) /\ S = Early(o) \cup (S \ Early(o))
    BY <1>2
  <2> QED
    BY <2>1 DEF Lists
<1>3. ASSUME S \in Lists(o)
      PROVE  Early(o) \subseteq S /\ S \subseteq Listed(o)
  BY <1>1, <1>3 DEF Lists
<1> QED
  BY <1>1, <1>2, <1>3

\* Lists only grow: what was listed at a second is there at every later one.
LEMMA ListsGrow ==
  ASSUME IInv, NEW o \in Nat, NEW q \in Nat, o < q, NEW S \in Lists(o), NEW T \in Lists(q)
  PROVE  S \subseteq T
<1>0. \A k \in Killmail : recorded[k] \in Nat /\ KillTime[k] \in Nat /\ Window \in Nat
  BY KillmailsFinite, ConstantsNat, ParametersHold DEF IInv, TypeOK, Never
<1>1. Listed(o) \subseteq Early(q)
  BY <1>0 DEF Listed, Early
<1> QED
  BY <1>1, ListFacts

\* What happens to the list, or to the clock, at a step.
Later ==
  /\ now' \in Nat /\ now <= now'
  /\ \A k \in Killmail : \/ recorded'[k] = recorded[k]
                         \/ recorded[k] = Never /\ recorded'[k] = now

LEMMA ListsRemain ==
  ASSUME IInv, Later, NEW o \in Nat, o <= now
  PROVE  /\ Early(o)' = Early(o)
         /\ \A S \in Lists(o) : S \in Lists(o)'
<1>0. now \in Nat /\ now < Never
  BY ConstantsNat, ParametersHold DEF IInv, TypeOK, Time, Never
<1>1. \A k \in Killmail : /\ recorded[k] \in Nat
                          /\ recorded[k] <= o => recorded'[k] = recorded[k]
                          /\ recorded'[k] < o => recorded'[k] = recorded[k]
  BY <1>0, ConstantsNat, ParametersHold DEF IInv, TypeOK, Later, Never
<1>2. Early(o)' = Early(o)
  BY <1>1 DEF Early, Listed
<1>3. Listed(o) \subseteq Listed(o)'
  BY <1>1 DEF Listed
<1>4. SUFFICES ASSUME NEW S \in Lists(o) PROVE S \in Lists(o)'
  BY <1>2
<1>5. Early(o) \subseteq S /\ S \subseteq Listed(o)
  BY ListFacts
<1>6. S \ Early(o) \in SUBSET (Listed(o)' \ Early(o)') /\ S = Early(o)' \cup (S \ Early(o))
  BY <1>2, <1>3, <1>5
<1> QED
  BY <1>6 DEF Lists

LEMMA HonestLater ==
  ASSUME IInv, Later, NEW n \in Pages, NEW p \in Page, Honest(n, p)
  PROVE  Honest(n, p)'
<1>1. SUFFICES ASSUME p.until > 0 PROVE Honest(n, p)'
  BY DEF Honest
<1>2. Window <= p.observed /\ p.observed <= now /\ p.observed \in Nat
  BY <1>1 DEF Honest, Page, Time
<1>3. PICK S \in Lists(p.observed) : p.entries = PageOf(S, n)
  BY <1>1 DEF Honest
<1>4. S \in Lists(p.observed)'
  BY <1>2, ListsRemain
<1>5. p.observed <= now'
  BY <1>2 DEF IInv, TypeOK, Time, Later
<1> QED
  BY <1>2, <1>3, <1>4, <1>5 DEF Honest

\* Pages that were kept, dropped or exchanged between the copies stay honest.
LEMMA PagesKept ==
  ASSUME IInv, TruthInv, Later,
         \A n \in Pages : \A s \in {work', disk'} :
           s.pages[n] = NoPage \/ \E r \in {work, disk} : s.pages[n] = r.pages[n]
  PROVE  HonestPages'
<1>1. SUFFICES ASSUME NEW n \in Pages, NEW s \in {work', disk'} PROVE Honest(n, s.pages[n])'
  BY DEF HonestPages
<1>2. CASE s.pages[n] = NoPage
  BY <1>2 DEF Honest, NoPage
<1>3. ASSUME NEW r \in {work, disk}, s.pages[n] = r.pages[n] PROVE Honest(n, s.pages[n])'
  <2>1. s.pages[n] \in Page
    BY <1>3 DEF IInv, TypeOK, StoreType
  <2>2. Honest(n, s.pages[n])
    <3>1. Honest(n, r.pages[n])
      BY <1>3 DEF TruthInv, HonestPages
    <3> QED
      BY <1>3, <3>1
  <2> QED
    BY <2>1, <2>2, HonestLater
<1> QED
  BY <1>2, <1>3

\* What was followed or concluded stays true while others submit and time passes.
LEMMA LookKept ==
  ASSUME IInv, TruthInv, Later, UNCHANGED <<op, asking, number, look>>,
         step' \in Paging => step \in Paging, step' = "apply" => step = "apply"
  PROVE  Followed' /\ Concluded'
<1>0. now \in Nat /\ now' \in Nat /\ now <= now'
  BY ConstantsNat, ParametersHold DEF IInv, TypeOK, Time, Later
<1>1. PICK o \in Nat : o = look.observed
  BY DEF IInv, Evidence, LookType
<1>2. PICK q \in Nat : q = look.last
  BY DEF IInv, Evidence, LookType
<1>3. ASSUME o <= now PROVE Missed' = Missed
  <2>1. Early(o)' = Early(o)
    BY <1>3, ListsRemain
  <2>2. Missed' = (asking \ look.reported) \cap Early(o)'
    BY <1>1 DEF Missed, Early, Listed
  <2> QED
    BY <1>1, <2>1, <2>2 DEF Missed
<1>4. Followed'
  <2>1. SUFFICES ASSUME op = "lookup", step \in Paging
                 PROVE  Followed'
    BY DEF Followed
  <2>2. number = 1 => look = NoLook
    BY <2>1 DEF TruthInv, Followed
  <2>3. ASSUME number > 1, Sound
        PROVE  /\ Window <= look.observed /\ look.observed <= look.last /\ look.last <= now'
               /\ \E S \in Lists(q)' : \A m \in Missed' : Place(S, m) > (number - 1) * PageSize
    <3>1. /\ Window <= look.observed /\ look.observed <= look.last /\ look.last <= now
          /\ \E S \in Lists(look.last) : \A m \in Missed : Place(S, m) > (number - 1) * PageSize
      BY <2>1, <2>3 DEF TruthInv, Followed
    <3>2. q <= now /\ o <= now /\ q <= now'
      BY <1>0, <1>1, <1>2, <3>1
    <3>3. Missed' = Missed
      BY <1>3, <3>2
    <3>4. \A S \in Lists(q) : S \in Lists(q)'
      BY <3>2, ListsRemain
    <3> QED
      BY <1>2, <3>1, <3>2, <3>3, <3>4
  <2>4. Lists(q)' = Lists(look.last)'
    BY <1>2 DEF Lists, Early, Listed
  <2> QED
    BY <2>2, <2>3, <2>4 DEF Followed, Sound
<1>5. Concluded'
  <2>1. SUFFICES ASSUME step = "apply", Sound, look.complete, ~look.boundary
                 PROVE  Window <= look.observed /\ look.observed <= now' /\ Missed' = {}
    BY DEF Concluded, Sound
  <2>2. Window <= look.observed /\ look.observed <= now /\ Missed = {}
    BY <2>1 DEF TruthInv, Concluded
  <2> QED
    BY <1>0, <1>1, <1>3, <2>2
<1> QED
  BY <1>4, <1>5

\* An answer is a page of a list zKillboard had when it composed it, unless no
\* header says when that was (zkill.rs lookup_metadata).
LEMMA AnswerIsHonest ==
  ASSUME IInv, TruthInv, NEW o \in Time, now - MaxAge <= o, o <= now, NEW h \in HeadersOf(o)
  PROVE  Honest(number, [entries |-> ListedPage(number, o), observed |-> ObservedAt(h),
                         until |-> ValidUntil(h)])
<1> USE ConstantsNat, ParametersHold
<1>1. /\ h.date \in {o, now, Never} /\ h.age \in {now - o, Never}
      /\ h.date = now /\ o # now => h.age # Never
  BY DEF HeadersOf
<1>2. now \in Nat /\ o \in Nat /\ now < Never /\ o < Never /\ Window <= o
  BY DEF IInv, TypeOK, Time, Never, TruthInv
<1>3. ValidUntil(h) > 0 => ObservedAt(h) = o
  BY <1>1, <1>2 DEF ValidUntil, ObservedAt
<1>4. Listed(o) \in Lists(o)
  BY ListFacts
<1> QED
  BY <1>2, <1>3, <1>4 DEF Honest, ListedPage

\* What was missed is behind a page that was composed after the pages before it:
\* a list only grows, so nothing moved to the front of the pages already seen.
LEMMA Behind ==
  ASSUME IInv, TruthInv, op = "lookup", step \in Paging, number \in Pages,
         NEW p \in Page, Honest(number, p), NEW l, l = Gathered(p), l.until > 0, l.ordered
  PROVE  /\ Window <= l.observed /\ l.observed <= l.last /\ l.last <= now
         /\ \E S \in Lists(l.last) :
              /\ p.entries = PageOf(S, number)
              /\ \A m \in (asking \ l.reported) \cap Early(l.observed) :
                   m \in S /\ Place(S, m) > number * PageSize
<1> USE ConstantsNat, ParametersHold
<1>1. /\ l.reported = look.reported \cup (p.entries \cap asking)
      /\ l.observed = Smaller(look.observed, p.observed)
      /\ l.until = Smaller(look.until, p.until)
      /\ l.last = p.observed
      /\ look.ordered /\ p.observed > look.last
  BY DEF Gathered
<1>2. /\ look.observed \in Nat /\ look.until \in Nat /\ look.last \in Nat
      /\ p.observed \in Nat /\ p.until \in Nat /\ p.observed <= MaxTime
      /\ now \in Nat /\ number \in Nat \ {0}
  BY DEF IInv, TypeOK, Evidence, LookType, Page, Time, Pages
<1>3. look.until > 0 /\ p.until > 0
  BY <1>1, <1>2 DEF Smaller
<1>4. /\ Window <= p.observed /\ p.observed <= now
      /\ \E S \in Lists(p.observed) : p.entries = PageOf(S, number)
  BY <1>3 DEF Honest
<1>5. PICK S \in Lists(p.observed) : p.entries = PageOf(S, number)
  BY <1>4
<1>6. S \in SUBSET Killmail /\ Early(p.observed) \subseteq S
  BY ListFacts
<1>7. /\ Window <= l.observed /\ l.observed <= p.observed
      /\ number > 1 => l.observed = look.observed /\ look.observed <= look.last
  <2>1. CASE number = 1
    <3>1. look.observed = Never
      BY <2>1 DEF TruthInv, Followed, NoLook
    <3> QED
      BY <1>1, <1>2, <1>4, <2>1, <3>1 DEF Smaller, Never
  <2>2. CASE number > 1
    <3>1. Window <= look.observed /\ look.observed <= look.last
      BY <1>1, <1>3, <2>2 DEF TruthInv, Followed, Sound
    <3> QED
      BY <1>1, <1>2, <3>1 DEF Smaller
  <2> QED
    BY <1>2, <2>1, <2>2
<1>8. ASSUME NEW m \in (asking \ l.reported) \cap Early(l.observed)
      PROVE  m \in S /\ Place(S, m) > number * PageSize
  <2>1. m \in Killmail /\ recorded[m] < l.observed /\ KillTime[m] + Window <= l.observed
        /\ recorded[m] \in Nat /\ KillTime[m] \in Nat
    <3>1. m \in Killmail /\ recorded[m] < l.observed /\ KillTime[m] + Window <= l.observed
      BY DEF Early, Listed
    <3> QED
      BY <3>1, KillmailsFinite DEF IInv, TypeOK, Never
  <2>2. l.observed \in Nat
    BY <1>1, <1>2 DEF Smaller
  <2>3. m \in Early(p.observed)
    BY <1>2, <1>7, <2>1, <2>2 DEF Early, Listed
  <2>4. m \in S /\ m \notin p.entries
    BY <1>1, <1>6, <2>3
  <2>5. /\ Place(S, m) \in Nat /\ Place(S, m) >= 1
        /\ Place(S, m) \notin (number - 1) * PageSize + 1 .. number * PageSize
    BY <1>5, <1>6, <2>1, <2>4, PlaceType DEF PageOf
  <2>6. Place(S, m) > (number - 1) * PageSize
    <3>1. CASE number = 1
      BY <2>5, <3>1
    <3>2. CASE number > 1
      <4>1. m \in Missed
        BY <1>1, <1>7, <3>2 DEF Missed
      <4>2. PICK T \in Lists(look.last) : Place(T, m) > (number - 1) * PageSize
        BY <1>1, <1>3, <3>2, <4>1 DEF TruthInv, Followed, Sound
      <4>3. T \in SUBSET Killmail /\ T \subseteq S
        BY <1>1, <1>2, ListFacts, ListsGrow
      <4>4. Place(T, m) <= Place(S, m) /\ Place(T, m) \in Nat
        BY <1>6, <2>1, <4>3, PlaceGrows, PlaceType
      <4> QED
        BY <1>2, <2>5, <4>2, <4>4, PageBounds
    <3> QED
      BY <1>2, <3>1, <3>2
  <2>7. (number - 1) * PageSize \in Nat /\ number * PageSize \in Nat
    BY <1>2, PageBounds
  <2> DEFINE a == (number - 1) * PageSize
             b == number * PageSize
  <2>8. Place(S, m) \in Nat /\ Place(S, m) \notin a + 1 .. b /\ Place(S, m) > a
        /\ a \in Nat /\ b \in Nat
    BY <2>5, <2>6, <2>7
  <2>9. Place(S, m) > b
    <3> HIDE DEF a, b
    <3> QED
      BY <2>8
  <2> QED
    BY <2>4, <2>9
<1> QED
  BY <1>1, <1>4, <1>5, <1>7, <1>8

\* A page is gathered: what was missed is behind it, and nothing was if the
\* lookup ends with it as complete.
LEMMA UsePageTruth ==
  ASSUME IInv, TruthInv, op = "lookup", step \in {"page", "sent"},
         NEW p \in Page, Honest(number, p), UsePage(p),
         UNCHANGED <<now, recorded, op, asking>>
  PROVE  Followed' /\ Concluded'
<1> USE ConstantsNat, ParametersHold
<1>1. number \in Pages /\ number \in Nat \ {0} /\ step \in Paging
  BY DEF IInv, TypeOK, Evidence, Pages, Paging
<1>2. PICK l : l = Gathered(p)
  OBVIOUS
<1>3. /\ look' = l
      /\ \/ step' = "apply"
         \/ step' = "page" /\ number' = number + 1
  BY <1>2, Zenon DEF UsePage
<1>4. Missed' = (asking \ l.reported) \cap Early(l.observed)
  BY <1>3 DEF Missed, Early, Listed
<1>5. Lists(look.last)' = Lists(l.last)
  BY <1>3 DEF Lists, Early, Listed
<1>6. ASSUME Sound'
      PROVE  /\ Window <= l.observed /\ l.observed <= l.last /\ l.last <= now
             /\ \E S \in Lists(l.last) :
                  /\ p.entries = PageOf(S, number)
                  /\ \A m \in Missed' : m \in S /\ Place(S, m) > number * PageSize
  <2>1. l.until > 0 /\ l.ordered
    BY <1>3, <1>6 DEF Sound
  <2> QED
    BY <1>1, <1>2, <1>4, <2>1, Behind
<1>7. Followed'
  <2>1. SUFFICES ASSUME step' \in Paging PROVE Followed'
    BY DEF Followed
  <2>2. number' = number + 1 /\ number' \in Nat /\ number' > 1 /\ number' - 1 = number
    BY <1>1, <1>3, <2>1 DEF Paging
  <2> QED
    BY <1>3, <1>5, <1>6, <2>2 DEF Followed
<1>8. Concluded'
  <2>1. SUFFICES ASSUME Sound', l.complete, ~l.boundary
                 PROVE  Window <= l.observed /\ l.observed <= now /\ Missed' = {}
    BY <1>3 DEF Concluded
  <2>2. Covered(p) /\ ~(Cardinality(p.entries) = PageSize /\ LastTime(p) = OldestTime)
    BY <1>2, <2>1 DEF Gathered
  <2>3. PICK S \in Lists(l.last) :
          /\ p.entries = PageOf(S, number)
          /\ \A m \in Missed' : m \in S /\ Place(S, m) > number * PageSize
    BY <1>6, <2>1
  <2>4. S \in SUBSET Killmail /\ asking \subseteq Killmail
    BY ListFacts, IdsAssumption DEF IInv, TypeOK
  <2>5. ASSUME NEW m \in Missed' PROVE FALSE
    <3>1. m \in S /\ m \in asking /\ Place(S, m) > number * PageSize
      BY <1>4, <2>3
    <3> QED
      BY <1>1, <2>2, <2>3, <2>4, <3>1, StopsInFront
  <2>6. l.observed \in Nat /\ l.last \in Nat /\ now \in Nat
    BY <1>1, <1>2 DEF Gathered, Smaller, IInv, TypeOK, Evidence, LookType, Page, Time
  <2> QED
    BY <1>6, <2>1, <2>5, <2>6
<1> QED
  BY <1>7, <1>8

-----------------------------------------------------------------------------
(* Every step keeps what is known of the lists *)

\* The store while nothing is concluded: absences stay as they were.
LEMMA OutstandingKept ==
  ASSUME TruthInv, UNCHANGED <<now, op, asking>>, step # "save",
         work'.status = work.status, disk'.status \in {disk.status, work.status}
  PROVE  Outstanding'
BY DEF TruthInv, Outstanding

LEMMA TruthInitially == ASSUME Init PROVE TruthInv
<1> USE ConstantsNat, ParametersHold
<1>1. HonestPages
  BY DEF Init, HonestPages, Honest, NoPage
<1>2. Outstanding
  BY DEF Init, Outstanding, NoStatus
<1>3. Followed /\ Concluded
  BY DEF Init, Followed, Concluded
<1> QED
  BY <1>1, <1>2, <1>3 DEF Init, TruthInv

LEMMA BeginTruth ==
  ASSUME IInv, TruthInv, (\E k \in Killmail : Record(k)) \/ BeginLookup \/ BeginPost
  PROVE  TruthInv'
<1>0. now \in Nat /\ work \in StoreType /\ disk \in StoreType
  BY ConstantsNat, ParametersHold DEF IInv, TypeOK, Time
<1>1. now' = now /\ work' = work /\ disk' = disk /\ look' = look
  BY DEF Record, BeginLookup, BeginPost
<1>2. Later
  BY <1>0, <1>1 DEF Later, IInv, TypeOK, Record, BeginLookup, BeginPost
<1>3. HonestPages'
  BY <1>1, <1>2, PagesKept
<1>4. CASE \E k \in Killmail : Record(k)
  <2>1. UNCHANGED <<op, step, asking, number>>
    BY <1>4 DEF Record
  <2>2. Followed' /\ Concluded'
    BY <1>1, <1>2, <2>1, LookKept
  <2>3. Outstanding'
    BY <1>1, <2>1 DEF TruthInv, Outstanding
  <2> QED
    BY <1>1, <1>3, <2>1, <2>2, <2>3 DEF TruthInv
<1>5. CASE BeginLookup
  <2>1. /\ op = "none" /\ op' = "lookup" /\ step' = "page" /\ number' = 1
        /\ asking' = {m \in Candidate : ReportState(disk, m, now) = "Unknown"}
    BY <1>5 DEF BeginLookup
  <2>2. look' = NoLook /\ work = disk
    BY <1>1, <2>1 DEF IInv, TypeOK, TruthInv
  <2>3. Followed' /\ Concluded'
    BY <2>1, <2>2 DEF Followed, Concluded
  <2>4. Outstanding'
    BY <1>0, <1>1, <2>1, <2>2 DEF TruthInv, Outstanding, ReportState
  <2> QED
    BY <1>1, <1>3, <2>1, <2>3, <2>4 DEF TruthInv
<1>6. CASE BeginPost
  <2>1. op = "none" /\ op' = "post" /\ step' = "reserve" /\ work = disk
    BY <1>6 DEF BeginPost, IInv, TypeOK
  <2>2. Followed' /\ Concluded'
    BY <2>1 DEF Followed, Concluded
  <2>3. Outstanding'
    BY <1>1, <2>1 DEF TruthInv, Outstanding
  <2> QED
    BY <1>1, <1>3, <2>1, <2>2, <2>3 DEF TruthInv
<1> QED
  BY <1>4, <1>5, <1>6

LEMMA PageTruth ==
  ASSUME IInv, TruthInv, CachedPage
  PROVE  TruthInv'
<1>1. /\ step = "page" /\ op = "lookup" /\ number \in Pages /\ op' = op
      /\ work' = work /\ disk' = disk /\ now' = now /\ recorded' = recorded
      /\ UsePage(work.pages[number]) /\ UNCHANGED <<op, asking>>
  BY DEF IInv, TypeOK, Evidence, CachedPage, Pages
<1>2. PICK p \in Page : p = work.pages[number]
  BY <1>1 DEF IInv, TypeOK, StoreType
<1>3. Honest(number, p)
  BY <1>1, <1>2 DEF TruthInv, HonestPages
<1>4. Followed' /\ Concluded'
  BY <1>1, <1>2, <1>3, UsePageTruth
<1>5. HonestPages'
  BY <1>1 DEF TruthInv, HonestPages, Honest, Lists, Early, Listed
<1>6. Outstanding'
  BY <1>1, OutstandingKept
<1> QED
  BY <1>1, <1>4, <1>5, <1>6 DEF TruthInv

LEMMA AnswerTruth ==
  ASSUME IInv, TruthInv, NEW o \in Time, now - MaxAge <= o, o <= now, NEW h \in HeadersOf(o),
         Answer(o, h)
  PROVE  TruthInv'
<1> DEFINE q == [entries |-> ListedPage(number, o), observed |-> ObservedAt(h),
                 until |-> ValidUntil(h)]
<1>1. /\ step = "sent" /\ op = "lookup" /\ number \in Pages /\ op' = op
      /\ work' = [work EXCEPT !.pages[number] = q] /\ disk' = disk
      /\ now' = now /\ recorded' = recorded
      /\ UsePage(q) /\ UNCHANGED <<op, asking>>
  BY DEF IInv, TypeOK, Evidence, Answer, Pages
<1>2. q \in Page
  BY ParametersHold, AnswerIsRecent DEF IInv, TypeOK
<1>3. Honest(number, q)
  BY AnswerIsHonest
<1> HIDE DEF q
<1>4. PICK p \in Page : p = q
  BY <1>2
<1>5. Followed' /\ Concluded'
  BY <1>1, <1>3, <1>4, UsePageTruth
<1>6. Later
  BY <1>1 DEF IInv, TypeOK, Time, Later
<1>7. HonestPages'
  <2>1. SUFFICES ASSUME NEW n \in Pages, NEW s \in {work', disk'} PROVE Honest(n, s.pages[n])'
    BY DEF HonestPages
  <2>2. \/ n = number /\ s.pages[n] = p
        \/ \E r \in {work, disk} : s.pages[n] = r.pages[n]
    BY <1>1, <1>4 DEF IInv, TypeOK, StoreType
  <2>3. s.pages[n] \in Page /\ Honest(n, s.pages[n])
    <3>1. CASE n = number /\ s.pages[n] = p
      BY <1>3, <1>4, <3>1
    <3>2. ASSUME NEW r \in {work, disk}, s.pages[n] = r.pages[n]
          PROVE  s.pages[n] \in Page /\ Honest(n, s.pages[n])
      <4>1. r.pages[n] \in Page
        BY DEF IInv, TypeOK, StoreType
      <4>2. Honest(n, r.pages[n])
        BY DEF TruthInv, HonestPages
      <4> QED
        BY <3>2, <4>1, <4>2
    <3> QED
      BY <2>2, <3>1, <3>2
  <2> QED
    BY <1>6, <2>3, HonestLater
<1>8. work'.status = work.status
  BY <1>1 DEF IInv, TypeOK, StoreType
<1>9. Outstanding'
  BY <1>1, <1>8, OutstandingKept
<1> QED
  BY <1>1, <1>5, <1>7, <1>9 DEF TruthInv

\* The steps of a request touch neither pages nor statuses.
LEMMA RequestTruth ==
  ASSUME IInv, TruthInv, NoCachedPage \/ Reserve \/ PersistReservation \/ Send \/ Fails
  PROVE  TruthInv'
<1>1. /\ UNCHANGED <<now, recorded, op, asking, number, look>>
      /\ step # "save" /\ step # "idle" /\ step # "apply" /\ step' # "apply"
      /\ step' \in Paging => step \in Paging
  BY DEF NoCachedPage, Reserve, PersistReservation, Send, Fails, Paging
<1>2. /\ work'.pages = work.pages /\ work'.status = work.status
      /\ disk'.pages \in {work.pages, disk.pages} /\ disk'.status \in {work.status, disk.status}
  BY DEF NoCachedPage, Reserve, PersistReservation, Reserved, Send, Fails, IInv, TypeOK, StoreType
<1>3. Later
  BY <1>1 DEF IInv, TypeOK, Time, Later
<1>4. Followed' /\ Concluded'
  BY <1>1, <1>3, LookKept
<1>5. HonestPages'
  BY <1>2, <1>3, PagesKept
<1>6. Outstanding'
  BY <1>1, <1>2, OutstandingKept
<1> QED
  BY <1>1, <1>4, <1>5, <1>6 DEF TruthInv

LEMMA ApplyTruth ==
  ASSUME IInv, TruthInv, Apply \/ Save \/ Stops
  PROVE  TruthInv'
<1>1. now' = now /\ recorded' = recorded /\ now \in Nat /\ Later
  BY DEF Apply, Save, Stops, IInv, TypeOK, Time, Later
<1>2. CASE Apply
  <2>1. /\ work' = ApplyLookup(work, asking, look, now) /\ step = "apply" /\ step' = "save"
        /\ UNCHANGED <<disk, op, asking, look>>
    BY <1>2 DEF Apply
  <2>2. /\ work'.pages = work.pages
        /\ \A m \in Killmail :
             \/ work'.status[m] = work.status[m]
             \/ m \in asking /\ work'.status[m] \in {Reported, Absent(work, m, look)}
                /\ (work'.status[m] = Reported \/ look.until > now)
    BY <2>1 DEF ApplyLookup, Disproved, IInv, TypeOK, StoreType
  <2>3. HonestPages'
    BY <1>1, <2>1, <2>2, PagesKept
  <2>4. Followed' /\ Concluded'
    BY <2>1 DEF Followed, Concluded, Paging
  <2>5. Outstanding'
    <3>1. \A m \in Killmail : work'.status[m].kind = "Unreported" => work'.status[m].until > now
      BY <2>2 DEF TruthInv, Outstanding, Reported, Absent, Unreported
    <3>2. \A m \in Killmail :
            disk'.status[m].kind = "Unreported" =>
              /\ disk'.status[m].until > now
              /\ op' = "lookup" => m \notin asking' /\ work'.status[m] = disk'.status[m]
      BY <2>1, <2>2 DEF TruthInv, Outstanding
    <3> QED
      BY <1>1, <2>1, <3>1, <3>2 DEF Outstanding
  <2> QED
    BY <1>1, <2>1, <2>3, <2>4, <2>5 DEF TruthInv, IInv, TypeOK
<1>3. CASE Save \/ Stops
  <2>1. /\ End /\ disk' \in {work, disk}
        /\ op' = "none" /\ step' = "idle" /\ work' = disk' /\ look' = NoLook
    BY <1>3 DEF Save, Stops, End
  <2>2. HonestPages'
    BY <1>1, <2>1, PagesKept
  <2>3. Followed' /\ Concluded'
    BY <2>1 DEF Followed, Concluded, Paging
  <2>4. Outstanding'
    BY <1>1, <2>1 DEF TruthInv, Outstanding
  <2> QED
    BY <1>1, <2>1, <2>2, <2>3, <2>4 DEF TruthInv
<1> QED
  BY <1>2, <1>3

LEMMA TickTruth ==
  ASSUME IInv, TruthInv, Tick
  PROVE  TruthInv'
<1>0. /\ now \in Nat /\ now' = now + 1 /\ recorded' = recorded
      /\ work' = At(work, now') /\ disk' = At(disk, now')
      /\ UNCHANGED <<op, step, asking, number, look>>
      /\ Window \in Nat /\ MaxAge \in Nat
  BY ConstantsNat, ParametersHold DEF IInv, TypeOK, Time, Tick
<1>1. Later
  BY <1>0 DEF Later
<1>2. Followed' /\ Concluded'
  BY <1>0, <1>1, LookKept
<1>3. HonestPages'
  <2>1. \A n \in Pages : \A s \in {work', disk'} :
          s.pages[n] = NoPage \/ \E r \in {work, disk} : s.pages[n] = r.pages[n]
    BY <1>0 DEF At
  <2> QED
    BY <1>1, <2>1, PagesKept
<1>4. Outstanding'
  <2>1. \A m \in Killmail :
          /\ work'.status[m] = IF work.status[m].kind = "Unreported" /\ work.status[m].until <= now'
                               THEN NoStatus ELSE work.status[m]
          /\ disk'.status[m] = IF disk.status[m].kind = "Unreported" /\ disk.status[m].until <= now'
                               THEN NoStatus ELSE disk.status[m]
    BY <1>0 DEF At
  <2>2. \A m \in Killmail : work.status[m].until \in Nat /\ disk.status[m].until \in Nat
    BY DEF IInv, TypeOK, StoreType, ZkillStatus
  <2>3. NoStatus.kind # "Unreported"
    BY DEF NoStatus
  <2>4. step # "save" => work'.status = disk'.status
    BY <1>0 DEF At, TruthInv, Outstanding
  <2> QED
    BY <1>0, <2>1, <2>2, <2>3, <2>4 DEF TruthInv, Outstanding
<1>5. now' >= Window + MaxAge
  BY <1>0 DEF TruthInv
<1> QED
  BY <1>0, <1>2, <1>3, <1>4, <1>5 DEF TruthInv

LEMMA TruthInductive == ASSUME IInv, TruthInv, [Next]_vars PROVE TruthInv'
<1>1. CASE UNCHANGED vars
  <2>1. UNCHANGED <<now, recorded, disk, work, op, step, asking, number, look>>
    BY <1>1 DEF vars
  <2>2. Later
    BY <2>1 DEF IInv, TypeOK, Time, Later
  <2>3. HonestPages'
    BY <2>1, <2>2, PagesKept
  <2>4. Followed' /\ Concluded'
    BY <2>1, <2>2, LookKept
  <2>5. Outstanding'
    BY <2>1 DEF TruthInv, Outstanding
  <2> QED
    BY <2>1, <2>3, <2>4, <2>5 DEF TruthInv
<1>2. CASE \E o \in Time : now - MaxAge <= o /\ o <= now /\ \E h \in HeadersOf(o) : Answer(o, h)
  BY <1>2, AnswerTruth
<1> QED
  BY <1>1, <1>2, BeginTruth, PageTruth, RequestTruth, ApplyTruth, TickTruth DEF Next

-----------------------------------------------------------------------------
(* What is cached and gathered is of the past *)

LEMMA GatheredIsGenuine ==
  ASSUME IInv, Genuine, step \in {"page", "sent"}, UNCHANGED <<now, recorded, asking>>,
         NEW p \in Page, p.observed <= now, \A k \in p.entries : recorded[k] <= now, UsePage(p)
  PROVE  /\ look'.reported \subseteq asking' /\ \A m \in look'.reported : recorded'[m] <= now'
         /\ look'.observed <= now'
<1>1. /\ look'.reported = look.reported \cup (p.entries \cap asking)
      /\ look'.observed = Smaller(look.observed, p.observed)
  BY DEF UsePage, Gathered
<1>2. look.reported \subseteq asking /\ \A m \in look.reported : recorded[m] <= now
  BY DEF Genuine, Paging
<1>3. look.observed \in Nat /\ p.observed \in Nat /\ now \in Nat
  BY DEF IInv, TypeOK, Evidence, LookType, Page, Time
<1> QED
  BY <1>1, <1>2, <1>3 DEF Smaller

\* Pages stay of the past while the clock goes on and others submit.
LEMMA PagesStayGenuine ==
  ASSUME IInv, Genuine, Later,
         \A n \in Pages : \A s \in {work', disk'} :
           \/ s.pages[n] = NoPage
           \/ \E r \in {work, disk} : s.pages[n] = r.pages[n]
           \/ s.pages[n].observed <= now /\ \A k \in s.pages[n].entries : recorded[k] <= now,
         work' \in StoreType, disk' \in StoreType
  PROVE  \A n \in Pages : \A s \in {work', disk'} :
           s.pages[n].observed <= now' /\ \A k \in s.pages[n].entries : recorded'[k] <= now'
<1>0. now \in Nat /\ now' \in Nat /\ now <= now'
  BY DEF IInv, TypeOK, Time, Later
<1>1. \A k \in Killmail : recorded[k] \in Nat /\ (recorded[k] <= now => recorded'[k] <= now')
  BY <1>0, ConstantsNat, ParametersHold DEF IInv, TypeOK, Later, Never
<1>2. SUFFICES ASSUME NEW n \in Pages, NEW s \in {work', disk'}
               PROVE  /\ s.pages[n].observed <= now'
                      /\ \A k \in s.pages[n].entries : recorded'[k] <= now'
  OBVIOUS
<1>3. s.pages[n].observed \in Nat /\ s.pages[n].entries \subseteq Killmail
  BY DEF StoreType, Page, Time
<1>4. CASE s.pages[n] = NoPage
  BY <1>0, <1>4 DEF NoPage
<1>5. ASSUME s.pages[n].observed <= now, \A k \in s.pages[n].entries : recorded[k] <= now
      PROVE  /\ s.pages[n].observed <= now'
             /\ \A k \in s.pages[n].entries : recorded'[k] <= now'
  BY <1>0, <1>1, <1>3, <1>5
<1>6. (\E r \in {work, disk} : s.pages[n] = r.pages[n]) =>
        s.pages[n].observed <= now /\ \A k \in s.pages[n].entries : recorded[k] <= now
  BY DEF Genuine
<1> QED
  BY <1>2, <1>4, <1>5, <1>6

LEMMA GenuineInitially == ASSUME Init PROVE Genuine
<1>1. now \in Nat
  BY ConstantsNat, ParametersHold DEF Init
<1> QED
  BY <1>1 DEF Init, Genuine, NoPage, Paging

LEMMA GenuineInductive == ASSUME IInv, TruthInv, Genuine, [Next]_vars PROVE Genuine'
<1>0. now \in Nat /\ work \in StoreType /\ disk \in StoreType /\ asking \subseteq Killmail
  BY IdsAssumption DEF IInv, TypeOK, Time
<1>1. work' \in StoreType /\ disk' \in StoreType
  BY Inductive DEF IInv, TypeOK
<1>2. ASSUME Later, \A s \in {work', disk'} : \E r \in {work, disk} : s.pages = r.pages,
             UNCHANGED <<asking, number, look>>,
             step' \in Paging \cup {"apply"} => step \in Paging \cup {"apply"},
             step' = "apply" => step = "apply"
      PROVE  Genuine'
  <2>1. \A n \in Pages : \A s \in {work', disk'} :
          s.pages[n].observed <= now' /\ \A k \in s.pages[n].entries : recorded'[k] <= now'
    BY <1>1, <1>2, PagesStayGenuine
  <2>2. \A k \in Killmail : recorded[k] \in Nat /\ (recorded[k] <= now => recorded'[k] <= now')
    BY <1>0, <1>2, ConstantsNat, ParametersHold DEF IInv, TypeOK, Later, Never
  <2>3. look.observed \in Nat /\ now' \in Nat /\ now <= now'
    BY <1>2 DEF IInv, Evidence, LookType, Later
  <2> QED
    BY <1>0, <1>2, <2>1, <2>2, <2>3 DEF Genuine
<1>3. CASE UNCHANGED vars \/ NoCachedPage \/ Reserve \/ PersistReservation \/ Send \/ Fails
           \/ \E k \in Killmail : Record(k)
  <2>1. /\ UNCHANGED <<now, asking, number, look>>
        /\ step' \in Paging \cup {"apply"} => step \in Paging \cup {"apply"}
        /\ step' = "apply" => step = "apply"
    BY <1>3 DEF vars, NoCachedPage, Reserve, PersistReservation, Send, Fails, Record, Paging
  <2>2. work'.pages = work.pages /\ disk'.pages \in {work.pages, disk.pages}
    BY <1>0, <1>3 DEF vars, NoCachedPage, Reserve, PersistReservation, Reserved, Send, Fails, Record,
       StoreType
  <2>3. Later
    BY <1>0, <1>3, <2>1 DEF vars, NoCachedPage, Reserve, PersistReservation, Send, Fails, Record,
       IInv, TypeOK, Later
  <2> QED
    BY <1>2, <2>1, <2>2, <2>3
<1>4. CASE BeginLookup \/ BeginPost \/ Apply \/ Save \/ Stops
  <2>1. now' = now /\ recorded' = recorded /\ Later
    BY <1>0, <1>4 DEF BeginLookup, BeginPost, Apply, Save, Stops, Later
  <2>2. \A s \in {work', disk'} : \E r \in {work, disk} : s.pages = r.pages
    BY <1>0, <1>4 DEF BeginLookup, BeginPost, Apply, ApplyLookup, Save, Stops, End, StoreType
  <2>3. \A n \in Pages : \A s \in {work', disk'} :
          s.pages[n].observed <= now' /\ \A k \in s.pages[n].entries : recorded'[k] <= now'
    BY <1>1, <2>1, <2>2, PagesStayGenuine
  <2>4. \/ step' = "page" /\ number' = 1 /\ look' = NoLook
        \/ step' = "reserve" /\ number' = number /\ look' = NoLook
        \/ step' \in {"save", "idle"}
    BY <1>4 DEF BeginLookup, BeginPost, Apply, Save, Stops, End, TruthInv
  <2> QED
    BY <2>3, <2>4 DEF Genuine, NoLook, Paging
<1>5. CASE CachedPage
  <2>1. /\ step = "page" /\ number \in Pages /\ UsePage(work.pages[number])
        /\ UNCHANGED <<now, recorded, work, disk, asking>>
    BY <1>5 DEF IInv, TypeOK, Evidence, CachedPage, Pages
  <2>2. PICK p \in Page : p = work.pages[number]
    BY <1>0, <2>1 DEF StoreType
  <2>3. p.observed <= now /\ \A k \in p.entries : recorded[k] <= now
    BY <2>1, <2>2 DEF Genuine
  <2>4. /\ look'.reported \subseteq asking' /\ \A m \in look'.reported : recorded'[m] <= now'
        /\ look'.observed <= now'
    BY <2>1, <2>2, <2>3, GatheredIsGenuine
  <2> QED
    BY <2>1, <2>4 DEF Genuine
<1>6. CASE \E o \in Time : now - MaxAge <= o /\ o <= now /\ \E h \in HeadersOf(o) : Answer(o, h)
  <2>0. PICK o \in Time : now - MaxAge <= o /\ o <= now /\ \E h \in HeadersOf(o) : Answer(o, h)
    BY <1>6
  <2>1. PICK h \in HeadersOf(o) : now - MaxAge <= o /\ o <= now /\ Answer(o, h)
    BY <2>0
  <2> DEFINE q == [entries |-> ListedPage(number, o), observed |-> ObservedAt(h),
                   until |-> ValidUntil(h)]
  <2>2. /\ step = "sent" /\ number \in Pages /\ UsePage(q)
        /\ work' = [work EXCEPT !.pages[number] = q]
        /\ UNCHANGED <<now, recorded, disk, asking>>
    BY <2>1 DEF IInv, TypeOK, Evidence, Answer, Pages
  <2>3. q \in Page
    BY <2>1, ParametersHold, AnswerIsRecent DEF IInv, TypeOK
  <2>4. q.observed <= now
    <3>1. /\ h.date \in {o, now, Never} /\ h.age \in {now - o, Never}
          /\ MaxTime \in Nat /\ now \in Time
      BY ConstantsNat, ParametersHold DEF HeadersOf, IInv, TypeOK
    <3> QED
      BY <2>1, <3>1 DEF ObservedAt, Time, Never
  <2>5. \A k \in q.entries : recorded[k] <= now
    <3>1. \A k \in q.entries : k \in Killmail /\ recorded[k] <= o
      BY DEF ListedPage, PageOf, Listed
    <3>2. \A k \in Killmail : recorded[k] \in Nat
      BY ConstantsNat, ParametersHold DEF IInv, TypeOK, Never
    <3> QED
      BY <1>0, <2>1, <3>1, <3>2 DEF Time
  <2> HIDE DEF q
  <2>6. PICK p \in Page : p = q
    BY <2>3
  <2>7. /\ look'.reported \subseteq asking' /\ \A m \in look'.reported : recorded'[m] <= now'
        /\ look'.observed <= now'
    BY <2>2, <2>4, <2>5, <2>6, GatheredIsGenuine
  <2>8. Later
    BY <1>0, <2>2 DEF Later
  <2>9. \A n \in Pages : \A s \in {work', disk'} :
          (\E r \in {work, disk} : s.pages[n] = r.pages[n]) \/ s.pages[n] = q
    BY <1>0, <2>2 DEF StoreType
  <2>10. \A n \in Pages : \A s \in {work', disk'} :
           s.pages[n].observed <= now' /\ \A k \in s.pages[n].entries : recorded'[k] <= now'
    BY <1>1, <2>4, <2>5, <2>8, <2>9, PagesStayGenuine
  <2> QED
    BY <2>7, <2>10 DEF Genuine
<1>7. CASE Tick
  <2>1. /\ now' = now + 1 /\ recorded' = recorded
        /\ work' = At(work, now') /\ disk' = At(disk, now')
        /\ UNCHANGED <<step, asking, number, look>>
    BY <1>7 DEF Tick
  <2>2. Later
    BY <1>0, <2>1 DEF Later
  <2>3. \A n \in Pages : \A s \in {work', disk'} :
          s.pages[n] = NoPage \/ \E r \in {work, disk} : s.pages[n] = r.pages[n]
    BY <2>1 DEF At
  <2>4. \A n \in Pages : \A s \in {work', disk'} :
          s.pages[n].observed <= now' /\ \A k \in s.pages[n].entries : recorded'[k] <= now'
    BY <1>1, <2>2, <2>3, PagesStayGenuine
  <2>5. \A k \in Killmail : recorded[k] \in Nat
    BY ConstantsNat, ParametersHold DEF IInv, TypeOK, Never
  <2>6. look.observed \in Nat
    BY DEF IInv, Evidence, LookType
  <2> QED
    BY <1>0, <2>1, <2>4, <2>5, <2>6 DEF Genuine
<1> QED
  BY <1>3, <1>4, <1>5, <1>6, <1>7 DEF Next

-----------------------------------------------------------------------------
(* Theorems *)

\* The inductive invariant of the lookups: no evidence outlives its validity on
\* its way from a page to a status, and the persisted reservation reaches as far
\* as the last request that left (status.rs lookup_status, timing.rs
\* reserve_zkill_request), for any killmails, pages, headers and clocks.
THEOREM EvidenceAndReservations == Spec => []IInv
BY Initially, Inductive, PTL DEF Spec

\* Every variable keeps its type, and the store between two operations is the
\* persisted one (store.rs, status.rs).
THEOREM LookupTypes == Spec => []TypeOK
<1>1. IInv => TypeOK
  BY DEF IInv
<1> QED
  BY <1>1, EvidenceAndReservations, PTL

\* An absence that still counts was observed less than QueryValidity ago, for
\* any number of pages, any age of cached pages and of the answers of proxies and
\* any headers (zkill.rs lookup_metadata, status.rs lookup_status).
THEOREM AbsencesAreRecent == Spec => []AbsenceRecent
<1>1. ASSUME IInv PROVE AbsenceRecent
  <2> USE ConstantsNat, ParametersHold
  <2>1. SUFFICES ASSUME NEW m \in Killmail, ReportState(disk, m, now) = "Unreported"
                 PROVE  disk.status[m].at + QueryValidity > now
    BY DEF AbsenceRecent
  <2>2. disk.status[m].kind = "Unreported" /\ disk.status[m].until > now
    BY <2>1 DEF ReportState
  <2>3. /\ disk.status[m].until <= disk.status[m].at + QueryValidity
        /\ disk.status[m].at \in Nat /\ disk.status[m].until \in Nat /\ now \in Nat
    BY <1>1, <2>2 DEF IInv, TypeOK, Evidence, RecentStore, StoreType, ZkillStatus, Time
  <2> QED
    BY <2>2, <2>3
<1> QED
  BY <1>1, EvidenceAndReservations, PTL

\* No request leaves sooner than Spacing after the one before it was reserved,
\* whatever operations crash between the reservation, its write and the request
\* (timing.rs reserve_zkill_request; README.md:159).
THEOREM RequestsAreSpaced == Spec => RequestsSpaced
<1>1. ASSUME IInv, [Next]_vars
      PROVE  [step = "send" /\ step' = "sent" => since >= Spacing]_vars
  <2>1. ASSUME step = "send" PROVE since >= Spacing
    BY <1>1, <2>1 DEF IInv, Reservations
  <2> QED
    BY <2>1
<1> QED
  BY <1>1, EvidenceAndReservations, PTL DEF Spec, RequestsSpaced

\* What zKillboard listed, the pages of it that are cached and what a lookup
\* gathered from them fit together at every step (status.rs lookup_status,
\* zkill.rs killmail_page), for any lists, pages and proxies.
THEOREM LooksAreTruthful == Spec => []TruthInv
BY Initially, Inductive, TruthInitially, TruthInductive, EvidenceAndReservations, PTL DEF Spec

\* A lookup concludes that zKillboard did not have a killmail only if it did
\* not before the second of the observation, for any lists that grow between two
\* pages and any cached pages and proxies, but for the two exceptions of the
\* property (status.rs lookup_status, apply_lookup; zkill.rs lookup_metadata).
THEOREM AbsencesAreTruthful == Spec => AbsenceTruthful
<1>1. ASSUME IInv, TruthInv, [Next]_vars, NEW m \in Killmail,
             work'.status[m] # work.status[m], work'.status[m].kind = "Unreported",
             op = "lookup", look.ordered, ~look.boundary
      PROVE  recorded[m] >= look.observed
  <2>0. /\ work \in StoreType /\ disk \in StoreType /\ recorded[m] \in Nat /\ now \in Nat
        /\ look.observed \in Nat /\ look.until \in Nat /\ KillTime[m] \in Nat /\ Window \in Nat
        /\ asking \subseteq Killmail
    BY <1>1, KillmailsFinite, ConstantsNat, ParametersHold, IdsAssumption
    DEF IInv, TypeOK, Evidence, LookType, Time, Never
  <2>1. CASE Apply
    <3>1. /\ work'.status[m] = IF m \notin asking \/ work.status[m].kind = "Reported"
                               THEN work.status[m]
                               ELSE IF m \in look.reported THEN Reported
                               ELSE IF Disproved(work, m, look, now) THEN Absent(work, m, look)
                               ELSE work.status[m]
          /\ step = "apply"
      BY <2>0, <2>1 DEF Apply, ApplyLookup, StoreType
    <3>2. m \in asking /\ m \notin look.reported /\ Disproved(work, m, look, now)
      BY <1>1, <3>1 DEF Reported
    <3>3. look.complete /\ look.until > 0
          /\ KillTime[m] <= IF look.observed >= Window THEN look.observed - Window ELSE 0
      BY <2>0, <3>2 DEF Disproved
    <3>4. Window <= look.observed /\ Missed = {}
      BY <1>1, <3>1, <3>3 DEF TruthInv, Concluded, Sound
    <3>5. KillTime[m] + Window <= look.observed
      BY <2>0, <3>3, <3>4
    <3>6. recorded[m] < look.observed => m \in Missed
      BY <2>0, <3>2, <3>5 DEF Missed, Early, Listed
    <3> QED
      BY <2>0, <3>4, <3>6
  <2>2. CASE Save \/ Stops
    <3>1. work' = work \/ work' = disk
      BY <2>2 DEF Save, Stops, End
    <3> QED
      BY <1>1, <3>1 DEF TruthInv, Outstanding
  <2>3. CASE Tick
    <3>1. work'.status[m] \in {work.status[m], NoStatus}
      BY <2>3 DEF Tick, At
    <3> QED
      BY <1>1, <3>1 DEF NoStatus
  <2>4. CASE \E o \in Time : \E h \in HeadersOf(o) : Answer(o, h)
    BY <1>1, <2>0, <2>4 DEF Answer, StoreType
  <2>5. CASE Reserve
    BY <1>1, <2>0, <2>5 DEF Reserve, StoreType
  <2> QED
    BY <1>1, <2>1, <2>2, <2>3, <2>4, <2>5 DEF Next, vars, Record, BeginLookup, BeginPost,
       CachedPage, NoCachedPage, PersistReservation, Send, Fails
<1>2. ASSUME IInv, TruthInv, [Next]_vars
      PROVE  [\A m \in Killmail :
                /\ work'.status[m] # work.status[m] /\ work'.status[m].kind = "Unreported"
                /\ op = "lookup" /\ look.ordered /\ ~look.boundary
                => recorded[m] >= look.observed]_vars
  BY <1>1, <1>2
<1> QED
  BY <1>2, EvidenceAndReservations, LooksAreTruthful, PTL DEF Spec, AbsenceTruthful

\* The answer of a lookup is one that Posting allows: what it reports is on
\* zKillboard, its observation is past, its validity that of a query at most
\* (status.rs lookup_status, zkill.rs lookup_metadata), for any pages and proxies.
THEOREM AnswersAreAllowed == Spec => []AnswerAllowed
<1>1. ASSUME IInv, Genuine PROVE AnswerAllowed
  <2>1. look.until <= look.observed + QueryValidity
    BY <1>1 DEF IInv, Evidence, Recent
  <2> QED
    BY <1>1, <2>1 DEF Genuine, AnswerAllowed
<1> QED
  BY <1>1, GenuineInitially, GenuineInductive, EvidenceAndReservations, LooksAreTruthful, PTL DEF Spec
=============================================================================
