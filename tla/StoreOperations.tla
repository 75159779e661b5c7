-------------------------- MODULE StoreOperations --------------------------
(***************************************************************************)
(* The operations of the core (src/src/core) as their callers see them: one *)
(* takes the store lock, works on a copy of the store, persists it and      *)
(* gives the lock back with a result.  What each does inside is the subject *)
(* of Posting, EsiLoad, Credentials and RefreshSchedule; here an operation  *)
(* is the stores and results it may leave, and a save is its first and its  *)
(* last file.                                                              *)
(***************************************************************************)
EXTENDS StoreLocks, SignIn

VARIABLES
  disk,         \* the store as the files have it
  loadable,     \* whether the files can be loaded
  op            \* the operation of the writer

opVars == <<lockVars, signIn, disk, loadable, op>>

\* What the GUI tells apart of a store: whether a character is authenticated
\* and its token in the fallback file, the report state of its one killmail, if
\* it has one that is not reported, and what protects that killmail.
Queue == {"none", "checking", "ready"}
Store == [character : BOOLEAN, fallback : BOOLEAN, queue : Queue,
          flagged : BOOLEAN, victim : BOOLEAN, show : BOOLEAN]
EmptyStore == [character |-> FALSE, fallback |-> FALSE, queue |-> "none",
               flagged |-> FALSE, victim |-> FALSE, show |-> FALSE]
Protected(s) == s.flagged \/ s.victim

\* The operations, and what they are asked: on or off, how a sign-in
\* gets its code, what to prepare, or the mode of the PreparedPost to post.
Kind == {"migrate", "signIn", "remove", "refresh", "addVictim", "removeVictim",
         "show", "protect", "prepare", "post"}
Mode == {"bulk", "individual", "protected"}
Arg == {"on", "off", "loopback", "paste", "all", "one", "anyway", "none"} \cup Mode

\* How an operation ends; `prepared` is the mode of a PreparedPost with ids.
Result == {"ok", "failed", "cancelled", "busy"}
Outcome == [store : Store, result : Result, saves : BOOLEAN, prepared : Mode \cup {"none"}]
Saved(s) == [store |-> s, result |-> "ok", saves |-> TRUE, prepared |-> "none"]
Left(s, result) == [store |-> s, result |-> result, saves |-> FALSE, prepared |-> "none"]

Operation ==
  [kind : Kind, arg : Arg, base : Store, store : Store, at : {"work", "half", "end"},
   result : Result, prepared : Mode \cup {"none"}]
NoOperation ==
  [kind |-> "refresh", arg |-> "none", base |-> EmptyStore, store |-> EmptyStore,
   at |-> "end", result |-> "ok", prepared |-> "none"]

OperationsTypeOK ==
  /\ LocksTypeOK
  /\ signIn \in Phase
  /\ disk \in Store /\ loadable \in BOOLEAN
  /\ op \in Operation
  /\ writer = Nobody => op = NoOperation
  /\ signIn # "none" => op.kind = "signIn" /\ op.at = "work"

-----------------------------------------------------------------------------
(* What the operations make of the store *)

\* Every token of the fallback file that the credential store accepts leaves it.
Migrations(s) == {Saved([s EXCEPT !.fallback = FALSE]), Left(s, "ok")}

Removals(s) ==
  IF s.character
  THEN {Saved([s EXCEPT !.character = FALSE, !.fallback = FALSE, !.queue = "none"])}
  ELSE {Left(s, "failed")}

\* prune_reported: a killmail that is reported leaves the cache, and its flag goes.
Reported(s) == [s EXCEPT !.queue = "none", !.flagged = FALSE]

\* A refresh may find the killmail, a status, or nothing, and fail at any point;
\* without characters it is idle.
Refreshes(s) ==
  IF s.character
  THEN {[Saved(t) EXCEPT !.result = r] :
          t \in {Reported(s)} \cup {[s EXCEPT !.queue = q] : q \in Queue}, r \in {"ok", "failed"}}
  ELSE {Left(s, "ok")}

\* The name may not resolve; removing an absent victim persists nothing.
VictimEdits(s, add) ==
  {Saved([s EXCEPT !.victim = add])} \cup
  IF add THEN {Left(s, "failed")} ELSE IF s.victim THEN {} ELSE {Left(s, "ok")}
\* Only a killmail in the cache is flagged.
Flaggings(s, flag) ==
  {IF s.queue = "none" THEN Left(s, "failed") ELSE Saved([s EXCEPT !.flagged = flag])}
Showings(s, show) == {Saved([s EXCEPT !.show = show])}

\* The PreparedPost of a store whose killmail is confirmed unreported.
PreparedMode(s, selection) ==
  CASE selection = "all" -> IF Protected(s) THEN "none" ELSE "bulk"
    [] OTHER -> IF Protected(s) THEN "protected" ELSE "individual"

Refused(s, selection) == s.queue # "ready" \/ (selection = "one" /\ Protected(s))

\* prepare_post of a store whose statuses are known.
Prepared(s, selection) ==
  IF selection = "all" /\ s.queue # "ready" THEN Left(s, "ok")
  ELSE IF Refused(s, selection) THEN Left(s, "failed")
  ELSE [Left(s, "ok") EXCEPT !.prepared = PreparedMode(s, selection)]

\* An unknown status is asked for first, and what is found persisted.
Preparations(s, selection) ==
  IF s.queue = "checking" /\ ~(selection = "all" /\ Protected(s))
  THEN {[Prepared(t, selection) EXCEPT !.saves = TRUE] :
          t \in {Reported(s), [s EXCEPT !.queue = "ready"], s}}
  ELSE {Prepared(s, selection)}

\* Mutated form of Permitted: the protection is not looked at again.
PermittedOnce(s, mode) == s.queue = "ready"

\* post_permission, when the request is about to be sent.
Permitted(s, mode) == s.queue = "ready" /\ (mode # "protected" => ~Protected(s))

\* The killmail is submitted and leaves the queue, or its attempt fails and its
\* status is unknown again, or it is skipped.
Posts(s, mode) ==
  IF Permitted(s, mode)
  THEN {Saved(Reported(s)), Saved([s EXCEPT !.queue = "checking"])}
  ELSE {Left(s, "ok")}

Outcomes(kind, arg, s) ==
  CASE kind = "migrate" -> Migrations(s)
    [] kind = "remove" -> Removals(s)
    [] kind = "refresh" -> Refreshes(s)
    [] kind \in {"addVictim", "removeVictim"} -> VictimEdits(s, kind = "addVictim")
    [] kind = "protect" -> Flaggings(s, arg = "on")
    [] kind = "show" -> Showings(s, arg = "on")
    [] kind = "prepare" -> Preparations(s, arg)
    [] kind = "post" -> Posts(s, arg)

\* The character is stored with its token in the fallback file, which a
\* credential store that accepts it leaves again.
SignedIn(s) == {[s EXCEPT !.character = TRUE, !.fallback = f] : f \in BOOLEAN}

-----------------------------------------------------------------------------
(* The steps of an operation *)

OperationsInit ==
  /\ writer = Nobody /\ readers = {}
  /\ signIn = "none"
  /\ op = NoOperation

\* begin_operation, once the lock is free: a store that does not load ends it.
Begin(p, kind, arg) ==
  /\ LockForOperation(p)
  /\ op' = [kind |-> kind, arg |-> arg, base |-> disk, store |-> disk,
            at |-> IF loadable THEN "work" ELSE "end",
            result |-> IF loadable THEN "ok" ELSE "failed", prepared |-> "none"]
  /\ signIn' = IF kind = "signIn" /\ loadable THEN "start" ELSE "none"
  /\ UNCHANGED <<disk, loadable>>

\* The operation ends, or persists: the credentials file is written first.
EndWith(o) ==
  /\ op' = [op EXCEPT !.store = o.store, !.at = IF o.saves THEN "half" ELSE "end",
                      !.result = o.result, !.prepared = o.prepared]
  /\ disk' = IF o.saves THEN [disk EXCEPT !.fallback = o.store.fallback] ELSE disk

Work ==
  /\ op.at = "work" /\ op.kind # "signIn"
  /\ \E o \in Outcomes(op.kind, op.arg, op.store) : EndWith(o)
  /\ UNCHANGED <<lockVars, signIn, loadable>>

\* A step of the sign-in that goes on, or ends with nothing stored.
SignInStep(Step(_, _), cancelled) ==
  /\ op.at = "work" /\ op.kind = "signIn"
  /\ \E outcome \in Failing \cup {"none"} :
        /\ Step(cancelled, outcome)
        /\ \/ outcome = "none" /\ UNCHANGED <<op, disk>>
           \/ outcome # "none" /\ EndWith(Left(op.store, outcome))
  /\ UNCHANGED <<lockVars, loadable>>

\* Mutated form of SignInStore: the last look at the cancellation comes after
\* the character is stored.
SignInStoreFirst(cancelled) ==
  /\ op.at = "work" /\ op.kind = "signIn"
  /\ \E outcome \in Failing \cup {"none"} :
        /\ Affiliate(cancelled, outcome)
        /\ \E s \in SignedIn(op.store) :
              EndWith([Saved(s) EXCEPT !.result = IF outcome = "none" THEN "ok" ELSE outcome])
  /\ UNCHANGED <<lockVars, loadable>>

SignInStore(cancelled) ==
  /\ op.at = "work" /\ op.kind = "signIn"
  /\ \E outcome \in Failing \cup {"none"} :
        /\ Affiliate(cancelled, outcome)
        /\ \/ outcome # "none" /\ EndWith(Left(op.store, outcome))
           \/ outcome = "none" /\ \E s \in SignedIn(op.store) : EndWith(Saved(s))
  /\ UNCHANGED <<lockVars, loadable>>

\* The rest of persist: the state file is written last.
Persist ==
  /\ op.at = "half"
  /\ disk' = op.store
  /\ op' = [op EXCEPT !.at = "end"]
  /\ UNCHANGED <<lockVars, signIn, loadable>>

\* The lock is dropped; the caller of this action takes the result.
Release(p) ==
  /\ writer = p /\ op.at = "end"
  /\ UnlockOperation
  /\ op' = NoOperation
  /\ UNCHANGED <<signIn, disk, loadable>>
=============================================================================
