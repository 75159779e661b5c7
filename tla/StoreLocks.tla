----------------------------- MODULE StoreLocks -----------------------------
(***************************************************************************)
(* The two file locks beside the state file (src/src/persistence/storage.rs *)
(* try_operation_lock_for, try_snapshot_lock_for, try_service_lock_for).   *)
(* None of them waits: a lock that is taken is CoreError::Busy.  The        *)
(* operation lock is exclusive for an operation and shared for a snapshot;  *)
(* the service lock is held by `ekmp service run` and, for a moment, by     *)
(* every snapshot that asks whether a service runs.                         *)
(***************************************************************************)

CONSTANTS
  Process,      \* who may hold a lock: threads and processes alike
  Nobody

ASSUME NobodyAssumption == Nobody \notin Process

VARIABLES
  writer,       \* who holds the operation lock exclusively
  readers,      \* who holds it shared
  service       \* who holds the service lock

lockVars == <<writer, readers, service>>

LocksTypeOK ==
  /\ writer \in Process \cup {Nobody}
  /\ readers \in SUBSET Process
  /\ service \in Process \cup {Nobody}

\* Mutated form of Lockable: an operation does not stop another one.
LockableBesideWriter == readers = {}

\* Whether an operation gets the lock.
Lockable == writer = Nobody /\ readers = {}

\* Mutated form of Shareable: an operation does not stop a snapshot.
ShareableOverWriter == TRUE

\* Whether a snapshot gets the lock.
Shareable == writer = Nobody

LockForOperation(p) == Lockable /\ writer' = p /\ UNCHANGED <<readers, service>>
LockForSnapshot(p) == Shareable /\ readers' = readers \cup {p} /\ UNCHANGED <<writer, service>>
LockService(p) == service = Nobody /\ service' = p /\ UNCHANGED <<writer, readers>>

UnlockOperation == writer' = Nobody /\ UNCHANGED <<readers, service>>
UnlockSnapshot(p) == readers' = readers \ {p} /\ UNCHANGED <<writer, service>>
\* The same, and the service lock for a moment.
UnlockAndProbe(p) ==
  service = Nobody /\ service' = p /\ readers' = readers \ {p} /\ UNCHANGED writer
UnlockService == service' = Nobody /\ UNCHANGED <<writer, readers>>
=============================================================================
