----------------------------- MODULE Submission -----------------------------
(***************************************************************************)
(* What ekmp promises about submitting killmails, without locks, working   *)
(* copies, lookups or time: a killmail is only sent with the user's        *)
(* consent, each consent is good for one POST, and each POST uses up one   *)
(* piece of durable evidence that zKillboard lacks the killmail, observed  *)
(* after the killmail was last sent and not expired.  The evidence is given*)
(* up before the POST leaves, so a crash at any point leaves nothing to    *)
(* send again with.                                                        *)
(* Module Posting is shown to implement this specification.                *)
(***************************************************************************)
EXTENDS Integers

CONSTANTS
  Killmail,     \* killmail ids
  Poster        \* processes that ask a user and post

VARIABLES
  evidence,     \* when the durable absence of a killmail that still counts was
                \* observed, or Never
  stamp,        \* when a killmail was last sent, or Never
  armed,        \* the killmail whose evidence was given up to send it now
  consent       \* per poster, the confirmed killmails not sent yet

vars == <<evidence, stamp, armed, consent>>

Never == -1

Init ==
  /\ evidence = [m \in Killmail |-> Never]
  /\ stamp = [m \in Killmail |-> Never]
  /\ armed = {}
  /\ consent = [p \in Poster |-> {}]

\* Evidence comes and goes, but what comes is newer than the last POST.
Learn ==
  /\ \A m \in Killmail :
       \/ evidence'[m] \in {evidence[m], Never}
       \/ evidence'[m] > stamp[m]
  /\ armed = {}
  /\ UNCHANGED <<stamp, armed, consent>>

\* Evidence expires at any moment, even while a POST is about to leave.
Expire ==
  /\ \A m \in Killmail : evidence'[m] \in {evidence[m], Never}
  /\ UNCHANGED <<stamp, armed, consent>>

Confirm(p) ==
  /\ consent[p] = {}
  /\ \E ids \in SUBSET Killmail : consent' = [consent EXCEPT ![p] = ids]
  /\ UNCHANGED <<evidence, stamp, armed>>

\* A consent lapses in part or as a whole; when it was about to be used, the
\* evidence it had taken is not given back.
Withdraw(p) ==
  /\ \E ids \in SUBSET consent[p] : consent' = [consent EXCEPT ![p] = ids]
  /\ armed' \in {armed, {}}
  /\ UNCHANGED <<evidence, stamp>>

Arm(p, m) ==
  /\ armed = {}
  /\ m \in consent[p]
  /\ evidence[m] # Never
  /\ armed' = {m}
  /\ evidence' = [evidence EXCEPT ![m] = Never]
  /\ UNCHANGED <<stamp, consent>>

Fire(p, m) ==
  /\ armed = {m}
  /\ m \in consent[p]
  /\ stamp'[m] >= stamp[m]
  /\ stamp' = [stamp EXCEPT ![m] = stamp'[m]]
  /\ armed' = {}
  /\ consent' = [consent EXCEPT ![p] = @ \ {m}]
  /\ UNCHANGED evidence

Next ==
  \/ Learn
  \/ Expire
  \/ \E p \in Poster : Confirm(p) \/ Withdraw(p)
  \/ \E p \in Poster, m \in Killmail : Arm(p, m) \/ Fire(p, m)

Spec == Init /\ [][Next]_vars
=============================================================================
