------------------------------- MODULE SignIn -------------------------------
(***************************************************************************)
(* The sign-in of a character with EVE (src/src/integrations/auth.rs        *)
(* authenticate, core/characters.rs authenticate): a URL for the user, an   *)
(* authorization code that comes back over the local callback or is pasted, *)
(* its exchange for a token, and the verification of the character.  Only   *)
(* the holder of the store lock signs in, so there is one at a time.        *)
(*                                                                         *)
(* A step ends the sign-in with "failed" or "cancelled" or, with the        *)
(* outcome "none", takes it to the next phase.  `cancelled` is the flag of  *)
(* whoever signs in; it is looked at between the steps and interrupts none. *)
(***************************************************************************)

VARIABLE signIn     \* the phase

Phase == {"none", "start", "listening", "pasting", "code", "verified"}
Failing == {"failed", "cancelled"}

\* An error of the backend is a cancellation if the user asked for one.
Failure(cancelled) == IF cancelled THEN "cancelled" ELSE "failed"

\* A step from `from` that may fail, and otherwise goes to `to`.
Try(from, to, cancelled, outcome) ==
  /\ signIn = from
  /\ \/ signIn' = "none" /\ outcome = Failure(cancelled)
     \/ signIn' = to /\ outcome = "none"

\* A step before which the cancellation is looked at.
Checked(from, to, cancelled, outcome) ==
  IF cancelled
  THEN signIn = from /\ signIn' = "none" /\ outcome = "cancelled"
  ELSE Try(from, to, cancelled, outcome)

\* The listener is bound, the URL told and the browser opened, which may fail.
Listen(cancelled, outcome) == Checked("start", "listening", cancelled, outcome)
OfferPaste(cancelled, outcome) == Checked("start", "pasting", cancelled, outcome)

\* check_callback_wait: cancelled, or nobody came within CALLBACK_TIMEOUT.
GiveUp(cancelled, outcome) ==
  signIn = "listening" /\ signIn' = "none" /\ outcome = Failure(cancelled)

\* The first connection decides, whoever makes it: its request may be another
\* one, or have another state, a refusal or no code.
ReadCallback(cancelled, outcome) == Try("listening", "code", cancelled, outcome)

\* The same of the text the user pastes.
ReadPasted(cancelled, outcome) == Checked("pasting", "code", cancelled, outcome)

\* exchange_code: the token, and the character it belongs to.
Exchange(cancelled, outcome) == Checked("code", "verified", cancelled, outcome)

\* Mutated form of Affiliate: the last look is left out.
AffiliateUnlooked(cancelled, outcome) ==
  signIn = "verified" /\ signIn' = "none" /\ outcome = "none"

\* The affiliation is looked up, which is not fatal; then the last look at the
\* cancellation before anything is stored.
Affiliate(cancelled, outcome) ==
  /\ signIn = "verified"
  /\ signIn' = "none"
  /\ outcome = IF cancelled THEN "cancelled" ELSE "none"
=============================================================================
