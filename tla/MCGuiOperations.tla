-------------------------- MODULE MCGuiOperations --------------------------
(***************************************************************************)
(* Instances of GuiOperations for TLC: a store without a character, one     *)
(* whose token is in the fallback file, and one with a killmail to post.    *)
(***************************************************************************)
EXTENDS GuiOperations

\* Those the buttons are about; a start with a fallback token is only reached
\* after a sign-in of the command line.
MixedStores ==
  {EmptyStore, [EmptyStore EXCEPT !.character = TRUE, !.queue = "ready", !.show = TRUE]}

\* Those a sign-in or a migration starts from.
SignInStores == {EmptyStore, [EmptyStore EXCEPT !.character = TRUE, !.fallback = TRUE]}
=============================================================================
