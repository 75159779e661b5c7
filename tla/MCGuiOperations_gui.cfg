CONSTANTS
  Process = {"gui", "peek", "cli", "service"}
  Nobody = Nobody
  Stores <- MixedStores
  Edits = {"protect"}
  Command = {"protect", "signIn", "status", "remove"}
  ServiceRuns = FALSE
  CanBreak = TRUE
  MaxClicks = 2
  MaxCommands = 1
SPECIFICATION Spec
INVARIANTS TypeOK IInv SignInTidy BlockedStartsNothing CancelledStoresNothing
PROPERTIES CancelledInTime ViewWhole ProtectedPostMeant
