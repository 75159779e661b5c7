CONSTANTS
  Process = {"gui", "peek", "cli", "service"}
  Nobody = Nobody
  Stores <- SignInStores
  Edits = {}
  Command = {"status"}
  ServiceRuns = TRUE
  CanBreak = FALSE
  MaxClicks = 1
  MaxCommands = 1
SPECIFICATION FairSpec
PROPERTIES OperationsEnd CatchesUp FollowUpRefreshes
