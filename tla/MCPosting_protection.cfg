\* Every protection edit between preparing and posting.
CONSTANTS
  pilot = pilot
  foe = foe
  corp = corp
  loss = loss
  kill = kill
  NoCharacter = NoCharacter
  NoCorp = NoCorp
  NoProc = NoProc
  cli = cli
  gui = gui
  Killmail = {kill}
  Character = {pilot, foe}
  Corporation = {corp}
  VictimId <- MCVictimId
  VictimCorp <- MCVictimCorp
  KillTime <- MCKillTime
  Window = 0
  Poster = {cli}
  Refresher = {cli}
  MaxTime = 1
  MaxAge = 1
  Backoff = 1
  InitialStore <- MCInitialStore
  Edit = {"killmail", "victim", "character", "affiliation"}
  CanCrash = FALSE
  CanFailPersist = FALSE
SPECIFICATION Spec
PROPERTIES ProtectionHonoured
CHECK_DEADLOCK FALSE
