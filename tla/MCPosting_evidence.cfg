\* One killmail two characters sourced, every fault.
CONSTANTS
  pilot = pilot
  foe = foe
  corp = corp
  loss = loss
  kill = kill
  NoCharacter = NoCharacter
  NoCorp = NoCorp
  NoProc = NoProc
  cli = cli
  gui = gui
  Killmail = {loss}
  Character = {pilot, foe}
  Corporation = {}
  VictimId <- MCVictimId
  VictimCorp <- MCVictimCorp
  KillTime <- MCKillTime
  Window = 1
  Poster = {cli}
  Refresher = {cli}
  MaxTime = 3
  MaxAge = 2
  Backoff = 1
  InitialStore <- MCSharedStore
  Edit = {}
  CanCrash = TRUE
  CanFailPersist = TRUE
SPECIFICATION Spec
INVARIANTS TypeOK AttemptRemembered IInv ReportedIsTrue
CHECK_DEADLOCK FALSE
PROPERTIES ReportedIsFinal
