\* Two killmails, fair operations: the lock is always released.
CONSTANTS
  pilot = pilot
  foe = foe
  corp = corp
  loss = loss
  kill = kill
  NoCharacter = NoCharacter
  NoCorp = NoCorp
  NoProc = NoProc
  cli = cli
  gui = gui
  Killmail = {kill, loss}
  Character = {pilot, foe}
  Corporation = {}
  VictimId <- MCVictimId
  VictimCorp <- MCVictimCorp
  KillTime <- MCKillTime
  Window = 0
  Poster = {cli}
  Refresher = {cli}
  MaxTime = 1
  MaxAge = 1
  Backoff = 1
  InitialStore <- MCInitialStore
  Edit = {}
  CanCrash = FALSE
  CanFailPersist = TRUE
SPECIFICATION FairSpec
PROPERTIES LockReleased
CHECK_DEADLOCK FALSE
