\* One killmail, two characters that sourced it, no faults.
CONSTANTS
  pilot = pilot
  foe = foe
  corp = corp
  loss = loss
  kill = kill
  NoCharacter = NoCharacter
  NoCorp = NoCorp
  NoProc = NoProc
  cli = cli
  gui = gui
  Killmail = {loss}
  Character = {pilot, foe}
  Corporation = {}
  VictimId <- MCVictimId
  VictimCorp <- MCVictimCorp
  KillTime <- MCKillTime
  Window = 1
  Poster = {cli}
  Refresher = {}
  MaxTime = 3
  MaxAge = 3
  Backoff = 1
  InitialStore <- MCSharedStore
  Edit = {}
  CanCrash = FALSE
  CanFailPersist = FALSE
SPECIFICATION Spec
INVARIANTS AbsenceAfterAttempt
CHECK_DEADLOCK FALSE
