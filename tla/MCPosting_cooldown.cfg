\* Two killmails of the pilot, a loss and a kill, so two checks: a prepare that is
\* cancelled before the second, after zKillboard asked to wait in the first.
CONSTANTS
  pilot = pilot
  foe = foe
  corp = corp
  loss = loss
  kill = kill
  NoCharacter = NoCharacter
  NoCorp = NoCorp
  NoProc = NoProc
  cli = cli
  gui = gui
  Killmail = {loss, kill}
  Character = {pilot, foe}
  Corporation = {}
  VictimId <- MCVictimId
  VictimCorp <- MCVictimCorp
  KillTime <- MCKillTime
  Window = 1
  Poster = {cli}
  Refresher = {cli}
  MaxTime = 3
  MaxAge = 2
  Backoff = 1
  InitialStore <- MCInitialStore
  Edit = {}
  CanCrash = FALSE
  CanFailPersist = FALSE
SPECIFICATION Spec
INVARIANTS CooldownPersisted
CHECK_DEADLOCK FALSE
