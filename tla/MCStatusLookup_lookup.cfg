CONSTANTS
  pilot = pilot
  Killmail = {1, 2, 3, 4}
  Character = {pilot}
  Corporation = {}
  NoCharacter = NoCharacter
  NoCorp = NoCorp
  VictimId <- MCVictimId
  VictimCorp <- MCVictimCorp
  KillTime <- MCKillTime
  Window = 1
  Candidate = {1, 3}
  Others = {2}
  PageSize = 1
  MaxPages = 3
  QueryValidity = 3
  Spacing = 1
  SendDelay = 1
  MaxAge = 1
  MaxTime = 5
SPECIFICATION Spec
INVARIANTS IInv TruthInv AnswerAllowed AbsenceRecent
PROPERTIES AbsenceTruthful RequestsSpaced
