\* Two characters, every operation and every fault.
CONSTANTS
  Character = {c1, c2}
  Setting = {s1}
  Malformed = Malformed
  Operation = {"authenticate", "remove", "migrate", "refresh", "set", "edit", "config"}
  MaxToken = 4
  CanCrash = TRUE
  CanFailPersist = TRUE
SPECIFICATION Spec
INVARIANTS TokenKept IInv TokenIsNewest
SYMMETRY Characters
