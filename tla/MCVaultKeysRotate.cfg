SPECIFICATION Spec
CONSTANTS
  d1 = d1
  d2 = d2
  e1 = e1
  p1 = p1
  Devices = {d1, d2}
  Entries = {e1}
  Passkeys = {p1}
  MaxKey = 3
  MaxSalt = 3
  MaxVer = 3
SYMMETRY Symmetry
INVARIANTS
  TypeOK
  EverythingOpens
  PasskeyOpens
  LockedOutOnlyByRace
PROPERTIES
  NoEditLost
  PassphraseSticks
CHECK_DEADLOCK FALSE
