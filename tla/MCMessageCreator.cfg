SPECIFICATION Spec
CONSTANTS
  m1 = m1
  m2 = m2
  m3 = m3
  None = None
  Messages = {m1, m2, m3}
  Own = {m1, m2}
  Existing <- MCExisting
  Names <- MCNames
  Trim <- MCTrim
  Touched = {"text"}
  MaxRows = 1
  MaxAll = 4
  MaxChanges = 5
  MaxLoads = 2
  MaxPosts = 2
CHECK_DEADLOCK FALSE
INVARIANTS
  OnlyOwnIsOpen
  LoadedIsUnchanged
  IdsAreApart
PROPERTIES
  EditsWhatWasLoaded
  TypesStay
