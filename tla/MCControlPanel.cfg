SPECIFICATION Spec
CONSTANTS
  home = home
  p = p
  q = q
  f = f
  g = g
  h = h
  Pages = {home, p, q}
  Home = home
  Forms = {f, g, h}
  PageOf <- MCPageOf
  OwnUrl = {h}
  AlertsOnly = {g}
  None = None
  MaxEdits = 2
  MaxHistory = 2
  MaxAccidents = 1
INVARIANTS
  CleanMeansStored
  StoredIsOwn
PROPERTIES
  LinksKeepChanges
  SavingEnds
