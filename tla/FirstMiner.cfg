CONSTANTS
  t1 = t1
  t2 = t2
  Pages = 3
  Themes = {t1, t2}
  MaxRows = 3
  MaxCrawls = 2
  Unbound = Unbound
SPECIFICATION Spec
INVARIANTS
  FieldsOfItsPage
  ContentIsServed
  IdsAreOneApart
