CONSTANTS
  a = a
  b = b
  k = k
  m1 = m1
  m2 = m2
  m3 = m3
  t = t
  q = q
  r = r
  None = None
  Sessions = {a, b, k}
  Parent <- Family
  Transcript <- Told
  Tags = {t}
  Found <- Answers
  MaxSearches = 1
  Queries = {q, r}
  Lists <- AllOrOne
  Sections = {"sessions", "tags", "bookmarks"}
  Entrances <- Anywhere
  MaxIntents = 3
  MaxCalls = 1
SPECIFICATION Spec
INVARIANTS
  RouteAgreement
  FocusIsSingle
  ResultsMatchQuery
  SelectionIsShown

  
CHECK_DEADLOCK FALSE
