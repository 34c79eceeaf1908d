\* Each part of the API layer in turn, on its own bounds (MCApi).
CONSTANTS
  c1 = c1  c2 = c2
  t1 = t1  s1 = s1
  n1 = n1  n2 = n2  n3 = n3  n4 = n4
  Nothing = Nothing  Invalid = Invalid
SPECIFICATION Spec
SYMMETRY Interchangeable
INVARIANTS NoUpdateLost ReadBackUnchanged FilterMeansWhatItSays TextIsItsTokens
INVARIANTS WalkAccountsForAll ScrapeComplete
\* The filters and the texts are bounded.
CHECK_DEADLOCK FALSE
