SPECIFICATION Spec
CONSTANTS
  Sends = {s1, s2}
  Cap = 1
  MaxDay = 2
  MaxTexts = 2
  MaxReports = 2
  MaxMishaps = 1
SYMMETRY SendSymmetry
INVARIANTS SentWithinCap AcceptedIsTraceable NewestEventShows RedeliveredTextsAreInert
PROPERTY StatusNeverRegresses
CHECK_DEADLOCK FALSE
