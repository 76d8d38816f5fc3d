SPECIFICATION FairSpec
CONSTANTS
  Call = {c1, c2, c3, c4}
  NoCall = NoCall
INVARIANTS Exclusion
PROPERTIES Abstract NoOvertaking EveryCallAdmitted
