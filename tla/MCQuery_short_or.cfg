SPECIFICATION Spec
CONSTANTS
  DayLength = 2
  Days <- BoundaryDays
  Terms = {"ab", "abc", "x"}
  Bigrams = {"ab", "bc"}
  Grams <- TermGrams
  Sessions <- SessionSet
  TokensOf <- TokensIn
  LengthOf <- LengthIn
  TableOf <- TableIn
  NowOf <- NowIn
INVARIANTS OrIsEither
CHECK_DEADLOCK FALSE
