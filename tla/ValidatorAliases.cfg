CONSTANTS
  None = None
  Names <- MCNames
  Likeness <- MCLikeness
  Words = {"SELECT", "EXPLAIN", "ANALYZE", "FORMAT", "DELETE", "json"}
  Symbols = {"1"}
SPECIFICATION Spec
INVARIANTS ValidatorStaysSilent
