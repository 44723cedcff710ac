CONSTANTS
  MaxFacts = 6
  Calls <- AllCalls
  Values <- NodeValues
SPECIFICATION MCSpec
CHECK_DEADLOCK FALSE
INVARIANT TypeOK
INVARIANT TestsAgree
INVARIANT ClausesAreSafe
INVARIANT ProgramIsSafe
INVARIANT LoweringIsTotal
INVARIANT HeadsAreTyped
INVARIANT RewritesFindTheNew
