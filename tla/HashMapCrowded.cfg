SPECIFICATION Spec
CONSTANTS
  Keys <- MCKeys
  NoKey = NoKey
  Cases <- MCCrowded
  ProbeBound = 12
INVARIANT SearchEnds
