SPECIFICATION Spec
CONSTANTS
  Keys <- MCKeys
  NoKey = NoKey
  Cases <- MCCases
  ProbeBound = 12
INVARIANTS ListExact Findable
PROPERTIES ImplementsDictionary CallsReturn
