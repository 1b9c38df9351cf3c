SPECIFICATION Spec
CONSTANTS
  Container = {"a1", "a2"}
  Id = {"a", "a1", "a2"}
  Path = {1, 2, 3}
  Runtime = {"docker", "cri-o"}
  TTL = 2
  Timeout = 1
  Fits <- MCFits
  Facts <- MCFacts
  Target <- MCTarget
  Hint <- MCHint
  Serves <- MCServes
INVARIANTS TypeOK AnswersMerged NeverInvented
PROPERTIES NamesKept EventuallyNamed
