CONSTANTS
  pa = pa
  pb = pb
  AnyProject = AnyProject
  Owner <- MCOwner
  Project <- MCProject
  Replaces <- MCReplaces
  Graph <- MCGraph
  Limits = {1, 2}
  LexicalOrders <- MCLexicalOrders
  NearestOrders <- MCNearestOrders
  Decay <- MCDecay
  OnTopic = {1, 3}
  ExactLimits = {1, 2, 3}
  FullText <- MCMatches
  Containing <- MCMatches
  Nodes = {1, 2, 3, 4}
  Roots <- MCRoots
  Depths = {1, 2}
  NodeCaps = {1, 2, 3, 4}
SPECIFICATION SearchSpec
INVARIANTS OneVersionIsCurrent NewestFirst ExactComplete TraceConnected TraceExact
CHECK_DEADLOCK FALSE
