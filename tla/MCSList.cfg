SPECIFICATION Spec
CONSTANTS
  n1 = n1  n2 = n2  n3 = n3  n4 = n4
  Node = {n1, n2, n3, n4}
  Null = Null
INVARIANTS Linked NoUseAfterFree NothingLost
PROPERTY ImplementsNodeList
SYMMETRY Nodes
CHECK_DEADLOCK FALSE
