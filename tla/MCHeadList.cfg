SPECIFICATION Spec
CONSTANTS
  List = {ready, sleeping}
  Item = {p1, p2, p3, p4}
  Wait = {1, 2}
  NULL = NULL
SYMMETRY Symmetry
INVARIANTS
  TailIsLast
PROPERTIES
  IsListQueues
