SPECIFICATION Spec
CONSTANTS
  NumParams = 3
  NumSlots = 2
  Lo <- LoC
  Hi = 2
  Default <- DefaultC
  Top = 9
  Inputs = {0, 7}
  Tasks = {httpd, uart}
  MaxSets = 2
  MaxCommits = 2
  FlashFails = TRUE
SYMMETRY TaskSymmetry
INVARIANTS
  TypeOK
  NothingInvented
  CommitIsDurable
  CommittedInOrder
CHECK_DEADLOCK FALSE
