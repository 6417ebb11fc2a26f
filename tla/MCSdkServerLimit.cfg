\* The limit the header states, with the count the code keeps.
SPECIFICATION Spec
CONSTANTS
  Conns = {c1, c2, c3}
  MaxLinks = 1
  ManualCloseNotifies = TRUE
SYMMETRY ConnSymmetry
INVARIANTS LinkLimit
CHECK_DEADLOCK FALSE
