\* Two slots and four connections: the limit is reached, a connection is
\* turned away, and there is one more to come after it.  No symmetry: it is
\* not sound for the liveness property.
SPECIFICATION FairSpec
CONSTANTS
  Conns = {c1, c2, c3, c4}
  MaxLinks = 2
  ManualCloseNotifies = TRUE
INVARIANTS TypeOK NoLeakedSlot CountDrift
PROPERTIES RefusedOnlyWhenFull RejectedGoes
\* Each connection is used once: when all have gone nothing is left to do.
CHECK_DEADLOCK FALSE
