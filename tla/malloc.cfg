\* The pool under nested preemption.
SPECIFICATION Spec
CONSTANTS
  N = 6
  BlockSize = 32
  Sizes <- MCSizes
  MaxLive = 3
INVARIANTS
  TableSound
  NothingLeaks
PROPERTIES
  FailsOnlyWhenFull
