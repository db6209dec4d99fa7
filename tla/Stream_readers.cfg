\* Two overlapping next() calls on a buffer of two.
SPECIFICATION FairSpec
CONSTANTS
  n1 = n1  n2 = n2
  None = None
  Readers = {n1, n2}
  Capacity = 2
  MaxEvents = 4
INVARIANT BufferFaithful
PROPERTIES  CallsAnswered
CHECK_DEADLOCK FALSE
