CONSTANTS
  Capacity = 3
  Socket = {s1, s2, s3}
  Invalid = Invalid
  Garbage = Garbage
SPECIFICATION Spec
INVARIANTS RingOK
PROPERTY FifoSpec
