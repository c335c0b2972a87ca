SPECIFICATION Spec
CONSTANTS
  Capacity = 2
  Message = {m1}
  Filler = zero
  MaxLevel = 2
  Senders <- TaskAndTwoIsr
INVARIANT WithinCapacity
