SPECIFICATION Spec
CONSTANTS
  Capacity = 3
  Message = {m1, m2}
  Filler = zero
  MaxLevel = 2
  Senders <- TaskAndTwoIsr
INVARIANT OverflowBounded
PROPERTY SendsAreAtomic
