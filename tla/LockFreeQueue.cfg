SPECIFICATION Spec
CONSTANTS
  Elements = {e1, e2}
  NoElement = none
  ItemSize = 3
  Count = 2
INVARIANTS TypeOK WholeSlots NoOverlap NoTearing
PROPERTY ImplementsFifo
