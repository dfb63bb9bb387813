SPECIFICATION FairSpec
CONSTANTS
  Producers = {p1, p2}
  Count = 2
  MaxPuts = 2
  Free = free
  NoElement = none
INVARIANTS TypeOK OneProducerInRing DeliveredInOrder
PROPERTIES EventuallyTaken ImplementsFifo
CHECK_DEADLOCK FALSE
