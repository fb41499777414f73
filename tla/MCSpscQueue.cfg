\* One producer and two consumers (try_pop and pop), two slots.
CONSTANTS
  Producers = {p}
  Consumers = {c1, c2}
  Items = {x, y}
  NoItem = NoItem
  Capacity = 2
SPECIFICATION FairSpec
INVARIANTS NoLostWakeup
PROPERTIES ImplementsFifo CallsReturn
