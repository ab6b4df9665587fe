CONSTANTS
  Slot <- SlotBytes
  Mantissa = 24
  Sizes <- ExactSizes
  Writer = {w1}
  MaxPut = 3
SPECIFICATION FairSpec
INVARIANTS TypeOK Intact NoOverrun
PROPERTIES ImplementsChannel AllReceived
