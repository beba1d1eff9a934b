SPECIFICATION Spec
CONSTANTS
  Emitters = {e1, e2}
  NoEvent = NoEvent
  Window = 2
  MaxCalls = 2
SYMMETRY Symmetry
INVARIANTS
  SendExclusive
  FramingSound
  ReplayInOrder
  NoSilentGap
  OutcomeFaithful
  IndInv
PROPERTY AbstractTurn
