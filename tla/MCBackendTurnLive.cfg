SPECIFICATION FairSpec
CONSTANTS
  Emitters = {e1, e2}
  NoEvent = NoEvent
  Window = 1
  MaxCalls = 1
PROPERTIES
  NeverHangs
  EmittersReleased
  HandlerReturns
