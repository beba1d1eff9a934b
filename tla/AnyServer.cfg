SPECIFICATION Spec
CONSTANTS
  Emitters = {e1, e2}
  NoEvent = NoEvent
  Window = 2
  MaxFrames = 2
INVARIANTS
  ReplyOnlyFromDone
  SeenIsConsumed
PROPERTY RespondReturns
