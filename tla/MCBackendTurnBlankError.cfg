SPECIFICATION Spec
CONSTANTS
  Emitters = {e1}
  NoEvent = NoEvent
  Window = 1
  MaxCalls = 1
INVARIANT RemoteErrorSurfaces
