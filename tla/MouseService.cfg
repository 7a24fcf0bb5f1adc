SPECIFICATION MCSpec
CONSTANTS
  MOUSE_QUEUE_SIZE = 3
  Events <- ThreeEvents
  Start <- StartEvent
  StoreOrder <- SourceOrder
  NoEvent = NoEvent
  TRAIL_MAX = 8
  TRAIL_LIFE = 5
  Deltas <- MCDeltas
  Buttons = {0, 1}
  KEY_GAP = 2
INVARIANTS WholeEvents PromptPacketsWhole TrailErased
PROPERTIES ImplementsLossyQueue
