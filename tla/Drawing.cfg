SPECIFICATION Spec
CONSTANTS
  PLANES = 2
  BITS = 2
  ROW_BYTES = 2
  HEIGHT = 2
  VRAM = 6
  CURSOR <- MCCursor
  Start <- MCStart
  GuiCalls <- MCGuiCalls
  UserCalls <- MCUserCalls
INVARIANTS CursorLeavesNoTrace
PROPERTIES CallsDrawRight DamageConfined
