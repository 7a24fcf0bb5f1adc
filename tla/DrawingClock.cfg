SPECIFICATION Spec
CONSTANTS
  PLANES = 2
  BITS = 2
  ROW_BYTES = 2
  HEIGHT = 2
  VRAM = 6
  CURSOR <- MCCursor
  Start <- MCStart
  GuiCalls <- ClockOnly
  UserCalls <- NoCalls
INVARIANTS ScreenMirrorsShadow
