SPECIFICATION ConsoleFairSpec
CONSTANTS
  KBD_BUF_SIZE = 3
  Keys = {a, F1, ENTER, BACKSPACE}
  NoKey = NoKey
  a = a
  F1 = F1
  ENTER = ENTER
  BACKSPACE = BACKSPACE
  CONS_ROWS = 3
  CONS_COLS = 4
  HelpCommand <- help
  ClearCommand <- clear
  HelpText <- TwoLines
  Banner <- Greeting
  Prefix <- Unknown
  Chars <- TextChars
INVARIANTS WindowCurrent LoadedKeyStays
PROPERTIES ImplementsTerminal ImplementsLossyQueue
