SPECIFICATION Spec
CONSTANTS
  HEAP_SIZE = 7
  Names = {VGA, Extra}
  VGA = VGA
  NULL = NULL
INVARIANTS ListsSound NothingLeaks
PROPERTIES ScreenKeepsDevice ImplementsRegistry
