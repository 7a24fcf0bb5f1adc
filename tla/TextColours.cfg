SPECIFICATION KernelSpec
CONSTANTS
  Lines = {0, 1, 12}
  BiosMasks <- MCMasks
  Faults = {0, 3, 6, 8, 13, 14}
  Fills = {0, 255}
INVARIANT PanicColours
