SPECIFICATION Spec
CONSTANTS
  Mask <- MCMask
  MaxEvents = 2
  ToolboxCall = {"WaitNextEvent"}
  Client = {t1}
  Descriptor = {3}
  MaxEndpoints = 1
  Library <- MCLibrary
  World <- MCWorld
  SectionAddress <- MCSectionAddress
  SymbolAddress <- MCSymbolAddress
  WordSize = 512
  PositionSize = 16
  IndexSize = 4
  SectionField = 4
INVARIANTS
  NothingIsDiscardedUnseen
CHECK_DEADLOCK FALSE
