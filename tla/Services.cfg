SPECIFICATION Spec
CONSTANTS
  Mask <- MCMask
  MaxEvents = 3
  ToolboxCall <- MCToolboxCall
  Client = {t1, t2}
  Descriptor = {3, 4, 5}
  MaxEndpoints = 2
  Library <- MCLibrary
  World <- MCWorld
  SectionAddress <- MCSectionAddress
  SymbolAddress <- MCSymbolAddress
  WordSize = 512
  PositionSize = 16
  IndexSize = 4
  SectionField = 4
INVARIANTS
  TypeOK
  SidesTakeTurns
  ReturnedEventIsRemoved
  SocketsBelongToEndpoints
  OnlySynchronousCallsWait
  LoadedIsLinked
PROPERTIES
  CallsReturn
CHECK_DEADLOCK FALSE
