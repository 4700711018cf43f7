SPECIFICATION Spec
CONSTANTS
  Conn = {c1, c2, c3}
  NoConn = NoConn
  MaxClients = 1
  FdLimit = 3
  Backlog = 2
  MaxIn = 1
  SendCap = 1
  IsSetOfEmpty = {TRUE, FALSE}
SYMMETRY Symmetry
INVARIANTS SocketSetConsistent LeftoverBelongsToOwner RecvDoesNotBlock NoOrphanDescriptor ClosedWhenUnused
