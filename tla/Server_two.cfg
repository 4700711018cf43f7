SPECIFICATION Spec
CONSTANTS
  Conn = {c1, c2}
  NoConn = NoConn
  MaxClients = 2
  FdLimit = 3
  Backlog = 2
  MaxIn = 1
  SendCap = 1
  IsSetOfEmpty = {TRUE, FALSE}
SYMMETRY Symmetry
INVARIANT ServerInv
