SPECIFICATION SchedulerSpec
CONSTANTS
  Conn = {c1}
  NoConn = NoConn
  MaxClients = 1
  FdLimit = 3
  Backlog = 1
  MaxIn = 1
  SendCap = 1
  IsSetOfEmpty = {FALSE}
PROPERTY StoppedBySigint
