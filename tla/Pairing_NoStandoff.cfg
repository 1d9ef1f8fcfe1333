SPECIFICATION Spec
CONSTANTS
  c1 = c1
  c2 = c2
  n1 = n1
  n2 = n2
  None = None
  Clients <- MCOneClient
  Conns <- MCOneConn
INVARIANT
  NoStandoff
