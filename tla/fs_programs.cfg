SPECIFICATION Spec
CONSTANTS
  n0 = n0  n1 = n1  n2 = n2  n3 = n3
  p = p  q = q  sh = sh  a = a  b = b  long = long  longer = longer  nil = nil
  Nodes = {n0, n1}
  Root = n0
  NULL = nil
  Names <- Short
  Stored <- AsTyped
  Paths <- FilePaths
  Modules <- OneModule
  Commands = {"rm"}
  Shell = sh
  Programs = {p, q}
  Unlinkers = {p}
  Fds = {0}
  Leftovers = {nil, "wild"}
  MaxSize = 3
  UserBase = 4
  Half = 7
CHECK_DEADLOCK FALSE
INVARIANT TypeOK Intact
