SPECIFICATION Spec
CONSTANTS
  n0 = n0  n1 = n1  n2 = n2  n3 = n3
  p = p  q = q  sh = sh  a = a  b = b  long = long  longer = longer  nil = nil
  Nodes = {n0, n1, n2, n3}
  Root = n0
  NULL = nil
  Names <- ShortAndLong
  Stored <- CutTo31
  Paths <- ShellPaths
  Modules <- NoModules
  Commands = {"mkdir", "touch", "rm"}
  Shell = sh
  Programs = {}
  Unlinkers = {}
  Fds = {0}
  Leftovers = {nil}
  MaxSize = 0
  UserBase = 1
  Half = 2
SYMMETRY Addresses
INVARIANT Tree Findable CwdLive Sound
