SPECIFICATION TermSpec
CONSTANTS
  a = a  b = b
  HISTORY_MAX = 2
  CMD_LEN = 2
  Chars = {a, b}
  MaxEntered = 3
  Cols = 3
  Rows = 3
  Outputs <- Printing
INVARIANTS RemembersLast WindowOK ShowsLines InsideUnlessCleared
PROPERTY LineFollowsView
