SPECIFICATION MouseSpec
CONSTANTS
  screen_w = 5
  screen_h = 4
  Moves <- MCMoves
INVARIANT FollowsDevice
