SPECIFICATION Spec
CONSTANTS
  screen_w = 3
  screen_h = 2
  TitleHeight = 1
  Windows <- MCWindows
INVARIANT OneDragged UnderPointer
PROPERTY MovesWithPointer
