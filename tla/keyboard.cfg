SPECIFICATION Spec
CONSTANTS
  KBD_BUFFER_SIZE = 4
  Keys <- SomeKeys
INVARIANT ShiftNotStuck
PROPERTY Implements
