SPECIFICATION Spec
CONSTANTS
  Procs = {p1, p2}
  Handler = handler
  ROWS = 2
  COLUMNS = 2
  TAB = 2
  BYTE = 2
  WORD = 16
  Printed = {"char", "newline", "return"}
  Typed = {"char", "newline", "backspace", "tab", "delete", "up", "down", "left", "right"}
  MaxCalls = 3
CHECK_DEADLOCK FALSE
INVARIANTS
  TypeOK
  NotBelowScreen
  HardwareCursorAgrees
  TextAsPut

