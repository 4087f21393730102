SPECIFICATION Spec
CONSTANTS
  Klists <- MCKlists
  Page = 2
  Ehdr = 1
  Phdr = 1
  Leftover = {0, 24}
  MaxFaults = 2
INVARIANT ErrorsStayLocal
CHECK_DEADLOCK FALSE
