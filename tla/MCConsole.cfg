CONSTANTS
  r1 = r1
  w1 = w1
  w2 = w2
  Readers = {r1}
  Writers = {w1, w2}
  Chars = {"a", "nl", "^D", "^U", "^H"}
  INPUT_BUF_SIZE = 2
  UART_TX_BUF_SIZE = 1
  Wrap = 4
  MaxTyped = 3
  MaxAhead = 1
  Bytes <- MCBytes
  None = None
SPECIFICATION Spec
INVARIANTS NobodyWaitsInVain WritesInOrder
PROPERTIES ImplementsTty WritesEnd
CHECK_DEADLOCK FALSE
