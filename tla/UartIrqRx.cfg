CONSTANTS
  Sync = TRUE
  TxLen = 5
  TxFifo = 2
  Text <- MCText
  RxLen = 3
  RxFifo = 2
  BufLen = 3
  QueueLen = 2
  MaxBytes = 7
  Pool = {b1, b2, b3}
  NoBuf = NoBuf
SPECIFICATION Spec
PROPERTY CrNoticed
