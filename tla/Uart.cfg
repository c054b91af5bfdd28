CONSTANTS
  Sync = TRUE
  TxLen = 5
  TxFifo = 2
  Text <- MCText
  RxLen = 3
  RxFifo = 1
  BufLen = 3
  QueueLen = 2
  MaxBytes = 7
  Pool = {b1, b2, b3}
  NoBuf = NoBuf
SPECIFICATION Spec
INVARIANT TypesOK
INVARIANT AllocSucceeds
INVARIANT SendersWoken
INVARIANT LineFlagged
PROPERTY WholeMessages
PROPERTY MessagesInOrder
PROPERTY LineCompleted
PROPERTY InOrderOnce
PROPERTY KeepsSending
PROPERTY LineNoticed
