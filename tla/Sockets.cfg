CONSTANTS
  MaxFds = 3
  RECV_BUF_SIZE = 4
  MaxBytes = 6
  AnswerBuf = 3
  MaxAnswer = 4
  Packets = 3
  BUFFER_SIZE = 3
  MaxDatagram = 4
  Tls = FALSE
  HttpClients = {c1, c2}
  MaxChunks = 2
SPECIFICATION Spec
INVARIANT TypesOK
INVARIANT SocketsBalanced
INVARIANT EventsPending
INVARIANT EchoedInOrder
INVARIANT AnswersItsRequest
INVARIANT EchoWhole
PROPERTY LinkSettles
PROPERTY EventsNotMissed
PROPERTY ServesNextClient
CHECK_DEADLOCK FALSE
