----------------------------- MODULE TcpClient -----------------------------
(***************************************************************************)
(* networking/ETHERNET/_05_tcp_client: one connection, one message, one    *)
(* answer of which only the length matters; then main sleeps for ever.     *)
(***************************************************************************)
EXTENDS SocketTable, StaticAddress

CONSTANTS AnswerBuf,     \* RECV_BUF_SIZE
          MaxAnswer      \* bound: what the server answers

ASSUME TcpClientAssumption == AnswerBuf \in Nat \ {0} /\ MaxAnswer \in Nat

VARIABLES
  cliPc, tcp_socket,
  valid,        \* SERVER_ADDR, which the user is told to customise, is an address
  serverUp,     \* the server is there and answers
  ret           \* what recv returned

cliOwn  == <<cliPc, tcp_socket, valid, serverUp, ret>>
cliVars == <<cliOwn, tableVars, addrVars>>

CliInit ==
  /\ TableInit /\ AddrInit
  /\ cliPc = "start" /\ tcp_socket = None /\ valid \in BOOLEAN /\ serverUp = TRUE /\ ret = 0

assign_static_ip_05 == RegisterThenAssign

main_05 ==
  /\ cliPc = "start"
  /\ \/ cliPc' = "end" /\ UNCHANGED addrVars
     \/ cliPc' = "create" /\ assign_static_ip_05
  /\ UNCHANGED <<tcp_socket, valid, serverUp, ret, tableVars>>

ip_event_handler_05 == ip_event_handler /\ UNCHANGED <<cliOwn, tableVars>>

CreateSocket ==
  /\ cliPc = "create"
  /\ \E fd \in Fds \cup {None} :
       Create(fd) /\ tcp_socket' = fd /\ cliPc' = IF fd = None THEN "sleep" ELSE "address"
  /\ UNCHANGED <<valid, serverUp, ret, addrVars>>

\* inet_pton; the failing branch closes the socket but keeps its number.
ConvertAddress ==
  /\ cliPc = "address"
  /\ IF valid THEN cliPc' = "connect" /\ UNCHANGED tableVars
              ELSE cliPc' = "sleep" /\ Close(tcp_socket)
  /\ UNCHANGED <<tcp_socket, valid, serverUp, ret, addrVars>>

Abandon == Close(tcp_socket) /\ tcp_socket' = None /\ cliPc' = "sleep"

\* connect, then send: each may fail.
CallServer(from, to) ==
  /\ cliPc = from
  /\ \/ serverUp /\ Use(tcp_socket) /\ cliPc' = to /\ UNCHANGED tcp_socket
     \/ Abandon
  /\ UNCHANGED <<valid, serverUp, ret, addrVars>>

ReceiveAnswer ==
  /\ cliPc = "recv"
  /\ \/ /\ \E n \in 1..MaxAnswer : ret' = IF n < AnswerBuf THEN n ELSE AnswerBuf - 1
        /\ cliPc' = "print" /\ UNCHANGED tcp_socket /\ Use(tcp_socket)
     \/ ~serverUp /\ ret' = 0 /\ cliPc' = "print" /\ UNCHANGED tcp_socket /\ Use(tcp_socket)
     \/ ~serverUp /\ ret' = None /\ Abandon
  /\ UNCHANGED <<valid, serverUp, addrVars>>

CloseConnection ==
  /\ cliPc = "print"
  /\ Abandon
  /\ UNCHANGED <<valid, serverUp, ret, addrVars>>

tcp_connect_and_send ==
  \/ CreateSocket \/ ConvertAddress
  \/ CallServer("connect", "send") \/ CallServer("send", "recv")
  \/ ReceiveAnswer \/ CloseConnection

ServerStops ==
  /\ serverUp /\ serverUp' = FALSE
  /\ UNCHANGED <<cliPc, tcp_socket, valid, ret, tableVars, addrVars>>

CliMain == main_05 \/ tcp_connect_and_send
CliNext == CliMain \/ ip_event_handler_05 \/ ServerStops

\* The thread of net_mgmt runs.  The client may wait for the server for ever.
CliFairness == WF_cliVars(ip_event_handler_05)
CliSpec == CliInit /\ [][CliNext]_cliVars /\ CliFairness
-----------------------------------------------------------------------------
\* Type correctness.
CliTypeOK ==
  /\ cliPc \in {"start", "create", "address", "connect", "send", "recv", "print", "sleep", "end"}
  /\ tcp_socket \in Fds \cup {None} /\ valid \in BOOLEAN /\ serverUp \in BOOLEAN
  /\ ret \in -1..(AnswerBuf - 1)
  /\ open \subseteq Fds /\ misused \in BOOLEAN /\ AddrTypeOK

\* Whichever call fails, the client that sleeps for ever has no socket open.
CliBalanced ==
  open = IF cliPc \in {"address", "connect", "send", "recv", "print"} THEN {tcp_socket} ELSE {}
=============================================================================
