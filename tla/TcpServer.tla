----------------------------- MODULE TcpServer -----------------------------
(***************************************************************************)
(* networking/ETHERNET/_06_tcp_server: main assigns the address and runs   *)
(* the server, which echoes what one client after another sends.  The      *)
(* clients number their bytes; a client may leave at any time.             *)
(***************************************************************************)
EXTENDS SocketTable, StaticAddress, Sequences

CONSTANTS RECV_BUF_SIZE,
          MaxBytes            \* bound: bytes the clients send

ASSUME TcpServerAssumption == RECV_BUF_SIZE \in Nat \ {0, 1} /\ MaxBytes \in Nat

VARIABLES
  srvPc, server_socket, client_socket,
  recv_buffer, received,     \* of handle_client; what is in the buffer at its start is stale
  waiting,                   \* a client is in the listen queue
  peer,                      \* the client being served: "none", "up", or how it left
  byte, taken,               \* the last byte sent by a client, and the last received here
  first,                     \* the first byte of this client
  echoed                     \* what was echoed to this client

srvOwn  == <<srvPc, server_socket, client_socket, recv_buffer, received,
             waiting, peer, byte, taken, first, echoed>>
srvVars == <<srvOwn, tableVars, addrVars>>

Slots == 1..RECV_BUF_SIZE
Left  == {"gone", "reset"}    \* it closed the connection, or broke it
Least(a, b) == IF a < b THEN a ELSE b

SrvInit ==
  /\ TableInit /\ AddrInit
  /\ srvPc = "start" /\ server_socket = None /\ client_socket = None
  /\ recv_buffer = [i \in Slots |-> 0] /\ received = 0
  /\ waiting = FALSE /\ peer = "none" /\ byte = 0 /\ taken = 0 /\ first = 1 /\ echoed = <<>>

assign_static_ip_06 == RegisterThenAssign

\* main: without an interface it returns; otherwise the address, a second of sleep, the server.
main_06 ==
  /\ srvPc = "start"
  /\ \/ srvPc' = "end" /\ UNCHANGED addrVars
     \/ srvPc' = "socket" /\ assign_static_ip_06
  /\ UNCHANGED <<server_socket, client_socket, recv_buffer, received,
                 waiting, peer, byte, taken, first, echoed, tableVars>>

ip_event_handler_06 == ip_event_handler /\ UNCHANGED <<srvOwn, tableVars>>
-----------------------------------------------------------------------------
(* start_tcp_server *)

\* A failing setsockopt is only printed.
CreateServer ==
  /\ srvPc = "socket"
  /\ \E fd \in Fds \cup {None} :
       /\ Create(fd)
       /\ server_socket' = fd
       /\ srvPc' = IF fd = None THEN "end" ELSE "bind"
  /\ UNCHANGED <<client_socket, recv_buffer, received, waiting, peer, byte, taken, first, echoed, addrVars>>

\* Variant: the socket is left open when bind or listen fails.
GiveUp_open == Use(server_socket) /\ srvPc' = "end"
GiveUp      == Close(server_socket) /\ srvPc' = "end"

BindOrListen(from, to) ==
  /\ srvPc = from
  /\ \/ Use(server_socket) /\ srvPc' = to
     \/ GiveUp
  /\ UNCHANGED <<server_socket, client_socket, recv_buffer, received,
                 waiting, peer, byte, taken, first, echoed, addrVars>>

Accepted(fd) ==
  /\ Create(fd)
  /\ srvPc' = "recv" /\ peer' = "up" /\ waiting' = FALSE
  /\ first' = byte + 1 /\ taken' = byte /\ echoed' = <<>>

Accept ==
  /\ srvPc = "accept"
  /\ \/ waiting /\ \E fd \in Fds : Accepted(fd) /\ client_socket' = fd
     \/ /\ client_socket' = None
        /\ waiting' \in {waiting, FALSE}
        /\ UNCHANGED <<srvPc, peer, first, taken, echoed, tableVars>>
  /\ UNCHANGED <<server_socket, recv_buffer, received, byte, addrVars>>

start_tcp_server ==
  \/ CreateServer
  \/ BindOrListen("bind", "listen")
  \/ BindOrListen("listen", "accept")
  \/ Accept
-----------------------------------------------------------------------------
(* handle_client *)

\* What recv may store.  Variant: the whole buffer, with no room for the terminator.
RecvSize_whole == RECV_BUF_SIZE
RecvSize       == RECV_BUF_SIZE - 1

\* recv returned no bytes.  Variant: an empty result is skipped, as _08_udp_receiver does.
NothingReceived_skip(r) == IF r = 0 THEN "recv" ELSE "close"
NothingReceived(r)      == "close"

Receive ==
  /\ srvPc = "recv"
  /\ Use(client_socket)
  /\ \/ \E n \in 1..Least(RecvSize, byte - taken) :
          /\ received' = n /\ taken' = taken + n
          /\ recv_buffer' = [i \in Slots |-> IF i <= n THEN taken + i
                                             ELSE IF i = n + 1 THEN 0 ELSE recv_buffer[i]]
          /\ srvPc' = "send"
     \/ /\ \/ peer = "gone" /\ taken = byte /\ received' = 0
           \/ peer = "reset" /\ received' = None
        /\ srvPc' = NothingReceived(received')
        /\ UNCHANGED <<recv_buffer, taken>>
  /\ UNCHANGED <<server_socket, client_socket, waiting, peer, byte, first, echoed, addrVars>>

\* How much of the buffer is sent back.  Variant: all of it.
EchoLen_buffer == RECV_BUF_SIZE - 1
EchoLen        == received

\* send may take a part; the rest is not sent again.
SendBack ==
  /\ srvPc = "send"
  /\ Use(client_socket)
  /\ \/ \E n \in 1..EchoLen :
          echoed' = echoed \o [i \in 1..n |-> recv_buffer[i]] /\ srvPc' = "recv"
     \/ peer \in Left /\ srvPc' = "close" /\ UNCHANGED echoed
  /\ UNCHANGED <<server_socket, client_socket, recv_buffer, received, waiting, peer,
                 byte, taken, first, addrVars>>

CloseClient ==
  /\ srvPc = "close"
  /\ Close(client_socket)
  /\ srvPc' = "accept" /\ peer' = "none"
  /\ UNCHANGED <<server_socket, client_socket, recv_buffer, received, waiting,
                 byte, taken, first, echoed, addrVars>>

handle_client == Receive \/ SendBack \/ CloseClient
-----------------------------------------------------------------------------
(* The clients *)
Connect ==
  /\ srvPc \in {"accept", "recv", "send", "close"} /\ ~waiting
  /\ waiting' = TRUE
  /\ UNCHANGED <<srvPc, server_socket, client_socket, recv_buffer, received,
                 peer, byte, taken, first, echoed, tableVars, addrVars>>

ClientSends ==
  /\ peer = "up" /\ byte < MaxBytes
  /\ byte' = byte + 1
  /\ UNCHANGED <<srvPc, server_socket, client_socket, recv_buffer, received,
                 waiting, peer, taken, first, echoed, tableVars, addrVars>>

ClientLeaves ==
  /\ peer = "up"
  /\ peer' \in Left
  /\ UNCHANGED <<srvPc, server_socket, client_socket, recv_buffer, received,
                 waiting, byte, taken, first, echoed, tableVars, addrVars>>

SrvMain == main_06 \/ start_tcp_server \/ handle_client
SrvNext == SrvMain \/ ip_event_handler_06 \/ Connect \/ ClientSends \/ ClientLeaves

\* The server's thread and the thread of net_mgmt run; clients need not do anything.
SrvFairness == WF_srvVars(SrvMain) /\ WF_srvVars(ip_event_handler_06)
SrvSpec == SrvInit /\ [][SrvNext]_srvVars /\ SrvFairness
-----------------------------------------------------------------------------
\* Type correctness.
SrvTypeOK ==
  /\ srvPc \in {"start", "socket", "bind", "listen", "accept", "recv", "send", "close", "end"}
  /\ server_socket \in Fds \cup {None} /\ client_socket \in Fds \cup {None}
  /\ recv_buffer \in [Slots -> 0..MaxBytes] /\ received \in -1..(RECV_BUF_SIZE - 1)
  /\ waiting \in BOOLEAN /\ peer \in {"none", "up"} \cup Left
  /\ byte \in 0..MaxBytes /\ taken \in 0..MaxBytes /\ first \in 1..(MaxBytes + 1)
  /\ echoed \in Seq(0..MaxBytes)
  /\ open \subseteq Fds /\ misused \in BOOLEAN /\ AddrTypeOK

\* Whatever fails and however often clients come and go, the server holds the listening
\* socket, the socket of the client it serves, and nothing else.
SrvHolds ==
  (IF srvPc \in {"start", "socket", "end"} THEN {} ELSE {server_socket})
    \cup (IF srvPc \in {"recv", "send", "close"} THEN {client_socket} ELSE {})
SrvBalanced == open = SrvHolds

\* A client gets back its own bytes, in the order it sent them, each at most once: nothing of
\* the client before it, and nothing that an earlier and longer message left in the buffer.
EchoedInOrder ==
  /\ \A i \in DOMAIN echoed : echoed[i] \in first..taken
  /\ \A i, j \in DOMAIN echoed : i < j => echoed[i] < echoed[j]

\* A client that has left is noticed, its socket closed, and the next one can be accepted.
ServesNextClient == peer \in Left ~> srvPc = "accept"
=============================================================================
