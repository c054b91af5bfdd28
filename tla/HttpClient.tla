----------------------------- MODULE HttpClient -----------------------------
(***************************************************************************)
(* networking/ETHERNET/_09_http_client and, with Tls, _10_https_client:    *)
(* main waits for the network, then makes a GET and a POST request, each   *)
(* on a connection of its own.  The HTTP client library sends the request  *)
(* and calls response_cb for every part of the answer until the last one,  *)
(* an error or its timeout of 3 seconds.                                   *)
(***************************************************************************)
EXTENDS SocketTable, Sequences

CONSTANT Tls

VARIABLES
  httpPc, method,
  http_sock,           \* sock of main
  validIp,             \* SERVER_IP is an address
  hasIp, carrier,      \* the interface has room for an address; the cable
  assigned,            \* the interface has the address
  registered,          \* l4_event_handler is registered
  l4Event,             \* a NET_EVENT_L4_CONNECTED waits for the handler
  network_connected,   \* the semaphore, limit 1
  asked,               \* requests on this connection the server has not answered yet
  answer               \* the request whose answer response_cb printed last; "none" before

httpOwn  == <<httpPc, method, http_sock, validIp, asked, answer>>
netState == <<hasIp, carrier, assigned, registered, l4Event, network_connected>>
httpVars == <<httpOwn, netState, tableVars>>

HttpInit ==
  /\ TableInit
  /\ httpPc = "start" /\ method = "GET" /\ http_sock = None /\ validIp \in BOOLEAN
  /\ hasIp \in BOOLEAN /\ carrier \in BOOLEAN /\ assigned = FALSE /\ registered = FALSE
  /\ l4Event = FALSE /\ network_connected = 0 /\ asked = <<>> /\ answer = "none"
-----------------------------------------------------------------------------
(* net_sample_common.c.  The connection manager reports L4_CONNECTED when the interface      *)
(* gets both carrier and address, and conn_mgr_mon_resend_status reports it again.           *)

\* The manager reports the new address if the handler is registered by then.
Assign(heard) == assigned' = hasIp /\ l4Event' = (l4Event \/ (hasIp /\ carrier /\ heard))

\* In _10 assign_static_ip sets the gateway as well.
assign_static_ip_09(heard) == Assign(heard)
assign_static_ip_10(heard) == Assign(heard)

\* Without an interface wait_for_network returns at once, without having waited.
EnterWait ==
  /\ httpPc = "start"
  /\ \/ httpPc' = "network" /\ UNCHANGED netState
     \/ /\ registered' = TRUE
        /\ IF Tls THEN assign_static_ip_10(TRUE) ELSE assign_static_ip_09(TRUE)
        /\ httpPc' = "wait"
        /\ UNCHANGED <<hasIp, carrier, network_connected>>
  /\ UNCHANGED <<method, http_sock, validIp, asked, answer, tableVars>>

TakeNetwork ==
  /\ httpPc = "wait" /\ network_connected = 1
  /\ network_connected' = 0 /\ httpPc' = "network"
  /\ UNCHANGED <<method, http_sock, validIp, asked, answer, tableVars,
                 hasIp, carrier, assigned, registered, l4Event>>

wait_for_network_09 == ~Tls /\ (EnterWait \/ TakeNetwork)
wait_for_network_10 == Tls /\ (EnterWait \/ TakeNetwork)

ConnectedHandled ==
  /\ l4Event
  /\ l4Event' = FALSE /\ network_connected' = 1
  /\ UNCHANGED <<httpOwn, tableVars, hasIp, carrier, assigned, registered>>

l4_event_handler_09 == ~Tls /\ ConnectedHandled
l4_event_handler_10 == Tls /\ ConnectedHandled

\* The cable.
CarrierChanges ==
  /\ carrier' = ~carrier
  /\ l4Event' = (l4Event \/ (carrier' /\ assigned /\ registered))
  /\ UNCHANGED <<httpOwn, tableVars, hasIp, assigned, registered, network_connected>>
-----------------------------------------------------------------------------
(* main.c *)

\* setup_socket: a bad address is noticed before there is a socket.
setup_socket ==
  IF ~validIp THEN httpPc' = "end" /\ UNCHANGED <<http_sock, tableVars>>
  ELSE \E fd \in Fds \cup {None} :
         Create(fd) /\ http_sock' = fd /\ httpPc' = IF fd = None THEN "end" ELSE "connect"

\* setup_tls_socket: two options are set first; when one fails the socket is closed, but its
\* number stays in sock.
setup_tls_socket ==
  IF ~validIp THEN httpPc' = "end" /\ UNCHANGED <<http_sock, tableVars>>
  ELSE \E fd \in Fds \cup {None} :
         Create(fd) /\ http_sock' = fd /\ httpPc' = IF fd = None THEN "end" ELSE "options"

SetTlsOptions ==
  /\ httpPc = "options"
  /\ \/ Use(http_sock) /\ httpPc' = "connect"
     \/ Close(http_sock) /\ httpPc' = "end"
  /\ UNCHANGED <<method, http_sock, validIp, asked, answer, netState>>

Connecting ==
  /\ httpPc = "connect"
  /\ \/ Use(http_sock) /\ httpPc' = "request" /\ UNCHANGED http_sock
     \/ Close(http_sock) /\ http_sock' = None /\ httpPc' = "end"
  /\ UNCHANGED <<method, validIp, asked, answer, netState>>

connect_socket ==
  \/ /\ ~Tls /\ httpPc = "setup" /\ setup_socket
     /\ UNCHANGED <<method, validIp, asked, answer, netState>>
  \/ ~Tls /\ Connecting

connect_tls_socket ==
  \/ /\ Tls /\ httpPc = "setup" /\ setup_tls_socket
     /\ UNCHANGED <<method, validIp, asked, answer, netState>>
  \/ Tls /\ (SetTlsOptions \/ Connecting)

\* http_client_req sends; a failure is printed and treated like an answer.
SendRequest ==
  /\ httpPc = "request"
  /\ Use(http_sock)
  /\ answer' = "none"
  /\ \/ asked' = Append(asked, method) /\ httpPc' = "response"
     \/ httpPc' = "close" /\ UNCHANGED asked
  /\ UNCHANGED <<method, http_sock, validIp, netState>>

\* A part of an answer; parts come in the order of the requests on this connection.
ResponsePart ==
  /\ httpPc = "response" /\ asked # <<>>
  /\ Use(http_sock)
  /\ answer' = Head(asked)
  /\ \/ UNCHANGED <<httpPc, asked>>                       \* HTTP_DATA_MORE
     \/ asked' = Tail(asked) /\ httpPc' = "close"         \* HTTP_DATA_FINAL
  /\ UNCHANGED <<method, http_sock, validIp, netState>>

response_cb_09 == ~Tls /\ ResponsePart
response_cb_10 == Tls /\ ResponsePart

\* The timeout, or the connection breaks.
RequestFails ==
  /\ httpPc = "response"
  /\ httpPc' = "close"
  /\ UNCHANGED <<method, http_sock, validIp, asked, answer, netState, tableVars>>

\* The connection is closed after the request, and the next request opens another one.
\* Variant: the POST is sent on the connection of the GET.
NextRequest_reuse ==
  /\ method' = "POST"
  /\ IF method = "GET" THEN httpPc' = "request" /\ UNCHANGED <<asked, tableVars>>
                       ELSE httpPc' = "end" /\ Close(http_sock) /\ asked' = <<>>
NextRequest ==
  /\ method' = "POST"
  /\ httpPc' = IF method = "GET" THEN "setup" ELSE "end"
  /\ Close(http_sock) /\ asked' = <<>>

FinishRequest ==
  /\ httpPc = "close"
  /\ NextRequest
  /\ UNCHANGED <<http_sock, validIp, answer, netState>>

\* _10 registers the CA certificate before the first connection and gives up without it.
StartRequests ==
  /\ httpPc = "network"
  /\ httpPc' \in IF Tls THEN {"setup", "end"} ELSE {"setup"}
  /\ UNCHANGED <<method, http_sock, validIp, asked, answer, netState, tableVars>>

Requests == StartRequests \/ SendRequest \/ RequestFails \/ FinishRequest
main_09 == wait_for_network_09 \/ connect_socket \/ response_cb_09 \/ (~Tls /\ Requests)
main_10 == wait_for_network_10 \/ connect_tls_socket \/ response_cb_10 \/ (Tls /\ Requests)

L4Handler == l4_event_handler_09 \/ l4_event_handler_10
HttpNext == main_09 \/ main_10 \/ L4Handler \/ CarrierChanges

\* main and the thread of net_mgmt run; every call of main has a timeout, so an answer that
\* does not end is cut off in the end.
HttpFairness ==
  /\ WF_httpVars(main_09 \/ main_10) /\ WF_httpVars(L4Handler)
  /\ WF_httpVars(RequestFails)
HttpSpec == HttpInit /\ [][HttpNext]_httpVars /\ HttpFairness
-----------------------------------------------------------------------------
\* Type correctness.
HttpTypeOK ==
  /\ httpPc \in {"start", "wait", "network", "setup", "options", "connect", "request",
                 "response", "close", "end"}
  /\ method \in {"GET", "POST"} /\ http_sock \in Fds \cup {None} /\ validIp \in BOOLEAN
  /\ hasIp \in BOOLEAN /\ carrier \in BOOLEAN /\ assigned \in BOOLEAN
  /\ registered \in BOOLEAN /\ l4Event \in BOOLEAN /\ network_connected \in 0..1
  /\ asked \in Seq({"GET", "POST"}) /\ answer \in {"none", "GET", "POST"}
  /\ open \subseteq Fds /\ misused \in BOOLEAN

\* Whatever call fails, one socket is open while a request is made and none at the end.
HttpBalanced ==
  open = IF httpPc \in {"options", "connect", "request", "response", "close"}
         THEN {http_sock} ELSE {}

\* What response_cb prints is the answer to the request that is being made: an answer that
\* comes after the timeout is never taken for the answer to the next request.
AnswersItsRequest == httpPc \in {"response", "close"} => answer \in {"none", method}

\* While main waits, an interface with cable and address has its event on the way, or the
\* semaphore is given already, in whichever order cable, address and registration came.
NetworkPending == httpPc = "wait" /\ carrier /\ assigned => l4Event \/ network_connected = 1

\* main does not wait for ever once the interface has both cable and address: the handler is
\* registered before the address is assigned, so the event cannot come too early.
NetworkNoticed == (carrier /\ assigned) ~> httpPc = "end"
=============================================================================
