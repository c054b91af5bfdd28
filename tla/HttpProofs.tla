----------------------------- MODULE HttpProofs -----------------------------
(***************************************************************************)
(* Proofs about HttpClient, with and without TLS and for every number of   *)
(* descriptors, and about HttpServer, for every number of clients.         *)
(***************************************************************************)
EXTENDS HttpClient, HttpServer, SequenceTheorems, TLAPS

\* The socket is open exactly while it is used, and no descriptor was misused.
HttpSocketInv ==
  /\ misused = FALSE
  /\ HttpBalanced
  /\ httpPc \in {"options", "connect", "request", "response", "close"} => http_sock \in Fds

\* One request at most is under way on a connection, and it is the present one.
AskedInv ==
  /\ asked \in {<<>>, <<method>>}
  /\ httpPc = "response" => asked = <<method>>
  /\ httpPc \notin {"response", "close"} => asked = <<>>
  /\ httpPc = "request" => method \in {"GET", "POST"}

HttpInv == HttpTypeOK /\ HttpSocketInv /\ AskedInv /\ AnswersItsRequest

\* The types of the flags of the network, which the requests leave alone.
NetTypes ==
  /\ hasIp \in BOOLEAN /\ carrier \in BOOLEAN /\ assigned \in BOOLEAN
  /\ registered \in BOOLEAN /\ l4Event \in BOOLEAN

\* The invariant holds at the start.
LEMMA HttpInitInv == HttpInit => HttpInv
<1> SUFFICES ASSUME HttpInit PROVE HttpInv
  OBVIOUS
<1>1. NetTypes /\ validIp \in BOOLEAN /\ misused \in BOOLEAN
  BY Zenon DEF HttpInit, TableInit, NetTypes
<1>2. HttpTypeOK
  BY <1>1 DEF HttpInit, TableInit, HttpTypeOK, NetTypes, None
<1>3. HttpSocketInv /\ AskedInv /\ AnswersItsRequest
  BY DEF HttpInit, TableInit, HttpSocketInv, AskedInv, AnswersItsRequest, HttpBalanced
<1> QED
  BY <1>2, <1>3 DEF HttpInv

\* A step that leaves the requests and the descriptors alone, except for main's control point
\* before the first request, keeps the invariant.
LEMMA NetworkKeeps ==
  ASSUME HttpInv, NetTypes', network_connected' \in 0..1,
         UNCHANGED <<method, http_sock, validIp, asked, answer, open, misused>>,
         \/ httpPc' = httpPc
         \/ httpPc \in {"start", "wait", "network"} /\ httpPc' \in {"wait", "network", "setup", "end"}
  PROVE  HttpInv'
<1>1. HttpTypeOK'
  BY DEF HttpInv, HttpTypeOK, NetTypes
<1>2. HttpSocketInv' /\ AskedInv' /\ AnswersItsRequest'
  BY DEF HttpInv, HttpSocketInv, AskedInv, AnswersItsRequest, HttpBalanced
<1> QED
  BY <1>1, <1>2 DEF HttpInv

\* net_sample_common.c and the cable.
LEMMA WaitKeeps ==
  ASSUME HttpInv, EnterWait \/ TakeNetwork \/ ConnectedHandled \/ CarrierChanges \/ StartRequests
  PROVE  HttpInv'
<1>1. NetTypes /\ network_connected \in 0..1
  BY DEF HttpInv, HttpTypeOK, NetTypes
<1>2. CASE EnterWait
  <2>1. NetTypes'
    BY Zenon, <1>1, <1>2 DEF EnterWait, NetTypes, netState, assign_static_ip_09, assign_static_ip_10, Assign
  <2> QED
    BY <1>1, <1>2, <2>1, NetworkKeeps DEF EnterWait, netState, tableVars
<1>3. CASE TakeNetwork
  <2>1. NetTypes'
    BY Zenon, <1>1, <1>3 DEF TakeNetwork, NetTypes
  <2> QED
    BY <1>3, <2>1, NetworkKeeps DEF TakeNetwork, tableVars
<1>4. CASE ConnectedHandled
  <2>1. NetTypes'
    BY Zenon, <1>1, <1>4 DEF ConnectedHandled, NetTypes
  <2> QED
    BY <1>4, <2>1, NetworkKeeps DEF ConnectedHandled, httpOwn, tableVars
<1>5. CASE CarrierChanges
  <2>1. NetTypes'
    BY Zenon, <1>1, <1>5 DEF CarrierChanges, NetTypes
  <2> QED
    BY <1>1, <1>5, <2>1, NetworkKeeps DEF CarrierChanges, httpOwn, tableVars
<1>6. CASE StartRequests
  <2>1. NetTypes' /\ network_connected' = network_connected
    BY <1>1, <1>6 DEF StartRequests, NetTypes, netState
  <2> QED
    BY <1>1, <1>6, <2>1, NetworkKeeps DEF StartRequests, tableVars
<1> QED
  BY <1>2, <1>3, <1>4, <1>5, <1>6
-----------------------------------------------------------------------------
(* main.c *)

\* What has to be seen of a step of main to know that the types are kept.
LEMMA TypeKeeps ==
  ASSUME HttpInv, UNCHANGED <<validIp, netState>>, misused' = FALSE,
         method' \in {"GET", "POST"}, asked' \in {<<>>, <<"GET">>, <<"POST">>},
         answer' \in {"none", "GET", "POST"}, http_sock' \in Fds \cup {None}, open' \subseteq Fds,
         httpPc' \in {"setup", "options", "connect", "request", "response", "close", "end"}
  PROVE  HttpTypeOK'
<1>1. NetTypes' /\ validIp' \in BOOLEAN /\ misused' \in BOOLEAN
  BY Zenon DEF HttpInv, HttpTypeOK, NetTypes, netState
<1>2. network_connected' \in 0..1
  BY DEF HttpInv, HttpTypeOK, netState
<1>3. asked' \in Seq({"GET", "POST"})
  <2>1. /\ <<>> \in Seq({"GET", "POST"}) /\ <<"GET">> \in Seq({"GET", "POST"})
        /\ <<"POST">> \in Seq({"GET", "POST"})
    OBVIOUS
  <2> QED
    BY Zenon, <2>1
<1> QED
  BY <1>1, <1>2, <1>3 DEF HttpTypeOK, NetTypes

\* A new descriptor is one that was not open.
LEMMA HttpCreateKeeps ==
  ASSUME HttpInv, httpPc = "setup", UNCHANGED <<method, validIp, asked, answer, netState>>,
         NEW next \in {"connect", "options"}, NEW fd \in Fds \cup {None}, Create(fd),
         http_sock' = fd, httpPc' = IF fd = None THEN "end" ELSE next
  PROVE  HttpInv'
<1>1. /\ misused' = FALSE /\ open = {} /\ None \notin Fds
      /\ open' = IF fd = None THEN {} ELSE {fd}
  BY MaxFdsAssumption DEF Create, HttpInv, HttpSocketInv, HttpBalanced, Fds, None
<1>2. /\ method' \in {"GET", "POST"} /\ asked' = <<>> /\ answer' \in {"none", "GET", "POST"}
  BY DEF HttpInv, HttpTypeOK, AskedInv
<1>3. HttpTypeOK'
  BY <1>1, <1>2, TypeKeeps
<1>4. HttpSocketInv'
  BY <1>1 DEF HttpSocketInv, HttpBalanced
<1>5. AskedInv' /\ AnswersItsRequest'
  BY <1>2 DEF AskedInv, AnswersItsRequest
<1> QED
  BY <1>3, <1>4, <1>5 DEF HttpInv

\* setup_socket, setup_tls_socket.
LEMMA SetupKeeps ==
  ASSUME HttpInv, httpPc = "setup", setup_socket \/ setup_tls_socket,
         UNCHANGED <<method, validIp, asked, answer, netState>>
  PROVE  HttpInv'
<1>1. CASE ~validIp
  <2>1. httpPc' = "end" /\ http_sock' = http_sock /\ open' = open /\ misused' = misused
    BY <1>1 DEF setup_socket, setup_tls_socket, tableVars
  <2>2. HttpTypeOK'
    BY <2>1, TypeKeeps DEF HttpInv, HttpTypeOK, HttpSocketInv, AskedInv
  <2> QED
    BY <2>1, <2>2 DEF HttpInv, HttpSocketInv, HttpBalanced, AskedInv, AnswersItsRequest
<1>2. CASE validIp
  <2>1. PICK next \in {"connect", "options"}, fd \in Fds \cup {None} :
          Create(fd) /\ http_sock' = fd /\ httpPc' = IF fd = None THEN "end" ELSE next
    BY <1>2 DEF setup_socket, setup_tls_socket
  <2> QED
    BY <2>1, HttpCreateKeeps
<1> QED
  BY <1>1, <1>2

\* The socket is used or closed as long as it is open.
LEMMA SocketOpen ==
  ASSUME HttpInv, httpPc \in {"options", "connect", "request", "response", "close"}
  PROVE  /\ http_sock \in Fds /\ open = {http_sock}
         /\ Use(http_sock) => misused' = FALSE /\ open' = {http_sock}
         /\ Close(http_sock) => misused' = FALSE /\ open' = {}
  BY DEF HttpInv, HttpSocketInv, HttpBalanced, Use, Close

\* A failed option or connection goes to the close with the socket still open.
LEMMA ConnectKeeps ==
  ASSUME HttpInv, SetTlsOptions \/ Connecting
  PROVE  HttpInv'
<1>1. /\ UNCHANGED <<method, validIp, asked, answer, netState>> /\ misused' = FALSE
      /\ httpPc \in {"options", "connect"} /\ http_sock' \in Fds \cup {None}
      /\ \/ httpPc' \in {"connect", "request"} /\ open' = {http_sock} /\ http_sock' = http_sock
            /\ http_sock \in Fds
         \/ httpPc' = "end" /\ open' = {}
  BY SocketOpen DEF SetTlsOptions, Connecting
<1>2. asked = <<>> /\ method \in {"GET", "POST"} /\ answer \in {"none", "GET", "POST"}
  BY <1>1 DEF HttpInv, HttpTypeOK, AskedInv
<1>3. HttpTypeOK'
  BY <1>1, <1>2, TypeKeeps
<1>4. HttpSocketInv' /\ AskedInv' /\ AnswersItsRequest'
  BY <1>1, <1>2 DEF HttpSocketInv, HttpBalanced, AskedInv, AnswersItsRequest
<1> QED
  BY <1>3, <1>4 DEF HttpInv

\* A request is sent on a connection without another one.
LEMMA RequestKeeps ==
  ASSUME HttpInv, SendRequest
  PROVE  HttpInv'
<1>1. /\ UNCHANGED <<method, http_sock, validIp, netState>> /\ misused' = FALSE
      /\ open' = {http_sock} /\ http_sock \in Fds /\ answer' = "none"
  BY SocketOpen DEF SendRequest
<1>2. asked = <<>> /\ method \in {"GET", "POST"}
  BY DEF HttpInv, AskedInv, SendRequest
<1>3. \/ asked' = <<method>> /\ httpPc' = "response"
      \/ asked' = <<>> /\ httpPc' = "close"
  BY <1>2 DEF SendRequest
<1>4. HttpTypeOK'
  BY <1>1, <1>2, <1>3, TypeKeeps
<1>5. HttpSocketInv' /\ AskedInv' /\ AnswersItsRequest'
  BY <1>1, <1>2, <1>3 DEF HttpSocketInv, HttpBalanced, AskedInv, AnswersItsRequest
<1> QED
  BY <1>4, <1>5 DEF HttpInv

\* The only answer that can arrive is the answer to this request.
LEMMA AnswerKeeps ==
  ASSUME HttpInv, ResponsePart \/ RequestFails
  PROVE  HttpInv'
<1>1. /\ UNCHANGED <<method, http_sock, validIp, netState>> /\ misused' = FALSE
      /\ httpPc = "response" /\ open' = {http_sock} /\ http_sock \in Fds
  BY SocketOpen DEF ResponsePart, RequestFails, HttpInv, HttpSocketInv, tableVars
<1>2. asked = <<method>> /\ method \in {"GET", "POST"} /\ answer \in {"none", method}
  BY <1>1 DEF HttpInv, HttpTypeOK, AskedInv, AnswersItsRequest
<1>3. Head(<<method>>) = method /\ Tail(<<method>>) = <<>>
  OBVIOUS
<1>4. /\ answer' \in {"none", method} /\ asked' \in {<<>>, <<method>>}
      /\ \/ httpPc' = "response" /\ asked' = <<method>>
         \/ httpPc' = "close"
  BY <1>1, <1>2, <1>3 DEF ResponsePart, RequestFails
<1>5. HttpTypeOK'
  BY <1>1, <1>2, <1>4, TypeKeeps
<1>6. HttpSocketInv' /\ AskedInv' /\ AnswersItsRequest'
  BY <1>1, <1>2, <1>4 DEF HttpSocketInv, HttpBalanced, AskedInv, AnswersItsRequest
<1> QED
  BY <1>5, <1>6 DEF HttpInv

\* Closing the connection forgets what was asked on it.
LEMMA FinishKeeps ==
  ASSUME HttpInv, FinishRequest
  PROVE  HttpInv'
<1>1. /\ UNCHANGED <<http_sock, validIp, answer, netState>> /\ misused' = FALSE /\ open' = {}
      /\ method' = "POST" /\ asked' = <<>> /\ httpPc' \in {"setup", "end"}
  BY SocketOpen DEF FinishRequest, NextRequest
<1>2. HttpTypeOK'
  BY <1>1, TypeKeeps DEF HttpInv, HttpTypeOK
<1>3. HttpSocketInv' /\ AskedInv' /\ AnswersItsRequest'
  BY <1>1 DEF HttpSocketInv, HttpBalanced, AskedInv, AnswersItsRequest
<1> QED
  BY <1>2, <1>3 DEF HttpInv

\* The invariant is inductive.
LEMMA HttpNextInv == HttpInv /\ [HttpNext]_httpVars => HttpInv'
<1> SUFFICES ASSUME HttpInv, [HttpNext]_httpVars PROVE HttpInv'
  OBVIOUS
<1>1. CASE HttpNext
  <2>1. \/ EnterWait \/ TakeNetwork \/ ConnectedHandled \/ CarrierChanges \/ StartRequests
        \/ /\ httpPc = "setup" /\ (setup_socket \/ setup_tls_socket)
           /\ UNCHANGED <<method, validIp, asked, answer, netState>>
        \/ SetTlsOptions \/ Connecting \/ SendRequest \/ ResponsePart \/ RequestFails
        \/ FinishRequest
    BY Zenon, <1>1
    DEF HttpNext, main_09, main_10, wait_for_network_09, wait_for_network_10, connect_socket,
        connect_tls_socket, response_cb_09, response_cb_10, Requests, L4Handler,
        l4_event_handler_09, l4_event_handler_10
  <2>2. CASE EnterWait \/ TakeNetwork \/ ConnectedHandled \/ CarrierChanges \/ StartRequests
    BY Zenon, <2>2, WaitKeeps
  <2>3. CASE /\ httpPc = "setup" /\ (setup_socket \/ setup_tls_socket)
             /\ UNCHANGED <<method, validIp, asked, answer, netState>>
    BY Zenon, <2>3, SetupKeeps
  <2>4. CASE SetTlsOptions \/ Connecting
    BY Zenon, <2>4, ConnectKeeps
  <2>5. CASE ResponsePart \/ RequestFails
    BY Zenon, <2>5, AnswerKeeps
  <2> QED
    BY Zenon, <2>1, <2>2, <2>3, <2>4, <2>5, RequestKeeps, FinishKeeps
<1>2. CASE UNCHANGED httpVars
  <2>1. HttpTypeOK' = HttpTypeOK
    BY <1>2 DEF HttpTypeOK, httpVars, httpOwn, netState, tableVars
  <2> QED
    BY <1>2, <2>1 DEF HttpInv, HttpSocketInv, HttpBalanced, AskedInv, AnswersItsRequest,
                      httpVars, httpOwn, netState, tableVars
<1> QED
  BY <1>1, <1>2

\* What response_cb prints is the answer to the request that is being made, with TLS and
\* without.
THEOREM AnswerMatches == HttpSpec => []AnswersItsRequest
<1>1. HttpInv => AnswersItsRequest
  BY DEF HttpInv
<1> QED
  BY <1>1, HttpInitInv, HttpNextInv, PTL DEF HttpSpec

\* One socket is open while a request is made and none at the end, whatever fails, and no
\* descriptor is misused.
THEOREM ClientBalanced == HttpSpec => [](HttpTypeOK /\ HttpBalanced /\ ~misused)
<1>1. HttpInv => HttpTypeOK /\ HttpBalanced /\ ~misused
  BY DEF HttpInv, HttpSocketInv
<1> QED
  BY <1>1, HttpInitInv, HttpNextInv, PTL DEF HttpSpec
-----------------------------------------------------------------------------
(* The wait for the network *)

\* The handler is registered before main waits.
NetWaitInv == NetworkPending /\ (httpPc = "wait" => registered)

\* The library, the address and the cable: each that makes the network complete reports it.
LEMMA WaitHears ==
  ASSUME NetWaitInv, EnterWait \/ TakeNetwork \/ ConnectedHandled \/ CarrierChanges
  PROVE  NetWaitInv'
<1> USE DEF NetWaitInv, NetworkPending, netState, httpOwn
<1>1. CASE EnterWait
  <2>1. CASE httpPc' = "network"
    BY <2>1
  <2>2. CASE httpPc' = "wait"
    <3>1. registered' /\ Assign(TRUE) /\ carrier' = carrier
      BY <1>1, <2>2 DEF EnterWait, assign_static_ip_09, assign_static_ip_10
    <3> QED
      BY Zenon, <3>1 DEF Assign
  <2> QED
    BY <1>1, <2>1, <2>2 DEF EnterWait
<1>2. CASE TakeNetwork
  BY <1>2 DEF TakeNetwork
<1>3. CASE ConnectedHandled
  BY <1>3 DEF ConnectedHandled
<1>4. CASE CarrierChanges
  BY Zenon, <1>4 DEF CarrierChanges
<1> QED
  BY <1>1, <1>2, <1>3, <1>4

\* Nothing that main does later leads back to the wait.
LEMMA RequestsGoOn ==
  ASSUME \/ StartRequests \/ (setup_socket /\ UNCHANGED netState) \/ (setup_tls_socket /\ UNCHANGED netState)
         \/ SetTlsOptions \/ Connecting \/ SendRequest \/ ResponsePart \/ RequestFails \/ FinishRequest
         \/ UNCHANGED httpVars,
         NetWaitInv
  PROVE  NetWaitInv'
<1>1. UNCHANGED netState /\ (httpPc' = httpPc \/ httpPc' # "wait")
  BY DEF StartRequests, setup_socket, setup_tls_socket, SetTlsOptions, Connecting, SendRequest,
         ResponsePart, RequestFails, FinishRequest, NextRequest, httpVars, httpOwn
<1> QED
  BY <1>1 DEF NetWaitInv, NetworkPending, netState

\* The invariant of the wait is inductive.
LEMMA NetWaitNext == NetWaitInv /\ [HttpNext]_httpVars => NetWaitInv'
<1> SUFFICES ASSUME NetWaitInv, [HttpNext]_httpVars PROVE NetWaitInv'
  OBVIOUS
<1>1. \/ EnterWait \/ TakeNetwork \/ ConnectedHandled \/ CarrierChanges \/ StartRequests
      \/ (setup_socket /\ UNCHANGED netState) \/ (setup_tls_socket /\ UNCHANGED netState)
      \/ SetTlsOptions \/ Connecting \/ SendRequest \/ ResponsePart \/ RequestFails
      \/ FinishRequest \/ UNCHANGED httpVars
  BY Zenon
  DEF HttpNext, main_09, main_10, wait_for_network_09, wait_for_network_10, connect_socket,
      connect_tls_socket, response_cb_09, response_cb_10, Requests, L4Handler,
      l4_event_handler_09, l4_event_handler_10
<1> QED
  BY Zenon, <1>1, WaitHears, RequestsGoOn

\* While main waits for the network, the event that wakes it is on its way whenever the network
\* is there, in whichever order the cable, the address and the registration came.
THEOREM NetworkHeard == HttpSpec => []NetworkPending
<1>1. HttpInit => NetWaitInv
  BY DEF HttpInit, NetWaitInv, NetworkPending
<1>2. NetWaitInv => NetworkPending
  BY DEF NetWaitInv
<1> QED
  BY <1>1, <1>2, NetWaitNext, PTL DEF HttpSpec
-----------------------------------------------------------------------------
(* The handlers of the server *)

\* The answer of /echo is, so far, what has arrived; it ends with the request and not before.
ChunksEchoed(c) ==
  /\ final_chunk[c] => arrivedAs[c] = "FINAL"
  /\ resource[c] = "/echo" => response[c] = body[c]

HsInv == HsTypeOK /\ \A c \in HttpClients : ChunksEchoed(c)

\* What each handler leaves for a chunk: a body the server can send, complete only with the
\* last chunk, and for /echo the chunk itself.
LEMMA HandlerAnswers ==
  ASSUME NEW r \in Resources, NEW status \in {"MORE", "FINAL", "ABORTED"},
         NEW d \in Seq(1..MaxChunks), status = "ABORTED" => d = <<>>
  PROVE  /\ Handler(r, status, d).body \in Seq(0..MaxChunks)
         /\ Handler(r, status, d).final \in BOOLEAN
         /\ Handler(r, status, d).final => status = "FINAL"
         /\ r = "/echo" => Handler(r, status, d).body = d
<1>1. d \in Seq(0..MaxChunks) /\ <<0>> \in Seq(0..MaxChunks) /\ <<>> \in Seq(0..MaxChunks)
  <2>1. 1..MaxChunks \subseteq 0..MaxChunks /\ 0 \in 0..MaxChunks
    BY HttpServerAssumption
  <2>2. d \in Seq(0..MaxChunks)
    BY Zenon, <2>1, SeqMonotonic
  <2>3. <<0>> \in Seq(0..MaxChunks) /\ <<>> \in Seq(0..MaxChunks)
    BY <2>1
  <2> QED
    BY <2>2, <2>3
<1>2. CASE r = "/"
  BY <1>1, <1>2 DEF Handler, index_html_resource_detail, Answer, Page
<1>3. CASE r = "/main.js"
  BY <1>1, <1>3 DEF Handler, main_js_resource_detail, Answer, Page
<1>4. CASE r = "/device-info"
  BY <1>1, <1>4 DEF Handler, device_info_handler, Answer, Info
<1>5. CASE r = "/echo"
  BY <1>1, <1>5 DEF Handler, echo_handler, Answer
<1> QED
  BY <1>2, <1>3, <1>4, <1>5 DEF Resources

\* Before the server runs there is no request.
LEMMA HsInitInv == HsInit => HsInv
<1> SUFFICES ASSUME HsInit PROVE HsInv
  OBVIOUS
<1>1. HsTypeOK
  <2>1. <<>> \in Seq(1..MaxChunks) /\ <<>> \in Seq(0..MaxChunks)
    BY HttpServerAssumption
  <2>2. final_chunk \in [HttpClients -> BOOLEAN]
    BY Zenon DEF HsInit
  <2> QED
    BY <2>1, <2>2 DEF HsInit, HsTypeOK
<1>2. \A c \in HttpClients : ChunksEchoed(c)
  BY DEF HsInit, ChunksEchoed
<1> QED
  BY <1>1, <1>2 DEF HsInv

\* main only registers the credentials and starts the server.
LEMMA HsMainKeeps == HsInv /\ main_12 => HsInv'
<1> SUFFICES ASSUME HsInv, main_12 PROVE HsInv'
  OBVIOUS
<1>1. UNCHANGED <<resource, body, arrivedAs, response, final_chunk>>
  BY DEF main_12
<1>2. HsTypeOK'
  BY <1>1 DEF HsInv, HsTypeOK, main_12, setup_tls, http_server_start
<1> QED
  BY <1>1, <1>2 DEF HsInv, ChunksEchoed

\* A chunk changes the request of one client and no other.
LEMMA CallKeeps ==
  ASSUME HsInv, NEW c \in HttpClients, NEW status \in {"MORE", "FINAL", "ABORTED"}, Call(c, status)
  PROVE  HsInv'
<1>1. /\ resource[c] \in Resources
      /\ resource' = [resource EXCEPT ![c] = IF status = "ABORTED" THEN "none" ELSE @]
      /\ UNCHANGED <<serverPc, credentials>>
  BY DEF HsInv, HsTypeOK, Call
<1>2. PICK d : /\ d \in Seq(1..MaxChunks) /\ (status = "ABORTED" => d = <<>>)
               /\ LET a == Handler(resource[c], status, d) IN
                  /\ body' = [body EXCEPT ![c] = @ \o d]
                  /\ arrivedAs' = [arrivedAs EXCEPT ![c] = status]
                  /\ response' = [response EXCEPT ![c] = @ \o a.body]
                  /\ final_chunk' = [final_chunk EXCEPT ![c] = a.final]
  <2> DEFINE few == resource[c] = "/echo" /\ status # "ABORTED" /\ Len(body[c]) < MaxChunks
             data == IF few THEN {<<Len(body[c]) + 1>>} \cup (IF status = "FINAL" THEN {<<>>} ELSE {})
                            ELSE {<<>>}
  <2>1. ASSUME NEW d \in data PROVE d \in Seq(1..MaxChunks) /\ (status = "ABORTED" => d = <<>>)
    <3>1. CASE d = <<>>
      BY <3>1
    <3>2. CASE d = <<Len(body[c]) + 1>> /\ few
      <4>1. body[c] \in Seq(1..MaxChunks)
        BY DEF HsInv, HsTypeOK
      <4>2. Len(body[c]) + 1 \in 1..MaxChunks
        BY <3>2, <4>1, HttpServerAssumption
      <4> QED
        BY <3>2, <4>2
    <3> QED
      BY <2>1, <3>1, <3>2
  <2> QED
    BY <2>1 DEF Call, Chunk
<1> DEFINE a == Handler(resource[c], status, d)
<1>3. /\ a.body \in Seq(0..MaxChunks) /\ a.final \in BOOLEAN /\ (a.final => status = "FINAL")
      /\ (resource[c] = "/echo" => a.body = d)
  BY Zenon, <1>1, <1>2, HandlerAnswers
<1>4. /\ body' = [body EXCEPT ![c] = @ \o d]
      /\ arrivedAs' = [arrivedAs EXCEPT ![c] = status]
      /\ response' = [response EXCEPT ![c] = @ \o a.body]
      /\ final_chunk' = [final_chunk EXCEPT ![c] = a.final]
  BY <1>2
<1> HIDE DEF a
<1>5. HsTypeOK'
  <2>1. body[c] \o d \in Seq(1..MaxChunks) /\ response[c] \o a.body \in Seq(0..MaxChunks)
    BY <1>2, <1>3, ConcatProperties DEF HsInv, HsTypeOK
  <2>2. final_chunk' \in [HttpClients -> BOOLEAN]
    BY Zenon, <1>3, <1>4 DEF HsInv, HsTypeOK
  <2> QED
    BY <1>1, <1>4, <2>1, <2>2 DEF HsInv, HsTypeOK
<1>6. ASSUME NEW b \in HttpClients PROVE ChunksEchoed(b)'
  <2>1. ChunksEchoed(b) /\ ChunksEchoed(c)
    BY DEF HsInv
  <2>2. CASE b = c
    <3>1. arrivedAs'[c] = status /\ final_chunk'[c] = a.final
      BY <1>4 DEF HsInv, HsTypeOK
    <3>2. body'[c] = body[c] \o d /\ response'[c] = response[c] \o a.body
      BY <1>4 DEF HsInv, HsTypeOK
    <3>3. resource'[c] = "/echo" => resource[c] = "/echo"
      BY <1>1 DEF HsInv, HsTypeOK
    <3> QED
      BY Zenon, <1>3, <2>1, <2>2, <3>1, <3>2, <3>3 DEF ChunksEchoed
  <2>3. CASE b # c
    BY <1>1, <1>4, <2>1, <2>3 DEF HsInv, HsTypeOK, ChunksEchoed
  <2> QED
    BY <2>2, <2>3
<1> QED
  BY <1>5, <1>6 DEF HsInv

\* A new request starts with nothing, and the end of a response leaves it as it was sent.
LEMMA HsOthersKeep ==
  ASSUME HsInv, NEW c \in HttpClients, (\E r \in Resources : Request(c, r)) \/ Complete(c)
  PROVE  HsInv'
<1>1. CASE \E r \in Resources : Request(c, r)
  <2>1. PICK r \in Resources : Request(c, r)
    BY <1>1
  <2>2. <<>> \in Seq(1..MaxChunks) /\ <<>> \in Seq(0..MaxChunks)
    OBVIOUS
  <2>3. final_chunk' \in [HttpClients -> BOOLEAN]
    BY Zenon, <2>1 DEF Request, HsInv, HsTypeOK
  <2>4. HsTypeOK'
    BY <2>1, <2>2, <2>3 DEF Request, HsInv, HsTypeOK
  <2> QED
    BY <2>1, <2>4 DEF Request, HsInv, HsTypeOK, ChunksEchoed
<1>2. CASE Complete(c)
  <2>1. HsTypeOK'
    BY <1>2 DEF Complete, HsInv, HsTypeOK
  <2> QED
    BY <1>2, <2>1 DEF Complete, HsInv, HsTypeOK, ChunksEchoed
<1> QED
  BY <1>1, <1>2

\* The invariant is inductive.
LEMMA HsNextInv == HsInv /\ [HsNext]_hsVars => HsInv'
<1> SUFFICES ASSUME HsInv, [HsNext]_hsVars PROVE HsInv'
  OBVIOUS
<1>1. CASE HsNext
  BY Zenon, <1>1, HsMainKeeps, CallKeeps, HsOthersKeep DEF HsNext
<1>2. CASE UNCHANGED hsVars
  BY <1>2 DEF hsVars, HsInv, HsTypeOK, ChunksEchoed
<1> QED
  BY <1>1, <1>2

\* A response that is complete is the body.
LEMMA WholeBody == HsInv => EchoWhole
  BY DEF HsInv, ChunksEchoed, EchoWhole

\* A response is complete only with its request, and /echo has then sent back all of it,
\* however many clients there are.
THEOREM EchoIsWhole == HsSpec => []EchoWhole
  BY WholeBody, HsInitInv, HsNextInv, PTL DEF HsSpec
=============================================================================
