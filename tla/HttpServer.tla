----------------------------- MODULE HttpServer -----------------------------
(***************************************************************************)
(* networking/ETHERNET/_12_https_server_basic: the handlers of the HTTPS   *)
(* server.  The server library calls the handler of the resource for every *)
(* chunk of a request and sends what the handler leaves in the response;   *)
(* it serves several clients from one thread, chunk by chunk.              *)
(***************************************************************************)
EXTENDS Naturals, Sequences

CONSTANTS HttpClients,    \* MAX_HTTPS_CLIENTS is 4
          MaxChunks       \* bound: the chunks of one request

ASSUME HttpServerAssumption == MaxChunks \in Nat

Resources   == {"/", "/main.js", "/device-info", "/echo"}
Credentials == {"certificate", "key", "psk", "psk_id"}
Page        == <<0>>     \* texts of the server; the chunks of a client are 1, 2, ...
Info        == <<0>>

VARIABLES
  serverPc, credentials,
  resource,       \* the resource each client asks for; "none" between requests
  body,           \* the chunks of the request that have arrived
  arrivedAs,      \* the status its last chunk came with
  response,       \* what was sent back for it
  final_chunk     \* the response is marked as complete

hsVars == <<serverPc, credentials, resource, body, arrivedAs, response, final_chunk>>

HsInit ==
  /\ serverPc = "start" /\ credentials = {}
  /\ resource = [c \in HttpClients |-> "none"] /\ body = [c \in HttpClients |-> <<>>]
  /\ arrivedAs = [c \in HttpClients |-> "MORE"]
  /\ response = [c \in HttpClients |-> <<>>] /\ final_chunk = [c \in HttpClients |-> FALSE]

\* A credential that cannot be added is only printed; the server starts all the same.
setup_tls ==
  /\ serverPc = "start"
  /\ credentials' \in SUBSET Credentials
  /\ serverPc' = "setup"

http_server_start ==
  /\ serverPc = "setup"
  /\ serverPc' = "up" /\ UNCHANGED credentials

main_12 ==
  /\ setup_tls \/ http_server_start
  /\ UNCHANGED <<resource, body, arrivedAs, response, final_chunk>>

\* The handshake needs the certificate and its key, or the pre-shared key and its name.
TlsWorks == {"certificate", "key"} \subseteq credentials \/ {"psk", "psk_id"} \subseteq credentials

\* A client sends the head of a request; the method of a resource other than /echo is GET.
Request(c, r) ==
  /\ serverPc = "up" /\ TlsWorks /\ resource[c] = "none"
  /\ resource' = [resource EXCEPT ![c] = r]
  /\ body' = [body EXCEPT ![c] = <<>>] /\ response' = [response EXCEPT ![c] = <<>>]
  /\ arrivedAs' = [arrivedAs EXCEPT ![c] = "MORE"]
  /\ final_chunk' = [final_chunk EXCEPT ![c] = FALSE]
  /\ UNCHANGED <<serverPc, credentials>>

\* What the handlers leave in response_ctx: a body and whether it is the last part.
Answer(b, f) == [body |-> b, final |-> f]

\* The static resources are sent by the library itself, once the request is complete.
index_html_resource_detail(status) == Answer(IF status = "FINAL" THEN Page ELSE <<>>, status = "FINAL")
main_js_resource_detail(status)    == Answer(IF status = "FINAL" THEN Page ELSE <<>>, status = "FINAL")

\* Nothing is answered before the request is complete, nor when it is aborted.
device_info_handler(status) == IF status = "FINAL" THEN Answer(Info, TRUE) ELSE Answer(<<>>, FALSE)

\* Each chunk is sent back; the answer ends with the request.  Variant: the first chunk ends it.
echo_handler_first(status, data) ==
  IF status = "ABORTED" THEN Answer(<<>>, FALSE) ELSE Answer(data, TRUE)
echo_handler(status, data) ==
  IF status = "ABORTED" THEN Answer(<<>>, FALSE) ELSE Answer(data, status = "FINAL")

Handler(r, status, data) ==
  CASE r = "/"            -> index_html_resource_detail(status)
    [] r = "/main.js"     -> main_js_resource_detail(status)
    [] r = "/device-info" -> device_info_handler(status)
    [] r = "/echo"        -> echo_handler(status, data)

\* The server library hands a chunk to the handler: "MORE", "FINAL", or "ABORTED" when the
\* connection is lost.  Only /echo takes a body; its chunks are numbered.
Chunk(c, status) ==
  LET data == IF resource[c] = "/echo" /\ status # "ABORTED" /\ Len(body[c]) < MaxChunks
              THEN {<<Len(body[c]) + 1>>} \cup (IF status = "FINAL" THEN {<<>>} ELSE {})
              ELSE {<<>>}
  IN \E d \in data :
       LET a == Handler(resource[c], status, d) IN
       /\ body' = [body EXCEPT ![c] = @ \o d]
       /\ arrivedAs' = [arrivedAs EXCEPT ![c] = status]
       /\ response' = [response EXCEPT ![c] = @ \o a.body]
       /\ final_chunk' = [final_chunk EXCEPT ![c] = a.final]

Call(c, status) ==
  /\ resource[c] # "none" /\ ~final_chunk[c]
  /\ status = "MORE" => resource[c] = "/echo" /\ Len(body[c]) < MaxChunks
  /\ Chunk(c, status)
  /\ resource' = [resource EXCEPT ![c] = IF status = "ABORTED" THEN "none" ELSE @]
  /\ UNCHANGED <<serverPc, credentials>>

\* The response is complete: the connection is ready for the next request.
Complete(c) ==
  /\ resource[c] # "none" /\ final_chunk[c]
  /\ resource' = [resource EXCEPT ![c] = "none"]
  /\ UNCHANGED <<serverPc, credentials, body, arrivedAs, response, final_chunk>>

HsNext ==
  \/ main_12
  \/ \E c \in HttpClients :
       \/ \E r \in Resources : Request(c, r)
       \/ \E status \in {"MORE", "FINAL", "ABORTED"} : Call(c, status)
       \/ Complete(c)
HsSpec == HsInit /\ [][HsNext]_hsVars
-----------------------------------------------------------------------------
\* Type correctness.
HsTypeOK ==
  /\ serverPc \in {"start", "setup", "up"} /\ credentials \subseteq Credentials
  /\ resource \in [HttpClients -> Resources \cup {"none"}]
  /\ body \in [HttpClients -> Seq(1..MaxChunks)]
  /\ response \in [HttpClients -> Seq(0..MaxChunks)]
  /\ arrivedAs \in [HttpClients -> {"MORE", "FINAL", "ABORTED"}]
  /\ final_chunk \in [HttpClients -> BOOLEAN]

\* A response is complete only when its request is, and what /echo sent back then is the whole
\* body in order, however the chunks of several clients were interleaved.
EchoWhole ==
  \A c \in HttpClients : final_chunk[c] =>
    /\ arrivedAs[c] = "FINAL"
    /\ resource[c] = "/echo" => response[c] = body[c]
=============================================================================
