----------------------------- MODULE MCSockets -----------------------------
(* Finite instances of the networking samples other than the MQTT client.  They are separate *)
(* programs: one is chosen at the start, and only that one runs.                             *)
EXTENDS TcpServer, TcpClient, UdpSamples, HttpClient, HttpServer, EthernetLink

VARIABLE program

\* HttpClient is _09; this is _10.
Https == INSTANCE HttpClient WITH Tls <- TRUE

Init ==
  /\ program \in {"link", "tcp_client", "tcp_server", "udp", "http", "https", "http_server"}
  /\ LinkInit /\ (program # "link" => linkProgram = "_01" /\ ~link)
  /\ CliInit /\ (program # "tcp_client" => ~valid)
  /\ SrvInit
  /\ UdpInit /\ (program # "udp" => ~sender /\ ~goodAddr)
  /\ HttpInit /\ (program \notin {"http", "https"} => ~validIp /\ ~hasIp /\ ~carrier)
  /\ HsInit
  /\ program \in {"http", "https", "http_server"} => ~ipv4

Others == /\ UNCHANGED program
          /\ program # "link"        => UNCHANGED linkOwn
          /\ program # "tcp_client"  => UNCHANGED cliOwn
          /\ program # "tcp_server"  => UNCHANGED srvOwn
          /\ program # "udp"         => UNCHANGED udpOwn
          /\ program \notin {"http", "https"} => UNCHANGED <<httpOwn, netState>>
          /\ program # "http_server" => UNCHANGED hsVars

Next ==
  \/ program = "link" /\ LinkNext /\ Others /\ UNCHANGED tableVars
  \/ program = "tcp_client" /\ CliNext /\ Others
  \/ program = "tcp_server" /\ SrvNext /\ Others
  \/ program = "udp" /\ UdpNext /\ Others
  \/ program = "http" /\ HttpNext /\ Others /\ UNCHANGED addrVars
  \/ program = "https" /\ Https!HttpNext /\ Others /\ UNCHANGED addrVars
  \/ program = "http_server" /\ HsNext /\ Others /\ UNCHANGED <<tableVars, addrVars>>

Fairness ==
  \/ program = "link" /\ LinkFairness
  \/ program = "tcp_client" /\ CliFairness
  \/ program = "tcp_server" /\ SrvFairness
  \/ program = "udp" /\ UdpFairness
  \/ program = "http" /\ HttpFairness
  \/ program = "https" /\ Https!HttpFairness
  \/ program = "http_server"

vars == <<program, linkOwn, cliOwn, srvOwn, udpOwn, httpOwn, netState, hsVars, tableVars, addrVars>>
Spec == Init /\ [][Next]_vars /\ Fairness
-----------------------------------------------------------------------------
\* Type correctness of the program that runs.
TypesOK ==
  LinkTypeOK /\ CliTypeOK /\ SrvTypeOK /\ UdpTypeOK /\ HttpTypeOK /\ HsTypeOK

\* Whatever call fails, the program that runs holds the sockets it still needs and no other,
\* and never uses or closes a descriptor that is not open.
SocketsBalanced ==
  /\ ~misused
  /\ program = "tcp_client" => CliBalanced
  /\ program = "tcp_server" => SrvBalanced
  /\ program = "udp" => UdpBalanced
  /\ program \in {"http", "https"} => HttpBalanced

\* Who waits is woken: whatever the handlers or a main wait for has an event on its way.
EventsPending == AddressPending /\ NetworkPending

\* No event is missed: an address that is there to stay is printed in the end, and a main that
\* waits for the network is woken.  The handlers are registered before the address is assigned.
EventsNotMissed == AddressAnnounced /\ NetworkNoticed
=============================================================================
