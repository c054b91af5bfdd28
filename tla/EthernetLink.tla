---------------------------- MODULE EthernetLink ----------------------------
(***************************************************************************)
(* networking/ETHERNET/_01_basic_connection polls the link,                *)
(* _02_basic_connection_cb is called back by the PHY driver,               *)
(* _03_static_ip assigns and removes the address in that callback, and     *)
(* _04_dhcp leaves the address to the DHCP client.  One of them runs.      *)
(*                                                                         *)
(* The PHY driver watches the link in the cooperative system work queue    *)
(* and preempts main, which goes through the same callback, one call at a  *)
(* time, when it registers it.                                             *)
(***************************************************************************)
EXTENDS StaticAddress

VARIABLES
  linkProgram,       \* the program that runs
  linkPc,
  link,              \* the cable
  reported,          \* the link as the PHY driver last saw it
  is_up,             \* state->is_up of the callback that runs on main
  overtaken,         \* observer: the driver's last report came inside that callback
  last_state         \* what was printed last: link up or down

mainOwn  == <<is_up, last_state>>
linkOwn  == <<linkProgram, linkPc, link, reported, overtaken, mainOwn>>
linkVars == <<linkOwn, addrVars>>

LinkInit ==
  /\ AddrInit
  /\ linkProgram \in {"_01", "_02", "_03", "_04"}
  /\ linkPc = "start" /\ link \in BOOLEAN /\ reported = FALSE
  /\ is_up = FALSE /\ overtaken = FALSE /\ last_state = FALSE

\* main without an interface, or in _02 and _03 without a PHY that is ready, returns.
Returns(p) ==
  /\ linkProgram = p /\ linkPc \in {"start", "register"}
  /\ linkPc' = "end"
  /\ UNCHANGED <<linkProgram, link, reported, overtaken, mainOwn, addrVars>>

\* What the poll remembers.  Variant: only a link that came up.
Remember_up(now) == last_state' = (last_state \/ now)
Remember(now)    == last_state' = now

PollLink ==
  /\ linkPc = "poll"
  /\ link # last_state
  /\ Remember(link)
  /\ UNCHANGED <<linkProgram, linkPc, link, reported, overtaken, is_up, addrVars>>

main_01 ==
  \/ Returns("_01")
  \/ /\ linkProgram = "_01" /\ linkPc = "start"
     /\ linkPc' = "poll"
     /\ UNCHANGED <<linkProgram, link, reported, overtaken, mainOwn, addrVars>>
  \/ PollLink

phy_link_state_changed_02(up) == last_state' = up /\ UNCHANGED addrVars

assign_static_ip_03 == AddAddress(listening) /\ UNCHANGED listening
remove_static_ip    == address' = FALSE /\ announced' = FALSE /\ UNCHANGED <<ipv4, listening, addrEvent>>
AssignOrRemove(up)  == (up /\ assign_static_ip_03) \/ (~up /\ remove_static_ip)

phy_link_state_changed_03(up) == last_state' = up /\ AssignOrRemove(up)

\* Stores the callback and calls it, on main, with the state the driver has: the test of
\* state->is_up, what is printed, and in _03 what is done with the address.
phy_link_callback_set(from) ==
  /\ linkPc = from /\ linkPc' = "test"
  /\ UNCHANGED <<linkProgram, link, reported, overtaken, mainOwn, addrVars>>

TestState ==
  /\ linkPc = "test" /\ linkPc' = "print"
  /\ is_up' = reported
  /\ UNCHANGED <<linkProgram, link, reported, overtaken, last_state, addrVars>>

PrintState ==
  /\ linkPc = "print" /\ linkPc' = (IF linkProgram = "_03" THEN "assign" ELSE "sleep")
  /\ last_state' = is_up
  /\ UNCHANGED <<linkProgram, link, reported, overtaken, is_up, addrVars>>

AssignState ==
  /\ linkPc = "assign" /\ linkPc' = "sleep"
  /\ AssignOrRemove(is_up)
  /\ UNCHANGED <<linkProgram, link, reported, overtaken, mainOwn>>

main_02 ==
  \/ Returns("_02")
  \/ linkProgram = "_02" /\ phy_link_callback_set("start")

main_03 ==
  \/ Returns("_03")
  \/ /\ linkProgram = "_03" /\ linkPc = "start"
     /\ listening' = TRUE /\ linkPc' = "register"
     /\ UNCHANGED <<linkProgram, link, reported, overtaken, mainOwn, ipv4, address, addrEvent,
                    announced>>
  \/ linkProgram = "_03" /\ phy_link_callback_set("register")

\* From boot on, whatever main does.  The callback it runs is not interrupted by main.
CallbackSet == linkPc \in {"test", "print", "assign", "sleep"}
PhyDriver ==
  /\ linkProgram \in {"_02", "_03"}
  /\ link # reported /\ reported' = link
  /\ overtaken' = (linkPc = "print" \/ linkPc = "assign")
  /\ \/ ~CallbackSet /\ UNCHANGED <<last_state, addrVars>>
     \/ CallbackSet /\ linkProgram = "_02" /\ phy_link_state_changed_02(link)
     \/ CallbackSet /\ linkProgram = "_03" /\ phy_link_state_changed_03(link)
  /\ UNCHANGED <<linkProgram, linkPc, link, is_up>>

\* main registers the handler and starts the client on every interface.
start_dhcpv4_client == linkPc' = "dhcp"

main_04 ==
  /\ linkProgram = "_04" /\ linkPc = "start"
  /\ listening' = TRUE
  /\ start_dhcpv4_client
  /\ UNCHANGED <<linkProgram, link, reported, overtaken, mainOwn, ipv4, address, addrEvent, announced>>

\* The DHCP client gets a lease while the link is up.
DhcpBound ==
  /\ linkPc = "dhcp" /\ link /\ ~address
  /\ AddAddress(listening)
  /\ UNCHANGED <<linkOwn, listening>>

ip_event_handler_03 == linkProgram = "_03" /\ ip_event_handler /\ UNCHANGED linkOwn
handler_04          == linkProgram = "_04" /\ ip_event_handler /\ UNCHANGED linkOwn

Cable ==
  /\ link' = ~link
  /\ UNCHANGED <<linkProgram, linkPc, reported, overtaken, mainOwn, addrVars>>

LinkMain == main_01 \/ main_02 \/ main_03 \/ main_04 \/ TestState \/ PrintState \/ AssignState
LinkHandler == ip_event_handler_03 \/ handler_04
LinkNext == LinkMain \/ PhyDriver \/ LinkHandler \/ DhcpBound \/ Cable

\* main, the work queue of the PHY driver and the thread of net_mgmt run; nobody has to touch
\* the cable and no DHCP server has to answer.
LinkFairness ==
  WF_linkVars(LinkMain) /\ WF_linkVars(PhyDriver) /\ WF_linkVars(LinkHandler)
LinkSpec == LinkInit /\ [][LinkNext]_linkVars /\ LinkFairness
-----------------------------------------------------------------------------
\* Type correctness.
LinkTypeOK ==
  /\ linkPc \in {"start", "register", "test", "print", "assign", "poll", "sleep", "dhcp", "end"}
  /\ linkProgram \in {"_01", "_02", "_03", "_04"}
  /\ link \in BOOLEAN /\ reported \in BOOLEAN /\ last_state \in BOOLEAN
  /\ is_up \in BOOLEAN /\ overtaken \in BOOLEAN /\ AddrTypeOK

\* However often the cable is pulled and plugged, once it stays as it is the program shows
\* the link as it is, and with _03 the interface has its address exactly when the link is up,
\* unless the driver's last report came while main was inside the callback.
LinkSettles ==
  \A up \in BOOLEAN :
    (<>[](link = up) /\ []<>(linkPc \in {"poll", "sleep"})) =>
      <>[](overtaken \/ (last_state = up /\ (linkProgram = "_03" /\ ipv4 => address = up)))

\* _03_static_ip/README.md:10, "Automatically removes the IP address when cable is
\* disconnected": a cable that stays out leaves no address in the end.
AddressRemoved == linkProgram = "_03" => (<>[]~link => <>[]~address)
=============================================================================
