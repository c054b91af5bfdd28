--------------------------- MODULE StaticAddress ---------------------------
(***************************************************************************)
(* The IPv4 address of the interface.  Adding it raises                    *)
(* NET_EVENT_IPV4_ADDR_ADD; the stack drops an event nobody has registered *)
(* for, and calls the handler for the others in the thread of net_mgmt.    *)
(***************************************************************************)

VARIABLES
  ipv4,       \* the interface has room for an address: net_if_ipv4_addr_add succeeds
  address,    \* the interface has the address
  listening,  \* a handler is registered
  addrEvent,  \* an event waits for the handler
  announced   \* the handler has printed the address

addrVars == <<ipv4, address, listening, addrEvent, announced>>

AddrInit ==
  /\ ipv4 \in BOOLEAN
  /\ address = FALSE /\ listening = FALSE /\ addrEvent = FALSE /\ announced = FALSE

\* net_if_ipv4_addr_add, with or without a handler registered.  Adding an address that is
\* there already raises no event.
AddAddress(heard) ==
  /\ address' = ipv4
  /\ addrEvent' = (addrEvent \/ (ipv4 /\ heard /\ ~address))
  /\ UNCHANGED <<ipv4, announced>>

\* net_mgmt_add_event_callback, then assign_static_ip.  Variant: the other way round.
RegisterThenAssign_swapped == listening' = TRUE /\ AddAddress(listening)
RegisterThenAssign         == listening' = TRUE /\ AddAddress(TRUE)

\* Prints every address of the interface that was assigned by hand, as it is now.
ip_event_handler ==
  /\ addrEvent
  /\ addrEvent' = FALSE
  /\ announced' = (announced \/ address)
  /\ UNCHANGED <<ipv4, address, listening>>

AddrTypeOK ==
  /\ ipv4 \in BOOLEAN /\ address \in BOOLEAN /\ listening \in BOOLEAN
  /\ addrEvent \in BOOLEAN /\ announced \in BOOLEAN

\* An address of the interface that has not been printed has an event that waits for the
\* handler: none was raised before the handler was registered.
AddressPending == address /\ ~announced => addrEvent

\* An address that is there to stay is printed in the end: its event does not come before the
\* handler is registered, and the handler of an older event does not take its place.
AddressAnnounced == <>[]address => <>[]announced
=============================================================================
