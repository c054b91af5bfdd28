----------------------------- MODULE MqttSession -----------------------------
(***************************************************************************)
(* What the MQTT sample promises about its broker session, without the     *)
(* threads: at most one session exists, a session is announced (flag and   *)
(* network LED) only while it is up, and no session is opened before the   *)
(* end of the previous one has been announced.                             *)
(***************************************************************************)

VARIABLES link,       \* "down", "opening" (CONNECT sent) or "up" (CONNACK accepted)
          announced   \* what the application tells its other thread and the LED

sessionVars == <<link, announced>>

Init == link = "down" /\ announced = FALSE

Open ==
  /\ link = "down" /\ ~announced
  /\ link' = "opening"
  /\ UNCHANGED announced

Accept ==
  /\ link = "opening"
  /\ link' = "up"
  /\ UNCHANGED announced

Announce ==
  /\ link = "up" /\ ~announced
  /\ announced' = TRUE
  /\ UNCHANGED link

\* The thread that ends a session may announce it in the same step.
Drop ==
  /\ link # "down"
  /\ link' = "down"
  /\ announced' \in {announced, FALSE}

Withdraw ==
  /\ link = "down" /\ announced
  /\ announced' = FALSE
  /\ UNCHANGED link

Next == Open \/ Accept \/ Announce \/ Drop \/ Withdraw

Spec == Init /\ [][Next]_sessionVars
=============================================================================
