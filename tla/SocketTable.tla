---------------------------- MODULE SocketTable ----------------------------
(***************************************************************************)
(* What the networking samples use of the sockets library: descriptors are *)
(* handed out lowest first, close frees one.  A call on a descriptor that  *)
(* is not open is remembered in misused.                                   *)
(***************************************************************************)
EXTENDS Integers

CONSTANT MaxFds       \* CONFIG_ZVFS_OPEN_MAX, or what other sockets leave of it

ASSUME MaxFdsAssumption == MaxFds \in Nat

VARIABLES open, misused

tableVars == <<open, misused>>

Fds  == 0..(MaxFds - 1)
None == -1

TableInit == open = {} /\ misused = FALSE

\* socket and accept: a free descriptor, the lowest; or -1 when there is none or no memory.
Create(fd) ==
  /\ UNCHANGED misused
  /\ \/ fd = None /\ UNCHANGED open
     \/ /\ fd \in Fds \ open
        /\ \A f \in Fds \ open : fd <= f
        /\ open' = open \cup {fd}

\* bind, connect, send, recv, ...
Use(fd) == misused' = (misused \/ fd \notin open) /\ UNCHANGED open

Close(fd) == misused' = (misused \/ fd \notin open) /\ open' = open \ {fd}
=============================================================================
