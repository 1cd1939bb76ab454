--------------------------- MODULE SocketService ---------------------------
(***************************************************************************)
(* What hired promises of its Workload API socket, with everything about   *)
(* how it keeps the promise left out: daemons come and go, and at any      *)
(* moment at most one of them listens.  A daemon takes the place only when *)
(* it is vacant; nobody is displaced.                                      *)
(***************************************************************************)

CONSTANT Daemons            \* hired processes that may be started

VARIABLE servers            \* the daemons that hold a listening socket

Init == servers = {}

\* A daemon begins to listen: the place must be vacant.
Enter(d) == servers = {} /\ servers' = {d}

\* The daemon that listens stops, for whatever reason.
Leave(d) == servers = {d} /\ servers' = {}

Next == \E d \in Daemons : Enter(d) \/ Leave(d)

Spec == Init /\ [][Next]_servers
=============================================================================
