----------------------------- MODULE DaemonSeen -----------------------------
(***************************************************************************)
(* hired as its clients see it through the socket: no socket file, a file       *)
(* nobody listens on (what a killed daemon leaves), a daemon that answers, and    *)
(* one that accepts and does not answer yet (a source holds the request).         *)
(* An answer to a named request is that identity alone, and no answer is          *)
(* empty: NamedGetsOnlyNamed and CompleteReply of WorkloadApi.                   *)
(***************************************************************************)
EXTENDS Naturals, Sequences

CONSTANTS
    Ids,        \* identities the daemon may hold
    NoId,       \* the empty spiffe_id field
    MaxChanges  \* bound on restarts, crashes and stalls

VARIABLES
    daemon,
    changes

DaemonStates == {"absent", "stale", "up", "hung"}

DaemonInit == daemon \in DaemonStates /\ changes = 0

DaemonChanges ==
    /\ changes < MaxChanges
    /\ changes' = changes + 1
    /\ daemon' \in DaemonStates \ {daemon}

SocketExists == daemon # "absent"
Listening == daemon \in {"up", "hung"}

\* What fetch_jwtsvid may return for a request: a refusal is Refused.
Refused == << >>
Answers(id) == {Refused} \cup (IF id = NoId THEN {<<i>> : i \in Ids} \cup {s \in Ids \X Ids : s[1] # s[2]}
                               ELSE {<<id>>} \cap {<<i>> : i \in Ids})

\* The call returns what the daemon answers, or fails with the connection.
Returns(id, svids) ==
    \/ daemon = "up" /\ svids \in Answers(id)
    \/ ~Listening /\ svids = Refused
=============================================================================
