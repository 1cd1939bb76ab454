------------------------------ MODULE MCClients ------------------------------
(***************************************************************************)
(* Small instances, for TLC, of the clients of hired: those of Clients and         *)
(* HireWatch.  A behaviour is one of them running, with the others parked.          *)
(***************************************************************************)
EXTENDS Clients

CONSTANTS Named, MaxChanges, MaxPresses

VARIABLES
    which,
    watch, due, presses, shown

native == <<stdin, open, sent, host, replies>>
cli == <<cmd, args, asked, out, found, unit, exit>>
watcher == <<watch, due, presses, shown>>
vars == <<which, daemon, changes, native, cli, watcher>>

\* Flags, an audience with a parameter that is also a challenge, and an identity.
MCWords == {"--audience", "--spiffe-id", "--challenge", "--decode", "aud"} \cup {Named}

\* The words of a line of prove.
ProveWords == {"--audience", "--challenge", "aud", "nonce"}

MCSpelling ==
    [w \in Words |-> IF w = "aud" THEN <<"url", "?", "hire_require_presence=hardware">> ELSE <<w>>]

W == INSTANCE HireWatch

Init ==
    /\ which \in {"native", "cli", "watch"}
    /\ N!Init /\ C!Init /\ W!Init

NativeRuns == which = "native" /\ UNCHANGED <<which, cli, watcher>>
CliRuns == which = "cli" /\ UNCHANGED <<which, native, watcher>>
WatchRuns == which = "watch" /\ UNCHANGED <<which, native, cli>>

Next ==
    \/ N!Next /\ NativeRuns
    \/ C!Next /\ CliRuns
    \/ W!Next /\ WatchRuns

Spec ==
    /\ Init /\ [][Next]_vars
    /\ WF_vars((W!Select \/ W!Tick \/ W!Break \/ W!Connect \/ W!Fetch) /\ WatchRuns)
    /\ WF_vars(W!TickerDue /\ WatchRuns)

-----------------------------------------------------------------------------

\* hire watch: it polls again once hired is back.
KeepsPolling == which = "watch" => W!KeepsPolling
=============================================================================
