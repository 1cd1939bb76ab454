------------------------------ MODULE HireWatch ------------------------------
(***************************************************************************)
(* hire watch (hire/src/main.rs): a loop that polls hired on a ticker until       *)
(* Ctrl-C.  Each turn of the loop calls tokio::signal::ctrl_c() anew: the call      *)
(* that is polled first replaces the default action of SIGINT for good, and a       *)
(* listener hears only signals that arrive while it exists.                      *)
(***************************************************************************)
EXTENDS DaemonSeen

CONSTANT MaxPresses     \* bound on Ctrl-C

VARIABLES
    watch,      \* [pc, armed, heard]: armed once the default action is replaced,
                \* heard when the listener of this turn was notified
    due,        \* whether the ticker is due
    presses,
    shown       \* the answer printed last, Refused for none

vars == <<daemon, changes, watch, due, presses, shown>>

Init ==
    /\ DaemonInit
    /\ watch = [pc |-> "turn", armed |-> FALSE, heard |-> FALSE]
    /\ due = TRUE           \* the first tick is immediate
    /\ presses = 0
    /\ shown = Refused

Become(pc) == watch' = [watch EXCEPT !.pc = pc, !.heard = FALSE]

Ended == watch.pc \in {"done", "killed"}

\* select! polls its branches in random order: a tick that is due may win
\* before ctrl_c() was ever polled.
Select ==
    /\ watch.pc = "turn"
    /\ \/ /\ due
          /\ due' = FALSE
          /\ \E polled \in BOOLEAN :
                watch' = [pc |-> "connect", armed |-> watch.armed \/ polled, heard |-> FALSE]
       \/ /\ ~due
          /\ watch' = [pc |-> "select", armed |-> TRUE, heard |-> FALSE]
          /\ UNCHANGED due
    /\ UNCHANGED <<daemon, changes, presses, shown>>

\* The tick branch: the listener of this turn is dropped.
Tick ==
    /\ watch.pc = "select" /\ due
    /\ due' = FALSE
    /\ Become("connect")
    /\ UNCHANGED <<daemon, changes, presses, shown>>

\* The ctrl_c branch breaks the loop.
Break ==
    /\ watch.pc = "select" /\ watch.heard
    /\ Become("done")
    /\ UNCHANGED <<daemon, changes, due, presses, shown>>

\* A slip in Connect: an unreachable daemon ends the watch.
ConnectOrQuit ==
    /\ watch.pc = "connect"
    /\ Become(IF Listening THEN "call" ELSE "done")
    /\ UNCHANGED <<daemon, changes, due, presses, shown>>

\* connect_to_daemon; an error is reported and the loop goes on.
Connect ==
    /\ watch.pc = "connect"
    /\ Become(IF Listening THEN "call" ELSE "turn")
    /\ UNCHANGED <<daemon, changes, due, presses, shown>>

\* fetch_jwtsvid; every identity of the answer is printed, an error reported.
Fetch ==
    /\ watch.pc = "call"
    /\ \E svids \in Answers(NoId) :
          /\ Returns(NoId, svids)
          /\ shown' = IF svids = Refused THEN shown ELSE svids
    /\ Become("turn")
    /\ UNCHANGED <<daemon, changes, due, presses>>

\* Time passes: the ticker is due, also during a poll.
TickerDue ==
    /\ ~Ended /\ ~due
    /\ due' = TRUE
    /\ UNCHANGED <<daemon, changes, watch, presses, shown>>

\* SIGINT: the default action, a notification, or nothing.
PressCtrlC ==
    /\ ~Ended /\ presses < MaxPresses
    /\ presses' = presses + 1
    /\ watch' = IF ~watch.armed THEN [watch EXCEPT !.pc = "killed"]
                ELSE [watch EXCEPT !.heard = (watch.pc = "select")]
    /\ UNCHANGED <<daemon, changes, due, shown>>

Next ==
    \/ Select \/ Tick \/ Break \/ Connect \/ Fetch
    \/ TickerDue \/ PressCtrlC
    \/ DaemonChanges /\ UNCHANGED <<watch, due, presses, shown>>

Spec == Init /\ [][Next]_vars

\* The runtime polls the loop and time passes.
Fairness ==
    /\ WF_vars(Select \/ Tick \/ Break \/ Connect \/ Fetch)
    /\ WF_vars(TickerDue)

FairSpec == Spec /\ Fairness

-----------------------------------------------------------------------------
(* Properties.                                                             *)

\* The watch stays in its types.
TypeOK ==
    /\ watch.pc \in {"turn", "select", "connect", "call", "done", "killed"}
    /\ watch.armed \in BOOLEAN /\ watch.heard \in BOOLEAN
    /\ due \in BOOLEAN

\* The watch survives outages: once hired is back for good it is polled again and
\* again, unless a Ctrl-C ended the watch.
KeepsPolling ==
    <>[](daemon = "up" /\ (Ended => presses = 0)) => []<>(watch.pc = "call")

\* Ctrl-C is how the user stops the watch: unless hired stalls for good, a watch
\* that was sent one ends.
CtrlCEnds == []<>(daemon # "hung") => [](presses > 0 => <>Ended)
=============================================================================
