------------------------------- MODULE Prover -------------------------------
(***************************************************************************)
(* What Attestor::prove promises of every source (hire-attestors/src/lib.rs): *)
(* evidence is about the present.  The holder of an identity (an agent, a     *)
(* keyring, a network daemon) changes while the call is in flight; a call      *)
(* that answers with evidence names an identity that was held at some moment   *)
(* of that very call, and one that was not held then is refused.             *)
(***************************************************************************)
CONSTANTS
    Subjects,   \* identities a call can be about
    NoSubject   \* no call in flight

VARIABLES
    held,       \* the identities the holder has now
    subject,    \* what the call in flight is to prove, or NoSubject
    seen,       \* whether subject was held at some moment of the call
    outcome     \* how the latest call ended

vars == <<held, subject, seen, outcome>>

Init ==
    /\ held \subseteq Subjects
    /\ subject = NoSubject
    /\ seen = FALSE
    /\ outcome = "none"

\* The holder gains and loses identities at any moment.
Change ==
    /\ held' \subseteq Subjects
    /\ seen' = (seen \/ subject \in held')
    /\ UNCHANGED <<subject, outcome>>

Begin ==
    /\ subject = NoSubject
    /\ subject' \in Subjects
    /\ seen' = (subject' \in held)
    /\ outcome' = "none"
    /\ UNCHANGED held

Prove ==
    /\ subject # NoSubject
    /\ seen
    /\ outcome' = "evidence"
    /\ subject' = NoSubject /\ seen' = FALSE
    /\ UNCHANGED held

Refuse ==
    /\ subject # NoSubject
    /\ outcome' = "refused"
    /\ subject' = NoSubject /\ seen' = FALSE
    /\ UNCHANGED held

Next == Change \/ Begin \/ Prove \/ Refuse

Spec == Init /\ [][Next]_vars
=============================================================================
