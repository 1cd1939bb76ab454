------------------------------ MODULE MCEvidence ------------------------------
(***************************************************************************)
(* Small instances, for TLC, of the sources of evidence and of Claim::derive on   *)
(* every evidence slice of at most MaxEvidence items.  The agent holds whole      *)
(* ed25519 keys, one with trailing bytes that shares a point with another, and an  *)
(* rsa key.  Of the gpg keys one signs with a subkey and lists a revoked name      *)
(* first, one has two live names, one has none.  The parts share no state, so a   *)
(* behaviour is one of them running, the others parked.                         *)
(***************************************************************************)
EXTENDS Sources, GpgProtocol, DeriveLoop

CONSTANT MaxEvidence     \* bound: length of the evidence slice

VARIABLE which           \* the part that runs

agent == <<ring, up, moves, aOffered, aCall, aCalls, made, resident, aCalm>>
gpg == gpgVars
tailscale == <<login, logins, tOffered, tCall, tCalls, reported, whole>>
unix == <<entry, cap, named, failed>>
derive == deriveVars
allVars == <<which, agent, gpg, tailscale, unix, derive>>

AllInit ==
    /\ A!Init /\ T!Init /\ U!Init /\ DeriveInit
    /\ which \in {"derive"} \cup (IF evidence = << >> THEN {"agent", "gpg", "tailscale", "unix"} ELSE {})
    /\ session \in IF which = "gpg" THEN Sessions ELSE {[gpg |-> "works", willing |-> TRUE, primary |-> TRUE]}
    /\ GpgInit

AgentRuns == which = "agent" /\ UNCHANGED <<which, gpg, tailscale, unix, derive>>
GpgRuns == which = "gpg" /\ UNCHANGED <<which, agent, tailscale, unix, derive>>
TailscaleRuns == which = "tailscale" /\ UNCHANGED <<which, agent, gpg, unix, derive>>
UnixRuns == which = "unix" /\ UNCHANGED <<which, agent, gpg, tailscale, derive>>
DeriveRuns == which = "derive" /\ UNCHANGED <<which, agent, gpg, tailscale, unix>>

AllNext ==
    \/ A!Next /\ AgentRuns
    \/ GpgNext /\ GpgRuns
    \/ T!Next /\ TailscaleRuns
    \/ U!Next /\ UnixRuns
    \/ DeriveNext /\ DeriveRuns

AllSpec == AllInit /\ [][AllNext]_allVars

-----------------------------------------------------------------------------
(* The instance.                                                           *)

Blob(alg, p, w) == [alg |-> alg, point |-> p, whole |-> w]
MCBlobs == {Blob("ssh-ed25519", "p1", TRUE), Blob("ssh-ed25519", "p1", FALSE),
            Blob("ssh-ed25519", "p2", TRUE), Blob("ssh-rsa", Nothing, TRUE)}
MCDidKeys == {[did |-> "d1", point |-> "p1"], [did |-> "d2", point |-> Nothing]}

Uid(name, validity) == [name |-> name, validity |-> validity]
Key(fpr, secret, uids, sub) ==
    [fpr |-> fpr, secret |-> secret, validity |-> "u", uids |-> uids, sub |-> sub]
MCKeys == {Key("A", "+", <<Uid("old", "r"), Uid("ann", "u")>>, "A1"),
           Key("B", "card", <<Uid("bob", "u"), Uid("bo", "u")>>, Unset),
           Key("C", "+", <<Uid("gone", "r")>>, "C1")}

MCSplits == {<<3>>, <<1, 3>>, <<2, 3>>, <<1, 2, 3>>}

MCEntries == 1..17

MCCandidate == [source |-> "attestor", path |-> "p1", domain |-> "self"]

MCInputs == UNION {[1..n -> Evidence] : n \in 0..MaxEvidence}
=============================================================================
