------------------------------- MODULE Sources -------------------------------
(***************************************************************************)
(* Where evidence comes from, side by side: the ssh agent (AgentProtocol),        *)
(* tailscaled (LocalApi) and the passwd database (UnixAccount).  The gpg source    *)
(* (GpgProtocol) stands by itself.                                            *)
(***************************************************************************)
EXTENDS Naturals, Sequences

CONSTANTS
    Nothing, MaxCalls, MaxMoves, MaxLogins,
    Blobs, DidKeys,     \* the ssh agent's keys, and the configured DIDs
    Logins, Splits,     \* tailscale's accounts, and how an answer may be chunked
    Suggested, DefaultCap, MaxPasswdBuf, Entries, NoEntry, Unbounded    \* of passwd

VARIABLES
    ring, up, moves, aOffered, aCall, aCalls, made, resident, aCalm,
    login, logins, tOffered, tCall, tCalls, reported, whole,
    entry, cap, named, failed

\* The three sources; each keeps its own state.
A == INSTANCE AgentProtocol WITH
        NoPoint <- Nothing, offered <- aOffered, call <- aCall, calls <- aCalls, calm <- aCalm

T == INSTANCE LocalApi WITH offered <- tOffered, call <- tCall, calls <- tCalls

U == INSTANCE UnixAccount

\* No call in flight is told from a call on any identity.
ASSUME NothingAssumption ==
    Nothing \notin A!AgentPaths /\ Nothing \notin Logins

\* The chunks of a status follow each other, and the last ends with it.
ASSUME SplitsAssumption ==
    \A s \in Splits :
        /\ s \in Seq(1..3) /\ s # << >> /\ s[Len(s)] = 3
        /\ \A k, l \in DOMAIN s : k < l => s[k] < s[l]

\* Sizes are natural numbers, and no entry and an endless one are told from them.
ASSUME SizesAssumption ==
    /\ Suggested \subseteq Nat /\ DefaultCap \in Nat /\ MaxPasswdBuf \in Nat
    /\ Entries \subseteq Nat \ {NoEntry, Unbounded}

-----------------------------------------------------------------------------
(* The properties of the instances; each is stated and explained in its module. *)

\* ssh-agent and did:key: an undisturbed agent proves what it holds.
WillingAgentProves == A!WillingAgentProves

\* tailscale: a chunked answer is reassembled whole or refused.
DechunkedIsTheBody == T!DechunkedIsTheBody

\* ssh-agent and did:key implement Prover: evidence is of a key the agent holds
\* during the call, and a call that fails proves nothing.
AgentImplementsProver == A!AgentImplementsProver

\* tailscale implements Prover: evidence is of the login tailscaled has during
\* the call.
TailscaleImplementsProver == T!ImplementsProver

\* unix: an entry of up to half the limit is found.
SmallEntryIsFound == U!SmallEntryIsFound
=============================================================================
