---------------------------- MODULE AgentProtocol ----------------------------
(***************************************************************************)
(* The two sources that prove possession through the ssh agent: ssh-agent     *)
(* (hire-attestors/src/ssh.rs) and did:key (did_key.rs), with the verifying     *)
(* constructors of claim.rs that alone can make their evidence.               *)
(*                                                                          *)
(* Each call opens one connection, lists the agent's keys, picks one, asks     *)
(* for a signature over the request's challenge and checks it.  Keys come and   *)
(* go between the steps; the agent may be stopped, locked, slow or decline,     *)
(* and what it returns may be framed wrongly or be another signature of its.    *)
(***************************************************************************)
EXTENDS Naturals, Sequences, Retained

CONSTANTS
    Blobs,      \* key blobs: [alg, point, whole], whole when nothing trails the point
    DidKeys,    \* the DIDs HIRE_DID_KEYS names: [did, point]
    NoPoint,    \* not an ed25519 key
    Nothing,
    MaxCalls,   \* bound on calls
    MaxMoves    \* bound on changes of the agent

VARIABLES
    ring,       \* the keys the agent holds, in its order
    up,         \* whether the agent answers on its socket
    moves,
    offered,    \* candidates the latest enumerations found
    call,       \* the call in flight
    calls,      \* calls begun; a call's challenge is its number
    made,       \* history: the signatures keys have made
    resident,   \* history: whether the call's subject was held during the call
    calm        \* history: whether the agent was undisturbed and willing in the call

agentVars == <<ring, up, moves>>
vars == <<agentVars, offered, call, calls, made, resident, calm>>

Ed25519 == "ssh-ed25519"

\* spiffe_path hashes the blob, or the DID: one path per blob and per DID.
KeyPath(blob) == [source |-> "ssh-agent", of |-> blob]
DidPath(did) == [source |-> "did:key", of |-> did]

AgentPaths == {KeyPath(b) : b \in Blobs} \cup {DidPath(d) : d \in DidKeys}

Ed25519PointOf(blob) == IF blob.alg = Ed25519 /\ blob.whole THEN blob.point ELSE NoPoint

\* The point a DID encodes is NoPoint for any key but an ed25519 one.
Provable(d) == d.point # NoPoint

\* A candidate's secret is in this ring.
Holds(keys, path) ==
    \E i \in DOMAIN keys :
        \/ path = KeyPath(keys[i])
        \/ \E d \in DidKeys :
              path = DidPath(d) /\ Provable(d) /\ Ed25519PointOf(keys[i]) = d.point

NoCall == [pc |-> "idle", path |-> Nothing, keys |-> << >>, blob |-> Nothing,
           sig |-> Nothing, outcome |-> "none"]

Init ==
    /\ ring = << >> /\ up = TRUE /\ moves = 0
    /\ offered = {DidPath(d) : d \in DidKeys}
    /\ call = NoCall
    /\ calls = 0
    /\ made = {}
    /\ resident = FALSE
    /\ calm = TRUE

-----------------------------------------------------------------------------
(* The agent on its own.                                                   *)

Move(keys) ==
    /\ moves < MaxMoves
    /\ moves' = moves + 1
    /\ ring' = keys
    /\ resident' = (resident \/ (call.path # Nothing /\ Holds(keys, call.path)))
    /\ calm' = FALSE
    /\ UNCHANGED <<offered, call, calls, made>>

\* ssh-add of a key, ssh-add -d of one.
AddKey == \E b \in Blobs : /\ \A i \in DOMAIN ring : ring[i] # b
                          /\ Move(Append(ring, b)) /\ UNCHANGED up

RemoveKey ==
    \E i \in DOMAIN ring : Move(Retain(ring, DOMAIN ring \ {i})) /\ UNCHANGED up

StopOrStart == Move(ring) /\ up' = ~up

-----------------------------------------------------------------------------
(* A call of enumerate or prove.                                           *)

Goto(pc) == call' = [call EXCEPT !.pc = pc]

\* The call returns.  What a proof holds on its way (keys, signature) goes.
Return(outcome) ==
    /\ call' = [NoCall EXCEPT !.outcome = outcome]
    /\ resident' = FALSE

Quiet == UNCHANGED <<agentVars, offered, calls, made, resident, calm>>

\* An error: a proof is refused; a failed enumeration leaves what was offered.
Fail ==
    /\ Return(IF call.path = Nothing THEN call.outcome ELSE "refused")
    /\ UNCHANGED <<agentVars, offered, calls, made>>

\* SshAgentAttestor::enumerate up to its connect().
Enumerate ==
    /\ call.pc = "idle"
    /\ calls < MaxCalls
    /\ Goto("connect")
    /\ calls' = calls + 1
    /\ calm' = TRUE
    /\ UNCHANGED <<agentVars, offered, made, resident>>

\* prove on a candidate some enumeration offered.  did:key first reads the
\* configuration again and refuses a DID that names no ed25519 key.
Prove(path) ==
    /\ call.pc = "idle"
    /\ path \in offered
    /\ calls < MaxCalls
    /\ calls' = calls + 1
    /\ calm' = TRUE
    /\ resident' = Holds(ring, path)
    /\ call' = [NoCall EXCEPT !.path = path,
                   !.pc = IF path.source = "did:key" THEN "did" ELSE "connect"]
    /\ UNCHANGED <<agentVars, offered, made>>

ReadDidKeys ==
    /\ call.pc = "did"
    /\ \/ ~Provable(call.path.of) /\ Fail /\ UNCHANGED calm
       \/ Provable(call.path.of) /\ Goto("connect") /\ Quiet

\* ssh::connect, and the request for the list.
Connect ==
    /\ call.pc = "connect"
    /\ \/ ~up /\ Fail /\ UNCHANGED calm
       \/ up /\ Goto("list") /\ Quiet

\* list_identities: the keys that the reply carries in full, which is a prefix
\* of the ring when the count it claims is more than it carries, or less.
ListIdentities ==
    /\ call.pc = "list"
    /\ \/ /\ up
          /\ \E n \in 0..Len(ring) :
                /\ call' = [call EXCEPT !.pc = IF call.path = Nothing THEN "listed" ELSE "find",
                                        !.keys = SubSeq(ring, 1, n)]
                /\ calm' = (calm /\ n = Len(ring))
          /\ UNCHANGED <<agentVars, offered, calls, made, resident>>
       \/ Fail /\ calm' = FALSE         \* cut off, another message, or too large

\* enumerate maps every key to a candidate.
Offer ==
    /\ call.pc = "listed"
    /\ offered' = {KeyPath(call.keys[i]) : i \in DOMAIN call.keys} \cup {DidPath(d) : d \in DidKeys}
    /\ Return(call.outcome)
    /\ UNCHANGED <<agentVars, calls, made, calm>>

Names(path, b) ==
    IF path.source = "ssh-agent" THEN KeyPath(b) = path
    ELSE Ed25519PointOf(b) = path.of.point

\* Where the first listed key that the candidate names is, if there is one.
First(keys) ==
    {i \in DOMAIN keys : /\ Names(call.path, keys[i])
                         /\ \A j \in 1..i - 1 : ~Names(call.path, keys[j])}

AskToSign(b) ==
    /\ call' = [call EXCEPT !.pc = "sign", !.blob = b]
    /\ UNCHANGED <<agentVars, offered, calls, made, resident, calm>>

\* A slip in FindKey: a key that has signed before is answered from a cache.
FindKeyCached ==
    /\ call.pc = "find"
    /\ \/ /\ \E s \in made : s.point = call.path.of.point
          /\ Return("evidence")
          /\ UNCHANGED <<agentVars, offered, calls, made, calm>>
       \/ \E i \in First(call.keys) :
             call.keys[i].alg = Ed25519 /\ AskToSign(call.keys[i])

\* The first listed key the candidate names; only an ssh-ed25519 key is used,
\* and the agent is asked to sign with it.
FindKey ==
    /\ call.pc = "find"
    /\ \/ /\ \A i \in First(call.keys) : call.keys[i].alg # Ed25519
          /\ Fail /\ UNCHANGED calm
       \/ \E i \in First(call.keys) :
             call.keys[i].alg = Ed25519 /\ AskToSign(call.keys[i])

Signature(b) == [alg |-> b.alg, point |-> b.point, over |-> calls, whole |-> TRUE]

\* The agent signs with the key it was asked for, if it holds it; or it answers
\* FAILURE or nothing that parses; or with a signature that is not the one asked
\* for: another it made, or one whose framing is not what was promised.
Sign ==
    /\ call.pc = "sign"
    /\ \/ /\ up /\ \E i \in DOMAIN ring : ring[i] = call.blob
          /\ made' = made \cup {Signature(call.blob)}
          /\ call' = [call EXCEPT !.pc = "verify", !.sig = Signature(call.blob)]
          /\ UNCHANGED <<agentVars, offered, calls, resident, calm>>
       \/ /\ up
          /\ \E s \in made \cup {[Signature(call.blob) EXCEPT !.whole = FALSE],
                                 [Signature(call.blob) EXCEPT !.alg = "other"]} :
                call' = [call EXCEPT !.pc = "verify", !.sig = s]
          /\ calm' = FALSE
          /\ UNCHANGED <<agentVars, offered, calls, made, resident>>
       \/ Fail /\ calm' = FALSE

\* verify_ssh_ed25519: the candidate names the blob, the blob is a whole
\* ssh-ed25519 key, the signature is framed as one and verifies.
VerifySshEd25519(path, challenge, blob, sig) ==
    /\ path = KeyPath(blob)
    /\ Ed25519PointOf(blob) # NoPoint
    /\ sig.alg = blob.alg /\ sig.whole
    /\ sig.point = blob.point /\ sig.over = challenge

\* verify_did_key_ed25519: the same, under the key that the DID encodes.
VerifyDidKeyEd25519(path, challenge, did, sig) ==
    /\ path = DidPath(did)
    /\ Provable(did)
    /\ sig.alg = Ed25519 /\ sig.whole
    /\ sig.point = did.point /\ sig.over = challenge

Verified ==
    IF call.path.source = "ssh-agent"
    THEN VerifySshEd25519(call.path, calls, call.blob, call.sig)
    ELSE VerifyDidKeyEd25519(call.path, calls, call.path.of, call.sig)

\* A slip in Verify: a did:key signature is compared with the key's path.
VerifyAsSshKey ==
    /\ call.pc = "verify"
    /\ Return(IF VerifySshEd25519(call.path, calls, call.blob, call.sig)
              THEN "evidence" ELSE "refused")
    /\ UNCHANGED <<agentVars, offered, calls, made, calm>>

Verify ==
    /\ call.pc = "verify"
    /\ Return(IF Verified THEN "evidence" ELSE "refused")
    /\ UNCHANGED <<agentVars, offered, calls, made, calm>>

Step ==
    \/ ReadDidKeys \/ Connect \/ ListIdentities \/ Offer
    \/ FindKey \/ Sign \/ Verify

Next ==
    \/ AddKey \/ RemoveKey \/ StopOrStart
    \/ Enumerate \/ \E path \in AgentPaths : Prove(path)
    \/ Step

Spec == Init /\ [][Next]_vars

-----------------------------------------------------------------------------
(* Properties.                                                             *)

\* The ring, the candidates and the call stay in their types.
TypeOK ==
    /\ ring \in Seq(Blobs) /\ up \in BOOLEAN
    /\ offered \subseteq AgentPaths
    /\ call.pc \in {"idle", "did", "connect", "list", "listed", "find", "sign", "verify"}
    /\ call.path \in AgentPaths \cup {Nothing}
    /\ call.keys \in Seq(Blobs)
    /\ call.blob \in Blobs \cup {Nothing}
    /\ call.outcome \in {"none", "evidence", "refused"}

\* An agent that is left alone and willing proves every identity it can: an
\* ed25519 key it holds, and a DID whose key it holds.
WillingAgentProves ==
    [][calm' /\ call.pc # "idle" /\ call'.pc = "idle" /\ call.path # Nothing /\ up
          /\ Holds(ring, call.path)
          /\ (call.path.source = "ssh-agent" => Ed25519PointOf(call.path.of) # NoPoint)
         => call'.outcome = "evidence"]_vars

\* The calls implement what every source promises: evidence only of what the
\* agent held while the call was in flight.
P == INSTANCE Prover WITH
        Subjects <- AgentPaths,
        NoSubject <- Nothing,
        held <- {path \in AgentPaths : Holds(ring, path)},
        subject <- call.path,
        seen <- resident,
        outcome <- call.outcome

AgentImplementsProver == P!Spec
=============================================================================
