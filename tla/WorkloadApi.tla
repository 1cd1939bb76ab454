----------------------------- MODULE WorkloadApi -----------------------------
(***************************************************************************)
(* FetchJWTSVID (hire-grpc/src/service.rs) with the identity sources it     *)
(* asks (hire-attestors/src).  Requests run concurrently; one action ends   *)
(* at each await, so between any two of them a source may lose or gain an    *)
(* identity, stop answering, or the wall clock may move, in either           *)
(* direction.                                                               *)
(*                                                                          *)
(* A source is what its attestor makes of it: whether proving may prompt a   *)
(* human, the trust domain it names, the evidence it can produce ("none": it  *)
(* only enumerates), and whether it answers with a proof it cached.           *)
(***************************************************************************)
EXTENDS Issuance

CONSTANTS
    Requests,       \* concurrent FetchJWTSVID calls
    NoConsumer,     \* the peer could not be attested
    NoSelector,     \* spiffe_id unset
    BadSelector,    \* spiffe_id that does not parse
    Attestors,      \* registration order: [name, cost, domain, evidence, caches]
    Holdings,       \* for each attestor, the identity lists its source may hold
    Inputs,         \* what callers send: [consumer, audiences, selector]
    PresenceTtl,    \* PRESENCE_TTL
    MaxClock,       \* bound: largest clock reading
    MaxChanges      \* bound: changes of sources and clock

Sources == DOMAIN Attestors

\* The evidence the sources of the registry can produce.
Produced == {"Possession", "PlatformAssertion", "DaemonAssertion"}

ASSUME SourcesAssumption ==
    /\ Attestors \in Seq([name : STRING, cost : {"Silent", "Interactive"},
                          domain : STRING, evidence : Produced \cup {"none"},
                          caches : BOOLEAN])
    /\ Attestors # << >>
    /\ DOMAIN Holdings = Sources
    /\ \A s \in Sources : Holdings[s] \subseteq Seq(STRING)

ASSUME InputsAssumption ==
    \A in \in Inputs : in.audiences \in Seq([presence : PresenceLevels, maxAge : SUBSET Nat,
                                             valid : BOOLEAN])

ASSUME BoundsAssumption == MaxClock \in Nat /\ MaxChanges \in Nat /\ PresenceTtl \in Nat

VARIABLES
    holds,      \* the identities each source holds now, in its own order
    status,     \* "up"; "down": fails at once; "hung": accepts and never answers
    clock,      \* SystemTime
    changes,    \* changes of sources and clock so far
    cache,      \* the proof each caching source gave last, as evidence
    call,       \* each request's local state and reply
    prompts,    \* history: the identities each request prompted a human for
    steady      \* history: identities held without a break since the call began

world == <<holds, status, clock, changes>>
vars == <<world, cache, call, prompts, steady>>

Refuse(code) == [code |-> code, svids |-> << >>]

Idle == [pc |-> "idle", in |-> [selector |-> NoSelector], i |-> 1,
         found |-> << >>, claims |-> << >>, reply |-> Refuse("none")]

Held(s) == IF status[s] = "up" THEN {[source |-> s, path |-> p] : p \in Range(holds[s])} ELSE {}

Init ==
    /\ holds \in [Sources -> UNION Range(Holdings)]
    /\ \A s \in Sources : holds[s] \in Holdings[s]
    /\ status = [s \in Sources |-> "up"]
    /\ clock = 0
    /\ changes = 0
    /\ cache = [s \in Sources |-> << >>]
    /\ call = [r \in Requests |-> Idle]
    /\ prompts = [r \in Requests |-> << >>]
    /\ steady = [r \in Requests |-> {}]

-----------------------------------------------------------------------------
(* The world.                                                              *)

StillSteady(s, now) ==
    steady' = [r \in Requests |-> {h \in steady[r] : h.source = s => h \in now}]

\* A login, ssh-add -D, an edited key list: the source holds something else.
Relist(s) ==
    /\ \E list \in Holdings[s] \ {holds[s]} : holds' = [holds EXCEPT ![s] = list]
    /\ UNCHANGED <<status, clock>>
    /\ StillSteady(s, Held(s)')

\* The unix source is the kernel: it is always up.
ChangeStatus(s) ==
    /\ Attestors[s].evidence # "PlatformAssertion"
    /\ \E new \in {"up", "down", "hung"} \ {status[s]} : status' = [status EXCEPT ![s] = new]
    /\ UNCHANGED <<holds, clock>>
    /\ StillSteady(s, Held(s)')

\* Time passes, or the clock is stepped.
MoveClock ==
    /\ clock' \in {clock - 1, clock + 1} \cap 0..MaxClock
    /\ UNCHANGED <<holds, status, steady>>

Change ==
    /\ changes < MaxChanges
    /\ changes' = changes + 1
    /\ (\E s \in Sources : Relist(s) \/ ChangeStatus(s)) \/ MoveClock
    /\ UNCHANGED <<cache, call, prompts>>

-----------------------------------------------------------------------------
(* Variants of the operations below, each with one plausible slip.         *)

\* The consent gate tests for the wrong thing: everything is proved.
ConsentGateOpen(attestor) == TRUE

\* A source that fails to enumerate ends the enumeration.
EnumerateStops(r) ==
    LET me == call[r]
        down == status[me.i] # "up"
    IN  /\ me.pc = "enumerate"
        /\ status[me.i] # "hung"
        /\ call' = [call EXCEPT
              ![r].found = IF down THEN << >>
                           ELSE me.found \o [n \in DOMAIN holds[me.i] |->
                                   [source |-> me.i, path |-> holds[me.i][n],
                                    domain |-> Attestors[me.i].domain]],
              ![r].i = IF down \/ me.i = Len(Attestors) THEN 1 ELSE me.i + 1,
              ![r].pc = IF down \/ me.i = Len(Attestors) THEN "prove" ELSE "enumerate"]
        /\ UNCHANGED <<world, cache, prompts, steady>>

\* An unreachable source is tried again until it answers.
EnumerateRetries(r) ==
    LET me == call[r]
        last == me.i = Len(Attestors)
    IN  /\ me.pc = "enumerate"
        /\ status[me.i] = "up"
        /\ call' = [call EXCEPT
              ![r].found = me.found \o [n \in DOMAIN holds[me.i] |->
                              [source |-> me.i, path |-> holds[me.i][n],
                               domain |-> Attestors[me.i].domain]],
              ![r].i = IF last THEN 1 ELSE me.i + 1,
              ![r].pc = IF last THEN "prove" ELSE "enumerate"]
        /\ UNCHANGED <<world, cache, prompts, steady>>

-----------------------------------------------------------------------------
(* FetchJWTSVID.                                                           *)

\* The consumer gate, then the audiences, then the selector.
EarlyRefusal(in) ==
    IF in.consumer = NoConsumer THEN "Unauthenticated"
    ELSE IF \/ in.audiences = << >>
            \/ \E a \in Range(in.audiences) : ~a.valid
            \/ in.selector = BadSelector
         THEN "InvalidArgument"
    ELSE "none"

\* And new_challenge, which fails when the system gives no random bytes.
Refusals(in) == IF EarlyRefusal(in) = "none" THEN {"none", "Internal"} ELSE {EarlyRefusal(in)}

Call(r) ==
    /\ call[r].pc = "idle"
    /\ \E in \in Inputs : \E refusal \in Refusals(in) :
          call' = [call EXCEPT ![r] =
             [pc |-> IF refusal = "none" THEN "enumerate" ELSE "done",
              in |-> in, i |-> 1, found |-> << >>, claims |-> << >>,
              reply |-> Refuse(refusal)]]
    /\ steady' = [steady EXCEPT ![r] = UNION {Held(s) : s \in Sources}]
    /\ UNCHANGED <<world, cache, prompts>>

\* One attestor.enumerate().await of enumerate_all; a failing source is skipped,
\* a hung one is waited for.
Enumerate(r) ==
    LET me == call[r]
        last == me.i = Len(Attestors)
    IN  /\ me.pc = "enumerate"
        /\ status[me.i] # "hung"
        /\ call' = [call EXCEPT
              ![r].found = IF status[me.i] = "down" THEN me.found
                           ELSE me.found \o [n \in DOMAIN holds[me.i] |->
                                   [source |-> me.i, path |-> holds[me.i][n],
                                    domain |-> Attestors[me.i].domain]],
              ![r].i = IF last THEN 1 ELSE me.i + 1,
              ![r].pc = IF last THEN "prove" ELSE "enumerate"]
        /\ UNCHANGED <<world, cache, prompts, steady>>

Named(r) == call[r].in.selector # NoSelector

\* Whether a candidate may be proved without its identity having been named.
ConsentGate(attestor) == attestor.cost = "Silent"

\* The positions of the candidates with the wanted path.
Selected(found, path) == {n \in DOMAIN found : found[n].path = path}

\* Every attestor's prove asks its source again and compares.
Provable(c) ==
    /\ Attestors[c.source].evidence # "none"
    /\ status[c.source] = "up"
    /\ c.path \in Range(holds[c.source])

\* ChallengeSignature: the candidate's key signed this request's challenge, for
\* which the request itself stands.
Signed(r) == [kind |-> "Possession", challenge |-> r, at |-> clock]

\* PlatformIdentity and DaemonIdentity: the subject the kernel or a daemon named.
Asserted(kind, c) == [kind |-> kind, subject |-> c.path, at |-> clock]

\* What prove returns: one item, stamped now; a caching source returns what it
\* returned first.
EvidenceFor(r, c) ==
    LET s == c.source
    IN  IF cache[s] # << >> THEN cache[s]
        ELSE IF Attestors[s].evidence = "Possession" THEN <<Signed(r)>>
        ELSE <<Asserted(Attestors[s].evidence, c)>>

ClaimFor(r, c) == Derive(c, r, EvidenceFor(r, c))

Remember(r, c) ==
    cache' = IF Attestors[c.source].caches
             THEN [cache EXCEPT ![c.source] = EvidenceFor(r, c)] ELSE cache

\* A source that may prompt does, when it is asked to prove.
Prompt(r, c) ==
    prompts' = IF Attestors[c.source].cost = "Interactive"
               THEN [prompts EXCEPT ![r] = Append(prompts[r], c.path)] ELSE prompts

\* An unnamed request: the next candidate is skipped, or proved.
ProveUnnamed(r) ==
    LET me == call[r]
        c == me.found[me.i]
    IN  /\ me.pc = "prove" /\ ~Named(r)
        /\ me.i <= Len(me.found)
        /\ \/ /\ ~ConsentGate(Attestors[c.source])
              /\ call' = [call EXCEPT ![r].i = me.i + 1]
              /\ UNCHANGED <<cache, prompts>>
           \/ /\ ConsentGate(Attestors[c.source])
              /\ status[c.source] # "hung"
              /\ ~Provable(c)
              /\ call' = [call EXCEPT ![r].i = me.i + 1]
              /\ UNCHANGED <<cache, prompts>>
           \/ /\ ConsentGate(Attestors[c.source])
              /\ Provable(c)
              /\ call' = [call EXCEPT ![r].i = me.i + 1,
                    ![r].claims = IF ClaimFor(r, c) = NoClaim THEN me.claims
                                  ELSE Append(me.claims, ClaimFor(r, c))]
              /\ Remember(r, c)
              /\ Prompt(r, c)
        /\ UNCHANGED <<world, steady>>

ProvedAll(r) ==
    /\ call[r].pc = "prove" /\ ~Named(r)
    /\ call[r].i > Len(call[r].found)
    /\ call' = [call EXCEPT ![r].pc = "respond"]
    /\ UNCHANGED <<world, cache, prompts, steady>>

NotFound(r) == call' = [call EXCEPT ![r].pc = "done", ![r].reply = Refuse("NotFound")]

\* A slip in Proved: the identity proved is not compared with the one named.
ProvedUncompared(r, c) ==
    IF ClaimFor(r, c) = NoClaim THEN NotFound(r)
    ELSE call' = [call EXCEPT ![r].pc = "respond", ![r].claims = <<ClaimFor(r, c)>>]

\* The proof of the named identity: no claim, or one for another identity, is
\* refused like an unknown one.
Proved(r, c) ==
    LET claim == ClaimFor(r, c)
    IN  IF claim # NoClaim /\ IdOf(claim) = call[r].in.selector
        THEN call' = [call EXCEPT ![r].pc = "respond", ![r].claims = <<claim>>]
        ELSE NotFound(r)

\* A named request proves the first candidate with that path, and only that
\* one.  An interactive source has been asked to sign and now waits for a human.
ProveNamed(r) ==
    LET me == call[r]
        matches == Selected(me.found, me.in.selector.path)
        c == me.found[Min(matches)]
    IN  /\ me.pc = "prove" /\ Named(r)
        /\ \/ /\ matches = {}
              /\ NotFound(r)
              /\ UNCHANGED <<cache, prompts>>
           \/ /\ matches # {}
              /\ status[c.source] # "hung"
              /\ ~Provable(c)
              /\ NotFound(r)
              /\ UNCHANGED <<cache, prompts>>
           \/ /\ matches # {}
              /\ Provable(c)
              /\ \/ /\ Attestors[c.source].cost = "Silent"
                    /\ Proved(r, c)
                    /\ Remember(r, c)
                 \/ /\ Attestors[c.source].cost = "Interactive"
                    /\ call' = [call EXCEPT ![r].pc = "prompting", ![r].i = Min(matches)]
                    /\ UNCHANGED cache
              /\ Prompt(r, c)
        /\ UNCHANGED <<world, steady>>

\* The human answers, and the agent signs if it still holds the key; or they
\* cancel, or the agent fails.
Answer(r) ==
    LET c == call[r].found[call[r].i]
    IN  /\ call[r].pc = "prompting"
        /\ status[c.source] # "hung"
        /\ \/ Provable(c) /\ Proved(r, c) /\ Remember(r, c)
           \/ NotFound(r) /\ UNCHANGED cache
        /\ UNCHANGED <<world, prompts, steady>>

\* What a token says of its claim.
SvidOf(in, claim) ==
    [id |-> Pseudonym(in.consumer, IdOf(claim)),
     source |-> claim.source, assurance |-> claim.assurance,
     presence |-> PresenceAt(claim, clock, PresenceTtl),
     attestedAt |-> claim.attestedAt, age |-> AgeAt(claim, clock)]

\* Sort, keep one claim per identity, read the clock, issue what passes.
Respond(r) ==
    LET in == call[r].in
    IN  /\ call[r].pc = "respond"
        /\ \E claims \in {IF Named(r) THEN call[r].claims
                          ELSE OnePerIdentity(BestFirst(call[r].claims))} :
           \E served \in {Retain(claims, {j \in DOMAIN claims :
                              Issuable(claims[j], in.audiences, clock, PresenceTtl)})} :
              call' = [call EXCEPT ![r].pc = "done",
                 ![r].reply = IF served = << >> THEN Refuse("Unauthenticated")
                              ELSE [code |-> "Ok",
                                    svids |-> [n \in DOMAIN served |-> SvidOf(in, served[n])]]]
        /\ UNCHANGED <<world, cache, prompts, steady>>

\* The caller goes away: tonic drops the future at its await.
Cancel(r) ==
    /\ call[r].pc \in {"enumerate", "prove", "prompting"}
    /\ call' = [call EXCEPT ![r].pc = "cancelled"]
    /\ UNCHANGED <<world, cache, prompts, steady>>

\* What the daemon does by itself; a human's answer is not among it.
Serve(r) ==
    Enumerate(r) \/ ProveUnnamed(r) \/ ProvedAll(r) \/ ProveNamed(r) \/ Respond(r)

Next ==
    \/ Change
    \/ \E r \in Requests : Call(r) \/ Serve(r) \/ Answer(r) \/ Cancel(r)

Spec == Init /\ [][Next]_vars

\* The runtime polls a future that can make progress.
FairSpec == Spec /\ \A r \in Requests : WF_vars(Serve(r))

\* And the human answers the prompts they see.
AttendedSpec == FairSpec /\ \A r \in Requests : WF_vars(Answer(r))

-----------------------------------------------------------------------------
(* Properties.                                                             *)

PcStates == {"idle", "enumerate", "prove", "prompting", "respond", "done", "cancelled"}

Codes == {"none", "Ok", "Unauthenticated", "InvalidArgument", "NotFound", "Internal"}

\* The request was accepted for enumeration.
Accepted(r) == call[r].pc # "idle" /\ EarlyRefusal(call[r].in) = "none"

\* Sources, clock and request records stay in the values the code gives them.
TypeOK ==
    /\ \A s \in Sources : holds[s] \in Holdings[s] /\ status[s] \in {"up", "down", "hung"}
    /\ clock \in 0..MaxClock /\ changes \in 0..MaxChanges
    /\ \A r \in Requests :
          /\ call[r].pc \in PcStates
          /\ call[r].reply.code \in Codes
          /\ call[r].pc = "enumerate" => call[r].i \in Sources
          /\ call[r].pc = "prompting" => call[r].i \in DOMAIN call[r].found

\* The consent boundary of fetch_jwtsvid: a human is prompted only for the
\* identity the caller named, and at most once per request.
NoUnaskedPrompt ==
    \A r \in Requests :
        prompts[r] # << >> => /\ Accepted(r) /\ Named(r)
                             /\ prompts[r] = <<call[r].in.selector.path>>

\* A claim joins a request only while the source holds the identity, however
\* long ago it was enumerated, and it is dated by the clock of that step.
ClaimsHeldWhenProved ==
    [][\A r \in Requests : \A n \in DOMAIN call'[r].claims \ DOMAIN call[r].claims :
          LET c == call'[r].claims[n]
          IN  /\ [source |-> c.source, path |-> c.path] \in Held(c.source)
              /\ c.attestedAt = clock]_vars

\* No audience of the list is short-changed: every token meets the presence
\* level and the age bound of each of them, measured when it is issued.
EveryAudienceMet ==
    \A r \in Requests : \A svid \in Range(call[r].reply.svids) :
        \A a \in Range(call[r].in.audiences) :
            /\ svid.presence >= a.presence
            /\ \A bound \in a.maxAge : svid.age # NoAge /\ svid.age < bound

\* A request that names an identity is answered with a token for that identity
\* alone, or with none.
NamedGetsOnlyNamed ==
    \A r \in Requests : Named(r) /\ call[r].reply.code = "Ok"
        => /\ Len(call[r].reply.svids) = 1
           /\ call[r].reply.svids[1].id = Pseudonym(call[r].in.consumer, call[r].in.selector)

\* A response lists every identity once, best assurance first, and among equals
\* the attestor registered first.
OrderedReply ==
    \A r \in Requests : LET svids == call[r].reply.svids IN
        \A m, n \in DOMAIN svids : m < n
            => /\ svids[m].id # svids[n].id
               /\ svids[m].assurance >= svids[n].assurance
               /\ svids[m].assurance = svids[n].assurance
                     => svids[m].source <= svids[n].source

\* One source being unreachable refuses nothing another can prove: an unnamed
\* request that demands nothing and got its challenge is answered with every
\* identity that a silent, proving source held throughout the call.
CompleteReply ==
    \A r \in Requests :
        /\ call[r].pc = "done" /\ Accepted(r) /\ ~Named(r) /\ call[r].reply.code # "Internal"
        /\ \A a \in Range(call[r].in.audiences) : a.presence = PresenceNone /\ a.maxAge = {}
        => \A h \in steady[r] :
              Attestors[h.source].cost = "Silent" /\ Attestors[h.source].evidence # "none"
              => \E svid \in Range(call[r].reply.svids) :
                    svid.id = Pseudonym(call[r].in.consumer,
                                        [domain |-> Attestors[h.source].domain, path |-> h.path])

Over(r) == call[r].pc \in {"done", "cancelled"}

\* When sources answer, with success or failure, and humans answer prompts,
\* every call is answered, whatever sources and clock did in between.
AnsweredUnlessHung ==
    <>[](\A s \in Sources : status[s] # "hung")
        => \A r \in Requests : Accepted(r) ~> Over(r)

=============================================================================
