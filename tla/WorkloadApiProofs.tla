------------------------- MODULE WorkloadApiProofs -------------------------
(***************************************************************************)
(* FetchJWTSVID, for any number of concurrent requests, any registry of     *)
(* sources and whatever these hold: the consent boundary (IInv) and what a  *)
(* reply holds (RInv).                                                      *)
(***************************************************************************)
EXTENDS WorkloadApi, OrderFacts

\* What enumerate lists, and the fields of a request's record.
Candidates == [source : Sources, path : STRING, domain : STRING]

Fields == {"pc", "in", "i", "found", "claims", "reply"}

\* Nothing has been asked of a human before a request leaves the proving loop,
\* and only a named one leaves it having asked.
Consent(c, asked) ==
    \/ /\ asked = << >>
       /\ c.pc \in {"enumerate", "prove"} => EarlyRefusal(c.in) = "none"
    \/ /\ c.pc \notin {"idle", "enumerate", "prove"}
       /\ EarlyRefusal(c.in) = "none"
       /\ c.in.selector # NoSelector
       /\ asked = <<c.in.selector.path>>

Shaped(c) == DOMAIN c = Fields /\ c.found \in Seq(Candidates)

\* The inductive invariant of the consent boundary.
IInv ==
    /\ DOMAIN holds = Sources /\ \A s \in Sources : holds[s] \in Seq(STRING)
    /\ DOMAIN call = Requests /\ DOMAIN prompts = Requests
    /\ \A r \in Requests :
          /\ Shaped(call[r])
          /\ call[r].pc = "enumerate" => call[r].i \in Sources
          /\ Consent(call[r], prompts[r])

-----------------------------------------------------------------------------

\* Before the first request.
LEMMA InitIInv == Init => IInv
  <1> SUFFICES ASSUME Init PROVE IInv
    OBVIOUS
  <1>1. DOMAIN holds = Sources /\ \A s \in Sources : holds[s] \in Seq(STRING)
    BY SourcesAssumption DEF Init
  <1>2. ASSUME NEW r \in Requests
        PROVE  Shaped(call[r]) /\ call[r].pc = "idle" /\ prompts[r] = << >>
    <2>1. call[r] = Idle /\ prompts[r] = << >>
      BY DEF Init
    <2>2. /\ DOMAIN Idle = Fields /\ Idle.pc = "idle" /\ Idle.found = << >>
      BY DEF Idle, Fields
    <2>3. << >> \in Seq(Candidates)
      OBVIOUS
    <2> QED BY <2>1, <2>2, <2>3 DEF Shaped
  <1> QED BY <1>1, <1>2 DEF Init, IInv, Consent

\* What a source enumerates are candidates of it.
LEMMA Enumerated ==
    ASSUME NEW s \in Sources, NEW list \in Seq(STRING), NEW found \in Seq(Candidates)
    PROVE  found \o [n \in DOMAIN list |->
                        [source |-> s, path |-> list[n], domain |-> Attestors[s].domain]]
             \in Seq(Candidates)
  <1> DEFINE new == [n \in DOMAIN list |->
                        [source |-> s, path |-> list[n], domain |-> Attestors[s].domain]]
  <1>1. Attestors[s].domain \in STRING
    <2> DEFINE Attestor == [name : STRING, cost : {"Silent", "Interactive"}, domain : STRING,
                            evidence : Produced \cup {"none"}, caches : BOOLEAN]
    <2>1. Attestors \in Seq(Attestor)
      BY SourcesAssumption
    <2> HIDE DEF Attestor
    <2>2. Attestors[s] \in Attestor
      BY <2>1 DEF Sources
    <2> QED BY <2>2 DEF Attestor
  <1>2. DOMAIN list = 1..Len(list) /\ Len(list) \in Nat
    OBVIOUS
  <1>3. \A n \in 1..Len(list) : new[n] \in Candidates
    BY <1>1, <1>2 DEF Candidates
  <1>4. new \in Seq(Candidates)
    BY <1>2, <1>3
  <1> QED BY <1>4

\* A step of one request leaves the others alone.
LEMMA OneRequest ==
    ASSUME IInv, NEW r \in Requests, NEW c, NEW asked,
           DOMAIN call' = Requests, DOMAIN prompts' = Requests, UNCHANGED holds,
           \A q \in Requests : q # r => call'[q] = call[q] /\ prompts'[q] = prompts[q],
           call'[r] = c, prompts'[r] = asked,
           Shaped(c), c.pc = "enumerate" => c.i \in Sources, Consent(c, asked)
    PROVE  IInv'
  BY DEF IInv

\* The named branch proves a candidate that has the named path.
LEMMA SelectedHasPath ==
    ASSUME NEW found \in Seq(Candidates), NEW path, Selected(found, path) # {}
    PROVE  /\ Min(Selected(found, path)) \in DOMAIN found
           /\ found[Min(Selected(found, path))].path = path
  <1>1. Selected(found, path) \in SUBSET Nat
    BY DEF Selected
  <1>2. Min(Selected(found, path)) \in Selected(found, path)
    BY <1>1, MinOfNat
  <1> QED BY <1>2 DEF Selected

-----------------------------------------------------------------------------

\* What the later steps of a request leave alone.
Keeps(r, pcs) ==
    /\ DOMAIN call' = Requests
    /\ \A q \in Requests : q # r => call'[q] = call[q]
    /\ DOMAIN call'[r] = Fields
    /\ call'[r].in = call[r].in /\ call'[r].found = call[r].found
    /\ call'[r].pc \in pcs

\* A step past the enumeration that prompts nobody.
LEMMA QuietStep ==
    ASSUME IInv, NEW r \in Requests, NEW pcs, Keeps(r, pcs), UNCHANGED <<prompts, holds>>,
           \/ call[r].pc = "prove" /\ pcs = {"prove"}
           \/ call[r].pc # "idle" /\ pcs = {"prompting", "respond", "done", "cancelled"}
    PROVE  IInv'
  <1> DEFINE c == call'[r]
             me == call[r]
  <1>1. /\ DOMAIN c = Fields /\ c.in = me.in /\ c.found = me.found /\ c.pc \in pcs
        /\ Shaped(me) /\ Consent(me, prompts[r])
    BY DEF Keeps, IInv
  <1> HIDE DEF c, me
  <1>2. Shaped(c)
    BY <1>1 DEF Shaped
  <1>3. Consent(c, prompts[r])
    BY <1>1 DEF Consent, me
  <1>4. c.pc # "enumerate"
    BY <1>1
  <1> QED BY <1>2, <1>3, <1>4, OneRequest DEF IInv, Keeps, c

\* Where a request goes from its last await.
Later == {"prompting", "respond", "done", "cancelled"}

\* A refusal, a finished proof, and the steps that end a request keep its input.
LEMMA EndKeeps ==
    ASSUME IInv, NEW r \in Requests, NEW c,
           NotFound(r) \/ Proved(r, c) \/ ProvedAll(r) \/ Respond(r) \/ Cancel(r)
    PROVE  Keeps(r, Later)
  <1>1. DOMAIN call = Requests /\ DOMAIN call[r] = Fields
    BY DEF IInv, Shaped
  <1>2. ASSUME NEW reply, call' = [call EXCEPT ![r].pc = "done", ![r].reply = reply]
        PROVE  Keeps(r, Later)
    BY <1>1, <1>2 DEF Keeps, Fields, Later
  <1>3. CASE NotFound(r)
    BY <1>2, <1>3, Zenon DEF NotFound
  <1>4. CASE Proved(r, c)
    <2>1. \/ NotFound(r)
          \/ call' = [call EXCEPT ![r].pc = "respond", ![r].claims = <<ClaimFor(r, c)>>]
      BY <1>4 DEF Proved
    <2>2. CASE call' = [call EXCEPT ![r].pc = "respond", ![r].claims = <<ClaimFor(r, c)>>]
      BY <1>1, <2>2 DEF Keeps, Fields, Later
    <2> QED BY <1>3, <2>1, <2>2
  <1>5. CASE ProvedAll(r)
    <2>1. call' = [call EXCEPT ![r].pc = "respond"]
      BY <1>5 DEF ProvedAll
    <2> QED BY <1>1, <2>1 DEF Keeps, Fields, Later
  <1>6. CASE Respond(r)
    <2>1. \E reply : call' = [call EXCEPT ![r].pc = "done", ![r].reply = reply]
      BY <1>6, Zenon DEF Respond
    <2> QED BY <1>2, <2>1, Zenon
  <1>7. CASE Cancel(r)
    <2>1. call' = [call EXCEPT ![r].pc = "cancelled"]
      BY <1>7 DEF Cancel
    <2> QED BY <1>1, <2>1 DEF Keeps, Fields, Later
  <1> QED BY <1>3, <1>4, <1>5, <1>6, <1>7

\* Every step keeps the invariant.
LEMMA NextIInv == IInv /\ [Next]_vars => IInv'
  \* Sources and clock change nothing a request has done.
  <1>1. IInv /\ Change => IInv'
    <2> SUFFICES ASSUME IInv, Change PROVE IInv'
      OBVIOUS
    <2>1. UNCHANGED <<call, prompts>>
      BY DEF Change
    <2>2. DOMAIN holds' = Sources /\ \A s \in Sources : holds'[s] \in Seq(STRING)
      <3>1. CASE UNCHANGED holds
        BY <3>1 DEF IInv
      <3>2. CASE \E s \in Sources : Relist(s)
        <4>1. PICK s \in Sources : Relist(s)
          BY <3>2
        <4>2. PICK list \in Holdings[s] : holds' = [holds EXCEPT ![s] = list]
          BY <4>1, Zenon DEF Relist
        <4>3. list \in Seq(STRING)
          BY SourcesAssumption
        <4> QED BY <4>2, <4>3 DEF IInv
      <3>3. UNCHANGED holds \/ \E s \in Sources : Relist(s)
        BY DEF Change, ChangeStatus, MoveClock
      <3> QED BY <3>1, <3>2, <3>3
    <2> QED BY <2>1, <2>2 DEF IInv
  \* A request arrives.
  <1>2. ASSUME NEW r \in Requests PROVE IInv /\ Call(r) => IInv'
    <2> USE <1>2
    <2> SUFFICES ASSUME IInv, Call(r) PROVE IInv'
      OBVIOUS
    <2>1. PICK in, refusal :
             /\ in \in Inputs /\ refusal \in Refusals(in)
             /\ call' = [call EXCEPT ![r] =
                   [pc |-> IF refusal = "none" THEN "enumerate" ELSE "done",
                    in |-> in, i |-> 1, found |-> << >>, claims |-> << >>,
                    reply |-> Refuse(refusal)]]
      BY Zenon DEF Call
    <2> DEFINE c == [pc |-> IF refusal = "none" THEN "enumerate" ELSE "done",
                     in |-> in, i |-> 1, found |-> << >>, claims |-> << >>,
                     reply |-> Refuse(refusal)]
    <2>2. /\ DOMAIN call' = Requests /\ call'[r] = c
          /\ \A q \in Requests : q # r => call'[q] = call[q]
      BY <2>1 DEF IInv
    <2>3. prompts' = prompts /\ holds' = holds /\ prompts[r] = << >>
      BY DEF Call, world, IInv, Consent
    <2>4. c.in = in /\ c.found = << >> /\ DOMAIN c = Fields /\ c.i = 1
          /\ c.pc = IF refusal = "none" THEN "enumerate" ELSE "done"
      BY DEF Fields
    <2>5. << >> \in Seq(Candidates)
      OBVIOUS
    <2>6. 1 \in Sources
      BY SourcesAssumption DEF Sources
    <2> HIDE DEF c
    <2>7. Shaped(c) /\ Consent(c, << >>)
      BY <2>1, <2>4, <2>5 DEF Shaped, Consent, Refusals
    <2> QED BY <2>2, <2>3, <2>4, <2>6, <2>7, OneRequest DEF IInv
  \* One source is enumerated.
  <1>3. ASSUME NEW r \in Requests PROVE IInv /\ Enumerate(r) => IInv'
    <2> USE <1>3
    <2> SUFFICES ASSUME IInv, Enumerate(r) PROVE IInv'
      OBVIOUS
    <2> DEFINE me == call[r]
               last == me.i = Len(Attestors)
               found == IF status[me.i] = "down" THEN me.found
                        ELSE me.found \o [n \in DOMAIN holds[me.i] |->
                                [source |-> me.i, path |-> holds[me.i][n],
                                 domain |-> Attestors[me.i].domain]]
               c == call'[r]
    <2>1. /\ DOMAIN me = Fields /\ me.found \in Seq(Candidates) /\ me.i \in Sources
          /\ me.pc = "enumerate" /\ prompts[r] = << >> /\ EarlyRefusal(me.in) = "none"
          /\ holds[me.i] \in Seq(STRING)
      BY Zenon DEF IInv, Shaped, Consent, Enumerate
    <2>2. found \in Seq(Candidates)
      BY <2>1, Enumerated, Zenon
    <2> HIDE DEF found
    <2>3. call' = [call EXCEPT ![r].found = found,
                               ![r].i = IF last THEN 1 ELSE me.i + 1,
                               ![r].pc = IF last THEN "prove" ELSE "enumerate"]
      BY Zenon DEF Enumerate, found
    <2>4. /\ DOMAIN call' = Requests
          /\ \A q \in Requests : q # r => call'[q] = call[q]
          /\ DOMAIN c = Fields /\ c.in = me.in /\ c.found = found
          /\ c.i = IF last THEN 1 ELSE me.i + 1
          /\ c.pc = IF last THEN "prove" ELSE "enumerate"
      BY <2>1, <2>3 DEF IInv, Fields
    <2>5. c.pc = "enumerate" => c.i \in Sources
      <3>1. Sources = 1..Len(Attestors) /\ Len(Attestors) \in Nat
        BY SourcesAssumption DEF Sources
      <3> QED BY <2>1, <2>4, <3>1
    <2>6. prompts' = prompts /\ holds' = holds
      BY Zenon DEF Enumerate, world
    <2> HIDE DEF c, me, last
    <2>7. Shaped(c) /\ Consent(c, << >>)
      BY <2>1, <2>2, <2>4 DEF Shaped, Consent
    <2> QED BY <2>1, <2>4, <2>5, <2>6, <2>7, OneRequest DEF IInv, c
  \* The next candidate of an unnamed request: a source behind the consent gate
  \* cannot prompt.
  <1>4. ASSUME NEW r \in Requests PROVE IInv /\ ProveUnnamed(r) => IInv'
    <2> USE <1>4
    <2> SUFFICES ASSUME IInv, ProveUnnamed(r) PROVE IInv'
      OBVIOUS
    <2> DEFINE me == call[r]
               claim == me.found[me.i]
    <2>1. /\ DOMAIN call = Requests /\ DOMAIN me = Fields /\ me.pc = "prove" /\ holds' = holds
      BY Zenon DEF IInv, Shaped, ProveUnnamed, world
    <2>2. CASE call' = [call EXCEPT ![r].i = me.i + 1] /\ prompts' = prompts
      <3>1. Keeps(r, {"prove"})
        BY <2>1, <2>2 DEF Keeps, Fields
      <3> QED BY <2>1, <2>2, <3>1, QuietStep
    <2>3. CASE /\ ConsentGate(Attestors[claim.source]) /\ Prompt(r, claim)
               /\ call' = [call EXCEPT ![r].i = me.i + 1,
                      ![r].claims = IF ClaimFor(r, claim) = NoClaim THEN me.claims
                                    ELSE Append(me.claims, ClaimFor(r, claim))]
      <3>1. prompts' = prompts
        BY <2>3, Zenon DEF ConsentGate, Prompt
      <3>2. Keeps(r, {"prove"})
        BY <2>1, <2>3, Zenon DEF Keeps, Fields
      <3> QED BY <2>1, <3>1, <3>2, QuietStep, Zenon
    <2> QED BY <2>2, <2>3, Zenon DEF ProveUnnamed
  \* The steps that end a request prompt nobody.
  <1>5. ASSUME NEW r \in Requests
        PROVE  IInv /\ (ProvedAll(r) \/ Respond(r) \/ Cancel(r) \/ Answer(r)) => IInv'
    <2> USE <1>5
    <2> SUFFICES ASSUME IInv, ProvedAll(r) \/ Respond(r) \/ Cancel(r) \/ Answer(r)
                 PROVE  IInv'
      OBVIOUS
    <2>1. UNCHANGED <<prompts, holds>> /\ call[r].pc # "idle"
      BY Zenon DEF ProvedAll, Respond, Cancel, Answer, world
    <2>2. Keeps(r, Later)
      <3>1. CASE ProvedAll(r) \/ Respond(r) \/ Cancel(r)
        BY <3>1, EndKeeps
      <3>2. CASE Answer(r)
        <4>1. NotFound(r) \/ \E c : Proved(r, c)
          BY <3>2, Zenon DEF Answer
        <4> QED BY <4>1, EndKeeps, Zenon
      <3> QED BY <3>1, <3>2
    <2> QED BY <2>1, <2>2, QuietStep DEF Later
  \* A named request prompts, if at all, for the identity it named.
  <1>6. ASSUME NEW r \in Requests PROVE IInv /\ ProveNamed(r) => IInv'
    <2> USE <1>6
    <2> SUFFICES ASSUME IInv, ProveNamed(r) PROVE IInv'
      OBVIOUS
    <2> DEFINE me == call[r]
               matches == Selected(me.found, me.in.selector.path)
               c == me.found[Min(matches)]
    <2>1. /\ DOMAIN call = Requests /\ DOMAIN me = Fields /\ me.pc = "prove"
          /\ me.found \in Seq(Candidates) /\ DOMAIN prompts = Requests
          /\ prompts[r] = << >> /\ EarlyRefusal(me.in) = "none"
          /\ me.in.selector # NoSelector /\ holds' = holds
      BY Zenon DEF IInv, Shaped, Consent, ProveNamed, Named, world
    <2>2. Keeps(r, Later)
      <3>1. \/ NotFound(r) \/ Proved(r, c)
            \/ call' = [call EXCEPT ![r].pc = "prompting", ![r].i = Min(matches)]
        BY Zenon DEF ProveNamed
      <3>2. CASE NotFound(r) \/ Proved(r, c)
        BY <3>2, EndKeeps
      <3>3. CASE call' = [call EXCEPT ![r].pc = "prompting", ![r].i = Min(matches)]
        <4> HIDE DEF matches
        <4> QED BY <2>1, <3>3 DEF Keeps, Fields, Later
      <3> QED BY <3>1, <3>2, <3>3
    <2>3. CASE prompts' = prompts
      BY <2>1, <2>2, <2>3, QuietStep DEF Later
    <2>4. CASE matches # {} /\ prompts' = [prompts EXCEPT ![r] = Append(prompts[r], c.path)]
      <3>1. c.path = me.in.selector.path
        BY <2>1, <2>4, SelectedHasPath, ZenonT(60)
      <3>2. /\ DOMAIN prompts' = Requests /\ prompts'[r] = <<me.in.selector.path>>
            /\ \A q \in Requests : q # r => prompts'[q] = prompts[q]
        BY <2>1, <2>4, <3>1
      <3> DEFINE new == call'[r]
      <3>3. /\ DOMAIN new = Fields /\ new.in = me.in /\ new.found = me.found
            /\ new.pc \in Later
        BY <2>2 DEF Keeps
      <3> HIDE DEF new, me
      <3>4. Shaped(new) /\ Consent(new, <<me.in.selector.path>>) /\ new.pc # "enumerate"
        BY <2>1, <3>3 DEF Shaped, Consent, Later
      <3> QED BY <2>1, <2>2, <3>2, <3>4, OneRequest, Zenon DEF Keeps, new
    <2>5. \/ prompts' = prompts
          \/ matches # {} /\ prompts' = [prompts EXCEPT ![r] = Append(prompts[r], c.path)]
      BY Zenon DEF ProveNamed, Prompt
    <2> QED BY <2>3, <2>4, <2>5, Zenon
  <1> SUFFICES ASSUME IInv, [Next]_vars PROVE IInv'
    OBVIOUS
  <1>7. CASE Change
    BY <1>7, <1>1
  <1>8. ASSUME NEW r \in Requests, Call(r) \/ Serve(r) \/ Answer(r) \/ Cancel(r)
        PROVE  IInv'
    BY <1>8, <1>2, <1>3, <1>4, <1>6, <1>5 DEF Serve
  <1>9. CASE UNCHANGED vars
    BY <1>9 DEF IInv, vars, world
  <1> QED BY <1>7, <1>8, <1>9 DEF Next

\* The consent boundary: in fetch_jwtsvid no human is ever prompted for an
\* identity the caller did not name, nor twice, whatever the sources hold and
\* however requests interleave.
THEOREM ConsentBoundary == Spec => []NoUnaskedPrompt
  <1>1. Spec => []IInv
    BY InitIInv, NextIInv, PTL DEF Spec
  <1>2. IInv => NoUnaskedPrompt
    <2> SUFFICES ASSUME IInv, NEW r \in Requests, prompts[r] # << >>
                 PROVE  /\ Accepted(r) /\ Named(r)
                        /\ prompts[r] = <<call[r].in.selector.path>>
      BY DEF NoUnaskedPrompt
    <2> QED BY DEF IInv, Consent, Accepted, Named
  <1> QED BY <1>1, <1>2, PTL

-----------------------------------------------------------------------------
(* What a reply holds.                                                     *)

\* What prove returns, and what derive makes of it.
Evidence ==
         [kind : {"Possession"}, challenge : Requests, at : Nat]
    \cup [kind : {"PlatformAssertion", "DaemonAssertion"}, subject : STRING, at : Nat]

Claims == [source : Sources, assurance : {Iaa1, Iaa2, Iaa3}, presence : PresenceLevels,
           domain : STRING, path : STRING, attestedAt : Nat]

BySource(s) == \A m, n \in DOMAIN s : m < n => s[m].source <= s[n].source

\* An index up to the length of a sequence is one of its own.
LEMMA WithinLength ==
    ASSUME NEW S, NEW s \in Seq(S), NEW i \in Nat \ {0}, i <= Len(s)
    PROVE  i \in DOMAIN s /\ s[i] \in S
  OBVIOUS

\* EveryAudienceMet, NamedGetsOnlyNamed and OrderedReply, of one request.
Met(in, svids) ==
    \A n \in DOMAIN svids : \A a \in Range(in.audiences) :
        /\ svids[n].presence >= a.presence
        /\ \A bound \in a.maxAge : svids[n].age # NoAge /\ svids[n].age < bound

OnlyNamed(in, svids) ==
    in.selector # NoSelector
        => /\ Len(svids) = 1
           /\ svids[1].id = Pseudonym(in.consumer, in.selector)

Ordered(svids) ==
    \A m, n \in DOMAIN svids : m < n
        => /\ svids[m].id # svids[n].id
           /\ svids[m].assurance >= svids[n].assurance
           /\ svids[m].assurance = svids[n].assurance => svids[m].source <= svids[n].source

Fine(in, reply) ==
    /\ Met(in, reply.svids)
    /\ reply.code = "Ok" => OnlyNamed(in, reply.svids)
    /\ Ordered(reply.svids)

\* What a request has gathered: candidates and claims in the order of their
\* sources, the claims of those already passed, one claim of the named identity.
Gathered(c) ==
    /\ c.pc # "idle" => c.in \in Inputs
    /\ c.claims \in Seq(Claims)
    /\ BySource(c.found) /\ BySource(c.claims)
    /\ c.pc \in {"idle", "enumerate"} => c.claims = << >>
    /\ c.pc = "enumerate" => \A k \in DOMAIN c.found : c.found[k].source < c.i
    /\ c.pc = "prove" =>
          /\ c.i \in Nat \ {0}
          /\ \A m \in DOMAIN c.claims, k \in DOMAIN c.found :
                k >= c.i => c.claims[m].source <= c.found[k].source
    /\ c.pc = "prompting" => c.in.selector # NoSelector /\ c.i \in DOMAIN c.found
    /\ c.pc = "respond" /\ c.in.selector # NoSelector
          => Len(c.claims) = 1 /\ IdOf(c.claims[1]) = c.in.selector
    /\ Fine(c.in, c.reply)

Cached == \A s \in Sources : cache[s] \in Seq(Evidence) /\ Len(cache[s]) <= 1

\* The inductive invariant of the replies.
RInv ==
    /\ IInv
    /\ clock \in Nat
    /\ DOMAIN cache = Sources /\ Cached
    /\ \A r \in Requests : Gathered(call[r])

\* Best assurance first, and among equals the source registered first.
Best(s) ==
    \A m, n \in DOMAIN s : m < n
        => /\ s[m].assurance >= s[n].assurance
           /\ s[m].assurance = s[n].assurance => s[m].source <= s[n].source

\* Every identity once.
Distinct(s) == \A m, n \in DOMAIN s : m < n => IdOf(s[m]) # IdOf(s[n])

\* Every identity of s is in t.
Covers(s, t) == \A j \in DOMAIN s : \E m \in DOMAIN t : IdOf(t[m]) = IdOf(s[j])

\* List t is what s has at the positions P, in the order of s.
Thins(s, P, t) ==
    /\ t \in Seq(Claims)
    /\ BySource(s) => BySource(t)
    /\ Best(s) => Best(t)
    /\ \A m \in DOMAIN t : \E j \in DOMAIN s : j \in P /\ t[m] = s[j]
    /\ \A j \in DOMAIN s : j \in P => \E m \in DOMAIN t : t[m] = s[j]

\* List u is s and then t.
Joins(s, t, u) ==
    /\ u \in Seq(Claims) /\ Best(u)
    /\ \A m \in DOMAIN s : \E k \in DOMAIN u : u[k] = s[m]
    /\ \A m \in DOMAIN t : \E k \in DOMAIN u : u[k] = t[m]
    /\ \A k \in DOMAIN u : \/ \E m \in DOMAIN s : u[k] = s[m]
                           \/ \E m \in DOMAIN t : u[k] = t[m]

\* Whatever is retained keeps its order.
LEMMA RetainSorted ==
    ASSUME NEW s \in Seq(Claims), NEW P
    PROVE  Thins(s, P, Retain(s, P))
  <1>1. PICK t : t = Retain(s, P)
    BY Zenon
  <1>2. t \in Seq(Claims) /\ \E o : InOrder(s, P, Len(s), t, o)
    BY <1>1, RetainIs, Zenon
  <1>3. PICK o : InOrder(s, P, Len(s), t, o)
    BY <1>2
  <1>4. /\ DOMAIN t = 1..Len(t) /\ DOMAIN s = 1..Len(s) /\ Len(t) \in Nat /\ Len(s) \in Nat
    BY <1>2
  <1>5. /\ \A m \in DOMAIN t : o[m] \in DOMAIN s /\ o[m] \in P /\ t[m] = s[o[m]]
        /\ \A m, n \in DOMAIN t : m < n => o[m] < o[n]
        /\ \A j \in DOMAIN s : j \in P => \E m \in DOMAIN t : o[m] = j
    BY <1>3, <1>4, Zenon DEF InOrder
  <1>6. BySource(s) => BySource(t)
    BY <1>5, ZenonT(60) DEF BySource
  <1>7. Best(s) => Best(t)
    <2> SUFFICES ASSUME Best(s), NEW m \in DOMAIN t, NEW n \in DOMAIN t, m < n
                 PROVE  /\ t[m].assurance >= t[n].assurance
                        /\ t[m].assurance = t[n].assurance => t[m].source <= t[n].source
      BY DEF Best
    <2>1. o[m] \in DOMAIN s /\ o[n] \in DOMAIN s /\ o[m] < o[n] /\ t[m] = s[o[m]] /\ t[n] = s[o[n]]
      BY <1>5
    <2> QED BY <2>1 DEF Best
  <1>8. \A j \in DOMAIN s : j \in P => \E m \in DOMAIN t : t[m] = s[j]
    <2> TAKE j \in DOMAIN s
    <2> HAVE j \in P
    <2>1. PICK m \in DOMAIN t : o[m] = j
      BY <1>5
    <2> QED BY <1>5, <2>1
  <1>9. Thins(s, P, t)
    BY <1>2, <1>5, <1>6, <1>7, <1>8, Zenon DEF Thins
  <1> QED BY <1>1, <1>9, Zenon

\* Two ordered lists, the second of lower assurance, are an ordered list.
LEMMA ConcatBest ==
    ASSUME NEW s \in Seq(Claims), NEW t \in Seq(Claims), Best(s), Best(t),
           \A m \in DOMAIN s, n \in DOMAIN t : s[m].assurance > t[n].assurance
    PROVE  Joins(s, t, s \o t)
  <1>1. PICK u : u = s \o t
    BY Zenon
  <1> DEFINE a == Len(s)
             b == Len(t)
  <1>2. /\ a \in Nat /\ b \in Nat /\ DOMAIN s = 1..a /\ DOMAIN t = 1..b
        /\ u \in Seq(Claims) /\ DOMAIN u = 1..(a + b)
        /\ \A k \in 1..a : u[k] = s[k]
        /\ \A k \in 1..b : u[a + k] = t[k]
    BY <1>1
  <1> HIDE DEF a, b
  <1>3. \A k \in 1..(a + b) : k \in 1..a \/ (k - a \in 1..b /\ k = a + (k - a))
    BY <1>2
  <1>4. \A k \in 1..b : a + k \in 1..(a + b)
    BY <1>2
  <1>5. \A k \in 1..a : k \in 1..(a + b)
    BY <1>2
  <1>6. \A k \in DOMAIN u : \/ k \in 1..a /\ u[k] = s[k]
                            \/ k - a \in 1..b /\ u[k] = t[k - a]
    BY <1>2, <1>3
  <1>7. Best(u)
    <2> SUFFICES ASSUME NEW m \in DOMAIN u, NEW n \in DOMAIN u, m < n
                 PROVE  /\ u[m].assurance >= u[n].assurance
                        /\ u[m].assurance = u[n].assurance => u[m].source <= u[n].source
      BY DEF Best
    <2>1. \A c \in Claims : c.assurance \in Int
      BY DEF Claims, Iaa1, Iaa2, Iaa3
    <2>2. /\ \A k \in 1..a : s[k].assurance \in Int
          /\ \A k \in 1..b : t[k].assurance \in Int
      BY <2>1 DEF a, b
    <2>3. CASE n \in 1..a
      <3>1. m \in 1..a
        BY <1>2, <2>3
      <3> QED BY <1>2, <2>3, <3>1 DEF Best
    <2>4. CASE n - a \in 1..b /\ u[n] = t[n - a] /\ m \in 1..a
      <3>1. u[m] = s[m] /\ s[m].assurance > t[n - a].assurance
        BY <1>2, <2>4
      <3> QED BY <1>2, <2>2, <2>4, <3>1
    <2>5. CASE n - a \in 1..b /\ u[n] = t[n - a] /\ m - a \in 1..b /\ u[m] = t[m - a]
      <3>1. m - a < n - a
        BY <1>2
      <3> QED BY <1>2, <2>5, <3>1 DEF Best
    <2> QED BY <1>6, <2>3, <2>4, <2>5
  <1>8. \A m \in DOMAIN s : \E k \in DOMAIN u : u[k] = s[m]
    BY <1>2, <1>5
  <1>9. \A m \in DOMAIN t : \E k \in DOMAIN u : u[k] = t[m]
    BY <1>2, <1>4
  <1>10. \A k \in DOMAIN u : \/ \E m \in DOMAIN s : u[k] = s[m]
                             \/ \E m \in DOMAIN t : u[k] = t[m]
    BY <1>2, <1>6
  <1> QED BY <1>1, <1>2, <1>7, <1>8, <1>9, <1>10, Zenon DEF Joins

\* sort_by_key: the claims, best first.
LEMMA BestFirstIs ==
    ASSUME NEW s \in Seq(Claims), BySource(s)
    PROVE  /\ BestFirst(s) \in Seq(Claims) /\ Best(BestFirst(s))
           /\ Covers(s, BestFirst(s))
  <1> DEFINE At(level) == {j \in DOMAIN s : s[j].assurance = level}
             Is(t, level) == /\ t \in Seq(Claims) /\ Best(t)
                             /\ \A m \in DOMAIN t : t[m].assurance = level
                             /\ \A j \in DOMAIN s : s[j].assurance = level
                                   => \E m \in DOMAIN t : t[m] = s[j]
  <1>1. ASSUME NEW level \in {Iaa1, Iaa2, Iaa3} PROVE Is(Retain(s, At(level)), level)
    <2>1. PICK t : t = Retain(s, At(level))
      BY Zenon
    <2>0. Thins(s, At(level), t)
      BY <2>1, RetainSorted, Zenon
    <2>2. /\ t \in Seq(Claims) /\ BySource(t)
          /\ \A m \in DOMAIN t : \E j \in DOMAIN s : j \in At(level) /\ t[m] = s[j]
          /\ \A j \in DOMAIN s : j \in At(level) => \E m \in DOMAIN t : t[m] = s[j]
      BY <2>0, Zenon DEF Thins
    <2>3. \A m \in DOMAIN t : t[m].assurance = level
      BY <2>2, Zenon
    <2>4. level \in Int
      BY DEF Iaa1, Iaa2, Iaa3
    <2>5. Best(t)
      <3>1. \A m \in DOMAIN t : t[m].assurance >= t[m].assurance
        BY <2>3, <2>4
      <3> QED BY <2>2, <2>3, <3>1, Zenon DEF Best, BySource
    <2> QED BY <2>1, <2>2, <2>3, <2>5, Zenon
  <1>2. PICK x, y, z : /\ x = Retain(s, At(Iaa3)) /\ y = Retain(s, At(Iaa2))
                       /\ z = Retain(s, At(Iaa1))
    BY Zenon
  <1>3. BestFirst(s) = (x \o y) \o z
    BY <1>2 DEF BestFirst
  <1>4. Is(x, Iaa3) /\ Is(y, Iaa2) /\ Is(z, Iaa1)
    BY <1>1, <1>2, Zenon
  <1>5. PICK v : v = x \o y
    BY Zenon
  <1>6. \A m \in DOMAIN x, n \in DOMAIN y : x[m].assurance > y[n].assurance
    BY <1>4 DEF Iaa3, Iaa2
  <1>7. /\ v \in Seq(Claims) /\ Best(v)
        /\ \A m \in DOMAIN x : \E k \in DOMAIN v : v[k] = x[m]
        /\ \A m \in DOMAIN y : \E k \in DOMAIN v : v[k] = y[m]
        /\ \A k \in DOMAIN v : \/ \E m \in DOMAIN x : v[k] = x[m]
                               \/ \E m \in DOMAIN y : v[k] = y[m]
    <2>1. Joins(x, y, v)
      BY <1>4, <1>5, <1>6, ConcatBest, Zenon
    <2> QED BY <2>1, Zenon DEF Joins
  <1>8. \A k \in DOMAIN v : v[k].assurance \in {Iaa3, Iaa2}
    <2> TAKE k \in DOMAIN v
    <2>1. CASE \E m \in DOMAIN x : v[k] = x[m]
      BY <1>4, <2>1
    <2>2. CASE \E m \in DOMAIN y : v[k] = y[m]
      BY <1>4, <2>2
    <2> QED BY <1>7, <2>1, <2>2
  <1>9. \A k \in DOMAIN v, n \in DOMAIN z : v[k].assurance > z[n].assurance
    BY <1>4, <1>8, SMTT(60) DEF Iaa3, Iaa2, Iaa1
  <1>10. PICK w : w = v \o z
    BY Zenon
  <1>11. /\ w \in Seq(Claims) /\ Best(w)
         /\ \A m \in DOMAIN v : \E k \in DOMAIN w : w[k] = v[m]
         /\ \A m \in DOMAIN z : \E k \in DOMAIN w : w[k] = z[m]
    <2>1. Joins(v, z, w)
      BY <1>4, <1>7, <1>9, <1>10, ConcatBest, Zenon
    <2> QED BY <2>1, Zenon DEF Joins
  <1>12. \A j \in DOMAIN s : s[j].assurance \in {Iaa1, Iaa2, Iaa3}
    <2>1. \A c \in Claims : c.assurance \in {Iaa1, Iaa2, Iaa3}
      BY DEF Claims
    <2> QED BY <2>1
  <1>13. \A j \in DOMAIN s : \E k \in DOMAIN w : w[k] = s[j]
    <2> TAKE j \in DOMAIN s
    <2>1. \/ \E m \in DOMAIN x : x[m] = s[j]
          \/ \E m \in DOMAIN y : y[m] = s[j]
          \/ \E m \in DOMAIN z : z[m] = s[j]
      BY <1>4, <1>12, Zenon
    <2>2. \A k \in DOMAIN v : \E l \in DOMAIN w : w[l] = v[k]
      BY <1>11
    <2>3. CASE \E m \in DOMAIN x : x[m] = s[j]
      <3>1. PICK m \in DOMAIN x : x[m] = s[j]
        BY <2>3
      <3>2. PICK k \in DOMAIN v : v[k] = x[m]
        BY <1>7
      <3> QED BY <2>2, <3>1, <3>2
    <2>4. CASE \E m \in DOMAIN y : y[m] = s[j]
      <3>1. PICK m \in DOMAIN y : y[m] = s[j]
        BY <2>4
      <3>2. PICK k \in DOMAIN v : v[k] = y[m]
        BY <1>7
      <3> QED BY <2>2, <3>1, <3>2
    <2>5. CASE \E m \in DOMAIN z : z[m] = s[j]
      BY <1>11, <2>5, Zenon
    <2> QED BY <2>1, <2>3, <2>4, <2>5
  <1>14. Covers(s, w)
    BY <1>13, Zenon DEF Covers
  <1> QED BY <1>3, <1>5, <1>10, <1>11, <1>14, Zenon

\* retain(seen.insert): every identity once.
LEMMA OnePerIdentityIs ==
    ASSUME NEW s \in Seq(Claims), Best(s)
    PROVE  /\ OnePerIdentity(s) \in Seq(Claims) /\ Best(OnePerIdentity(s))
           /\ Distinct(OnePerIdentity(s)) /\ Covers(s, OnePerIdentity(s))
  <1> DEFINE P == {j \in DOMAIN s : \A k \in 1..(j - 1) : IdOf(s[k]) # IdOf(s[j])}
  <1>1. PICK t : t = Retain(s, P)
    BY Zenon
  <1>2. OnePerIdentity(s) = t
    BY <1>1 DEF OnePerIdentity
  <1>3. t \in Seq(Claims) /\ Best(t)
        /\ \A j \in DOMAIN s : j \in P => \E m \in DOMAIN t : t[m] = s[j]
    <2>1. Thins(s, P, t)
      BY <1>1, RetainSorted, Zenon
    <2> QED BY <2>1, Zenon DEF Thins
  <1>4. \E o : InOrder(s, P, Len(s), t, o)
    BY <1>1, RetainIs, Zenon
  <1>5. PICK o : InOrder(s, P, Len(s), t, o)
    BY <1>4, Zenon
  <1>6. DOMAIN t = 1..Len(t) /\ DOMAIN s = 1..Len(s) /\ Len(s) \in Nat /\ Len(t) \in Nat
    BY <1>3
  <1>7. /\ \A m \in DOMAIN t : o[m] \in DOMAIN s /\ o[m] \in P /\ t[m] = s[o[m]]
        /\ \A m, n \in DOMAIN t : m < n => o[m] < o[n]
    BY <1>5, <1>6 DEF InOrder
  <1>8. ASSUME NEW m \in DOMAIN t, NEW n \in DOMAIN t, m < n
        PROVE  IdOf(t[m]) # IdOf(t[n])
    <2>1. o[m] \in 1..(o[n] - 1)
      BY <1>6, <1>7, <1>8
    <2> QED BY <1>7, <2>1
  <1>9. ASSUME NEW j \in DOMAIN s PROVE \E m \in DOMAIN t : IdOf(t[m]) = IdOf(s[j])
    <2> DEFINE Same == {k \in DOMAIN s : IdOf(s[k]) = IdOf(s[j])}
    <2>1. PICK k : k = Min(Same)
      BY Zenon
    <2>2. Same \in SUBSET Nat /\ j \in Same
      BY <1>6
    <2>3. k \in Same /\ \A l \in Same : k <= l
      BY <2>1, <2>2, MinOfNat, Zenon
    <2>4. \A l \in 1..(k - 1) : l \in DOMAIN s /\ ~(k <= l)
      BY <1>6, <2>3
    <2>5. k \in P
      BY <2>3, <2>4
    <2> QED BY <1>3, <2>3, <2>5
  <1> QED BY <1>2, <1>3, <1>8, <1>9, Zenon DEF Distinct, Covers

\* The evidence of one item, when it answers the challenge, and what it is worth.
ClaimOf(c, e) ==
    [source |-> c.source, assurance |-> AssuranceOf(e), presence |-> PresenceNone,
     domain |-> c.domain, path |-> c.path, attestedAt |-> e.at]

\* Claim::derive of a single item.
LEMMA DeriveOne ==
    ASSUME NEW c \in Candidates, NEW r \in Requests, NEW e \in Evidence
    PROVE  /\ BindsTo(e, c, r) => Derive(c, r, <<e>>) = ClaimOf(c, e)
           /\ ~BindsTo(e, c, r) => Derive(c, r, <<e>>) = NoClaim
           /\ ClaimOf(c, e) \in Claims /\ ClaimOf(c, e) # NoClaim
  <1>1. PICK es : es = <<e>>
    BY Zenon
  <1>2. Len(es) = 1 /\ es[1] = e
    BY <1>1
  <1>3. e.kind \in Produced /\ e.at \in Nat
    BY DEF Evidence, Produced
  <1>4. PresenceOf(e) = PresenceNone /\ AssuranceOf(e) \in {Iaa1, Iaa2}
    BY <1>3 DEF PresenceOf, AssuranceOf, Produced
  <1> DEFINE I == BoundAt(es, c, r)
  <1>5. ASSUME ~BindsTo(e, c, r) PROVE Derive(c, r, <<e>>) = NoClaim
    <2>1. I = {}
      BY <1>2, <1>5 DEF BoundAt
    <2>2. Derive(c, r, es) = NoClaim
      BY <2>1, Zenon DEF Derive
    <2> QED BY <1>1, <2>2, Zenon
  <1>6. ASSUME BindsTo(e, c, r) PROVE Derive(c, r, <<e>>) = ClaimOf(c, e)
    <2>1. I = {1}
      BY <1>2, <1>6 DEF BoundAt
    <2>2. StrongestAt(es, I) = 1
      <3>1. \A k \in {1} : ~Outranks(PresenceOf(es[k]), es[k].at, PresenceOf(es[1]), es[1].at)
        BY <1>2, <1>3, <1>4 DEF Outranks, PresenceNone
      <3> QED BY <2>1, <3>1 DEF StrongestAt
    <2>3. Max({AssuranceOf(es[j]) : j \in I}) = AssuranceOf(e)
      <3>1. {AssuranceOf(es[j]) : j \in I} = {AssuranceOf(e)}
        BY <1>2, <2>1
      <3>2. AssuranceOf(e) \in Int
        BY <1>4 DEF Iaa1, Iaa2
      <3>3. Max({AssuranceOf(e)}) = AssuranceOf(e)
        <4>1. PICK x : x = AssuranceOf(e)
          BY Zenon
        <4>2. {x} \in SUBSET Int /\ x \in {x} /\ \A y \in {x} : y <= x
          BY <3>2, <4>1
        <4>3. Max({x}) = x
          BY <4>2, MaxIs, Zenon
        <4> QED BY <4>1, <4>3
      <3> QED BY <3>1, <3>3
    <2>4. DomainAt(es, I, c) = c.domain
      <3>1. {j \in I : es[j].kind = "IdpVerified"} = {}
        BY <1>2, <1>3, <2>1 DEF Produced
      <3> QED BY <3>1 DEF DomainAt
    <2>5. Combined(AssuranceOf(e), PresenceOf(e)) = AssuranceOf(e)
      BY <1>4 DEF Combined, PresenceNone, PresenceHardware
    <2>6. Derive(c, r, es) = ClaimOf(c, e)
      <3>1. Derive(c, r, es) = [source |-> c.source,
              assurance |-> Combined(Max({AssuranceOf(es[j]) : j \in I}), PresenceOf(es[StrongestAt(es, I)])),
              presence |-> PresenceOf(es[StrongestAt(es, I)]),
              domain |-> DomainAt(es, I, c),
              path |-> c.path,
              attestedAt |-> es[StrongestAt(es, I)].at]
        BY <2>1, Zenon DEF Derive
      <3> HIDE DEF I
      <3> QED BY <1>2, <1>4, <2>2, <2>3, <2>4, <2>5, <3>1 DEF ClaimOf
    <2> QED BY <1>1, <2>6, Zenon
  <1>7. ClaimOf(c, e) \in Claims
    BY <1>3, <1>4 DEF ClaimOf, Claims, Candidates, PresenceLevels, PresenceNone, PresenceHardware
  <1>8. ClaimOf(c, e) # NoClaim
    <2>1. "path" \in DOMAIN ClaimOf(c, e) /\ "path" \notin DOMAIN NoClaim
      BY DEF ClaimOf, NoClaim
    <2> QED BY <2>1
  <1> QED BY <1>5, <1>6, <1>7, <1>8, Zenon

\* What a provable candidate is given as evidence: one item.
LEMMA OneEvidence ==
    ASSUME RInv, NEW r \in Requests, NEW c \in Candidates, Provable(c)
    PROVE  \E e \in Evidence : EvidenceFor(r, c) = <<e>>
  <1> DEFINE s == c.source
             kind == Attestors[s].evidence
  <1>1. s \in Sources /\ c.path \in STRING
    BY DEF Candidates
  <1>2. cache[s] \in Seq(Evidence) /\ Len(cache[s]) <= 1 /\ clock \in Nat
    BY <1>1 DEF RInv, Cached
  <1>3. kind \in Produced
    <2> DEFINE Attestor == [name : STRING, cost : {"Silent", "Interactive"}, domain : STRING,
                            evidence : Produced \cup {"none"}, caches : BOOLEAN]
    <2>1. Attestors \in Seq(Attestor)
      BY SourcesAssumption
    <2> HIDE DEF Attestor
    <2>2. Attestors[s] \in Attestor
      BY <1>1, <2>1 DEF Sources
    <2> QED BY <2>2 DEF Attestor, Provable
  <1>4. CASE cache[s] # << >>
    <2>1. PICK q : q = cache[s]
      BY Zenon
    <2>2. q \in Seq(Evidence) /\ Len(q) <= 1 /\ q # << >>
      BY <1>2, <1>4, <2>1
    <2> HIDE DEF s, kind
    <2>3. Len(q) = 1 /\ q[1] \in Evidence /\ q = <<q[1]>>
      <3>1. Len(q) \in Nat /\ Len(q) # 0 /\ DOMAIN q = 1..Len(q)
        BY <2>2
      <3>2. Len(q) = 1 /\ q[1] \in Evidence
        BY <2>2, <3>1
      <3> QED BY <2>2, <3>1, <3>2
    <2> QED BY <1>4, <2>1, <2>3 DEF EvidenceFor, s
  <1>5. CASE cache[s] = << >> /\ kind = "Possession"
    <2>1. Signed(r) \in Evidence
      BY <1>2 DEF Signed, Evidence
    <2> QED BY <1>5, <2>1 DEF EvidenceFor
  <1>6. CASE cache[s] = << >> /\ kind # "Possession"
    <2>1. Asserted(kind, c) \in Evidence
      BY <1>1, <1>2, <1>3, <1>6 DEF Asserted, Evidence, Produced
    <2> QED BY <1>6, <2>1 DEF EvidenceFor
  <1> QED BY <1>4, <1>5, <1>6

\* What a provable candidate is claimed to be.
LEMMA ClaimForIs ==
    ASSUME RInv, NEW r \in Requests, NEW c \in Candidates, Provable(c),
           ClaimFor(r, c) # NoClaim
    PROVE  /\ ClaimFor(r, c) \in Claims
           /\ ClaimFor(r, c).source = c.source /\ ClaimFor(r, c).path = c.path
           /\ ClaimFor(r, c).domain = c.domain
  <1>1. PICK e \in Evidence : EvidenceFor(r, c) = <<e>>
    BY OneEvidence
  <1>2. ClaimFor(r, c) = ClaimOf(c, e)
    BY <1>1, DeriveOne DEF ClaimFor
  <1>3. ClaimOf(c, e) \in Claims
    BY DeriveOne, Zenon
  <1> QED BY <1>2, <1>3 DEF ClaimOf

-----------------------------------------------------------------------------
(* The gates.                                                              *)

\* A claim that passes the folded policy meets every audience of the list.
LEMMA IssuableMeets ==
    ASSUME NEW audiences \in Seq([presence : PresenceLevels, maxAge : SUBSET Nat, valid : BOOLEAN]),
           NEW claim \in Claims, NEW now \in Nat, Issuable(claim, audiences, now, PresenceTtl),
           NEW a \in Range(audiences)
    PROVE  /\ PresenceAt(claim, now, PresenceTtl) >= a.presence
           /\ \A bound \in a.maxAge : AgeAt(claim, now) # NoAge /\ AgeAt(claim, now) < bound
  <1> DEFINE Audience == [presence : PresenceLevels, maxAge : SUBSET Nat, valid : BOOLEAN]
             need == {PresenceNone} \cup {x.presence : x \in Range(audiences)}
             bounds == UNION {x.maxAge : x \in Range(audiences)}
             age == AgeAt(claim, now)
  <1>0. audiences \in Seq(Audience)
    OBVIOUS
  <1> HIDE DEF Audience
  <1>1. \A x \in Range(audiences) : x \in Audience
    BY <1>0 DEF Range
  <1>2. /\ \A x \in Range(audiences) : x.presence \in PresenceLevels
        /\ bounds \subseteq Nat /\ a.presence \in PresenceLevels /\ a.maxAge \subseteq Nat
    BY <1>1 DEF Audience
  <1>9. PresenceLevels = 0..3 /\ PresenceNone = 0
    BY DEF PresenceLevels, PresenceNone, PresenceHardware
  <1>3. PresenceAt(claim, now, PresenceTtl) \in PresenceLevels /\ age \in Int
    BY BoundsAssumption
       DEF PresenceAt, AgeAt, NoAge, Claims, PresenceLevels, PresenceNone, PresenceHardware
  <1>4. Max(need) \in need /\ Max(need) \in Nat /\ \A y \in need : y <= Max(need)
    <2>1. need \in SUBSET Nat /\ need # {} /\ \A y \in need : y <= 3
      BY <1>2, <1>9
    <2> QED BY <2>1, MaxOfBounded, Zenon
  <1>5. RequirePresence(audiences) = Max(need) /\ a.presence \in need
    BY DEF RequirePresence
  <1>7. PresenceAt(claim, now, PresenceTtl) >= a.presence
    <2>1. a.presence <= Max(need)
      BY <1>4, <1>5
    <2>2. PresenceAt(claim, now, PresenceTtl) >= Max(need)
      BY <1>5 DEF Issuable
    <2>3. a.presence \in Int /\ PresenceAt(claim, now, PresenceTtl) \in Int
      BY <1>2, <1>3, <1>9
    <2> HIDE DEF need
    <2> QED BY <1>4, <2>1, <2>2, <2>3
  <1>8. ASSUME NEW bound \in a.maxAge PROVE age # NoAge /\ age < bound
    <2>1. bound \in bounds
      BY <1>8
    <2> HIDE DEF age
    <2>2. MaxAge(audiences) = {Min(bounds)}
      BY <2>1 DEF MaxAge
    <2>3. age # NoAge /\ age < Min(bounds)
      BY <2>2 DEF Issuable, WithinMaxAge, age
    <2> HIDE DEF bounds
    <2>4. Min(bounds) \in bounds /\ Min(bounds) <= bound
      BY <1>2, <2>1, MinOfNat
    <2>5. bound \in Int /\ Min(bounds) \in Int
      <3>1. \A b \in bounds : b \in Nat
        BY <1>2
      <3> QED BY <2>1, <2>4, <3>1
    <2> QED BY <1>3, <2>3, <2>4, <2>5
  <1> QED BY <1>7, <1>8

\* A request that demands nothing passes every claim.
LEMMA IssuableFreely ==
    ASSUME NEW audiences \in Seq([presence : PresenceLevels, maxAge : SUBSET Nat, valid : BOOLEAN]),
           NEW claim \in Claims, NEW now \in Nat,
           \A a \in Range(audiences) : a.presence = PresenceNone /\ a.maxAge = {}
    PROVE  Issuable(claim, audiences, now, PresenceTtl)
  <1>1. {PresenceNone} \cup {a.presence : a \in Range(audiences)} = {0}
    BY DEF PresenceNone
  <1>2. RequirePresence(audiences) = 0
    <2>1. {0} \in SUBSET Int /\ 0 \in {0} /\ \A y \in {0} : y <= 0
      OBVIOUS
    <2>2. Max({0}) = 0
      BY <2>1, MaxIs, Zenon
    <2> QED BY <1>1, <2>2, Zenon DEF RequirePresence
  <1>3. MaxAge(audiences) = {}
    BY DEF MaxAge
  <1>4. PresenceAt(claim, now, PresenceTtl) \in PresenceLevels
    BY DEF PresenceAt, Claims, PresenceLevels, PresenceNone, PresenceHardware
  <1> QED BY <1>2, <1>3, <1>4
          DEF Issuable, WithinMaxAge, PresenceLevels, PresenceNone, PresenceHardware

(* The steps of one request, by what they do to its record.                *)

After(r, pc, i, found, claims, reply) ==
    /\ DOMAIN call' = Requests
    /\ \A q \in Requests : q # r => call'[q] = call[q]
    /\ call'[r].pc = pc /\ call'[r].in = call[r].in /\ call'[r].i = i
    /\ call'[r].found = found /\ call'[r].claims = claims /\ call'[r].reply = reply

Listed(s) == [n \in DOMAIN holds[s] |->
                 [source |-> s, path |-> holds[s][n], domain |-> Attestors[s].domain]]

Enumerates(r) == LET me == call[r] IN
    /\ me.pc = "enumerate" /\ cache' = cache
    /\ status[me.i] # "hung"
    /\ After(r, IF me.i = Len(Attestors) THEN "prove" ELSE "enumerate",
             IF me.i = Len(Attestors) THEN 1 ELSE me.i + 1,
             IF status[me.i] = "down" THEN me.found ELSE me.found \o Listed(me.i),
             me.claims, me.reply)

Skips(r) == LET me == call[r] IN
    /\ me.pc = "prove" /\ ~Named(r) /\ me.i <= Len(me.found) /\ cache' = cache
    /\ \/ ~ConsentGate(Attestors[me.found[me.i].source])
       \/ status[me.found[me.i].source] # "hung" /\ ~Provable(me.found[me.i])
    /\ After(r, "prove", me.i + 1, me.found, me.claims, me.reply)

Proves(r) == LET me == call[r] IN
    /\ me.pc = "prove" /\ ~Named(r) /\ me.i <= Len(me.found)
    /\ Provable(me.found[me.i]) /\ Remember(r, me.found[me.i])
    /\ After(r, "prove", me.i + 1, me.found,
             IF ClaimFor(r, me.found[me.i]) = NoClaim THEN me.claims
             ELSE Append(me.claims, ClaimFor(r, me.found[me.i])), me.reply)

Finishes(r) == LET me == call[r] IN
    /\ me.pc = "prove" /\ ~Named(r) /\ me.i > Len(me.found) /\ cache' = cache
    /\ After(r, "respond", me.i, me.found, me.claims, me.reply)

Names(r) == LET me == call[r] IN
    /\ me.pc \in {"prove", "prompting"} /\ Named(r)
    /\ \E k \in DOMAIN me.found :
          /\ Provable(me.found[k]) /\ Remember(r, me.found[k])
          /\ ClaimFor(r, me.found[k]) # NoClaim
          /\ IdOf(ClaimFor(r, me.found[k])) = me.in.selector
          /\ After(r, "respond", me.i, me.found, <<ClaimFor(r, me.found[k])>>, me.reply)

Refuses(r) == LET me == call[r] IN
    /\ me.pc \in {"prove", "prompting"} /\ Named(r)
    /\ \/ cache' = cache
       \/ \E k \in DOMAIN me.found : Provable(me.found[k]) /\ Remember(r, me.found[k])
    /\ After(r, "done", me.i, me.found, me.claims, Refuse("NotFound"))

Prompts(r) == LET me == call[r] IN
    /\ me.pc = "prove" /\ Named(r) /\ cache' = cache
    /\ \E k \in DOMAIN me.found : After(r, "prompting", k, me.found, me.claims, me.reply)

\* What respond makes of the claims: those issuable, and a token for each.
Passing(claims, in) ==
    Retain(claims, {j \in DOMAIN claims : Issuable(claims[j], in.audiences, clock, PresenceTtl)})

ReplyWith(in, served) ==
    IF served = << >> THEN Refuse("Unauthenticated")
    ELSE [code |-> "Ok", svids |-> [n \in DOMAIN served |-> SvidOf(in, served[n])]]

Responds(r) == LET me == call[r] IN
    /\ me.pc = "respond" /\ cache' = cache
    /\ \E claims \in {IF Named(r) THEN me.claims ELSE OnePerIdentity(BestFirst(me.claims))} :
       \E served \in {Passing(claims, me.in)} :
          After(r, "done", me.i, me.found, me.claims, ReplyWith(me.in, served))

Cancels(r) == LET me == call[r] IN
    /\ me.pc \in {"enumerate", "prove", "prompting"} /\ cache' = cache
    /\ After(r, "cancelled", me.i, me.found, me.claims, me.reply)

Moves(r) ==
    \/ Enumerates(r) \/ Skips(r) \/ Proves(r) \/ Finishes(r) \/ Names(r) \/ Refuses(r)
    \/ Prompts(r) \/ Responds(r) \/ Cancels(r)

\* Proving a named candidate ends in a claim or in a refusal.
LEMMA ProvedMoves ==
    ASSUME RInv, NEW r \in Requests, NEW k \in DOMAIN call[r].found,
           call[r].pc \in {"prove", "prompting"}, Named(r),
           Provable(call[r].found[k]), Remember(r, call[r].found[k]),
           Proved(r, call[r].found[k])
    PROVE  Names(r) \/ Refuses(r)
  <1> DEFINE me == call[r]
             c == me.found[k]
  <1>1. DOMAIN call = Requests /\ DOMAIN me = Fields
    BY DEF RInv, IInv, Shaped
  <1>2. PICK claim : claim = ClaimFor(r, c)
    BY Zenon
  <1>3. CASE /\ claim # NoClaim /\ IdOf(claim) = me.in.selector
             /\ call' = [call EXCEPT ![r].pc = "respond", ![r].claims = <<claim>>]
    <2>1. After(r, "respond", me.i, me.found, <<claim>>, me.reply)
      BY <1>1, <1>3 DEF After, Fields
    <2> QED BY <1>2, <1>3, <2>1, Zenon DEF Names
  <1>4. CASE NotFound(r)
    <2>1. After(r, "done", me.i, me.found, me.claims, Refuse("NotFound"))
      BY <1>1, <1>4 DEF After, Fields, NotFound
    <2> QED BY <2>1, Zenon DEF Refuses
  <1> QED BY <1>2, <1>3, <1>4, Zenon DEF Proved

\* Every step of a request is one of these, and leaves the world alone.
LEMMA StepMoves ==
    ASSUME RInv, NEW r \in Requests, Serve(r) \/ Answer(r) \/ Cancel(r)
    PROVE  Moves(r) /\ UNCHANGED <<world, steady>>
  <1> DEFINE me == call[r]
  <1>1. /\ DOMAIN call = Requests /\ DOMAIN me = Fields /\ me.found \in Seq(Candidates)
    BY DEF RInv, IInv, Shaped
  <1>2. UNCHANGED <<world, steady>>
    BY Zenon DEF Serve, Enumerate, ProveUnnamed, ProvedAll, ProveNamed, Respond, Answer, Cancel
  <1>3. CASE Enumerate(r)
    <2> DEFINE found == IF status[me.i] = "down" THEN me.found ELSE me.found \o Listed(me.i)
               last == me.i = Len(Attestors)
    <2>1. /\ me.pc = "enumerate" /\ cache' = cache /\ status[me.i] # "hung"
          /\ call' = [call EXCEPT ![r].found = found, ![r].i = IF last THEN 1 ELSE me.i + 1,
                                  ![r].pc = IF last THEN "prove" ELSE "enumerate"]
      BY <1>3, Zenon DEF Enumerate, Listed
    <2> HIDE DEF found, last
    <2>2. After(r, IF last THEN "prove" ELSE "enumerate", IF last THEN 1 ELSE me.i + 1, found,
                me.claims, me.reply)
      BY <1>1, <2>1 DEF After, Fields
    <2>3. Enumerates(r)
      BY <2>1, <2>2, Zenon DEF Enumerates, found, last
    <2> QED BY <1>2, <2>3 DEF Moves
  <1>4. CASE ProveUnnamed(r)
    <2> DEFINE c == me.found[me.i]
               claims == IF ClaimFor(r, c) = NoClaim THEN me.claims
                         ELSE Append(me.claims, ClaimFor(r, c))
    <2>1. me.pc = "prove" /\ ~Named(r) /\ me.i <= Len(me.found)
      BY <1>4, Zenon DEF ProveUnnamed
    <2>2. CASE /\ call' = [call EXCEPT ![r].i = me.i + 1] /\ cache' = cache
               /\ \/ ~ConsentGate(Attestors[c.source])
                  \/ status[c.source] # "hung" /\ ~Provable(c)
      <3>1. After(r, "prove", me.i + 1, me.found, me.claims, me.reply)
        BY <1>1, <2>1, <2>2 DEF After, Fields
      <3>2. Skips(r)
        BY <2>1, <2>2, <3>1, Zenon DEF Skips
      <3> QED BY <1>2, <3>2, SMTT(60) DEF Moves
    <2>3. CASE /\ call' = [call EXCEPT ![r].i = me.i + 1, ![r].claims = claims]
               /\ Remember(r, c) /\ Provable(c)
      <3> HIDE DEF claims
      <3>1. After(r, "prove", me.i + 1, me.found, claims, me.reply)
        BY <1>1, <2>1, <2>3 DEF After, Fields
      <3>2. Proves(r)
        BY <2>1, <2>3, <3>1, Zenon DEF Proves, claims
      <3> QED BY <1>2, <3>2 DEF Moves
    <2> QED BY <1>4, <2>2, <2>3, Zenon DEF ProveUnnamed
  <1>5. CASE ProvedAll(r)
    <2>1. /\ me.pc = "prove" /\ ~Named(r) /\ me.i > Len(me.found) /\ cache' = cache
          /\ call' = [call EXCEPT ![r].pc = "respond"]
      BY <1>5 DEF ProvedAll
    <2>2. After(r, "respond", me.i, me.found, me.claims, me.reply)
      BY <1>1, <2>1 DEF After, Fields
    <2>3. Finishes(r)
      BY <2>1, <2>2, Zenon DEF Finishes
    <2> QED BY <1>2, <2>3 DEF Moves
  <1>6. ASSUME NotFound(r), cache' = cache, Named(r), me.pc \in {"prove", "prompting"}
        PROVE  Refuses(r)
    <2>1. After(r, "done", me.i, me.found, me.claims, Refuse("NotFound"))
      BY <1>1, <1>6 DEF After, Fields, NotFound
    <2> QED BY <1>6, <2>1, Zenon DEF Refuses
  <1>7. CASE ProveNamed(r)
    <2> DEFINE matches == Selected(me.found, me.in.selector.path)
               k == Min(matches)
               c == me.found[k]
    <2>1. me.pc = "prove" /\ Named(r)
      BY <1>7, Zenon DEF ProveNamed
    <2>2. CASE NotFound(r) /\ cache' = cache
      BY <1>2, <1>6, <2>1, <2>2 DEF Moves
    <2>3. CASE matches # {} /\ Provable(c) /\ Proved(r, c) /\ Remember(r, c)
      <3>1. k \in DOMAIN me.found
        BY <1>1, <2>3, SelectedHasPath, Zenon
      <3>2. Names(r) \/ Refuses(r)
        BY <2>1, <2>3, <3>1, ProvedMoves, Zenon
      <3> QED BY <1>2, <3>2 DEF Moves
    <2>4. CASE /\ matches # {} /\ cache' = cache
               /\ call' = [call EXCEPT ![r].pc = "prompting", ![r].i = k]
      <3>1. k \in DOMAIN me.found
        BY <1>1, <2>4, SelectedHasPath
      <3> HIDE DEF k
      <3>2. After(r, "prompting", k, me.found, me.claims, me.reply)
        BY <1>1, <2>4 DEF After, Fields
      <3>3. Prompts(r)
        BY <2>1, <2>4, <3>1, <3>2, Zenon DEF Prompts
      <3> QED BY <1>2, <3>3 DEF Moves
    <2> QED BY <1>7, <2>2, <2>3, <2>4, Zenon DEF ProveNamed
  <1>8. CASE Respond(r)
    <2>1. PICK claims \in {IF Named(r) THEN me.claims ELSE OnePerIdentity(BestFirst(me.claims))} :
          \E served \in {Passing(claims, me.in)} :
              call' = [call EXCEPT ![r].pc = "done", ![r].reply = ReplyWith(me.in, served)]
      BY <1>8, Zenon DEF Respond, Passing, ReplyWith
    <2>2. PICK served \in {Passing(claims, me.in)} :
              call' = [call EXCEPT ![r].pc = "done", ![r].reply = ReplyWith(me.in, served)]
      BY <2>1, Zenon
    <2>4. After(r, "done", me.i, me.found, me.claims, ReplyWith(me.in, served))
      BY <1>1, <2>2 DEF After, Fields
    <2>5. me.pc = "respond" /\ cache' = cache
      BY <1>8 DEF Respond
    <2>6. Responds(r)
      BY <2>4, <2>5, Zenon DEF Responds
    <2> QED BY <1>2, <2>6 DEF Moves
  <1>9. CASE Answer(r)
    <2>1. me.pc = "prompting" /\ Named(r) /\ me.i \in DOMAIN me.found
      BY <1>9, Zenon DEF Answer, RInv, Gathered, Named
    <2>2. CASE NotFound(r) /\ cache' = cache
      BY <1>2, <1>6, <2>1, <2>2, Zenon DEF Moves
    <2>3. CASE /\ Provable(me.found[me.i]) /\ Proved(r, me.found[me.i])
               /\ Remember(r, me.found[me.i])
      <3>1. Names(r) \/ Refuses(r)
        BY <2>1, <2>3, ProvedMoves
      <3> QED BY <1>2, <3>1 DEF Moves
    <2> QED BY <1>9, <2>2, <2>3, Zenon DEF Answer
  <1>10. CASE Cancel(r)
    <2>1. /\ me.pc \in {"enumerate", "prove", "prompting"} /\ cache' = cache
          /\ call' = [call EXCEPT ![r].pc = "cancelled"]
      BY <1>10 DEF Cancel
    <2>2. After(r, "cancelled", me.i, me.found, me.claims, me.reply)
      BY <1>1, <2>1 DEF After, Fields
    <2>3. Cancels(r)
      BY <2>1, <2>2, Zenon DEF Cancels
    <2> QED BY <1>2, <2>3 DEF Moves
  <1> QED BY <1>3, <1>4, <1>5, <1>7, <1>8, <1>9, <1>10, ZenonT(60) DEF Serve

\* What remembering a proof leaves in the cache.
LEMMA RememberCached ==
    ASSUME RInv, NEW r \in Requests, NEW c \in Candidates, Provable(c), Remember(r, c)
    PROVE  DOMAIN cache' = Sources /\ Cached'
  <1>1. DOMAIN cache = Sources /\ Cached /\ c.source \in Sources
    BY DEF RInv, Candidates
  <1>2. CASE cache' = cache
    BY <1>1, <1>2 DEF Cached
  <1>3. CASE cache' = [cache EXCEPT ![c.source] = EvidenceFor(r, c)]
    <2>1. PICK e \in Evidence : EvidenceFor(r, c) = <<e>>
      BY OneEvidence, Zenon
    <2>2. <<e>> \in Seq(Evidence) /\ Len(<<e>>) <= 1
      OBVIOUS
    <2> QED BY <1>1, <1>3, <2>1, <2>2 DEF Cached
  <1> QED BY <1>2, <1>3, Zenon DEF Remember

\* A step of one request keeps the others gathered.
LEMMA OneGathered ==
    ASSUME RInv, IInv', NEW r \in Requests, clock' = clock,
           DOMAIN cache' = Sources, Cached',
           \A q \in Requests : q # r => call'[q] = call[q],
           Gathered(call'[r])
    PROVE  RInv'
  <1>1. \A q \in Requests : Gathered(call[q])
    BY DEF RInv
  <1>2. \A q \in Requests : Gathered(call'[q])
    BY <1>1, Zenon
  <1>3. (\A q \in Requests : Gathered(call[q]))'
    BY <1>2, Zenon
  <1>4. clock' \in Nat
    BY DEF RInv
  <1> QED BY <1>3, <1>4, Zenon DEF RInv

\* A refusal holds no token.
LEMMA RefusalFine ==
    ASSUME NEW in, NEW code, code # "Ok"
    PROVE  Fine(in, Refuse(code))
  <1>1. Refuse(code).svids = << >> /\ Refuse(code).code = code
    BY DEF Refuse
  <1>2. Met(in, << >>) /\ Ordered(<< >>)
    BY DEF Met, Ordered
  <1> QED BY <1>1, <1>2 DEF Fine

\* The empty list is in order.
LEMMA EmptyOrder == BySource(<< >>) /\ << >> \in Seq(Claims)
  BY DEF BySource

\* What a source lists, in its own order.
LEMMA ListedIs ==
    ASSUME RInv, NEW s \in Sources
    PROVE  /\ holds[s] \in Seq(STRING) /\ Listed(s) \in Seq(Candidates)
           /\ DOMAIN Listed(s) = 1..Len(holds[s]) /\ Len(Listed(s)) = Len(holds[s])
           /\ \A n \in 1..Len(holds[s]) :
                 /\ Listed(s)[n] = [source |-> s, path |-> holds[s][n],
                                    domain |-> Attestors[s].domain]
                 /\ Listed(s)[n].source = s
  <1>1. PICK new : new = Listed(s)
    BY Zenon
  <1>2. holds[s] \in Seq(STRING)
    BY DEF RInv, IInv
  <1>3. Len(holds[s]) \in Nat /\ DOMAIN holds[s] = 1..Len(holds[s])
    BY <1>2
  <1>4. << >> \in Seq(Candidates)
    OBVIOUS
  <1>5. << >> \o new \in Seq(Candidates)
    BY <1>1, <1>2, <1>4, Enumerated, ZenonT(60) DEF Listed
  <1>6. new \in Seq({new[n] : n \in DOMAIN holds[s]})
    BY <1>1, <1>3 DEF Listed
  <1>7. new \in Seq(Candidates)
    BY <1>5, <1>6
  <1>8. DOMAIN new = 1..Len(holds[s])
    BY <1>1, <1>3 DEF Listed
  <1>9. Len(new) = Len(holds[s])
    BY <1>3, <1>7, <1>8, SMTT(60)
  <1>10. \A n \in 1..Len(holds[s]) :
            /\ new[n] = [source |-> s, path |-> holds[s][n], domain |-> Attestors[s].domain]
            /\ new[n].source = s
    BY <1>1, <1>3 DEF Listed
  <1> QED BY <1>1, <1>2, <1>7, <1>8, <1>9, <1>10, Zenon

\* Enumerating the next source keeps the candidates in the order of the sources.
LEMMA EnumerateOrder ==
    ASSUME RInv, NEW s \in Sources, NEW found \in Seq(Candidates), BySource(found),
           \A k \in DOMAIN found : found[k].source < s
    PROVE  /\ BySource(found \o Listed(s))
           /\ \A k \in DOMAIN (found \o Listed(s)) : (found \o Listed(s))[k].source < s + 1
  <1>1. PICK new, u : new = Listed(s) /\ u = found \o new
    BY Zenon
  <1> DEFINE a == Len(found)
             b == Len(new)
  <1>3. new \in Seq(Candidates) /\ b = Len(holds[s])
    BY <1>1, ListedIs, Zenon
  <1>4. \A k \in 1..b : new[k].source = s
    BY <1>1, <1>3, ListedIs, Zenon
  <1>5. /\ a \in Nat /\ b \in Nat /\ DOMAIN found = 1..a
        /\ DOMAIN u = 1..(a + b)
        /\ \A k \in 1..a : u[k] = found[k]
        /\ \A k \in 1..b : u[a + k] = new[k]
    <2>1. Joined(found, new, u)
      BY <1>1, <1>3, JoinedIs, Zenon
    <2> QED BY <2>1, Zenon DEF Joined
  <1>6. s \in Nat /\ \A k \in 1..a : found[k].source \in Nat
    <2>1. Sources = 1..Len(Attestors) /\ Len(Attestors) \in Nat
      BY SourcesAssumption DEF Sources
    <2>2. \A c \in Candidates : c.source \in Sources
      BY DEF Candidates
    <2>3. \A k \in 1..a : found[k] \in Candidates
      BY <1>5
    <2> QED BY <2>1, <2>2, <2>3
  <1> HIDE DEF a, b
  <1>7. \A k \in DOMAIN u : \/ k \in 1..a /\ u[k] = found[k]
                            \/ k \notin 1..a /\ u[k].source = s
    <2> TAKE k \in DOMAIN u
    <2>1. CASE k \in 1..a
      BY <1>5, <2>1
    <2>2. CASE k \notin 1..a
      <3>1. k - a \in 1..b /\ k = a + (k - a)
        BY <1>5, <2>2
      <3> QED BY <1>4, <1>5, <2>2, <3>1
    <2> QED BY <2>1, <2>2
  <1>8. \A k \in DOMAIN u : u[k].source < s + 1
    BY <1>5, <1>6, <1>7
  <1>9. BySource(u)
    <2> SUFFICES ASSUME NEW m \in DOMAIN u, NEW n \in DOMAIN u, m < n
                 PROVE  u[m].source <= u[n].source
      BY DEF BySource
    <2>1. CASE n \in 1..a
      <3>1. m \in 1..a
        BY <1>5, <2>1
      <3> QED BY <1>5, <2>1, <3>1, Zenon DEF BySource
    <2>2. CASE n \notin 1..a
      <3>1. u[n].source = s
        BY <1>7, <2>2, Zenon
      <3>2. u[m].source < s + 1 /\ u[m].source \in Nat
        BY <1>5, <1>6, <1>7
      <3> QED BY <1>6, <3>1, <3>2
    <2> QED BY <2>1, <2>2
  <1> QED BY <1>1, <1>8, <1>9, Zenon

\* One more claim, of the candidate that comes next.
LEMMA AppendOrder ==
    ASSUME NEW claims \in Seq(Claims), NEW claim \in Claims, BySource(claims),
           \A m \in DOMAIN claims : claims[m].source <= claim.source
    PROVE  /\ BySource(Append(claims, claim)) /\ Append(claims, claim) \in Seq(Claims)
           /\ \A m \in DOMAIN Append(claims, claim) :
                 Append(claims, claim)[m].source <= claim.source
  <1>1. PICK u : u = Append(claims, claim)
    BY Zenon
  <1> DEFINE a == Len(claims)
  <1>2. /\ a \in Nat /\ DOMAIN claims = 1..a /\ DOMAIN u = 1..(a + 1)
        /\ u \in Seq(Claims) /\ u[a + 1] = claim
        /\ \A k \in 1..a : u[k] = claims[k]
    BY <1>1
  <1> HIDE DEF a
  <1>3. claim.source \in Nat
    <2>1. Sources = 1..Len(Attestors) /\ Len(Attestors) \in Nat
      BY SourcesAssumption DEF Sources
    <2> QED BY <2>1 DEF Claims
  <1>4. \A k \in 1..(a + 1) : k \in 1..a \/ k = a + 1
    BY <1>2
  <1>5. \A m \in DOMAIN u : u[m].source <= claim.source
    BY <1>2, <1>3, <1>4, SMTT(60)
  <1>6. BySource(u)
    <2> SUFFICES ASSUME NEW m \in DOMAIN u, NEW n \in DOMAIN u, m < n
                 PROVE  u[m].source <= u[n].source
      BY DEF BySource
    <2>1. CASE n = a + 1
      BY <1>2, <1>5, <2>1
    <2>2. CASE n \in 1..a
      <3>1. m \in 1..a
        BY <1>2, <2>2
      <3> QED BY <1>2, <2>2, <3>1 DEF BySource
    <2> QED BY <1>2, <1>4, <2>1, <2>2
  <1> QED BY <1>1, <1>2, <1>5, <1>6, Zenon

\* What Respond serves of a request's claims.
LEMMA ServedFine ==
    ASSUME NEW in \in Inputs, NEW claims \in Seq(Claims), Best(claims), clock \in Nat,
           Distinct(claims),
           in.selector # NoSelector
               => Len(claims) = 1 /\ IdOf(claims[1]) = in.selector,
           NEW served, served = Passing(claims, in),
           served # << >>
    PROVE  Fine(in, [code |-> "Ok", svids |-> [n \in DOMAIN served |-> SvidOf(in, served[n])]])
  <1> DEFINE P == {j \in DOMAIN claims : Issuable(claims[j], in.audiences, clock, PresenceTtl)}
             svids == [n \in DOMAIN served |-> SvidOf(in, served[n])]
             reply == [code |-> "Ok", svids |-> svids]
  <1>1. Thins(claims, P, served) /\ \E o : InOrder(claims, P, Len(claims), served, o)
    <2>1. Thins(claims, P, served)
      BY RetainSorted, Zenon DEF Passing
    <2>2. \E o : InOrder(claims, P, Len(claims), served, o)
      BY RetainIs, Zenon DEF Passing
    <2> QED BY <2>1, <2>2, Zenon
  <1>2. PICK o : InOrder(claims, P, Len(claims), served, o)
    BY <1>1, Zenon
  <1>3. /\ served \in Seq(Claims) /\ Best(served)
    BY <1>1, Zenon DEF Thins
  <1>4. /\ DOMAIN served = 1..Len(served) /\ DOMAIN claims = 1..Len(claims)
        /\ Len(served) \in Nat /\ Len(claims) \in Nat /\ Len(served) # 0
    BY <1>3
  <1>5. /\ \A m \in DOMAIN served : o[m] \in DOMAIN claims /\ o[m] \in P
                                    /\ served[m] = claims[o[m]]
        /\ \A m, n \in DOMAIN served : m < n => o[m] < o[n]
    BY <1>2, <1>4, Zenon DEF InOrder
  <1>6. /\ DOMAIN svids = DOMAIN served
        /\ \A n \in DOMAIN served : svids[n] = SvidOf(in, served[n])
    BY Zenon
  <1>7. \A n \in DOMAIN served :
           /\ svids[n].id = Pseudonym(in.consumer, IdOf(served[n]))
           /\ svids[n].source = served[n].source
           /\ svids[n].assurance = served[n].assurance
           /\ svids[n].presence = PresenceAt(served[n], clock, PresenceTtl)
           /\ svids[n].age = AgeAt(served[n], clock)
    BY <1>6, Zenon DEF SvidOf
  <1>8. Len(svids) = Len(served)
    BY <1>4, <1>6
  <1> HIDE DEF svids
  <1>9. Met(in, svids)
    <2> SUFFICES ASSUME NEW n \in DOMAIN served, NEW a \in Range(in.audiences)
                 PROVE  /\ svids[n].presence >= a.presence
                        /\ \A bound \in a.maxAge : svids[n].age # NoAge /\ svids[n].age < bound
      BY <1>6, Zenon DEF Met
    <2>1. in.audiences \in Seq([presence : PresenceLevels, maxAge : SUBSET Nat, valid : BOOLEAN])
      BY InputsAssumption, Zenon
    <2>2. served[n] \in Claims
      BY <1>3
    <2>3. Issuable(served[n], in.audiences, clock, PresenceTtl)
      BY <1>5
    <2>4. /\ PresenceAt(served[n], clock, PresenceTtl) >= a.presence
          /\ \A bound \in a.maxAge : AgeAt(served[n], clock) # NoAge /\ AgeAt(served[n], clock) < bound
      BY <2>1, <2>2, <2>3, IssuableMeets, Zenon
    <2> QED BY <1>7, <2>4, Zenon
  <1>10. OnlyNamed(in, svids)
    <2> SUFFICES ASSUME in.selector # NoSelector
                 PROVE  Len(svids) = 1 /\ svids[1].id = Pseudonym(in.consumer, in.selector)
      BY DEF OnlyNamed
    <2>1. Len(claims) = 1 /\ IdOf(claims[1]) = in.selector
      OBVIOUS
    <2>2. \A m \in DOMAIN served : o[m] = 1
      <3>1. DOMAIN claims = {1}
        <4>1. 1..1 = {1}
          OBVIOUS
        <4> QED BY <1>4, <2>1, <4>1, Zenon
      <3>2. \A m \in DOMAIN served : o[m] \in {1}
        BY <1>5, <3>1, Zenon
      <3> QED BY <3>2, Zenon
    <2>3. Len(served) = 1
      <3> SUFFICES ASSUME Len(served) # 1 PROVE FALSE
        OBVIOUS
      <3>1. 1 \in DOMAIN served /\ 2 \in DOMAIN served
        <4>1. \A L \in Nat : L # 0 /\ L # 1 => 1 \in 1..L /\ 2 \in 1..L
          OBVIOUS
        <4> QED BY <1>4, <4>1, Zenon
      <3>2. o[1] < o[2] /\ o[1] = 1 /\ o[2] = 1
        BY <1>5, <2>2, <3>1
      <3> QED BY <3>2
    <2>4. 1 \in DOMAIN served
      BY <1>4
    <2>5. served[1] = claims[1]
      BY <1>5, <2>2, <2>4
    <2> QED BY <1>7, <1>8, <2>1, <2>3, <2>4, <2>5, Zenon
  <1>11. Ordered(svids)
    <2> SUFFICES ASSUME NEW m \in DOMAIN served, NEW n \in DOMAIN served, m < n
                 PROVE  /\ svids[m].id # svids[n].id
                        /\ svids[m].assurance >= svids[n].assurance
                        /\ svids[m].assurance = svids[n].assurance
                              => svids[m].source <= svids[n].source
      BY <1>6, Zenon DEF Ordered
    <2>1. IdOf(served[m]) # IdOf(served[n])
      <3>1. o[m] \in DOMAIN claims /\ o[n] \in DOMAIN claims /\ o[m] < o[n]
        BY <1>5
      <3>2. served[m] = claims[o[m]] /\ served[n] = claims[o[n]]
        BY <1>5
      <3> QED BY <3>1, <3>2, Zenon DEF Distinct
    <2>2. \A x, y : Pseudonym(in.consumer, x) = Pseudonym(in.consumer, y) => x = y
      BY DEF Pseudonym
    <2>3. svids[m].id # svids[n].id
      <3>1. Pseudonym(in.consumer, IdOf(served[m])) # Pseudonym(in.consumer, IdOf(served[n]))
        BY <2>1, <2>2, Zenon
      <3>2. /\ svids[m].id = Pseudonym(in.consumer, IdOf(served[m]))
            /\ svids[n].id = Pseudonym(in.consumer, IdOf(served[n]))
        BY <1>7, Zenon
      <3> QED BY <3>1, <3>2, Zenon
    <2>4. /\ served[m].assurance >= served[n].assurance
          /\ served[m].assurance = served[n].assurance => served[m].source <= served[n].source
      BY <1>3, Zenon DEF Best
    <2> QED BY <1>7, <2>3, <2>4, Zenon
  <1>12. reply.svids = svids /\ reply.code = "Ok"
    OBVIOUS
  <1>13. Fine(in, reply)
    BY <1>9, <1>10, <1>11, <1>12, Zenon DEF Fine
  <1> QED BY <1>13 DEF svids

\* A request's record, as its invariant has it.
LEMMA RecordIs ==
    ASSUME RInv, NEW r \in Requests
    PROVE  /\ Gathered(call[r]) /\ call[r].found \in Seq(Candidates)
           /\ call[r].pc = "enumerate" => call[r].i \in Sources
           /\ DOMAIN cache = Sources /\ Cached /\ clock \in Nat
  BY Zenon DEF RInv, IInv, Shaped

\* What is answered: a claim of the named identity, or every identity's best.
LEMMA AnswerIs ==
    ASSUME RInv, NEW r \in Requests, call[r].pc = "respond",
           NEW claims, claims = IF Named(r) THEN call[r].claims
                                ELSE OnePerIdentity(BestFirst(call[r].claims))
    PROVE  /\ claims \in Seq(Claims) /\ Best(claims)
           /\ Distinct(claims)
           /\ Named(r) => Len(claims) = 1 /\ IdOf(claims[1]) = call[r].in.selector
           /\ ~Named(r) => Covers(call[r].claims, claims)
  <1> DEFINE me == call[r]
  <1>1. /\ me.claims \in Seq(Claims) /\ BySource(me.claims)
        /\ Named(r) => Len(me.claims) = 1 /\ IdOf(me.claims[1]) = me.in.selector
    BY RecordIs, Zenon DEF Gathered, Named
  <1>2. CASE Named(r)
    <2>1. claims = me.claims /\ Len(claims) = 1
      BY <1>1, <1>2, Zenon
    <2>2. DOMAIN claims = 1..Len(claims)
      BY <1>1, <2>1
    <2>3. \A m, n \in 1..1 : ~(m < n)
      OBVIOUS
    <2>4. \A m, n \in DOMAIN claims : ~(m < n)
      BY <2>1, <2>2, <2>3, Zenon
    <2> QED BY <1>1, <1>2, <2>1, <2>4, Zenon DEF Best, Distinct
  <1>3. CASE ~Named(r)
    <2>1. PICK b : b = BestFirst(me.claims)
      BY Zenon
    <2>2. /\ b \in Seq(Claims) /\ Best(b)
          /\ Covers(me.claims, b)
      BY <1>1, <2>1, BestFirstIs, Zenon
    <2>3. claims = OnePerIdentity(b)
      BY <1>3, <2>1
    <2>4. /\ claims \in Seq(Claims) /\ Best(claims)
          /\ Distinct(claims) /\ Covers(b, claims)
      BY <2>2, <2>3, OnePerIdentityIs, Zenon
    <2>5. Covers(me.claims, claims)
      <3> SUFFICES ASSUME NEW j \in DOMAIN me.claims
                   PROVE  \E m \in DOMAIN claims : IdOf(claims[m]) = IdOf(me.claims[j])
        BY Zenon DEF Covers
      <3>1. PICK k \in DOMAIN b : IdOf(b[k]) = IdOf(me.claims[j])
        BY <2>2, Zenon DEF Covers
      <3>2. PICK m \in DOMAIN claims : IdOf(claims[m]) = IdOf(b[k])
        BY <2>4, Zenon DEF Covers
      <3> QED BY <3>1, <3>2, Zenon
    <2> QED BY <1>3, <2>4, <2>5, Zenon
  <1> QED BY <1>2, <1>3, Zenon

\* Before the first request.
LEMMA InitRInv == Init => RInv
  <1> SUFFICES ASSUME Init PROVE RInv
    OBVIOUS
  <1>1. IInv
    BY InitIInv
  <1>2. clock \in Nat /\ DOMAIN cache = Sources
    BY DEF Init
  <1>3. Cached
    BY SMTT(60) DEF Init, Cached
  <1>4. Gathered(Idle)
    <2>1. /\ Idle.pc = "idle" /\ Idle.claims = << >> /\ Idle.found = << >>
          /\ Idle.in = [selector |-> NoSelector] /\ Idle.reply = Refuse("none")
      BY DEF Idle
    <2>2. Fine(Idle.in, Refuse("none"))
      BY RefusalFine
    <2> QED BY <2>1, <2>2, EmptyOrder, Zenon DEF Gathered
  <1>5. \A r \in Requests : call[r] = Idle
    BY DEF Init
  <1> QED BY <1>1, <1>2, <1>3, <1>4, <1>5, Zenon DEF RInv

\* Every step keeps the invariant.
LEMMA NextRInv == RInv /\ [Next]_vars => RInv'
  \* The next source is enumerated.
  <1>1. ASSUME RInv, NEW r \in Requests, Enumerates(r)
        PROVE  Gathered(call'[r])
    <2> USE <1>1
    <2> DEFINE me == call[r]
               c == call'[r]
               last == me.i = Len(Attestors)
    <2>1. /\ Gathered(me) /\ me.found \in Seq(Candidates) /\ me.i \in Sources
          /\ me.pc = "enumerate"
      BY RecordIs, Zenon DEF Enumerates
    <2>2. /\ me.in \in Inputs /\ me.claims = << >> /\ BySource(me.found)
          /\ \A k \in DOMAIN me.found : me.found[k].source < me.i
          /\ Fine(me.in, me.reply)
      BY <2>1, Zenon DEF Gathered
    <2>3. /\ c.pc = IF last THEN "prove" ELSE "enumerate"
          /\ c.in = me.in /\ c.i = IF last THEN 1 ELSE me.i + 1
          /\ c.found = me.found \/ c.found = me.found \o Listed(me.i)
          /\ c.claims = << >> /\ c.reply = me.reply
      BY <2>2, Zenon DEF Enumerates, After
    <2>4. /\ BySource(c.found)
          /\ \A k \in DOMAIN c.found : c.found[k].source < me.i + 1
      <3>1. CASE c.found = me.found \o Listed(me.i)
        BY <2>1, <2>2, <3>1, EnumerateOrder, Zenon
      <3>2. CASE c.found = me.found
        <4>1. me.i \in Int
          BY <2>1, SourcesAssumption DEF Sources
        <4>2. \A k \in DOMAIN me.found : me.found[k].source \in Int
          <5>1. \A x \in Candidates : x.source \in Int
            BY SourcesAssumption DEF Candidates, Sources
          <5> QED BY <2>1, <5>1
        <4>3. \A k \in DOMAIN me.found : me.found[k].source < me.i + 1
          BY <2>2, <4>1, <4>2
        <4> QED BY <2>2, <3>2, <4>3, Zenon
      <3> QED BY <2>3, <3>1, <3>2, Zenon
    <2> HIDE DEF c, me, last
    <2>5. c.pc = "enumerate" => c.i = me.i + 1
      BY <2>3
    <2>6. c.pc = "prove" => c.i = 1
      BY <2>3
    <2>7. c.pc \in {"prove", "enumerate"}
      BY <2>3
    <2>8. /\ c.pc = "enumerate" => \A k \in DOMAIN c.found : c.found[k].source < c.i
      BY <2>4, <2>5, Zenon
    <2>9. c.pc = "prove" =>
            /\ c.i \in Nat \ {0}
            /\ \A m \in DOMAIN c.claims, k \in DOMAIN c.found :
                  k >= c.i => c.claims[m].source <= c.found[k].source
      BY <2>3, <2>6
    <2>10. c.pc \notin {"prompting", "respond"}
      BY <2>7
    <2>11. c.in \in Inputs /\ c.claims \in Seq(Claims) /\ BySource(c.claims) /\ Fine(c.in, c.reply)
      BY <2>2, <2>3, EmptyOrder, Zenon
    <2>12. Gathered(c)
      BY <2>3, <2>4, <2>8, <2>9, <2>10, <2>11, Zenon DEF Gathered
    <2> QED BY <2>12 DEF c
  \* A candidate of an unnamed request is skipped.
  <1>2. ASSUME RInv, NEW r \in Requests, Skips(r)
        PROVE  Gathered(call'[r])
    <2> USE <1>2
    <2> DEFINE me == call[r]
               c == call'[r]
    <2>1. Gathered(me) /\ me.found \in Seq(Candidates) /\ me.pc = "prove"
      BY RecordIs, Zenon DEF Skips
    <2>2. /\ c.pc = "prove" /\ c.in = me.in /\ c.i = me.i + 1
          /\ c.found = me.found /\ c.claims = me.claims /\ c.reply = me.reply
      BY ZenonT(60) DEF Skips, After
    <2>3. /\ me.in \in Inputs /\ me.claims \in Seq(Claims) /\ BySource(me.found)
          /\ BySource(me.claims) /\ me.i \in Nat \ {0} /\ Fine(me.in, me.reply)
          /\ \A m \in DOMAIN me.claims, k \in DOMAIN me.found :
                k >= me.i => me.claims[m].source <= me.found[k].source
      BY <2>1, Zenon DEF Gathered
    <2> HIDE DEF c, me
    <2>4. c.i \in Nat \ {0} /\ \A k \in DOMAIN c.found : k >= c.i => k >= me.i
      BY <2>1, <2>2, <2>3, SMTT(60)
    <2>5. Gathered(c)
      BY <2>2, <2>3, <2>4 DEF Gathered
    <2> QED BY <2>5 DEF c
  \* A candidate of an unnamed request is proved.
  <1>3. ASSUME RInv, NEW r \in Requests, Proves(r)
        PROVE  Gathered(call'[r]) /\ DOMAIN cache' = Sources /\ Cached'
    <2> USE <1>3
    <2> DEFINE me == call[r]
               c == call'[r]
               cand == me.found[me.i]
    <2>1. Gathered(me) /\ me.found \in Seq(Candidates) /\ me.pc = "prove"
      BY RecordIs, Zenon DEF Proves
    <2>2. PICK claim : claim = ClaimFor(r, cand)
      BY Zenon
    <2>3. /\ c.pc = "prove" /\ c.in = me.in /\ c.i = me.i + 1
          /\ c.found = me.found /\ c.reply = me.reply
          /\ c.claims = IF claim = NoClaim THEN me.claims ELSE Append(me.claims, claim)
          /\ me.i <= Len(me.found) /\ Provable(cand) /\ Remember(r, cand)
      BY <2>2, Zenon DEF Proves, After
    <2>4. /\ me.in \in Inputs /\ me.claims \in Seq(Claims) /\ BySource(me.found)
          /\ BySource(me.claims) /\ me.i \in Nat \ {0} /\ Fine(me.in, me.reply)
          /\ \A m \in DOMAIN me.claims, k \in DOMAIN me.found :
                k >= me.i => me.claims[m].source <= me.found[k].source
      BY <2>1, Zenon DEF Gathered
    <2>5. me.i \in DOMAIN me.found /\ cand \in Candidates
      BY <2>1, <2>3, <2>4, WithinLength, Zenon
    <2>6. DOMAIN cache' = Sources /\ Cached'
      BY <2>3, <2>5, RememberCached, Zenon
    <2>7. claim # NoClaim => claim \in Claims /\ claim.source = cand.source
      BY <2>2, <2>3, <2>5, ClaimForIs, ZenonT(60)
    <2>8. \A m \in DOMAIN me.claims : me.claims[m].source <= cand.source
      BY <2>4, <2>5
    <2>9. /\ c.claims \in Seq(Claims) /\ BySource(c.claims)
          /\ \A m \in DOMAIN c.claims : c.claims[m].source <= cand.source
      <3>1. CASE claim = NoClaim
        BY <2>3, <2>4, <2>8, <3>1, Zenon
      <3>2. CASE claim # NoClaim
        BY <2>3, <2>4, <2>7, <2>8, <3>2, AppendOrder, Zenon
      <3> QED BY <3>1, <3>2
    <2>10. ASSUME NEW m \in DOMAIN c.claims, NEW k \in DOMAIN c.found, k >= c.i
           PROVE  c.claims[m].source <= c.found[k].source
      <3>1. k \in DOMAIN me.found /\ me.i < k
        <4>1. c.found = me.found /\ c.i = me.i + 1
          BY <2>3, Zenon
        <4>2. k \in DOMAIN me.found /\ k \in Nat
          BY <2>1, <4>1
        <4>3. k >= me.i + 1 /\ me.i \in Nat
          BY <2>4, <2>10, <4>1
        <4> HIDE DEF me
        <4> QED BY <4>2, <4>3
      <3>2. cand.source <= c.found[k].source
        BY <2>3, <2>4, <2>5, <3>1, Zenon DEF BySource
      <3>3. \A x \in Candidates : x.source \in Int
        BY SourcesAssumption DEF Candidates, Sources
      <3>4. \A x \in Claims : x.source \in Int
        BY SourcesAssumption, SMTT(60) DEF Claims, Sources
      <3>5. cand.source \in Int /\ c.found[k].source \in Int
        BY <2>1, <2>3, <2>5, <3>1, <3>3, SMTT(60)
      <3>6. c.claims[m].source \in Int
        BY <2>9, <3>4
      <3>7. c.claims[m].source <= cand.source
        BY <2>9, Zenon
      <3> HIDE DEF c, cand
      <3> QED BY <3>2, <3>5, <3>6, <3>7
    <2>11. c.i \in Nat \ {0}
      BY <2>3, <2>4, SMTT(60)
    <2> HIDE DEF c, me, cand
    <2>12. Gathered(c)
      BY <2>3, <2>4, <2>9, <2>10, <2>11 DEF Gathered
    <2> QED BY <2>6, <2>12 DEF c
  \* The named identity is proved.
  <1>4. ASSUME RInv, NEW r \in Requests, Names(r)
        PROVE  Gathered(call'[r]) /\ DOMAIN cache' = Sources /\ Cached'
    <2> USE <1>4
    <2> DEFINE me == call[r]
               c == call'[r]
    <2>1. Gathered(me) /\ me.found \in Seq(Candidates) /\ me.pc \in {"prove", "prompting"}
      BY RecordIs, Zenon DEF Names
    <2>2. PICK k \in DOMAIN me.found :
            /\ Provable(me.found[k]) /\ Remember(r, me.found[k])
            /\ ClaimFor(r, me.found[k]) # NoClaim
            /\ IdOf(ClaimFor(r, me.found[k])) = me.in.selector
            /\ After(r, "respond", me.i, me.found, <<ClaimFor(r, me.found[k])>>, me.reply)
      BY Zenon DEF Names
    <2>3. me.found[k] \in Candidates
      BY <2>1
    <2>4. PICK claim : claim = ClaimFor(r, me.found[k])
      BY Zenon
    <2>5. claim \in Claims /\ IdOf(claim) = me.in.selector
      BY <2>2, <2>3, <2>4, ClaimForIs, Zenon
    <2>6. /\ c.pc = "respond" /\ c.in = me.in /\ c.found = me.found /\ c.claims = <<claim>>
          /\ c.reply = me.reply
      BY <2>2, <2>4, Zenon DEF After
    <2>7. DOMAIN cache' = Sources /\ Cached'
      BY <2>2, <2>3, RememberCached, ZenonT(60)
    <2>8. me.in \in Inputs /\ BySource(me.found) /\ Fine(me.in, me.reply)
      BY <2>1 DEF Gathered
    <2>9. <<claim>> \in Seq(Claims) /\ Len(<<claim>>) = 1 /\ <<claim>>[1] = claim
          /\ BySource(<<claim>>)
      BY <2>5, SMTT(60) DEF BySource
    <2> HIDE DEF c, me
    <2>10. Gathered(c)
      BY <2>5, <2>6, <2>8, <2>9 DEF Gathered
    <2> QED BY <2>7, <2>10 DEF c
  \* The named identity is refused.
  <1>5. ASSUME RInv, NEW r \in Requests, Refuses(r)
        PROVE  Gathered(call'[r]) /\ DOMAIN cache' = Sources /\ Cached'
    <2> USE <1>5
    <2> DEFINE me == call[r]
               c == call'[r]
    <2>1. Gathered(me) /\ me.found \in Seq(Candidates) /\ me.pc \in {"prove", "prompting"}
      BY RecordIs, Zenon DEF Refuses
    <2>2. DOMAIN cache' = Sources /\ Cached'
      <3>1. CASE cache' = cache
        BY <3>1, RecordIs DEF Cached
      <3>2. CASE \E k \in DOMAIN me.found : Provable(me.found[k]) /\ Remember(r, me.found[k])
        <4>1. PICK k \in DOMAIN me.found : Provable(me.found[k]) /\ Remember(r, me.found[k])
          BY <3>2, Zenon
        <4>2. me.found[k] \in Candidates
          BY <2>1
        <4> QED BY <4>1, <4>2, RememberCached, Zenon
      <3> QED BY <3>1, <3>2, Zenon DEF Refuses
    <2>3. /\ c.pc = "done" /\ c.in = me.in /\ c.found = me.found /\ c.claims = me.claims
          /\ c.reply = Refuse("NotFound")
      BY ZenonT(60) DEF Refuses, After
    <2>4. /\ me.in \in Inputs /\ BySource(me.found) /\ me.claims \in Seq(Claims)
          /\ BySource(me.claims)
      BY <2>1, Zenon DEF Gathered
    <2>5. Fine(c.in, c.reply)
      BY <2>3, RefusalFine, Zenon
    <2> HIDE DEF c, me
    <2>6. Gathered(c)
      BY <2>3, <2>4, <2>5 DEF Gathered
    <2> QED BY <2>2, <2>6 DEF c
  \* The steps that only move the request on.
  <1>6. ASSUME RInv, NEW r \in Requests, Finishes(r) \/ Prompts(r) \/ Cancels(r)
        PROVE  Gathered(call'[r])
    <2> USE <1>6
    <2> DEFINE me == call[r]
               c == call'[r]
    <2>1. Gathered(me) /\ me.found \in Seq(Candidates) /\ me.pc # "idle"
      BY RecordIs, Zenon DEF Finishes, Prompts, Cancels
    <2>2. /\ me.in \in Inputs /\ BySource(me.found) /\ me.claims \in Seq(Claims)
          /\ BySource(me.claims) /\ Fine(me.in, me.reply)
      BY <2>1, Zenon DEF Gathered
    <2>3. /\ c.in = me.in /\ c.found = me.found /\ c.claims = me.claims /\ c.reply = me.reply
          /\ \/ c.pc = "respond" /\ me.in.selector = NoSelector
             \/ c.pc = "prompting" /\ me.in.selector # NoSelector /\ c.i \in DOMAIN me.found
             \/ c.pc = "cancelled"
      BY Zenon DEF Finishes, Prompts, Cancels, After, Named
    <2> HIDE DEF c, me
    <2>4. Gathered(c)
      BY <2>2, <2>3 DEF Gathered
    <2> QED BY <2>4 DEF c
  \* The reply.
  <1>7. ASSUME RInv, NEW r \in Requests, Responds(r)
        PROVE  Gathered(call'[r])
    <2> USE <1>7
    <2> DEFINE me == call[r]
               c == call'[r]
    <2>1. Gathered(me) /\ clock \in Nat /\ me.pc = "respond"
      BY RecordIs, Zenon DEF Responds
    <2>2. PICK claims :
             /\ claims = IF Named(r) THEN me.claims ELSE OnePerIdentity(BestFirst(me.claims))
             /\ \E served \in {Passing(claims, me.in)} :
                   After(r, "done", me.i, me.found, me.claims, ReplyWith(me.in, served))
      BY Zenon DEF Responds
    <2>3. PICK served :
             /\ served = Passing(claims, me.in)
             /\ After(r, "done", me.i, me.found, me.claims, ReplyWith(me.in, served))
      BY <2>2, Zenon
    <2>4. /\ claims \in Seq(Claims) /\ Best(claims)
          /\ Distinct(claims)
          /\ Named(r) => Len(claims) = 1 /\ IdOf(claims[1]) = me.in.selector
      BY <2>1, <2>2, AnswerIs, ZenonT(60)
    <2>5. /\ me.in \in Inputs /\ BySource(me.found) /\ me.claims \in Seq(Claims)
          /\ BySource(me.claims)
      BY <2>1 DEF Gathered
    <2>6. /\ c.pc = "done" /\ c.in = me.in /\ c.found = me.found /\ c.claims = me.claims
          /\ c.reply = ReplyWith(me.in, served)
      BY <2>3, Zenon DEF After
    <2>7. Fine(me.in, c.reply)
      <3>1. CASE served = << >>
        <4>1. c.reply = Refuse("Unauthenticated")
          BY <2>6, <3>1, Zenon DEF ReplyWith
        <4>2. "Unauthenticated" # "Ok"
          OBVIOUS
        <4> QED BY <4>1, <4>2, RefusalFine, Zenon
      <3>2. CASE served # << >>
        <4>1. me.in.selector # NoSelector => Len(claims) = 1 /\ IdOf(claims[1]) = me.in.selector
          BY <2>4, Zenon DEF Named
        <4>2. Fine(me.in, [code |-> "Ok", svids |-> [n \in DOMAIN served |-> SvidOf(me.in, served[n])]])
          BY <2>1, <2>3, <2>4, <2>5, <3>2, <4>1, ServedFine, ZenonT(60)
        <4> QED BY <2>6, <3>2, <4>2, Zenon DEF ReplyWith
      <3> QED BY <3>1, <3>2
    <2> HIDE DEF c, me
    <2>8. Gathered(c)
      BY <2>5, <2>6, <2>7 DEF Gathered
    <2> QED BY <2>8 DEF c
  \* A step of a request that is under way.
  <1>8. ASSUME RInv, IInv', NEW r \in Requests, Moves(r), clock' = clock
        PROVE  RInv'
    <2> USE <1>8
    <2>1. \A q \in Requests : q # r => call'[q] = call[q]
      BY Zenon DEF Moves, Enumerates, Skips, Proves, Finishes, Names, Refuses, Prompts, Responds,
                   Cancels, After
    <2>2. ASSUME cache' = cache PROVE DOMAIN cache' = Sources /\ Cached'
      BY <2>2, RecordIs DEF Cached
    <2>3. CASE Enumerates(r)
      <3>1. cache' = cache
        BY <2>3, Zenon DEF Enumerates
      <3> QED BY <2>1, <2>2, <2>3, <3>1, <1>1, OneGathered, Zenon
    <2>4. CASE Skips(r)
      <3>1. cache' = cache
        BY <2>4, Zenon DEF Skips
      <3> QED BY <2>1, <2>2, <2>4, <3>1, <1>2, OneGathered, Zenon
    <2>5. CASE Proves(r)
      BY <2>1, <2>5, <1>3, OneGathered, Zenon
    <2>6. CASE Names(r)
      BY <2>1, <2>6, <1>4, OneGathered, Zenon
    <2>7. CASE Refuses(r)
      BY <2>1, <2>7, <1>5, OneGathered, Zenon
    <2>8. CASE Finishes(r) \/ Prompts(r) \/ Cancels(r)
      <3>1. cache' = cache
        BY <2>8, Zenon DEF Finishes, Prompts, Cancels
      <3> QED BY <2>1, <2>2, <2>8, <3>1, <1>6, OneGathered, Zenon
    <2>9. CASE Responds(r)
      <3>1. cache' = cache
        BY <2>9, Zenon DEF Responds
      <3> QED BY <2>1, <2>2, <2>9, <3>1, <1>7, OneGathered, Zenon
    <2> QED BY <2>3, <2>4, <2>5, <2>6, <2>7, <2>8, <2>9 DEF Moves
  \* A request arrives.
  <1>9. ASSUME RInv, IInv', NEW r \in Requests, Call(r) PROVE RInv'
    <2> USE <1>9
    <2>1. PICK in, refusal :
             /\ in \in Inputs /\ refusal \in Refusals(in)
             /\ call' = [call EXCEPT ![r] =
                   [pc |-> IF refusal = "none" THEN "enumerate" ELSE "done",
                    in |-> in, i |-> 1, found |-> << >>, claims |-> << >>,
                    reply |-> Refuse(refusal)]]
      BY ZenonT(60) DEF Call
    <2> DEFINE c == [pc |-> IF refusal = "none" THEN "enumerate" ELSE "done",
                     in |-> in, i |-> 1, found |-> << >>, claims |-> << >>,
                     reply |-> Refuse(refusal)]
    <2>2. /\ call'[r] = c /\ \A q \in Requests : q # r => call'[q] = call[q]
      BY <2>1 DEF RInv, IInv
    <2>3. /\ c.in = in /\ c.i = 1 /\ c.found = << >> /\ c.claims = << >>
          /\ c.pc \in {"enumerate", "done"} /\ c.reply = Refuse(refusal)
      BY DEF c
    <2>4. refusal # "Ok"
      BY <2>1 DEF Refusals, EarlyRefusal
    <2>5. Fine(in, c.reply)
      BY <2>3, <2>4, RefusalFine, Zenon
    <2> HIDE DEF c
    <2>6. Gathered(c)
      BY <2>1, <2>3, <2>5, EmptyOrder DEF Gathered
    <2>7. clock' = clock /\ cache' = cache
      BY Zenon DEF Call, world
    <2>8. DOMAIN cache' = Sources /\ Cached'
      BY <2>7, RecordIs, Zenon DEF Cached
    <2> QED BY <2>2, <2>6, <2>7, <2>8, OneGathered, Zenon
  \* Sources and clock change.
  <1>10. ASSUME RInv, IInv', Change PROVE RInv'
    <2> USE <1>10
    <2>1. call' = call /\ cache' = cache
      BY DEF Change
    <2>2. clock' \in Nat
      <3>1. clock' = clock \/ clock' \in 0..MaxClock
        BY Zenon DEF Change, Relist, ChangeStatus, MoveClock
      <3> QED BY <3>1, BoundsAssumption DEF RInv
    <2>3. DOMAIN cache = Sources /\ Cached /\ \A r \in Requests : Gathered(call[r])
      BY Zenon DEF RInv
    <2>4. DOMAIN cache' = Sources /\ Cached'
      BY <2>1, <2>3 DEF Cached
    <2>5. (\A r \in Requests : Gathered(call[r]))'
      BY <2>1, <2>3, Zenon
    <2> QED BY <2>2, <2>4, <2>5, Zenon DEF RInv
  <1> SUFFICES ASSUME RInv, [Next]_vars PROVE RInv'
    OBVIOUS
  <1>11. IInv'
    BY NextIInv DEF RInv
  <1>12. CASE Change
    BY <1>11, <1>12, <1>10
  <1>13. ASSUME NEW r \in Requests, Call(r) PROVE RInv'
    BY <1>11, <1>13, <1>9
  <1>14. ASSUME NEW r \in Requests, Serve(r) \/ Answer(r) \/ Cancel(r) PROVE RInv'
    <2>1. Moves(r) /\ clock' = clock
      BY <1>14, StepMoves, Zenon DEF world
    <2> QED BY <1>11, <2>1, <1>8
  <1>15. CASE UNCHANGED vars
    <2>1. call' = call /\ cache' = cache /\ clock' = clock
      BY <1>15 DEF vars, world
    <2>2. (\A r \in Requests : Gathered(call[r]))'
      BY <2>1, Zenon DEF RInv
    <2>3. DOMAIN cache' = Sources /\ Cached' /\ clock' \in Nat
      BY <2>1 DEF RInv, Cached
    <2> QED BY <1>11, <2>2, <2>3, Zenon DEF RInv
  <1> QED BY <1>12, <1>13, <1>14, <1>15, Zenon DEF Next

\* It holds throughout.
LEMMA RInvariance == Spec => []RInv
  BY InitRInv, NextRInv, PTL DEF Spec

\* Every token of every reply meets the presence level and the age bound of each
\* audience the caller listed, although the service folds the list into one
\* requirement (issue() in service.rs).
THEOREM AudiencesMet == Spec => []EveryAudienceMet
  <1>1. RInv => EveryAudienceMet
    <2> SUFFICES ASSUME RInv, NEW r \in Requests, NEW svid \in Range(call[r].reply.svids),
                        NEW a \in Range(call[r].in.audiences)
                 PROVE  /\ svid.presence >= a.presence
                        /\ \A bound \in a.maxAge : svid.age # NoAge /\ svid.age < bound
      BY Zenon DEF EveryAudienceMet
    <2>1. PICK n \in DOMAIN call[r].reply.svids : svid = call[r].reply.svids[n]
      BY Zenon DEF Range
    <2>2. Met(call[r].in, call[r].reply.svids)
      BY Zenon DEF RInv, Gathered, Fine
    <2> QED BY <2>1, <2>2, Zenon DEF Met
  <1> QED BY <1>1, RInvariance, PTL

\* A caller that names an identity is answered with one token, for that identity,
\* or refused, whichever source turns up a candidate with its path.
THEOREM NamedOnly == Spec => []NamedGetsOnlyNamed
  <1>1. RInv => NamedGetsOnlyNamed
    BY Zenon DEF RInv, Gathered, Fine, OnlyNamed, NamedGetsOnlyNamed, Named
  <1> QED BY <1>1, RInvariance, PTL

\* A reply has every identity once, the best assurance first, and among equals
\* the source registered first: what the stable sort and the retain of
\* fetch_jwtsvid leave of claims gathered over many awaits.
THEOREM RepliesOrdered == Spec => []OrderedReply
  <1>1. RInv => OrderedReply
    BY Zenon DEF RInv, Gathered, Fine, Ordered, OrderedReply
  <1> QED BY <1>1, RInvariance, PTL
=============================================================================
