--------------------------- MODULE HoldingsProofs ---------------------------
(***************************************************************************)
(* What the sources of FetchJWTSVID hold and what a request claims: an      *)
(* unnamed reply leaves nothing out (KInv), and a claim is proved by the    *)
(* request it is made for (PInv).                                           *)
(***************************************************************************)
EXTENDS WorkloadApiProofs

-----------------------------------------------------------------------------
(* What an unnamed reply leaves out.                                        *)

\* The sources of the registry keep no proof.
NoCaching == \A s \in Sources : ~Attestors[s].caches

\* A source that proves without a human.
Proving(s) == Attestors[s].cost = "Silent" /\ Attestors[s].evidence # "none"

IdAt(s, path) == [domain |-> Attestors[s].domain, path |-> path]

CandidateFor(h) == [source |-> h.source, path |-> h.path, domain |-> Attestors[h.source].domain]

\* An identity its source holds and would prove now.
Holding(h) ==
    /\ h.source \in Sources /\ h = [source |-> h.source, path |-> h.path]
    /\ status[h.source] = "up" /\ h.path \in Range(holds[h.source])

\* What was held all along is enumerated, proved, and served.
Kept1(c, held) ==
    /\ c.pc = "enumerate" =>
          \A h \in held : h.source < c.i => CandidateFor(h) \in Range(c.found)
    /\ c.pc = "prove" => \A h \in held : CandidateFor(h) \in Range(c.found)
    /\ c.pc = "prove" /\ c.in.selector = NoSelector =>
          \A h \in held : \A k \in DOMAIN c.found :
              k < c.i /\ c.found[k] = CandidateFor(h) /\ Proving(h.source)
                  => \E n \in DOMAIN c.claims : IdOf(c.claims[n]) = IdAt(h.source, h.path)
    /\ c.pc = "respond" /\ c.in.selector = NoSelector =>
          \A h \in held : Proving(h.source)
              => \E n \in DOMAIN c.claims : IdOf(c.claims[n]) = IdAt(h.source, h.path)
    /\ /\ c.pc = "done" /\ EarlyRefusal(c.in) = "none" /\ c.in.selector = NoSelector
       /\ c.reply.code # "Internal"
       /\ \A a \in Range(c.in.audiences) : a.presence = PresenceNone /\ a.maxAge = {}
       => \A h \in held : Proving(h.source)
             => \E svid \in Range(c.reply.svids) :
                   svid.id = Pseudonym(c.in.consumer, IdAt(h.source, h.path))

\* The inductive invariant of complete replies.
KInv ==
    /\ RInv
    /\ \A s \in Sources : cache[s] = << >>
    /\ DOMAIN status = Sources /\ DOMAIN steady = Requests
    /\ \A r \in Requests : /\ \A h \in steady[r] : Holding(h)
                           /\ Kept1(call[r], steady[r])

\* A candidate whose source has no proof to replay is claimed as of now.
LEMMA FreshClaim ==
    ASSUME RInv, NEW r \in Requests, NEW c \in Candidates, Provable(c),
           cache[c.source] = << >>
    PROVE  ClaimFor(r, c) # NoClaim /\ ClaimFor(r, c).attestedAt = clock
  <1> DEFINE s == c.source
             kind == Attestors[s].evidence
  <1>1. PICK e \in Evidence : EvidenceFor(r, c) = <<e>>
    BY OneEvidence, Zenon
  <1>2. e = IF kind = "Possession" THEN Signed(r) ELSE Asserted(kind, c)
    BY <1>1 DEF EvidenceFor
  <1>3. BindsTo(e, c, r) /\ e.at = clock
    BY <1>2 DEF BindsTo, Signed, Asserted
  <1>4. ClaimFor(r, c) = ClaimOf(c, e) /\ ClaimOf(c, e) # NoClaim
    BY <1>1, <1>3, DeriveOne, Zenon DEF ClaimFor
  <1>5. ClaimOf(c, e).attestedAt = e.at
    BY DEF ClaimOf
  <1> QED BY <1>3, <1>4, <1>5

\* What a source holds is among the candidates once it is enumerated.
LEMMA EnumerateFinds ==
    ASSUME RInv, NEW s \in Sources, NEW found \in Seq(Candidates)
    PROVE  /\ Range(found) \subseteq Range(found \o Listed(s))
           /\ \A h : Holding(h) /\ h.source = s => CandidateFor(h) \in Range(found \o Listed(s))
  <1>1. PICK new, u : new = Listed(s) /\ u = found \o new
    BY Zenon
  <1>2. holds[s] \in Seq(STRING)
    BY DEF RInv, IInv
  <1> DEFINE a == Len(found)
             b == Len(holds[s])
  <1>3. /\ a \in Nat /\ b \in Nat /\ DOMAIN found = 1..a /\ DOMAIN holds[s] = 1..b
    BY <1>2
  <1>4. \A n \in 1..b : new[n] = [source |-> s, path |-> holds[s][n],
                                  domain |-> Attestors[s].domain]
    BY <1>1, ListedIs, Zenon
  <1>5. new \in Seq(Candidates) /\ Len(new) = b
    BY <1>1, ListedIs, Zenon
  <1>6. /\ DOMAIN u = 1..(a + b)
        /\ \A k \in 1..a : u[k] = found[k]
        /\ \A k \in 1..b : u[a + k] = new[k]
    <2>1. Joined(found, new, u)
      BY <1>1, <1>5, JoinedIs, Zenon
    <2> QED BY <1>5, <2>1, Zenon DEF Joined
  <1> HIDE DEF a, b
  <1>7. /\ \A k \in 1..a : k \in 1..(a + b)
        /\ \A k \in 1..b : a + k \in 1..(a + b)
    BY <1>3
  <1>8. Range(found) \subseteq Range(u)
    BY <1>3, <1>6, <1>7 DEF Range
  <1>9. ASSUME NEW h, Holding(h), h.source = s PROVE CandidateFor(h) \in Range(u)
    <2>1. PICK n \in 1..b : holds[s][n] = h.path
      BY <1>3, <1>9 DEF Holding, Range
    <2>2. u[a + n] = CandidateFor(h)
      BY <1>4, <1>6, <1>9, <2>1, ZenonT(60) DEF CandidateFor
    <2> QED BY <1>6, <1>7, <2>2 DEF Range
  <1> QED BY <1>1, <1>8, <1>9, Zenon

\* Fewer identities held make no new demand.
LEMMA FewerKept ==
    ASSUME NEW c, NEW held, NEW fewer, fewer \subseteq held, Kept1(c, held)
    PROVE  Kept1(c, fewer)
  BY Zenon DEF Kept1

\* Where nothing is demanded of a request's record.
LEMMA NothingKept ==
    ASSUME NEW c, NEW held,
           \/ c.pc \in {"idle", "prompting", "cancelled"}
           \/ c.pc \in {"respond", "done"} /\ c.in.selector # NoSelector
    PROVE  Kept1(c, held)
  BY DEF Kept1

\* Facts about one request.
LEMMA KeptIsOf ==
    ASSUME KInv, NEW r \in Requests
    PROVE  /\ RInv /\ Kept1(call[r], steady[r]) /\ Gathered(call[r])
           /\ call[r].found \in Seq(Candidates)
           /\ call[r].pc = "enumerate" => call[r].i \in Sources
           /\ \A h \in steady[r] : Holding(h)
  BY RecordIs, Zenon DEF KInv

\* A held identity is a provable candidate, if its source proves at all.
LEMMA HeldProvable ==
    ASSUME NEW h, Holding(h), Proving(h.source)
    PROVE  /\ Provable(CandidateFor(h)) /\ ConsentGate(Attestors[CandidateFor(h).source])
           /\ CandidateFor(h).source = h.source /\ CandidateFor(h).path = h.path
           /\ CandidateFor(h).domain = Attestors[h.source].domain
  BY DEF Holding, Proving, Provable, CandidateFor, ConsentGate

\* Before the first request.
LEMMA InitKInv == Init => KInv
  <1> SUFFICES ASSUME Init PROVE KInv
    OBVIOUS
  <1>1. RInv
    BY InitRInv
  <1>2. /\ \A s \in Sources : cache[s] = << >>
        /\ DOMAIN status = Sources /\ DOMAIN steady = Requests
        /\ \A r \in Requests : steady[r] = {} /\ call[r].pc = "idle"
    BY DEF Init, Idle
  <1>3. \A r \in Requests : Kept1(call[r], steady[r])
    BY <1>2, NothingKept
  <1> QED BY <1>1, <1>2, <1>3 DEF KInv

\* A step of one request, nothing else having changed.
LEMMA OneKept ==
    ASSUME KInv, RInv', NEW r \in Requests, NEW held,
           holds' = holds, status' = status, cache' = cache,
           \A q \in Requests : q # r => call'[q] = call[q],
           DOMAIN steady' = Requests, steady'[r] = held,
           \A q \in Requests : q # r => steady'[q] = steady[q],
           \A h \in held : Holding(h), Kept1(call'[r], held)
    PROVE  KInv'
  <1>1. /\ DOMAIN status' = Sources /\ DOMAIN steady' = Requests
        /\ \A s \in Sources : cache'[s] = << >>
        /\ steady'[r] = held /\ \A q \in Requests : q # r => steady'[q] = steady[q]
    BY DEF KInv
  <1>2. \A h : Holding(h) => Holding(h)'
    BY DEF Holding
  <1>3. \A q \in Requests : (\A h \in steady[q] : Holding(h)) /\ Kept1(call[q], steady[q])
    BY DEF KInv
  <1>4. ASSUME NEW q \in Requests
        PROVE  (\A h \in steady'[q] : Holding(h)') /\ Kept1(call'[q], steady'[q])
    <2>1. CASE q = r
      BY <1>1, <1>2, <2>1
    <2>2. CASE q # r
      <3>1. steady'[q] = steady[q] /\ call'[q] = call[q]
        BY <1>1, <2>2
      <3> QED BY <1>2, <1>3, <3>1, SMTT(60)
    <2> QED BY <2>1, <2>2
  <1>5. (\A q \in Requests : /\ \A h \in steady[q] : Holding(h)
                             /\ Kept1(call[q], steady[q]))'
    BY <1>4, Zenon
  <1> QED BY <1>1, <1>5, Zenon DEF KInv

\* Sources that keep no proof leave the cache empty.
LEMMA RemembersNothing ==
    ASSUME NoCaching, RInv, NEW r \in Requests, NEW k \in DOMAIN call[r].found,
           Remember(r, call[r].found[k])
    PROVE  cache' = cache
  <1>1. call[r].found[k] \in Candidates
    BY RecordIs
  <1>2. ~Attestors[call[r].found[k].source].caches
    BY <1>1 DEF NoCaching, Candidates
  <1> QED BY <1>2 DEF Remember

\* Every step keeps the invariant.
LEMMA NextKInv == ASSUME NoCaching PROVE KInv /\ [Next]_vars => KInv'
  \* The next source is enumerated.
  <1>1. ASSUME KInv, NEW r \in Requests, Enumerates(r)
        PROVE  Kept1(call'[r], steady[r])
    <2> USE <1>1
    <2> DEFINE me == call[r]
               c == call'[r]
               held == steady[r]
               last == me.i = Len(Attestors)
    <2>1. /\ RInv /\ Kept1(me, held) /\ me.found \in Seq(Candidates) /\ me.i \in Sources
          /\ me.pc = "enumerate" /\ \A h \in held : Holding(h)
      BY KeptIsOf, Zenon DEF Enumerates
    <2>2. /\ c.pc = IF last THEN "prove" ELSE "enumerate"
          /\ c.i = IF last THEN 1 ELSE me.i + 1
          /\ c.found = IF status[me.i] = "down" THEN me.found ELSE me.found \o Listed(me.i)
      BY Zenon DEF Enumerates, After
    <2>3. ASSUME NEW h \in held, h.source <= me.i PROVE CandidateFor(h) \in Range(c.found)
      <3>1. Range(me.found) \subseteq Range(c.found)
        <4>1. CASE c.found = me.found
          BY <4>1
        <4>2. CASE c.found = me.found \o Listed(me.i)
          BY <2>1, <4>2, EnumerateFinds, Zenon
        <4> QED BY <2>2, <4>1, <4>2, Zenon
      <3>2. h.source \in Int /\ me.i \in Int
        BY <2>1, SourcesAssumption DEF Holding, Sources
      <3>3. CASE h.source < me.i
        <4>1. CandidateFor(h) \in Range(me.found)
          BY <2>1, <3>3, Zenon DEF Kept1
        <4> QED BY <3>1, <4>1
      <3>4. CASE h.source = me.i
        <4>1. Holding(h) /\ status[me.i] # "down"
          BY <2>1, <3>4 DEF Holding
        <4>2. c.found = me.found \o Listed(me.i)
          BY <2>2, <4>1, Zenon
        <4> QED BY <2>1, <3>4, <4>1, <4>2, EnumerateFinds, Zenon
      <3> QED BY <2>3, <3>2, <3>3, <3>4, SMTT(60)
    <2>4. \A h \in held : h.source \in Int /\ h.source <= Len(Attestors)
      BY <2>1, SourcesAssumption DEF Holding, Sources
    <2>5. me.i \in Int /\ \A k \in DOMAIN c.found : ~(k < 1)
      <3>1. me.i \in Int
        BY <2>1, SourcesAssumption DEF Sources
      <3>2. c.found = me.found \/ c.found = me.found \o Listed(me.i)
        BY <2>2, Zenon
      <3>4. me.found \o Listed(me.i) \in Seq(Candidates)
        <4>1. holds[me.i] \in Seq(STRING)
          BY <2>1 DEF RInv, IInv
        <4> QED BY <2>1, <4>1, Enumerated, Zenon DEF Listed
      <3>5. c.found \in Seq(Candidates)
        BY <2>1, <3>2, <3>4, Zenon
      <3> QED BY <3>1, <3>5
    <2> HIDE DEF c, me, held, last
    <2>6. CASE last
      <3>1. c.pc = "prove" /\ c.i = 1
        BY <2>2, <2>6
      <3>2. \A h \in held : CandidateFor(h) \in Range(c.found)
        BY <2>3, <2>4, <2>6, Zenon DEF last
      <3> QED BY <2>5, <3>1, <3>2 DEF Kept1, c, held
    <2>7. CASE ~last
      <3>1. c.pc = "enumerate" /\ c.i = me.i + 1
        BY <2>2, <2>7
      <3>2. \A h \in held : h.source < c.i => h.source <= me.i
        BY <2>4, <2>5, <3>1
      <3> QED BY <2>3, <3>1, <3>2, Zenon DEF Kept1, c, held
    <2> QED BY <2>6, <2>7
  \* A candidate that is skipped was not held all along, or not to be proved.
  <1>2. ASSUME KInv, NEW r \in Requests, Skips(r)
        PROVE  Kept1(call'[r], steady[r])
    <2> USE <1>2
    <2> DEFINE me == call[r]
               c == call'[r]
               held == steady[r]
    <2>1. /\ Kept1(me, held) /\ Gathered(me) /\ me.found \in Seq(Candidates)
          /\ me.pc = "prove" /\ \A h \in held : Holding(h)
      BY KeptIsOf, Zenon DEF Skips
    <2>2. /\ c.pc = "prove" /\ c.in = me.in /\ c.i = me.i + 1
          /\ c.found = me.found /\ c.claims = me.claims
          /\ me.in.selector = NoSelector /\ me.i <= Len(me.found)
          /\ \/ ~ConsentGate(Attestors[me.found[me.i].source])
             \/ ~Provable(me.found[me.i])
      BY Zenon DEF Skips, After, Named
    <2>3. me.i \in Nat \ {0}
      BY <2>1 DEF Gathered
    <2>4. \A h \in held : CandidateFor(h) \in Range(c.found)
      BY <2>1, <2>2, Zenon DEF Kept1
    <2>5. ASSUME NEW h \in held, NEW k \in DOMAIN c.found, k < c.i,
                 c.found[k] = CandidateFor(h), Proving(h.source)
          PROVE  \E n \in DOMAIN c.claims : IdOf(c.claims[n]) = IdAt(h.source, h.path)
      <3>1. k # me.i
        BY <2>1, <2>2, <2>5, HeldProvable, ZenonT(60)
      <3>2. k < me.i /\ k \in DOMAIN me.found
        BY <2>1, <2>2, <2>3, <2>5, <3>1, SMTT(60)
      <3> QED BY <2>1, <2>2, <2>5, <3>2, ZenonT(60) DEF Kept1
    <2> HIDE DEF c, me, held
    <2>6. Kept1(c, held)
      BY <2>2, <2>4, <2>5 DEF Kept1
    <2> QED BY <2>6 DEF c, held
  \* A candidate that was held all along is proved when it is tried.
  <1>3. ASSUME KInv, NEW r \in Requests, Proves(r)
        PROVE  Kept1(call'[r], steady[r])
    <2> USE <1>3
    <2> DEFINE me == call[r]
               c == call'[r]
               held == steady[r]
               cand == me.found[me.i]
    <2>1. /\ RInv /\ Kept1(me, held) /\ Gathered(me) /\ me.found \in Seq(Candidates)
          /\ me.pc = "prove" /\ \A h \in held : Holding(h)
      BY KeptIsOf, Zenon DEF Proves
    <2>2. PICK claim : claim = ClaimFor(r, cand)
      BY Zenon
    <2>3. /\ c.pc = "prove" /\ c.in = me.in /\ c.i = me.i + 1 /\ c.found = me.found
          /\ c.claims = IF claim = NoClaim THEN me.claims ELSE Append(me.claims, claim)
          /\ me.in.selector = NoSelector /\ me.i <= Len(me.found) /\ Provable(cand)
      BY <2>2, Zenon DEF Proves, After, Named
    <2>4. me.i \in Nat \ {0} /\ me.claims \in Seq(Claims)
      BY <2>1, Zenon DEF Gathered
    <2>5. me.i \in DOMAIN me.found /\ cand \in Candidates
      BY <2>1, <2>3, <2>4, SMTT(60)
    <2>6. cache[cand.source] = << >>
      BY <2>5 DEF KInv, Candidates
    <2>7. claim # NoClaim
      BY <2>1, <2>2, <2>3, <2>5, <2>6, FreshClaim, Zenon
    <2>8. IdOf(claim) = [domain |-> cand.domain, path |-> cand.path]
      BY <2>1, <2>2, <2>3, <2>5, <2>7, ClaimForIs, Zenon DEF IdOf
    <2> DEFINE a == Len(me.claims)
    <2>9. /\ a \in Nat /\ DOMAIN me.claims = 1..a /\ DOMAIN c.claims = 1..(a + 1)
          /\ c.claims[a + 1] = claim /\ \A n \in 1..a : c.claims[n] = me.claims[n]
      BY <2>3, <2>4, <2>7, SMTT(60)
    <2> HIDE DEF a
    <2>10. a + 1 \in 1..(a + 1) /\ \A n \in 1..a : n \in 1..(a + 1)
      BY <2>9
    <2>11. \A h \in held : CandidateFor(h) \in Range(c.found)
      BY <2>1, <2>3, Zenon DEF Kept1
    <2>12. ASSUME NEW h \in held, NEW k \in DOMAIN c.found, k < c.i,
                 c.found[k] = CandidateFor(h), Proving(h.source)
          PROVE  \E n \in DOMAIN c.claims : IdOf(c.claims[n]) = IdAt(h.source, h.path)
      <3>1. CASE k = me.i
        <4>1. cand = CandidateFor(h)
          BY <2>3, <2>12, <3>1, Zenon
        <4>2. IdOf(claim) = IdAt(h.source, h.path)
          BY <2>8, <4>1 DEF CandidateFor, IdAt
        <4> QED BY <2>9, <2>10, <4>2, ZenonT(60)
      <3>2. CASE k # me.i
        <4>1. k < me.i /\ k \in DOMAIN me.found
          BY <2>1, <2>3, <2>4, <2>12, <3>2, SMTT(60)
        <4>2. PICK n \in DOMAIN me.claims : IdOf(me.claims[n]) = IdAt(h.source, h.path)
          BY <2>1, <2>3, <2>12, <4>1, Zenon DEF Kept1
        <4>3. n \in DOMAIN c.claims /\ c.claims[n] = me.claims[n]
          BY <2>9, <2>10, ZenonT(60)
        <4> QED BY <4>2, <4>3, Zenon
      <3> QED BY <3>1, <3>2
    <2> HIDE DEF c, me, held
    <2>13. Kept1(c, held)
      BY <2>3, <2>11, <2>12 DEF Kept1
    <2> QED BY <2>13 DEF c, held
  \* All candidates have been tried.
  <1>4. ASSUME KInv, NEW r \in Requests, Finishes(r)
        PROVE  Kept1(call'[r], steady[r])
    <2> USE <1>4
    <2> DEFINE me == call[r]
               c == call'[r]
               held == steady[r]
    <2>1. /\ Kept1(me, held) /\ Gathered(me) /\ me.found \in Seq(Candidates) /\ me.pc = "prove"
      BY KeptIsOf, Zenon DEF Finishes
    <2>2. /\ c.pc = "respond" /\ c.in = me.in /\ c.claims = me.claims
          /\ me.in.selector = NoSelector /\ me.i > Len(me.found)
      BY Zenon DEF Finishes, After, Named
    <2>3. me.i \in Nat
      BY <2>1 DEF Gathered
    <2>4. \A k \in DOMAIN me.found : k < me.i
      BY <2>1, <2>2, <2>3
    <2>5. ASSUME NEW h \in held, Proving(h.source)
          PROVE  \E n \in DOMAIN c.claims : IdOf(c.claims[n]) = IdAt(h.source, h.path)
      <3>1. CandidateFor(h) \in Range(me.found)
        BY <2>1, Zenon DEF Kept1
      <3>2. PICK k \in DOMAIN me.found : me.found[k] = CandidateFor(h)
        BY <3>1, Zenon DEF Range
      <3> QED BY <2>1, <2>2, <2>4, <2>5, <3>2, Zenon DEF Kept1
    <2> HIDE DEF c, me, held
    <2>6. Kept1(c, held)
      BY <2>2, <2>5, Zenon DEF Kept1
    <2> QED BY <2>6 DEF c, held
  \* A reply to a caller who demands nothing has a token for every claimed identity.
  <1>5. ASSUME KInv, NEW r \in Requests, Responds(r)
        PROVE  Kept1(call'[r], steady[r])
    <2> USE <1>5
    <2> DEFINE me == call[r]
               c == call'[r]
               held == steady[r]
    <2>1. RInv /\ Kept1(me, held) /\ Gathered(me) /\ clock \in Nat /\ me.pc = "respond"
      BY KeptIsOf, RecordIs, Zenon DEF Responds
    <2>2. PICK claims :
             /\ claims = IF Named(r) THEN me.claims ELSE OnePerIdentity(BestFirst(me.claims))
             /\ \E served \in {Passing(claims, me.in)} :
                   After(r, "done", me.i, me.found, me.claims, ReplyWith(me.in, served))
      BY Zenon DEF Responds
    <2>3. PICK served :
             /\ served = Passing(claims, me.in)
             /\ After(r, "done", me.i, me.found, me.claims, ReplyWith(me.in, served))
      BY <2>2, Zenon
    <2>4. c.pc = "done" /\ c.in = me.in /\ c.reply = ReplyWith(me.in, served)
      BY <2>3, Zenon DEF After
    <2>5. claims \in Seq(Claims) /\ (~Named(r) => Covers(me.claims, claims))
      BY <2>1, <2>2, AnswerIs, Zenon
    <2>6. me.in \in Inputs
      BY <2>1 DEF Gathered
    <2>7. ASSUME c.in.selector = NoSelector,
                 \A a \in Range(c.in.audiences) : a.presence = PresenceNone /\ a.maxAge = {},
                 NEW h \in held, Proving(h.source)
          PROVE  \E svid \in Range(c.reply.svids) :
                     svid.id = Pseudonym(c.in.consumer, IdAt(h.source, h.path))
      <3> DEFINE P == {j \in DOMAIN claims :
                          Issuable(claims[j], me.in.audiences, clock, PresenceTtl)}
      <3>1. PICK n \in DOMAIN me.claims : IdOf(me.claims[n]) = IdAt(h.source, h.path)
        BY <2>1, <2>4, <2>7, Zenon DEF Kept1
      <3>2. PICK m \in DOMAIN claims : IdOf(claims[m]) = IdAt(h.source, h.path)
        BY <2>4, <2>5, <2>7, <3>1, Zenon DEF Covers, Named
      <3>3. claims[m] \in Claims
        BY <2>5
      <3>4. me.in.audiences
               \in Seq([presence : PresenceLevels, maxAge : SUBSET Nat, valid : BOOLEAN])
        BY <2>6, InputsAssumption, Zenon
      <3>5. m \in P
        BY <2>1, <2>4, <2>7, <3>3, <3>4, IssuableFreely, Zenon
      <3>6. Thins(claims, P, served)
        BY <2>3, <2>5, RetainSorted, Zenon DEF Passing
      <3>7. PICK l \in DOMAIN served : served[l] = claims[m]
        BY <3>5, <3>6, Zenon DEF Thins
      <3> DEFINE svids == [j \in DOMAIN served |-> SvidOf(me.in, served[j])]
      <3>8. served # << >>
        BY <3>7
      <3>9. c.reply = [code |-> "Ok", svids |-> svids]
        BY <2>4, <3>8, Zenon DEF ReplyWith
      <3>10. c.reply.svids = svids
        BY <3>9, SMTT(60)
      <3>11. svids[l].id = Pseudonym(me.in.consumer, IdAt(h.source, h.path))
        BY <3>2, <3>7 DEF SvidOf
      <3>12. svids[l] \in Range(svids)
        BY DEF Range
      <3> HIDE DEF svids
      <3> QED BY <2>4, <3>10, <3>11, <3>12, Zenon
    <2> HIDE DEF c, me, held
    <2>8. Kept1(c, held)
      BY <2>4, <2>7 DEF Kept1
    <2> QED BY <2>8 DEF c, held
  \* A step of a request that is under way.
  <1>6. ASSUME NoCaching, KInv, RInv', NEW r \in Requests, Moves(r), UNCHANGED <<world, steady>>
        PROVE  KInv'
    <2> USE <1>6
    <2>1. /\ \A q \in Requests : q # r => call'[q] = call[q]
      BY Zenon DEF Moves, Enumerates, Skips, Proves, Finishes, Names, Refuses, Prompts, Responds,
                   Cancels, After
    <2>2. RInv /\ DOMAIN steady = Requests /\ (\A h \in steady[r] : Holding(h))
      BY Zenon DEF KInv
    <2>3. holds' = holds /\ status' = status /\ steady' = steady
      BY DEF world
    <2>4. cache' = cache
      <3>1. CASE Proves(r)
        <4>1. /\ call[r].i <= Len(call[r].found) /\ Remember(r, call[r].found[call[r].i])
              /\ call[r].pc = "prove"
          BY <3>1, Zenon DEF Proves
        <4>2. call[r].i \in Nat \ {0} /\ call[r].found \in Seq(Candidates)
          BY <2>2, <4>1, RecordIs, Zenon DEF Gathered
        <4>3. call[r].i \in DOMAIN call[r].found
          BY <4>1, <4>2
        <4> QED BY <2>2, <4>1, <4>3, RemembersNothing, SMTT(60)
      <3>2. CASE \E k \in DOMAIN call[r].found : Remember(r, call[r].found[k])
        BY <2>2, <3>2, RemembersNothing, Zenon
      <3>3. Proves(r) \/ cache' = cache \/ \E k \in DOMAIN call[r].found : Remember(r, call[r].found[k])
        BY Zenon DEF Moves, Enumerates, Skips, Finishes, Names, Refuses, Prompts, Responds, Cancels
      <3> QED BY <3>1, <3>2, <3>3
    <2>5. Kept1(call'[r], steady[r])
      <3>1. CASE Enumerates(r) \/ Skips(r) \/ Proves(r) \/ Finishes(r) \/ Responds(r)
        BY <3>1, <1>1, <1>2, <1>3, <1>4, <1>5, Zenon
      <3>2. CASE Names(r) \/ Refuses(r) \/ Prompts(r) \/ Cancels(r)
        <4> DEFINE c == call'[r]
        <4>1. \/ c.pc \in {"prompting", "cancelled"}
              \/ c.pc \in {"respond", "done"} /\ c.in.selector # NoSelector
          BY <3>2, Zenon DEF Names, Refuses, Prompts, Cancels, After, Named
        <4> QED BY <4>1, NothingKept
      <3> QED BY <3>1, <3>2 DEF Moves
    <2> QED BY <2>1, <2>2, <2>3, <2>4, <2>5, OneKept, Zenon
  \* A request arrives, and what is held now is what it may count on.
  <1>7. ASSUME KInv, RInv', NEW r \in Requests, Call(r) PROVE KInv'
    <2> USE <1>7
    <2>1. PICK in, refusal :
             /\ in \in Inputs /\ refusal \in Refusals(in)
             /\ call' = [call EXCEPT ![r] =
                   [pc |-> IF refusal = "none" THEN "enumerate" ELSE "done",
                    in |-> in, i |-> 1, found |-> << >>, claims |-> << >>,
                    reply |-> Refuse(refusal)]]
      BY Zenon DEF Call
    <2> DEFINE c == [pc |-> IF refusal = "none" THEN "enumerate" ELSE "done",
                     in |-> in, i |-> 1, found |-> << >>, claims |-> << >>,
                     reply |-> Refuse(refusal)]
               held == UNION {Held(s) : s \in Sources}
    <2>2. /\ call'[r] = c /\ \A q \in Requests : q # r => call'[q] = call[q]
      BY <2>1 DEF KInv, RInv, IInv
    <2>3. /\ c.in = in /\ c.i = 1
          /\ c.pc = IF refusal = "none" THEN "enumerate" ELSE "done"
      BY DEF c
    <2>9. EarlyRefusal(in) = "none" /\ c.pc = "done" => c.reply.code = "Internal"
      <3>1. c.reply.code = refusal
        BY DEF c, Refuse
      <3> QED BY <2>1, <2>3, <3>1 DEF Refusals
    <2>4. \A h \in held : Holding(h)
      BY DEF Held, Holding
    <2>5. \A h \in held : ~(h.source < 1)
      BY <2>4, SourcesAssumption DEF Holding, Sources
    <2> HIDE DEF c, held
    <2>6. Kept1(c, held)
      BY <2>3, <2>5, <2>9 DEF Kept1
    <2>7. /\ holds' = holds /\ status' = status /\ cache' = cache
          /\ steady' = [steady EXCEPT ![r] = held]
      BY Zenon DEF Call, world, held
    <2>8. /\ DOMAIN steady' = Requests /\ steady'[r] = held
          /\ \A q \in Requests : q # r => steady'[q] = steady[q]
      BY <2>7 DEF KInv
    <2> QED BY <2>2, <2>4, <2>6, <2>7, <2>8, OneKept, Zenon
  \* Sources and clock change: what is no longer held is no longer counted on.
  <1>8. ASSUME KInv, RInv', Change PROVE KInv'
    <2> USE <1>8
    <2>1. call' = call /\ cache' = cache
      BY DEF Change
    <2>2. /\ DOMAIN status' = Sources /\ DOMAIN steady' = Requests
          /\ \A r \in Requests : /\ steady'[r] \subseteq steady[r]
                                 /\ \A h \in steady'[r] : Holding(h)'
      <3>1. CASE MoveClock
        <4>1. holds' = holds /\ status' = status /\ steady' = steady
          BY <3>1 DEF MoveClock
        <4> QED BY <4>1, Zenon DEF KInv, Holding
      <3>2. ASSUME NEW s \in Sources, Relist(s) \/ ChangeStatus(s)
            PROVE  /\ DOMAIN status' = Sources /\ DOMAIN steady' = Requests
                   /\ \A r \in Requests : /\ steady'[r] \subseteq steady[r]
                                          /\ \A h \in steady'[r] : Holding(h)'
        <4>1. StillSteady(s, Held(s)')
          BY <3>2, Zenon DEF Relist, ChangeStatus
        <4>2. /\ DOMAIN steady' = Requests
              /\ \A r \in Requests : steady'[r] = {h \in steady[r] : h.source = s => h \in Held(s)'}
          BY <4>1 DEF StillSteady
        <4>3. DOMAIN holds = Sources /\ DOMAIN status = Sources
          BY Zenon DEF KInv, RInv, IInv
        <4>4. /\ DOMAIN status' = Sources
              /\ \A t \in Sources : t # s => holds'[t] = holds[t] /\ status'[t] = status[t]
          <5>1. CASE Relist(s)
            <6>1. PICK list : holds' = [holds EXCEPT ![s] = list] /\ status' = status
              BY <5>1, Zenon DEF Relist
            <6> QED BY <4>3, <6>1
          <5>2. CASE ChangeStatus(s)
            <6>1. PICK new : status' = [status EXCEPT ![s] = new] /\ holds' = holds
              BY <5>2, Zenon DEF ChangeStatus
            <6> QED BY <4>3, <6>1
          <5> QED BY <3>2, <5>1, <5>2
        <4>5. ASSUME NEW r \in Requests, NEW h \in steady'[r] PROVE Holding(h)'
          <5>1. h \in steady[r] /\ (h.source = s => h \in Held(s)')
            BY <4>2
          <5>2. Holding(h)
            BY <5>1 DEF KInv
          <5>3. CASE h.source # s
            BY <4>4, <5>2, <5>3 DEF Holding
          <5>4. CASE h.source = s
            <6>1. h \in Held(s)'
              BY <5>1, <5>4
            <6>2. status'[s] = "up" /\ \E p \in Range(holds'[s]) : h = [source |-> s, path |-> p]
              BY <6>1 DEF Held
            <6>3. h.path \in Range(holds'[s])
              BY <6>2
            <6> QED BY <5>2, <5>4, <6>2, <6>3 DEF Holding
          <5> QED BY <5>3, <5>4
        <4> QED BY <4>2, <4>4, <4>5
      <3> QED BY <3>1, <3>2, Zenon DEF Change
    <2>3. ASSUME NEW r \in Requests PROVE Kept1(call'[r], steady'[r])
      <3>1. Kept1(call[r], steady[r])
        BY DEF KInv
      <3> QED BY <2>1, <2>2, <3>1, FewerKept
    <2>4. \A s \in Sources : cache'[s] = << >>
      BY <2>1 DEF KInv
    <2>5. (\A r \in Requests : /\ \A h \in steady[r] : Holding(h)
                               /\ Kept1(call[r], steady[r]))'
      BY <2>2, <2>3, Zenon
    <2> QED BY <2>2, <2>4, <2>5, Zenon DEF KInv
  <1> SUFFICES ASSUME KInv, [Next]_vars PROVE KInv'
    OBVIOUS
  <1>9. RInv /\ RInv'
    BY NextRInv DEF KInv
  <1>10. CASE Change
    BY <1>9, <1>10, <1>8
  <1>11. ASSUME NEW r \in Requests, Call(r) PROVE KInv'
    BY <1>9, <1>11, <1>7
  <1>12. ASSUME NEW r \in Requests, Serve(r) \/ Answer(r) \/ Cancel(r) PROVE KInv'
    <2>1. Moves(r) /\ UNCHANGED <<world, steady>>
      BY <1>9, <1>12, StepMoves, Zenon
    <2> QED BY <1>9, <2>1, <1>6
  <1>13. CASE UNCHANGED vars
    <2>1. call' = call /\ cache' = cache /\ steady' = steady /\ holds' = holds /\ status' = status
      BY <1>13 DEF vars, world
    <2> QED BY <1>9, <2>1, Zenon DEF KInv, Holding
  <1> QED BY <1>10, <1>11, <1>12, <1>13, Zenon DEF Next

\* Whatever the other sources do meanwhile, an unnamed request that demands
\* nothing is answered with every identity that a silent, proving source held
\* from the call to the reply, when no source replays old proofs (as none of
\* the registry does): enumerate_all and the proving loop skip what fails and
\* lose nothing else.
THEOREM NothingLost ==
    ASSUME NoCaching
    PROVE  Spec => []CompleteReply
  <1>1. KInv => CompleteReply
    <2> SUFFICES ASSUME KInv, NEW r \in Requests,
                        call[r].pc = "done", Accepted(r), ~Named(r),
                        call[r].reply.code # "Internal",
                        \A a \in Range(call[r].in.audiences) :
                            a.presence = PresenceNone /\ a.maxAge = {},
                        NEW h \in steady[r], Attestors[h.source].cost = "Silent",
                        Attestors[h.source].evidence # "none"
                 PROVE  \E svid \in Range(call[r].reply.svids) :
                            svid.id = Pseudonym(call[r].in.consumer,
                                        [domain |-> Attestors[h.source].domain, path |-> h.path])
      BY Zenon DEF CompleteReply
    <2>1. Kept1(call[r], steady[r])
      BY DEF KInv
    <2>2. EarlyRefusal(call[r].in) = "none" /\ call[r].in.selector = NoSelector
      BY DEF Accepted, Named
    <2>3. \E svid \in Range(call[r].reply.svids) :
             svid.id = Pseudonym(call[r].in.consumer, IdAt(h.source, h.path))
      BY <2>1, <2>2, Zenon DEF Kept1, Proving
    <2> QED BY <2>3, Zenon DEF IdAt
  <1>2. Spec => []KInv
    BY InitKInv, NextKInv, PTL DEF Spec
  <1> QED BY <1>1, <1>2, PTL

-----------------------------------------------------------------------------
(* When a claim joins a request.                                            *)

\* A source that replays a proof proves possession of one identity.
ReplaysOne ==
    \A s \in Sources : Attestors[s].caches
        => /\ Attestors[s].evidence = "Possession"
           /\ \A list \in Holdings[s] : Len(list) <= 1

\* A request that is through with source s.
Past(c, s) ==
    \/ c.pc \in {"respond", "done", "cancelled"}
    \/ /\ c.pc = "prove" /\ c.in.selector = NoSelector
       /\ \A k \in DOMAIN c.found : k >= c.i => c.found[k].source # s

\* A source that replays is enumerated once.
Once(found) ==
    \A k, l \in DOMAIN found :
        Attestors[found[k].source].caches /\ found[k].source = found[l].source => k = l

\* A cached proof belongs to a request that is through with its source.
Replayed(s) ==
    cache[s] # << >>
        => /\ Attestors[s].caches
           /\ cache[s][1].kind = "Possession"
           /\ cache[s][1].challenge \in Requests
           /\ Past(call[cache[s][1].challenge], s)

\* The inductive invariant of replayed proofs.
PInv ==
    /\ RInv
    /\ \A s \in Sources : holds[s] \in Holdings[s]
    /\ \A r \in Requests : Once(call[r].found)
    /\ \A s \in Sources : Replayed(s)

\* Facts about one request.
LEMMA ReplayIs ==
    ASSUME PInv, NEW r \in Requests
    PROVE  /\ RInv /\ call[r].found \in Seq(Candidates) /\ Gathered(call[r])
           /\ \A k \in DOMAIN call[r].found : call[r].found[k].source \in Sources
  <1>1. RInv /\ call[r].found \in Seq(Candidates) /\ Gathered(call[r])
    BY RecordIs DEF PInv
  <1>2. \A x \in Candidates : x.source \in Sources
    BY DEF Candidates
  <1> QED BY <1>1, <1>2

\* Before the first request.
LEMMA InitPInv == Init => PInv
  <1> SUFFICES ASSUME Init PROVE PInv
    OBVIOUS
  <1>1. RInv /\ \A s \in Sources : holds[s] \in Holdings[s] /\ cache[s] = << >>
    BY InitRInv DEF Init
  <1>2. \A r \in Requests : call[r].found = << >>
    BY Zenon DEF Init, Idle
  <1> QED BY <1>1, <1>2 DEF PInv, Once, Replayed

\* Every step keeps the invariant.
LEMMA NextPInv == ASSUME ReplaysOne PROVE PInv /\ [Next]_vars => PInv'
  \* A request that is through with a source stays so.
  <1>1. ASSUME RInv, NEW r \in Requests, Moves(r), NEW q \in Requests, NEW s, Past(call[q], s)
        PROVE  Past(call'[q], s)
    <2> USE <1>1
    <2> DEFINE me == call[r]
               c == call'[r]
    <2>1. CASE q # r
      <3>1. call'[q] = call[q]
        BY <2>1, Zenon DEF Moves, Enumerates, Skips, Proves, Finishes, Names, Refuses, Prompts,
                           Responds, Cancels, After
      <3> QED BY <3>1
    <2>2. CASE q = r
      <3>1. CASE Skips(r) \/ Proves(r)
        <4>1. /\ me.pc = "prove" /\ c.pc = "prove" /\ c.in = me.in /\ c.i = me.i + 1
              /\ c.found = me.found
          BY <3>1, ZenonT(60) DEF Skips, Proves, After
        <4>2. me.i \in Nat /\ me.found \in Seq(Candidates)
          BY <4>1, RecordIs, SMTT(60) DEF Gathered
        <4>3. me.in.selector = NoSelector /\ \A k \in DOMAIN me.found : k >= me.i => me.found[k].source # s
          BY <2>2, <4>1 DEF Past
        <4>4. \A k \in DOMAIN me.found : k >= me.i + 1 => k >= me.i
          BY <4>2
        <4> HIDE DEF c, me
        <4>5. Past(c, s)
          BY <4>1, <4>3, <4>4 DEF Past
        <4> QED BY <2>2, <4>5 DEF c
      <3>2. CASE Finishes(r) \/ Responds(r) \/ Cancels(r) \/ Names(r) \/ Refuses(r)
        <4>1. c.pc \in {"respond", "done", "cancelled"}
          BY <3>2, Zenon DEF Finishes, Responds, Cancels, Names, Refuses, After
        <4> QED BY <2>2, <4>1 DEF Past
      <3>3. CASE Enumerates(r) \/ Prompts(r)
        <4>1. me.pc = "enumerate" \/ (me.pc = "prove" /\ me.in.selector # NoSelector)
          BY <3>3, Zenon DEF Enumerates, Prompts, Named
        <4> QED BY <2>2, <4>1 DEF Past
      <3> QED BY <3>1, <3>2, <3>3, Zenon DEF Moves
    <2> QED BY <2>1, <2>2, Zenon
  \* The step that asks a source for a proof is through with it.
  <1>2. ASSUME PInv, NEW r \in Requests, Moves(r)
        PROVE  \/ cache' = cache
               \/ \E k \in DOMAIN call[r].found :
                     /\ Provable(call[r].found[k]) /\ Remember(r, call[r].found[k])
                     /\ Attestors[call[r].found[k].source].caches
                           => Past(call'[r], call[r].found[k].source)
    <2> USE <1>2
    <2> DEFINE me == call[r]
               c == call'[r]
    <2>1. CASE Proves(r)
      <3>1. /\ me.pc = "prove" /\ c.pc = "prove" /\ c.in = me.in /\ c.i = me.i + 1
            /\ c.found = me.found /\ me.in.selector = NoSelector
            /\ me.i <= Len(me.found) /\ Provable(me.found[me.i]) /\ Remember(r, me.found[me.i])
        BY <2>1, Zenon DEF Proves, After, Named
      <3>2. me.i \in Nat \ {0} /\ me.found \in Seq(Candidates)
        BY <3>1, ReplayIs, ZenonT(60) DEF Gathered
      <3>3. me.i \in DOMAIN me.found
        BY <3>1, <3>2, SMTT(60)
      <3>4. ASSUME Attestors[me.found[me.i].source].caches
            PROVE  Past(c, me.found[me.i].source)
        <4>1. ASSUME NEW k \in DOMAIN me.found, k >= me.i + 1
              PROVE  me.found[k].source # me.found[me.i].source
          <5>1. k # me.i
            BY <3>2, <4>1, SMTT(60)
          <5> QED BY <3>3, <3>4, <5>1, Zenon DEF PInv, Once
        <4> HIDE DEF c, me
        <4> QED BY <3>1, <4>1 DEF Past
      <3> QED BY <3>1, <3>3, <3>4, Zenon
    <2>2. CASE Names(r) \/ Refuses(r)
      <3>1. c.pc \in {"respond", "done"}
        BY <2>2, Zenon DEF Names, Refuses, After
      <3>2. \A s : Past(c, s)
        BY <3>1 DEF Past
      <3>3. \/ cache' = cache
            \/ \E k \in DOMAIN me.found : Provable(me.found[k]) /\ Remember(r, me.found[k])
        BY <2>2, Zenon DEF Names, Refuses
      <3> HIDE DEF c, me
      <3> QED BY <3>2, <3>3 DEF c, me
    <2>3. CASE Enumerates(r) \/ Skips(r) \/ Finishes(r) \/ Prompts(r) \/ Responds(r) \/ Cancels(r)
      BY <2>3, Zenon DEF Enumerates, Skips, Finishes, Prompts, Responds, Cancels
    <2> QED BY <2>1, <2>2, <2>3, Zenon DEF Moves
  \* The cache after a step.
  <1>3. ASSUME ReplaysOne, PInv, NEW r \in Requests, Moves(r), NEW s \in Sources
        PROVE  Replayed(s)'
    <2> USE <1>3
    <2>1. Replayed(s) /\ RInv
      BY DEF PInv
    <2>2. ASSUME cache'[s] = cache[s] PROVE Replayed(s)'
      <3>1. CASE cache[s] = << >>
        BY <2>2, <3>1 DEF Replayed
      <3>2. CASE cache[s] # << >>
        <4>1. Past(call'[cache[s][1].challenge], s)
          BY <2>1, <3>2, <1>1 DEF Replayed
        <4> QED BY <2>1, <2>2, <3>2, <4>1, ZenonT(60) DEF Replayed
      <3> QED BY <3>1, <3>2
    <2>3. CASE cache' = cache
      BY <2>2, <2>3
    <2>4. CASE cache' # cache
      <3>1. PICK k \in DOMAIN call[r].found :
                /\ Provable(call[r].found[k]) /\ Remember(r, call[r].found[k])
                /\ Attestors[call[r].found[k].source].caches
                      => Past(call'[r], call[r].found[k].source)
        BY <2>4, <1>2, Zenon
      <3> DEFINE c == call[r].found[k]
      <3>2. /\ Attestors[c.source].caches
            /\ cache' = [cache EXCEPT ![c.source] = EvidenceFor(r, c)]
        BY <2>4, <3>1, ZenonT(60) DEF Remember
      <3>3. DOMAIN cache = Sources /\ c.source \in Sources
        BY ReplayIs, <2>1 DEF RInv
      <3>4. CASE s # c.source
        <4>1. cache'[s] = cache[s]
          BY <3>2, <3>3, <3>4, Zenon
        <4> QED BY <2>2, <4>1, Zenon
      <3>5. CASE s = c.source
        <4>1. cache'[s] = EvidenceFor(r, c)
          BY <3>2, <3>3, <3>5, Zenon
        <4>2. CASE cache[s] # << >>
          <5>1. cache'[s] = cache[s]
            BY <3>5, <4>1, <4>2 DEF EvidenceFor
          <5> QED BY <2>2, <5>1, SMTT(60)
        <4>3. CASE cache[s] = << >>
          <5>1. Attestors[s].evidence = "Possession"
            BY <3>2, <3>5 DEF ReplaysOne
          <5>2. cache'[s] = <<Signed(r)>>
            BY <3>5, <4>1, <4>3, <5>1, Zenon DEF EvidenceFor
          <5>3. Signed(r).kind = "Possession" /\ Signed(r).challenge = r
            BY DEF Signed
          <5>4. cache'[s][1] = Signed(r)
            BY <5>2
          <5>5. Past(call'[r], s) /\ Attestors[s].caches
            BY <3>1, <3>2, <3>5, Zenon
          <5> QED BY <5>3, <5>4, <5>5, ZenonT(60) DEF Replayed
        <4> QED BY <4>2, <4>3, Zenon
      <3> QED BY <3>4, <3>5
    <2> QED BY <2>3, <2>4
  \* A source that replays is enumerated once.
  <1>4. ASSUME ReplaysOne, PInv, NEW r \in Requests, Moves(r)
        PROVE  Once(call'[r].found)
    <2> USE <1>4
    <2> DEFINE me == call[r]
               c == call'[r]
    <2>1. Once(me.found) /\ me.found \in Seq(Candidates) /\ RInv
      BY ReplayIs DEF PInv
    <2>2. CASE c.found = me.found
      BY <2>1, <2>2
    <2>3. CASE me.pc = "enumerate" /\ c.found = me.found \o Listed(me.i)
      <3>1. PICK s \in Sources : s = me.i
        BY <2>1, <2>3, RecordIs, Zenon
      <3>2. \A k \in DOMAIN me.found : me.found[k].source < s
        BY <2>1, <2>3, <3>1, RecordIs, Zenon DEF Gathered
      <3>3. PICK new, u : new = Listed(s) /\ u = me.found \o new
        BY Zenon
      <3> DEFINE a == Len(me.found)
                 b == Len(holds[s])
      <3>4. /\ new \in Seq(Candidates) /\ Len(new) = b /\ \A n \in 1..b : new[n].source = s
        BY <2>1, <3>3, ListedIs, Zenon
      <3>5. Joined(me.found, new, u)
        BY <2>1, <3>3, <3>4, JoinedIs, Zenon
      <3>6. /\ a \in Nat /\ b \in Nat /\ DOMAIN me.found = 1..a /\ DOMAIN u = 1..(a + b)
            /\ \A k \in 1..a : u[k] = me.found[k]
            /\ \A k \in 1..b : u[a + k] = new[k]
        BY <3>4, <3>5, Zenon DEF Joined
      <3>7. Attestors[s].caches => b <= 1
        BY DEF ReplaysOne, PInv
      <3>8. \A k \in 1..a : me.found[k].source # s
        <4>1. s \in Int /\ \A x \in Candidates : x.source \in Int
          BY SourcesAssumption DEF Candidates, Sources
        <4>2. \A k \in 1..a : me.found[k] \in Candidates
          BY <2>1, <3>6
        <4> QED BY <3>2, <3>6, <4>1, <4>2, SMTT(60)
      <3> HIDE DEF a, b
      <3>9. \A k \in DOMAIN u : \/ k \in 1..a /\ u[k] = me.found[k]
                                \/ k - a \in 1..b /\ u[k].source = s
        <4> TAKE k \in DOMAIN u
        <4>1. CASE k \in 1..a
          BY <3>6, <4>1
        <4>2. CASE k \notin 1..a
          <5>1. k - a \in 1..b /\ k = a + (k - a)
            BY <3>6, <4>2
          <5>2. u[k] = new[k - a]
            BY <3>6, <5>1
          <5> QED BY <3>4, <5>1, <5>2 DEF b
        <4> QED BY <4>1, <4>2
      <3>10. ASSUME NEW k \in DOMAIN u, NEW l \in DOMAIN u,
                    Attestors[u[k].source].caches, u[k].source = u[l].source
             PROVE  k = l
        <4>1. CASE k \in 1..a /\ u[k] = me.found[k] /\ l \in 1..a /\ u[l] = me.found[l]
          BY <2>1, <3>6, <3>10, <4>1, SMTT(60) DEF Once
        <4>2. CASE k - a \in 1..b /\ u[k].source = s /\ l - a \in 1..b /\ u[l].source = s
          <5>1. b <= 1
            BY <3>7, <3>10, <4>2
          <5> QED BY <3>6, <4>2, <5>1
        <4>3. CASE k \in 1..a /\ u[k] = me.found[k] /\ u[l].source = s
          BY <3>8, <3>10, <4>3, Zenon
        <4>4. CASE l \in 1..a /\ u[l] = me.found[l] /\ u[k].source = s
          BY <3>8, <3>10, <4>4
        <4> QED BY <3>9, <4>1, <4>2, <4>3, <4>4, ZenonT(60)
      <3>11. Once(u)
        BY <3>10 DEF Once
      <3> QED BY <2>3, <3>1, <3>3, <3>11, Zenon
    <2>4. \/ c.found = me.found
          \/ me.pc = "enumerate" /\ c.found = me.found \o Listed(me.i)
      <3>1. CASE Enumerates(r)
        BY <3>1, Zenon DEF Enumerates, After
      <3> QED BY <3>1, Zenon DEF Moves, Skips, Proves, Finishes, Names, Refuses, Prompts, Responds,
                   Cancels, After
    <2> QED BY <2>2, <2>3, <2>4, ZenonT(60)
  <1> SUFFICES ASSUME PInv, [Next]_vars PROVE PInv'
    OBVIOUS
  <1>5. RInv /\ RInv'
    BY NextRInv DEF PInv
  <1>6. ASSUME call' = call, cache' = cache, \A s \in Sources : holds'[s] \in Holdings[s]
        PROVE  PInv'
    BY <1>5, <1>6, ZenonT(60) DEF PInv, Once, Replayed, Past
  <1>7. CASE Change
    <2>1. call' = call /\ cache' = cache
      BY <1>7 DEF Change
    <2>2. holds' = holds \/ \E s \in Sources : Relist(s)
      BY <1>7, Zenon DEF Change, ChangeStatus, MoveClock
    <2>3. ASSUME NEW s \in Sources, Relist(s), NEW t \in Sources
          PROVE  holds'[t] \in Holdings[t]
      <3>1. PICK list \in Holdings[s] : holds' = [holds EXCEPT ![s] = list]
        BY <2>3, Zenon DEF Relist
      <3>2. DOMAIN holds = Sources /\ holds[t] \in Holdings[t]
        BY DEF PInv, RInv, IInv
      <3> QED BY <3>1, <3>2
    <2>4. \A t \in Sources : holds'[t] \in Holdings[t]
      BY <2>2, <2>3, Zenon DEF PInv
    <2> QED BY <1>6, <2>1, <2>4
  <1>8. ASSUME NEW r \in Requests, Call(r) PROVE PInv'
    <2>1. PICK c : call' = [call EXCEPT ![r] = c] /\ c.found = << >>
      <3>1. PICK in, refusal :
               call' = [call EXCEPT ![r] =
                 [pc |-> IF refusal = "none" THEN "enumerate" ELSE "done",
                  in |-> in, i |-> 1, found |-> << >>, claims |-> << >>,
                  reply |-> Refuse(refusal)]]
        BY <1>8, Zenon DEF Call
      <3> DEFINE c == [pc |-> IF refusal = "none" THEN "enumerate" ELSE "done",
                  in |-> in, i |-> 1, found |-> << >>, claims |-> << >>,
                  reply |-> Refuse(refusal)]
      <3>2. c.found = << >>
        BY DEF c
      <3> HIDE DEF c
      <3>3. call' = [call EXCEPT ![r] = c]
        BY <3>1 DEF c
      <3> QED BY <3>2, <3>3, Zenon
    <2>2. holds' = holds /\ cache' = cache /\ call[r].pc = "idle" /\ DOMAIN call = Requests
      BY <1>5, <1>8 DEF Call, world, RInv, IInv
    <2>3. call'[r].found = << >> /\ \A q \in Requests : q # r => call'[q] = call[q]
      BY <2>1, <2>2, Zenon
    <2>4. \A q \in Requests : Once(call'[q].found)
      BY <2>3 DEF PInv, Once
    <2>5. \A s : ~Past(call[r], s)
      BY <2>2 DEF Past
    <2>6. ASSUME NEW s \in Sources PROVE Replayed(s)'
      <3>1. Replayed(s)
        BY DEF PInv
      <3>2. cache[s] # << >> => cache[s][1].challenge # r
        BY <2>5, <3>1, Zenon DEF Replayed
      <3> QED BY <2>2, <2>3, <3>1, <3>2, Zenon DEF Replayed
    <2>7. (\A s \in Sources : Replayed(s))' /\ (\A q \in Requests : Once(call[q].found))'
      BY <2>4, <2>6, Zenon
    <2>8. (\A s \in Sources : holds[s] \in Holdings[s])'
      BY <2>2 DEF PInv
    <2> QED BY <1>5, <2>7, <2>8, Zenon DEF PInv
  <1>9. ASSUME NEW r \in Requests, Serve(r) \/ Answer(r) \/ Cancel(r) PROVE PInv'
    <2>1. Moves(r) /\ holds' = holds
      BY <1>5, <1>9, StepMoves, Zenon DEF world
    <2>2. \A q \in Requests : q # r => call'[q] = call[q]
      BY <2>1, Zenon DEF Moves, Enumerates, Skips, Proves, Finishes, Names, Refuses, Prompts,
                         Responds, Cancels, After
    <2>3. Once(call'[r].found)
      BY <2>1, <1>4
    <2>4. (\A q \in Requests : Once(call[q].found))'
      <3>1. \A q \in Requests : Once(call[q].found)
        BY DEF PInv
      <3>2. \A q \in Requests : Once(call'[q].found)
        BY <2>2, <2>3, <3>1, Zenon
      <3> QED BY <3>2, Zenon
    <2>5. (\A s \in Sources : Replayed(s))'
      BY <2>1, <1>3, Zenon
    <2>6. (\A s \in Sources : holds[s] \in Holdings[s])'
      BY <2>1 DEF PInv
    <2> QED BY <1>5, <2>4, <2>5, <2>6, Zenon DEF PInv
  <1>10. CASE UNCHANGED vars
    <2>1. call' = call /\ cache' = cache /\ holds' = holds
      BY <1>10 DEF vars, world
    <2> QED BY <1>6, <2>1 DEF PInv
  <1> QED BY <1>7, <1>8, <1>9, <1>10, Zenon DEF Next

\* A new claim of request q is held, and dated, by the step that makes it.
ClaimHeld(q, n) ==
    LET c == call'[q].claims[n]
    IN  [source |-> c.source, path |-> c.path] \in Held(c.source) /\ c.attestedAt = clock

\* A claim joins a request only in a step in which its source, asked again,
\* holds the identity, and it is dated by that step: what was enumerated awaits
\* ago is never vouched for, nor is a proof another request was given.  A source
\* that replays proofs (tests/e2e.rs) is assumed to prove possession of a single
\* identity.
THEOREM ClaimsHeld ==
    ASSUME ReplaysOne
    PROVE  Spec => ClaimsHeldWhenProved
  \* A proof that is accepted was given for this request: it is dated now.
  <1>1. ASSUME PInv, NEW r \in Requests, NEW c \in Candidates, Provable(c),
               ~Past(call[r], c.source), ClaimFor(r, c) # NoClaim
        PROVE  /\ ClaimFor(r, c).attestedAt = clock
               /\ ClaimFor(r, c).source = c.source /\ ClaimFor(r, c).path = c.path
               /\ [source |-> c.source, path |-> c.path] \in Held(c.source)
    <2> USE <1>1
    <2>1. RInv /\ c.source \in Sources
      BY DEF PInv, Candidates
    <2>2. CASE cache[c.source] # << >>
      <3>1. PICK e \in Evidence : EvidenceFor(r, c) = <<e>>
        BY <2>1, OneEvidence, Zenon
      <3>2. cache[c.source] = <<e>> /\ cache[c.source][1] = e
        BY <2>2, <3>1 DEF EvidenceFor
      <3>3. Replayed(c.source)
        BY <2>1 DEF PInv
      <3>4. e.kind = "Possession" /\ e.challenge # r
        BY <2>2, <3>2, <3>3, Zenon DEF Replayed
      <3>5. ~BindsTo(e, c, r)
        BY <3>4 DEF BindsTo
      <3>6. ClaimFor(r, c) = NoClaim
        BY <3>1, <3>5, DeriveOne, Zenon DEF ClaimFor
      <3> QED BY <3>6
    <2>3. CASE cache[c.source] = << >>
      <3>1. ClaimFor(r, c).attestedAt = clock
        BY <2>1, <2>3, FreshClaim, Zenon
      <3>2. ClaimFor(r, c).source = c.source /\ ClaimFor(r, c).path = c.path
        BY <2>1, ClaimForIs, Zenon
      <3>3. [source |-> c.source, path |-> c.path] \in Held(c.source)
        BY DEF Provable, Held
      <3> QED BY <3>1, <3>2, <3>3
    <2> QED BY <2>2, <2>3
  \* The steps that add a claim.
  <1>2. ASSUME PInv, NEW r \in Requests, Moves(r), NEW q \in Requests,
               NEW n \in DOMAIN call'[q].claims \ DOMAIN call[q].claims
        PROVE  ClaimHeld(q, n)
    <2> USE <1>2
    <2> DEFINE me == call[r]
               c == call'[r]
    <2>1. q = r
      BY Zenon DEF Moves, Enumerates, Skips, Proves, Finishes, Names, Refuses, Prompts, Responds,
                   Cancels, After
    <2>2. /\ RInv /\ me.found \in Seq(Candidates) /\ Gathered(me) /\ me.claims \in Seq(Claims)
      BY ReplayIs, Zenon DEF Gathered
    <2>3. CASE Proves(r)
      <3> DEFINE cand == me.found[me.i]
      <3>1. PICK claim : claim = ClaimFor(r, cand)
        BY Zenon
      <3>2. /\ c.claims = IF claim = NoClaim THEN me.claims ELSE Append(me.claims, claim)
            /\ me.pc = "prove" /\ me.in.selector = NoSelector /\ me.i <= Len(me.found)
            /\ Provable(cand)
        BY <2>3, <3>1, Zenon DEF Proves, After, Named
      <3>3. claim # NoClaim
        BY <2>1, <3>2, ZenonT(60)
      <3>4. me.i \in Nat \ {0}
        BY <2>2, <3>2 DEF Gathered
      <3>5. me.i \in DOMAIN me.found /\ cand \in Candidates /\ me.i >= me.i
        BY <2>2, <3>2, <3>4, SMTT(60)
      <3>6. ~Past(me, cand.source)
        BY <3>2, <3>5, Zenon DEF Past
      <3>7. c.claims = Append(me.claims, claim)
        BY <3>2, <3>3, Zenon
      <3>8. n = Len(me.claims) + 1 /\ c.claims[n] = claim
        <4>1. /\ DOMAIN me.claims = 1..Len(me.claims) /\ Len(me.claims) \in Nat
              /\ DOMAIN c.claims = 1..(Len(me.claims) + 1)
              /\ c.claims[Len(me.claims) + 1] = claim
          BY <2>2, <3>7
        <4>2. n \in 1..(Len(me.claims) + 1) /\ n \notin 1..Len(me.claims)
          BY <2>1, <4>1
        <4> HIDE DEF me, c
        <4>3. n = Len(me.claims) + 1
          BY <4>1, <4>2
        <4> QED BY <4>1, <4>3
      <3>9. /\ claim.attestedAt = clock /\ claim.source = cand.source /\ claim.path = cand.path
            /\ [source |-> cand.source, path |-> cand.path] \in Held(cand.source)
        BY <3>1, <3>2, <3>3, <3>5, <3>6, <1>1, Zenon
      <3> QED BY <2>1, <3>8, <3>9, Zenon DEF ClaimHeld
    <2>4. CASE Names(r)
      <3>1. PICK k \in DOMAIN me.found :
            /\ Provable(me.found[k]) /\ ClaimFor(r, me.found[k]) # NoClaim
            /\ After(r, "respond", me.i, me.found, <<ClaimFor(r, me.found[k])>>, me.reply)
        BY <2>4, Zenon DEF Names
      <3> DEFINE cand == me.found[k]
      <3>2. PICK claim : claim = ClaimFor(r, cand)
        BY Zenon
      <3>3. c.claims = <<claim>>
        BY <3>1, <3>2, ZenonT(60) DEF After
      <3>4. me.pc \in {"prove", "prompting"} /\ me.in.selector # NoSelector
        BY <2>4 DEF Names, Named
      <3>5. ~Past(me, cand.source)
        BY <3>4, Zenon DEF Past
      <3>6. cand \in Candidates
        BY <2>2
      <3>7. /\ claim.attestedAt = clock /\ claim.source = cand.source /\ claim.path = cand.path
            /\ [source |-> cand.source, path |-> cand.path] \in Held(cand.source)
        BY <3>1, <3>2, <3>5, <3>6, <1>1, Zenon
      <3>8. c.claims[n] = claim
        BY <2>1, <3>3
      <3> QED BY <2>1, <3>7, <3>8, Zenon DEF ClaimHeld
    <2>5. CASE c.claims = me.claims
      BY <2>1, <2>5
    <2>6. Proves(r) \/ Names(r) \/ c.claims = me.claims
      BY Zenon DEF Moves, Enumerates, Skips, Finishes, Refuses, Prompts, Responds, Cancels, After
    <2> QED BY <2>3, <2>4, <2>5, <2>6, Zenon
  <1> DEFINE A == \A r \in Requests : \A n \in DOMAIN call'[r].claims \ DOMAIN call[r].claims :
                     LET c == call'[r].claims[n]
                     IN  /\ [source |-> c.source, path |-> c.path] \in Held(c.source)
                         /\ c.attestedAt = clock
  <1>3. PInv /\ [Next]_vars => [A]_vars
    <2> SUFFICES ASSUME PInv, Next PROVE A
      OBVIOUS
    <2> SUFFICES ASSUME NEW q \in Requests,
                        NEW n \in DOMAIN call'[q].claims \ DOMAIN call[q].claims
                 PROVE  ClaimHeld(q, n)
      BY Zenon DEF ClaimHeld
    <2>1. CASE Change
      <3>1. call' = call
        BY <2>1 DEF Change
      <3> QED BY <3>1
    <2>2. ASSUME NEW r \in Requests, Call(r) PROVE FALSE
      <3>1. DOMAIN call = Requests
        BY DEF PInv, RInv, IInv
      <3>2. call'[q].claims = << >> \/ call'[q] = call[q]
        <4>1. PICK in, refusal :
               call' = [call EXCEPT ![r] =
                 [pc |-> IF refusal = "none" THEN "enumerate" ELSE "done",
                  in |-> in, i |-> 1, found |-> << >>, claims |-> << >>,
                  reply |-> Refuse(refusal)]]
          BY <2>2, Zenon DEF Call
        <4>2. CASE q = r
          <5>1. call'[q] =
                 [pc |-> IF refusal = "none" THEN "enumerate" ELSE "done",
                  in |-> in, i |-> 1, found |-> << >>, claims |-> << >>,
                  reply |-> Refuse(refusal)]
            BY <3>1, <4>1, <4>2, Zenon
          <5> QED BY <5>1
        <4>3. CASE q # r
          BY <3>1, <4>1, <4>3, Zenon
        <4> QED BY <4>2, <4>3
      <3> QED BY <3>2, SMTT(60)
    <2>3. ASSUME NEW r \in Requests, Serve(r) \/ Answer(r) \/ Cancel(r) PROVE ClaimHeld(q, n)
      <3>1. Moves(r)
        BY <2>3, StepMoves, Zenon DEF PInv
      <3> QED BY <3>1, <1>2
    <2> QED BY <2>1, <2>2, <2>3, Zenon DEF Next
  <1>4. Spec => []PInv
    BY InitPInv, NextPInv, PTL DEF Spec
  <1> QED BY <1>3, <1>4, PTL DEF Spec, ClaimsHeldWhenProved
=============================================================================
