-------------------------------- MODULE Svid --------------------------------
(***************************************************************************)
(* The life of a JWT-SVID: the claims of a request are proved, each is       *)
(* turned into a token by WorkloadApiService::issue and SvidSigner, and       *)
(* ValidateJWTSVID accepts or refuses the token later, against the published  *)
(* trust bundles.  The wall clock moves between any two steps, in either      *)
(* direction, and a restart replaces the keypair and the bundles.             *)
(*                                                                          *)
(* Instants are ticks, Tick of them to the second, since tokens publish whole *)
(* seconds of observations that have fractions of them.                      *)
(***************************************************************************)
EXTENDS Issuance

CONSTANTS
    Domains,        \* trust domains the registry's sources prove under
    Published,      \* trust domains main.rs upserts a bundle for
    AudienceLists,  \* audience lists callers send, of [name, presence, maxAge, valid]
    Tick,           \* ticks in a second
    PresenceTtl,    \* PRESENCE_TTL, in seconds
    TokenTtl,       \* the 300 of sign_jwt_svid, in seconds
    MaxClock,       \* bound: largest clock reading, in ticks
    MaxEpoch,       \* bound: daemon incarnations
    MaxClaims,      \* bound: claims of one request
    MaxTokens       \* bound: tokens outstanding

ASSUME SvidAssumption ==
    /\ Tick \in Nat \ {0}
    /\ {PresenceTtl, TokenTtl, MaxClock, MaxEpoch, MaxClaims, MaxTokens} \subseteq Nat
    /\ \A list \in AudienceLists : list \in Seq([name : STRING, presence : PresenceLevels,
                                                maxAge : SUBSET Nat, valid : BOOLEAN])

VARIABLES
    clock,      \* SystemTime
    epoch,      \* the running incarnation: its keypair, kid and pseudonym key
    bundles,    \* TrustBundleStore: for each domain that has one, the kid published
    req,        \* the request being served
    tokens      \* every token ever issued

vars == <<clock, epoch, bundles, req, tokens>>

NoRequest == [phase |-> "idle", audiences |-> << >>, claims |-> {}, now |-> 0,
              stepped |-> FALSE]    \* history: the clock went back since the first proof

\* SvidSigner::new and the upserts of main.rs: one authority, this keypair's.
Boot(e) == [d \in Published |-> e]

Init ==
    /\ clock = 0
    /\ epoch = 1
    /\ bundles = Boot(1)
    /\ req = NoRequest
    /\ tokens = {}

\* TrustBundleStore::get and jwt_decoding_key: the domain the token names has a
\* bundle, and the bundle has a key with the token's kid.
KeyPublished(t) == t.domain \in DOMAIN bundles /\ bundles[t.domain] = t.kid

-----------------------------------------------------------------------------
(* Variants of the operations below, each with one plausible slip.         *)

\* present_until counts from the request instead of the observation.
PublishedFromNow(claim) ==
    [attestedAt |-> claim.attestedAt \div Tick,
     presentUntil |-> req.now \div Tick + PresenceTtl]

\* jsonwebtoken's leeway is left at a value above zero.
AcceptsWithLeeway(t, name) ==
    /\ KeyPublished(t)
    /\ \E a \in Range(t.audiences) : a.name = name
    /\ clock \div Tick <= t.exp + 1

\* iat is taken for a not-before instant.
AcceptsFromIat(t, name) ==
    /\ KeyPublished(t)
    /\ \E a \in Range(t.audiences) : a.name = name
    /\ clock \div Tick \in t.iat..t.exp

-----------------------------------------------------------------------------

\* Time passes, or the clock is stepped.
MoveClock ==
    /\ clock' \in {clock - 1, clock + 1} \cap 0..MaxClock
    /\ req' = [req EXCEPT !.stepped = @ \/ (clock' < clock /\ req.claims # {})]
    /\ UNCHANGED <<epoch, bundles, tokens>>

\* The daemon exits and is started again: nothing is persisted.
Restart ==
    /\ epoch < MaxEpoch
    /\ epoch' = epoch + 1
    /\ bundles' = Boot(epoch')
    /\ req' = NoRequest
    /\ UNCHANGED <<clock, tokens>>

Receive ==
    /\ req.phase = "idle"
    /\ \E audiences \in AudienceLists :
          req' = [NoRequest EXCEPT !.phase = "proving", !.audiences = audiences]
    /\ UNCHANGED <<clock, epoch, bundles, tokens>>

\* A source proves one more identity; the observation is stamped with the clock.
Prove ==
    /\ req.phase = "proving"
    /\ Cardinality(req.claims) < MaxClaims
    /\ \E d \in Domains, presence \in {PresenceNone, PresenceHardware} :
          req' = [req EXCEPT !.claims = @ \cup
                    {[domain |-> d, presence |-> presence, attestedAt |-> clock]}]
    /\ UNCHANGED <<clock, epoch, bundles, tokens>>

\* `let now = SystemTime::now()`: one instant for every claim of the response.
ReadClock ==
    /\ req.phase = "proving" /\ req.claims # {}
    /\ req' = [req EXCEPT !.phase = "issuing", !.now = clock]
    /\ UNCHANGED <<clock, epoch, bundles, tokens>>

\* The two instants a token publishes, in whole seconds.
PublishedAt(claim) ==
    LET attestedAt == claim.attestedAt \div Tick
    IN  [attestedAt |-> attestedAt, presentUntil |-> attestedAt + PresenceTtl]

\* sign_jwt_svid reads the clock a second time, for iat and exp.
Token(claim, published) ==
    [kid |-> epoch, domain |-> claim.domain, audiences |-> req.audiences,
     iat |-> clock \div Tick, exp |-> clock \div Tick + TokenTtl,
     present |-> PresenceAt(claim, req.now, PresenceTtl * Tick) # PresenceNone,
     published |-> published,
     claim |-> claim, now |-> req.now, stepped |-> req.stepped]    \* these three are history

\* issue() for one claim of the response: the token, or nothing.
Issue ==
    /\ req.phase = "issuing"
    /\ \E claim \in req.claims :
          /\ req' = [req EXCEPT !.claims = @ \ {claim}]
          /\ IF Issuable(claim, req.audiences, req.now, PresenceTtl * Tick)
             THEN /\ Cardinality(tokens) < MaxTokens
                  /\ tokens' = tokens \cup {Token(claim, PublishedAt(claim))}
             ELSE UNCHANGED tokens
    /\ UNCHANGED <<clock, epoch, bundles>>

Reply ==
    /\ req.phase = "issuing" /\ req.claims = {}
    /\ req' = NoRequest
    /\ UNCHANGED <<clock, epoch, bundles, tokens>>

\* validate_jwtsvid: the bundle of the domain the token names, its key with the
\* token's kid, the audience, and exp with no leeway (jsonwebtoken refuses a
\* token when exp < now, in whole seconds).
Accepts(t, name) ==
    /\ KeyPublished(t)
    /\ \E a \in Range(t.audiences) : a.name = name
    /\ clock \div Tick <= t.exp

Next == MoveClock \/ Restart \/ Receive \/ Prove \/ ReadClock \/ Issue \/ Reply

Spec == Init /\ [][Next]_vars

-----------------------------------------------------------------------------
(* Properties.                                                             *)

Names == {a.name : a \in UNION {Range(l) : l \in AudienceLists}}

\* The clock, the request and the bundle store stay in range.
TypeOK ==
    /\ clock \in 0..MaxClock /\ epoch \in 1..MaxEpoch
    /\ bundles \in [Published -> 1..MaxEpoch]
    /\ req.phase \in {"idle", "proving", "issuing"}
    /\ req.now \in 0..MaxClock
    /\ Cardinality(req.claims) <= MaxClaims

\* A token says `present` only of an observation that lay in the past and was
\* younger than the TTL at the response's instant, and a token for an audience
\* that demands presence always says it.
PresenceDecays ==
    \A t \in tokens :
        /\ t.present => /\ t.claim.presence # PresenceNone
                        /\ t.claim.attestedAt <= t.now
                        /\ t.now < t.claim.attestedAt + PresenceTtl * Tick
        /\ (\E a \in Range(t.audiences) : a.presence # PresenceNone) => t.present

\* "Truncation is the fail-closed direction" (issue): whoever reads their clock in
\* whole seconds and finds present_until not reached has an observation younger
\* than the TTL, whenever they look and whatever the clock did.  And a token whose
\* request saw no backward step never dates its observation after its own iat, nor
\* lets presence outlive the token, though iat is read from a clock of its own.
WindowIsHonest ==
    \A t \in tokens :
        /\ clock \div Tick < t.published.presentUntil
              => clock < t.claim.attestedAt + PresenceTtl * Tick
        /\ ~t.stepped => /\ t.published.attestedAt <= t.iat
                         /\ PresenceTtl <= TokenTtl => t.published.presentUntil <= t.exp

\* A token that validates now was signed by the running incarnation for that
\* audience and has not outlived its exp: a restart invalidates every
\* outstanding token.
AcceptedIsLive ==
    \A t \in tokens, name \in Names : Accepts(t, name)
        => /\ t.kid = epoch
           /\ name \in {a.name : a \in Range(t.audiences)}
           /\ clock < (t.iat + TokenTtl + 1) * Tick

\* A refusal is final while the clock does not go back: no later request, no
\* restart and no new bundle makes a refused token acceptable.
RefusalIsFinal ==
    [][clock' >= clock
         => \A t \in tokens, name \in Names : ~Accepts(t, name) => ~Accepts(t, name)']_vars

\* What the daemon issued and has not expired, the daemon validates.
OwnTokensValidate ==
    \A t \in tokens :
        t.kid = epoch /\ clock < t.exp * Tick => \A a \in Range(t.audiences) : Accepts(t, a.name)

=============================================================================
