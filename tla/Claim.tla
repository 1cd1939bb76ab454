-------------------------------- MODULE Claim --------------------------------
(***************************************************************************)
(* What a piece of evidence is worth and what claim a body of evidence      *)
(* entitles a candidate to (hire-attestors/src/claim.rs), stated without    *)
(* the loop the code computes it with.  DeriveLoop models that loop and      *)
(* shows that it computes Derive.                                          *)
(***************************************************************************)
EXTENDS Integers, Sequences, FiniteSetsExt

\* IdentityAssurance and PresenceLevel, in their derived order.
Iaa1 == 1
Iaa2 == 2
Iaa3 == 3
PresenceNone == 0
PresenceSession == 1
PresenceSoftware == 2
PresenceHardware == 3
PresenceLevels == PresenceNone..PresenceHardware

EvidenceKinds ==
    {"Possession", "IdpVerified", "HardwarePresence", "PlatformAssertion", "DaemonAssertion"}

\* One record per variant: a signature remembers its challenge, the kernel's
\* and a daemon's answer the subject they named, a token its issuer.
EvidenceOver(Challenges, Paths, Issuers, Times) ==
         [kind : {"Possession"}, challenge : Challenges, at : Times]
    \cup [kind : {"IdpVerified"}, issuer : Issuers, at : Times]
    \cup [kind : {"HardwarePresence"}, at : Times]
    \cup [kind : {"PlatformAssertion", "DaemonAssertion"}, subject : Paths, at : Times]

AssuranceOf(e) == IF e.kind \in {"IdpVerified", "DaemonAssertion"} THEN Iaa2 ELSE Iaa1

PresenceOf(e) ==
    IF e.kind = "HardwarePresence" THEN PresenceHardware
    ELSE IF e.kind = "IdpVerified" THEN PresenceSession
    ELSE PresenceNone

\* Evidence::tier.
Tier(e) == [assurance |-> AssuranceOf(e), presence |-> PresenceOf(e), at |-> e.at]

\* A slip in BindsTo: a signature over another request's challenge counts.
BindsToAnyChallenge(e, candidate, challenge) ==
    e.kind \in {"PlatformAssertion", "DaemonAssertion"} => e.subject = candidate.path

\* Evidence::binds_to.
BindsTo(e, candidate, challenge) ==
    /\ e.kind = "Possession" => e.challenge = challenge
    /\ e.kind \in {"PlatformAssertion", "DaemonAssertion"} => e.subject = candidate.path

\* Whether the observation <<p, t>> replaces <<presence, at>>: presence and its
\* instant move together, and a tie takes the newer.
Outranks(p, t, presence, at) == p > presence \/ (p = presence /\ t > at)

\* The positions of the evidence that answers this challenge for this candidate.
BoundAt(evidence, candidate, challenge) ==
    {j \in 1..Len(evidence) : BindsTo(evidence[j], candidate, challenge)}

\* Position of an item of I whose observation no other item outranks.
StrongestAt(evidence, I) ==
    CHOOSE j \in I : \A k \in I :
        ~Outranks(PresenceOf(evidence[k]), evidence[k].at,
                  PresenceOf(evidence[j]), evidence[j].at)

\* The rule over the fold: hardware-bound and IdP-verified is Iaa3.
Combined(assurance, presence) ==
    IF presence >= PresenceHardware /\ assurance >= Iaa2 THEN Iaa3 ELSE assurance

\* The issuer of the first verified token re-anchors the trust domain.
DomainAt(evidence, I, candidate) ==
    LET tokens == {j \in I : evidence[j].kind = "IdpVerified"}
    IN  IF tokens = {} THEN candidate.domain ELSE evidence[Min(tokens)].issuer

NoClaim == [assurance |-> 0]

\* Claim::derive as a definition: the highest assurance, the strongest
\* observation with its own instant, the domain, or no claim at all.
Derive(candidate, challenge, evidence) ==
    LET I == BoundAt(evidence, candidate, challenge)
        best == evidence[StrongestAt(evidence, I)]
    IN  IF I = {} THEN NoClaim
        ELSE [source |-> candidate.source,
              assurance |-> Combined(Max({AssuranceOf(evidence[j]) : j \in I}),
                                     PresenceOf(best)),
              presence |-> PresenceOf(best),
              domain |-> DomainAt(evidence, I, candidate),
              path |-> candidate.path,
              attestedAt |-> best.at]

=============================================================================
