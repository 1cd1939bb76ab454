------------------------------ MODULE Issuance ------------------------------
(***************************************************************************)
(* The policy a claim passes before it becomes a token: the requirements an *)
(* audience list folds to, the age of the observation, the caller's bound,  *)
(* the daemon's presence TTL, and the order of a response                   *)
(* (hire-grpc/src/service.rs).                                              *)
(***************************************************************************)
EXTENDS Claim, Retained

\* An age that cannot be measured: the observation lies in the future.
NoAge == -1

\* Claim::age_at.
AgeAt(claim, now) == IF now >= claim.attestedAt THEN now - claim.attestedAt ELSE NoAge

\* within_max_age; maxAge is {} for no bound and {seconds} for one.
WithinMaxAge(age, maxAge) == \A bound \in maxAge : age # NoAge /\ age < bound

\* A slip in PresenceAt: the presence window includes its end.
PresenceAtInclusive(claim, now, ttl) ==
    LET age == AgeAt(claim, now)
    IN  IF age # NoAge /\ age <= ttl THEN claim.presence ELSE PresenceNone

\* The presence a token asserts: past the TTL a claim asserts none.
PresenceAt(claim, now, ttl) ==
    LET age == AgeAt(claim, now)
    IN  IF age # NoAge /\ age < ttl THEN claim.presence ELSE PresenceNone

\* What an audience list demands: the highest presence and the smallest bound
\* any of its members names.  A member is [presence, maxAge, valid].
RequirePresence(audiences) == Max({PresenceNone} \cup {a.presence : a \in Range(audiences)})

\* A slip in MaxAge: the loosest bound wins.
MaxAgeLoosest(audiences) ==
    LET named == UNION {a.maxAge : a \in Range(audiences)}
    IN  IF named = {} THEN {} ELSE {Max(named)}

MaxAge(audiences) ==
    LET named == UNION {a.maxAge : a \in Range(audiences)}
    IN  IF named = {} THEN {} ELSE {Min(named)}

\* The gates of WorkloadApiService::issue.
Issuable(claim, audiences, now, ttl) ==
    /\ WithinMaxAge(AgeAt(claim, now), MaxAge(audiences))
    /\ PresenceAt(claim, now, ttl) >= RequirePresence(audiences)

\* The identity of a claim: its SPIFFE ID.
IdOf(claim) == [domain |-> claim.domain, path |-> claim.path]

\* The SPIFFE ID a consumer is issued: a keyed hash of itself and the root identity
\* under the root's trust domain.  The pair stands for the hash.
Pseudonym(consumer, root) == [domain |-> root.domain, path |-> <<consumer, root>>]

\* A slip in BestFirst: ascending.
WorstFirst(claims) ==
    LET at(level) == Retain(claims, {j \in DOMAIN claims : claims[j].assurance = level})
    IN  at(Iaa1) \o at(Iaa2) \o at(Iaa3)

\* sort_by_key(Reverse(assurance)), which is stable.
BestFirst(claims) ==
    LET at(level) == Retain(claims, {j \in DOMAIN claims : claims[j].assurance = level})
    IN  at(Iaa3) \o at(Iaa2) \o at(Iaa1)

\* retain(|claim| seen.insert(uri)): the first claim of every identity.
OnePerIdentity(claims) ==
    Retain(claims, {j \in DOMAIN claims :
                       \A k \in 1..(j - 1) : IdOf(claims[k]) # IdOf(claims[j])})

=============================================================================
