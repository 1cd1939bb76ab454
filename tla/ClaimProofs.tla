---------------------------- MODULE ClaimProofs ----------------------------
(***************************************************************************)
(* From evidence to claims to tokens, and to whom: Claim::derive for evidence   *)
(* of every length; what a JWT-SVID says and when it validates, for every       *)
(* clock, every TTL, any number of claims, tokens and restarts, and whatever    *)
(* audiences ask; and the names of the daemon's peers, for any number of        *)
(* processes, files and connections.                                        *)
(***************************************************************************)
EXTENDS ConsumerAttest, DeriveLoop, Svid, OrderFacts

-----------------------------------------------------------------------------
(* Claim::derive.  The loop invariant says what the filtered evidence and the     *)
(* accumulators stand for after each iteration.                                *)

\* What the filter keeps, and what counts as a token.
Bound(e) == BindsTo(e, Candidate, Challenge)

IsToken(e) == e.kind = "IdpVerified"

\* out holds the bound items among the first n of in, and no others.
KeptIsBound(in, n, out) ==
    /\ \A k \in 1..Len(out) : \E j \in 1..n : Bound(in[j]) /\ out[k] = in[j]
    /\ \A j \in 1..n : Bound(in[j]) => \E k \in 1..Len(out) : out[k] = in[j]

\* The first token of out and the first bound token among the first n of in
\* are the same item, or there is neither.
SameFirstToken(in, n, out) ==
    \/ /\ \A k \in 1..Len(out) : ~IsToken(out[k])
       /\ \A j \in 1..n : Bound(in[j]) => ~IsToken(in[j])
    \/ \E k \in 1..Len(out), j \in 1..n :
          /\ out[k] = in[j] /\ Bound(in[j]) /\ IsToken(in[j])
          /\ \A l \in 1..Len(out) : IsToken(out[l]) => k <= l
          /\ \A l \in 1..n : Bound(in[l]) /\ IsToken(in[l]) => j <= l

\* a, p and t are the levels of the strongest of the first n items of s.
Accumulated(s, n, a, p, t) ==
    /\ \E k \in 1..n : p = PresenceOf(s[k]) /\ t = s[k].at
    /\ \A k \in 1..n : ~Outranks(PresenceOf(s[k]), s[k].at, p, t)
    /\ \E k \in 1..n : a = AssuranceOf(s[k])
    /\ \A k \in 1..n : AssuranceOf(s[k]) <= a

\* The loop invariant.
DeriveInv ==
    /\ DeriveTypeOK
    /\ pc = "filter" => /\ pos \in 1..(Len(evidence) + 1)
                        /\ KeptIsBound(evidence, pos - 1, kept)
                        /\ SameFirstToken(evidence, pos - 1, kept)
                        /\ claim = NoClaim
    /\ pc = "fold" => /\ pos \in 2..(Len(kept) + 1)
                      /\ KeptIsBound(evidence, Len(evidence), kept)
                      /\ SameFirstToken(evidence, Len(evidence), kept)
                      /\ Accumulated(kept, pos - 1, assurance, presence, attestedAt)
    /\ ComputesDerive

-----------------------------------------------------------------------------

\* Evidence::tier maps every variant into the two scales and keeps its instant.
LEMMA TierFacts ==
    ASSUME NEW e \in Evidence
    PROVE  /\ PresenceOf(e) \in PresenceLevels
           /\ AssuranceOf(e) \in {Iaa1, Iaa2}
           /\ e.at \in Int
  <1>1. e.at \in Int
    BY TimesAssumption, Zenon DEF Evidence, EvidenceOver
  <1>2. PresenceOf(e) \in PresenceLevels
    BY DEF PresenceOf, PresenceLevels, PresenceNone, PresenceSession, PresenceHardware
  <1>3. AssuranceOf(e) \in {Iaa1, Iaa2}
    BY DEF AssuranceOf
  <1> QED BY <1>1, <1>2, <1>3

\* The filter over one more item that does not answer the challenge.
LEMMA SkipItem ==
    ASSUME NEW in \in Seq(Evidence), NEW out \in Seq(Evidence), NEW n \in 1..Len(in),
           ~Bound(in[n]),
           KeptIsBound(in, n - 1, out), SameFirstToken(in, n - 1, out)
    PROVE  KeptIsBound(in, n, out) /\ SameFirstToken(in, n, out)
  <1>1. /\ \A j \in 1..n : j \in 1..(n - 1) \/ j = n
        /\ \A j \in 1..(n - 1) : j \in 1..n
    OBVIOUS
  <1>2. KeptIsBound(in, n, out)
    BY <1>1 DEF KeptIsBound
  <1>3. SameFirstToken(in, n, out)
    BY <1>1 DEF SameFirstToken
  <1> QED BY <1>2, <1>3

\* The filter over one more item that does.
LEMMA KeepItem ==
    ASSUME NEW in \in Seq(Evidence), NEW out \in Seq(Evidence), NEW n \in 1..Len(in),
           Bound(in[n]),
           KeptIsBound(in, n - 1, out), SameFirstToken(in, n - 1, out)
    PROVE  /\ KeptIsBound(in, n, Append(out, in[n]))
           /\ SameFirstToken(in, n, Append(out, in[n]))
  <1> DEFINE new == Append(out, in[n])
             m == Len(out) + 1
  <1>1. /\ Len(out) \in Nat /\ Len(new) = m /\ new[m] = in[n]
        /\ \A k \in 1..Len(out) : new[k] = out[k]
    OBVIOUS
  <1>2. /\ \A j \in 1..n : j \in 1..(n - 1) \/ j = n
        /\ \A j \in 1..(n - 1) : j \in 1..n /\ j < n
        /\ \A k \in 1..m : k \in 1..Len(out) \/ k = m
        /\ \A k \in 1..Len(out) : k \in 1..m /\ k < m
        /\ n \in 1..n /\ m \in 1..m
    BY <1>1
  <1> HIDE DEF new, m
  <1>3. KeptIsBound(in, n, new)
    <2>1. ASSUME NEW k \in 1..m
          PROVE  \E j \in 1..n : Bound(in[j]) /\ new[k] = in[j]
      <3>1. CASE k = m
        BY <1>1, <1>2, <3>1
      <3>2. CASE k \in 1..Len(out)
        <4>1. PICK j \in 1..(n - 1) : Bound(in[j]) /\ out[k] = in[j]
          BY <3>2 DEF KeptIsBound
        <4>2. j \in 1..n /\ new[k] = in[j]
          BY <1>1, <1>2, <3>2, <4>1
        <4> QED BY <4>1, <4>2
      <3> QED BY <1>2, <3>1, <3>2
    <2>2. ASSUME NEW j \in 1..n, Bound(in[j])
          PROVE  \E k \in 1..m : new[k] = in[j]
      <3>1. CASE j = n
        BY <1>1, <1>2, <3>1
      <3>2. CASE j \in 1..(n - 1)
        <4>1. PICK k \in 1..Len(out) : out[k] = in[j]
          BY <2>2, <3>2 DEF KeptIsBound
        <4>2. k \in 1..m /\ new[k] = in[j]
          BY <1>1, <1>2, <4>1
        <4> QED BY <4>2
      <3> QED BY <1>2, <3>1, <3>2
    <2> QED BY <1>1, <2>1, <2>2, Zenon DEF KeptIsBound
  <1>4. SameFirstToken(in, n, new)
    <2>1. CASE /\ \A k \in 1..Len(out) : ~IsToken(out[k])
               /\ \A j \in 1..(n - 1) : Bound(in[j]) => ~IsToken(in[j])
      <3>1. CASE ~IsToken(in[n])
        BY <1>1, <1>2, <2>1, <3>1 DEF SameFirstToken
      <3>2. CASE IsToken(in[n])
        <4>1. \A l \in 1..m : IsToken(new[l]) => m <= l
          BY <1>1, <1>2, <2>1
        <4>2. \A l \in 1..n : Bound(in[l]) /\ IsToken(in[l]) => n <= l
          BY <1>2, <2>1
        <4> QED BY <1>1, <1>2, <3>2, <4>1, <4>2 DEF SameFirstToken
      <3> QED BY <3>1, <3>2
    <2>2. ASSUME NEW k \in 1..Len(out), NEW j \in 1..(n - 1),
                 out[k] = in[j], Bound(in[j]), IsToken(in[j]),
                 \A l \in 1..Len(out) : IsToken(out[l]) => k <= l,
                 \A l \in 1..(n - 1) : Bound(in[l]) /\ IsToken(in[l]) => j <= l
          PROVE  SameFirstToken(in, n, new)
      <3>1. \A l \in 1..m : IsToken(new[l]) => k <= l
        BY <1>1, <1>2, <2>2, SMTT(60)
      <3>2. \A l \in 1..n : Bound(in[l]) /\ IsToken(in[l]) => j <= l
        BY <1>2, <2>2, SMTT(60)
      <3> QED BY <1>1, <1>2, <2>2, <3>1, <3>2, Zenon DEF SameFirstToken
    <2> QED BY <2>1, <2>2, Zenon DEF SameFirstToken
  <1> QED BY <1>3, <1>4 DEF new

\* One iteration of the fold keeps the accumulators those of the strongest.
LEMMA FoldItem ==
    ASSUME NEW s \in Seq(Evidence), NEW n \in Nat, 1 <= n, n + 1 <= Len(s),
           NEW a \in {Iaa1, Iaa2}, NEW p \in PresenceLevels, NEW t \in Int,
           NEW a2, NEW p2, NEW t2,
           Accumulated(s, n, a, p, t),
           a2 = IF AssuranceOf(s[n + 1]) > a THEN AssuranceOf(s[n + 1]) ELSE a,
           IF Outranks(PresenceOf(s[n + 1]), s[n + 1].at, p, t)
             THEN p2 = PresenceOf(s[n + 1]) /\ t2 = s[n + 1].at
             ELSE p2 = p /\ t2 = t
    PROVE  Accumulated(s, n + 1, a2, p2, t2)
  <1>1. \A k \in 1..(n + 1) :
           /\ PresenceOf(s[k]) \in PresenceLevels
           /\ AssuranceOf(s[k]) \in {Iaa1, Iaa2}
           /\ s[k].at \in Int
    <2> TAKE k \in 1..(n + 1)
    <2>1. s[k] \in Evidence
      OBVIOUS
    <2> QED BY <2>1, TierFacts
  <1>2. /\ \A k \in 1..(n + 1) : k \in 1..n \/ k = n + 1
        /\ \A k \in 1..n : k \in 1..(n + 1)
        /\ n + 1 \in 1..(n + 1)
    OBVIOUS
  <1>3. \E k \in 1..(n + 1) : p2 = PresenceOf(s[k]) /\ t2 = s[k].at
    <2>1. CASE Outranks(PresenceOf(s[n + 1]), s[n + 1].at, p, t)
      BY <1>2, <2>1
    <2>2. CASE ~Outranks(PresenceOf(s[n + 1]), s[n + 1].at, p, t)
      BY <1>2, <2>2 DEF Accumulated
    <2> QED BY <2>1, <2>2
  <1>4. \A k \in 1..(n + 1) : ~Outranks(PresenceOf(s[k]), s[k].at, p2, t2)
    <2>1. CASE Outranks(PresenceOf(s[n + 1]), s[n + 1].at, p, t)
      <3> TAKE k \in 1..(n + 1)
      <3>1. k \in 1..n => ~Outranks(PresenceOf(s[k]), s[k].at, p, t)
        BY DEF Accumulated
      <3> QED BY <1>1, <1>2, <2>1, <3>1, SMTT(60)
          DEF Outranks, PresenceLevels, PresenceNone, PresenceHardware
    <2>2. CASE ~Outranks(PresenceOf(s[n + 1]), s[n + 1].at, p, t)
      BY <1>2, <2>2, Zenon DEF Accumulated
    <2> QED BY <2>1, <2>2
  <1>5. \E k \in 1..(n + 1) : a2 = AssuranceOf(s[k])
    BY <1>2 DEF Accumulated
  <1>6. \A k \in 1..(n + 1) : AssuranceOf(s[k]) <= a2
    BY <1>1, <1>2, SMTT(60) DEF Accumulated, Iaa1, Iaa2
  <1> QED BY <1>3, <1>4, <1>5, <1>6 DEF Accumulated

\* The accumulators and the first kept token are what Derive chooses.
LEMMA FinishIsDerive ==
    ASSUME NEW in \in Seq(Evidence), NEW out \in Seq(Evidence), out # << >>,
           NEW a \in {Iaa1, Iaa2}, NEW p \in PresenceLevels, NEW t \in Int,
           KeptIsBound(in, Len(in), out), SameFirstToken(in, Len(in), out),
           Accumulated(out, Len(out), a, p, t)
    PROVE  Derive(Candidate, Challenge, in)
             = [source |-> Candidate.source,
                assurance |-> Combined(a, p),
                presence |-> p,
                domain |-> DomainAt(out, 1..Len(out), Candidate),
                path |-> Candidate.path,
                attestedAt |-> t]
  <1> DEFINE I == BoundAt(in, Candidate, Challenge)
             P(j) == PresenceOf(in[j])
             T(j) == in[j].at
             Best(j) == \A k \in I : ~Outranks(P(k), T(k), P(j), T(j))
             s == StrongestAt(in, I)
  <1>1. \A j : j \in I <=> j \in 1..Len(in) /\ Bound(in[j])
    BY DEF BoundAt, Bound
  <1>2. /\ \A j \in I : \E k \in 1..Len(out) : out[k] = in[j]
        /\ \A k \in 1..Len(out) : \E j \in I : out[k] = in[j]
    BY <1>1, Zenon DEF KeptIsBound
  <1>3. \A j \in I : /\ P(j) \in PresenceLevels
                     /\ AssuranceOf(in[j]) \in {Iaa1, Iaa2}
                     /\ T(j) \in Int
    <2> SUFFICES ASSUME NEW j \in I
                 PROVE  /\ P(j) \in PresenceLevels
                        /\ AssuranceOf(in[j]) \in {Iaa1, Iaa2}
                        /\ T(j) \in Int
      OBVIOUS
    <2>1. in[j] \in Evidence
      BY <1>1
    <2> QED BY <2>1, TierFacts
  <1> HIDE DEF I
  <1>4. PICK b \in I : p = P(b) /\ t = T(b)
    <2>1. PICK k \in 1..Len(out) : p = PresenceOf(out[k]) /\ t = out[k].at
      BY Zenon DEF Accumulated
    <2>2. PICK b \in I : out[k] = in[b]
      BY <1>2, Zenon
    <2> QED BY <2>1, <2>2, Zenon
  <1>5. \A j \in I : ~Outranks(P(j), T(j), p, t) /\ AssuranceOf(in[j]) <= a
    BY <1>2, Zenon DEF Accumulated
  <1>6. s \in I /\ Best(s)
    <2>1. Best(b)
      BY <1>4, <1>5
    <2> QED BY <1>4, <2>1 DEF StrongestAt
  <1> HIDE DEF s
  <1>7. P(s) = p /\ T(s) = t
    <2>1. ~Outranks(P(s), T(s), p, t) /\ ~Outranks(p, t, P(s), T(s))
      BY <1>4, <1>5, <1>6, Zenon
    <2>2. P(s) \in PresenceLevels /\ T(s) \in Int
      BY <1>3, <1>6
    <2> QED BY <2>1, <2>2, SMTT(60) DEF Outranks, PresenceLevels, PresenceNone, PresenceHardware
  <1>8. Max({AssuranceOf(in[j]) : j \in I}) = a
    <2> DEFINE A == {AssuranceOf(in[j]) : j \in I}
    <2>1. a \in A
      BY <1>2 DEF Accumulated
    <2>2. A \in SUBSET Int /\ \A x \in A : x <= a
      BY <1>3, <1>5 DEF Iaa1, Iaa2
    <2> HIDE DEF A
    <2>3. Max(A) = a
      BY <2>1, <2>2, MaxIs
    <2> QED BY <2>3 DEF A
  <1>9. DomainAt(in, I, Candidate) = DomainAt(out, 1..Len(out), Candidate)
    <2> DEFINE TI == {j \in I : in[j].kind = "IdpVerified"}
               TO == {k \in 1..Len(out) : out[k].kind = "IdpVerified"}
    <2>1. CASE /\ \A k \in 1..Len(out) : ~IsToken(out[k])
               /\ \A j \in 1..Len(in) : Bound(in[j]) => ~IsToken(in[j])
      <3>1. TI = {} /\ TO = {}
        BY <1>1, <2>1 DEF IsToken
      <3> QED BY <3>1 DEF DomainAt
    <2>2. ASSUME NEW k \in 1..Len(out), NEW j \in 1..Len(in),
                 out[k] = in[j], Bound(in[j]), IsToken(in[j]),
                 \A l \in 1..Len(out) : IsToken(out[l]) => k <= l,
                 \A l \in 1..Len(in) : Bound(in[l]) /\ IsToken(in[l]) => j <= l
          PROVE  DomainAt(in, I, Candidate) = DomainAt(out, 1..Len(out), Candidate)
      <3>1. j \in TI /\ TI \in SUBSET Int /\ \A l \in TI : j <= l
        BY <1>1, <2>2 DEF IsToken
      <3>2. k \in TO /\ TO \in SUBSET Int /\ \A l \in TO : k <= l
        BY <2>2 DEF IsToken
      <3> HIDE DEF TI, TO
      <3>3. Min(TI) = j /\ Min(TO) = k
        BY <3>1, <3>2, MinIs
      <3>4. TI # {} /\ TO # {}
        BY <3>1, <3>2
      <3>5. in[Min(TI)].issuer = out[Min(TO)].issuer
        BY <2>2, <3>3
      <3> QED BY <3>4, <3>5 DEF DomainAt, TI, TO
    <2> QED BY <2>1, <2>2 DEF SameFirstToken
  <1>10. I # {}
    BY <1>4
  <1> QED BY <1>7, <1>8, <1>9, <1>10, Zenon DEF Derive, I, s

\* The loop starts with nothing filtered.
LEMMA DeriveInitHolds == DeriveInit => DeriveInv
  <1> SUFFICES ASSUME DeriveInit PROVE DeriveInv
    OBVIOUS
  <1>1. DeriveTypeOK
    BY InputsAssumption
    DEF DeriveInit, DeriveTypeOK, Iaa1, Iaa2, PresenceLevels, PresenceNone, PresenceHardware
  <1>2. /\ KeptIsBound(evidence, pos - 1, kept) /\ SameFirstToken(evidence, pos - 1, kept)
    BY DEF DeriveInit, KeptIsBound, SameFirstToken
  <1>3. pos \in 1..(Len(evidence) + 1)
    BY <1>1 DEF DeriveInit, DeriveTypeOK
  <1> QED BY <1>1, <1>2, <1>3 DEF DeriveInv, DeriveInit, ComputesDerive

\* Every step keeps the counters and accumulators in range.
LEMMA DeriveStepTypeOK == DeriveTypeOK /\ [DeriveNext]_deriveVars => DeriveTypeOK'
  <1> SUFFICES ASSUME DeriveTypeOK, [DeriveNext]_deriveVars PROVE DeriveTypeOK'
    OBVIOUS
  <1>1. CASE Filter
    <2>1. evidence[pos] \in Evidence
      BY <1>1 DEF Filter, DeriveTypeOK
    <2>2. kept' \in Seq(Evidence)
      BY <1>1, <2>1 DEF Filter, DeriveTypeOK
    <2> QED BY <1>1, <2>2 DEF Filter, DeriveTypeOK
  <1>2. CASE SplitFirst
    <2>1. CASE kept # << >>
      <3>1. kept[1] \in Evidence
        BY <2>1 DEF DeriveTypeOK
      <3>2. /\ PresenceOf(kept[1]) \in PresenceLevels
            /\ AssuranceOf(kept[1]) \in {Iaa1, Iaa2}
            /\ kept[1].at \in Int
        BY <3>1, TierFacts
      <3> QED BY <1>2, <2>1, <3>2 DEF SplitFirst, DeriveTypeOK, Tier
    <2>2. CASE kept = << >>
      BY <1>2, <2>2, Zenon DEF SplitFirst, DeriveTypeOK
    <2> QED BY <2>1, <2>2, Zenon
  <1>3. CASE Fold
    <2>1. kept[pos] \in Evidence
      BY <1>3 DEF Fold, DeriveTypeOK
    <2>2. /\ PresenceOf(kept[pos]) \in PresenceLevels
          /\ AssuranceOf(kept[pos]) \in {Iaa1, Iaa2}
          /\ kept[pos].at \in Int
      BY <2>1, TierFacts
    <2> QED BY <1>3, <2>2 DEF Fold, DeriveTypeOK, Tier
  <1>4. CASE Finish
    BY <1>4 DEF Finish, DeriveTypeOK
  <1>5. CASE UNCHANGED deriveVars
    BY <1>5 DEF deriveVars, DeriveTypeOK
  <1> QED BY <1>1, <1>2, <1>3, <1>4, <1>5 DEF DeriveNext

\* Every step of the loop keeps the invariant.
LEMMA DeriveNextHolds == DeriveInv /\ [DeriveNext]_deriveVars => DeriveInv'
  <1> SUFFICES ASSUME DeriveInv, [DeriveNext]_deriveVars PROVE DeriveInv'
    OBVIOUS
  <1>0. DeriveTypeOK /\ Len(evidence) \in Nat /\ Len(kept) \in Nat /\ pos \in Int
    BY DEF DeriveInv, DeriveTypeOK
  <1>1. DeriveTypeOK'
    BY <1>0, DeriveStepTypeOK
  <1>2. CASE Filter
    <2>1. /\ pc = "filter" /\ pos \in 1..Len(evidence) /\ pos' - 1 = pos
          /\ evidence' = evidence /\ pc' = pc /\ claim' = claim
      BY <1>0, <1>2 DEF Filter, DeriveTypeOK
    <2>2. KeptIsBound(evidence, pos - 1, kept) /\ SameFirstToken(evidence, pos - 1, kept)
      BY <2>1 DEF DeriveInv
    <2>3. KeptIsBound(evidence, pos, kept') /\ SameFirstToken(evidence, pos, kept')
      <3>1. CASE Bound(evidence[pos])
        <4>1. kept' = Append(kept, evidence[pos])
          BY <1>2, <3>1 DEF Filter, Bound
        <4> QED BY <1>0, <2>1, <2>2, <3>1, <4>1, KeepItem DEF DeriveTypeOK
      <3>2. CASE ~Bound(evidence[pos])
        <4>1. kept' = kept
          BY <1>2, <3>2 DEF Filter, Bound
        <4> QED BY <1>0, <2>1, <2>2, <3>2, <4>1, SkipItem DEF DeriveTypeOK
      <3> QED BY <3>1, <3>2
    <2>4. pos' \in 1..(Len(evidence') + 1)
      BY <1>0, <1>2, <2>1 DEF Filter
    <2> QED BY <1>1, <2>1, <2>3, <2>4, Zenon DEF DeriveInv, ComputesDerive
  <1>3. CASE SplitFirst
    <2>1. /\ pc = "filter" /\ pos - 1 = Len(evidence)
          /\ evidence' = evidence /\ kept' = kept /\ claim' = claim /\ claim = NoClaim
          /\ KeptIsBound(evidence, Len(evidence), kept)
          /\ SameFirstToken(evidence, Len(evidence), kept)
      BY <1>0, <1>3 DEF SplitFirst, DeriveInv
    <2>2. CASE kept = << >>
      <3>1. BoundAt(evidence, Candidate, Challenge) = {}
        BY <2>1, <2>2 DEF KeptIsBound, BoundAt, Bound
      <3>2. Derive(Candidate, Challenge, evidence) = NoClaim
        BY <3>1 DEF Derive
      <3>3. pc' = "done"
        BY <1>3, <2>2 DEF SplitFirst
      <3> QED BY <1>1, <2>1, <3>2, <3>3 DEF DeriveInv, ComputesDerive
    <2>3. CASE kept # << >>
      <3>1. /\ pc' = "fold" /\ pos' = 2
            /\ assurance' = AssuranceOf(kept[1])
            /\ presence' = PresenceOf(kept[1])
            /\ attestedAt' = kept[1].at
        BY <1>3, <2>3 DEF SplitFirst, Tier
      <3>2. kept[1] \in Evidence /\ Len(kept) >= 1
        BY <1>0, <2>3 DEF DeriveTypeOK
      <3>3. \A k \in 1..1 : k = 1
        OBVIOUS
      <3>4. Accumulated(kept, 1, assurance', presence', attestedAt')
        <4>1. /\ PresenceOf(kept[1]) \in PresenceLevels
              /\ AssuranceOf(kept[1]) \in {Iaa1, Iaa2}
              /\ kept[1].at \in Int
          BY <3>2, TierFacts
        <4>2. ~Outranks(presence', attestedAt', presence', attestedAt')
          BY <3>1, <4>1 DEF Outranks, PresenceLevels, PresenceNone, PresenceHardware
        <4>3. assurance' <= assurance'
          BY <3>1, <4>1 DEF Iaa1, Iaa2
        <4> QED BY <3>1, <3>3, <4>2, <4>3 DEF Accumulated
      <3>5. pos' \in 2..(Len(kept') + 1) /\ pos' - 1 = 1
        BY <1>0, <2>1, <3>1, <3>2
      <3> QED BY <1>1, <2>1, <3>1, <3>4, <3>5 DEF DeriveInv, ComputesDerive
    <2> QED BY <2>2, <2>3
  <1>4. CASE Fold
    <2>1. /\ pc = "fold" /\ pc' = pc /\ pos \in 2..Len(kept) /\ pos' = pos + 1
          /\ evidence' = evidence /\ kept' = kept
          /\ KeptIsBound(evidence, Len(evidence), kept)
          /\ SameFirstToken(evidence, Len(evidence), kept)
          /\ Accumulated(kept, pos - 1, assurance, presence, attestedAt)
      BY <1>0, <1>4 DEF Fold, DeriveInv
    <2>2. PICK n \in Nat : n = pos - 1 /\ 1 <= n /\ n + 1 = pos /\ n + 1 <= Len(kept)
      BY <1>0, <2>1
    <2>3. Accumulated(kept, n + 1, assurance', presence', attestedAt')
      BY <1>0, <1>4, <2>1, <2>2, FoldItem, Zenon DEF Fold, Tier, DeriveTypeOK
    <2>4. pos' \in 2..(Len(kept') + 1) /\ pos' - 1 = n + 1
      BY <1>0, <2>1, <2>2
    <2> QED BY <1>1, <2>1, <2>3, <2>4, Zenon DEF DeriveInv, ComputesDerive
  <1>5. CASE Finish
    <2>1. /\ pc = "fold" /\ pc' = "done" /\ pos - 1 = Len(kept) /\ kept # << >>
          /\ evidence' = evidence
          /\ KeptIsBound(evidence, Len(evidence), kept)
          /\ SameFirstToken(evidence, Len(evidence), kept)
          /\ Accumulated(kept, pos - 1, assurance, presence, attestedAt)
      BY <1>0, <1>5, SMTT(60) DEF Finish, DeriveInv
    <2>2. claim' = Derive(Candidate, Challenge, evidence)
      BY <1>0, <1>5, <2>1, FinishIsDerive, SMTT(60) DEF Finish, DeriveTypeOK
    <2> QED BY <1>1, <2>1, <2>2 DEF DeriveInv, ComputesDerive
  <1>6. CASE UNCHANGED deriveVars
    BY <1>1, <1>6 DEF deriveVars, DeriveInv, ComputesDerive
  <1> QED BY <1>2, <1>3, <1>4, <1>5, <1>6 DEF DeriveNext

\* Claim::derive (claim.rs:823-879) computes Derive, for every evidence slice
\* of every length and every candidate and challenge.
THEOREM DeriveIsComputed == DeriveSpec => []ComputesDerive
  <1>1. DeriveSpec => []DeriveInv
    BY DeriveInitHolds, DeriveNextHolds, PTL DEF DeriveSpec
  <1>2. DeriveInv => ComputesDerive
    BY DEF DeriveInv
  <1> QED BY <1>1, <1>2, PTL

-----------------------------------------------------------------------------
(* The life of a token.                                                    *)

\* The claims a request gathers, and its record.
Claims == [domain : Domains, presence : PresenceLevels, attestedAt : Nat]

Request ==
    [phase : {"idle", "proving", "issuing"}, audiences : AudienceLists \cup {<< >>},
     claims : SUBSET Claims, now : Nat, stepped : BOOLEAN]

\* What a token was made from, and what it carries of it.
Sound(t) ==
    /\ t.kid \in Nat /\ t.kid <= epoch
    /\ t.audiences \in AudienceLists \cup {<< >>}
    /\ t.iat \in Nat /\ t.exp = t.iat + TokenTtl
    /\ t.claim \in Claims /\ t.now \in Nat
    /\ t.present = (PresenceAt(t.claim, t.now, PresenceTtl * Tick) # PresenceNone)
    /\ t.published = PublishedAt(t.claim)
    /\ ~t.stepped => t.claim.attestedAt \div Tick <= t.iat
    /\ Issuable(t.claim, t.audiences, t.now, PresenceTtl * Tick)

\* The inductive invariant of tokens: each is still what it was signed as, the
\* bundles are those of the running incarnation, and a request that saw no backward
\* step has its observations in the past.
IInv ==
    /\ clock \in Nat /\ epoch \in Nat
    /\ bundles = Boot(epoch)
    /\ req \in Request
    /\ ~req.stepped => \A c \in req.claims : c.attestedAt <= clock
    /\ \A t \in tokens : Sound(t)

-----------------------------------------------------------------------------
(* Whole seconds.                                                          *)

\* The second an instant falls in.
LEMMA SecondOf ==
    ASSUME NEW n \in Nat
    PROVE  /\ n \div Tick \in Nat
           /\ (n \div Tick) * Tick <= n
           /\ n < (n \div Tick + 1) * Tick
  <1>1. Tick \in Nat \ {0}
    BY SvidAssumption, Zenon
  <1> QED BY <1>1

\* Later instants fall in later seconds.
LEMMA SecondMonotone ==
    ASSUME NEW m \in Nat, NEW n \in Nat, m <= n
    PROVE  m \div Tick <= n \div Tick
  <1>1. Tick \in Nat \ {0}
    BY SvidAssumption, Zenon
  <1> QED BY <1>1, SMTT(60)

-----------------------------------------------------------------------------
(* The gates of issue().                                                   *)

\* What an audience list folds to is at least what each member demands.
LEMMA RequiredIsEnough ==
    ASSUME NEW list \in AudienceLists \cup {<< >>}, NEW a \in Range(list)
    PROVE  /\ RequirePresence(list) \in PresenceLevels
           /\ a.presence \in PresenceLevels
           /\ a.presence <= RequirePresence(list)
  <1> DEFINE Audience == [name : STRING, presence : PresenceLevels,
                          maxAge : SUBSET Nat, valid : BOOLEAN]
             A == {PresenceNone} \cup {x.presence : x \in Range(list)}
  <1>1. list \in Seq(Audience)
    <2>1. CASE list \in AudienceLists
      BY <2>1, SvidAssumption, Zenon
    <2>2. CASE list = << >>
      BY <2>2
    <2> QED BY <2>1, <2>2
  <1> HIDE DEF Audience
  <1>2. \A x \in Range(list) : x \in Audience
    BY <1>1 DEF Range
  <1>3. \A x \in Range(list) : x.presence \in PresenceLevels
    BY <1>2 DEF Audience
  <1>4. PresenceLevels = 0..3 /\ PresenceNone = 0
    BY DEF PresenceLevels, PresenceNone, PresenceHardware
  <1>5. A \in SUBSET Nat /\ A # {} /\ \A y \in A : y <= 3 /\ y \in PresenceLevels
    BY <1>3, <1>4
  <1>6. Max(A) \in A /\ \A y \in A : y <= Max(A)
    BY <1>5, MaxOfBounded, Zenon
  <1> QED BY <1>3, <1>5, <1>6 DEF RequirePresence

\* The presence a token asserts is that of its claim, or none.
LEMMA PresenceIs ==
    ASSUME NEW c \in Claims, NEW now \in Nat, NEW ttl \in Nat
    PROVE  /\ PresenceAt(c, now, ttl) \in PresenceLevels
           /\ PresenceAt(c, now, ttl) # PresenceNone
                => /\ c.presence # PresenceNone
                   /\ c.attestedAt <= now
                   /\ now < c.attestedAt + ttl
  <1>1. c.presence \in PresenceLevels /\ c.attestedAt \in Nat
    BY DEF Claims
  <1>2. PresenceNone \in PresenceLevels
    BY DEF PresenceLevels, PresenceNone, PresenceHardware
  <1>3. CASE now >= c.attestedAt
    BY <1>1, <1>2, <1>3 DEF PresenceAt, AgeAt, NoAge
  <1>4. CASE ~(now >= c.attestedAt)
    BY <1>1, <1>2, <1>4 DEF PresenceAt, AgeAt, NoAge
  <1> QED BY <1>3, <1>4

-----------------------------------------------------------------------------

\* The daemon starts sound.
LEMMA InitIInv == Init => IInv
  BY SMTT(60) DEF Init, IInv, NoRequest, Request

\* A token that was sound stays so when the incarnation does not go back.
LEMMA SoundKept ==
    ASSUME NEW t \in tokens, Sound(t), epoch \in Nat, epoch' \in Nat, epoch <= epoch'
    PROVE  Sound(t)'
  BY DEF Sound, PublishedAt

\* What issue() signs is sound.
LEMMA IssueSound ==
    ASSUME IInv, NEW c \in req.claims,
           Issuable(c, req.audiences, req.now, PresenceTtl * Tick)
    PROVE  Sound(Token(c, PublishedAt(c)))
  <1>1. c \in Claims /\ req.now \in Nat /\ req.audiences \in AudienceLists \cup {<< >>}
    BY DEF IInv, Request
  <1>2. clock \in Nat /\ epoch \in Nat
    BY DEF IInv
  <1>3. clock \div Tick \in Nat /\ epoch <= epoch
    BY <1>2, SecondOf
  <1>4. c.attestedAt \in Nat /\ (~req.stepped => c.attestedAt <= clock)
    BY <1>1 DEF IInv, Claims
  <1>5. ~req.stepped => c.attestedAt \div Tick <= clock \div Tick
    BY <1>2, <1>4, SecondMonotone
  <1> QED BY <1>1, <1>2, <1>3, <1>5, Zenon DEF Sound, Token

\* Every step keeps the invariant.
LEMMA NextIInv == IInv /\ [Next]_vars => IInv'
  <1> SUFFICES ASSUME IInv, [Next]_vars PROVE IInv'
    OBVIOUS
  <1>1. CASE MoveClock
    <2>1. clock \in Nat /\ clock' \in Nat /\ UNCHANGED <<epoch, bundles, tokens>>
      BY <1>1, SvidAssumption DEF MoveClock, IInv
    <2>2. \A t \in tokens : Sound(t)'
      BY <2>1, SoundKept, SMTT(60) DEF IInv
    <2>3. PICK b \in BOOLEAN : b = (req.stepped \/ (clock' < clock /\ req.claims # {}))
      BY Zenon
    <2>4. req' = [req EXCEPT !.stepped = b] /\ req \in Request
      BY <1>1, <2>3, Zenon DEF MoveClock, IInv
    <2>5. req' \in Request /\ req'.claims = req.claims /\ req'.stepped = b
      BY <2>3, <2>4, Zenon DEF Request
    <2>6. \A c \in req.claims : c.attestedAt \in Nat
      BY <2>4 DEF Request, Claims
    <2>7. ~req'.stepped => \A c \in req'.claims : c.attestedAt <= clock'
      <3>1. ASSUME ~b, NEW c \in req.claims PROVE c.attestedAt <= clock'
        <4>1. ~(clock' < clock) /\ c.attestedAt <= clock
          BY <2>3, <3>1, Zenon DEF IInv
        <4>2. c.attestedAt \in Nat
          BY <2>6
        <4> QED BY <2>1, <4>1, <4>2
      <3> QED BY <2>5, <3>1, Zenon
    <2> QED BY <2>1, <2>2, <2>5, <2>7, Zenon DEF IInv, Boot
  <1>2. CASE Restart
    <2>1. epoch' = epoch + 1 /\ UNCHANGED <<clock, tokens>> /\ bundles' = Boot(epoch')
          /\ req' = NoRequest
      BY <1>2 DEF Restart
    <2>2. epoch' \in Nat /\ epoch <= epoch'
      BY <2>1 DEF IInv
    <2>3. \A t \in tokens : Sound(t)'
      BY <2>2, SoundKept DEF IInv
    <2> QED BY <2>1, <2>2, <2>3 DEF IInv, NoRequest, Request
  <1>3. CASE /\ UNCHANGED <<clock, epoch, bundles, tokens>> /\ req' \in Request
             /\ ~req'.stepped => \A c \in req'.claims : c.attestedAt <= clock
    <2>1. \A t \in tokens : Sound(t)'
      BY <1>3, SoundKept DEF IInv
    <2> QED BY <1>3, <2>1 DEF IInv, Boot
  <1>4. CASE Receive
    <2>1. PICK audiences \in AudienceLists :
             req' = [NoRequest EXCEPT !.phase = "proving", !.audiences = audiences]
      BY <1>4, Zenon DEF Receive
    <2>2. req' \in Request
      BY <2>1, Zenon DEF NoRequest, Request
    <2>3. req'.claims = {}
      BY <2>1 DEF NoRequest
    <2> QED BY <2>3, <1>3, <1>4, <2>2 DEF Receive
  <1>5. CASE Prove
    <2>1. PICK d \in Domains, level \in {PresenceNone, PresenceHardware} :
             req' = [req EXCEPT !.claims = @ \cup
                    {[domain |-> d, presence |-> level, attestedAt |-> clock]}]
      BY <1>5, Zenon DEF Prove
    <2>2. [domain |-> d, presence |-> level, attestedAt |-> clock] \in Claims
      BY DEF Claims, IInv, PresenceLevels, PresenceNone, PresenceHardware
    <2>3. PICK new : new = [domain |-> d, presence |-> level, attestedAt |-> clock]
      BY Zenon
    <2>4. req' = [req EXCEPT !.claims = @ \cup {new}] /\ new \in Claims /\ new.attestedAt = clock
      BY <2>1, <2>2, <2>3
    <2>5. req' \in Request /\ req'.claims = req.claims \cup {new} /\ req'.stepped = req.stepped
      BY <2>4 DEF IInv, Request
    <2>6. clock \in Nat /\ clock <= clock
      BY DEF IInv
    <2>7. ~req'.stepped => \A c \in req'.claims : c.attestedAt <= clock
      BY <2>4, <2>5, <2>6, Zenon DEF IInv
    <2> QED BY <1>3, <1>5, <2>5, <2>7, Zenon DEF Prove
  <1>6. CASE ReadClock
    <2>1. req' \in Request
      BY <1>6, Zenon DEF ReadClock, IInv, Request
    <2>2. req'.claims = req.claims /\ req'.stepped = req.stepped
      BY <1>6 DEF ReadClock, IInv, Request
    <2>3. ~req'.stepped => \A c \in req'.claims : c.attestedAt <= clock
      BY <2>2, Zenon DEF IInv
    <2> QED BY <1>3, <1>6, <2>1, <2>3, Zenon DEF ReadClock
  <1>7. CASE Issue
    <2>1. PICK c \in req.claims :
             /\ req' = [req EXCEPT !.claims = @ \ {c}]
             /\ IF Issuable(c, req.audiences, req.now, PresenceTtl * Tick)
                THEN /\ Cardinality(tokens) < MaxTokens
                     /\ tokens' = tokens \cup {Token(c, PublishedAt(c))}
                ELSE UNCHANGED tokens
      BY <1>7, Zenon DEF Issue
    <2>2. UNCHANGED <<clock, epoch, bundles>>
      BY <1>7 DEF Issue
    <2>3. req' \in Request /\ req'.claims = req.claims \ {c} /\ req'.stepped = req.stepped
      BY <2>1 DEF IInv, Request
    <2>6. ~req'.stepped => \A d \in req'.claims : d.attestedAt <= clock'
      BY <2>2, <2>3, Zenon DEF IInv
    <2>4. \A t \in tokens' : Sound(t)
      BY <2>1, IssueSound, SMTT(60) DEF IInv
    <2>5. \A t \in tokens' : Sound(t)'
      BY <2>2, <2>4, Zenon DEF Sound, PublishedAt
    <2> QED BY <2>2, <2>3, <2>5, <2>6 DEF IInv, Boot
  <1>8. CASE Reply
    <2>1. req' \in Request
      BY <1>8, Zenon DEF Reply, NoRequest, Request
    <2>2. req'.claims = {}
      BY <1>8 DEF Reply, NoRequest
    <2> QED BY <1>3, <1>8, <2>1, <2>2, Zenon DEF Reply
  <1>9. CASE UNCHANGED vars
    BY <1>3, <1>9 DEF vars, IInv
  <1> QED BY <1>1, <1>2, <1>4, <1>5, <1>6, <1>7, <1>8, <1>9 DEF Next

\* The invariant holds throughout.
LEMMA Invariance == Spec => []IInv
  BY InitIInv, NextIInv, PTL DEF Spec

\* PRESENCE_TTL: `present` is only said of an observation that lay in the past and
\* was younger than the TTL when the response was made, and always said to an
\* audience that demands presence.
THEOREM PresenceIsFresh == Spec => []PresenceDecays
  <1>1. IInv => PresenceDecays
    <2> SUFFICES ASSUME IInv, NEW t \in tokens
                 PROVE  /\ t.present => /\ t.claim.presence # PresenceNone
                                        /\ t.claim.attestedAt <= t.now
                                        /\ t.now < t.claim.attestedAt + PresenceTtl * Tick
                        /\ (\E a \in Range(t.audiences) : a.presence # PresenceNone) => t.present
      BY DEF PresenceDecays
    <2> DEFINE shown == PresenceAt(t.claim, t.now, PresenceTtl * Tick)
    <2>1. /\ t.claim \in Claims /\ t.now \in Nat
          /\ t.audiences \in AudienceLists \cup {<< >>}
          /\ t.present = (shown # PresenceNone)
          /\ shown >= RequirePresence(t.audiences)
      BY Zenon DEF IInv, Sound, Issuable
    <2>2. PresenceTtl * Tick \in Nat
      BY SvidAssumption
    <2>3. /\ shown \in PresenceLevels
          /\ shown # PresenceNone => /\ t.claim.presence # PresenceNone
                                     /\ t.claim.attestedAt <= t.now
                                     /\ t.now < t.claim.attestedAt + PresenceTtl * Tick
      BY <2>1, <2>2, PresenceIs, Zenon
    <2> HIDE DEF shown
    <2>4. ASSUME NEW a \in Range(t.audiences), a.presence # PresenceNone
          PROVE  shown # PresenceNone
      <3>1. /\ RequirePresence(t.audiences) \in PresenceLevels
            /\ a.presence \in PresenceLevels
            /\ a.presence <= RequirePresence(t.audiences)
        BY <2>1, RequiredIsEnough, Zenon
      <3> QED BY <2>1, <2>3, <2>4, <3>1
              DEF PresenceLevels, PresenceNone, PresenceHardware
    <2> QED BY <2>1, <2>3, <2>4, Zenon
  <1> QED BY <1>1, Invariance, PTL

\* present_until, read in whole seconds, is never reached late, for ticks of any
\* length, any TTLs and any movement of the clock; and without a backward step
\* between proof and signature an observation is dated no later than iat.
THEOREM WindowFailsClosed == Spec => []WindowIsHonest
  <1>1. IInv => WindowIsHonest
    <2> SUFFICES ASSUME IInv, NEW t \in tokens
                 PROVE  /\ clock \div Tick < t.published.presentUntil
                             => clock < t.claim.attestedAt + PresenceTtl * Tick
                        /\ ~t.stepped => /\ t.published.attestedAt <= t.iat
                                         /\ PresenceTtl <= TokenTtl => t.published.presentUntil <= t.exp
      BY Zenon DEF WindowIsHonest
    <2>1. /\ t.claim \in Claims /\ t.published = PublishedAt(t.claim) /\ clock \in Nat
          /\ t.iat \in Nat /\ t.exp = t.iat + TokenTtl
          /\ ~t.stepped => t.claim.attestedAt \div Tick <= t.iat
      BY Zenon DEF IInv, Sound
    <2>2. t.claim.attestedAt \in Nat
      BY <2>1 DEF Claims
    <2>3. PICK at, a, q : at = t.claim.attestedAt /\ a = at \div Tick /\ q = clock \div Tick
      BY Zenon
    <2>4. t.published.attestedAt = a /\ t.published.presentUntil = a + PresenceTtl
      BY <2>1, <2>3 DEF PublishedAt
    <2>5. /\ a \in Nat /\ a * Tick <= at /\ at \in Nat
          /\ q \in Nat /\ clock < (q + 1) * Tick
      BY <2>1, <2>2, <2>3, SecondOf
    <2>6. PresenceTtl \in Nat /\ TokenTtl \in Nat /\ Tick \in Nat
      BY SvidAssumption
    <2>7. ASSUME q < a + PresenceTtl PROVE clock < at + PresenceTtl * Tick
      <3>1. (q + 1) * Tick <= (a + PresenceTtl) * Tick
        BY <2>5, <2>6, <2>7
      <3>2. (a + PresenceTtl) * Tick = a * Tick + PresenceTtl * Tick
        BY <2>5, <2>6
      <3>3. /\ (q + 1) * Tick \in Nat /\ a * Tick \in Nat /\ PresenceTtl * Tick \in Nat
        BY <2>5, <2>6
      <3> QED BY <2>1, <2>5, <3>1, <3>2, <3>3
    <2>8. ASSUME ~t.stepped
          PROVE  a <= t.iat /\ (PresenceTtl <= TokenTtl => a + PresenceTtl <= t.exp)
      BY <2>1, <2>3, <2>5, <2>6, <2>8
    <2> QED BY <2>3, <2>4, <2>7, <2>8, Zenon
  <1> QED BY <1>1, Invariance, PTL

\* The key a token was signed with is published only by its own incarnation.
LEMMA PublishedIsOwn ==
    ASSUME IInv, NEW t, KeyPublished(t)
    PROVE  t.kid = epoch
  BY Zenon DEF IInv, Boot, KeyPublished

\* validate_jwtsvid accepts only tokens of the running incarnation, for their own
\* audience, that have not outlived their exp: a restart invalidates every token.
THEOREM AcceptanceIsLive == Spec => []AcceptedIsLive
  <1>1. IInv => AcceptedIsLive
    <2> SUFFICES ASSUME IInv, NEW t \in tokens, NEW name \in Names, Accepts(t, name)
                 PROVE  /\ t.kid = epoch
                        /\ name \in {a.name : a \in Range(t.audiences)}
                        /\ clock < (t.iat + TokenTtl + 1) * Tick
      BY Zenon DEF AcceptedIsLive
    <2>1. /\ KeyPublished(t) /\ clock \div Tick <= t.exp
          /\ \E a \in Range(t.audiences) : a.name = name
      BY Zenon DEF Accepts
    <2>2. t.kid = epoch
      BY <2>1, PublishedIsOwn
    <2>3. t.iat \in Nat /\ t.exp = t.iat + TokenTtl /\ clock \in Nat
      BY Zenon DEF IInv, Sound
    <2>4. clock < (t.iat + TokenTtl + 1) * Tick
      <3>1. PICK q : q = clock \div Tick
        OBVIOUS
      <3>2. q \in Nat /\ clock < (q + 1) * Tick
        BY <2>3, <3>1, SecondOf
      <3>3. PICK e : e = t.iat + TokenTtl
        BY Zenon
      <3>4. e \in Nat /\ q <= e /\ Tick \in Nat
        BY <2>1, <2>3, <3>1, <3>3, SvidAssumption
      <3>5. (q + 1) * Tick <= (e + 1) * Tick
        BY <3>2, <3>4
      <3>6. (q + 1) * Tick \in Nat /\ (e + 1) * Tick \in Nat
        BY <3>2, <3>4
      <3> QED BY <2>3, <3>2, <3>3, <3>5, <3>6
    <2> QED BY <2>1, <2>2, <2>4
  <1> QED BY <1>1, Invariance, PTL

\* What is true of OwnTokensValidate: a token of the running incarnation whose trust
\* domain main.rs published a bundle for is accepted by validate_jwtsvid for every
\* audience it was issued to, up to and including the second its exp names.
THEOREM PublishedTokensValidate ==
    Spec => [](\A t \in tokens :
                  t.kid = epoch /\ t.domain \in Published /\ clock \div Tick <= t.exp
                      => \A a \in Range(t.audiences) : Accepts(t, a.name))
  <1>1. IInv => \A t \in tokens :
                  t.kid = epoch /\ t.domain \in Published /\ clock \div Tick <= t.exp
                      => \A a \in Range(t.audiences) : Accepts(t, a.name)
    <2> SUFFICES ASSUME IInv, NEW t \in tokens, t.kid = epoch, t.domain \in Published,
                        clock \div Tick <= t.exp, NEW a \in Range(t.audiences)
                 PROVE  Accepts(t, a.name)
      BY Zenon
    <2>1. KeyPublished(t)
      BY DEF IInv, Boot, KeyPublished
    <2> QED BY <2>1, Zenon DEF Accepts
  <1> QED BY <1>1, Invariance, PTL

\* While the clock does not go back, a token validate_jwtsvid refused once is
\* refused for good, through requests, restarts and new bundles.
THEOREM RefusalLasts == Spec => RefusalIsFinal
  <1>1. ASSUME IInv, IInv', [Next]_vars, clock' >= clock,
               NEW t \in tokens, NEW name \in Names, Accepts(t, name)'
        PROVE  Accepts(t, name)
    <2>1. t.kid \in Nat /\ t.kid <= epoch /\ t.exp \in Nat /\ clock \in Nat /\ clock' \in Nat
      <3>1. Sound(t) /\ clock \in Nat /\ clock' \in Nat
        BY <1>1, Zenon DEF IInv
      <3>2. /\ t.kid \in Nat /\ t.kid <= epoch
            /\ t.iat \in Nat /\ t.exp = t.iat + TokenTtl
        BY <3>1, Zenon DEF Sound
      <3>3. TokenTtl \in Nat
        BY SvidAssumption, Zenon
      <3>4. t.exp \in Nat
        BY <3>2, <3>3
      <3> QED BY <3>1, <3>2, <3>4, Zenon
    <2>2. /\ t.domain \in DOMAIN bundles' /\ bundles'[t.domain] = t.kid
          /\ \E a \in Range(t.audiences) : a.name = name
          /\ clock' \div Tick <= t.exp
      BY <1>1 DEF Accepts, KeyPublished
    <2>3. t.domain \in Published /\ t.kid = epoch'
      BY <1>1, <2>2 DEF IInv, Boot
    <2>4. epoch' = epoch \/ epoch' = epoch + 1
      BY <1>1, Zenon DEF Next, vars, MoveClock, Restart, Receive, Prove, ReadClock, Issue, Reply
    <2>5. t.kid = epoch
      BY <1>1, <2>1, <2>3, <2>4 DEF IInv
    <2>6. KeyPublished(t)
      BY <1>1, <2>3, <2>5, Zenon DEF IInv, Boot, KeyPublished
    <2>7. clock \div Tick <= t.exp
      <3>1. /\ clock \div Tick \in Nat /\ clock' \div Tick \in Nat
            /\ clock \div Tick <= clock' \div Tick
        BY <1>1, <2>1, SecondOf, SecondMonotone
      <3> QED BY <2>1, <2>2, <3>1
    <2> QED BY <2>2, <2>6, <2>7 DEF Accepts
  <1>2. IInv /\ IInv' /\ [Next]_vars
          => [clock' >= clock
                => \A t \in tokens, name \in Names : ~Accepts(t, name) => ~Accepts(t, name)']_vars
    BY <1>1
  <1> QED BY <1>2, Invariance, PTL DEF Spec, RefusalIsFinal

-----------------------------------------------------------------------------
(* The peers of the daemon's connections.                                           *)

\* The listener's queue and the attestation: what waits is not yet named, waits
\* once, and the connection being attested left the queue and is the user's.
Queue ==
    /\ \A c \in Conns : conns[c].phase # "open" => conns[c].peer = Nothing
    /\ \A c \in Conns : conns[c].phase = "queued" => conns[c].pid \in Pids
    /\ \A i \in DOMAIN backlog : conns[backlog[i]].phase = "queued"
    /\ \A i, j \in DOMAIN backlog : backlog[i] = backlog[j] => i = j
    /\ \A i \in DOMAIN backlog : attest.step # "idle" => backlog[i] # attest.conn
    /\ attest.step # "idle" => /\ attest.conn \in Conns
                               /\ conns[attest.conn].phase = "queued"
                               /\ conns[attest.conn].uid = MyUid
    /\ attest.step = "idle" => attest.conn = Nothing

\* The undisturbed peer waits for its name, its process still is what connected, the
\* file still has its name, and the link read for it leads there.
Left(c) ==
    /\ conns[c].phase = "queued"
    /\ procs[conns[c].pid] # Nothing
    /\ procs[conns[c].pid].exe = before[c].exe
    /\ procs[conns[c].pid].path = before[c].path
    /\ procs[conns[c].pid].uid = conns[c].uid
    /\ disk[before[c].path] = before[c].exe
    /\ attest.step = "open" /\ attest.conn = c => attest.link = before[c].path

Undisturbed == \A c \in Conns : before[c] # Nothing => Left(c)

\* What the next call can find is of the window: the program whose link can be read,
\* then the file that the link leads to.
LinkInWindow ==
    attest.step = "link" /\ Readable(procs[conns[attest.conn].pid])
        => Program(procs[conns[attest.conn].pid]) \in ran

FileInWindow ==
    attest.step = "open" /\ attest.link # Nothing /\ disk[attest.link] # Nothing
        => [exe |-> disk[attest.link], path |-> attest.link] \in ran

\* The inductive invariant of the attestation.
PeerInv == AttestTypeOK /\ Queue /\ Undisturbed /\ LinkInWindow /\ FileInWindow

\* Sequence t is s, a sequence over S, with e behind it.
Grown(S, s, e, t) ==
    /\ Len(s) \in Nat /\ DOMAIN s = 1..Len(s)
    /\ t \in Seq(S) /\ DOMAIN t = 1..(Len(s) + 1)
    /\ \A i \in 1..Len(s) : t[i] = s[i] /\ s[i] \in S
    /\ t[Len(s) + 1] = e
    /\ \A i \in 1..(Len(s) + 1) : i \in 1..Len(s) \/ i = Len(s) + 1

\* What Append does to a sequence, index by index.
LEMMA AppendFacts ==
  ASSUME NEW S, NEW s \in Seq(S), NEW e \in S, NEW t, t = Append(s, e)
  PROVE  Grown(S, s, e, t)
  <1>1. Len(s) \in Nat /\ DOMAIN s = 1..Len(s) /\ \A i \in 1..Len(s) : s[i] \in S
    OBVIOUS
  <1>2. t \in Seq(S) /\ Len(t) = Len(s) + 1 /\ DOMAIN t = 1..Len(t)
    OBVIOUS
  <1>3. /\ \A i \in 1..Len(s) : t[i] = s[i]
        /\ t[Len(s) + 1] = e
    OBVIOUS
  <1>4. \A i \in 1..(Len(s) + 1) : i \in 1..Len(s) \/ i = Len(s) + 1
    BY <1>1
  <1> QED BY <1>1, <1>2, <1>3, <1>4, Zenon DEF Grown

\* What Tail does, index by index.
LEMMA TailFacts ==
  ASSUME NEW S, NEW s \in Seq(S), s # << >>, NEW t, t = Tail(s)
  PROVE  /\ Len(s) \in Nat /\ Len(s) > 0 /\ DOMAIN s = 1..Len(s)
         /\ Head(s) = s[1] /\ s[1] \in S
         /\ t \in Seq(S) /\ DOMAIN t = 1..(Len(s) - 1)
         /\ \A i \in 1..(Len(s) - 1) : t[i] = s[i + 1]
  <1>1. Len(s) \in Nat /\ Len(s) > 0 /\ DOMAIN s = 1..Len(s)
    OBVIOUS
  <1>2. Head(s) = s[1] /\ s[1] \in S
    BY <1>1
  <1>3. t \in Seq(S) /\ Len(t) = Len(s) - 1 /\ DOMAIN t = 1..Len(t)
    OBVIOUS
  <1>4. \A i \in 1..(Len(s) - 1) : t[i] = s[i + 1]
    BY <1>1
  <1> QED BY <1>1, <1>2, <1>3, <1>4, Zenon

\* Nothing is attested in an initial state.
LEMMA PeerInitHolds == AttestInit => PeerInv
  <1> SUFFICES ASSUME AttestInit PROVE PeerInv
    OBVIOUS
  <1>1. /\ \A c \in Conns : before[c] = Nothing
        /\ attest.step = "idle" /\ attest.conn = Nothing /\ backlog = << >>
    BY Zenon DEF AttestInit, NoAttest
  <1>2. \A c \in Conns : conns[c].phase = "none" /\ conns[c].peer = Nothing
    BY Zenon DEF AttestInit, Unconnected
  <1>3. AttestTypeOK
    <2>1. backlog \in Seq(Conns)
      BY <1>1
    <2>2. disk \in [Paths -> Files \cup {Nothing}] /\ gone \subseteq Files
      BY Zenon DEF AttestInit
    <2>3. /\ procs \in [Pids -> [exe : Files, path : Paths, uid : Uids] \cup {Nothing}]
          /\ before \in [Conns -> [exe : Files, path : Paths] \cup {Nothing}]
          /\ ran \subseteq [exe : Files, path : Paths]
      BY Zenon DEF AttestInit
    <2>4. Unconnected \in [phase : {"none", "queued", "open"}, pid : Pids \cup {Nothing},
                           uid : Uids \cup {Nothing}, peer : Consumers \cup {Nothing}]
      BY DEF Unconnected
    <2>5. conns \in [Conns -> [phase : {"none", "queued", "open"}, pid : Pids \cup {Nothing},
                               uid : Uids \cup {Nothing}, peer : Consumers \cup {Nothing}]]
      BY <2>4, Zenon DEF AttestInit
    <2>6. attest \in [step : {"idle", "link", "open"}, conn : Conns \cup {Nothing},
                      link : Paths \cup {Nothing}]
      BY DEF AttestInit, NoAttest
    <2> QED BY <2>1, <2>2, <2>3, <2>5, <2>6, Zenon DEF AttestTypeOK
  <1>4. DOMAIN backlog = {}
    BY <1>1
  <1>5. Queue
    BY <1>1, <1>2, <1>4, Zenon DEF Queue
  <1>6. Undisturbed
    BY <1>1, Zenon DEF Undisturbed
  <1>7. LinkInWindow /\ FileInWindow
    BY <1>1 DEF LinkInWindow, FileInWindow
  <1> QED BY <1>3, <1>5, <1>6, <1>7, Zenon DEF PeerInv

\* The program of a process is an executable and the path it was started by.
LEMMA ProgramType ==
  ASSUME NEW proc \in [exe : Files, path : Paths, uid : Uids] \cup {Nothing}, proc # Nothing
  PROVE  /\ Program(proc) \in [exe : Files, path : Paths]
         /\ Program(proc).exe = proc.exe
         /\ Program(proc).path = proc.path
  <1>1. proc \in [exe : Files, path : Paths, uid : Uids]
    OBVIOUS
  <1> QED BY <1>1 DEF Program

\* Spawning, exec and exit change one process; a peer whose pid is that process
\* counts as disturbed.
LEMMA ProcessKeeps ==
  ASSUME PeerInv, NEW pid \in Pids, Spawn(pid) \/ Exec(pid) \/ ExitProcess(pid)
  PROVE  PeerInv'
  <1>1. /\ UNCHANGED <<disk, gone, reachable, conns, backlog, attest>>
        /\ TouchesPid(pid)
        /\ \A q \in Pids : q # pid => procs'[q] = procs[q]
        /\ procs' \in [Pids -> [exe : Files, path : Paths, uid : Uids] \cup {Nothing}]
    <2>1. CASE Spawn(pid)
      <3>1. PICK path \in Paths, uid \in Uids :
               /\ disk[path] # Nothing
               /\ procs' = [procs EXCEPT ![pid] = [exe |-> disk[path], path |-> path, uid |-> uid]]
        BY <2>1, Zenon DEF Spawn
      <3>2. disk[path] \in Files /\ procs \in [Pids -> [exe : Files, path : Paths, uid : Uids]
                                                          \cup {Nothing}]
        BY <3>1, Zenon DEF PeerInv, AttestTypeOK
      <3>3. [exe |-> disk[path], path |-> path, uid |-> uid]
               \in [exe : Files, path : Paths, uid : Uids]
        BY <3>1, <3>2, Zenon
      <3>4. /\ procs' \in [Pids -> [exe : Files, path : Paths, uid : Uids] \cup {Nothing}]
            /\ \A q \in Pids : q # pid => procs'[q] = procs[q]
        BY <3>1, <3>2, <3>3, Zenon
      <3> QED BY <2>1, <3>4, Zenon DEF Spawn
    <2>2. CASE Exec(pid)
      <3>1. PICK at \in Paths :
               /\ disk[at] \notin {Nothing, procs[pid].exe}
               /\ procs' = [procs EXCEPT ![pid].exe = disk[at], ![pid].path = at]
        BY <2>2, Zenon DEF Exec
      <3>2. disk[at] \in Files
        BY <3>1, Zenon DEF PeerInv, AttestTypeOK
      <3>3. procs[pid] \in [exe : Files, path : Paths, uid : Uids]
        BY <2>2, Zenon DEF Exec, PeerInv, AttestTypeOK
      <3>4. /\ procs' \in [Pids -> [exe : Files, path : Paths, uid : Uids] \cup {Nothing}]
            /\ \A q \in Pids : q # pid => procs'[q] = procs[q]
        BY <3>1, <3>2, <3>3, Zenon DEF PeerInv, AttestTypeOK
      <3> QED BY <2>2, <3>4, Zenon DEF Exec
    <2>3. CASE ExitProcess(pid)
      BY <2>3, Zenon DEF ExitProcess, PeerInv, AttestTypeOK
    <2> QED BY <2>1, <2>2, <2>3, Zenon
  <1>2. /\ before' \in [Conns -> [exe : Files, path : Paths] \cup {Nothing}]
        /\ \A c \in Conns : before'[c] # Nothing
              => before'[c] = before[c] /\ conns[c].pid # pid
    BY Zenon, <1>1 DEF TouchesPid, PeerInv, AttestTypeOK
  <1>3. /\ ran \subseteq ran'
        /\ ran' \subseteq [exe : Files, path : Paths]
        /\ attest.conn # Nothing /\ conns[attest.conn].pid = pid /\ Readable(procs'[pid])
              => Program(procs'[pid]) \in ran'
    <2>1. ran \subseteq [exe : Files, path : Paths]
      BY Zenon DEF PeerInv, AttestTypeOK
    <2>2. Readable(procs'[pid]) => Program(procs'[pid]) \in [exe : Files, path : Paths]
      <3>1. procs'[pid] \in [exe : Files, path : Paths, uid : Uids] \cup {Nothing}
        BY <1>1, Zenon
      <3>2. Readable(procs'[pid]) => procs'[pid] # Nothing
        BY Zenon DEF Readable
      <3> QED BY <3>1, <3>2, ProgramType, Zenon
    <2> QED BY <1>1, <2>1, <2>2, Zenon DEF TouchesPid
  <1>4. AttestTypeOK'
    BY <1>1, <1>2, <1>3, Zenon DEF PeerInv, AttestTypeOK
  <1>5. Queue'
    BY <1>1, Zenon DEF PeerInv, Queue
  <1>6. Undisturbed'
    <2> SUFFICES ASSUME NEW c \in Conns, before'[c] # Nothing PROVE Left(c)'
      BY Zenon DEF Undisturbed
    <2>1. before'[c] = before[c] /\ conns[c].pid # pid
      BY <1>2, Zenon
    <2>2. Left(c)
      BY <2>1, Zenon DEF PeerInv, Undisturbed
    <2>3. conns[c].pid \in Pids
      BY <2>2, Zenon DEF Left, PeerInv, Queue
    <2>4. procs'[conns[c].pid] = procs[conns[c].pid]
      BY <1>1, <2>1, <2>3, Zenon
    <2> QED BY <1>1, <2>1, <2>2, <2>4, Zenon DEF Left
  <1>7. LinkInWindow'
    <2> DEFINE q == conns[attest.conn].pid
    <2> SUFFICES ASSUME attest.step = "link", Readable(procs'[q]) PROVE Program(procs'[q]) \in ran'
      BY <1>1, Zenon DEF LinkInWindow
    <2>1. attest.conn \in Conns /\ attest.conn # Nothing /\ q \in Pids
      BY NothingAssumption, Zenon DEF PeerInv, Queue
    <2>2. CASE q = pid
      BY <1>3, <2>1, <2>2, Zenon
    <2>3. CASE q # pid
      BY <1>1, <1>3, <2>1, <2>3, Zenon DEF PeerInv, LinkInWindow
    <2> QED BY <2>2, <2>3, Zenon
  <1>8. FileInWindow'
    BY <1>1, <1>3, Zenon DEF PeerInv, FileInWindow
  <1> QED BY <1>4, <1>5, <1>6, <1>7, <1>8, Zenon DEF PeerInv

\* Replacing a file changes one path; a peer that runs it counts as disturbed.
LEMMA ReplaceFileKeeps ==
  ASSUME PeerInv, NEW at \in Paths, ReplaceFile(at)
  PROVE  PeerInv'
  <1>1. /\ UNCHANGED <<procs, reachable, conns, backlog, attest>>
        /\ TouchesPath(at)
        /\ disk' \in [Paths -> Files \cup {Nothing}]
        /\ gone' \subseteq Files
        /\ \A p \in Paths : p # at => disk'[p] = disk[p]
    <2>1. disk \in [Paths -> Files \cup {Nothing}] /\ gone \subseteq Files
      BY Zenon DEF PeerInv, AttestTypeOK
    <2>2. /\ disk[at] # Nothing /\ gone' = gone \cup {disk[at]}
          /\ TouchesPath(at)
          /\ UNCHANGED <<procs, reachable, conns, backlog, attest>>
      BY Zenon DEF ReplaceFile
    <2>3. PICK new \in Files \cup {Nothing} : disk' = [disk EXCEPT ![at] = new]
      BY Zenon DEF ReplaceFile
    <2>4. /\ disk' \in [Paths -> Files \cup {Nothing}]
          /\ \A p \in Paths : p # at => disk'[p] = disk[p]
      BY <2>1, <2>3, Zenon
    <2>5. disk[at] \in Files
      BY <2>1, <2>2, Zenon
    <2>6. gone' \subseteq Files
      BY <2>1, <2>2, <2>5, Zenon
    <2> QED BY <2>2, <2>4, <2>6, Zenon
  <1>2. /\ before' \in [Conns -> [exe : Files, path : Paths] \cup {Nothing}]
        /\ \A c \in Conns : before'[c] # Nothing
              => before'[c] = before[c] /\ before[c].path # at
    BY <1>1, Zenon DEF TouchesPath, PeerInv, AttestTypeOK
  <1>3. /\ ran \subseteq ran'
        /\ ran' \subseteq [exe : Files, path : Paths]
        /\ disk'[at] # Nothing /\ (\E w \in ran : w.path = at)
              => [exe |-> disk'[at], path |-> at] \in ran'
    <2>1. ran \subseteq [exe : Files, path : Paths]
      BY Zenon DEF PeerInv, AttestTypeOK
    <2>2. disk'[at] # Nothing => [exe |-> disk'[at], path |-> at] \in [exe : Files, path : Paths]
      <3>1. disk'[at] # Nothing => disk'[at] \in Files
        BY <1>1, Zenon
      <3> QED BY <3>1
    <2> QED BY <1>1, <2>1, <2>2, Zenon DEF TouchesPath
  <1>4. AttestTypeOK'
    BY <1>1, <1>2, <1>3, Zenon DEF PeerInv, AttestTypeOK
  <1>5. Queue'
    BY <1>1, Zenon DEF PeerInv, Queue
  <1>6. Undisturbed'
    <2> SUFFICES ASSUME NEW c \in Conns, before'[c] # Nothing PROVE Left(c)'
      BY Zenon DEF Undisturbed
    <2>1. before'[c] = before[c] /\ before[c].path # at
      BY <1>2, Zenon
    <2>2. Left(c)
      BY <2>1, Zenon DEF PeerInv, Undisturbed
    <2>3. before[c].path \in Paths
      BY <2>1, Zenon DEF PeerInv, AttestTypeOK
    <2>4. disk'[before[c].path] = disk[before[c].path]
      BY <1>1, <2>1, <2>3, Zenon
    <2> QED BY <1>1, <2>1, <2>2, <2>4, Zenon DEF Left
  <1>7. LinkInWindow'
    BY <1>1, <1>3, Zenon DEF PeerInv, LinkInWindow
  <1>8. FileInWindow'
    <2> DEFINE link == attest.link
    <2> SUFFICES ASSUME attest.step = "open", link # Nothing, disk'[link] # Nothing
                 PROVE  [exe |-> disk'[link], path |-> link] \in ran'
      BY <1>1, Zenon DEF FileInWindow
    <2>1. link \in Paths
      BY Zenon DEF PeerInv, AttestTypeOK
    <2>2. disk[link] # Nothing => [exe |-> disk[link], path |-> link] \in ran
      BY Zenon DEF PeerInv, FileInWindow
    <2> HIDE DEF link
    <2>3. CASE link = at
      <3>1. [exe |-> disk[at], path |-> at] \in ran
        BY <2>2, <2>3, Zenon DEF ReplaceFile
      <3>2. [exe |-> disk[at], path |-> at].path = at
        OBVIOUS
      <3>3. \E w \in ran : w.path = at
        BY <3>1, <3>2, Zenon
      <3> QED BY <1>3, <2>3, <3>3, Zenon
    <2>4. CASE link # at
      BY <1>1, <1>3, <2>1, <2>2, <2>4, Zenon
    <2> QED BY <2>3, <2>4, Zenon
  <1> QED BY <1>4, <1>5, <1>6, <1>7, <1>8, Zenon DEF PeerInv

\* A file system that stops answering or recovers changes nobody's name.
LEMMA OutageKeeps ==
  ASSUME PeerInv, Outage \/ Recovery
  PROVE  PeerInv'
  <1>1. UNCHANGED <<disk, gone, procs, conns, backlog, attest, before, ran>>
    BY Zenon DEF Outage, Recovery
  <1>2. AttestTypeOK'
    BY <1>1, Zenon DEF PeerInv, AttestTypeOK
  <1>3. Queue'
    BY <1>1, Zenon DEF PeerInv, Queue
  <1>4. Undisturbed'
    BY <1>1, Zenon DEF PeerInv, Undisturbed, Left
  <1>5. LinkInWindow' /\ FileInWindow'
    BY <1>1, Zenon DEF PeerInv, LinkInWindow, FileInWindow
  <1> QED BY <1>2, <1>3, <1>4, <1>5, Zenon DEF PeerInv

\* A new connection joins the end of the queue.
LEMMA ConnectKeeps ==
  ASSUME PeerInv, NEW c \in Conns, Connect(c)
  PROVE  PeerInv'
  <1>1. PICK pid \in Pids :
           /\ procs[pid] # Nothing
           /\ conns' = [conns EXCEPT ![c] = [phase |-> "queued", pid |-> pid,
                           uid |-> procs[pid].uid, peer |-> Nothing]]
           /\ before' = [before EXCEPT ![c] = Running(procs[pid])]
    BY Zenon DEF Connect
  <1>2. /\ conns[c].phase = "none"
        /\ backlog' = Append(backlog, c)
        /\ UNCHANGED <<world, attest, ran>>
    BY Zenon DEF Connect
  <1>3. procs[pid].uid \in Uids
    BY <1>1, Zenon DEF PeerInv, AttestTypeOK
  <1>0. /\ DOMAIN conns = Conns
        /\ backlog \in Seq(Conns)
        /\ before \in [Conns -> [exe : Files, path : Paths] \cup {Nothing}]
    BY Zenon DEF PeerInv, AttestTypeOK
  <1>4. /\ \A d \in Conns : d # c => conns'[d] = conns[d]
        /\ conns'[c].phase = "queued" /\ conns'[c].pid = pid /\ conns'[c].peer = Nothing
        /\ conns'[c].uid = procs[pid].uid
    BY <1>0, <1>1, Zenon
  <1>12. /\ Program(procs[pid]) \in [exe : Files, path : Paths]
         /\ Program(procs[pid]).exe = procs[pid].exe
         /\ Program(procs[pid]).path = procs[pid].path
    BY <1>1, ProgramType, Zenon DEF PeerInv, AttestTypeOK
  <1>13. /\ before' \in [Conns -> [exe : Files, path : Paths] \cup {Nothing}]
         /\ \A d \in Conns : d # c => before'[d] = before[d]
         /\ before'[c] # Nothing => /\ before'[c] = Program(procs[pid])
                                    /\ disk[procs[pid].path] = procs[pid].exe
    <2>1. Running(procs[pid]) \in [exe : Files, path : Paths] \cup {Nothing}
      BY <1>12, Zenon DEF Running
    <2>2. Running(procs[pid]) # Nothing => /\ Running(procs[pid]) = Program(procs[pid])
                                           /\ disk[procs[pid].path] = procs[pid].exe
      BY Zenon DEF Running
    <2> QED BY <1>0, <1>1, <2>1, <2>2, Zenon
  <1> DEFINE n == Len(backlog)
  <1>5. AttestTypeOK'
    <2> DEFINE Row == [phase : {"none", "queued", "open"}, pid : Pids \cup {Nothing},
                       uid : Uids \cup {Nothing}, peer : Consumers \cup {Nothing}]
               row == [phase |-> "queued", pid |-> pid, uid |-> procs[pid].uid, peer |-> Nothing]
    <2>1. row \in Row
      BY <1>3, Zenon
    <2>2. conns \in [Conns -> Row]
      BY Zenon DEF PeerInv, AttestTypeOK
    <2>3. conns' = [conns EXCEPT ![c] = row]
      BY <1>1, Zenon
    <2> HIDE DEF Row, row
    <2>4. conns' \in [Conns -> Row]
      BY <2>1, <2>2, <2>3, Zenon
    <2>5. backlog' \in Seq(Conns)
      BY <1>0, <1>2, AppendFacts, Zenon DEF Grown
    <2> QED BY <1>2, <1>13, <2>4, <2>5, Zenon DEF PeerInv, AttestTypeOK, world, Row
  <1>6. /\ n \in Nat /\ DOMAIN backlog = 1..n /\ DOMAIN backlog' = 1..(n + 1)
        /\ \A i \in 1..n : backlog'[i] = backlog[i] /\ backlog[i] \in Conns
        /\ backlog'[n + 1] = c
        /\ \A i \in 1..(n + 1) : i \in 1..n \/ i = n + 1
    <2>1. backlog \in Seq(Conns) /\ c \in Conns /\ backlog' = Append(backlog, c)
      BY <1>0, <1>2, Zenon
    <2>2. Grown(Conns, backlog, c, backlog')
      BY <2>1, AppendFacts, Zenon
    <2> QED BY <2>2, Zenon DEF Grown
  <1> HIDE DEF n
  <1>7. \A i \in 1..n : backlog[i] # c
    BY <1>2, <1>6, Zenon DEF PeerInv, Queue
  <1>8. attest.step # "idle" => attest.conn # c /\ attest.conn \in Conns
    BY <1>2, Zenon DEF PeerInv, Queue
  <1>9. Queue'
    <2>1. \A d \in Conns : conns'[d].phase # "open" => conns'[d].peer = Nothing
      BY <1>4, Zenon DEF PeerInv, Queue
    <2>2. \A d \in Conns : conns'[d].phase = "queued" => conns'[d].pid \in Pids
      BY <1>4, Zenon DEF PeerInv, Queue
    <2>3. \A i \in 1..(n + 1) : conns'[backlog'[i]].phase = "queued"
      <3>1. \A i \in 1..n : conns[backlog[i]].phase = "queued"
        BY <1>6, Zenon DEF PeerInv, Queue
      <3>2. ASSUME NEW i \in 1..n PROVE conns'[backlog'[i]].phase = "queued"
        <4>1. backlog'[i] = backlog[i] /\ backlog[i] \in Conns /\ backlog[i] # c
          BY <1>6, <1>7, Zenon
        <4>2. conns'[backlog[i]] = conns[backlog[i]]
          BY <1>4, <4>1, Zenon
        <4> QED BY <3>1, <4>1, <4>2, Zenon
      <3>3. conns'[backlog'[n + 1]].phase = "queued"
        BY <1>4, <1>6, Zenon
      <3> QED BY <1>6, <3>2, <3>3, Zenon
    <2>4. \A i, j \in 1..(n + 1) : backlog'[i] = backlog'[j] => i = j
      <3>1. \A i, j \in 1..n : backlog[i] = backlog[j] => i = j
        BY <1>6, Zenon DEF PeerInv, Queue
      <3> QED BY <1>6, <1>7, <3>1, Zenon
    <2>5. \A i \in 1..(n + 1) : attest.step # "idle" => backlog'[i] # attest.conn
      <3>1. \A i \in 1..n : attest.step # "idle" => backlog[i] # attest.conn
        BY <1>6, Zenon DEF PeerInv, Queue
      <3> QED BY <1>6, <1>8, <3>1, Zenon
    <2>6. attest.step # "idle" => conns'[attest.conn] = conns[attest.conn]
      BY <1>4, <1>8, Zenon
    <2> QED BY <1>2, <1>6, <2>1, <2>2, <2>3, <2>4, <2>5, <2>6, ZenonT(60) DEF PeerInv, Queue
  <1>10. Undisturbed'
    <2> SUFFICES ASSUME NEW d \in Conns, before'[d] # Nothing PROVE Left(d)'
      BY Zenon DEF Undisturbed
    <2>1. CASE d = c
      <3>1. attest.step = "open" => attest.conn # c
        BY <1>8, Zenon
      <3>2. /\ before'[c].exe = procs[pid].exe /\ before'[c].path = procs[pid].path
            /\ disk[procs[pid].path] = procs[pid].exe
        BY <1>12, <1>13, <2>1, Zenon
      <3>3. UNCHANGED <<procs, disk, attest>>
        BY <1>2, Zenon DEF world
      <3> QED BY <1>1, <1>4, <2>1, <3>1, <3>2, <3>3, Zenon DEF Left
    <2>2. CASE d # c
      <3>1. before'[d] = before[d] /\ conns'[d] = conns[d]
        BY <1>4, <1>13, <2>2, Zenon
      <3>2. Left(d)
        BY <3>1, Zenon DEF PeerInv, Undisturbed
      <3> QED BY <1>2, <3>1, <3>2, Zenon DEF Left, world
    <2> QED BY <2>1, <2>2, Zenon
  <1>11. LinkInWindow' /\ FileInWindow'
    <2>1. attest.step = "link" => conns'[attest.conn] = conns[attest.conn]
      BY <1>4, <1>8, Zenon
    <2>2. LinkInWindow'
      BY <1>2, <2>1, Zenon DEF PeerInv, LinkInWindow, world
    <2>3. FileInWindow'
      BY <1>2, Zenon DEF PeerInv, FileInWindow, world
    <2> QED BY <2>2, <2>3, Zenon
  <1> QED BY <1>5, <1>9, <1>10, <1>11, Zenon DEF PeerInv

\* The connection that leaves the attestation is open, and no other changes.
LEMMA DecideKeeps ==
  ASSUME PeerInv, NEW c \in Conns, NEW peer \in Consumers \cup {Nothing},
         Decide(c, peer), UNCHANGED world,
         backlog' \in Seq(Conns),
         \A i \in DOMAIN backlog' : conns[backlog'[i]].phase = "queued" /\ backlog'[i] # c,
         \A i, j \in DOMAIN backlog' : backlog'[i] = backlog'[j] => i = j
  PROVE  PeerInv'
  <1>1. /\ conns' = [conns EXCEPT ![c].phase = "open", ![c].peer = peer]
        /\ attest' = NoAttest /\ before' = [before EXCEPT ![c] = Nothing] /\ ran' = {}
    BY Zenon DEF Decide
  <1>2. /\ conns'[c].phase = "open"
        /\ \A d \in Conns : d # c => conns'[d] = conns[d]
    BY <1>1 DEF PeerInv, AttestTypeOK
  <1>3. AttestTypeOK'
    <2>1. conns[c] \in [phase : {"none", "queued", "open"}, pid : Pids \cup {Nothing},
                        uid : Uids \cup {Nothing}, peer : Consumers \cup {Nothing}]
      BY Zenon DEF PeerInv, AttestTypeOK
    <2>2. conns' \in [Conns -> [phase : {"none", "queued", "open"}, pid : Pids \cup {Nothing},
                                uid : Uids \cup {Nothing}, peer : Consumers \cup {Nothing}]]
      BY <1>1, <2>1, Zenon DEF PeerInv, AttestTypeOK
    <2>3. attest' \in [step : {"idle", "link", "open"}, conn : Conns \cup {Nothing},
                       link : Paths \cup {Nothing}]
      BY <1>1, Zenon DEF NoAttest
    <2>4. before' \in [Conns -> [exe : Files, path : Paths] \cup {Nothing}]
      BY <1>1, Zenon DEF PeerInv, AttestTypeOK
    <2> QED BY <1>1, <2>2, <2>3, <2>4, Zenon DEF PeerInv, AttestTypeOK, world
  <1>4. Queue'
    <2>1. \A d \in Conns : conns'[d].phase # "open" => conns'[d].peer = Nothing
      BY <1>2, ZenonT(60) DEF PeerInv, Queue
    <2>2. \A d \in Conns : conns'[d].phase = "queued" => conns'[d].pid \in Pids
      BY <1>2, Zenon DEF PeerInv, Queue
    <2>3. \A i \in DOMAIN backlog' : conns'[backlog'[i]].phase = "queued"
      BY <1>2
    <2> QED BY <1>1, <2>1, <2>2, <2>3, Zenon DEF Queue, NoAttest
  <1>5. /\ attest'.step = "idle" /\ attest'.conn = Nothing
        /\ before'[c] = Nothing
        /\ \A d \in Conns : d # c => before'[d] = before[d]
    BY <1>1, Zenon DEF NoAttest, PeerInv, AttestTypeOK
  <1>6. Undisturbed'
    <2> SUFFICES ASSUME NEW d \in Conns, before'[d] # Nothing PROVE Left(d)'
      BY Zenon DEF Undisturbed
    <2>1. d # c /\ before'[d] = before[d] /\ conns'[d] = conns[d]
      BY <1>2, <1>5, Zenon
    <2>2. Left(d)
      BY <2>1, Zenon DEF PeerInv, Undisturbed
    <2>3. attest'.step # "open"
      BY <1>5
    <2> QED BY <2>1, <2>2, <2>3, Zenon DEF Left, world
  <1>7. LinkInWindow' /\ FileInWindow'
    BY <1>5, Zenon DEF LinkInWindow, FileInWindow
  <1> QED BY <1>3, <1>4, <1>6, <1>7, Zenon DEF PeerInv

\* The head of the queue is a connection nobody has named, and what remains
\* does not hold it.
LEMMA HeadOfQueue ==
  ASSUME PeerInv, backlog # << >>, backlog' = Tail(backlog)
  PROVE  /\ Head(backlog) \in Conns
         /\ conns[Head(backlog)].phase = "queued"
         /\ conns[Head(backlog)].peer = Nothing
         /\ backlog' \in Seq(Conns)
         /\ \A i \in DOMAIN backlog' : /\ conns[backlog'[i]].phase = "queued"
                                       /\ backlog'[i] # Head(backlog)
         /\ \A i, j \in DOMAIN backlog' : backlog'[i] = backlog'[j] => i = j
  <1> DEFINE n == Len(backlog)
  <1>1. /\ n \in Nat /\ n > 0 /\ DOMAIN backlog = 1..n
        /\ Head(backlog) = backlog[1] /\ backlog[1] \in Conns
        /\ backlog' \in Seq(Conns) /\ DOMAIN backlog' = 1..(n - 1)
        /\ \A i \in 1..(n - 1) : backlog'[i] = backlog[i + 1]
    <2>1. backlog \in Seq(Conns)
      BY Zenon DEF PeerInv, AttestTypeOK
    <2> QED BY <2>1, TailFacts, Zenon
  <1> HIDE DEF n
  <1>2. /\ \A i \in 1..n : conns[backlog[i]].phase = "queued"
        /\ \A i, j \in 1..n : backlog[i] = backlog[j] => i = j
        /\ \A d \in Conns : conns[d].phase # "open" => conns[d].peer = Nothing
    BY <1>1, Zenon DEF PeerInv, Queue
  <1>3. \A i \in 1..(n - 1) : i + 1 \in 1..n /\ i + 1 # 1 /\ 1 \in 1..n
    BY <1>1
  <1>4. \A i, j \in 1..(n - 1) : i + 1 = j + 1 => i = j
    BY <1>1
  <1>5. 1 \in 1..n
    BY <1>1
  <1>6. conns[backlog[1]].phase = "queued" /\ conns[backlog[1]].peer = Nothing
    BY <1>1, <1>2, <1>5, Zenon
  <1>7. \A i \in 1..(n - 1) : /\ conns[backlog'[i]].phase = "queued"
                               /\ backlog'[i] # backlog[1]
    <2> SUFFICES ASSUME NEW i \in 1..(n - 1)
                 PROVE  /\ conns[backlog'[i]].phase = "queued"
                        /\ backlog'[i] # backlog[1]
      BY Zenon
    <2>1. backlog'[i] = backlog[i + 1]
      BY <1>1, Zenon
    <2>2. i + 1 \in 1..n /\ i + 1 # 1
      BY <1>3, Zenon
    <2>3. conns[backlog[i + 1]].phase = "queued" /\ backlog[i + 1] # backlog[1]
      BY <1>2, <1>5, <2>2, Zenon
    <2> QED BY <2>1, <2>3, Zenon
  <1>8. \A i, j \in 1..(n - 1) : backlog'[i] = backlog'[j] => i = j
    <2> SUFFICES ASSUME NEW i \in 1..(n - 1), NEW j \in 1..(n - 1), backlog'[i] = backlog'[j]
                 PROVE  i = j
      BY Zenon
    <2>1. backlog[i + 1] = backlog[j + 1]
      BY <1>1, Zenon
    <2>2. i + 1 \in 1..n /\ j + 1 \in 1..n
      BY <1>3, Zenon
    <2>3. i + 1 = j + 1
      BY <1>2, <2>1, <2>2, Zenon
    <2> QED BY <1>4, <2>3, Zenon
  <1> QED BY <1>1, <1>6, <1>7, <1>8, Zenon

\* accept: the connection is refused a name, or its attestation starts with what
\* the process runs now.
LEMMA AcceptKeeps ==
  ASSUME PeerInv, Accept
  PROVE  PeerInv'
  <1> DEFINE c == Head(backlog)
  <1>1. /\ attest.step = "idle" /\ backlog # << >> /\ backlog' = Tail(backlog)
        /\ UNCHANGED world
    BY Zenon DEF Accept
  <1>2. /\ c \in Conns
        /\ conns[c].phase = "queued"
        /\ backlog' \in Seq(Conns)
        /\ \A i \in DOMAIN backlog' : conns[backlog'[i]].phase = "queued" /\ backlog'[i] # c
        /\ \A i, j \in DOMAIN backlog' : backlog'[i] = backlog'[j] => i = j
    BY <1>1, HeadOfQueue, Zenon
  <1>3. CASE Decide(c, Nothing)
    BY <1>1, <1>2, <1>3, DecideKeeps, Zenon
  <1>4. CASE /\ conns[c].uid = MyUid
             /\ attest' = [step |-> "link", conn |-> c, link |-> Nothing]
             /\ ran' = Shown(procs[conns[c].pid])
             /\ UNCHANGED <<conns, before>>
    <2> DEFINE proc == procs[conns[c].pid]
    <2>1. proc \in [exe : Files, path : Paths, uid : Uids] \cup {Nothing}
      BY <1>2, Zenon DEF PeerInv, Queue, AttestTypeOK
    <2>2. /\ ran' \subseteq [exe : Files, path : Paths]
          /\ Readable(proc) => Program(proc) \in ran'
      BY <1>4, <2>1, ProgramType, Zenon DEF Readable, Shown
    <2>3. UNCHANGED <<disk, procs, conns, before>> /\ attest'.conn = c /\ attest'.step = "link"
      BY <1>1, <1>4, Zenon DEF world
    <2> HIDE DEF c
    <2>4. AttestTypeOK'
      BY <1>1, <1>2, <1>4, <2>2, Zenon DEF PeerInv, AttestTypeOK, world
    <2>5. Queue'
      BY <1>2, <1>4, Zenon DEF PeerInv, Queue
    <2>6. Undisturbed'
      <3>1. attest'.step # "open"
        BY <2>3
      <3> QED BY <2>3, <3>1, Zenon DEF PeerInv, Undisturbed, Left
    <2>7. LinkInWindow'
      BY <2>2, <2>3, Zenon DEF LinkInWindow
    <2>8. FileInWindow'
      BY <2>3 DEF FileInWindow
    <2> QED BY <2>4, <2>5, <2>6, <2>7, <2>8, Zenon DEF PeerInv
  <1> QED BY <1>3, <1>4, Zenon DEF Accept

\* While a connection is attested, the queue is what accept left.
LEMMA QueueBehind ==
  ASSUME PeerInv, attest.step # "idle", UNCHANGED backlog
  PROVE  /\ attest.conn \in Conns
         /\ conns[attest.conn].phase = "queued"
         /\ conns[attest.conn].uid = MyUid
         /\ conns[attest.conn].pid \in Pids
         /\ conns[attest.conn].peer = Nothing
         /\ backlog' \in Seq(Conns)
         /\ \A i \in DOMAIN backlog' : /\ conns[backlog'[i]].phase = "queued"
                                       /\ backlog'[i] # attest.conn
         /\ \A i, j \in DOMAIN backlog' : backlog'[i] = backlog'[j] => i = j
  BY Zenon DEF PeerInv, AttestTypeOK, Queue

\* The link is read: the path is the peer's as long as its file has its name.
LEMMA ExePathForPidKeeps ==
  ASSUME PeerInv, ExePathForPid
  PROVE  PeerInv'
  <1> DEFINE c == attest.conn
  <1> DEFINE proc == procs[conns[c].pid]
  <1>1. attest.step = "link" /\ UNCHANGED <<world, backlog>>
    BY Zenon DEF ExePathForPid
  <1>2. CASE Decide(c, Nothing)
    BY <1>1, <1>2, QueueBehind, DecideKeeps, Zenon
  <1>3. CASE /\ Readable(proc)
             /\ attest' = [attest EXCEPT !.step = "open",
                   !.link = IF disk[proc.path] = proc.exe THEN proc.path ELSE Nothing]
             /\ UNCHANGED <<conns, before, ran>>
    <2>1. c \in Conns /\ conns[c].pid \in Pids /\ proc \in [exe : Files, path : Paths, uid : Uids]
      BY <1>1, <1>3, QueueBehind, ZenonT(60) DEF Readable, PeerInv, AttestTypeOK
    <2>2. /\ attest'.step = "open" /\ attest'.conn = c
          /\ attest'.link = IF disk[proc.path] = proc.exe THEN proc.path ELSE Nothing
          /\ attest' \in [step : {"idle", "link", "open"}, conn : Conns \cup {Nothing},
                          link : Paths \cup {Nothing}]
      BY <1>3, <2>1, Zenon DEF PeerInv, AttestTypeOK
    <2>3. AttestTypeOK'
      BY <1>1, <1>3, <2>2, Zenon DEF PeerInv, AttestTypeOK, world
    <2>4. Queue'
      BY <1>1, <1>3, <2>1, <2>2, Zenon DEF PeerInv, Queue
    <2>5. UNCHANGED <<disk, procs, conns, before, ran>>
      BY <1>1, <1>3, Zenon DEF world
    <2>6. Undisturbed'
      <3> SUFFICES ASSUME NEW d \in Conns, before[d] # Nothing PROVE Left(d)'
        BY <2>5, Zenon DEF Undisturbed
      <3>1. Left(d)
        BY Zenon DEF PeerInv, Undisturbed
      <3>2. c = d => attest'.link = before[d].path
        BY <2>2, <3>1, Zenon DEF Left
      <3> HIDE DEF c, proc
      <3> QED BY <2>2, <2>5, <3>1, <3>2, Zenon DEF Left
    <2>7. LinkInWindow'
      BY <2>2 DEF LinkInWindow
    <2>8. FileInWindow'
      <3>1. Program(proc) \in ran
        BY <1>1, <1>3, Zenon DEF PeerInv, LinkInWindow
      <3>2. attest'.link # Nothing => attest'.link = proc.path /\ disk[proc.path] = proc.exe
        BY <2>2, Zenon
      <3> HIDE DEF proc
      <3> QED BY <2>5, <3>1, <3>2, Zenon DEF FileInWindow, Program
    <2> QED BY <2>3, <2>4, <2>6, <2>7, <2>8, Zenon DEF PeerInv
  <1> QED BY <1>2, <1>3, Zenon DEF ExePathForPid

\* The file at the path is hashed.
LEMMA HashFileKeeps ==
  ASSUME PeerInv, HashFile
  PROVE  PeerInv'
  <1> DEFINE found == IF attest.link = Nothing THEN Nothing ELSE disk[attest.link]
  <1> DEFINE peer == IF found = Nothing THEN Nothing ELSE Content[found]
  <1>1. attest.step = "open" /\ Decide(attest.conn, peer) /\ UNCHANGED <<world, backlog>>
    BY Zenon DEF HashFile
  <1>2. found \in Files \cup {Nothing}
    BY Zenon DEF PeerInv, AttestTypeOK
  <1>3. peer \in Consumers \cup {Nothing}
    BY <1>2, Zenon DEF Consumers
  <1> HIDE DEF peer
  <1> QED BY <1>1, <1>3, QueueBehind, DecideKeeps, Zenon

\* The invariant holds throughout.
LEMMA PeerInvariance == AttestSpec => []PeerInv
  <1>1. AttestInit => PeerInv
    BY PeerInitHolds, Zenon
  <1>2. PeerInv /\ [AttestNext]_attestVars => PeerInv'
    <2> SUFFICES ASSUME PeerInv, [AttestNext]_attestVars PROVE PeerInv'
      OBVIOUS
    <2>1. CASE \E pid \in Pids : Spawn(pid) \/ Exec(pid) \/ ExitProcess(pid)
      BY <2>1, ProcessKeeps, Zenon
    <2>2. CASE \E at \in Paths : ReplaceFile(at)
      BY <2>2, ReplaceFileKeeps, Zenon
    <2>3. CASE Outage \/ Recovery
      BY <2>3, OutageKeeps, Zenon
    <2>4. CASE \E c \in Conns : Connect(c)
      BY <2>4, ConnectKeeps, Zenon
    <2>5. CASE Daemon
      BY <2>5, AcceptKeeps, ExePathForPidKeeps, HashFileKeeps, Zenon DEF Daemon
    <2>6. CASE UNCHANGED attestVars
      <3>1. UNCHANGED <<disk, gone, procs, conns, backlog, attest, before, ran>>
        BY <2>6, Zenon DEF attestVars, world
      <3>2. AttestTypeOK' /\ Queue'
        BY <3>1, Zenon DEF PeerInv, AttestTypeOK, Queue
      <3>3. Undisturbed' /\ LinkInWindow' /\ FileInWindow'
        BY <3>1, Zenon DEF PeerInv, Undisturbed, Left, LinkInWindow, FileInWindow
      <3> QED BY <3>2, <3>3, Zenon DEF PeerInv
    <2> QED BY <2>1, <2>2, <2>3, <2>4, <2>5, <2>6, Zenon DEF AttestNext
  <1> QED BY <1>1, <1>2, PTL DEF AttestSpec

\* What one step may do to a connection's name, phase by phase.
LEMMA WhoIsNamed ==
  ASSUME PeerInv, AttestNext, NEW d \in Conns
  PROVE  \/ conns'[d].peer = conns[d].peer /\ (attest.conn = d => conns'[d].phase = conns[d].phase)
         \/ /\ attest.step = "link" /\ d = attest.conn
            /\ ~Readable(procs[conns[d].pid])
            /\ conns'[d].peer = conns[d].peer
         \/ /\ attest.step = "open" /\ d = attest.conn
            /\ conns'[d].peer = IF attest.link = Nothing \/ disk[attest.link] = Nothing THEN Nothing
                               ELSE Content[disk[attest.link]]
  <1>1. ASSUME NEW c \in Conns, NEW peer, Decide(c, peer)
        PROVE  /\ \A e \in Conns : e # c => conns'[e] = conns[e]
               /\ conns'[c].peer = peer
    <2>1. conns' = [conns EXCEPT ![c].phase = "open", ![c].peer = peer]
      BY <1>1, Zenon DEF Decide
    <2>2. conns \in [Conns -> [phase : {"none", "queued", "open"}, pid : Pids \cup {Nothing},
                               uid : Uids \cup {Nothing}, peer : Consumers \cup {Nothing}]]
      BY Zenon DEF PeerInv, AttestTypeOK
    <2> QED BY <2>1, <2>2
  <1>2. CASE \/ \E pid \in Pids : Spawn(pid) \/ Exec(pid) \/ ExitProcess(pid)
             \/ \E at \in Paths : ReplaceFile(at)
             \/ Outage \/ Recovery
    BY <1>2, Zenon DEF Spawn, Exec, ExitProcess, ReplaceFile, Outage, Recovery
  <1>3. CASE \E c \in Conns : Connect(c)
    <2>1. PICK c \in Conns : Connect(c)
      BY <1>3, Zenon
    <2>2. /\ conns'[c].peer = Nothing /\ conns[c].phase = "none"
          /\ \A e \in Conns : e # c => conns'[e] = conns[e]
      <3>1. PICK pid \in Pids :
               conns' = [conns EXCEPT ![c] = [phase |-> "queued", pid |-> pid,
                            uid |-> procs[pid].uid, peer |-> Nothing]]
        BY <2>1, Zenon DEF Connect
      <3>2. DOMAIN conns = Conns
        BY Zenon DEF PeerInv, AttestTypeOK
      <3>3. conns[c].phase = "none"
        BY <2>1, Zenon DEF Connect
      <3> QED BY <3>1, <3>2, <3>3, Zenon
    <2>3. conns[c].peer = Nothing
      BY <2>2, Zenon DEF PeerInv, Queue
    <2>4. attest.conn # c
      <3>1. attest.step = "idle" => attest.conn # c
        BY NothingAssumption, Zenon DEF PeerInv, Queue
      <3>2. attest.step # "idle" => conns[attest.conn].phase = "queued"
        BY Zenon DEF PeerInv, Queue
      <3>3. conns[c].phase # "queued"
        BY <2>2
      <3> QED BY <3>1, <3>2, <3>3, Zenon
    <2> QED BY <2>2, <2>3, <2>4, Zenon
  <1>4. CASE Accept
    <2>1. attest.step = "idle" /\ backlog # << >> /\ backlog' = Tail(backlog)
      BY <1>4, Zenon DEF Accept
    <2>2. Head(backlog) \in Conns /\ conns[Head(backlog)].peer = Nothing
      BY <2>1, HeadOfQueue, Zenon
    <2>3. Decide(Head(backlog), Nothing) \/ UNCHANGED conns
      BY <1>4, Zenon DEF Accept
    <2>4. attest.conn # d
      BY <2>1, NothingAssumption, Zenon DEF PeerInv, Queue
    <2> QED BY <1>1, <2>2, <2>3, <2>4, Zenon
  <1>5. CASE ExePathForPid
    <2>1. attest.step = "link" /\ attest.step # "idle" /\ UNCHANGED backlog
      BY <1>5, Zenon DEF ExePathForPid
    <2>2. attest.conn \in Conns /\ conns[attest.conn].peer = Nothing
      BY <2>1, QueueBehind, Zenon
    <2>3. \/ Decide(attest.conn, Nothing) /\ ~Readable(procs[conns[attest.conn].pid])
          \/ UNCHANGED conns
      BY <1>5, Zenon DEF ExePathForPid
    <2>4. CASE UNCHANGED conns
      BY <2>4, Zenon
    <2>5. CASE Decide(attest.conn, Nothing) /\ ~Readable(procs[conns[attest.conn].pid])
      <3>1. /\ \A e \in Conns : e # attest.conn => conns'[e] = conns[e]
            /\ conns'[attest.conn].peer = Nothing
        BY <1>1, <2>2, <2>5, Zenon
      <3>2. CASE d = attest.conn
        BY <2>1, <2>2, <2>5, <3>1, <3>2, Zenon
      <3>3. CASE d # attest.conn
        BY <3>1, <3>3, Zenon
      <3> QED BY <3>2, <3>3, Zenon
    <2> QED BY <2>3, <2>4, <2>5, Zenon
  <1>6. CASE HashFile
    <2> DEFINE found == IF attest.link = Nothing THEN Nothing ELSE disk[attest.link]
    <2> DEFINE peer == IF found = Nothing THEN Nothing ELSE Content[found]
    <2>1. attest.step = "open" /\ Decide(attest.conn, peer) /\ UNCHANGED backlog
      BY <1>6, Zenon DEF HashFile
    <2>2. attest.conn \in Conns
      BY <2>1, QueueBehind, Zenon
    <2>3. peer = IF attest.link = Nothing \/ disk[attest.link] = Nothing THEN Nothing
                 ELSE Content[disk[attest.link]]
      BY Zenon
    <2> HIDE DEF peer
    <2>4. /\ \A e \in Conns : e # attest.conn => conns'[e] = conns[e]
          /\ conns'[attest.conn].peer = peer
      BY <1>1, <2>1, <2>2, Zenon
    <2>5. CASE d = attest.conn
      BY <2>1, <2>3, <2>4, <2>5, Zenon
    <2>6. CASE d # attest.conn
      BY <2>4, <2>6, Zenon
    <2> QED BY <2>5, <2>6, Zenon
  <1> QED BY <1>2, <1>3, <1>4, <1>5, <1>6, ZenonT(60) DEF AttestNext, Daemon

\* AttestedStream names a connection once, before it is open, only for a peer of the
\* daemon's own user, and a peer left alone since connect() for what it ran then.
THEOREM PeerNamedOnce == AttestSpec => NamedForItsProgram
  <1> DEFINE Named(c) ==
        /\ conns'[c].peer # conns[c].peer => conns[c].phase = "queued" /\ conns[c].uid = MyUid
        /\ attest.conn = c /\ before[c] # Nothing /\ conns'[c].phase = "open"
              => conns'[c].peer = Content[before[c].exe]
  <1>1. PeerInv /\ [AttestNext]_attestVars => [\A c \in Conns : Named(c)]_attestVars
    <2> SUFFICES ASSUME PeerInv, AttestNext, NEW d \in Conns PROVE Named(d)
      OBVIOUS
    <2>1. conns'[d].peer # conns[d].peer => conns[d].phase = "queued" /\ conns[d].uid = MyUid
      <3>1. conns'[d].peer # conns[d].peer => attest.step # "idle" /\ d = attest.conn
        BY WhoIsNamed
      <3> QED BY <3>1, Zenon DEF PeerInv, Queue
    <2>2. ASSUME attest.conn = d, before[d] # Nothing, conns'[d].phase = "open"
          PROVE  conns'[d].peer = Content[before[d].exe]
      <3>1. Left(d) /\ conns[d].uid = MyUid
        <4>1. Left(d)
          BY <2>2, Zenon DEF PeerInv, Undisturbed
        <4>2. attest.step # "idle"
          BY <2>2, NothingAssumption, Zenon DEF PeerInv, Queue
        <4> QED BY <2>2, <4>1, <4>2, Zenon DEF PeerInv, Queue
      <3>2. conns[d].phase # conns'[d].phase /\ Readable(procs[conns[d].pid])
        BY <2>2, <3>1 DEF Left, Readable
      <3>3. /\ attest.step = "open"
            /\ conns'[d].peer = IF attest.link = Nothing \/ disk[attest.link] = Nothing THEN Nothing
                               ELSE Content[disk[attest.link]]
        BY <2>2, <3>2, WhoIsNamed, Zenon
      <3>4. attest.link = before[d].path /\ disk[attest.link] = before[d].exe
        BY <2>2, <3>1, <3>3, Zenon DEF Left
      <3>5. before[d].path # Nothing /\ before[d].exe # Nothing
        <4>1. before[d] \in [exe : Files, path : Paths]
          BY <2>2, Zenon DEF PeerInv, AttestTypeOK
        <4> QED BY <4>1, NothingAssumption, Zenon
      <3> QED BY <3>3, <3>4, <3>5, Zenon
    <2> QED BY <2>1, <2>2, Zenon
  <1> QED BY <1>1, PeerInvariance, PTL DEF AttestSpec, NamedForItsProgram

\* Whatever races the daemon between accept, link and hash, the name it gives is a
\* program of that pid's in this window, or the file that took one's place.
THEOREM RacesStayInTheWindow == AttestSpec => NamedFromTheWindow
  <1> DEFINE Seen(c) == conns'[c].peer # conns[c].peer
                           => \E w \in ran : conns'[c].peer = Content[w.exe]
  <1>1. PeerInv /\ [AttestNext]_attestVars => [\A c \in Conns : Seen(c)]_attestVars
    <2> SUFFICES ASSUME PeerInv, AttestNext, NEW d \in Conns, conns'[d].peer # conns[d].peer
                 PROVE  \E w \in ran : conns'[d].peer = Content[w.exe]
      OBVIOUS
    <2>1. /\ attest.step = "open" /\ d = attest.conn
          /\ conns'[d].peer = IF attest.link = Nothing \/ disk[attest.link] = Nothing THEN Nothing
                             ELSE Content[disk[attest.link]]
      BY WhoIsNamed, Zenon
    <2>2. conns[d].peer = Nothing
      <3>1. conns[d].phase # "open"
        BY <2>1 DEF PeerInv, Queue
      <3> QED BY <3>1, Zenon DEF PeerInv, Queue
    <2>3. attest.link # Nothing /\ disk[attest.link] # Nothing
      BY <2>1, <2>2, Zenon
    <2>4. [exe |-> disk[attest.link], path |-> attest.link] \in ran
      BY <2>1, <2>3, Zenon DEF PeerInv, FileInWindow
    <2>5. [exe |-> disk[attest.link], path |-> attest.link].exe = disk[attest.link]
      OBVIOUS
    <2>6. conns'[d].peer = Content[disk[attest.link]]
      BY <2>1, <2>3, Zenon
    <2> QED BY <2>4, <2>5, <2>6, Zenon
  <1> QED BY <1>1, PeerInvariance, PTL DEF AttestSpec, NamedFromTheWindow

=============================================================================
