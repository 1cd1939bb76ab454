----------------------------- MODULE DeriveLoop -----------------------------
(***************************************************************************)
(* Claim::derive (hire-attestors/src/claim.rs) as the code runs it: filter  *)
(* the evidence, split off the first item, fold the rest, apply the Iaa3    *)
(* rule and anchor the trust domain.                                       *)
(***************************************************************************)
EXTENDS Claim

CONSTANTS
    Challenges, Subjects, Issuers, Times,  \* the parts of evidence
    Candidate,                          \* the candidate a claim is derived for
    Challenge,                          \* the challenge that opened the request
    Inputs                              \* the evidence slices derive is given

Evidence == EvidenceOver(Challenges, Subjects, Issuers, Times)

ASSUME TimesAssumption == Times \subseteq Int

ASSUME InputsAssumption == Inputs \subseteq Seq(Evidence)

ASSUME CandidateAssumption ==
    /\ DOMAIN Candidate = {"source", "path", "domain"}
    /\ Candidate.path \in Subjects
    /\ Challenge \in Challenges

VARIABLES
    pc,             \* "filter", "fold", "done"
    evidence,       \* the argument
    kept,           \* the filtered evidence
    pos,            \* next position of the running loop
    assurance, presence, attestedAt,    \* the accumulators
    claim           \* the result

deriveVars == <<pc, evidence, kept, pos, assurance, presence, attestedAt, claim>>

DeriveInit ==
    /\ pc = "filter"
    /\ evidence \in Inputs
    /\ kept = << >>
    /\ pos = 1
    /\ assurance = Iaa1
    /\ presence = PresenceNone
    /\ attestedAt = 0
    /\ claim = NoClaim

\* A slip in Fold: presence and its instant are folded independently.
FoldRedating ==
    /\ pc = "fold" /\ pos <= Len(kept)
    /\ assurance' = Max({assurance, AssuranceOf(kept[pos])})
    /\ presence' = Max({presence, PresenceOf(kept[pos])})
    /\ attestedAt' = Max({attestedAt, kept[pos].at})
    /\ pos' = pos + 1
    /\ UNCHANGED <<pc, evidence, kept, claim>>

\* .filter(|e| e.binds_to(candidate, challenge)).collect(), one item.
Filter ==
    /\ pc = "filter" /\ pos <= Len(evidence)
    /\ kept' = IF BindsTo(evidence[pos], Candidate, Challenge)
               THEN Append(kept, evidence[pos]) ELSE kept
    /\ pos' = pos + 1
    /\ UNCHANGED <<pc, evidence, assurance, presence, attestedAt, claim>>

\* evidence.split_first()?: no claim without evidence, else the first tier.
SplitFirst ==
    /\ pc = "filter" /\ pos > Len(evidence)
    /\ \/ /\ kept = << >>
          /\ pc' = "done"
          /\ UNCHANGED <<pos, assurance, presence, attestedAt>>
       \/ /\ kept # << >>
          /\ pc' = "fold"
          /\ pos' = 2
          /\ assurance' = Tier(kept[1]).assurance
          /\ presence' = Tier(kept[1]).presence
          /\ attestedAt' = Tier(kept[1]).at
    /\ UNCHANGED <<evidence, kept, claim>>

\* One iteration of `for e in rest`.
Fold ==
    /\ pc = "fold" /\ pos <= Len(kept)
    /\ LET tier == Tier(kept[pos])
       IN  /\ assurance' = IF tier.assurance > assurance THEN tier.assurance ELSE assurance
           /\ IF Outranks(tier.presence, tier.at, presence, attestedAt)
              THEN presence' = tier.presence /\ attestedAt' = tier.at
              ELSE UNCHANGED <<presence, attestedAt>>
    /\ pos' = pos + 1
    /\ UNCHANGED <<pc, evidence, kept, claim>>

\* The Iaa3 rule, the trust domain and the constructor.
Finish ==
    /\ pc = "fold" /\ pos > Len(kept)
    /\ claim' = [source |-> Candidate.source,
                 assurance |-> Combined(assurance, presence),
                 presence |-> presence,
                 domain |-> DomainAt(kept, 1..Len(kept), Candidate),
                 path |-> Candidate.path,
                 attestedAt |-> attestedAt]
    /\ pc' = "done"
    /\ UNCHANGED <<evidence, kept, pos, assurance, presence, attestedAt>>

DeriveNext == Filter \/ SplitFirst \/ Fold \/ Finish

DeriveSpec == DeriveInit /\ [][DeriveNext]_deriveVars

-----------------------------------------------------------------------------

\* The loop counters and accumulators stay in range.
DeriveTypeOK ==
    /\ pc \in {"filter", "fold", "done"}
    /\ evidence \in Seq(Evidence)
    /\ kept \in Seq(Evidence)
    /\ pos \in Nat \ {0}
    /\ assurance \in {Iaa1, Iaa2}
    /\ presence \in PresenceLevels
    /\ attestedAt \in Int

\* The loop computes Derive: whatever the evidence, in whatever order and
\* however often repeated, the claim has the highest bound assurance, and its
\* presence and instant are those of one and the same bound item, the strongest.
ComputesDerive == pc = "done" => claim = Derive(Candidate, Challenge, evidence)

=============================================================================
