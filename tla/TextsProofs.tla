----------------------------- MODULE TextsProofs -----------------------------
(***************************************************************************)
(* The parsers of hired, for texts of every length: the hint of an SVID     *)
(* (HintParse), SPIFFE IDs (SpiffeUri), DIDs (DidKeyDecode) and the policy   *)
(* of an audience list (AudiencePolicy).                                    *)
(***************************************************************************)
EXTENDS Texts, OrderFacts

(* Audience lists.                                                         *)

\* level and ages are the strictest the first n parameters of s name, and all
\* of these were understood.
Strictest(s, n, level, ages) ==
    /\ \A k \in 1..n :
          /\ ~Rejected(s[k])
          /\ s[k].kind = "presence" => s[k].level <= level
          /\ s[k].kind = "max_age" => \E t \in ages : t <= s[k].seconds
    /\ level = PresenceNone \/ \E k \in 1..n : s[k].kind = "presence" /\ s[k].level = level
    /\ \A t \in ages : \E k \in 1..n : s[k].kind = "max_age" /\ s[k].seconds = t

\* level and ages are the strictest of the first n parsed audiences.
StrictestOf(s, n, level, ages) ==
    /\ \A k \in 1..n : /\ s[k].presence <= level
                       /\ \A t \in s[k].maxAge : \E u \in ages : u <= t
    /\ level = PresenceNone \/ \E k \in 1..n : s[k].presence = level
    /\ \A u \in ages : \E k \in 1..n : u \in s[k].maxAge

\* Every audience before the n-th is parsed into its strictest requirements.
ParsedBefore(list, n, out) ==
    \A k \in 1..(n - 1) : Strictest(list[k], Len(list[k]), out[k].presence, out[k].maxAge)

\* The loop invariant of the audience parser.
IInv ==
    /\ TypeOK
    /\ pc = "parse" =>
          /\ a \in 1..(Len(audiences) + 1) /\ Len(exts) = a - 1
          /\ ParsedBefore(audiences, a, exts)
          /\ a <= Len(audiences) => /\ p \in 1..(Len(audiences[a]) + 1)
                                    /\ Strictest(audiences[a], p - 1, require, bound)
          /\ policy = [presence |-> PresenceNone, maxAge |-> {}]
    /\ pc = "invalid" =>
          a \in 1..Len(audiences) /\ p \in 1..Len(audiences[a]) /\ Rejected(audiences[a][p])
    /\ pc \in {"fold", "ok"} =>
          /\ Len(exts) = Len(audiences)
          /\ ParsedBefore(audiences, Len(audiences) + 1, exts)
          /\ a \in 1..(Len(exts) + 1)
          /\ StrictestOf(exts, a - 1, policy.presence, policy.maxAge)
    /\ pc = "ok" => a = Len(exts) + 1

-----------------------------------------------------------------------------

\* The smaller of two optional bounds is an optional bound, at most either.
LEMMA TighterFacts ==
    ASSUME NEW named \in AgeBounds, NEW current \in AgeBounds
    PROVE  /\ Tighter(named, current) \in AgeBounds
           /\ \A s \in named : \E t \in Tighter(named, current) : t <= s
           /\ \A s \in current : \E t \in Tighter(named, current) : t <= s
           /\ Tighter(named, current) = named \/ Tighter(named, current) = current
  <1>1. \A x \in AgeBounds : x = {} \/ \E s \in Seconds : x = {s}
    BY DEF AgeBounds
  <1>2. \A s \in Seconds : s \in Nat
    BY SecondsAssumption
  <1>3. CASE named = {}
    BY <1>1, <1>2, <1>3 DEF Tighter
  <1>4. CASE current = {}
    BY <1>1, <1>2, <1>4 DEF Tighter
  <1>5. ASSUME NEW s \in Seconds, NEW t \in Seconds, named = {s}, current = {t}
        PROVE  /\ Tighter(named, current) \in AgeBounds
               /\ \A x \in named : \E y \in Tighter(named, current) : y <= x
               /\ \A x \in current : \E y \in Tighter(named, current) : y <= x
               /\ Tighter(named, current) = named \/ Tighter(named, current) = current
    <2>1. s \in Nat /\ t \in Nat
      BY <1>2
    <2>2. CASE s < t
      BY <1>5, <2>1, <2>2 DEF Tighter
    <2>3. CASE ~(s < t)
      BY <1>5, <2>1, <2>3 DEF Tighter
    <2> QED BY <2>2, <2>3
  <1> QED BY <1>1, <1>3, <1>4, <1>5

\* What the fields of a parameter hold.
LEMMA ParamFacts ==
    ASSUME NEW q \in Params
    PROVE  /\ q.kind = "presence" => q.level \in PresenceLevels
           /\ q.kind = "max_age" => q.seconds \in Seconds /\ q.seconds \in Nat
  BY SecondsAssumption, Zenon DEF Params

\* One more parameter keeps the accumulators the strictest.
LEMMA ParseParam ==
    ASSUME NEW s \in Seq(Params), NEW n \in 1..Len(s), ~Rejected(s[n]),
           NEW level \in PresenceLevels, NEW ages \in AgeBounds,
           Strictest(s, n - 1, level, ages),
           NEW level2, NEW ages2,
           level2 = IF s[n].kind = "presence" /\ s[n].level > level THEN s[n].level ELSE level,
           ages2 = IF s[n].kind = "max_age" THEN Tighter({s[n].seconds}, ages) ELSE ages
    PROVE  /\ Strictest(s, n, level2, ages2)
           /\ level2 \in PresenceLevels /\ ages2 \in AgeBounds
  <1>1. /\ \A k \in 1..n : k \in 1..(n - 1) \/ k = n
        /\ \A k \in 1..(n - 1) : k \in 1..n
        /\ n \in 1..n
    OBVIOUS
  <1>2. \A k \in 1..n : s[k] \in Params
    OBVIOUS
  <1>3. PresenceLevels \subseteq Int /\ \A x \in AgeBounds : x \subseteq Nat
    BY SecondsAssumption DEF PresenceLevels, PresenceNone, PresenceHardware, AgeBounds
  <1>4. /\ level2 \in PresenceLevels /\ level <= level2
        /\ s[n].kind = "presence" => s[n].level <= level2
        /\ level2 = level \/ (s[n].kind = "presence" /\ s[n].level = level2)
    <2>1. s[n] \in Params /\ level \in Int
      BY <1>2, <1>3
    <2>2. s[n].kind = "presence" => s[n].level \in PresenceLevels /\ s[n].level \in Int
      BY <1>3, <2>1, ParamFacts, Zenon
    <2>3. CASE s[n].kind = "presence" /\ s[n].level > level
      BY <2>1, <2>2, <2>3
    <2>4. CASE ~(s[n].kind = "presence" /\ s[n].level > level)
      BY <2>1, <2>2, <2>4
    <2> QED BY <2>3, <2>4
  <1>5. /\ ages2 \in AgeBounds
        /\ \A t \in ages : \E u \in ages2 : u <= t
        /\ s[n].kind = "max_age" => \E u \in ages2 : u <= s[n].seconds
        /\ \A u \in ages2 : u \in ages \/ (s[n].kind = "max_age" /\ s[n].seconds = u)
    <2>1. CASE s[n].kind = "max_age"
      <3>1. s[n].seconds \in Seconds
        BY <1>2, <2>1, ParamFacts
      <3>2. {s[n].seconds} \in AgeBounds
        BY <3>1 DEF AgeBounds
      <3>3. ages2 = Tighter({s[n].seconds}, ages)
        BY <2>1
      <3>4. /\ ages2 \in AgeBounds
            /\ \A t \in ages : \E u \in ages2 : u <= t
            /\ \A t \in {s[n].seconds} : \E u \in ages2 : u <= t
            /\ ages2 = {s[n].seconds} \/ ages2 = ages
        BY <3>2, <3>3, TighterFacts, Zenon
      <3> QED BY <2>1, <3>4, Zenon
    <2>2. CASE s[n].kind # "max_age"
      BY <1>3, <2>2
    <2> QED BY <2>1, <2>2, Zenon
  <1>6. ASSUME NEW k \in 1..n
        PROVE  /\ ~Rejected(s[k])
               /\ s[k].kind = "presence" => s[k].level <= level2
               /\ s[k].kind = "max_age" => \E t \in ages2 : t <= s[k].seconds
    <2>1. CASE k = n
      BY <1>4, <1>5, <2>1, Zenon
    <2>2. CASE k \in 1..(n - 1)
      <3>1. s[k] \in Params
        BY <1>2
      <3>2. s[k].kind = "presence" => s[k].level <= level2
        BY <1>3, <1>4, <2>2, <3>1, ParamFacts DEF Strictest
      <3>3. ASSUME s[k].kind = "max_age" PROVE \E t \in ages2 : t <= s[k].seconds
        <4>1. PICK t \in ages : t <= s[k].seconds
          BY <2>2, <3>3 DEF Strictest
        <4>2. PICK u \in ages2 : u <= t
          BY <1>5, Zenon
        <4>3. u \in Nat /\ t \in Nat /\ s[k].seconds \in Nat
          BY <1>3, <1>5, <3>1, <3>3, ParamFacts, Zenon
        <4> QED BY <4>1, <4>2, <4>3
      <3> QED BY <2>2, <3>2, <3>3, Zenon DEF Strictest
    <2> QED BY <1>1, <2>1, <2>2, Zenon
  <1>7. level2 = PresenceNone
          \/ \E k \in 1..n : s[k].kind = "presence" /\ s[k].level = level2
    BY <1>1, <1>4 DEF Strictest
  <1>8. \A t \in ages2 : \E k \in 1..n : s[k].kind = "max_age" /\ s[k].seconds = t
    BY <1>1, <1>5, Zenon DEF Strictest
  <1> QED BY <1>4, <1>5, <1>6, <1>7, <1>8, Zenon DEF Strictest

\* One more audience keeps the policy the strictest.
LEMMA FoldAudience ==
    ASSUME NEW s \in Seq([presence : PresenceLevels, maxAge : AgeBounds, name : Seq(Params)]),
           NEW n \in 1..Len(s),
           NEW level \in PresenceLevels, NEW ages \in AgeBounds,
           StrictestOf(s, n - 1, level, ages),
           NEW level2, NEW ages2,
           level2 = IF s[n].presence > level THEN s[n].presence ELSE level,
           ages2 = Tighter(s[n].maxAge, ages)
    PROVE  /\ StrictestOf(s, n, level2, ages2)
           /\ level2 \in PresenceLevels /\ ages2 \in AgeBounds
  <1>1. /\ \A k \in 1..n : k \in 1..(n - 1) \/ k = n
        /\ \A k \in 1..(n - 1) : k \in 1..n
        /\ n \in 1..n
    OBVIOUS
  <1> DEFINE Ext == [presence : PresenceLevels, maxAge : AgeBounds, name : Seq(Params)]
  <1>2. ASSUME NEW k \in 1..n
        PROVE  s[k].presence \in PresenceLevels /\ s[k].maxAge \in AgeBounds
    <2>1. s[k] \in Ext
      <3>1. k \in 1..Len(s)
        OBVIOUS
      <3> HIDE DEF Ext
      <3>2. s \in Seq(Ext)
        BY DEF Ext
      <3> QED BY <3>1, <3>2
    <2> QED BY <2>1
  <1>3. PresenceLevels \subseteq Int /\ \A x \in AgeBounds : x \subseteq Nat
    BY SecondsAssumption DEF PresenceLevels, PresenceNone, PresenceHardware, AgeBounds
  <1>4. /\ level2 \in PresenceLevels /\ level <= level2 /\ s[n].presence <= level2
        /\ level2 = level \/ s[n].presence = level2
    <2>1. s[n].presence \in PresenceLevels /\ s[n].presence \in Int /\ level \in Int
      BY <1>1, <1>2, <1>3
    <2>2. CASE s[n].presence > level
      BY <2>1, <2>2
    <2>3. CASE ~(s[n].presence > level)
      BY <2>1, <2>3
    <2> QED BY <2>2, <2>3
  <1>5. /\ ages2 \in AgeBounds
        /\ \A t \in ages : \E u \in ages2 : u <= t
        /\ \A t \in s[n].maxAge : \E u \in ages2 : u <= t
        /\ ages2 = s[n].maxAge \/ ages2 = ages
    <2>1. s[n].maxAge \in AgeBounds
      BY <1>1, <1>2
    <2> QED BY <2>1, TighterFacts
  <1>6. ASSUME NEW k \in 1..n
        PROVE  /\ s[k].presence <= level2
               /\ \A t \in s[k].maxAge : \E u \in ages2 : u <= t
    <2>1. CASE k = n
      BY <1>4, <1>5, <2>1
    <2>2. CASE k \in 1..(n - 1)
      <3>1. s[k].presence <= level /\ s[k].presence \in Int /\ level \in Int /\ level2 \in Int
        BY <1>2, <1>3, <1>4, <2>2, Zenon DEF StrictestOf
      <3>2. ASSUME NEW t \in s[k].maxAge PROVE \E u \in ages2 : u <= t
        <4>1. PICK v \in ages : v <= t
          BY <2>2 DEF StrictestOf
        <4>2. PICK u \in ages2 : u <= v
          BY <1>5
        <4>3. u \in Nat /\ v \in Nat /\ t \in Nat
          BY <1>2, <1>3, <1>5, Zenon
        <4> QED BY <4>1, <4>2, <4>3
      <3> QED BY <1>4, <3>1, <3>2
    <2> QED BY <1>1, <2>1, <2>2
  <1>7. level2 = PresenceNone \/ \E k \in 1..n : s[k].presence = level2
    BY <1>1, <1>4 DEF StrictestOf
  <1>8. \A u \in ages2 : \E k \in 1..n : u \in s[k].maxAge
    BY <1>1, <1>5 DEF StrictestOf
  <1> QED BY <1>4, <1>5, <1>6, <1>7, <1>8, Zenon DEF StrictestOf

-----------------------------------------------------------------------------

\* The strictest of nothing.
LEMMA NothingNamed ==
    /\ \A s : Strictest(s, 0, PresenceNone, {})
    /\ \A s : StrictestOf(s, 0, PresenceNone, {})
  BY DEF Strictest, StrictestOf

\* The request before its first parameter is read.
LEMMA InitIInv == Init => IInv
  <1> SUFFICES ASSUME Init PROVE IInv
    OBVIOUS
  <1>1. audiences \in Seq(Seq(Params)) /\ Len(audiences) \in Nat /\ Len(audiences) >= 1
    BY AudiencesAssumption DEF Init
  <1>2. audiences[1] \in Seq(Params) /\ Len(audiences[1]) \in Nat
    BY <1>1
  <1>3. PresenceNone \in PresenceLevels /\ {} \in AgeBounds
    BY DEF PresenceLevels, PresenceNone, PresenceHardware, AgeBounds
  <1>4. TypeOK
    BY <1>1, <1>3 DEF Init, TypeOK
  <1>5. ParsedBefore(audiences, 1, exts)
    BY DEF ParsedBefore
  <1> QED BY <1>1, <1>2, <1>4, <1>5, NothingNamed DEF Init, IInv

\* An accepted parameter.
LEMMA ParseStep == IInv /\ Parse => IInv'
  <1> SUFFICES ASSUME IInv, Parse PROVE IInv'
    OBVIOUS
  <1> DEFINE s == audiences[a]
  <1>1. /\ s \in Seq(Params) /\ p \in 1..Len(s) /\ ~Rejected(s[p])
        /\ require \in PresenceLevels /\ bound \in AgeBounds
        /\ a \in 1..Len(audiences) /\ a \in Nat /\ p \in Nat /\ Len(s) \in Nat
        /\ Strictest(s, p - 1, require, bound)
    BY SMTT(60) DEF IInv, TypeOK, Parse
  <1>2. /\ require' = IF s[p].kind = "presence" /\ s[p].level > require
                      THEN s[p].level ELSE require
        /\ bound' = IF s[p].kind = "max_age" THEN Tighter({s[p].seconds}, bound) ELSE bound
    BY DEF Parse
  <1>3. /\ Strictest(s, p, require', bound')
        /\ require' \in PresenceLevels /\ bound' \in AgeBounds
    BY <1>1, <1>2, ParseParam, Zenon
  <1>4. s[p] \in Params
    BY <1>1, SMTT(60)
  <1>5. kept' \in Seq(Params)
    BY <1>4 DEF IInv, TypeOK, Parse
  <1>6. /\ p' = p + 1 /\ p' - 1 = p /\ p' \in 1..(Len(s) + 1)
        /\ UNCHANGED <<pc, audiences, a, exts, policy>> /\ pc = "parse"
    BY <1>1, SMTT(60) DEF Parse
  <1>7. TypeOK'
    <2>1. p' \in Nat \ {0}
      BY <1>1, <1>6, SMTT(60)
    <2> QED BY <1>3, <1>5, <1>6, <2>1, Zenon DEF IInv, TypeOK
  <1>8. Strictest(audiences'[a'], p' - 1, require', bound')
    BY <1>3, <1>6
  <1> QED BY <1>6, <1>7, <1>8 DEF IInv, ParsedBefore

\* The end of an audience.
LEMMA ParsedStep == IInv /\ Parsed => IInv'
  <1> SUFFICES ASSUME IInv, Parsed PROVE IInv'
    OBVIOUS
  <1> DEFINE s == audiences[a]
             ext == [presence |-> require, maxAge |-> bound, name |-> kept]
  <1>1. /\ audiences \in Seq(Seq(Params)) /\ s \in Seq(Params) /\ p = Len(s) + 1
        /\ a \in 1..Len(audiences) /\ a \in Nat /\ Len(s) \in Nat /\ Len(exts) = a - 1
        /\ Strictest(s, Len(s), require, bound)
    <2>1. /\ audiences \in Seq(Seq(Params)) /\ s \in Seq(Params)
          /\ a \in 1..Len(audiences) /\ a \in Nat /\ Len(exts) = a - 1
          /\ p \in 1..(Len(s) + 1) /\ p > Len(s) /\ Strictest(s, p - 1, require, bound)
      <3>1. /\ pc = "parse" /\ a <= Len(audiences) /\ p > Len(s)
            /\ audiences \in Seq(Seq(Params)) /\ a \in Nat \ {0}
        BY Zenon DEF IInv, TypeOK, Parsed
      <3>2. /\ Len(exts) = a - 1 /\ p \in 1..(Len(s) + 1)
            /\ Strictest(s, p - 1, require, bound)
        BY <3>1, Zenon DEF IInv
      <3>3. a \in 1..Len(audiences) /\ s \in Seq(Params)
        BY <3>1
      <3> QED BY <3>1, <3>2, <3>3, Zenon
    <2>2. p = Len(s) + 1 /\ p - 1 = Len(s) /\ Len(s) \in Nat
      BY <2>1, SMTT(60)
    <2> QED BY <2>1, <2>2
  <1>2. ext \in [presence : PresenceLevels, maxAge : AgeBounds, name : Seq(Params)]
    BY DEF IInv, TypeOK
  <1>3. /\ exts' = Append(exts, ext) /\ a' = a + 1 /\ p' = 1 /\ pc' = "parse"
        /\ require' = PresenceNone /\ bound' = {} /\ kept' = << >>
        /\ audiences' = audiences /\ policy' = policy /\ pc = "parse"
    BY Zenon DEF Parsed
  <1>4. /\ Len(exts') = a /\ exts'[a] = ext
        /\ \A k \in 1..(a - 1) : exts'[k] = exts[k]
        /\ exts' \in Seq([presence : PresenceLevels, maxAge : AgeBounds, name : Seq(Params)])
    BY <1>1, <1>2, <1>3, SMTT(60) DEF IInv, TypeOK
  <1>5. PresenceNone \in PresenceLevels /\ {} \in AgeBounds
    BY DEF PresenceLevels, PresenceNone, PresenceHardware, AgeBounds
  <1>6. TypeOK'
    BY <1>1, <1>3, <1>4, <1>5 DEF IInv, TypeOK
  <1>7. ParsedBefore(audiences', a', exts')
    <2> SUFFICES ASSUME NEW k \in 1..a
                 PROVE  Strictest(audiences[k], Len(audiences[k]),
                                  exts'[k].presence, exts'[k].maxAge)
      BY <1>1, <1>3 DEF ParsedBefore
    <2>1. CASE k = a
      BY <1>1, <1>4, <2>1, SMTT(60)
    <2>2. CASE k \in 1..(a - 1)
      BY <1>3, <1>4, <2>2 DEF IInv, ParsedBefore
    <2> QED BY <1>1, <2>1, <2>2
  <1>8. a' <= Len(audiences) => audiences[a'] \in Seq(Params) /\ Len(audiences[a']) \in Nat
    BY <1>1, <1>3
  <1>9. Strictest(audiences'[a'], p' - 1, require', bound')
    BY <1>3, NothingNamed
  <1>10. a' \in 1..(Len(audiences') + 1) /\ Len(exts') = a' - 1
    BY <1>1, <1>3, <1>4
  <1>11. policy' = [presence |-> PresenceNone, maxAge |-> {}]
    BY <1>3 DEF IInv
  <1>12. a' <= Len(audiences') => p' \in 1..(Len(audiences'[a']) + 1)
    BY <1>3, <1>8
  <1> QED BY <1>3, <1>6, <1>7, <1>9, <1>10, <1>11, <1>12 DEF IInv

\* One audience of the folds.
LEMMA FoldStep == IInv /\ Fold => IInv'
  <1> SUFFICES ASSUME IInv, Fold PROVE IInv'
    OBVIOUS
  <1>1. /\ exts \in Seq([presence : PresenceLevels, maxAge : AgeBounds, name : Seq(Params)])
        /\ a \in 1..Len(exts) /\ a \in Nat /\ Len(exts) \in Nat
        /\ policy.presence \in PresenceLevels /\ policy.maxAge \in AgeBounds
        /\ StrictestOf(exts, a - 1, policy.presence, policy.maxAge)
    BY DEF IInv, TypeOK, Fold
  <1>2. /\ policy'.presence = IF exts[a].presence > policy.presence
                              THEN exts[a].presence ELSE policy.presence
        /\ policy'.maxAge = Tighter(exts[a].maxAge, policy.maxAge)
        /\ policy' = [presence |-> policy'.presence, maxAge |-> policy'.maxAge]
        /\ a' = a + 1 /\ pc = "fold"
        /\ UNCHANGED <<pc, audiences, p, require, bound, kept, exts>>
    BY DEF Fold
  <1>3. /\ StrictestOf(exts, a, policy'.presence, policy'.maxAge)
        /\ policy'.presence \in PresenceLevels /\ policy'.maxAge \in AgeBounds
    BY <1>1, <1>2, FoldAudience, Zenon
  <1>4. policy' \in [presence : PresenceLevels, maxAge : AgeBounds]
    BY <1>2, <1>3, Zenon
  <1>5. TypeOK'
    BY <1>1, <1>2, <1>4 DEF IInv, TypeOK
  <1>6. a' - 1 = a /\ a' \in 1..(Len(exts') + 1)
    BY <1>1, <1>2, SMTT(60)
  <1> QED BY <1>2, <1>3, <1>5, <1>6, Zenon DEF IInv, ParsedBefore

\* Every step keeps the invariant.
LEMMA NextIInv == IInv /\ [Next]_vars => IInv'
  <1> SUFFICES ASSUME IInv, [Next]_vars PROVE IInv'
    OBVIOUS
  <1>1. CASE Parse
    BY <1>1, ParseStep
  <1>2. CASE Reject
    <2>1. TypeOK' /\ pc' = "invalid" /\ UNCHANGED <<audiences, a, p>>
      BY <1>2, Zenon DEF IInv, TypeOK, Reject
    <2>2. a \in 1..Len(audiences) /\ p \in 1..Len(audiences[a]) /\ Rejected(audiences[a][p])
      <3>1. /\ pc = "parse" /\ a <= Len(audiences) /\ p <= Len(audiences[a])
            /\ Rejected(audiences[a][p])
        BY <1>2, Zenon DEF Reject
      <3>2. /\ audiences \in Seq(Seq(Params)) /\ a \in Nat \ {0} /\ p \in Nat \ {0}
        BY Zenon DEF IInv, TypeOK
      <3>3. a \in 1..Len(audiences)
        BY <3>1, <3>2
      <3>4. Len(audiences[a]) \in Nat
        BY <3>2, <3>3
      <3>5. p \in 1..Len(audiences[a])
        BY <3>1, <3>2, <3>4, SMTT(60)
      <3> QED BY <3>1, <3>3, <3>5, Zenon
    <2> QED BY <2>1, <2>2, ZenonT(60) DEF IInv
  <1>3. CASE Parsed
    BY <1>3, ParsedStep
  <1>4. CASE Collected
    <2>1. /\ pc' = "fold" /\ a' = 1 /\ pc = "parse"
          /\ UNCHANGED <<audiences, p, require, bound, kept, exts, policy>>
      BY <1>4 DEF Collected
    <2>2. TypeOK'
      BY <2>1 DEF IInv, TypeOK
    <2>3. a = Len(audiences) + 1 /\ Len(audiences) \in Nat /\ Len(exts) = Len(audiences)
      BY <1>4 DEF IInv, TypeOK, Collected
    <2>4. ParsedBefore(audiences, Len(audiences) + 1, exts)
      BY <2>1, <2>3 DEF IInv
    <2>5. StrictestOf(exts, 0, policy.presence, policy.maxAge)
      <3>1. policy.presence = PresenceNone /\ policy.maxAge = {}
        BY <2>1, SMTT(60) DEF IInv
      <3> QED BY <3>1 DEF StrictestOf
    <2> QED BY <2>1, <2>2, <2>3, <2>4, <2>5 DEF IInv, ParsedBefore
  <1>5. CASE Fold
    BY <1>5, FoldStep
  <1>6. CASE Gated
    <2>1. /\ pc' = "ok" /\ pc = "fold"
          /\ UNCHANGED <<audiences, a, p, require, bound, kept, exts, policy>>
      BY <1>6, ZenonT(60) DEF Gated
    <2>2. TypeOK'
      BY <2>1 DEF IInv, TypeOK
    <2>3. a = Len(exts) + 1
      BY <1>6, SMTT(60) DEF IInv, TypeOK, Gated
    <2> QED BY <2>1, <2>2, <2>3 DEF IInv, ParsedBefore
  <1>7. CASE UNCHANGED vars
    BY <1>7, Zenon DEF IInv, TypeOK, ParsedBefore, vars
  <1> QED BY <1>1, <1>2, <1>3, <1>4, <1>5, <1>6, <1>7 DEF Next

-----------------------------------------------------------------------------

\* What the invariant says of a finished request, in the words of the property.
LEMMA PolicyIsStrictest == IInv => StrictestWins
  <1> SUFFICES ASSUME IInv, pc = "ok"
               PROVE  LET levels == {q.level : q \in {r \in Carried : r.kind = "presence"}}
                          ages == {q.seconds : q \in {r \in Carried : r.kind = "max_age"}}
                      IN  /\ \A l \in levels : l <= policy.presence
                          /\ policy.presence \in levels \cup {PresenceNone}
                          /\ ages = {} => policy.maxAge = {}
                          /\ ages # {} => \E s \in ages : /\ policy.maxAge = {s}
                                                          /\ \A t \in ages : s <= t
    BY DEF StrictestWins
  <1> DEFINE levels == {q.level : q \in {r \in Carried : r.kind = "presence"}}
             ages == {q.seconds : q \in {r \in Carried : r.kind = "max_age"}}
             N == Len(audiences)
  <1>1. /\ N \in Nat /\ DOMAIN audiences = 1..N /\ DOMAIN exts = 1..N
        /\ \A n \in 1..N : /\ audiences[n] \in Seq(Params)
                           /\ exts[n].presence \in PresenceLevels
                           /\ exts[n].maxAge \in AgeBounds
        /\ policy.presence \in PresenceLevels /\ policy.maxAge \in AgeBounds
    <2>1. /\ audiences \in Seq(Seq(Params)) /\ Len(exts) = N
          /\ exts \in Seq([presence : PresenceLevels, maxAge : AgeBounds, name : Seq(Params)])
          /\ policy \in [presence : PresenceLevels, maxAge : AgeBounds]
      BY DEF IInv, TypeOK
    <2>2. N \in Nat /\ DOMAIN audiences = 1..N /\ DOMAIN exts = 1..N
      BY <2>1
    <2>3. \A n \in 1..N : audiences[n] \in Seq(Params)
      BY <2>1, <2>2
    <2>4. \A n \in 1..N :
             exts[n] \in [presence : PresenceLevels, maxAge : AgeBounds, name : Seq(Params)]
      <3> DEFINE Ext == [presence : PresenceLevels, maxAge : AgeBounds, name : Seq(Params)]
      <3>1. exts \in Seq(Ext) /\ Len(exts) = N
        BY <2>1
      <3> HIDE DEF Ext
      <3>2. \A n \in 1..N : exts[n] \in Ext
        BY <3>1
      <3> QED BY <3>2 DEF Ext
    <2> QED BY <2>1, <2>2, <2>3, <2>4, SMTT(60)
  <1>2. /\ \A n \in 1..N : Strictest(audiences[n], Len(audiences[n]),
                                     exts[n].presence, exts[n].maxAge)
        /\ StrictestOf(exts, N, policy.presence, policy.maxAge)
    <2>1. a - 1 = N /\ (N + 1) - 1 = N /\ Len(exts) = N
      BY <1>1 DEF IInv
    <2> QED BY <2>1 DEF IInv, ParsedBefore
  <1>3. \A q \in Carried : \E n \in 1..N : \E k \in 1..Len(audiences[n]) :
           q = audiences[n][k]
    BY <1>1 DEF Carried, Range
  <1>4. \A n \in 1..N : \A k \in 1..Len(audiences[n]) :
           audiences[n][k] \in Carried /\ audiences[n][k] \in Params
    BY <1>1, SMTT(60) DEF Carried, Range
  <1>5. PresenceLevels \subseteq Int /\ \A x \in AgeBounds : x \subseteq Nat
    BY SecondsAssumption DEF PresenceLevels, PresenceNone, PresenceHardware, AgeBounds
  <1>6. ASSUME NEW l \in levels PROVE l <= policy.presence
    <2>0. PICK n \in 1..N : \E k \in 1..Len(audiences[n]) :
             audiences[n][k].kind = "presence" /\ l = audiences[n][k].level
      BY <1>3
    <2>1. PICK k \in 1..Len(audiences[n]) :
             audiences[n][k].kind = "presence" /\ l = audiences[n][k].level
      BY <2>0, Zenon
    <2>2. l <= exts[n].presence /\ exts[n].presence <= policy.presence
      BY <1>2, <2>1 DEF Strictest, StrictestOf
    <2>3. l \in Int /\ exts[n].presence \in Int /\ policy.presence \in Int
      BY <1>1, <1>4, <1>5, <2>1, ParamFacts, Zenon
    <2> QED BY <2>2, <2>3
  <1>7. policy.presence \in levels \cup {PresenceNone}
    <2>1. ASSUME policy.presence # PresenceNone PROVE policy.presence \in levels
      <3>1. PICK n \in 1..N : exts[n].presence = policy.presence
        BY <1>2, <2>1 DEF StrictestOf
      <3>2. PICK k \in 1..Len(audiences[n]) :
               audiences[n][k].kind = "presence" /\ audiences[n][k].level = policy.presence
        BY <1>2, <2>1, <3>1 DEF Strictest
      <3> QED BY <1>4, <3>2, Zenon
    <2> QED BY <2>1
  <1>8. ASSUME NEW u \in policy.maxAge PROVE u \in ages
    <2>1. PICK n \in 1..N : u \in exts[n].maxAge
      BY <1>2 DEF StrictestOf
    <2>2. PICK k \in 1..Len(audiences[n]) :
             audiences[n][k].kind = "max_age" /\ audiences[n][k].seconds = u
      BY <1>2, <2>1 DEF Strictest
    <2> QED BY <1>4, <2>2
  <1>9. ASSUME NEW t \in ages PROVE \E u \in policy.maxAge : u <= t
    <2>0. PICK n \in 1..N : \E k \in 1..Len(audiences[n]) :
             audiences[n][k].kind = "max_age" /\ t = audiences[n][k].seconds
      BY <1>3
    <2>1. PICK k \in 1..Len(audiences[n]) :
             audiences[n][k].kind = "max_age" /\ t = audiences[n][k].seconds
      BY <2>0
    <2>2. PICK v \in exts[n].maxAge : v <= t
      BY <1>2, <2>1 DEF Strictest
    <2>3. PICK u \in policy.maxAge : u <= v
      BY <1>2 DEF StrictestOf
    <2>4. t \in Nat /\ v \in Nat /\ u \in Nat
      BY <1>1, <1>4, <1>5, <2>1, ParamFacts
    <2> QED BY <2>2, <2>3, <2>4
  <1>10. policy.maxAge = {} \/ \E s : policy.maxAge = {s}
    BY <1>1, Zenon DEF AgeBounds
  <1> HIDE DEF levels, ages
  <1>11. ages = {} => policy.maxAge = {}
    BY <1>8
  <1>12. ages # {} => \E s \in ages : policy.maxAge = {s} /\ \A t \in ages : s <= t
    BY <1>8, <1>9, <1>10
  <1> QED BY <1>6, <1>7, <1>11, <1>12 DEF levels, ages

\* The invariant says of a finished request that nothing went unread.
LEMMA AllUnderstood == IInv => NothingIgnored
  <1> SUFFICES ASSUME IInv PROVE NothingIgnored
    OBVIOUS
  <1>1. ASSUME pc = "ok", NEW q \in Carried PROVE ~Rejected(q)
    <2>1. audiences \in Seq(Seq(Params))
      BY DEF IInv, TypeOK
    <2>2. PICK n \in DOMAIN audiences : q \in Range(audiences[n])
      BY DEF Carried
    <2>3. n \in 1..Len(audiences) /\ audiences[n] \in Seq(Params) /\ Len(audiences) \in Nat
      BY <2>1, <2>2
    <2>4. PICK k \in 1..Len(audiences[n]) : q = audiences[n][k]
      BY <2>2, <2>3, SMTT(60) DEF Range
    <2>5. Strictest(audiences[n], Len(audiences[n]), exts[n].presence, exts[n].maxAge)
      BY <1>1, <2>3 DEF IInv, ParsedBefore
    <2> QED BY <2>4, <2>5, Zenon DEF Strictest
  <1>2. ASSUME pc = "invalid" PROVE \E q \in Carried : Rejected(q)
    <2>1. /\ audiences \in Seq(Seq(Params)) /\ a \in 1..Len(audiences)
          /\ p \in 1..Len(audiences[a]) /\ Rejected(audiences[a][p])
      BY <1>2 DEF IInv, TypeOK
    <2>2. a \in DOMAIN audiences /\ audiences[a] \in Seq(Params)
      BY <2>1
    <2>3. audiences[a][p] \in Range(audiences[a])
      BY <2>1, <2>2 DEF Range
    <2> QED BY <2>1, <2>2, <2>3 DEF Carried
  <1> QED BY <1>1, <1>2 DEF NothingIgnored

\* The accumulators of the parser and of the folds stay in range.
THEOREM TypeCorrect == Spec => []TypeOK
  <1>1. Spec => []IInv
    BY InitIInv, NextIInv, PTL DEF Spec
  <1>2. IInv => TypeOK
    BY DEF IInv
  <1> QED BY <1>1, <1>2, PTL

\* Whatever the audiences, their order and their repetitions, fetch_jwtsvid
\* gates the request on the strictest requirement any of them names.
THEOREM StrictestAlwaysWins == Spec => []StrictestWins
  <1>1. Spec => []IInv
    BY InitIInv, NextIInv, PTL DEF Spec
  <1> QED BY <1>1, PolicyIsStrictest, PTL

\* No hire_ parameter of any audience is ignored: it is evaluated, or the
\* request is refused.
THEOREM NamespaceIsClosed == Spec => []NothingIgnored
  <1>1. Spec => []IInv
    BY InitIInv, NextIInv, PTL DEF Spec
  <1> QED BY <1>1, AllUnderstood, PTL

-----------------------------------------------------------------------------
(* Hints.                                                                  *)

\* While no error was met: a field is set exactly for the keys read so far, to
\* the value read, and no key was read twice.
Clean ==
    /\ \A k \in H!Keys : fields[k] # Nothing
          => \E i \in DOMAIN raw : raw[i] = <<k, fields[k]>> /\ fields[k] \in HintValid[k]
    /\ \A i, j \in DOMAIN raw : raw[i][1] = raw[j][1] => i = j
    /\ \A i \in DOMAIN raw : raw[i][1] \in H!Keys /\ fields[raw[i][1]] # Nothing

\* The invariant of from_str.
HintInv ==
    /\ H!TypeOK
    /\ result \in {"reading", "ok", "Missing"} => Clean
    /\ result = "ok" => \A k \in H!Keys : fields[k] # Nothing
    /\ H!RefusedHasAFault

\* The parser starts clean.
LEMMA InitClean == H!Init => HintInv
  BY DEF H!Init, HintInv, H!TypeOK, Clean, H!RefusedHasAFault, H!Keys

\* A parameter keeps the invariant: a clean one extends it, any other is the
\* fault that the error names.
LEMMA ReadParamKeeps ==
  ASSUME HintInv, H!ReadParam
  PROVE  HintInv'
  <1>1. PICK k \in H!Keys \cup {"other"}, v \in HintValues :
           /\ raw' = Append(raw, <<k, v>>)
           /\ IF k \notin H!Keys THEN result' = "UnknownKey" /\ UNCHANGED fields
              ELSE IF v \notin HintValid[k] THEN result' = "BadValue" /\ UNCHANGED fields
              ELSE /\ fields' = [fields EXCEPT ![k] = v]
                   /\ result' = IF fields[k] # Nothing THEN "RepeatedKey" ELSE "reading"
    BY DEF H!ReadParam
  <1> DEFINE n == Len(raw)
  <1>2. /\ n \in Nat /\ DOMAIN raw = 1..n
        /\ DOMAIN raw' = 1..(n + 1)
        /\ \A i \in 1..n : raw'[i] = raw[i]
        /\ raw'[n + 1] = <<k, v>>
        /\ raw' \in Seq((H!Keys \cup {"other"}) \X HintValues)
    BY <1>1 DEF HintInv, H!TypeOK
  <1>3. result = "reading" /\ Clean
    BY DEF H!ReadParam, HintInv
  <1>4. H!TypeOK'
    BY <1>1, <1>2 DEF HintInv, H!TypeOK
  <1>5. CASE k \notin H!Keys
    <2>1. result' = "UnknownKey" /\ raw'[n + 1][1] \notin H!Keys
      BY <1>1, <1>2, <1>5, SMTT(60)
    <2>2. H!RefusedHasAFault'
      BY <2>1, <1>2 DEF H!RefusedHasAFault
    <2> QED BY <1>4, <2>1, <2>2 DEF HintInv
  <1>6. CASE k \in H!Keys /\ v \notin HintValid[k]
    <2>1. result' = "BadValue" /\ raw'[n + 1][2] \notin HintValid[raw'[n + 1][1]]
      BY <1>1, <1>2, <1>6
    <2>2. H!RefusedHasAFault'
      BY <2>1, <1>2 DEF H!RefusedHasAFault
    <2> QED BY <1>4, <2>1, <2>2 DEF HintInv
  <1>7. CASE k \in H!Keys /\ v \in HintValid[k] /\ fields[k] # Nothing
    <2>1. PICK i \in 1..n : raw[i] = <<k, fields[k]>>
      BY <1>2, <1>3, <1>7, Zenon DEF Clean
    <2>2. i # n + 1 /\ raw'[i][1] = raw'[n + 1][1] /\ i \in 1..(n + 1) /\ n + 1 \in 1..(n + 1)
      BY <1>2, <2>1
    <2>3. result' = "RepeatedKey"
      BY <1>1, <1>7
    <2>4. H!RefusedHasAFault'
      BY <2>2, <2>3, <1>2, ZenonT(60) DEF H!RefusedHasAFault
    <2> QED BY <1>4, <2>3, <2>4 DEF HintInv
  <1>8. CASE k \in H!Keys /\ v \in HintValid[k] /\ fields[k] = Nothing
    <2>1. /\ result' = "reading"
          /\ fields' = [fields EXCEPT ![k] = v]
          /\ fields \in [H!Keys -> HintValues \cup {Nothing}]
          /\ v # Nothing
      BY <1>1, <1>8, HintAssumption, Zenon DEF HintInv, H!TypeOK
    <2>2. \A i \in 1..n : raw'[i][1] \in H!Keys /\ raw'[i][1] # k
      BY <1>2, <1>3, <1>8, Zenon DEF Clean
    <2>3. \A q \in H!Keys : fields'[q] # Nothing
             => \E i \in 1..(n + 1) : raw'[i] = <<q, fields'[q]>> /\ fields'[q] \in HintValid[q]
      <3> SUFFICES ASSUME NEW q \in H!Keys, fields'[q] # Nothing
                   PROVE  \E i \in 1..(n + 1) : raw'[i] = <<q, fields'[q]>> /\ fields'[q] \in HintValid[q]
        OBVIOUS
      <3>1. CASE q = k
        BY <3>1, <1>2, <1>8, <2>1
      <3>2. CASE q # k
        <4>1. fields'[q] = fields[q]
          BY <3>2, <2>1
        <4>2. PICK i \in 1..n : raw[i] = <<q, fields[q]>> /\ fields[q] \in HintValid[q]
          BY <4>1, <1>2, <1>3, Zenon DEF Clean
        <4> QED BY <4>1, <4>2, <1>2
      <3> QED BY <3>1, <3>2
    <2>4. \A i, j \in 1..(n + 1) : raw'[i][1] = raw'[j][1] => i = j
      <3>1. raw'[n + 1][1] = k
        BY <1>2
      <3>2. \A i, j \in 1..n : raw'[i][1] = raw'[j][1] => i = j
        BY <1>2, <1>3, Zenon DEF Clean
      <3>3. \A i \in 1..(n + 1) : i \in 1..n \/ i = n + 1
        BY <1>2
      <3> QED BY <3>1, <3>2, <3>3, <2>2, Zenon
    <2>5. \A i \in 1..(n + 1) : raw'[i][1] \in H!Keys /\ fields'[raw'[i][1]] # Nothing
      <3>1. \A i \in 1..n : fields[raw[i][1]] # Nothing
        BY <1>2, <1>3 DEF Clean
      <3>2. \A q \in H!Keys : fields'[q] = IF q = k THEN v ELSE fields[q]
        BY <2>1, <1>8, Zenon
      <3>3. \A i \in 1..n : fields'[raw'[i][1]] # Nothing
        BY <1>2, <2>2, <3>1, <3>2, Zenon
      <3>4. raw'[n + 1][1] = k /\ fields'[k] = v
        BY <1>2, <1>8, <3>2
      <3>5. \A i \in 1..(n + 1) : i \in 1..n \/ i = n + 1
        BY <1>2
      <3> QED BY <1>8, <2>1, <2>2, <3>3, <3>4, <3>5, ZenonT(60)
    <2>6. Clean'
      BY <1>2, <2>3, <2>4, <2>5, Zenon DEF Clean
    <2> QED BY <1>4, <2>1, <2>6 DEF HintInv, H!RefusedHasAFault
  <1> QED BY <1>1, <1>5, <1>6, <1>7, <1>8

\* The end of the tag keeps the invariant.
LEMMA FinishKeeps ==
  ASSUME HintInv, H!Finish
  PROVE  HintInv'
  <1>1. Clean /\ UNCHANGED <<raw, fields>> /\ result' \in {"Missing", "ok"}
    BY Zenon DEF HintInv, H!Finish
  <1>2. H!TypeOK' /\ Clean'
    BY <1>1 DEF HintInv, H!TypeOK, Clean
  <1>3. result' = "ok" => \A k \in H!Keys : fields'[k] # Nothing
    BY <1>1 DEF H!Finish
  <1>4. result' = "Missing" => \E k \in H!Keys : fields[k] = Nothing
    BY DEF H!Finish
  <1>5. H!RefusedHasAFault'
    BY <1>1, <1>4 DEF H!RefusedHasAFault, Clean
  <1> QED BY <1>2, <1>3, <1>5 DEF HintInv

\* Every step keeps the invariant.
LEMMA HintNext == HintInv /\ [H!Next]_H!vars => HintInv'
  <1> SUFFICES ASSUME HintInv, [H!Next]_H!vars PROVE HintInv'
    OBVIOUS
  <1>1. CASE H!ReadParam
    BY <1>1, ReadParamKeeps
  <1>2. CASE H!Finish
    BY <1>2, FinishKeeps, ZenonT(60)
  <1>3. CASE UNCHANGED H!vars
    BY <1>3, Zenon DEF H!vars, HintInv, H!TypeOK, Clean, H!RefusedHasAFault
  <1> QED BY <1>1, <1>2, <1>3 DEF H!Next

-----------------------------------------------------------------------------
(* SPIFFE IDs.                                                             *)

\* s is u, the separator and v, and the separator is the first.
Splits(s, sep, u, v) ==
    /\ u \in Seq(S!Tokens) /\ v \in Seq(S!Tokens)
    /\ s = u \o <<sep>> \o v
    /\ \A i \in DOMAIN u : u[i] # sep

\* split_once gives the two sides of the first separator.
LEMMA SplitIs ==
    ASSUME NEW s \in Seq(S!Tokens), NEW sep, NEW q \in S!SplitOnce(s, sep)
    PROVE  q = <<q[1], q[2]>> /\ Splits(s, sep, q[1], q[2])
  <1>1. PICK i \in DOMAIN s :
           /\ s[i] = sep /\ \A j \in 1..i - 1 : s[j] # sep
           /\ q = <<SubSeq(s, 1, i - 1), SubSeq(s, i + 1, Len(s))>>
    BY Zenon DEF S!SplitOnce
  <1>2. PICK u : u = SubSeq(s, 1, i - 1)
    BY Zenon
  <1>3. PICK v : v = SubSeq(s, i + 1, Len(s))
    BY Zenon
  <1>4. q = <<u, v>> /\ q[1] = u /\ q[2] = v
    BY <1>1, <1>2, <1>3, Zenon
  <1>5. DOMAIN s = 1..Len(s) /\ Len(s) \in Nat /\ i \in 1..Len(s)
    BY <1>1
  <1>6. /\ u \in Seq(S!Tokens) /\ Len(u) = i - 1 /\ \A j \in 1..i - 1 : u[j] = s[j]
    BY <1>2, <1>5
  <1>7. /\ v \in Seq(S!Tokens) /\ Len(v) = Len(s) - i
        /\ \A j \in 1..(Len(s) - i) : v[j] = s[i + j]
    BY <1>3, <1>5
  <1>8. PICK x : x = u \o <<sep>>
    BY Zenon
  <1>9. PICK w : w = x \o v
    BY ZenonT(60)
  <1>10. /\ w \in Seq(S!Tokens) /\ Len(w) = Len(s)
         /\ \A j \in 1..Len(s) : w[j] = s[j]
    <2>1. sep \in S!Tokens
      BY <1>1, <1>5, SMTT(60)
    <2>2. /\ x \in Seq(S!Tokens) /\ Len(x) = i
          /\ x[i] = sep /\ \A j \in 1..i - 1 : x[j] = u[j]
      BY <1>5, <1>6, <1>8, <2>1
    <2>3. \A j \in 1..i : x[j] = s[j]
      <3>1. \A j \in 1..i : j \in 1..i - 1 \/ j = i
        BY <1>5
      <3> QED BY <1>1, <1>6, <2>2, <3>1, Zenon
    <2>4. /\ w \in Seq(S!Tokens) /\ Len(w) = i + (Len(s) - i)
          /\ \A j \in 1..i : w[j] = x[j]
          /\ \A j \in 1..(Len(s) - i) : w[i + j] = v[j]
      <3>1. x \o v \in Seq(S!Tokens) /\ Joined(x, v, w)
        BY <1>7, <1>9, <2>2, JoinedIs, Zenon
      <3>2. w \in Seq(S!Tokens)
        BY <1>9, <3>1, Zenon
      <3> QED BY <1>5, <1>7, <2>2, <3>1, <3>2 DEF Joined
    <2>5. ASSUME NEW j \in 1..Len(s) PROVE w[j] = s[j]
      <3>1. CASE j <= i
        BY <1>5, <2>3, <2>4, <3>1
      <3>2. CASE j > i
        <4>1. j - i \in 1..(Len(s) - i) /\ i + (j - i) = j
          BY <1>5, <3>2
        <4> QED BY <1>7, <2>4, <4>1, ZenonT(60)
      <3> QED BY <1>5, <3>1, <3>2
    <2> QED BY <1>5, <2>4, <2>5, SMTT(60)
  <1>11. w = s
    BY <1>10
  <1>12. \A j \in DOMAIN u : u[j] # sep
    BY <1>1, <1>5, <1>6
  <1> QED BY <1>4, <1>6, <1>7, <1>8, <1>9, <1>11, <1>12, Zenon DEF Splits

\* And only those.
LEMMA SplitOf ==
    ASSUME NEW s, NEW sep \in S!Tokens, NEW u, NEW v, Splits(s, sep, u, v)
    PROVE  S!SplitOnce(s, sep) = {<<u, v>>}
  <1> DEFINE n == Len(u) + 1
  <1>1. /\ u \in Seq(S!Tokens) /\ v \in Seq(S!Tokens) /\ s = u \o <<sep>> \o v
        /\ \A i \in DOMAIN u : u[i] # sep
    BY DEF Splits
  <1>2. /\ s \in Seq(S!Tokens) /\ Len(s) = Len(u) + 1 + Len(v)
        /\ DOMAIN s = 1..Len(s) /\ n \in DOMAIN s /\ n \in Nat
        /\ Len(u) \in Nat /\ Len(v) \in Nat /\ DOMAIN u = 1..Len(u)
    BY <1>1
  <1>3. /\ s[n] = sep /\ \A j \in 1..n - 1 : s[j] = u[j]
        /\ \A j \in 1..Len(v) : s[n + j] = v[j]
    BY <1>1, <1>2
  <1>4. {i \in DOMAIN s : s[i] = sep /\ \A j \in 1..i - 1 : s[j] # sep} = {n}
    <2>0. 1..n - 1 = DOMAIN u
      BY <1>2
    <2>1. \A j \in 1..n - 1 : s[j] # sep
      BY <1>1, <1>3, <2>0, Zenon
    <2>2. ASSUME NEW i \in DOMAIN s, s[i] = sep, \A j \in 1..i - 1 : s[j] # sep
          PROVE  i = n
      <3>1. i \in Nat /\ 1 <= i /\ 1 <= n
        BY <1>2, SMTT(60)
      <3>2. ~(i < n) /\ ~(n < i)
        BY <1>2, <1>3, <2>1, <2>2, <3>1, SMTT(60)
      <3> QED BY <1>2, <3>1, <3>2
    <2> QED BY <1>2, <1>3, <2>1, <2>2
  <1>5. SubSeq(s, 1, n - 1) = u
    BY <1>1, <1>2, <1>3, SMTT(60)
  <1>6. SubSeq(s, n + 1, Len(s)) = v
    BY <1>1, <1>2, <1>3
  <1> HIDE DEF n
  <1> QED BY <1>4, <1>5, <1>6, Zenon DEF S!SplitOnce

\* Two characters make a text.
LEMMA Pair == ASSUME NEW T, NEW x \in T, NEW y \in T PROVE <<x>> \o <<y>> = <<x, y>>
  <1>1. PICK s : s = <<x>>
    BY Zenon
  <1>2. PICK t : t = <<y>>
    BY Zenon
  <1>3. PICK u : u = s \o t
    BY Zenon
  <1>4. s \in Seq(T) /\ Len(s) = 1 /\ s[1] = x
    BY <1>1
  <1>5. t \in Seq(T) /\ Len(t) = 1 /\ t[1] = y
    BY <1>2
  <1>6. u \in Seq(T) /\ Joined(s, t, u)
    BY <1>3, <1>4, <1>5, JoinedIs, Zenon
  <1>7. DOMAIN u = 1..2 /\ u[1] = x /\ u[2] = y
    <2>1. DOMAIN u = 1..(1 + 1) /\ 1 \in 1..1 /\ 1 + 1 = 2
      BY <1>4, <1>5, <1>6 DEF Joined
    <2>2. u[1] = x /\ u[1 + 1] = y
      BY <1>4, <1>5, <1>6, <2>1, Zenon DEF Joined
    <2> QED BY <2>1, <2>2
  <1>8. u = <<x, y>>
    BY <1>6, <1>7
  <1> QED BY <1>1, <1>2, <1>3, <1>8, Zenon

\* The labels that name an issuer differ, and are neither separators nor the
\* fixed namespaces.
LEMMA PrefixIs ==
    /\ DOMAIN S!Prefix = {"OrgOidc", "PersonalDid", "PivIssuer"}
    /\ \A k \in DOMAIN S!Prefix :
          /\ S!Prefix[k] \in S!Tokens
          /\ S!Prefix[k] \notin {".", "/", "illegal", "tailscale", "ssh", "pgp"}
          /\ \A l \in DOMAIN S!Prefix : S!Prefix[k] = S!Prefix[l] => k = l
  BY DEF S!Prefix, S!Tokens, S!Labels

\* What Display writes of an issuer's domain.
LEMMA DisplayIssuer ==
    ASSUME NEW k \in DOMAIN S!Prefix, NEW value
    PROVE  S!DisplayDomain([kind |-> k, value |-> value]) = <<S!Prefix[k], ".">> \o value
  <1>1. k \notin {"Tailscale", "SshLocal", "PgpLocal"}
    BY PrefixIs
  <1> QED BY <1>1 DEF S!DisplayDomain

\* A domain that parses is what it prints.
LEMMA DomainIsPrinted ==
    ASSUME NEW s \in Seq(S!Tokens), ~S!IsErr(S!ParseDomain(s))
    PROVE  S!DisplayDomain(S!ParseDomain(s)) = s
  <1> DEFINE split == S!SplitOnce(s, ".")
             named == {k \in DOMAIN S!Prefix :
                          \E q \in split : q[1] = <<S!Prefix[k]>> /\ q[2] # << >>}
             d == S!ParseDomain(s)
  <1>1. \A e : S!IsErr(S!Err(e))
    BY DEF S!IsErr, S!Err
  <1>2. \/ s = <<"tailscale">> /\ d = S!Fixed("Tailscale")
        \/ s = <<"ssh", ".", "local">> /\ d = S!Fixed("SshLocal")
        \/ s = <<"pgp", ".", "local">> /\ d = S!Fixed("PgpLocal")
        \/ /\ named # {}
           /\ d = [kind |-> CHOOSE k \in named : TRUE, value |-> (CHOOSE q \in split : TRUE)[2]]
    BY <1>1, Zenon DEF S!ParseDomain
  <1>3. CASE s = <<"tailscale">> /\ d = S!Fixed("Tailscale")
    BY <1>3 DEF S!DisplayDomain, S!Fixed
  <1>4. CASE s = <<"ssh", ".", "local">> /\ d = S!Fixed("SshLocal")
    BY <1>4 DEF S!DisplayDomain, S!Fixed
  <1>5. CASE s = <<"pgp", ".", "local">> /\ d = S!Fixed("PgpLocal")
    BY <1>5 DEF S!DisplayDomain, S!Fixed
  <1>6. CASE /\ named # {}
             /\ d = [kind |-> CHOOSE k \in named : TRUE,
                     value |-> (CHOOSE q \in split : TRUE)[2]]
    <2>1. PICK k : k = CHOOSE l \in named : TRUE
      BY Zenon
    <2>2. k \in named
      BY <1>6, <2>1, Zenon
    <2>3. k \in DOMAIN S!Prefix /\ \E q \in split : q[1] = <<S!Prefix[k]>>
      BY <2>2
    <2>4. PICK q \in split : q[1] = <<S!Prefix[k]>>
      BY <2>3
    <2>5. q = <<q[1], q[2]>> /\ Splits(s, ".", q[1], q[2])
      BY SplitIs, Zenon
    <2>6. split = {<<q[1], q[2]>>}
      <3>1. "." \in S!Tokens
        BY DEF S!Tokens
      <3> HIDE DEF d, named
      <3> QED BY <2>5, <3>1, SplitOf
    <2>7. (CHOOSE r \in split : TRUE) = q
      BY <2>5, <2>6
    <2>8. d = [kind |-> k, value |-> q[2]]
      BY <1>6, <2>1, <2>7, Zenon
    <2>9. S!DisplayDomain(d) = <<S!Prefix[k], ".">> \o q[2]
      BY <2>3, <2>8, DisplayIssuer, Zenon
    <2>10. s = <<S!Prefix[k]>> \o <<".">> \o q[2] /\ q[2] \in Seq(S!Tokens)
      BY <2>4, <2>5, Zenon DEF Splits
    <2>11. <<S!Prefix[k]>> \o <<".">> = <<S!Prefix[k], ".">>
      <3>1. S!Prefix[k] \in S!Tokens /\ "." \in S!Tokens
        BY <2>3, PrefixIs DEF S!Tokens
      <3> QED BY <3>1, Pair, Zenon
    <2> QED BY <2>9, <2>10, <2>11, Zenon
  <1> QED BY <1>2, <1>3, <1>4, <1>5, <1>6, Zenon

\* And a SPIFFE ID.
LEMMA IdIsPrinted ==
    ASSUME NEW s \in Seq(S!Tokens), NEW hasScheme, ~S!IsErr(S!Parse(hasScheme, s))
    PROVE  hasScheme /\ S!Uri(S!Parse(hasScheme, s)) = s
  <1> DEFINE split == S!SplitOnce(s, "/")
             parts == CHOOSE q \in split : TRUE
             domain == S!ParseDomain(parts[1])
             id == S!Parse(hasScheme, s)
  <1>1. \A e : S!IsErr(S!Err(e))
    BY DEF S!IsErr, S!Err
  <1>2. /\ hasScheme /\ split # {} /\ ~S!IsErr(domain)
        /\ id = [domain |-> domain, path |-> parts[2]]
    BY <1>1, Zenon DEF S!Parse
  <1>3. parts \in split
    BY <1>2
  <1>4. Splits(s, "/", parts[1], parts[2])
    BY <1>3, SplitIs, Zenon
  <1>5. parts[1] \in Seq(S!Tokens) /\ s = parts[1] \o <<"/">> \o parts[2]
    BY <1>4, Zenon DEF Splits
  <1>6. S!DisplayDomain(domain) = parts[1]
    BY <1>2, <1>5, DomainIsPrinted, Zenon
  <1> HIDE DEF domain, parts, id
  <1>7. id.domain = domain /\ id.path = parts[2]
    BY <1>2
  <1> QED BY <1>2, <1>5, <1>6, <1>7, Zenon DEF S!Uri, id

\* An issuer's domain that is printed parses to itself.
LEMMA DomainIsParsed ==
    ASSUME NEW k \in DOMAIN S!Prefix, NEW value \in Seq(S!Tokens), value # << >>,
           \A i \in DOMAIN value : value[i] \notin {"/", "illegal"}
    PROVE  S!ParseDomain(<<S!Prefix[k], ".">> \o value) = [kind |-> k, value |-> value]
  <1>1. PICK s : s = <<S!Prefix[k], ".">> \o value
    BY Zenon
  <1> DEFINE split == S!SplitOnce(s, ".")
             named == {l \in DOMAIN S!Prefix :
                          \E q \in split : q[1] = <<S!Prefix[l]>> /\ q[2] # << >>}
  <1>2. /\ S!Prefix[k] \in S!Tokens /\ "." \in S!Tokens
        /\ S!Prefix[k] \notin {".", "/", "illegal", "tailscale", "ssh", "pgp"}
    BY PrefixIs DEF S!Tokens
  <1>3. /\ s \in Seq(S!Tokens) /\ Len(s) = 2 + Len(value) /\ s[1] = S!Prefix[k] /\ s[2] = "."
        /\ \A i \in 1..Len(value) : s[2 + i] = value[i]
    BY <1>1, <1>2
  <1>4. s # << >> /\ s # <<"tailscale">> /\ s # <<"ssh", ".", "local">>
        /\ s # <<"pgp", ".", "local">>
    BY <1>2, <1>3
  <1>5. ~\E i \in DOMAIN s : s[i] \in {"/", "illegal"}
    <2> SUFFICES ASSUME NEW i \in DOMAIN s PROVE s[i] \notin {"/", "illegal"}
      OBVIOUS
    <2>1. i \in 1..Len(s) /\ Len(value) \in Nat
      BY <1>3
    <2>2. i = 1 \/ i = 2 \/ (i - 2 \in 1..Len(value) /\ 2 + (i - 2) = i)
      BY <1>3, <2>1
    <2>3. CASE i = 1
      BY <1>2, <1>3, <2>3
    <2>4. CASE i = 2
      BY <1>3, <2>4
    <2>5. CASE i - 2 \in 1..Len(value) /\ 2 + (i - 2) = i
      <3>1. s[i] = value[i - 2] /\ i - 2 \in DOMAIN value
        BY <1>3, <2>5
      <3> QED BY <3>1
    <2> QED BY <2>2, <2>3, <2>4, <2>5
  <1>6. Splits(s, ".", <<S!Prefix[k]>>, value)
    <2>1. <<S!Prefix[k]>> \o <<".">> = <<S!Prefix[k], ".">>
      BY <1>2, Pair, Zenon
    <2>2. s = <<S!Prefix[k]>> \o <<".">> \o value
      BY <1>1, <2>1, Zenon
    <2>3. <<S!Prefix[k]>> \in Seq(S!Tokens) /\ \A i \in DOMAIN <<S!Prefix[k]>> :
             <<S!Prefix[k]>>[i] # "."
      BY <1>2
    <2> QED BY <2>2, <2>3, Zenon DEF Splits
  <1>7. split = {<<<<S!Prefix[k]>>, value>>}
    BY <1>2, <1>6, SplitOf, ZenonT(60)
  <1>8. named = {k}
    <2>1. \A l \in DOMAIN S!Prefix : <<S!Prefix[k]>> = <<S!Prefix[l]>> => l = k
      BY PrefixIs
    <2> HIDE DEF split
    <2>2. \A q \in split : q[1] = <<S!Prefix[k]>> /\ q[2] = value
      BY <1>7
    <2>3. \E q \in split : TRUE
      BY <1>7
    <2>4. \A l \in named : l = k
      BY <2>1, <2>2, Zenon
    <2>5. k \in named
      BY <2>2, <2>3, Zenon
    <2> QED BY <2>4, <2>5, Zenon
  <1>9. (CHOOSE l \in named : TRUE) = k /\ (CHOOSE q \in split : TRUE)[2] = value
    BY <1>7, <1>8
  <1>10. named # {}
    BY <1>8, Zenon
  <1>11. S!ParseDomain(s) = [kind |-> k, value |-> value]
    BY <1>4, <1>5, <1>9, <1>10, Zenon DEF S!ParseDomain
  <1> QED BY <1>1, <1>11, Zenon

\* And a SPIFFE ID of it.
LEMMA IdIsParsed ==
    ASSUME NEW k \in DOMAIN S!Prefix, NEW value \in Seq(S!Tokens), value # << >>,
           \A i \in DOMAIN value : value[i] \notin {"/", "illegal"},
           NEW id, id = [domain |-> [kind |-> k, value |-> value], path |-> <<"local">>]
    PROVE  S!Parse(TRUE, S!Uri(id)) = id
  <1>1. PICK d : d = <<S!Prefix[k], ".">> \o value
    BY Zenon
  <1>2. PICK s : s = S!Uri(id)
    BY Zenon
  <1>3. id.domain = [kind |-> k, value |-> value] /\ id.path = <<"local">>
    OBVIOUS
  <1>4. s = d \o <<"/">> \o <<"local">>
    BY <1>1, <1>2, <1>3, DisplayIssuer, Zenon DEF S!Uri
  <1>5. /\ d \in Seq(S!Tokens) /\ d # << >> /\ \A i \in DOMAIN d : d[i] # "/"
    <2>1. S!Prefix[k] \in S!Tokens /\ "." \in S!Tokens /\ S!Prefix[k] # "/"
      BY PrefixIs DEF S!Tokens
    <2>2. /\ d \in Seq(S!Tokens) /\ Len(d) = 2 + Len(value) /\ d[1] = S!Prefix[k] /\ d[2] = "."
          /\ \A i \in 1..Len(value) : d[2 + i] = value[i]
      BY <1>1, <2>1, SMTT(60)
    <2>3. ASSUME NEW i \in DOMAIN d PROVE d[i] # "/"
      <3>1. i = 1 \/ i = 2 \/ (i - 2 \in 1..Len(value) /\ 2 + (i - 2) = i)
        BY <2>2
      <3>2. i - 2 \in 1..Len(value) => d[2 + (i - 2)] = value[i - 2] /\ value[i - 2] # "/"
        BY <2>2
      <3> QED BY <2>1, <2>2, <3>1, <3>2, Zenon
    <2> QED BY <2>2, <2>3, SMTT(60)
  <1>6. /\ "/" \in S!Tokens /\ <<"local">> \in Seq(S!Tokens) /\ <<"local">> # << >>
    BY DEF S!Tokens, S!Labels
  <1>7. S!SplitOnce(s, "/") = {<<d, <<"local">>>>}
    <2>1. Splits(s, "/", d, <<"local">>)
      BY <1>4, <1>5, <1>6, Zenon DEF Splits
    <2> QED BY <1>6, <2>1, SplitOf, ZenonT(60)
  <1>8. S!ParseDomain(d) = id.domain
    BY <1>1, <1>3, DomainIsParsed, Zenon
  <1> DEFINE parts == CHOOSE q \in S!SplitOnce(s, "/") : TRUE
  <1>9. parts = <<d, <<"local">>>> /\ parts[1] = d /\ parts[2] = <<"local">>
    BY <1>7
  <1>10. ~S!IsErr(id.domain)
    BY <1>3 DEF S!IsErr
  <1>11. S!SplitOnce(s, "/") # {}
    BY <1>7, Zenon
  <1>12. S!Parse(TRUE, s) = [domain |-> id.domain, path |-> <<"local">>]
    BY <1>5, <1>6, <1>8, <1>9, <1>10, <1>11, Zenon DEF S!Parse
  <1> QED BY <1>2, <1>3, <1>12, Zenon

-----------------------------------------------------------------------------
(* DIDs.                                                                   *)

\* v holds the values of the prefixes of d, a sequence of digits in a base.
Sums(d, base, n, v) ==
    v = [k \in 0..n |-> IF k = 0 THEN 0 ELSE v[k - 1] * base + d[k]]

\* The recursion in Value has a solution on every prefix.
LEMMA SumsOf ==
    ASSUME NEW d, NEW base
    PROVE  \A n \in Nat : \E v : Sums(d, base, n, v)
  <1> DEFINE A == {n \in Nat : \E v : Sums(d, base, n, v)}
  <1>1. 0 \in A
    <2> DEFINE v == [k \in 0..0 |-> 0]
    <2>1. v = [k \in 0..0 |-> IF k = 0 THEN 0 ELSE v[k - 1] * base + d[k]]
      OBVIOUS
    <2>2. Sums(d, base, 0, v)
      BY <2>1, Zenon DEF Sums
    <2> QED BY <2>2
  <1>2. ASSUME NEW n \in Nat, n \in A PROVE n + 1 \in A
    <2>1. PICK v : Sums(d, base, n, v)
      BY <1>2
    <2> DEFINE w == [k \in 0..n + 1 |-> IF k = n + 1 THEN v[n] * base + d[n + 1] ELSE v[k]]
    <2>2. \A k \in 0..n : v[k] = IF k = 0 THEN 0 ELSE v[k - 1] * base + d[k]
      BY <2>1 DEF Sums
    <2>3. ASSUME NEW k \in 0..n + 1
          PROVE  w[k] = IF k = 0 THEN 0 ELSE w[k - 1] * base + d[k]
      <3>1. CASE k = n + 1
        <4>1. k # 0 /\ k - 1 = n /\ k - 1 \in 0..n + 1 /\ n # n + 1
          BY <3>1
        <4>2. w[k] = v[n] * base + d[k] /\ w[n] = v[n]
          BY <3>1, <4>1
        <4> HIDE DEF w
        <4> QED BY <4>1, <4>2
      <3>2. CASE k # n + 1
        <4>1. k \in 0..n /\ (k # 0 => k - 1 \in 0..n + 1 /\ k - 1 # n + 1)
          BY <3>2
        <4>2. w[k] = v[k] /\ (k # 0 => w[k - 1] = v[k - 1])
          BY <3>2, <4>1
        <4> HIDE DEF w
        <4> QED BY <2>2, <4>1, <4>2, Zenon
      <3> QED BY <3>1, <3>2
    <2>4. w = [k \in 0..n + 1 |-> IF k = 0 THEN 0 ELSE w[k - 1] * base + d[k]]
      BY <2>3
    <2>5. Sums(d, base, n + 1, w)
      BY <2>4, Zenon DEF Sums
    <2> QED BY <2>5
  <1> HIDE DEF A
  <1>3. Nat \subseteq A
    BY <1>1, <1>2, SetInduction
  <1> QED BY <1>3 DEF A

\* So Value is the last of the values of the prefixes.
LEMMA ValueIs ==
    ASSUME NEW d, NEW base, Len(d) \in Nat
    PROVE  \E v : Sums(d, base, Len(d), v) /\ D!Value(d, base) = v[Len(d)]
  <1> DEFINE upTo == CHOOSE v : v = [k \in 0..Len(d) |->
                        IF k = 0 THEN 0 ELSE v[k - 1] * base + d[k]]
  <1>1. \E v : v = [k \in 0..Len(d) |-> IF k = 0 THEN 0 ELSE v[k - 1] * base + d[k]]
    BY SumsOf, ZenonT(60) DEF Sums
  <1>2. Sums(d, base, Len(d), upTo)
    BY <1>1, Zenon DEF Sums
  <1>3. D!Value(d, base) = upTo[Len(d)]
    BY Zenon DEF D!Value
  <1> QED BY <1>2, <1>3, Zenon

\* The two agree from i to j.
Agree(f, g, i, j) == \A k \in i..j : f[k] = g[k]

\* Digits that agree have the same value.
LEMMA SumsAgree ==
    ASSUME NEW base, NEW d, NEW e, NEW n \in Nat, NEW m \in Nat, n <= m, NEW v, NEW w,
           Sums(d, base, n, v), Sums(e, base, m, w), Agree(d, e, 1, n)
    PROVE  Agree(v, w, 0, n)
  <1> DEFINE A == {k \in Nat : k <= n => v[k] = w[k]}
  <1>1. \A k \in 0..n : v[k] = IF k = 0 THEN 0 ELSE v[k - 1] * base + d[k]
    BY DEF Sums
  <1>2. \A k \in 0..m : w[k] = IF k = 0 THEN 0 ELSE w[k - 1] * base + e[k]
    BY DEF Sums
  <1>3. 0 \in A
    BY <1>1, <1>2
  <1>4. ASSUME NEW k \in Nat, k \in A PROVE k + 1 \in A
    <2> SUFFICES ASSUME k + 1 <= n PROVE v[k + 1] = w[k + 1]
      OBVIOUS
    <2>1. /\ k + 1 \in 0..n /\ k + 1 \in 0..m /\ k + 1 \in 1..n /\ k + 1 # 0
          /\ (k + 1) - 1 = k /\ v[k] = w[k]
      BY <1>4
    <2>2. v[k + 1] = v[k] * base + d[k + 1] /\ w[k + 1] = w[k] * base + e[k + 1]
      BY <1>1, <1>2, <2>1
    <2>3. d[k + 1] = e[k + 1]
      BY <2>1, Zenon DEF Agree
    <2> QED BY <2>1, <2>2, <2>3, Zenon
  <1> HIDE DEF A
  <1>5. Nat \subseteq A
    BY <1>3, <1>4, SetInduction
  <1> QED BY <1>5 DEF A, Agree

\* One more digit.
LEMMA ValuePush ==
    ASSUME NEW d \in Seq(Nat), NEW x \in Nat
    PROVE  D!Value(Append(d, x), 58) = D!Value(d, 58) * 58 + x
  <1>1. PICK e : e = Append(d, x)
    BY Zenon
  <1>2. /\ Len(d) \in Nat /\ Len(e) = Len(d) + 1 /\ e[Len(d) + 1] = x
        /\ \A k \in 1..Len(d) : d[k] = e[k]
    BY <1>1
  <1>3. PICK v : Sums(d, 58, Len(d), v) /\ D!Value(d, 58) = v[Len(d)]
    BY <1>2, ValueIs, Zenon
  <1>4. PICK w : Sums(e, 58, Len(e), w) /\ D!Value(e, 58) = w[Len(e)]
    BY <1>2, ValueIs
  <1>5. v[Len(d)] = w[Len(d)]
    <2>1. Len(e) \in Nat /\ Len(d) <= Len(e) /\ Len(d) \in 0..Len(d)
      BY <1>2
    <2>2. Agree(d, e, 1, Len(d))
      BY <1>2, Zenon DEF Agree
    <2>3. Agree(v, w, 0, Len(d))
      BY <1>2, <1>3, <1>4, <2>1, <2>2, SumsAgree, Zenon
    <2> QED BY <2>1, <2>3, Zenon DEF Agree
  <1>6. w[Len(d) + 1] = w[Len(d)] * 58 + x
    <2>1. \A k \in 0..Len(e) : w[k] = IF k = 0 THEN 0 ELSE w[k - 1] * 58 + e[k]
      BY <1>4, Zenon DEF Sums
    <2>2. Len(d) + 1 \in 0..Len(e) /\ Len(d) + 1 # 0 /\ (Len(d) + 1) - 1 = Len(d)
      BY <1>2
    <2> QED BY <1>2, <2>1, <2>2
  <1> QED BY <1>1, <1>2, <1>3, <1>4, <1>5, <1>6

\* Zeros stand for zero.
LEMMA ValueZero ==
    ASSUME NEW n \in Nat
    PROVE  D!Value([i \in 1..n |-> 0], 256) = 0
  <1>1. PICK d : d = [i \in 1..n |-> 0]
    BY Zenon
  <1>2. d \in Seq(Nat) /\ Len(d) = n /\ \A k \in 1..n : d[k] = 0
    BY <1>1
  <1>3. PICK v : Sums(d, 256, n, v) /\ D!Value(d, 256) = v[n]
    BY <1>2, ValueIs
  <1>4. \A k \in 0..n : v[k] = IF k = 0 THEN 0 ELSE v[k - 1] * 256 + d[k]
    BY <1>3 DEF Sums
  <1> DEFINE A == {k \in Nat : k <= n => v[k] = 0}
  <1>5. 0 \in A
    BY <1>4
  <1>6. ASSUME NEW k \in Nat, k \in A PROVE k + 1 \in A
    <2> SUFFICES ASSUME k + 1 <= n PROVE v[k + 1] = 0
      OBVIOUS
    <2>1. k + 1 \in 0..n /\ k + 1 \in 1..n /\ k + 1 # 0 /\ (k + 1) - 1 = k /\ v[k] = 0
      BY <1>6
    <2>2. v[k + 1] = v[k] * 256 + d[k + 1]
      BY <1>4, <2>1
    <2> QED BY <1>2, <2>1, <2>2
  <1> HIDE DEF A
  <1>7. Nat \subseteq A
    BY <1>5, <1>6, SetInduction
  <1> QED BY <1>1, <1>3, <1>7 DEF A

-----------------------------------------------------------------------------

\* c holds the carries into the last m bytes of b and out of them.
CarriedFrom(b, digit, m, c) ==
    c = [i \in (Width - m)..Width |->
            IF i = Width THEN digit ELSE (c[i + 1] + 58 * b[i + 1]) \div 256]

\* The recursion in Carries has a solution.
LEMMA CarriesOf ==
    ASSUME NEW b, NEW digit
    PROVE  \A m \in Nat : \E c : CarriedFrom(b, digit, m, c)
  <1> DEFINE A == {m \in Nat : \E c : CarriedFrom(b, digit, m, c)}
  <1>0. Width \in Int
    BY DidAssumption
  <1>1. 0 \in A
    <2> DEFINE c == [i \in (Width - 0)..Width |-> digit]
    <2>1. c = [i \in (Width - 0)..Width |->
                  IF i = Width THEN digit ELSE (c[i + 1] + 58 * b[i + 1]) \div 256]
      BY <1>0
    <2>2. CarriedFrom(b, digit, 0, c)
      BY <2>1, Zenon DEF CarriedFrom
    <2> QED BY <2>2
  <1>2. ASSUME NEW m \in Nat, m \in A PROVE m + 1 \in A
    <2>1. PICK c : CarriedFrom(b, digit, m, c)
      BY <1>2
    <2> DEFINE lo == Width - (m + 1)
               w == [i \in lo..Width |->
                        IF i = lo THEN (c[lo + 1] + 58 * b[lo + 1]) \div 256 ELSE c[i]]
    <2>2. \A i \in (Width - m)..Width :
             c[i] = IF i = Width THEN digit ELSE (c[i + 1] + 58 * b[i + 1]) \div 256
      BY <2>1, Zenon DEF CarriedFrom
    <2>3. ASSUME NEW i \in lo..Width
          PROVE  w[i] = IF i = Width THEN digit ELSE (w[i + 1] + 58 * b[i + 1]) \div 256
      <3>1. CASE i = lo
        <4>1. i # Width /\ i + 1 # lo /\ i + 1 \in lo..Width
          BY <1>0, <3>1
        <4>2. w[i] = (c[i + 1] + 58 * b[i + 1]) \div 256 /\ w[i + 1] = c[i + 1]
          BY <3>1, <4>1
        <4> HIDE DEF w
        <4> QED BY <4>1, <4>2
      <3>2. CASE i # lo
        <4>1. /\ i \in (Width - m)..Width
              /\ i # Width => i + 1 \in lo..Width /\ i + 1 # lo
          BY <1>0, <3>2
        <4>2. w[i] = c[i] /\ (i # Width => w[i + 1] = c[i + 1])
          BY <3>2, <4>1
        <4> HIDE DEF w
        <4> QED BY <2>2, <4>1, <4>2, ZenonT(60)
      <3> QED BY <3>1, <3>2, Zenon
    <2>4. w = [i \in (Width - (m + 1))..Width |->
                 IF i = Width THEN digit ELSE (w[i + 1] + 58 * b[i + 1]) \div 256]
      BY <2>3
    <2>5. CarriedFrom(b, digit, m + 1, w)
      BY <2>4, Zenon DEF CarriedFrom
    <2> QED BY <2>5
  <1> HIDE DEF A
  <1>3. Nat \subseteq A
    BY <1>1, <1>2, SetInduction
  <1> QED BY <1>3 DEF A

\* The arithmetic of one byte.
LEMMA DivMod ==
    /\ \A x \in Nat : \A y \in 0..255 : x + 58 * y \in Nat
    /\ \A x \in Nat : /\ x \div 256 \in Nat /\ (x % 256) \in 0..255
                      /\ 256 * (x \div 256) + (x % 256) = x
  OBVIOUS

\* Byte b becomes e, with d carried in and c carried out.
Passes(b, c, d, e) ==
    /\ b \in 0..255 /\ e \in 0..255 /\ d \in Nat /\ c \in Nat
    /\ 256 * c + e = d + 58 * b

\* A number becomes 58 times itself and a digit.
Shifted(v, w, x) == v \in Nat /\ w = v * 58 + x

\* The arithmetic of one byte and its carries.
LEMMA ByteShift ==
    ASSUME NEW v, NEW w, NEW b, NEW c, NEW d, NEW e, Shifted(v, w, c), Passes(b, c, d, e)
    PROVE  Shifted(v * 256 + b, w * 256 + e, d)
  BY DEF Shifted, Passes

\* None is negative, and each byte passes on what it cannot hold.
Carrying(b, digit, c) ==
    /\ c[Width] = digit /\ \A i \in 0..Width : c[i] \in Nat
    /\ \A i \in 1..Width : c[i - 1] = (c[i] + 58 * b[i]) \div 256

\* What the carries are.
LEMMA CarriesAre ==
    ASSUME NEW b \in [1..Width -> 0..255], NEW digit \in Nat, NEW c,
           c = D!Carries(b, digit)
    PROVE  Carrying(b, digit, c)
  <1>0. Width \in Nat
    BY DidAssumption
  <1>1. c = [i \in 0..Width |->
               IF i = Width THEN digit ELSE (c[i + 1] + 58 * b[i + 1]) \div 256]
    <2> DEFINE Is(e) == e = [i \in 0..Width |->
               IF i = Width THEN digit ELSE (e[i + 1] + 58 * b[i + 1]) \div 256]
    <2>1. Width - Width = 0
      BY <1>0
    <2>2. \E e : Is(e)
      <3>1. PICK e : CarriedFrom(b, digit, Width, e)
        BY <1>0, CarriesOf, Zenon
      <3>2. Is(e)
        BY <2>1, <3>1, Zenon DEF CarriedFrom
      <3> HIDE DEF Is
      <3> QED BY <3>2, Zenon
    <2>3. c = CHOOSE e : Is(e)
      BY Zenon DEF D!Carries
    <2>4. Is(c)
      <3> HIDE DEF Is
      <3> QED BY <2>2, <2>3, Zenon
    <2> QED BY <2>4, Zenon
  <1>2. \A i \in 0..Width :
           c[i] = IF i = Width THEN digit ELSE (c[i + 1] + 58 * b[i + 1]) \div 256
    BY <1>1, Zenon
  <1>3. c[Width] = digit
    BY <1>0, <1>2
  <1>4. \A i \in 1..Width : c[i - 1] = (c[i] + 58 * b[i]) \div 256
    <2> SUFFICES ASSUME NEW i \in 1..Width PROVE c[i - 1] = (c[i] + 58 * b[i]) \div 256
      OBVIOUS
    <2>1. i - 1 \in 0..Width /\ i - 1 # Width /\ (i - 1) + 1 = i
      BY <1>0
    <2>2. c[i - 1] = (c[(i - 1) + 1] + 58 * b[(i - 1) + 1]) \div 256
      BY <1>2, <2>1, Zenon
    <2> QED BY <2>1, <2>2
  <1> DEFINE A == {m \in Nat : m <= Width => c[Width - m] \in Nat}
  <1>5. 0 \in A
    BY <1>0, <1>3
  <1>6. ASSUME NEW m \in Nat, m \in A PROVE m + 1 \in A
    <2> SUFFICES ASSUME m + 1 <= Width PROVE c[Width - (m + 1)] \in Nat
      OBVIOUS
    <2> DEFINE i == Width - m
    <2>1. i \in 1..Width /\ i - 1 = Width - (m + 1) /\ c[i] \in Nat /\ b[i] \in 0..255
      BY <1>0, <1>6
    <2>2. c[i - 1] = (c[i] + 58 * b[i]) \div 256
      BY <1>4, <2>1
    <2> HIDE DEF i
    <2>3. c[i] + 58 * b[i] \in Nat
      BY <2>1, DivMod, ZenonT(60)
    <2>4. (c[i] + 58 * b[i]) \div 256 \in Nat
      BY <2>3, DivMod, ZenonT(60)
    <2> QED BY <2>1, <2>2, <2>4, Zenon
  <1> HIDE DEF A
  <1>7. Nat \subseteq A
    BY <1>5, <1>6, SetInduction
  <1>8. ASSUME NEW i \in 0..Width PROVE c[i] \in Nat
    <2>1. Width - i \in Nat /\ Width - i <= Width /\ Width - (Width - i) = i
      BY <1>0
    <2>2. c[Width - (Width - i)] \in Nat
      BY <1>7, <2>1, Zenon DEF A
    <2> QED BY <2>1, <2>2
  <1> QED BY <1>3, <1>4, <1>8, Zenon DEF Carrying

\* The bytes e are 58 times the bytes b, with the carries c.
Shifts(n, b, c, e) ==
    \A i \in 1..n : Passes(b[i], c[i - 1], c[i], e[i])

\* So do the numbers they stand for.
LEMMA SumsShift ==
    ASSUME NEW n \in Nat, NEW b, NEW c, NEW e, Shifts(n, b, c, e), c[0] = 0,
           NEW v, NEW w, Sums(b, 256, n, v), Sums(e, 256, n, w)
    PROVE  Shifted(v[n], w[n], c[n])
  <1>1. \A k \in 0..n : v[k] = IF k = 0 THEN 0 ELSE v[k - 1] * 256 + b[k]
    BY ZenonT(60) DEF Sums
  <1>2. \A k \in 0..n : w[k] = IF k = 0 THEN 0 ELSE w[k - 1] * 256 + e[k]
    BY Zenon DEF Sums
  <1> DEFINE A == {k \in Nat : k <= n => Shifted(v[k], w[k], c[k])}
  <1>3. 0 \in A
    <2>1. 0 \in 0..n
      OBVIOUS
    <2>2. v[0] = 0 /\ w[0] = 0
      BY <1>1, <1>2, <2>1, ZenonT(60)
    <2> QED BY <2>2 DEF Shifted
  <1>4. ASSUME NEW k \in Nat, k \in A PROVE k + 1 \in A
    <2> SUFFICES ASSUME k + 1 <= n
                 PROVE  Shifted(v[k + 1], w[k + 1], c[k + 1])
      OBVIOUS
    <2>1. /\ k + 1 \in 0..n /\ k + 1 \in 1..n /\ k + 1 # 0 /\ (k + 1) - 1 = k /\ k <= n
      OBVIOUS
    <2>2. Shifted(v[k], w[k], c[k])
      BY <1>4, <2>1
    <2>3. v[k + 1] = v[k] * 256 + b[k + 1] /\ w[k + 1] = w[k] * 256 + e[k + 1]
      <3>1. v[k + 1] = v[(k + 1) - 1] * 256 + b[k + 1]
        BY <1>1, <2>1, Zenon
      <3>2. w[k + 1] = w[(k + 1) - 1] * 256 + e[k + 1]
        BY <1>2, <2>1, Zenon
      <3> QED BY <2>1, <3>1, <3>2, ZenonT(60)
    <2>4. Passes(b[k + 1], c[k], c[k + 1], e[k + 1])
      <3>1. Passes(b[k + 1], c[(k + 1) - 1], c[k + 1], e[k + 1])
        BY <2>1, Zenon DEF Shifts
      <3> QED BY <2>1, <3>1, Zenon
    <2>5. Shifted(v[k] * 256 + b[k + 1], w[k] * 256 + e[k + 1], c[k + 1])
      BY <2>2, <2>4, ByteShift
    <2> QED BY <2>3, <2>5, Zenon
  <1> HIDE DEF A
  <1>5. Nat \subseteq A
    BY <1>3, <1>4, SetInduction
  <1> QED BY <1>5 DEF A

\* e is what Push leaves of the buffer b, c the carries, before and after.
Pushes(b, digit, c, e) ==
    /\ c = D!Carries(b, digit)
    /\ e = [i \in 1..Width |-> (c[i] + 58 * b[i]) % 256]
Leaves(b, digit, c, e) ==
    Shifts(Width, b, c, e) /\ c[Width] = digit /\ e \in [1..Width -> 0..255]

\* What Push leaves in the buffer, of any number of bytes.
LEMMA PushShifts ==
    ASSUME NEW b \in [1..Width -> 0..255], NEW digit \in Nat, NEW c, NEW e,
           Pushes(b, digit, c, e)
    PROVE  Leaves(b, digit, c, e)
  <1>1. /\ c[Width] = digit /\ \A i \in 0..Width : c[i] \in Nat
        /\ \A i \in 1..Width : c[i - 1] = (c[i] + 58 * b[i]) \div 256
    <2>1. Carrying(b, digit, c)
      BY CarriesAre, Zenon DEF Pushes
    <2> QED BY <2>1, Zenon DEF Carrying
  <1>2. ASSUME NEW i \in 1..Width
        PROVE  Passes(b[i], c[i - 1], c[i], e[i]) /\ e[i] \in 0..255
    <2>1. i \in 0..Width /\ i - 1 \in 0..Width
      BY DidAssumption
    <2>2. c[i] \in Nat /\ c[i - 1] \in Nat /\ b[i] \in 0..255
      BY <1>1, <2>1, ZenonT(60)
    <2>3. PICK x : x = c[i] + 58 * b[i]
      BY Zenon
    <2>4. x \in Nat
      <3>1. PICK y, z : y = c[i] /\ z = b[i]
        BY Zenon
      <3>2. y \in Nat /\ z \in 0..255 /\ x = y + 58 * z
        BY <2>2, <2>3, <3>1
      <3> QED BY <3>2
    <2>5. e[i] = x % 256 /\ c[i - 1] = x \div 256
      BY <1>1, <2>3, Zenon DEF Pushes
    <2>6. 256 * (x \div 256) + (x % 256) = x /\ x % 256 \in 0..255
      BY <2>4, DivMod
    <2>7. 256 * c[i - 1] + e[i] = c[i] + 58 * b[i] /\ e[i] \in 0..255
      BY <2>3, <2>5, <2>6, ZenonT(60)
    <2> QED BY <2>2, <2>7 DEF Passes
  <1>3. DOMAIN e = 1..Width /\ e = [i \in DOMAIN e |-> e[i]]
    BY DEF Pushes
  <1>4. e \in [1..Width -> 0..255]
    BY <1>2, <1>3, Zenon
  <1> QED BY <1>1, <1>2, <1>4, Zenon DEF Shifts, Leaves

\* A digit that fits multiplies the number in the buffer by 58 and adds itself.
LEMMA ValueShift ==
    ASSUME NEW b \in [1..Width -> 0..255], NEW e \in [1..Width -> 0..255], NEW c,
           Shifts(Width, b, c, e), c[0] = 0
    PROVE  Shifted(D!Value(b, 256), D!Value(e, 256), c[Width])
  <1>1. Width \in Nat
    BY DidAssumption
  <1>2. Len(b) = Width /\ Len(e) = Width
    BY <1>1
  <1>3. PICK v : Sums(b, 256, Len(b), v) /\ D!Value(b, 256) = v[Len(b)]
    <2>1. Len(b) \in Nat
      BY <1>1, <1>2
    <2> QED BY <2>1, ValueIs, Zenon
  <1>4. PICK w : Sums(e, 256, Len(e), w) /\ D!Value(e, 256) = w[Len(e)]
    <2>1. Len(e) \in Nat
      BY <1>1, <1>2
    <2> QED BY <2>1, ValueIs, Zenon
  <1>5. Sums(b, 256, Width, v) /\ Sums(e, 256, Width, w)
    BY <1>2, <1>3, <1>4, Zenon
  <1>6. Shifted(v[Width], w[Width], c[Width])
    BY <1>1, <1>5, SumsShift
  <1> QED BY <1>2, <1>3, <1>4, <1>6, Zenon

-----------------------------------------------------------------------------

\* The invariant of the decoder: a buffer of bytes that is the number read.
DidInv ==
    /\ read \in Seq(Nat)
    /\ decoded \in [1..Width -> 0..255]
    /\ D!BufferIsTheNumber

\* An empty buffer and no digits.
LEMMA DidInit == D!Init => DidInv
  <1> SUFFICES ASSUME D!Init PROVE DidInv
    OBVIOUS
  <1>1. read = << >> /\ decoded = [i \in 1..Width |-> 0] /\ Width \in Nat
    BY DidAssumption DEF D!Init
  <1>2. read \in Seq(Nat) /\ decoded \in [1..Width -> 0..255] /\ Len(read) = 0
    BY <1>1
  <1>3. D!Value(decoded, 256) = 0
    BY <1>1, ValueZero, Zenon
  <1>4. D!Value(read, 58) = 0
    <2>1. Len(read) \in Nat
      BY <1>2
    <2>2. PICK v : Sums(read, 58, Len(read), v) /\ D!Value(read, 58) = v[Len(read)]
      BY <2>1, ValueIs, Zenon
    <2>3. Sums(read, 58, 0, v) /\ D!Value(read, 58) = v[0] /\ 0 \in 0..0
      BY <1>2, <2>2
    <2>4. v[0] = 0
      BY <2>3, Zenon DEF Sums
    <2> QED BY <2>3, <2>4
  <1>5. D!Value(decoded, 256) = D!Value(read, 58)
    BY <1>3, <1>4
  <1> QED BY <1>2, <1>5 DEF DidInv, D!BufferIsTheNumber

\* e is the buffer b times 58, plus the digit.
Pushed(b, e, digit) ==
    /\ e \in [1..Width -> 0..255]
    /\ D!Value(e, 256) = D!Value(b, 256) * 58 + digit

\* What the carries leave, when none leaves the buffer.
LEMMA PushedIs ==
    ASSUME NEW b \in [1..Width -> 0..255], NEW digit \in Nat, NEW c, NEW e,
           Pushes(b, digit, c, e), c[0] = 0
    PROVE  Pushed(b, e, digit)
  <1>1. Leaves(b, digit, c, e)
    BY PushShifts, Zenon
  <1>2. Shifts(Width, b, c, e) /\ c[Width] = digit /\ e \in [1..Width -> 0..255]
    BY <1>1, Zenon DEF Leaves
  <1>3. Shifted(D!Value(b, 256), D!Value(e, 256), c[Width])
    BY <1>2, ValueShift, ZenonT(60)
  <1> QED BY <1>2, <1>3, Zenon DEF Shifted, Pushed

\* A digit that is pushed.
LEMMA PushKeeps ==
    ASSUME DidInv, point = "pending", NEW digit \in Nat, read' = Append(read, digit),
           D!Push(digit)
    PROVE  DidInv'
  <1>1. /\ read \in Seq(Nat) /\ decoded \in [1..Width -> 0..255]
        /\ D!Value(decoded, 256) = D!Value(read, 58)
    BY DidAssumption DEF DidInv, D!BufferIsTheNumber
  <1>2. read' \in Seq(Nat)
    BY <1>1
  <1>3. PICK b, e, c : b = decoded /\ e = decoded' /\ c = D!Carries(b, digit)
    BY Zenon
  <1>4. CASE c[0] = 0 /\ decoded' = [i \in 1..Width |-> (c[i] + 58 * decoded[i]) % 256]
    <2>1. b \in [1..Width -> 0..255] /\ c[0] = 0 /\ Pushes(b, digit, c, e)
      BY <1>1, <1>3, <1>4, Zenon DEF Pushes
    <2>2. Pushed(b, e, digit)
      BY <2>1, PushedIs, Zenon
    <2>3. decoded' \in [1..Width -> 0..255] /\ D!Value(decoded', 256) = D!Value(decoded, 256) * 58 + digit
      BY <1>3, <2>2, Zenon DEF Pushed
    <2>4. D!Value(read', 58) = D!Value(read, 58) * 58 + digit
      <3>1. read \in Seq(Nat)
        BY <1>1, Zenon
      <3> QED BY <3>1, ValuePush, Zenon
    <2>5. D!Value(decoded', 256) = D!Value(read', 58)
      <3> DEFINE Bytes(s) == D!Value(s, 256)
                 Number(s) == D!Value(s, 58)
                 Up(v) == v * 58 + digit
      <3>1. Bytes(decoded) = Number(read)
        BY <1>1
      <3>2. Bytes(decoded') = Up(Bytes(decoded))
        BY <2>3
      <3>3. Number(read') = Up(Number(read))
        BY <2>4
      <3>4. Bytes(decoded') = Number(read')
        <4> HIDE DEF Bytes, Number, Up
        <4> QED BY <3>1, <3>2, <3>3, Zenon
      <3> QED BY <3>4
    <2> QED BY <1>2, <2>3, <2>5, Zenon DEF DidInv, D!BufferIsTheNumber
  <1>5. CASE point' = Nothing /\ decoded' = decoded
    BY <1>1, <1>2, <1>5, Zenon DEF DidInv, D!BufferIsTheNumber
  <1> QED BY <1>3, <1>4, <1>5, Zenon DEF D!Push

\* Every step keeps the invariant.
LEMMA DidNext == DidInv /\ [D!Next]_D!vars => DidInv'
  <1> SUFFICES ASSUME DidInv, [D!Next]_D!vars PROVE DidInv'
    OBVIOUS
  <1>1. CASE D!ReadDigit
    <2>1. PICK digit \in Digits :
             /\ point = "pending" /\ read' = Append(read, digit)
             /\ \/ point' = Nothing /\ decoded' = decoded
                \/ D!Push(digit)
      BY <1>1, Zenon DEF D!ReadDigit
    <2>2. digit \in Nat /\ read' \in Seq(Nat)
      BY <2>1, DidAssumption DEF DidInv
    <2>3. CASE point' = Nothing /\ decoded' = decoded
      BY <2>2, <2>3, Zenon DEF DidInv, D!BufferIsTheNumber
    <2>4. CASE D!Push(digit)
      BY <2>1, <2>2, <2>4, PushKeeps, Zenon
    <2> QED BY <2>1, <2>3, <2>4
  <1>2. CASE D!Finish
    <2>1. point # Nothing /\ read' = read /\ decoded' = decoded
      BY <1>2, DidAssumption DEF D!Finish
    <2> QED BY <2>1, Zenon DEF DidInv, D!BufferIsTheNumber
  <1>3. CASE UNCHANGED D!vars
    BY <1>3 DEF D!vars, DidInv, D!BufferIsTheNumber
  <1> QED BY <1>1, <1>2, <1>3 DEF D!Next

-----------------------------------------------------------------------------
(* The parsers together.                                                   *)

\* The text of a SPIFFE ID stays a text.
LEMMA UriInvariance == AllSpec => []S!TypeOK
  <1>1. AllInit => S!TypeOK
    BY DEF AllInit, S!Init, S!TypeOK
  <1>2. S!TypeOK /\ [AllNext]_allVars => S!TypeOK'
    <2> SUFFICES ASSUME S!TypeOK, [AllNext]_allVars PROVE S!TypeOK'
      OBVIOUS
    <2>1. S!Write \/ UNCHANGED uri
      BY DEF AllNext, allVars, PolicyRuns, HintRuns, DidRuns, S!Next
    <2>2. CASE UNCHANGED uri
      BY <2>2 DEF uri, S!TypeOK
    <2>3. CASE S!Write
      <3>1. scheme' = FALSE \/ scheme' = scheme
        BY <2>3 DEF S!Write
      <3>2. text' = text \/ \E t \in S!Tokens : text' = Append(text, t)
        BY <2>3 DEF S!Write
      <3>3. scheme' \in BOOLEAN
        BY <3>1, Zenon DEF S!TypeOK
      <3>4. text' \in Seq(S!Tokens)
        BY <3>2 DEF S!TypeOK
      <3> QED BY <3>3, <3>4, Zenon DEF S!TypeOK
    <2> QED BY <2>1, <2>2, <2>3
  <1> QED BY <1>1, <1>2, PTL DEF AllSpec

\* The invariant of the hint parser holds throughout.
LEMMA HintInvariance == AllSpec => []HintInv
  <1>1. AllInit => HintInv
    BY InitClean DEF AllInit
  <1>2. [AllNext]_allVars => [H!Next]_H!vars
    BY DEF AllNext, allVars, PolicyRuns, UriRuns, DidRuns, hint, H!vars
  <1> QED BY <1>1, <1>2, HintNext, PTL DEF AllSpec

\* And that of the decoder.
LEMMA DidInvariance == AllSpec => []DidInv
  <1>1. AllInit => DidInv
    BY DidInit DEF AllInit
  <1>2. [AllNext]_allVars => [D!Next]_D!vars
    BY DEF AllNext, allVars, PolicyRuns, UriRuns, HintRuns, did, D!vars
  <1> QED BY <1>1, <1>2, DidNext, PTL DEF AllSpec

\* SpiffeId::from_str accepts nothing but what Display prints, so no two texts,
\* however long, name one identity.
THEOREM TextsAreCanonical == AllSpec => []ParsedIsPrinted
  <1>1. S!TypeOK => ParsedIsPrinted
    <2> SUFFICES ASSUME S!TypeOK, NEW s \in {text, text \o <<"/", "local">>},
                        ~S!IsErr(S!Parse(scheme, s))
                 PROVE  scheme /\ S!Uri(S!Parse(scheme, s)) = s
      BY Zenon DEF ParsedIsPrinted, S!ParsedIsPrinted
    <2>1. text \in Seq(S!Tokens) /\ <<"/", "local">> \in Seq(S!Tokens)
      BY DEF S!TypeOK, S!Tokens, S!Labels
    <2>2. text \o <<"/", "local">> \in Seq(S!Tokens)
      BY <2>1, JoinedIs, Zenon
    <2>3. s \in Seq(S!Tokens)
      BY <2>1, <2>2, Zenon
    <2> QED BY <2>3, IdIsPrinted, Zenon
  <1> QED BY <1>1, UriInvariance, PTL

\* Every issuer's identity whose parts are legal survives Display and from_str,
\* whatever the length of its domain: none prints as another namespace.
THEOREM IdentitiesRoundTrip == AllSpec => []PrintedIsParsed
  <1>1. S!TypeOK => PrintedIsParsed
    <2> SUFFICES ASSUME S!TypeOK, NEW k \in DOMAIN S!Prefix, text # << >>,
                        \A i \in DOMAIN text : text[i] \notin {"/", "illegal"},
                        NEW id,
                        id = [domain |-> [kind |-> k, value |-> text], path |-> <<"local">>]
                 PROVE  S!Parse(TRUE, S!Uri(id)) = id
      BY Zenon DEF PrintedIsParsed, S!PrintedIsParsed
    <2>1. text \in Seq(S!Tokens)
      BY DEF S!TypeOK
    <2> QED BY <2>1, IdIsParsed, Zenon
  <1> QED BY <1>1, UriInvariance, PTL

\* from_str accepts a tag of any length only when it holds each of the four keys
\* exactly once and nothing else, and the hint carries the values it was read with.
THEOREM AcceptedTagIsTheHint == AllSpec => []AcceptedIsTheTag
  <1>1. HintInv => AcceptedIsTheTag
    BY DEF HintInv, Clean, AcceptedIsTheTag, H!AcceptedIsTheTag
  <1> QED BY <1>1, HintInvariance, PTL

\* from_str refuses no tag that holds each key once with a value that parses.
THEOREM RefusalIsJustified == AllSpec => []RefusedHasAFault
  <1>1. HintInv => RefusedHasAFault
    BY DEF HintInv, RefusedHasAFault
  <1> QED BY <1>1, HintInvariance, PTL

\* The fixed buffer of ed25519_point, of any width, holds the number the base58
\* digits read so far stand for, however many there are: no carry is lost.
THEOREM NoCarryIsLost == AllSpec => []BufferIsTheNumber
  <1>1. DidInv => BufferIsTheNumber
    BY DEF DidInv, BufferIsTheNumber
  <1> QED BY <1>1, DidInvariance, PTL
=============================================================================
