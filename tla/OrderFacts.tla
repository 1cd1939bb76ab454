------------------------------ MODULE OrderFacts -----------------------------
(***************************************************************************)
(* What Max, Min and Retain return, for the proofs.                        *)
(***************************************************************************)
EXTENDS Retained, Integers, FiniteSetsExt, WellFoundedInduction, TLAPS

\* Max is the element no other exceeds.
LEMMA MaxIs ==
    ASSUME NEW A \in SUBSET Int, NEW x \in A, \A y \in A : y <= x
    PROVE  Max(A) = x
  <1>1. PICK m : m = Max(A)
    OBVIOUS
  <1>2. \E y \in A : \A z \in A : y >= z
    OBVIOUS
  <1>3. m \in A /\ \A z \in A : m >= z
    BY <1>1, <1>2, Zenon DEF Max
  <1>4. m \in Int /\ x \in Int /\ m >= x /\ m <= x
    BY <1>3
  <1> QED BY <1>1, <1>4

\* Min is the element that exceeds no other.
LEMMA MinIs ==
    ASSUME NEW A \in SUBSET Int, NEW x \in A, \A y \in A : x <= y
    PROVE  Min(A) = x
  <1>1. PICK m : m = Min(A)
    OBVIOUS
  <1>2. \E y \in A : \A z \in A : y =< z
    OBVIOUS
  <1>3. m \in A /\ \A z \in A : m =< z
    BY <1>1, <1>2, Zenon DEF Min
  <1>4. m \in Int /\ x \in Int /\ m >= x /\ m <= x
    BY <1>3
  <1> QED BY <1>1, <1>4

\* A set of naturals that is not empty has a smallest element.
LEMMA MinOfNat ==
    ASSUME NEW A \in SUBSET Nat, A # {}
    PROVE  Min(A) \in A /\ \A y \in A : Min(A) <= y
  <1>1. PICK x \in A : \A y \in A : ~(<<y, x>> \in OpToRel(<, Nat))
    BY NatLessThanWellFounded, WFMin, Zenon
  <1>2. OpToRel(<, Nat) = {ss \in Nat \X Nat : ss[1] < ss[2]}
    BY Zenon DEF OpToRel
  <1>3. \A y \in A : x <= y
    <2> SUFFICES ASSUME NEW y \in A, y < x PROVE FALSE
      OBVIOUS
    <2>1. <<y, x>> \in {ss \in Nat \X Nat : ss[1] < ss[2]}
      OBVIOUS
    <2> QED BY <1>1, <1>2, <2>1, Zenon
  <1>4. PICK m : m = Min(A)
    OBVIOUS
  <1>5. \E y \in A : \A z \in A : y =< z
    BY <1>3
  <1> QED BY <1>4, <1>5, Zenon DEF Min

\* A set of naturals below a bound that is not empty has a largest element.
LEMMA MaxOfBounded ==
    ASSUME NEW A \in SUBSET Nat, A # {}, NEW b \in Nat, \A y \in A : y <= b
    PROVE  Max(A) \in A /\ \A y \in A : y <= Max(A)
  <1> DEFINE U == {u \in Nat : \A y \in A : y <= u}
  <1>1. PICK m : m = Min(U)
    OBVIOUS
  <1>2. m \in U /\ \A u \in U : m <= u
    BY <1>1, MinOfNat
  <1>3. m \in A
    <2> SUFFICES ASSUME m \notin A PROVE FALSE
      OBVIOUS
    <2>1. \A y \in A : y < m
      BY <1>2
    <2>2. PICK y \in A : y \in Nat /\ y < m
      BY <2>1, Zenon
    <2>3. m \in Nat /\ m - 1 \in Nat
      BY <1>2, <2>2
    <2>4. \A z \in A : z <= m - 1
      BY <2>1, <2>3
    <2> QED BY <1>2, <2>3, <2>4
  <1>4. Max(A) = m
    BY <1>2, <1>3, MaxIs
  <1> QED BY <1>2, <1>3, <1>4

-----------------------------------------------------------------------------
(* Induction, over a set: there is no least counterexample.                  *)

\* A set with 0 that is closed under successor has every natural.
LEMMA SetInduction ==
    ASSUME NEW A, 0 \in A, \A n \in Nat : n \in A => n + 1 \in A
    PROVE  Nat \subseteq A
  <1> DEFINE Bad == Nat \ A
  <1> SUFFICES ASSUME Bad # {} PROVE FALSE
    OBVIOUS
  <1>1. PICK m : m = Min(Bad)
    OBVIOUS
  <1>2. m \in Bad /\ \A y \in Bad : m <= y
    BY <1>1, MinOfNat
  <1>3. m \in Nat /\ m # 0
    BY <1>2
  <1>4. m - 1 \in Nat /\ m - 1 \notin Bad
    BY <1>2, <1>3
  <1>5. (m - 1) + 1 \in A
    BY <1>4
  <1> QED BY <1>2, <1>3, <1>5

-----------------------------------------------------------------------------
(* Retain.                                                                 *)

\* One step of the recursion in Kept.
Keep(s, P, n, before) ==
    IF n = 0 THEN << >> ELSE IF n \in P THEN Append(before, s[n]) ELSE before

\* k solves the recursion up to L.
Solves(s, P, L, k) == k = [n \in 0..L |-> Keep(s, P, n, k[n - 1])]

\* The recursion has a solution on every prefix.
LEMMA KeptPrefix ==
    ASSUME NEW s, NEW P, NEW L \in Nat
    PROVE  \E k : Solves(s, P, L, k)
  <1> DEFINE Good(m) == \E k : Solves(s, P, m, k)
             A == {m \in Nat : Good(m)}
  <1>1. Good(0)
    <2>1. [n \in 0..0 |-> << >>] = [n \in 0..0 |-> Keep(s, P, n, [i \in 0..0 |-> << >>][n - 1])]
      BY DEF Keep
    <2> QED BY <2>1 DEF Solves
  <1>2. ASSUME NEW m \in Nat, Good(m) PROVE Good(m + 1)
    <2>1. PICK k : k = [n \in 0..m |-> Keep(s, P, n, k[n - 1])]
      BY <1>2 DEF Solves
    <2> DEFINE new == [n \in 0..(m + 1) |-> IF n = m + 1 THEN Keep(s, P, n, k[m]) ELSE k[n]]
    <2>2. ASSUME NEW n \in 0..(m + 1) PROVE new[n] = Keep(s, P, n, new[n - 1])
      <3>1. CASE n = m + 1
        <4>1. n - 1 = m /\ m \in 0..(m + 1) /\ m # m + 1
          BY <3>1
        <4>2. new[n - 1] = k[m] /\ new[n] = Keep(s, P, n, k[m])
          BY <3>1, <4>1
        <4> QED BY <4>2
      <3>2. CASE n = 0
        <4>1. new[n] = k[n] /\ n \in 0..m
          BY <3>2
        <4>2. k[n] = Keep(s, P, n, k[n - 1])
          BY <2>1, <4>1
        <4> QED BY <3>2, <4>1, <4>2 DEF Keep
      <3>3. CASE n \in 1..m
        <4>1. new[n] = k[n] /\ new[n - 1] = k[n - 1] /\ n \in 0..m
          BY <3>3
        <4>2. k[n] = Keep(s, P, n, k[n - 1])
          BY <2>1, <4>1
        <4> QED BY <4>1, <4>2
      <3> QED BY <3>1, <3>2, <3>3
    <2>3. Solves(s, P, m + 1, new)
      BY <2>2 DEF Solves
    <2> HIDE DEF new
    <2> QED BY <2>3
  <1> HIDE DEF Good
  <1>3. 0 \in A /\ \A n \in Nat : n \in A => n + 1 \in A
    BY <1>1, <1>2
  <1>4. L \in A
    BY <1>3, SetInduction, Zenon
  <1> QED BY <1>4 DEF Good

\* What Kept is: nothing at first, and then one step of the recursion each.
LEMMA KeptIs ==
    ASSUME NEW s, NEW P, Len(s) \in Nat
    PROVE  /\ Kept(s, P)[0] = << >>
           /\ \A n \in 1..Len(s) :
                 Kept(s, P)[n] = IF n \in P THEN Append(Kept(s, P)[n - 1], s[n])
                                 ELSE Kept(s, P)[n - 1]
  <1> DEFINE Is(k) == k = [n \in 0..Len(s) |->
                              IF n = 0 THEN << >>
                              ELSE IF n \in P THEN Append(k[n - 1], s[n]) ELSE k[n - 1]]
  <1>1. \E k : Is(k)
    <2>1. PICK k : Solves(s, P, Len(s), k)
      BY KeptPrefix, Zenon
    <2>2. Is(k)
      BY <2>1, Zenon DEF Solves, Keep
    <2> HIDE DEF Is
    <2> QED BY <2>2
  <1>2. Kept(s, P) = CHOOSE k : Is(k)
    BY DEF Kept
  <1>3. Is(Kept(s, P))
    BY <1>1, <1>2, Zenon
  <1>4. PICK k : k = Kept(s, P)
    OBVIOUS
  <1>5. ASSUME NEW n \in 0..Len(s)
        PROVE  k[n] = IF n = 0 THEN << >>
                      ELSE IF n \in P THEN Append(k[n - 1], s[n]) ELSE k[n - 1]
    BY <1>3, <1>4, Zenon
  <1>6. k[0] = << >>
    BY <1>5
  <1>7. ASSUME NEW n \in 1..Len(s)
        PROVE  k[n] = IF n \in P THEN Append(k[n - 1], s[n]) ELSE k[n - 1]
    <2>1. n \in 0..Len(s) /\ n # 0
      OBVIOUS
    <2> QED BY <1>5, <2>1
  <1> QED BY <1>4, <1>6, <1>7

\* t is s at the positions of P up to n, in their order, which is o.
InOrder(s, P, n, t, o) ==
    /\ o \in [1..Len(t) -> 1..n]
    /\ \A m \in 1..Len(t) : o[m] \in P /\ t[m] = s[o[m]]
    /\ \A l, m \in 1..Len(t) : l < m => o[l] < o[m]
    /\ \A i \in 1..n : i \in P => \E m \in 1..Len(t) : o[m] = i

\* One more position that is not kept.
LEMMA OrderSkip ==
    ASSUME NEW s, NEW P, NEW n \in Nat, NEW t, NEW o, Len(t) \in Nat,
           InOrder(s, P, n, t, o), n + 1 \notin P
    PROVE  InOrder(s, P, n + 1, t, o)
  <1>1. o \in [1..Len(t) -> 1..(n + 1)]
    BY DEF InOrder
  <1>2. \A i \in 1..(n + 1) : i \in 1..n \/ i = n + 1
    OBVIOUS
  <1> QED BY <1>1, <1>2, Zenon DEF InOrder

\* One more position that is kept.
LEMMA OrderPush ==
    ASSUME NEW T, NEW s, NEW P, NEW n \in Nat, NEW t \in Seq(T), NEW o, s[n + 1] \in T,
           InOrder(s, P, n, t, o), n + 1 \in P
    PROVE  \E q : InOrder(s, P, n + 1, Append(t, s[n + 1]), q)
  <1> DEFINE len == Len(t)
             q == [m \in 1..(len + 1) |-> IF m = len + 1 THEN n + 1 ELSE o[m]]
  <1>1. PICK u : u = Append(t, s[n + 1])
    BY Zenon
  <1>2. /\ len \in Nat /\ Len(u) = len + 1 /\ u[len + 1] = s[n + 1]
        /\ \A m \in 1..len : u[m] = t[m]
    BY <1>1
  <1>3. /\ q[len + 1] = n + 1
        /\ \A m \in 1..len : q[m] = o[m] /\ o[m] \in 1..n
        /\ DOMAIN q = 1..(len + 1)
    BY <1>2 DEF InOrder
  <1>4. q \in [1..(len + 1) -> 1..(n + 1)]
    BY <1>3 DEF InOrder
  <1> HIDE DEF q
  <1>5. \A m \in 1..(len + 1) : m \in 1..len \/ m = len + 1
    BY <1>2
  <1>6. \A m \in 1..(len + 1) : q[m] \in P /\ u[m] = s[q[m]]
    <2>1. \A m \in 1..len : q[m] \in P /\ u[m] = s[q[m]]
      BY <1>2, <1>3, Zenon DEF InOrder
    <2> QED BY <1>2, <1>3, <1>5, <2>1, Zenon
  <1>7. ASSUME NEW l \in 1..(len + 1), NEW m \in 1..(len + 1), l < m PROVE q[l] < q[m]
    <2>1. CASE m \in 1..len
      <3>1. l \in 1..len
        BY <1>7, <2>1
      <3>2. o[l] < o[m]
        BY <1>7, <2>1, <3>1, Zenon DEF InOrder
      <3> QED BY <1>3, <2>1, <3>1, <3>2
    <2>2. CASE m = len + 1
      <3>1. l \in 1..len
        BY <1>2, <1>7, <2>2
      <3> QED BY <1>3, <2>2, <3>1
    <2> QED BY <1>5, <2>1, <2>2
  <1>8. ASSUME NEW i \in 1..(n + 1), i \in P PROVE \E m \in 1..(len + 1) : q[m] = i
    <2>1. CASE i = n + 1
      BY <1>2, <1>3, <2>1
    <2>2. CASE i \in 1..n
      <3>1. PICK m \in 1..len : o[m] = i
        BY <1>8, <2>2, Zenon DEF InOrder
      <3> QED BY <1>2, <1>3, <3>1
    <2> QED BY <2>1, <2>2
  <1>9. InOrder(s, P, n + 1, u, q)
    BY <1>2, <1>4, <1>6, <1>7, <1>8 DEF InOrder
  <1> QED BY <1>1, <1>9

\* What is kept of a prefix is exactly its positions of P, in order.
LEMMA KeptInOrder ==
    ASSUME NEW T, NEW s \in Seq(T), NEW P, NEW l \in 0..Len(s)
    PROVE  /\ Kept(s, P)[l] \in Seq(T)
           /\ \E o : InOrder(s, P, l, Kept(s, P)[l], o)
  <1> DEFINE L == Len(s)
             Good(n) == /\ Kept(s, P)[n] \in Seq(T)
                        /\ \E o : InOrder(s, P, n, Kept(s, P)[n], o)
             A == {n \in Nat : n <= L => Good(n)}
  <1>1. L \in Nat
    OBVIOUS
  <1>2. Good(0)
    <2>1. Kept(s, P)[0] = << >>
      BY <1>1, KeptIs
    <2>2. InOrder(s, P, 0, << >>, << >>)
      BY DEF InOrder
    <2> QED BY <2>1, <2>2
  <1>3. ASSUME NEW n \in Nat, n + 1 <= L, Good(n) PROVE Good(n + 1)
    <2> DEFINE t == Kept(s, P)[n]
    <2>1. t \in Seq(T) /\ Len(t) \in Nat
      BY <1>3
    <2>2. PICK o : InOrder(s, P, n, t, o)
      BY <1>3
    <2>3. n + 1 \in 1..L /\ (n + 1) - 1 = n /\ s[n + 1] \in T
      BY <1>1, <1>3
    <2>4. Kept(s, P)[n + 1] = IF n + 1 \in P THEN Append(t, s[n + 1]) ELSE t
      <3>1. Kept(s, P)[n + 1] = IF n + 1 \in P THEN Append(Kept(s, P)[(n + 1) - 1], s[n + 1])
                                ELSE Kept(s, P)[(n + 1) - 1]
        BY <1>1, <2>3, KeptIs
      <3> QED BY <2>3, <3>1
    <2> HIDE DEF t
    <2>5. CASE n + 1 \in P
      BY <2>1, <2>2, <2>3, <2>4, <2>5, OrderPush
    <2>6. CASE n + 1 \notin P
      BY <2>1, <2>2, <2>3, <2>4, <2>6, OrderSkip
    <2> QED BY <2>5, <2>6
  <1> HIDE DEF Good
  <1>4. 0 \in A /\ \A n \in Nat : n \in A => n + 1 \in A
    BY <1>1, <1>2, <1>3
  <1>5. l \in Nat /\ l <= L
    BY <1>1
  <1>6. l \in A
    BY <1>4, <1>5, SetInduction, Zenon
  <1> QED BY <1>5, <1>6 DEF Good

\* Vec::retain keeps exactly the positions of P, in order.
LEMMA RetainIs ==
    ASSUME NEW T, NEW s \in Seq(T), NEW P
    PROVE  /\ Retain(s, P) \in Seq(T)
           /\ \E o : InOrder(s, P, Len(s), Retain(s, P), o)
  <1>1. Len(s) \in 0..Len(s)
    OBVIOUS
  <1> QED BY <1>1, KeptInOrder, Zenon DEF Retain

\* Two lists, one after the other.
Joined(s, t, u) ==
    /\ Len(s) \in Nat /\ Len(t) \in Nat /\ DOMAIN s = 1..Len(s) /\ DOMAIN t = 1..Len(t)
    /\ DOMAIN u = 1..(Len(s) + Len(t))
    /\ \A k \in 1..Len(s) : u[k] = s[k]
    /\ \A k \in 1..Len(t) : u[Len(s) + k] = t[k]

\* Concatenation joins two lists.
LEMMA JoinedIs ==
    ASSUME NEW T, NEW s \in Seq(T), NEW t \in Seq(T)
    PROVE  s \o t \in Seq(T) /\ Joined(s, t, s \o t)
  BY DEF Joined

=============================================================================
