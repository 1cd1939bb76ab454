----------------------------- MODULE SourcesProofs ----------------------------
(***************************************************************************)
(* The sources of evidence other than gpg, for any accounts, keys and sizes and    *)
(* any number of calls.                                                     *)
(***************************************************************************)
EXTENDS Sources, TLAPS

-----------------------------------------------------------------------------
(* unix.                                                                    *)

\* The sizes are numbers, and an entry that was given up on is a large one.
UnixInv ==
    /\ cap \in Nat
    /\ entry \in Entries \cup {NoEntry, Unbounded}
    /\ U!SmallEntryIsFound

\* Nothing is looked up yet.
LEMMA UnixInit == U!Init => UnixInv
  BY DEF U!Init, UnixInv, U!SmallEntryIsFound

\* Every turn of the lookup keeps it: the buffer that is given up on is half the
\* one that would have passed the limit.
LEMMA UnixNext == UnixInv /\ [U!Next]_U!vars => UnixInv'
  <1> SUFFICES ASSUME UnixInv, [U!Next]_U!vars PROVE UnixInv'
    OBVIOUS
  <1>1. CASE U!New
    <2>1. PICK size \in Suggested : cap' = IF size > 0 THEN size ELSE DefaultCap
      BY <1>1 DEF U!New
    <2>2. cap' \in Nat
      BY <2>1, SizesAssumption
    <2>3. entry' \in Entries \cup {NoEntry, Unbounded} /\ named' = "unknown"
      BY <1>1 DEF U!New
    <2> QED BY <2>2, <2>3, Zenon DEF UnixInv, U!SmallEntryIsFound
  <1>2. CASE U!GetPwUid
    <2>1. entry' = entry /\ failed' = failed
      BY <1>2, Zenon DEF U!GetPwUid
    <2>2. CASE /\ entry # NoEntry /\ (entry = Unbounded \/ entry > cap) /\ cap' = 2 * cap
               /\ named' = IF cap' > MaxPasswdBuf THEN "by uid" ELSE "unknown"
      <3>1. cap \in Nat /\ MaxPasswdBuf \in Nat /\ cap' = 2 * cap
        BY <2>2, SizesAssumption, Zenon DEF UnixInv
      <3>2. cap' \in Nat
        BY <3>1
      <3>3. entry \notin {NoEntry, Unbounded} => entry \in Nat /\ entry > cap
        BY <2>2, SizesAssumption, Zenon DEF UnixInv
      <3>4. ASSUME NEW size \in Nat, size > cap, cap' > MaxPasswdBuf
            PROVE  2 * size > MaxPasswdBuf
        BY <3>1, <3>4
      <3>5. named' = "by uid" => cap' > MaxPasswdBuf
        BY <2>2, Zenon
      <3> QED BY <2>1, <3>2, <3>3, <3>4, <3>5, Zenon DEF UnixInv, U!SmallEntryIsFound
    <2>3. CASE named' = "by name" /\ UNCHANGED cap
      BY <2>1, <2>3, Zenon DEF UnixInv, U!SmallEntryIsFound
    <2>4. CASE entry = NoEntry /\ UNCHANGED cap
      BY <2>1, <2>4, Zenon DEF UnixInv, U!SmallEntryIsFound
    <2> QED BY <1>2, <2>2, <2>3, <2>4, Zenon DEF U!GetPwUid
  <1>3. CASE U!LookupFails
    BY <1>3, Zenon DEF U!LookupFails, UnixInv, U!SmallEntryIsFound
  <1>4. CASE UNCHANGED U!vars
    BY <1>4, Zenon DEF U!vars, UnixInv, U!SmallEntryIsFound
  <1> QED BY <1>1, <1>2, <1>3, <1>4 DEF U!Next, U!Step

\* username_for finds every entry of at most half of MAX_PASSWD_BUF, whatever size
\* sysconf suggests and whatever the limit is.
THEOREM LookupReachesHalf == U!Spec => []SmallEntryIsFound
  <1>1. UnixInv => SmallEntryIsFound
    BY DEF UnixInv, SmallEntryIsFound
  <1> QED BY <1>1, UnixInit, UnixNext, PTL DEF U!Spec

-----------------------------------------------------------------------------
(* tailscale.                                                               *)

\* The first n parts of the status of an account.
Parts(of, n) == [j \in 1..n |-> [kind |-> "data", part |-> j, of |-> of]]

\* m tokens of a list, from the one after the o-th on.
Window(c, o, m) == [j \in 1..m |-> c[o + j]]

\* The parts of the first k chunks are in out, and what has arrived of the others
\* is in wire.
Moved(of, split, k, wire, out) ==
    /\ out = Parts(of, T!PartsIn(split, k))
    /\ \E m \in Nat : /\ wire = Window(T!Chunked(of, split), T!TokensIn(split, k), m)
                      /\ T!TokensIn(split, k) + m <= T!TokensIn(split, Len(split)) + 2

\* An account that was logged in as the call ran is recorded as reported.
Reported(of) == tCall.account # Nothing /\ tCall.account = of => reported

\* The first n parts of a status are in out, and all of them if it was chunked.
Fetched(of, n) ==
    /\ Reported(of)
    /\ tCall.out = Parts(of, n)
    /\ tCall.chunked => n = 3

\* The inductive invariant of the tailscale source.
TailscaleInv ==
    /\ login \in Logins \cup {Nothing}
    /\ tOffered \subseteq Logins
    /\ DOMAIN tCall = {"pc", "account", "wire", "chunked", "out", "outcome"}
    /\ tCall.pc \in {"idle", "fetch", "dechunk", "json"}
    /\ tCall.account \in Logins \cup {Nothing}
    /\ tCall.outcome \in {"none", "evidence", "refused"}
    /\ tCall.pc = "idle" => tCall.account = Nothing
    /\ tCall.account = Nothing => reported = FALSE
    /\ reported \in BOOLEAN
    /\ Reported(login)
    /\ tCall.pc = "dechunk" =>
          \E of \in Logins \cup {Nothing}, split \in Splits :
              /\ Reported(of)
              /\ \E k \in 0..Len(split) : Moved(of, split, k, tCall.wire, tCall.out)
    /\ tCall.pc = "json" => \E of \in Logins \cup {Nothing}, n \in 0..3 : Fetched(of, n)

-----------------------------------------------------------------------------
(* What Chunked sends.                                                     *)

\* The chunks of a status follow each other.
LEMMA PartsGrow ==
    ASSUME NEW split \in Splits
    PROVE  /\ Len(split) \in Nat /\ Len(split) >= 1
           /\ \A k \in 0..Len(split) : T!PartsIn(split, k) \in 0..3
           /\ \A k, l \in 0..Len(split) : k < l => T!PartsIn(split, k) < T!PartsIn(split, l)
           /\ T!PartsIn(split, 0) = 0 /\ T!PartsIn(split, Len(split)) = 3
  <1>1. /\ split \in Seq(1..3) /\ split # << >> /\ split[Len(split)] = 3
        /\ \A k, l \in DOMAIN split : k < l => split[k] < split[l]
    BY SplitsAssumption, Zenon
  <1>2. Len(split) \in Nat /\ Len(split) >= 1 /\ DOMAIN split = 1..Len(split)
    BY <1>1
  <1>3. \A k \in 1..Len(split) : split[k] \in 1..3
    BY <1>1, <1>2
  <1>4. \A k \in 0..Len(split) : T!PartsIn(split, k) \in 0..3
    BY <1>2, <1>3 DEF T!PartsIn
  <1>5. ASSUME NEW k \in 0..Len(split), NEW l \in 0..Len(split), k < l
        PROVE  T!PartsIn(split, k) < T!PartsIn(split, l)
    <2>1. l \in 1..Len(split) /\ l # 0
      BY <1>5
    <2>2. CASE k = 0
      BY <1>3, <2>1, <2>2 DEF T!PartsIn
    <2>3. CASE k # 0
      <3>1. k \in 1..Len(split)
        BY <2>3
      <3>2. split[k] < split[l]
        BY <1>1, <1>2, <1>5, <2>1, <3>1
      <3> QED BY <2>1, <2>3, <3>2 DEF T!PartsIn
    <2> QED BY <2>2, <2>3
  <1>6. T!PartsIn(split, 0) = 0 /\ T!PartsIn(split, Len(split)) = 3
    BY <1>1, <1>2 DEF T!PartsIn
  <1> QED BY <1>2, <1>4, <1>5, <1>6

\* And so do their tokens.
LEMMA TokensGrow ==
    ASSUME NEW split \in Splits
    PROVE  /\ \A k \in 0..Len(split) : T!TokensIn(split, k) \in Nat
           /\ \A k, l \in 0..Len(split) :
                 k < l => T!TokensIn(split, k) + 3 <= T!TokensIn(split, l)
  <1>1. ASSUME NEW k \in 0..Len(split)
        PROVE  T!TokensIn(split, k) \in Nat
    BY PartsGrow DEF T!TokensIn
  <1>2. ASSUME NEW k \in 0..Len(split), NEW l \in 0..Len(split), k < l
        PROVE  T!TokensIn(split, k) + 3 <= T!TokensIn(split, l)
    <2>1. /\ T!PartsIn(split, k) \in 0..3 /\ T!PartsIn(split, l) \in 0..3
          /\ T!PartsIn(split, k) < T!PartsIn(split, l)
      BY <1>2, PartsGrow
    <2>2. k \in Nat /\ l \in Nat
      BY PartsGrow
    <2> QED BY <1>2, <2>1, <2>2 DEF T!TokensIn
  <1> QED BY <1>1, <1>2

\* The tokens of the k-th chunk in c: its length line, its parts, its line end.
ChunkAt(c, of, split, k) ==
    /\ c[T!TokensIn(split, k - 1) + 1]
          = T!ChunkLen(T!PartsIn(split, k) - T!PartsIn(split, k - 1))
    /\ \A j \in 1..(T!PartsIn(split, k) - T!PartsIn(split, k - 1)) :
          c[T!TokensIn(split, k - 1) + 1 + j]
             = [kind |-> "data", part |-> T!PartsIn(split, k - 1) + j, of |-> of]
    /\ c[T!TokensIn(split, k)] = T!Crlf

\* The tokens of Chunked, chunk by chunk, and the empty chunk that ends them.
LEMMA ChunkedIs ==
    ASSUME NEW of, NEW split \in Splits, NEW c, c = T!Chunked(of, split)
    PROVE  /\ DOMAIN c = 1..T!TokensIn(split, Len(split)) + 2
           /\ c[T!TokensIn(split, Len(split)) + 1] = T!ChunkLen(0)
           /\ \A k \in 1..Len(split) : ChunkAt(c, of, split, k)
  <1> DEFINE L == Len(split)
             N == T!TokensIn(split, L)
             In(k, p) == T!TokensIn(split, k - 1) < p /\ p <= T!TokensIn(split, k)
             At(k, p) == IF p = T!TokensIn(split, k - 1) + 1
                         THEN T!ChunkLen(T!PartsIn(split, k) - T!PartsIn(split, k - 1))
                         ELSE IF p = T!TokensIn(split, k) THEN T!Crlf
                         ELSE T!Body(of)[p + 1 - 2 * k]
  <1>1. /\ DOMAIN c = 1..N + 2
        /\ \A p \in 1..N + 2 :
              c[p] = IF p > N THEN IF p = N + 1 THEN T!ChunkLen(0) ELSE T!Crlf
                     ELSE At(CHOOSE k \in 1..L : In(k, p), p)
    BY Zenon DEF T!Chunked
  <1>2. L \in Nat /\ L >= 1 /\ N \in Nat
    BY PartsGrow, TokensGrow
  <1>3. c[N + 1] = T!ChunkLen(0)
    <2>1. N + 1 \in 1..N + 2 /\ N + 1 > N
      BY <1>2
    <2> HIDE DEF N, At, In
    <2> QED BY <1>1, <2>1, Zenon
  <1>4. ASSUME NEW k \in 1..L, NEW p \in Nat, In(k, p)
        PROVE  c[p] = At(k, p)
    <2>1. /\ k \in 0..L /\ k - 1 \in 0..L
          /\ T!TokensIn(split, k) \in Nat /\ T!TokensIn(split, k - 1) \in Nat
      BY <1>2, TokensGrow
    <2>2. T!TokensIn(split, k) <= N
      <3>1. CASE k = L
        BY <2>1, <3>1
      <3>2. CASE k < L
        <4>1. T!TokensIn(split, k) + 3 <= N
          BY <1>2, <2>1, <3>2, TokensGrow
        <4> QED BY <1>2, <2>1, <4>1
      <3> QED BY <1>2, <3>1, <3>2
    <2>3. p \in 1..N + 2 /\ ~(p > N)
      BY <1>2, <1>4, <2>1, <2>2
    <2>4. ASSUME NEW l \in 1..L, In(l, p) PROVE l = k
      <3>1. /\ l \in 0..L /\ l - 1 \in 0..L
            /\ T!TokensIn(split, l) \in Nat /\ T!TokensIn(split, l - 1) \in Nat
        BY <1>2, TokensGrow
      <3>2. CASE l < k
        <4>1. l = k - 1 \/ T!TokensIn(split, l) + 3 <= T!TokensIn(split, k - 1)
          BY <1>2, <2>1, <3>1, <3>2, TokensGrow
        <4> QED BY <1>4, <2>1, <2>4, <3>1, <4>1
      <3>3. CASE k < l
        <4>1. k = l - 1 \/ T!TokensIn(split, k) + 3 <= T!TokensIn(split, l - 1)
          BY <1>2, <2>1, <3>1, <3>3, TokensGrow, SMTT(60)
        <4> QED BY <1>4, <2>1, <2>4, <3>1, <4>1
      <3> QED BY <1>2, <3>2, <3>3
    <2> HIDE DEF N, At, In, L
    <2>5. (CHOOSE l \in 1..L : In(l, p)) = k
      BY <1>4, <2>4, Zenon
    <2> QED BY <1>1, <2>3, <2>5, Zenon
  <1>5. ASSUME NEW k \in 1..L PROVE ChunkAt(c, of, split, k)
    <2> DEFINE a == T!TokensIn(split, k - 1)
               b == T!TokensIn(split, k)
               x == T!PartsIn(split, k - 1)
               y == T!PartsIn(split, k)
    <2>1. /\ k \in 0..L /\ k - 1 \in 0..L /\ k \in Nat /\ k - 1 < k
          /\ a \in Nat /\ b \in Nat /\ a + 3 <= b
      BY <1>2, TokensGrow
    <2>2. /\ x \in 0..3 /\ y \in 0..3 /\ x < y
      BY <2>1, PartsGrow
    <2>3. a = x + 2 * (k - 1) /\ b = y + 2 * k
      BY DEF T!TokensIn
    <2> HIDE DEF a, b, x, y
    <2>4. c[a + 1] = T!ChunkLen(y - x)
      <3>1. a + 1 \in Nat /\ a < a + 1 /\ a + 1 <= b
        BY <2>1
      <3>2. c[a + 1] = At(k, a + 1)
        BY <3>1, <1>4 DEF a, b
      <3> QED BY <3>2, Zenon DEF a, b, x, y
    <2>5. c[b] = T!Crlf
      <3>1. a < b /\ b <= b /\ b # a + 1
        BY <2>1
      <3>2. c[b] = At(k, b)
        BY <2>1, <3>1, <1>4 DEF a, b
      <3> QED BY <3>1, <3>2, Zenon DEF a, b, x, y
    <2>6. ASSUME NEW j \in 1..(y - x)
          PROVE  c[a + 1 + j] = [kind |-> "data", part |-> x + j, of |-> of]
      <3>1. /\ a + 1 + j \in Nat /\ a < a + 1 + j /\ a + 1 + j <= b
            /\ a + 1 + j # b /\ a + 1 + j # a + 1
        BY <2>1, <2>2, <2>3
      <3>2. c[a + 1 + j] = At(k, a + 1 + j)
        BY <3>1, <1>4 DEF a, b
      <3>3. a + 1 + j + 1 - 2 * k = x + j /\ x + j \in 1..3
        BY <2>1, <2>2, <2>3
      <3>4. c[a + 1 + j] = T!Body(of)[a + 1 + j + 1 - 2 * k]
        BY <3>1, <3>2, Zenon DEF a, b, x, y
      <3>5. T!Body(of)[x + j] = [kind |-> "data", part |-> x + j, of |-> of]
        BY <3>3, Zenon DEF T!Body
      <3> QED BY <3>3, <3>4, <3>5
    <2> QED BY <2>4, <2>5, <2>6, Zenon DEF ChunkAt, a, b, x, y
  <1> QED BY <1>1, <1>3, <1>5, Zenon

-----------------------------------------------------------------------------
(* Parts of a list.                                                        *)

\* A function on 1..m is a list.
LEMMA ListOf ==
    ASSUME NEW S, NEW m \in Nat, NEW w \in [1..m -> S]
    PROVE  w \in Seq(S) /\ Len(w) = m
  OBVIOUS

\* s has the elements of a window.
Shows(s, c, o, m) ==
    /\ \E S : s \in Seq(S)
    /\ Len(s) = m
    /\ \A j \in 1..m : s[j] = c[o + j]

\* A window is a list of its elements.
LEMMA WindowIs ==
    ASSUME NEW c, NEW o \in Nat, NEW m \in Nat
    PROVE  Shows(Window(c, o, m), c, o, m)
  <1>1. PICK w, S : w = Window(c, o, m) /\ S = {c[o + j] : j \in 1..m}
    BY Zenon
  <1>2. w \in [1..m -> S]
    BY <1>1, Zenon DEF Window
  <1>3. w \in Seq(S) /\ Len(w) = m
    BY <1>2, ListOf, Zenon
  <1>4. \A j \in 1..m : w[j] = c[o + j]
    BY <1>1, Zenon DEF Window
  <1> QED BY <1>1, <1>3, <1>4, Zenon DEF Shows

\* And nothing else is one.
LEMMA ShownIs ==
    ASSUME NEW c, NEW o \in Nat, NEW m \in Nat, NEW s, Shows(s, c, o, m)
    PROVE  s = Window(c, o, m)
  <1>1. PICK S : s \in Seq(S)
    BY DEF Shows
  <1>2. Len(s) = m /\ \A j \in 1..m : s[j] = c[o + j]
    BY DEF Shows
  <1>3. DOMAIN s = 1..m /\ s = [j \in DOMAIN s |-> s[j]]
    BY <1>1, <1>2
  <1> QED BY <1>2, <1>3, Zenon DEF Window

\* The first element, and the others.
LEMMA WindowTail ==
    ASSUME NEW c, NEW o \in Nat, NEW m \in Nat, m >= 1
    PROVE  /\ Head(Window(c, o, m)) = c[o + 1]
           /\ Tail(Window(c, o, m)) = Window(c, o + 1, m - 1)
  <1>1. PICK w : w = Window(c, o, m)
    BY Zenon
  <1>2. Shows(w, c, o, m)
    BY <1>1, WindowIs, Zenon
  <1>3. PICK S : w \in Seq(S)
    BY <1>2 DEF Shows
  <1>4. Len(w) = m /\ \A j \in 1..m : w[j] = c[o + j]
    BY <1>2 DEF Shows
  <1>5. Head(w) = w[1] /\ w[1] = c[o + 1]
    BY <1>3, <1>4
  <1>6. PICK u : u = Tail(w)
    BY Zenon
  <1>7. u \in Seq(S) /\ Len(u) = m - 1 /\ \A j \in 1..m - 1 : u[j] = w[j + 1]
    BY <1>3, <1>4, <1>6
  <1>8. ASSUME NEW j \in 1..m - 1 PROVE u[j] = c[(o + 1) + j]
    <2>1. j + 1 \in 1..m /\ o + (j + 1) = (o + 1) + j
      OBVIOUS
    <2>2. w[j + 1] = c[o + (j + 1)]
      BY <1>4, <2>1
    <2> QED BY <1>7, <2>1, <2>2
  <1>9. o + 1 \in Nat /\ m - 1 \in Nat
    OBVIOUS
  <1>10. Shows(u, c, o + 1, m - 1)
    BY <1>7, <1>8, Zenon DEF Shows
  <1>11. u = Window(c, o + 1, m - 1)
    BY <1>9, <1>10, ShownIs, Zenon
  <1> QED BY <1>1, <1>5, <1>6, <1>11, Zenon

\* The first n elements, and the others.
LEMMA WindowSplit ==
    ASSUME NEW c, NEW o \in Nat, NEW m \in Nat, NEW n \in 0..m
    PROVE  /\ SubSeq(Window(c, o, m), 1, n) = Window(c, o, n)
           /\ SubSeq(Window(c, o, m), n + 1, m) = Window(c, o + n, m - n)
  <1>1. PICK w : w = Window(c, o, m)
    BY Zenon
  <1>2. Shows(w, c, o, m)
    BY <1>1, WindowIs, Zenon
  <1>3. PICK S : w \in Seq(S)
    BY <1>2 DEF Shows
  <1>4. Len(w) = m /\ \A j \in 1..m : w[j] = c[o + j]
    BY <1>2 DEF Shows
  <1>5. n \in Nat /\ o + n \in Nat /\ m - n \in Nat
    OBVIOUS
  <1>6. PICK u : u = SubSeq(w, 1, n)
    BY Zenon
  <1>7. u \in Seq(S) /\ Len(u) = n /\ \A j \in 1..n : u[j] = w[j]
    BY <1>3, <1>4, <1>6
  <1>8. \A j \in 1..n : u[j] = c[o + j]
    BY <1>4, <1>7
  <1>9. Shows(u, c, o, n)
    BY <1>7, <1>8, Zenon DEF Shows
  <1>10. u = Window(c, o, n)
    BY <1>5, <1>9, ShownIs, Zenon
  <1>11. PICK v : v = SubSeq(w, n + 1, m)
    BY Zenon
  <1>12. v \in Seq(S) /\ Len(v) = m - n /\ \A j \in 1..m - n : v[j] = w[n + j]
    BY <1>3, <1>4, <1>11
  <1>13. ASSUME NEW j \in 1..m - n PROVE v[j] = c[(o + n) + j]
    <2>1. n + j \in 1..m /\ o + (n + j) = (o + n) + j
      OBVIOUS
    <2>2. w[n + j] = c[o + (n + j)]
      BY <1>4, <2>1
    <2> QED BY <1>12, <2>1, <2>2
  <1>14. Shows(v, c, o + n, m - n)
    BY <1>12, <1>13, Zenon DEF Shows
  <1>15. v = Window(c, o + n, m - n)
    BY <1>5, <1>14, ShownIs, Zenon
  <1> QED BY <1>1, <1>6, <1>10, <1>11, <1>15, Zenon

\* n parts of a status, after the first x, are in c after the o-th token.
Carries(c, o, n, of, x) ==
    \A j \in 1..n : c[o + j] = [kind |-> "data", part |-> x + j, of |-> of]

\* With w, x parts of a status become n more.
Extends(of, x, n, w) == Parts(of, x) \o w = Parts(of, x + n)

\* u is s and then t, item by item.
Concat(s, t, u) ==
    /\ DOMAIN u = 1..(Len(s) + Len(t))
    /\ \A k \in 1..Len(s) : u[k] = s[k]
    /\ \A k \in 1..Len(t) : u[Len(s) + k] = t[k]

\* What \o does.
LEMMA ConcatIs ==
    ASSUME NEW D, NEW s \in Seq(D), NEW t \in Seq(D)
    PROVE  s \o t \in Seq(D) /\ Concat(s, t, s \o t)
  BY DEF Concat

\* More parts of one status.
LEMMA PartsJoin ==
    ASSUME NEW of, NEW c, NEW o \in Nat, NEW x \in Nat, NEW n \in Nat,
           Carries(c, o, n, of, x)
    PROVE  Extends(of, x, n, Window(c, o, n))
  <1> DEFINE Data(j) == [kind |-> "data", part |-> j, of |-> of]
  <1>1. PICK D : D = {Data(j) : j \in Nat}
    BY Zenon
  <1>2. PICK u : u = Parts(of, x)
    BY Zenon
  <1>3. PICK w : w = Window(c, o, n)
    BY Zenon
  <1>4. u = [j \in 1..x |-> Data(j)] /\ w = [j \in 1..n |-> c[o + j]]
    BY <1>2, <1>3, Zenon DEF Parts, Window
  <1>5. \A j \in 1..n : c[o + j] = Data(x + j)
    BY Zenon DEF Carries
  <1> HIDE DEF Data
  <1>6. \A j \in Nat : Data(j) \in D
    BY <1>1, Zenon
  <1>7. \A j \in 1..n : w[j] = Data(x + j) /\ w[j] \in D
    BY <1>4, <1>5, <1>6
  <1>8. \A j \in 1..x : u[j] = Data(j) /\ u[j] \in D
    BY <1>4, <1>6
  <1>9. u \in [1..x -> D] /\ w \in [1..n -> D]
    BY <1>4, <1>7, <1>8, Zenon
  <1>10. u \in Seq(D) /\ Len(u) = x
    BY <1>9, ListOf, Zenon
  <1>11. w \in Seq(D) /\ Len(w) = n
    BY <1>9, ListOf, Zenon
  <1>12. u \o w \in Seq(D) /\ Concat(u, w, u \o w)
    BY <1>10, <1>11, ConcatIs, Zenon
  <1>13. PICK r : r = u \o w
    BY Zenon
  <1>14. /\ r \in Seq(D) /\ DOMAIN r = 1..(x + n)
         /\ \A j \in 1..x : r[j] = u[j]
         /\ \A j \in 1..n : r[x + j] = w[j]
    BY <1>10, <1>11, <1>12, <1>13, Zenon DEF Concat
  <1>15. ASSUME NEW j \in 1..(x + n) PROVE r[j] = Data(j)
    <2>1. CASE j \in 1..x
      BY <1>8, <1>14, <2>1
    <2>2. CASE j \notin 1..x
      <3>1. PICK l \in 1..n : j = x + l
        <4>1. j - x \in 1..n /\ j = x + (j - x)
          BY <2>2
        <4> QED BY <4>1
      <3> QED BY <1>7, <1>14, <3>1, Zenon
    <2> QED BY <2>1, <2>2
  <1>16. r = [j \in 1..(x + n) |-> Data(j)]
    BY <1>14, <1>15
  <1>17. Parts(of, x + n) = [j \in 1..(x + n) |-> Data(j)]
    BY Zenon DEF Parts, Data
  <1> QED BY <1>2, <1>3, <1>13, <1>16, <1>17, Zenon DEF Extends

-----------------------------------------------------------------------------
(* One turn of dechunk.                                                    *)

\* What a turn finds: the empty chunk, or one that may be there as a whole.
Turn(of, split, k, wire, out) ==
    \/ T!ChunkLen(0) = Head(wire) /\ out = Parts(of, 3)
    \/ /\ k + 1 \in 0..Len(split)
       /\ \E n \in 1..3 :
             /\ Head(wire) = T!ChunkLen(n)
             /\ n <= Len(Tail(wire)) =>
                   Moved(of, split, k + 1, T!AfterChunk(Tail(wire), n),
                         out \o SubSeq(Tail(wire), 1, n))

\* A turn of dechunk on a status that is cut short anywhere takes off one chunk.
LEMMA TurnIs ==
    ASSUME NEW of, NEW split \in Splits, NEW k \in 0..Len(split), NEW wire, NEW out,
           Moved(of, split, k, wire, out), wire # << >>
    PROVE  Turn(of, split, k, wire, out)
  <1> DEFINE c == T!Chunked(of, split)
             L == Len(split)
             a == T!TokensIn(split, k)
             N == T!TokensIn(split, L)
  <1>1. out = Parts(of, T!PartsIn(split, k))
    BY Zenon DEF Moved
  <1>2. PICK m \in Nat : wire = Window(c, a, m) /\ a + m <= N + 2
    BY Zenon DEF Moved
  <1>3. /\ L \in Nat /\ a \in Nat /\ N \in Nat /\ k \in Nat
        /\ T!PartsIn(split, k) \in 0..3 /\ T!PartsIn(split, L) = 3
    BY PartsGrow, TokensGrow
  <1>4. /\ DOMAIN c = 1..N + 2 /\ c[N + 1] = T!ChunkLen(0)
        /\ \A l \in 1..L : ChunkAt(c, of, split, l)
    BY ChunkedIs, Zenon
  <1> HIDE DEF c, a, N
  <1>5. m >= 1
    <2> SUFFICES ASSUME m = 0 PROVE FALSE
      OBVIOUS
    <2> QED BY <1>2 DEF Window
  <1>6. Head(wire) = c[a + 1] /\ Tail(wire) = Window(c, a + 1, m - 1)
    BY <1>2, <1>3, <1>5, WindowTail, Zenon
  <1>7. CASE k = L
    <2>1. a = N /\ T!PartsIn(split, k) = 3
      BY <1>3, <1>7 DEF a, N
    <2>2. Head(wire) = T!ChunkLen(0) /\ out = Parts(of, 3)
      BY <1>1, <1>4, <1>6, <2>1, Zenon
    <2> QED BY <2>2, Zenon DEF Turn
  <1>8. CASE k # L
    <2> DEFINE x == T!PartsIn(split, k)
               y == T!PartsIn(split, k + 1)
               b == T!TokensIn(split, k + 1)
    <2>1. k + 1 \in 0..L /\ k + 1 \in 1..L /\ k < k + 1 /\ (k + 1) - 1 = k
      BY <1>3, <1>8
    <2>2. x \in 0..3 /\ y \in 0..3 /\ x < y
      BY <2>1, PartsGrow
    <2>3. b \in Nat /\ a = x + 2 * k /\ b = y + 2 * (k + 1)
      BY <2>1, TokensGrow DEF a, T!TokensIn
    <2>4. b <= N
      <3>1. CASE k + 1 = L
        BY <1>3, <3>1 DEF N
      <3>2. CASE k + 1 < L
        <4>1. L \in 0..L
          BY <1>3
        <4>2. b + 3 <= N
          BY <2>1, <3>2, <4>1, TokensGrow DEF N
        <4> QED BY <1>3, <2>3, <4>2
      <3> QED BY <1>3, <2>1, <3>1, <3>2
    <2>5. ChunkAt(c, of, split, k + 1)
      BY <1>4, <2>1, Zenon
    <2>6. PICK n \in 1..3 : n = y - x
      BY <2>2
    <2>7. /\ c[a + 1] = T!ChunkLen(n)
          /\ \A j \in 1..n : c[a + 1 + j] = [kind |-> "data", part |-> x + j, of |-> of]
          /\ c[b] = T!Crlf
      BY <2>1, <2>5, <2>6 DEF ChunkAt, a
    <2> HIDE DEF x, y, b
    <2>8. b = a + 2 + n /\ y = x + n
      BY <1>3, <2>2, <2>3, <2>6
    <2>9. PICK t : t = Tail(wire)
      BY Zenon
    <2>10. a + 1 \in Nat /\ m - 1 \in Nat /\ t = Window(c, a + 1, m - 1)
      BY <1>3, <1>5, <1>6, <2>9
    <2>11. Shows(t, c, a + 1, m - 1)
      BY <2>10, WindowIs, Zenon
    <2>12. Len(t) = m - 1
      BY <2>11, Zenon DEF Shows
    <2>13. ASSUME n <= m - 1
           PROVE  Moved(of, split, k + 1, T!AfterChunk(t, n), out \o SubSeq(t, 1, n))
      <3>1. n \in 0..(m - 1) /\ n \in Nat /\ x \in Nat
        BY <1>5, <2>2, <2>13
      <3>2. /\ SubSeq(t, 1, n) = Window(c, a + 1, n)
            /\ SubSeq(t, n + 1, m - 1) = Window(c, (a + 1) + n, (m - 1) - n)
        <4>1. /\ SubSeq(Window(c, a + 1, m - 1), 1, n) = Window(c, a + 1, n)
              /\ SubSeq(Window(c, a + 1, m - 1), n + 1, m - 1)
                   = Window(c, (a + 1) + n, (m - 1) - n)
          BY <2>10, <3>1, WindowSplit, ZenonT(60)
        <4> QED BY <2>10, <4>1, Zenon
      <3>3. out \o SubSeq(t, 1, n) = Parts(of, x + n)
        <4>1. Extends(of, x, n, Window(c, a + 1, n))
          <5>1. Carries(c, a + 1, n, of, x)
            BY <2>7, Zenon DEF Carries
          <5> QED BY <2>10, <3>1, <5>1, PartsJoin, Zenon
        <4> QED BY <1>1, <3>2, <4>1, Zenon DEF x, Extends
      <3>4. PICK q : q = (m - 1) - n
        BY Zenon
      <3>5. PICK rest : rest = SubSeq(t, n + 1, Len(t))
        BY Zenon
      <3>6. /\ q \in Nat /\ (a + 1) + n \in Nat /\ ((a + 1) + n) + 1 = b
            /\ rest = Window(c, (a + 1) + n, q)
        BY <1>3, <2>8, <2>12, <3>1, <3>2, <3>4, <3>5
      <3>7. T!AfterChunk(t, n) = IF rest # << >> /\ Head(rest) = T!Crlf THEN Tail(rest) ELSE rest
        BY <3>5, Zenon DEF T!AfterChunk
      <3>8. CASE q = 0
        <4>1. rest = << >>
          BY <3>6, <3>8 DEF Window
        <4>2. T!AfterChunk(t, n) = << >> /\ Window(c, b, 0) = << >>
          BY <3>7, <4>1 DEF Window
        <4>3. b + 0 <= N + 2 /\ 0 \in Nat
          BY <1>3, <2>3, <2>4
        <4> QED BY <2>8, <3>3, <4>2, <4>3, Zenon DEF Moved, c, b, y, N
      <3>9. CASE q >= 1
        <4>1. /\ Head(rest) = c[((a + 1) + n) + 1]
              /\ Tail(rest) = Window(c, ((a + 1) + n) + 1, q - 1)
          BY <3>6, <3>9, WindowTail, Zenon
        <4>2. Shows(rest, c, (a + 1) + n, q)
          BY <3>6, WindowIs, Zenon
        <4>3. Len(rest) = q
          BY <4>2, Zenon DEF Shows
        <4>4. rest # << >>
          BY <3>9, <4>3
        <4>5. T!AfterChunk(t, n) = Window(c, b, q - 1)
          BY <2>7, <3>6, <3>7, <4>1, <4>4, Zenon
        <4>6. q - 1 \in Nat /\ b + (q - 1) <= N + 2
          BY <1>2, <1>3, <2>8, <3>1, <3>4, <3>6, <3>9
        <4> QED BY <2>8, <3>3, <4>5, <4>6, Zenon DEF Moved, c, b, y, N
      <3> QED BY <3>6, <3>8, <3>9
    <2> QED BY <1>6, <2>1, <2>7, <2>9, <2>12, <2>13, Zenon DEF Turn
  <1> QED BY <1>7, <1>8

-----------------------------------------------------------------------------
(* The calls.                                                              *)

\* What a step of the code may do to what Prover sees: nothing, or the end of the
\* call, with evidence only of an account that was reported.
TEnds ==
    /\ tCall.account # Nothing
    /\ tCall'.account = Nothing /\ reported' = FALSE
    /\ tCall'.outcome = "refused" \/ (reported /\ tCall'.outcome = "evidence")

TGoes == UNCHANGED reported /\ tCall'.account = tCall.account /\ tCall'.outcome = tCall.outcome

\* No call in the initial state.
LEMMA TailscaleInit == T!Init => TailscaleInv
  <1> SUFFICES ASSUME T!Init PROVE TailscaleInv
    OBVIOUS
  <1>1. login = Nothing /\ tOffered = {} /\ tCall = T!NoCall /\ reported = FALSE
    BY DEF T!Init
  <1>2. /\ tCall.pc = "idle" /\ tCall.account = Nothing /\ tCall.outcome = "none"
        /\ DOMAIN tCall = {"pc", "account", "wire", "chunked", "out", "outcome"}
    BY <1>1 DEF T!NoCall
  <1> QED BY <1>1, <1>2, Zenon DEF TailscaleInv, Reported

\* A call that returns leaves no account.
LEMMA TReturnKeeps ==
    ASSUME TailscaleInv, NEW outcome \in {"none", "evidence", "refused"}, T!Return(outcome),
           UNCHANGED login, tOffered' \subseteq Logins
    PROVE  /\ TailscaleInv'
           /\ tCall'.account = Nothing /\ tCall'.outcome = outcome /\ reported' = FALSE
  <1>1. tCall' = [T!NoCall EXCEPT !.outcome = outcome] /\ reported' = FALSE
    BY DEF T!Return
  <1>2. /\ tCall'.pc = "idle" /\ tCall'.account = Nothing /\ tCall'.outcome = outcome
        /\ DOMAIN tCall' = {"pc", "account", "wire", "chunked", "out", "outcome"}
    BY <1>1 DEF T!NoCall
  <1> QED BY <1>1, <1>2, Zenon DEF TailscaleInv, Reported

\* An error ends a proof as refused; Prover does not see enumerations.
LEMMA TFailKeeps ==
    ASSUME TailscaleInv, T!Fail
    PROVE  TailscaleInv' /\ UNCHANGED login /\ (TEnds \/ TGoes)
  <1>1. /\ UNCHANGED login /\ tOffered' \subseteq Logins
        /\ T!Return(IF tCall.account = Nothing THEN tCall.outcome ELSE "refused")
    BY DEF T!Fail, TailscaleInv
  <1>2. (IF tCall.account = Nothing THEN tCall.outcome ELSE "refused")
           \in {"none", "evidence", "refused"}
    BY DEF TailscaleInv
  <1>3. /\ TailscaleInv' /\ tCall'.account = Nothing /\ reported' = FALSE
        /\ tCall'.outcome = IF tCall.account = Nothing THEN tCall.outcome ELSE "refused"
    BY <1>1, <1>2, TReturnKeeps, Zenon
  <1>4. CASE tCall.account = Nothing
    BY <1>1, <1>3, <1>4 DEF TGoes, TailscaleInv
  <1>5. CASE tCall.account # Nothing
    BY <1>1, <1>3, <1>5, Zenon DEF TEnds
  <1> QED BY <1>4, <1>5

\* A call that goes on keeps its account.
LEMMA TGoesOnKeeps ==
    ASSUME TailscaleInv, UNCHANGED <<login, tOffered, reported>>,
           tCall'.account = tCall.account, tCall'.outcome = tCall.outcome,
           DOMAIN tCall' = {"pc", "account", "wire", "chunked", "out", "outcome"},
           tCall'.pc \in {"dechunk", "json"},
           tCall'.pc = "dechunk" =>
              \E of \in Logins \cup {Nothing}, split \in Splits :
                  /\ Reported(of)
                  /\ \E k \in 0..Len(split) : Moved(of, split, k, tCall'.wire, tCall'.out),
           tCall'.pc = "json" =>
              \E of \in Logins \cup {Nothing}, n \in 0..3 :
                  Reported(of) /\ tCall'.out = Parts(of, n) /\ (tCall'.chunked => n = 3)
    PROVE  TailscaleInv' /\ UNCHANGED login /\ TGoes
  <1>1. \A of : Reported(of)' <=> Reported(of)
    BY Zenon DEF Reported
  <1>2. tCall'.pc = "dechunk" =>
              \E of \in Logins \cup {Nothing}, split \in Splits :
                  /\ Reported(of)'
                  /\ \E k \in 0..Len(split) : Moved(of, split, k, tCall'.wire, tCall'.out)
    BY <1>1, Zenon
  <1>3. tCall'.pc = "json" => \E of \in Logins \cup {Nothing}, n \in 0..3 : Fetched(of, n)'
    BY <1>1, Zenon DEF Fetched
  <1>4. Reported(login)'
    BY Zenon DEF TailscaleInv, Reported
  <1> QED BY <1>2, <1>3, <1>4 DEF TailscaleInv, TGoes

\* What has arrived of an answer, before anything is taken apart.
LEMMA FetchKeeps ==
    ASSUME TailscaleInv, T!FetchStatus
    PROVE  TailscaleInv' /\ UNCHANGED login /\ (TEnds \/ TGoes)
  <1>1. CASE T!Fail
    BY <1>1, TFailKeeps
  <1>2. CASE /\ UNCHANGED <<login, tOffered, reported>>
             /\ \E sent \in {T!Body(login)} \cup {T!Chunked(login, s) : s \in Splits} :
                \E n \in 0..Len(sent) :
                   tCall' = [tCall EXCEPT !.pc = IF sent = T!Body(login) THEN "json" ELSE "dechunk",
                                !.chunked = sent # T!Body(login),
                                !.wire = SubSeq(sent, 1, n),
                                !.out = IF sent = T!Body(login) THEN SubSeq(sent, 1, n) ELSE << >>]
    <2>0. PICK sent \in {T!Body(login)} \cup {T!Chunked(login, s) : s \in Splits} :
             \E n \in 0..Len(sent) :
                tCall' = [tCall EXCEPT !.pc = IF sent = T!Body(login) THEN "json" ELSE "dechunk",
                             !.chunked = sent # T!Body(login),
                             !.wire = SubSeq(sent, 1, n),
                             !.out = IF sent = T!Body(login) THEN SubSeq(sent, 1, n) ELSE << >>]
      BY <1>2, Zenon
    <2>1. PICK n \in 0..Len(sent) :
             tCall' = [tCall EXCEPT !.pc = IF sent = T!Body(login) THEN "json" ELSE "dechunk",
                          !.chunked = sent # T!Body(login),
                          !.wire = SubSeq(sent, 1, n),
                          !.out = IF sent = T!Body(login) THEN SubSeq(sent, 1, n) ELSE << >>]
      BY <2>0, Zenon
    <2>2. /\ tCall'.pc = IF sent = T!Body(login) THEN "json" ELSE "dechunk"
          /\ tCall'.chunked = (sent # T!Body(login))
          /\ tCall'.wire = SubSeq(sent, 1, n)
          /\ tCall'.out = IF sent = T!Body(login) THEN SubSeq(sent, 1, n) ELSE << >>
          /\ tCall'.account = tCall.account /\ tCall'.outcome = tCall.outcome
          /\ DOMAIN tCall' = {"pc", "account", "wire", "chunked", "out", "outcome"}
      BY <2>1 DEF TailscaleInv
    <2>3. login \in Logins \cup {Nothing} /\ Reported(login)
      BY Zenon DEF TailscaleInv
    <2>4. CASE sent = T!Body(login)
      <3>1. sent = Window(T!Body(login), 0, 3)
        <4>1. \A j \in 1..3 : 0 + j = j
          OBVIOUS
        <4>2. Window(T!Body(login), 0, 3) = [j \in 1..3 |-> T!Body(login)[j]]
          BY <4>1 DEF Window
        <4> QED BY <2>4, <4>2 DEF T!Body
      <3>2. Shows(sent, T!Body(login), 0, 3)
        <4>1. 0 \in Nat /\ 3 \in Nat
          OBVIOUS
        <4> QED BY <3>1, <4>1, WindowIs, Zenon
      <3>3. Len(sent) = 3
        BY <3>2, Zenon DEF Shows
      <3>4. n \in 0..3 /\ 0 \in Nat /\ 3 \in Nat
        BY <3>3
      <3>5. SubSeq(sent, 1, n) = Window(T!Body(login), 0, n)
        BY <3>1, <3>4, WindowSplit, Zenon
      <3>6. Window(T!Body(login), 0, n) = Parts(login, n)
        <4>1. \A j \in 1..n : 0 + j = j /\ j \in 1..3
          BY <3>4
        <4> QED BY <4>1, Zenon DEF Window, Parts, T!Body
      <3>7. tCall'.pc = "json" /\ tCall'.out = Parts(login, n) /\ ~tCall'.chunked
        BY <2>2, <2>4, <3>5, <3>6, Zenon
      <3> QED BY <1>2, <2>2, <2>3, <3>4, <3>7, TGoesOnKeeps, Zenon
    <2>5. CASE sent # T!Body(login)
      <3>1. PICK s \in Splits : sent = T!Chunked(login, s)
        BY <2>0, <2>5, Zenon
      <3>2. PICK N : N = T!TokensIn(s, Len(s)) + 2
        BY Zenon
      <3>3. /\ N \in Nat /\ 0 \in Nat /\ 0 \in 0..Len(s) /\ T!PartsIn(s, 0) = 0
            /\ T!TokensIn(s, 0) = 0
        <4>1. /\ Len(s) \in Nat /\ T!PartsIn(s, 0) = 0 /\ 0 \in 0..Len(s) /\ Len(s) \in 0..Len(s)
          BY PartsGrow
        <4>2. T!TokensIn(s, Len(s)) \in Nat
          BY <4>1, TokensGrow, Zenon
        <4>3. T!TokensIn(s, 0) = 0
          BY <4>1 DEF T!TokensIn
        <4> QED BY <3>2, <4>1, <4>2, <4>3
      <3>4. DOMAIN sent = 1..N
        BY <3>1, <3>2, ChunkedIs, Zenon
      <3>5. sent = [j \in DOMAIN sent |-> sent[j]]
        BY <3>1 DEF T!Chunked
      <3>6. sent = Window(sent, 0, N)
        <4>1. \A j \in 1..N : 0 + j = j
          OBVIOUS
        <4>2. Window(sent, 0, N) = [j \in 1..N |-> sent[j]]
          BY <4>1 DEF Window
        <4> QED BY <3>4, <3>5, <4>2, Zenon
      <3>7. Shows(sent, sent, 0, N)
        BY <3>3, <3>6, WindowIs, Zenon
      <3>8. Len(sent) = N
        BY <3>7, Zenon DEF Shows
      <3>9. n \in 0..N /\ n \in Nat
        BY <3>3, <3>8
      <3>10. SubSeq(sent, 1, n) = Window(sent, 0, n)
        <4>1. PICK w : w = sent /\ w = Window(sent, 0, N)
          BY <3>6, Zenon
        <4>2. SubSeq(Window(sent, 0, N), 1, n) = Window(sent, 0, n)
          BY <3>3, <3>9, WindowSplit, Zenon
        <4>3. SubSeq(w, 1, n) = Window(sent, 0, n)
          BY <4>1, <4>2
        <4> QED BY <4>1, <4>3
      <3>11. << >> = Parts(login, 0)
        BY DEF Parts
      <3>12. T!TokensIn(s, 0) + n <= T!TokensIn(s, Len(s)) + 2
        BY <3>2, <3>3, <3>9
      <3>13. tCall'.wire = Window(T!Chunked(login, s), T!TokensIn(s, 0), n)
        BY <2>2, <3>1, <3>3, <3>10, Zenon
      <3>14. tCall'.pc = "dechunk" /\ tCall'.out = Parts(login, T!PartsIn(s, 0))
        BY <2>2, <2>5, <3>3, <3>11, Zenon
      <3>15. Moved(login, s, 0, tCall'.wire, tCall'.out)
        BY <3>9, <3>12, <3>13, <3>14, Zenon DEF Moved
      <3>16. \E of \in Logins \cup {Nothing}, split \in Splits :
                /\ Reported(of)
                /\ \E k \in 0..Len(split) : Moved(of, split, k, tCall'.wire, tCall'.out)
        BY <2>3, <3>3, <3>15, Zenon
      <3> QED BY <1>2, <2>2, <3>14, <3>16, TGoesOnKeeps
    <2> QED BY <2>4, <2>5
  <1> QED BY <1>1, <1>2, Zenon DEF T!FetchStatus

\* A turn of dechunk moves one chunk, or ends with all of them.
LEMMA DechunkKeeps ==
    ASSUME TailscaleInv, T!Dechunk
    PROVE  TailscaleInv' /\ UNCHANGED login /\ (TEnds \/ TGoes)
  <1>1. CASE T!Fail
    BY <1>1, TFailKeeps
  <1>2. CASE ~T!Fail
    <2>1. PICK n, rest :
             /\ tCall.pc = "dechunk" /\ tCall.wire # << >>
             /\ n = Head(tCall.wire).n /\ rest = Tail(tCall.wire) /\ T!Quiet
             /\ \/ n = 0 /\ T!Goto("json")
                \/ /\ n \in 1..Len(rest)
                   /\ tCall' = [tCall EXCEPT !.out = @ \o SubSeq(rest, 1, n),
                                             !.wire = T!AfterChunk(rest, n)]
      BY <1>2, Zenon DEF T!Dechunk
    <2>2. UNCHANGED <<login, tOffered, reported>>
      BY <2>1 DEF T!Quiet
    <2>3. PICK of \in Logins \cup {Nothing}, split \in Splits :
             /\ Reported(of)
             /\ \E k \in 0..Len(split) : Moved(of, split, k, tCall.wire, tCall.out)
      BY <2>1, Zenon DEF TailscaleInv
    <2>4. PICK k \in 0..Len(split) : Moved(of, split, k, tCall.wire, tCall.out)
      BY <2>3
    <2>5. Turn(of, split, k, tCall.wire, tCall.out)
      BY <2>1, <2>4, TurnIs, Zenon
    <2>6. \A l : T!ChunkLen(l).n = l
      BY DEF T!ChunkLen
    <2>7. CASE n = 0 /\ T!Goto("json")
      <3>1. tCall.out = Parts(of, 3)
        <4>1. \A l \in 1..3 : l # 0
          OBVIOUS
        <4>2. ~\E l \in 1..3 : Head(tCall.wire) = T!ChunkLen(l)
          <5>1. Head(tCall.wire).n = 0
            BY <2>1, <2>7, Zenon
          <5> QED BY <2>6, <4>1, <5>1, Zenon
        <4> QED BY <2>5, <4>2, Zenon DEF Turn
      <3>2. /\ tCall'.pc = "json" /\ tCall'.out = tCall.out
            /\ tCall'.account = tCall.account /\ tCall'.outcome = tCall.outcome
            /\ DOMAIN tCall' = {"pc", "account", "wire", "chunked", "out", "outcome"}
        BY <2>7 DEF T!Goto, TailscaleInv
      <3>3. 3 \in 0..3
        OBVIOUS
      <3>4. \E o \in Logins \cup {Nothing}, l \in 0..3 :
               Reported(o) /\ tCall'.out = Parts(o, l) /\ (tCall'.chunked => l = 3)
        BY <2>3, <3>1, <3>2, <3>3, Zenon
      <3> QED BY <2>2, <3>2, <3>4, TGoesOnKeeps
    <2>8. CASE /\ n \in 1..Len(rest)
               /\ tCall' = [tCall EXCEPT !.out = @ \o SubSeq(rest, 1, n),
                                         !.wire = T!AfterChunk(rest, n)]
      <3>1. n # 0 /\ n <= Len(rest)
        BY <2>8
      <3>2. /\ k + 1 \in 0..Len(split)
            /\ Moved(of, split, k + 1, T!AfterChunk(rest, n), tCall.out \o SubSeq(rest, 1, n))
        BY <2>1, <2>5, <2>6, <3>1, Zenon DEF Turn
      <3>3. /\ tCall'.pc = "dechunk" /\ tCall'.out = tCall.out \o SubSeq(rest, 1, n)
            /\ tCall'.wire = T!AfterChunk(rest, n)
            /\ tCall'.account = tCall.account /\ tCall'.outcome = tCall.outcome
            /\ DOMAIN tCall' = {"pc", "account", "wire", "chunked", "out", "outcome"}
        BY <2>1, <2>8, Zenon DEF TailscaleInv
      <3>4. \E o \in Logins \cup {Nothing}, s \in Splits :
               /\ Reported(o)
               /\ \E l \in 0..Len(s) : Moved(o, s, l, tCall'.wire, tCall'.out)
        BY <2>3, <3>2, <3>3, Zenon
      <3> QED BY <2>2, <3>3, <3>4, TGoesOnKeeps
    <2> QED BY <2>1, <2>7, <2>8
  <1> QED BY <1>1, <1>2

\* prove answers with evidence only if the status is the account's own, which was
\* then logged in as the call ran.
LEMMA IdentityKeeps ==
    ASSUME TailscaleInv, T!IdentityOf
    PROVE  TailscaleInv' /\ UNCHANGED login /\ (TEnds \/ TGoes)
  <1>1. CASE T!Fail
    BY <1>1, TFailKeeps
  <1>2. CASE ~T!Fail
    <2>1. PICK account \in T!Accounts(tCall.out) :
             /\ tCall.pc = "json" /\ UNCHANGED login
             /\ IF tCall.account = Nothing
                THEN tOffered' = {account} /\ T!Return(tCall.outcome)
                ELSE /\ T!Return(IF account = tCall.account THEN "evidence" ELSE "refused")
                     /\ UNCHANGED tOffered
      BY <1>2, Zenon DEF T!IdentityOf
    <2>2. account \in Logins /\ tCall.out = T!Body(account)
      BY DEF T!Accounts
    <2>3. tCall.outcome \in {"none", "evidence", "refused"} /\ tOffered \subseteq Logins
      BY DEF TailscaleInv
    <2>4. CASE tCall.account = Nothing
      <3>1. reported = FALSE
        BY <2>4 DEF TailscaleInv
      <3>2. T!Return(tCall.outcome) /\ tOffered' \subseteq Logins
        BY <2>1, <2>2, <2>4
      <3> QED BY <2>1, <2>3, <2>4, <3>1, <3>2, TReturnKeeps, Zenon DEF TGoes
    <2>5. CASE tCall.account # Nothing
      <3>1. PICK outcome \in {"evidence", "refused"} :
               /\ T!Return(outcome) /\ tOffered' \subseteq Logins
               /\ outcome = "evidence" => account = tCall.account
        BY <2>1, <2>3, <2>5
      <3>2. outcome = "evidence" => reported
        <4>1. PICK of \in Logins \cup {Nothing}, n \in 0..3 : Fetched(of, n)
          BY <2>1, Zenon DEF TailscaleInv
        <4>2. tCall.out = Parts(of, n) /\ Reported(of)
          BY <4>1, Zenon DEF Fetched
        <4>3. of = account
          <5>1. DOMAIN Parts(of, n) = 1..n /\ DOMAIN T!Body(account) = 1..3
            BY DEF Parts, T!Body
          <5>2. 1 \in 1..n /\ 1 \in 1..3
            BY <2>2, <4>2, <5>1
          <5>3. Parts(of, n)[1].of = of /\ T!Body(account)[1].of = account
            BY <5>2 DEF Parts, T!Body
          <5> QED BY <2>2, <4>2, <5>3
        <4> QED BY <2>5, <3>1, <4>2, <4>3, Zenon DEF Reported
      <3> QED BY <2>1, <2>5, <3>1, <3>2, TReturnKeeps, Zenon DEF TEnds
    <2> QED BY <2>4, <2>5
  <1> QED BY <1>1, <1>2

\* Another account: the record of what was logged in as the call ran only grows.
LEMMA LogInKeeps ==
    ASSUME TailscaleInv, T!LogIn
    PROVE  TailscaleInv'
  <1>1. /\ login' \in Logins \cup {Nothing} /\ UNCHANGED <<tOffered, tCall>>
        /\ reported' = (reported \/ (tCall.account # Nothing /\ tCall.account = login'))
    BY DEF T!LogIn
  <1>2. reported' \in BOOLEAN /\ (reported => reported')
    BY <1>1, Zenon DEF TailscaleInv
  <1>3. \A of : Reported(of) => Reported(of)'
    BY <1>1, <1>2, Zenon DEF Reported
  <1>4. Reported(login)'
    BY <1>1, Zenon DEF Reported
  <1>5. tCall.account = Nothing => reported' = FALSE
    BY <1>1, Zenon DEF TailscaleInv
  <1>6. tCall'.pc = "json" => \E of \in Logins \cup {Nothing}, n \in 0..3 : Fetched(of, n)'
    BY <1>1, <1>3, Zenon DEF TailscaleInv, Fetched
  <1>7. tCall'.pc = "dechunk" =>
              \E of \in Logins \cup {Nothing}, split \in Splits :
                  /\ Reported(of)'
                  /\ \E k \in 0..Len(split) : Moved(of, split, k, tCall'.wire, tCall'.out)
    BY <1>1, <1>3, Zenon DEF TailscaleInv
  <1> QED BY <1>1, <1>2, <1>4, <1>5, <1>6, <1>7, Zenon DEF TailscaleInv

\* What Prover sees of the beginning of a call.
TBegins ==
    /\ tCall.account = Nothing
    /\ \E account \in Logins :
          /\ tCall'.account = account /\ tCall'.outcome = "none"
          /\ reported' = (account = login)

\* enumerate begins without an account, prove with one that was offered.
LEMMA TBeginKeeps ==
    ASSUME TailscaleInv, T!Begin
    PROVE  TailscaleInv' /\ UNCHANGED login /\ (TBegins \/ TGoes)
  <1>1. UNCHANGED <<login, tOffered>> /\ tCall.pc = "idle" /\ tCall.account = Nothing
    BY Zenon DEF T!Begin, TailscaleInv
  <1>2. CASE T!Goto("fetch") /\ UNCHANGED reported
    <2>1. /\ tCall'.pc = "fetch" /\ tCall'.account = tCall.account
          /\ tCall'.outcome = tCall.outcome
          /\ DOMAIN tCall' = {"pc", "account", "wire", "chunked", "out", "outcome"}
      BY <1>2 DEF T!Goto, TailscaleInv
    <2> QED BY <1>1, <1>2, <2>1, Zenon DEF TailscaleInv, Reported, TGoes
  <1>3. CASE \E account \in tOffered :
                /\ tCall' = [tCall EXCEPT !.pc = "fetch", !.account = account, !.outcome = "none"]
                /\ reported' = (account = login)
    <2>1. PICK account \in tOffered :
             /\ tCall' = [tCall EXCEPT !.pc = "fetch", !.account = account, !.outcome = "none"]
             /\ reported' = (account = login)
      BY <1>3, Zenon
    <2>2. account \in Logins /\ account # Nothing
      BY NothingAssumption DEF TailscaleInv
    <2>3. /\ tCall'.pc = "fetch" /\ tCall'.account = account /\ tCall'.outcome = "none"
          /\ DOMAIN tCall' = {"pc", "account", "wire", "chunked", "out", "outcome"}
      BY <2>1 DEF TailscaleInv
    <2> QED BY <1>1, <2>1, <2>2, <2>3, Zenon DEF TailscaleInv, Reported, TBegins
  <1> QED BY <1>2, <1>3, Zenon DEF T!Begin

\* The invariant holds throughout.
LEMMA TailscaleNext == TailscaleInv /\ [T!Next]_T!vars => TailscaleInv'
  <1> SUFFICES ASSUME TailscaleInv, [T!Next]_T!vars PROVE TailscaleInv'
    OBVIOUS
  <1>1. CASE UNCHANGED T!vars
    <2>1. UNCHANGED <<login, tOffered, tCall, reported>>
      BY <1>1 DEF T!vars
    <2>2. \A of : Reported(of)' <=> Reported(of)
      BY <2>1, Zenon DEF Reported
    <2>3. \A of, n : Fetched(of, n)' <=> Fetched(of, n)
      BY <2>1, <2>2, Zenon DEF Fetched
    <2> QED BY <2>1, <2>2, <2>3, Zenon DEF TailscaleInv
  <1> QED BY <1>1, LogInKeeps, TBeginKeeps, FetchKeeps, DechunkKeeps, IdentityKeeps
          DEF T!Next, T!Step

\* And a step of a call, to Prover.
LEMMA TailscaleSteps == TailscaleInv /\ [T!Next]_T!vars => [T!P!Next]_T!P!vars
  <1> SUFFICES ASSUME TailscaleInv, [T!Next]_T!vars PROVE [T!P!Next]_T!P!vars
    OBVIOUS
  <1>1. ASSUME UNCHANGED login, TGoes PROVE UNCHANGED T!P!vars
    BY <1>1, Zenon DEF TGoes, T!P!vars
  <1>2. ASSUME UNCHANGED login, TEnds PROVE T!P!Next
    BY <1>2, Zenon DEF TEnds, T!P!Next, T!P!Prove, T!P!Refuse
  <1>3. ASSUME UNCHANGED login, TBegins PROVE T!P!Next
    <2>1. PICK account \in Logins :
             /\ tCall'.account = account /\ tCall'.outcome = "none"
             /\ reported' = (account = login)
      BY <1>3, Zenon DEF TBegins
    <2>2. (account \in {login} \cap Logins) <=> (account = login)
      BY Zenon
    <2>3. reported' = (account \in {login} \cap Logins)
      BY <2>1, <2>2
    <2> QED BY <1>3, <2>1, <2>3, Zenon DEF TBegins, T!P!Next, T!P!Begin
  <1>4. CASE T!LogIn
    <2>1. /\ UNCHANGED tCall
          /\ reported' = (reported \/ (tCall.account # Nothing /\ tCall.account = login'))
      BY <1>4 DEF T!LogIn
    <2>2. (tCall.account # Nothing /\ tCall.account = login')
             <=> tCall.account \in {login'} \cap Logins
      BY NothingAssumption DEF TailscaleInv
    <2>3. reported' = (reported \/ tCall.account \in {login'} \cap Logins)
      BY <2>1, <2>2
    <2>4. {login'} \cap Logins \subseteq Logins
      BY Zenon
    <2> QED BY <2>1, <2>3, <2>4, Zenon DEF T!P!Next, T!P!Change
  <1>5. CASE T!Begin
    BY <1>1, <1>3, <1>5, TBeginKeeps
  <1>6. CASE T!Step
    BY <1>1, <1>2, <1>6, FetchKeeps, DechunkKeeps, IdentityKeeps DEF T!Step
  <1>7. CASE UNCHANGED T!vars
    BY <1>7 DEF T!vars, T!P!vars
  <1> QED BY <1>4, <1>5, <1>6, <1>7 DEF T!Next

\* dechunk hands on a whole status or fails, however the answer was cut into
\* chunks and wherever tailscaled stopped sending.
THEOREM ChunksAreTheStatus == T!Spec => []DechunkedIsTheBody
  <1>1. TailscaleInv => DechunkedIsTheBody
    <2> SUFFICES ASSUME TailscaleInv, tCall.pc = "json", tCall.chunked
                 PROVE  \E account \in Logins \cup {Nothing} : tCall.out = T!Body(account)
      BY Zenon DEF DechunkedIsTheBody, T!DechunkedIsTheBody
    <2>1. PICK of \in Logins \cup {Nothing}, n \in 0..3 : Fetched(of, n)
      BY Zenon DEF TailscaleInv
    <2>2. tCall.out = Parts(of, 3)
      BY <2>1, Zenon DEF Fetched
    <2> QED BY <2>2, Zenon DEF Parts, T!Body
  <1> QED BY <1>1, TailscaleInit, TailscaleNext, PTL DEF T!Spec

\* tailscale promises what every source promises: whoever logs in and out and
\* however the answer arrives, evidence is of an account the node was logged in
\* as at some moment of the very call that answers with it.
THEOREM TailscaleRefinesProver == T!Spec => TailscaleImplementsProver
  <1>1. T!Init => T!P!Init
    BY DEF T!Init, T!P!Init, T!NoCall
  <1> QED BY <1>1, TailscaleInit, TailscaleNext, TailscaleSteps, PTL
          DEF T!Spec, TailscaleImplementsProver, T!ImplementsProver, T!P!Spec

-----------------------------------------------------------------------------

INSTANCE OrderFacts

-----------------------------------------------------------------------------
(* ssh-agent and did:key.                                                   *)

\* Vec::retain is the same wherever it is used.
LEMMA RetainsAlike ==
    ASSUME NEW s, NEW P
    PROVE  A!Retain(s, P) = Retain(s, P)
  BY DEF A!Retain, A!Kept, Retain, Kept

\* The subject of the call in flight, by step, and that a subject the agent holds
\* or listed during the call is recorded as resident.
AgentInv ==
    /\ ring \in Seq(Blobs)
    /\ aCall.path \in A!AgentPaths \cup {Nothing}
    /\ aCall.outcome \in {"none", "evidence", "refused"}
    /\ aCall.pc \in {"idle", "did", "connect", "list", "listed", "find", "sign", "verify"}
    /\ aCall.pc \in {"idle", "listed"} => aCall.path = Nothing
    /\ aCall.pc \in {"did", "find", "sign", "verify"} => aCall.path # Nothing
    /\ aCall.path = Nothing => resident = FALSE
    /\ resident \in BOOLEAN
    /\ aCall.path # Nothing /\ A!Holds(ring, aCall.path) => resident
    /\ aCall.path # Nothing /\ aCall.path.source = "did:key" /\ aCall.pc # "did"
          => A!Provable(aCall.path.of)
    /\ aCall.pc = "find" => (A!Holds(aCall.keys, aCall.path) => resident)
    /\ aCall.pc \in {"sign", "verify"} => resident
    /\ DOMAIN aCall = {"pc", "path", "keys", "blob", "sig", "outcome"}

\* Nothing is called in the initial state.
LEMMA AgentInit == A!Init => AgentInv
  <1> SUFFICES ASSUME A!Init PROVE AgentInv
    OBVIOUS
  <1>1. ring = << >> /\ aCall = A!NoCall /\ resident = FALSE
    BY DEF A!Init
  <1>2. /\ aCall.pc = "idle" /\ aCall.path = Nothing /\ aCall.outcome = "none"
        /\ DOMAIN aCall = {"pc", "path", "keys", "blob", "sig", "outcome"}
    BY <1>1 DEF A!NoCall
  <1>3. ring \in Seq(Blobs)
    BY <1>1
  <1> QED BY <1>1, <1>2, <1>3, Zenon DEF AgentInv

\* A list that is part of another holds no more.
LEMMA HoldsInPart ==
  ASSUME NEW keys \in Seq(Blobs), NEW n \in 0..Len(keys), NEW path,
         A!Holds(SubSeq(keys, 1, n), path)
  PROVE  A!Holds(keys, path)
  <1>1. PICK m \in DOMAIN SubSeq(keys, 1, n) :
           \/ path = A!KeyPath(SubSeq(keys, 1, n)[m])
           \/ \E d \in DidKeys : /\ path = A!DidPath(d) /\ A!Provable(d)
                               /\ A!Ed25519PointOf(SubSeq(keys, 1, n)[m]) = d.point
    BY Zenon DEF A!Holds
  <1>2. m \in DOMAIN keys /\ SubSeq(keys, 1, n)[m] = keys[m]
    BY <1>1
  <1> QED BY <1>1, <1>2, Zenon DEF A!Holds

\* A listed key that the candidate names is a key that holds its identity.
LEMMA NamedIsHeld ==
  ASSUME NEW path \in A!AgentPaths, NEW keys, NEW n \in DOMAIN keys,
         A!Names(path, keys[n]),
         path.source = "did:key" => A!Provable(path.of)
  PROVE  A!Holds(keys, path)
  <1>2. CASE path.source = "ssh-agent"
    BY <1>2 DEF A!Names, A!Holds
  <1>3. CASE path.source # "ssh-agent"
    <2>1. PICK d \in DidKeys : path = A!DidPath(d)
      BY <1>3 DEF A!AgentPaths, A!KeyPath
    <2>2. path.of = d /\ path.source = "did:key"
      BY <2>1 DEF A!DidPath
    <2>3. A!Ed25519PointOf(keys[n]) = d.point /\ A!Provable(d)
      BY <1>3, <2>2 DEF A!Names
    <2> QED BY <2>1, <2>3 DEF A!Holds
  <1> QED BY <1>2, <1>3

\* A call that returns leaves no subject.
LEMMA ReturnKeeps ==
  ASSUME AgentInv, NEW outcome \in {"none", "evidence", "refused"}, A!Return(outcome), UNCHANGED ring
  PROVE  /\ AgentInv'
         /\ aCall'.path = Nothing /\ aCall'.outcome = outcome /\ resident' = FALSE
  <1>1. aCall' = [A!NoCall EXCEPT !.outcome = outcome] /\ resident' = FALSE
    BY DEF A!Return
  <1>2. /\ aCall'.pc = "idle" /\ aCall'.path = Nothing /\ aCall'.outcome = outcome
        /\ DOMAIN aCall' = {"pc", "path", "keys", "blob", "sig", "outcome"}
    BY <1>1, ZenonT(60) DEF A!NoCall
  <1> QED BY <1>1, <1>2, Zenon DEF AgentInv

\* A call that goes on keeps its subject.
LEMMA GoesOnKeeps ==
  ASSUME AgentInv, UNCHANGED <<ring, resident>>,
         aCall'.path = aCall.path, aCall'.outcome = aCall.outcome,
         DOMAIN aCall' = {"pc", "path", "keys", "blob", "sig", "outcome"},
         aCall'.pc \in {"connect", "list", "listed", "find", "sign", "verify"},
         aCall'.pc = "listed" => aCall.path = Nothing,
         aCall'.pc \in {"find", "sign", "verify"} => aCall.path # Nothing,
         aCall.path # Nothing /\ aCall.path.source = "did:key" => A!Provable(aCall.path.of),
         aCall'.pc = "find" => (A!Holds(aCall'.keys, aCall.path) => resident),
         aCall'.pc \in {"sign", "verify"} => resident
  PROVE  AgentInv'
  BY DEF AgentInv

\* What a step of the code may do to what Prover sees: nothing, or the end of the
\* call, with evidence only of what was resident.
Ends ==
    /\ aCall.path # Nothing
    /\ aCall'.path = Nothing /\ resident' = FALSE
    /\ aCall'.outcome = "refused" \/ (resident /\ aCall'.outcome = "evidence")

Goes == UNCHANGED resident /\ aCall'.path = aCall.path /\ aCall'.outcome = aCall.outcome

\* An error ends a proof as refused; Prover does not see enumerations.
LEMMA FailKeeps ==
  ASSUME AgentInv, A!Fail
  PROVE  AgentInv' /\ UNCHANGED ring /\ (Ends \/ Goes)
  <1>1. UNCHANGED ring /\ A!Return(IF aCall.path = Nothing THEN aCall.outcome ELSE "refused")
    BY Zenon DEF A!Fail, A!agentVars
  <1>2. (IF aCall.path = Nothing THEN aCall.outcome ELSE "refused")
           \in {"none", "evidence", "refused"}
    BY DEF AgentInv
  <1>3. /\ AgentInv' /\ aCall'.path = Nothing /\ resident' = FALSE
        /\ aCall'.outcome = IF aCall.path = Nothing THEN aCall.outcome ELSE "refused"
    BY <1>1, <1>2, ReturnKeeps, ZenonT(60)
  <1>4. CASE aCall.path = Nothing
    BY <1>1, <1>3, <1>4, SMTT(60) DEF Goes, AgentInv
  <1>5. CASE aCall.path # Nothing
    BY <1>1, <1>3, <1>5 DEF Ends
  <1> QED BY <1>4, <1>5

\* Each step of a call keeps the invariant and looks to Prover like a stutter or
\* like the end of the call.
LEMMA StepKeeps ==
  ASSUME AgentInv, A!Step
  PROVE  AgentInv' /\ UNCHANGED ring /\ (Ends \/ Goes)
  <1>1. ASSUME NEW to, A!Goto(to), A!Quiet
        PROVE  /\ aCall'.pc = to /\ aCall'.path = aCall.path /\ aCall'.outcome = aCall.outcome
               /\ DOMAIN aCall' = {"pc", "path", "keys", "blob", "sig", "outcome"}
               /\ UNCHANGED <<ring, resident>>
    BY <1>1 DEF AgentInv, A!Goto, A!Quiet, A!agentVars
  <1>2. CASE A!ReadDidKeys
    <2>1. CASE A!Fail
      BY <2>1, FailKeeps
    <2>2. CASE A!Provable(aCall.path.of) /\ A!Goto("connect") /\ A!Quiet
      BY <2>2, <1>1, GoesOnKeeps DEF Goes
    <2> QED BY <1>2, <2>1, <2>2, ZenonT(60) DEF A!ReadDidKeys
  <1>3. CASE A!Connect
    <2>1. CASE A!Fail
      BY <2>1, FailKeeps
    <2>2. CASE A!Goto("list") /\ A!Quiet
      <3>1. aCall.pc = "connect"
        BY <1>3 DEF A!Connect
      <3>2. aCall.path # Nothing /\ aCall.path.source = "did:key" => A!Provable(aCall.path.of)
        BY <3>1 DEF AgentInv
      <3> QED BY <2>2, <3>2, <1>1, GoesOnKeeps DEF Goes
    <2> QED BY <1>3, <2>1, <2>2, ZenonT(60) DEF A!Connect
  <1>4. CASE A!ListIdentities
    <2>1. CASE A!Fail
      BY <2>1, FailKeeps
    <2>2. CASE \E n \in 0..Len(ring) :
                  /\ aCall' = [aCall EXCEPT !.pc = IF aCall.path = Nothing THEN "listed" ELSE "find",
                                          !.keys = SubSeq(ring, 1, n)]
                  /\ UNCHANGED <<A!agentVars, resident>>
      <3>1. PICK n \in 0..Len(ring) :
               aCall' = [aCall EXCEPT !.pc = IF aCall.path = Nothing THEN "listed" ELSE "find",
                                    !.keys = SubSeq(ring, 1, n)]
        BY <2>2, Zenon
      <3>2. /\ aCall'.pc = IF aCall.path = Nothing THEN "listed" ELSE "find"
            /\ aCall'.keys = SubSeq(ring, 1, n)
            /\ aCall'.path = aCall.path /\ aCall'.outcome = aCall.outcome
            /\ DOMAIN aCall' = {"pc", "path", "keys", "blob", "sig", "outcome"}
        BY <3>1 DEF AgentInv
      <3>3. UNCHANGED <<ring, resident>>
        BY <2>2, SMTT(60) DEF A!agentVars
      <3>4. aCall.path # Nothing /\ A!Holds(aCall'.keys, aCall.path) => resident
        BY <3>2, HoldsInPart DEF AgentInv
      <3>5. aCall.path # Nothing /\ aCall.path.source = "did:key" => A!Provable(aCall.path.of)
        BY <1>4, Zenon DEF AgentInv, A!ListIdentities
      <3>6. AgentInv'
        BY <3>2, <3>3, <3>4, <3>5, GoesOnKeeps
      <3> QED BY <3>2, <3>3, <3>6 DEF Goes
    <2> QED BY <1>4, <2>1, <2>2, Zenon DEF A!ListIdentities
  <1>5. CASE A!Offer
    <2>1. aCall.path = Nothing /\ resident = FALSE
      BY <1>5, ZenonT(60) DEF A!Offer, AgentInv
    <2>2. A!Return(aCall.outcome) /\ UNCHANGED ring /\ aCall.outcome \in {"none", "evidence", "refused"}
      BY <1>5 DEF A!Offer, A!agentVars, AgentInv
    <2> QED BY <2>1, <2>2, ReturnKeeps, Zenon DEF Goes
  <1>6. CASE A!FindKey
    <2>1. CASE A!Fail
      BY <2>1, FailKeeps
    <2>2. CASE \E n \in A!First(aCall.keys) : A!AskToSign(aCall.keys[n])
      <3>1. PICK n \in A!First(aCall.keys) : A!AskToSign(aCall.keys[n])
        BY <2>2
      <3>2. n \in DOMAIN aCall.keys /\ A!Names(aCall.path, aCall.keys[n])
        BY <3>1, Zenon DEF A!First
      <3>3. /\ aCall.pc = "find" /\ aCall.path \in A!AgentPaths
            /\ aCall.path # Nothing
            /\ aCall.path.source = "did:key" => A!Provable(aCall.path.of)
        BY <1>6, Zenon DEF A!FindKey, AgentInv
      <3>4. A!Holds(aCall.keys, aCall.path)
        BY <3>2, <3>3, NamedIsHeld, ZenonT(60)
      <3>5. resident
        BY <3>3, <3>4 DEF AgentInv
      <3>6. /\ aCall'.pc = "sign" /\ aCall'.path = aCall.path /\ aCall'.outcome = aCall.outcome
            /\ DOMAIN aCall' = {"pc", "path", "keys", "blob", "sig", "outcome"}
            /\ UNCHANGED <<ring, resident>>
        BY <3>1, SMTT(60) DEF A!AskToSign, A!agentVars, AgentInv
      <3>7. AgentInv'
        BY <3>3, <3>5, <3>6, GoesOnKeeps
      <3> QED BY <3>6, <3>7 DEF Goes
    <2> QED BY <1>6, <2>1, <2>2, Zenon DEF A!FindKey
  <1>7. CASE A!Sign
    <2>1. CASE A!Fail
      BY <2>1, FailKeeps
    <2>2. CASE \E s : aCall' = [aCall EXCEPT !.pc = "verify", !.sig = s]
                       /\ UNCHANGED <<A!agentVars, resident>>
      <3>1. /\ aCall'.pc = "verify" /\ aCall'.path = aCall.path /\ aCall'.outcome = aCall.outcome
            /\ DOMAIN aCall' = {"pc", "path", "keys", "blob", "sig", "outcome"}
            /\ UNCHANGED <<ring, resident>>
        BY <2>2 DEF A!agentVars, AgentInv
      <3>2. /\ resident /\ aCall.path # Nothing
            /\ aCall.path.source = "did:key" => A!Provable(aCall.path.of)
        BY <1>7, Zenon DEF A!Sign, AgentInv
      <3>3. AgentInv'
        BY <3>1, <3>2, GoesOnKeeps
      <3> QED BY <3>1, <3>3 DEF Goes
    <2> QED BY <1>7, <2>1, <2>2, ZenonT(60) DEF A!Sign
  <1>8. CASE A!Verify
    <2>1. aCall.path # Nothing /\ resident
      BY <1>8 DEF A!Verify, AgentInv
    <2>2. PICK outcome \in {"evidence", "refused"} : A!Return(outcome)
      BY <1>8 DEF A!Verify
    <2>3. UNCHANGED ring
      BY <1>8 DEF A!Verify, A!agentVars
    <2> QED BY <2>1, <2>2, <2>3, ReturnKeeps, ZenonT(60) DEF Ends
  <1> QED BY <1>2, <1>3, <1>4, <1>5, <1>6, <1>7, <1>8, Zenon DEF A!Step

\* The agent gains or loses keys, or stops: what it holds by then is resident.
LEMMA MoveKeeps ==
  ASSUME AgentInv, NEW keys \in Seq(Blobs), A!Move(keys)
  PROVE  AgentInv' /\ UNCHANGED aCall
  BY Zenon DEF A!Move, AgentInv

\* The three changes of the agent are moves to a list of its keys.
LEMMA AgentMoves ==
  ASSUME AgentInv, A!AddKey \/ A!RemoveKey \/ A!StopOrStart
  PROVE  \E keys \in Seq(Blobs) : A!Move(keys)
  <1>1. CASE A!AddKey
    <2>1. PICK b \in Blobs : A!Move(Append(ring, b))
      BY <1>1, SMTT(60) DEF A!AddKey
    <2>2. Append(ring, b) \in Seq(Blobs)
      BY DEF AgentInv
    <2> QED BY <2>1, <2>2, Zenon
  <1>2. CASE A!RemoveKey
    <2>1. PICK n \in DOMAIN ring : A!Move(A!Retain(ring, DOMAIN ring \ {n}))
      BY <1>2, Zenon DEF A!RemoveKey
    <2>2. ring \in Seq(Blobs)
      BY DEF AgentInv
    <2>3. A!Retain(ring, DOMAIN ring \ {n}) \in Seq(Blobs)
      BY <2>2, RetainsAlike, RetainIs, ZenonT(60)
    <2> QED BY <2>1, <2>3, Zenon
  <1>3. CASE A!StopOrStart
    BY <1>3 DEF A!StopOrStart, AgentInv
  <1> QED BY <1>1, <1>2, <1>3

\* enumerate begins a call without a subject.
LEMMA EnumerateKeeps ==
  ASSUME AgentInv, A!Enumerate
  PROVE  AgentInv' /\ UNCHANGED ring /\ Goes
  <1>1. aCall.pc = "idle" /\ aCall' = [aCall EXCEPT !.pc = "connect"] /\ UNCHANGED <<ring, resident>>
    BY DEF A!Enumerate, A!Goto, A!agentVars
  <1>2. /\ aCall'.pc = "connect" /\ aCall'.path = aCall.path /\ aCall'.outcome = aCall.outcome
        /\ DOMAIN aCall' = {"pc", "path", "keys", "blob", "sig", "outcome"}
    BY <1>1 DEF AgentInv
  <1>3. aCall.path = Nothing
    BY <1>1 DEF AgentInv
  <1>4. AgentInv'
    BY <1>1, <1>2, <1>3, GoesOnKeeps
  <1> QED BY <1>1, <1>2, <1>4 DEF Goes

\* prove begins a call on its candidate.
LEMMA ProveKeeps ==
  ASSUME AgentInv, NEW path \in A!AgentPaths, A!Prove(path)
  PROVE  /\ AgentInv' /\ UNCHANGED ring
         /\ aCall.path = Nothing
         /\ aCall'.path = path /\ aCall'.outcome = "none" /\ resident' = A!Holds(ring, path)
  <1>1. /\ aCall.pc = "idle" /\ UNCHANGED ring /\ resident' = A!Holds(ring, path)
        /\ aCall' = [A!NoCall EXCEPT !.path = path,
                       !.pc = IF path.source = "did:key" THEN "did" ELSE "connect"]
    BY DEF A!Prove, A!agentVars
  <1>2. /\ aCall'.pc = IF path.source = "did:key" THEN "did" ELSE "connect"
        /\ aCall'.path = path /\ aCall'.outcome = "none"
        /\ DOMAIN aCall' = {"pc", "path", "keys", "blob", "sig", "outcome"}
    BY <1>1 DEF A!NoCall
  <1>3. resident' \in BOOLEAN
    BY <1>1 DEF A!Holds
  <1>4. path # Nothing
    BY NothingAssumption
  <1>5. aCall.path = Nothing
    BY <1>1 DEF AgentInv
  <1>6. AgentInv'
    BY <1>1, <1>2, <1>3, <1>4 DEF AgentInv
  <1> QED BY <1>1, <1>2, <1>5, <1>6

\* Every step keeps the invariant.
LEMMA AgentNext == AgentInv /\ [A!Next]_A!vars => AgentInv'
  <1> SUFFICES ASSUME AgentInv, [A!Next]_A!vars PROVE AgentInv'
    OBVIOUS
  <1>1. CASE A!AddKey \/ A!RemoveKey \/ A!StopOrStart
    BY <1>1, AgentMoves, MoveKeeps
  <1>2. CASE A!Enumerate
    BY <1>2, EnumerateKeeps
  <1>3. CASE \E path \in A!AgentPaths : A!Prove(path)
    BY <1>3, ProveKeeps
  <1>4. CASE A!Step
    BY <1>4, StepKeeps
  <1>5. CASE UNCHANGED A!vars
    BY <1>5, Zenon DEF A!vars, A!agentVars, AgentInv
  <1> QED BY <1>1, <1>2, <1>3, <1>4, <1>5, Zenon DEF A!Next

\* ssh-agent and did:key promise what every source promises: whatever keys come
\* and go and whatever the agent answers, evidence is of an identity that the
\* agent held at some moment of the very call that answers with it.
THEOREM AgentRefinesProver == A!Spec => AgentImplementsProver
  <1> DEFINE held == {path \in A!AgentPaths : A!Holds(ring, path)}
  <1>1. A!Init => A!P!Init
    BY DEF A!Init, A!P!Init, A!NoCall
  <1>2. AgentInv /\ [A!Next]_A!vars => [A!P!Next]_A!P!vars
    <2> SUFFICES ASSUME AgentInv, [A!Next]_A!vars PROVE [A!P!Next]_A!P!vars
      OBVIOUS
    <2>1. ASSUME UNCHANGED ring, Goes
          PROVE  UNCHANGED A!P!vars
      BY <2>1 DEF Goes, A!P!vars
    <2>2. CASE A!AddKey \/ A!RemoveKey \/ A!StopOrStart
      <3>1. PICK keys \in Seq(Blobs) : A!Move(keys)
        BY <2>2, AgentMoves
      <3>2. /\ ring' = keys /\ UNCHANGED aCall
            /\ resident' = (resident \/ (aCall.path # Nothing /\ A!Holds(keys, aCall.path)))
        BY <3>1, ZenonT(60) DEF A!Move
      <3>3. resident' = (resident \/ aCall.path \in held')
        BY <3>2, NothingAssumption DEF AgentInv
      <3> QED BY <3>2, <3>3 DEF A!P!Next, A!P!Change
    <2>3. CASE A!Enumerate
      BY <2>3, <2>1, EnumerateKeeps
    <2>4. CASE \E path \in A!AgentPaths : A!Prove(path)
      <3>1. PICK path \in A!AgentPaths : A!Prove(path)
        BY <2>4
      <3>2. /\ UNCHANGED ring /\ aCall.path = Nothing
            /\ aCall'.path = path /\ aCall'.outcome = "none" /\ resident' = A!Holds(ring, path)
        BY <3>1, ProveKeeps
      <3>3. resident' = (aCall'.path \in held)
        <4>1. A!Holds(ring, path) \in BOOLEAN
          BY DEF A!Holds
        <4>2. (path \in held) <=> A!Holds(ring, path)
          OBVIOUS
        <4> HIDE DEF held
        <4> QED BY <3>2, <4>1, <4>2
      <3> QED BY <3>2, <3>3 DEF A!P!Next, A!P!Begin
    <2>5. CASE A!Step
      <3>1. UNCHANGED ring /\ (Ends \/ Goes)
        BY <2>5, StepKeeps
      <3>2. CASE Ends
        BY <3>1, <3>2 DEF Ends, A!P!Next, A!P!Prove, A!P!Refuse
      <3>3. CASE Goes
        BY <3>1, <3>3, <2>1, SMTT(60)
      <3> QED BY <3>1, <3>2, <3>3
    <2>6. CASE UNCHANGED A!vars
      BY <2>6 DEF A!vars, A!agentVars, A!P!vars
    <2> QED BY <2>2, <2>3, <2>4, <2>5, <2>6, ZenonT(60) DEF A!Next
  <1> QED BY <1>1, <1>2, AgentInit, AgentNext, PTL
          DEF A!Spec, AgentImplementsProver, A!AgentImplementsProver, A!P!Spec
-----------------------------------------------------------------------------
(* An agent that is left alone and willing.                                *)

\* While the agent is left alone, what it listed is what it holds and what it
\* signed is this call's challenge; the key it is asked for is always an ed25519
\* one that the candidate names.
AgentCalm ==
    /\ aCall.pc = "did" => aCall.path.source = "did:key"
    /\ aCall.pc = "find" /\ aCalm => aCall.keys = ring
    /\ aCall.pc \in {"sign", "verify"} =>
          aCall.blob.alg = A!Ed25519 /\ A!Names(aCall.path, aCall.blob)
    /\ aCall.pc = "verify" /\ aCalm => aCall.sig = A!Signature(aCall.blob)

\* What a signature says.
LEMMA SignatureIs ==
  ASSUME NEW b, NEW s, s = A!Signature(b)
  PROVE  s.alg = b.alg /\ s.point = b.point /\ s.over = aCalls /\ s.whole
  BY DEF A!Signature

\* A call that has not come to its key has nothing to keep.
LEMMA EarlyIsCalm ==
  ASSUME aCall'.pc \notin {"did", "find", "sign", "verify"}
  PROVE  AgentCalm'
  BY DEF AgentCalm

\* An error ends the call.
LEMMA FailIsCalm ==
  ASSUME A!Fail
  PROVE  aCall'.pc = "idle"
  BY DEF A!Fail, A!Return, A!NoCall

\* Every step keeps it.
LEMMA CalmNext == AgentInv /\ AgentCalm /\ [A!Next]_A!vars => AgentCalm'
  <1> SUFFICES ASSUME AgentInv, AgentCalm, [A!Next]_A!vars PROVE AgentCalm'
    OBVIOUS
  <1>1. ASSUME NEW to \in {"connect", "list"}, A!Goto(to) PROVE AgentCalm'
    BY <1>1, EarlyIsCalm DEF A!Goto, AgentInv
  <1>2. CASE A!AddKey \/ A!RemoveKey \/ A!StopOrStart
    <2>1. PICK keys \in Seq(Blobs) : A!Move(keys)
      BY <1>2, AgentMoves
    <2>2. UNCHANGED aCall /\ aCalm' = FALSE
      BY <2>1, Zenon DEF A!Move
    <2> QED BY <2>2, Zenon DEF AgentCalm
  <1>3. CASE A!Enumerate
    BY <1>1, <1>3 DEF A!Enumerate
  <1>4. CASE \E path \in A!AgentPaths : A!Prove(path)
    <2>1. PICK path \in A!AgentPaths : A!Prove(path)
      BY <1>4
    <2>2. aCall'.pc = (IF path.source = "did:key" THEN "did" ELSE "connect") /\ aCall'.path = path
      BY <2>1 DEF A!Prove, A!NoCall
    <2> QED BY <2>2 DEF AgentCalm
  <1>5. CASE A!Fail
    BY <1>5, FailIsCalm, EarlyIsCalm
  <1>6. CASE A!ReadDidKeys \/ A!Connect
    BY <1>1, <1>5, <1>6, ZenonT(60) DEF A!ReadDidKeys, A!Connect
  <1>7. CASE A!ListIdentities /\ ~A!Fail
    <2>1. PICK n \in 0..Len(ring) :
             /\ aCall' = [aCall EXCEPT !.pc = IF aCall.path = Nothing THEN "listed" ELSE "find",
                                     !.keys = SubSeq(ring, 1, n)]
             /\ aCalm' = (aCalm /\ n = Len(ring))
      BY <1>7, Zenon DEF A!ListIdentities
    <2>2. UNCHANGED ring
      BY <1>7, Zenon DEF A!ListIdentities, A!agentVars
    <2>3. /\ aCall'.pc = IF aCall.path = Nothing THEN "listed" ELSE "find"
          /\ aCall'.keys = SubSeq(ring, 1, n)
      BY <2>1, ZenonT(60) DEF AgentInv
    <2>4. ring \in Seq(Blobs)
      BY DEF AgentInv
    <2>5. SubSeq(ring, 1, Len(ring)) = ring
      BY <2>4
    <2>6. aCalm' => aCall'.keys = ring
      BY <2>1, <2>3, <2>5, Zenon
    <2> QED BY <2>2, <2>3, <2>6 DEF AgentCalm
  <1>8. CASE A!Offer
    BY <1>8, EarlyIsCalm DEF A!Offer, A!Return, A!NoCall
  <1>9. CASE A!FindKey /\ ~A!Fail
    <2>1. PICK n \in A!First(aCall.keys) :
             aCall.keys[n].alg = A!Ed25519 /\ A!AskToSign(aCall.keys[n])
      BY <1>9, Zenon DEF A!FindKey
    <2>2. A!Names(aCall.path, aCall.keys[n])
      BY <2>1 DEF A!First
    <2>3. aCall'.pc = "sign" /\ aCall'.blob = aCall.keys[n] /\ aCall'.path = aCall.path
      BY <2>1 DEF A!AskToSign, AgentInv
    <2> QED BY <2>1, <2>2, <2>3, Zenon DEF AgentCalm, A!Names, A!KeyPath, A!Ed25519PointOf
  <1>10. CASE A!Sign /\ ~A!Fail
    <2>1. PICK s : /\ aCall' = [aCall EXCEPT !.pc = "verify", !.sig = s]
                   /\ aCalm' => s = A!Signature(aCall.blob)
                   /\ UNCHANGED aCalls
      BY <1>10, Zenon DEF A!Sign
    <2>2. /\ aCall'.pc = "verify" /\ aCall'.blob = aCall.blob /\ aCall'.path = aCall.path
          /\ aCall'.sig = s
      BY <2>1 DEF AgentInv
    <2>3. aCall.blob.alg = A!Ed25519 /\ A!Names(aCall.path, aCall.blob)
      BY <1>10, Zenon DEF A!Sign, AgentCalm
    <2>4. A!Names(aCall.path, aCall.blob)' /\ A!Signature(aCall.blob)' = A!Signature(aCall.blob)
      BY <2>1, <2>2, <2>3, Zenon DEF A!Names, A!KeyPath, A!Ed25519PointOf, A!Signature
    <2> QED BY <2>1, <2>2, <2>3, <2>4 DEF AgentCalm
  <1>11. CASE A!Verify
    BY <1>11, EarlyIsCalm, Zenon DEF A!Verify, A!Return, A!NoCall
  <1>12. CASE UNCHANGED A!vars
    BY <1>12, Zenon DEF A!vars, A!agentVars, AgentCalm, A!Names, A!KeyPath, A!Ed25519PointOf, A!Signature
  <1> QED BY <1>2, <1>3, <1>4, <1>5, <1>6, <1>7, <1>8, <1>9, <1>10, <1>11, <1>12, Zenon
          DEF A!Next, A!Step

\* An identity that the agent can prove: it holds the key, and the key is an
\* ed25519 one.
CanProve(path) ==
    /\ path # Nothing /\ A!Holds(ring, path)
    /\ path.source = "ssh-agent" => A!Ed25519PointOf(path.of) # Nothing

\* Such an identity names a key of the agent, and every key it names will do.
LEMMA ProvableIsNamed ==
  ASSUME AgentInv, NEW path \in A!AgentPaths, CanProve(path)
  PROVE  /\ \E n \in DOMAIN ring : A!Names(path, ring[n])
         /\ path.source \in {"ssh-agent", "did:key"}
         /\ path.source = "did:key" => path = A!DidPath(path.of) /\ A!Provable(path.of)
         /\ \A b : A!Names(path, b) =>
               /\ b.alg = A!Ed25519
               /\ path.source = "ssh-agent" =>
                     path = A!KeyPath(b) /\ A!Ed25519PointOf(b) # Nothing
               /\ path.source = "did:key" => b.point = path.of.point
  <1>1. PICK n \in DOMAIN ring :
           \/ path = A!KeyPath(ring[n])
           \/ \E d \in DidKeys : /\ path = A!DidPath(d) /\ A!Provable(d)
                               /\ A!Ed25519PointOf(ring[n]) = d.point
    BY Zenon DEF CanProve, A!Holds
  <1>2. CASE path = A!KeyPath(ring[n])
    <2>1. path.source = "ssh-agent" /\ path.of = ring[n]
      BY <1>2, Zenon DEF A!KeyPath
    <2>2. A!Names(path, ring[n])
      BY <1>2, <2>1, Zenon DEF A!Names
    <2>3. ASSUME NEW b, A!Names(path, b) PROVE b = path.of /\ path = A!KeyPath(b)
      BY <2>1, <2>3, SMTT(60) DEF A!Names, A!KeyPath
    <2>4. A!Ed25519PointOf(path.of) # Nothing /\ path.of.alg = A!Ed25519
      BY <2>1 DEF CanProve, A!Ed25519PointOf
    <2> QED BY <2>1, <2>2, <2>3, <2>4, Zenon
  <1>3. CASE \E d \in DidKeys : /\ path = A!DidPath(d) /\ A!Provable(d)
                              /\ A!Ed25519PointOf(ring[n]) = d.point
    <2>1. PICK d \in DidKeys : /\ path = A!DidPath(d) /\ A!Provable(d)
                               /\ A!Ed25519PointOf(ring[n]) = d.point
      BY <1>3
    <2>2. path.source = "did:key" /\ path.of = d
      BY <2>1 DEF A!DidPath
    <2>3. A!Names(path, ring[n])
      BY <2>1, <2>2, Zenon DEF A!Names
    <2>4. ASSUME NEW b, A!Names(path, b)
          PROVE  b.alg = A!Ed25519 /\ b.point = path.of.point
      <3>1. A!Ed25519PointOf(b) = d.point /\ d.point # Nothing
        BY <2>1, <2>2, <2>4 DEF A!Names, A!Provable
      <3> QED BY <2>2, <3>1 DEF A!Ed25519PointOf
    <2> QED BY <2>1, <2>2, <2>3, <2>4, ZenonT(60)
  <1> QED BY <1>1, <1>2, <1>3, Zenon

\* The first of the keys that are named is one that the code looks for.
LEMMA NamedHasFirst ==
  ASSUME AgentInv, NEW n \in DOMAIN ring, A!Names(aCall.path, ring[n])
  PROVE  A!First(ring) # {}
  <1> DEFINE S == {m \in DOMAIN ring : A!Names(aCall.path, ring[m])}
  <1>1. ring \in Seq(Blobs)
    BY DEF AgentInv
  <1>2. DOMAIN ring = 1..Len(ring) /\ Len(ring) \in Nat
    BY <1>1
  <1>3. S \in SUBSET Nat /\ S # {}
    BY <1>2
  <1>4. Min(S) \in S /\ \A m \in S : Min(S) <= m
    BY <1>3, MinOfNat, Zenon
  <1>5. PICK f : f = Min(S)
    BY Zenon
  <1>6. /\ f \in DOMAIN ring /\ A!Names(aCall.path, ring[f])
        /\ \A m \in DOMAIN ring : A!Names(aCall.path, ring[m]) => f <= m
    BY <1>4, <1>5, Zenon
  <1>7. \A m \in 1..f - 1 : ~A!Names(aCall.path, ring[m])
    <2> SUFFICES ASSUME NEW m \in 1..f - 1, A!Names(aCall.path, ring[m]) PROVE FALSE
      OBVIOUS
    <2>1. m \in DOMAIN ring /\ ~(f <= m)
      BY <1>2, <1>6
    <2> QED BY <2>1, <1>6, Zenon
  <1> QED BY <1>6, <1>7, ZenonT(60) DEF A!First

\* What WillingAgentProves says of a step.
AgentProves ==
    /\ aCalm' /\ aCall.pc # "idle" /\ aCall'.pc = "idle" /\ aCall.path # Nothing /\ up
    /\ A!Holds(ring, aCall.path)
    /\ aCall.path.source = "ssh-agent" => A!Ed25519PointOf(aCall.path.of) # Nothing
    => aCall'.outcome = "evidence"

\* prove answers with evidence for every identity that the agent can prove, if the
\* agent was up, kept its keys and did what it was asked for during the call.
THEOREM UndisturbedAgentProves == A!Spec => WillingAgentProves
  <1>1. A!Init => AgentCalm
    <2> SUFFICES ASSUME A!Init PROVE AgentCalm
      OBVIOUS
    <2>1. aCall.pc = "idle"
      BY Zenon DEF A!Init, A!NoCall
    <2>2. aCall.pc \notin {"did", "find", "sign", "verify"}
      BY <2>1, Zenon
    <2> QED BY <2>2, Zenon DEF AgentCalm
  <1>2. AgentInv /\ AgentCalm /\ [A!Next]_A!vars => [AgentProves]_A!vars
    <2> SUFFICES ASSUME AgentInv, AgentCalm, A!Next,
                        aCalm', aCall.pc # "idle", aCall'.pc = "idle", up, CanProve(aCall.path)
                 PROVE  aCall'.outcome = "evidence"
      BY DEF AgentProves, CanProve
    <2>1. aCall.path \in A!AgentPaths
      BY DEF AgentInv, CanProve
    <2>2. /\ \E n \in DOMAIN ring : A!Names(aCall.path, ring[n])
          /\ aCall.path.source \in {"ssh-agent", "did:key"}
          /\ aCall.path.source = "did:key" =>
                aCall.path = A!DidPath(aCall.path.of) /\ A!Provable(aCall.path.of)
          /\ \A b : A!Names(aCall.path, b) =>
                /\ b.alg = A!Ed25519
                /\ aCall.path.source = "ssh-agent" =>
                      aCall.path = A!KeyPath(b) /\ A!Ed25519PointOf(b) # Nothing
                /\ aCall.path.source = "did:key" => b.point = aCall.path.of.point
      BY <2>1, ProvableIsNamed, Zenon
    <2>3. CASE A!AddKey \/ A!RemoveKey \/ A!StopOrStart
      BY <2>3, AgentMoves, MoveKeeps, Zenon
    <2>4. CASE A!Enumerate \/ \E path \in A!AgentPaths : A!Prove(path)
      BY <2>4, Zenon DEF A!Enumerate, A!Prove
    <2>5. ASSUME NEW to \in {"connect", "list"}, A!Goto(to) PROVE FALSE
      BY <2>5 DEF A!Goto, AgentInv
    <2>6. CASE A!ReadDidKeys
      <3>1. aCall.pc = "did" /\ ~A!Provable(aCall.path.of)
        BY <2>5, <2>6, Zenon DEF A!ReadDidKeys
      <3>2. aCall.path.source = "did:key"
        BY <3>1, Zenon DEF AgentCalm
      <3> QED BY <2>2, <3>1, <3>2, Zenon
    <2>7. CASE A!Connect
      BY <2>5, <2>7, Zenon DEF A!Connect
    <2>8. CASE A!ListIdentities
      <3>1. PICK to \in {"listed", "find"} : \E l : aCall' = [aCall EXCEPT !.pc = to, !.keys = l]
        BY <2>8, ZenonT(60) DEF A!ListIdentities
      <3> QED BY <3>1 DEF AgentInv
    <2>9. CASE A!Offer
      BY <2>9, Zenon DEF A!Offer, AgentInv, CanProve
    <2>10. CASE A!FindKey
      <3>1. CASE \E n \in A!First(aCall.keys) : A!AskToSign(aCall.keys[n])
        BY <3>1 DEF A!AskToSign, AgentInv
      <3>2. CASE UNCHANGED aCalm /\ \A n \in A!First(aCall.keys) : aCall.keys[n].alg # A!Ed25519
        <4>1. aCall.keys = ring
          BY <2>10, <3>2, Zenon DEF A!FindKey, AgentCalm
        <4>2. PICK n \in A!First(ring) : TRUE
          BY <2>2, NamedHasFirst, Zenon
        <4>3. A!Names(aCall.path, ring[n])
          BY <4>2, Zenon DEF A!First
        <4> QED BY <2>2, <3>2, <4>1, <4>2, <4>3, Zenon
      <3> QED BY <2>10, <3>1, <3>2, Zenon DEF A!FindKey
    <2>11. CASE A!Sign
      <3>1. PICK s : aCall' = [aCall EXCEPT !.pc = "verify", !.sig = s]
        BY <2>11, Zenon DEF A!Sign
      <3> QED BY <3>1 DEF AgentInv
    <2>12. CASE A!Verify
      <3>1. /\ aCall.pc = "verify" /\ UNCHANGED aCalm
            /\ A!Return(IF A!Verified THEN "evidence" ELSE "refused")
        BY <2>12, Zenon DEF A!Verify
      <3>2. /\ aCall.sig = A!Signature(aCall.blob) /\ A!Names(aCall.path, aCall.blob)
            /\ aCall.blob.alg = A!Ed25519
        BY <3>1, ZenonT(60) DEF AgentCalm
      <3>3. /\ aCall.sig.alg = A!Ed25519 /\ aCall.sig.point = aCall.blob.point
            /\ aCall.sig.over = aCalls /\ aCall.sig.whole
        BY <3>2, SignatureIs, Zenon
      <3>4. A!Verified
        BY <2>2, <3>2, <3>3, Zenon
           DEF A!Verified, A!VerifySshEd25519, A!VerifyDidKeyEd25519
      <3> QED BY <3>1, <3>4 DEF A!Return, A!NoCall
    <2> QED BY <2>3, <2>4, <2>6, <2>7, <2>8, <2>9, <2>10, <2>11, <2>12, Zenon
            DEF A!Next, A!Step
  <1> QED BY <1>1, <1>2, AgentInit, AgentNext, CalmNext, PTL
          DEF A!Spec, WillingAgentProves, A!WillingAgentProves, AgentProves
=============================================================================
