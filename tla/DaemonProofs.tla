---------------------------- MODULE DaemonProofs ----------------------------
(***************************************************************************)
(* The daemon's socket and the clients that ask through it: what NativeHost,   *)
(* HireCli and Daemon keep, for any number of frames, of words on a line and    *)
(* of daemons.                                                             *)
(***************************************************************************)
EXTENDS Daemon, Clients, TLAPS

-----------------------------------------------------------------------------
(* The stream of frames.                                                   *)

\* The u-th unit of a frame on the wire, and how many it has.
Unit(f, u) == [unit |-> IF u <= 2 THEN "len" ELSE "body", of |-> f]
Size(f) == 2 + f.len
Units == [unit : {"len", "body"}, of : N!Frames]

\* Line holds, after its first base units, the frames from the one at from on, and
\* then at most the start of another: o says where each starts, and rest is what
\* is cut short.
Laid(line, frames, from, base, isOpen, o, rest) ==
    /\ line \in Seq(Units) /\ frames \in Seq(N!Frames)
    /\ from \in 1..(Len(frames) + 1) /\ base \in Nat
    /\ o \in [from..(Len(frames) + 1) -> Nat] /\ o[from] = base
    /\ \A j, k \in from..(Len(frames) + 1) : j <= k => o[j] <= o[k]
    /\ \A k \in from..Len(frames) : o[k + 1] = o[k] + Size(frames[k])
    /\ \A k \in from..Len(frames) : \A u \in 1..Size(frames[k]) : line[o[k] + u] = Unit(frames[k], u)
    /\ rest \in N!Frames
    /\ o[Len(frames) + 1] <= Len(line) /\ Len(line) < o[Len(frames) + 1] + Size(rest)
    /\ \A u \in 1..(Len(line) - o[Len(frames) + 1]) : line[o[Len(frames) + 1] + u] = Unit(rest, u)
    /\ isOpen => Len(line) = o[Len(frames) + 1]

Stream(line, frames, from, base, isOpen) ==
    \E o, rest : Laid(line, frames, from, base, isOpen, o, rest)

\* List u is s and then t.
Appended(s, t, u) ==
    /\ Len(s) \in Nat /\ Len(t) \in Nat /\ Len(u) = Len(s) + Len(t)
    /\ \A k \in 1..Len(s) : u[k] = s[k]
    /\ \A k \in 1..Len(t) : u[Len(s) + k] = t[k]

\* What concatenation does.
LEMMA AppendedIs ==
    ASSUME NEW T, NEW s \in Seq(T), NEW t \in Seq(T)
    PROVE  s \o t \in Seq(T) /\ Appended(s, t, s \o t)
  BY DEF Appended

\* What a frame is on the wire.
LEMMA WireIs ==
    ASSUME NEW f \in N!Frames
    PROVE  /\ f.len \in Nat /\ Size(f) \in Nat /\ Size(f) >= 2
           /\ N!Wire(f) \in Seq(Units) /\ Len(N!Wire(f)) = Size(f)
           /\ \A u \in 1..Size(f) : N!Wire(f)[u] = Unit(f, u) /\ Unit(f, u) \in Units
           /\ f.len = 0 => f.what = "invalid"
           /\ f.what \in {"status", "fetch", "invalid"}
  <1> DEFINE n == f.len
             head == <<[unit |-> "len", of |-> f], [unit |-> "len", of |-> f]>>
             body == [i \in 1..n |-> [unit |-> "body", of |-> f]]
  <1>1. n \in Nat /\ (n = 0 => f.what = "invalid") /\ f.what \in {"status", "fetch", "invalid"}
    BY RequestAssumption DEF N!Frames
  <1>2. N!Wire(f) = head \o body
    BY DEF N!Wire
  <1>3. head \in Seq(Units) /\ Len(head) = 2 /\ head[1] = Unit(f, 1) /\ head[2] = Unit(f, 2)
    BY DEF Unit, Units
  <1>4. body \in Seq(Units) /\ Len(body) = n
    <2>1. [unit |-> "body", of |-> f] \in Units
      BY DEF Units
    <2> QED BY <1>1, <2>1
  <1>5. \A i \in 1..n : body[i] = Unit(f, i + 2)
    BY <1>1 DEF Unit
  <1>6. Size(f) = 2 + n
    BY DEF Size
  <1>7. \A u : Unit(f, u) \in Units
    BY DEF Unit, Units
  <1> HIDE DEF n, head, body
  <1>8. head \o body \in Seq(Units) /\ Len(head \o body) = 2 + n
        /\ (\A k \in 1..2 : (head \o body)[k] = head[k])
        /\ (\A k \in 1..n : (head \o body)[2 + k] = body[k])
    <2>1. head \o body \in Seq(Units) /\ Appended(head, body, head \o body)
      BY <1>3, <1>4, AppendedIs, Zenon
    <2> QED BY <1>3, <1>4, <2>1 DEF Appended
  <1>9. ASSUME NEW u \in 1..(2 + n) PROVE (head \o body)[u] = Unit(f, u)
    <2>1. CASE u \in {1, 2}
      BY <1>3, <1>8, <2>1
    <2>2. CASE u > 2
      <3>1. u - 2 \in 1..n /\ (u - 2) + 2 = u /\ 2 + (u - 2) = u
        BY <1>1, <2>2
      <3>2. (head \o body)[u] = body[u - 2]
        BY <1>8, <3>1
      <3> QED BY <1>5, <3>1, <3>2
    <2>3. u \in {1, 2} \/ u > 2
      BY <1>1
    <2> QED BY <2>1, <2>2, <2>3, Zenon
  <1> QED BY <1>1, <1>2, <1>6, <1>7, <1>8, <1>9 DEF n

\* A frame is written: it is the last of the stream.
LEMMA FrameSent ==
    ASSUME NEW line, NEW frames, NEW from, NEW base, NEW f \in N!Frames,
           Stream(line, frames, from, base, TRUE)
    PROVE  Stream(line \o N!Wire(f), Append(frames, f), from, base, TRUE)
  <1>1. PICK o, rest : Laid(line, frames, from, base, TRUE, o, rest)
    BY Zenon DEF Stream
  <1> DEFINE L == Len(frames)
             w == N!Wire(f)
             size == Size(f)
             more == Append(frames, f)
             on == line \o w
             p == [k \in from..(L + 2) |-> IF k = L + 2 THEN o[L + 1] + size ELSE o[k]]
  <1>2. /\ line \in Seq(Units) /\ frames \in Seq(N!Frames) /\ L \in Nat
        /\ from \in 1..(L + 1) /\ base \in Nat
        /\ o \in [from..(L + 1) -> Nat] /\ o[from] = base
        /\ \A j, k \in from..(L + 1) : j <= k => o[j] <= o[k]
    BY <1>1 DEF Laid
  <1>3. /\ \A k \in from..L : o[k + 1] = o[k] + Size(frames[k])
        /\ \A k \in from..L : \A u \in 1..Size(frames[k]) : line[o[k] + u] = Unit(frames[k], u)
        /\ Len(line) = o[L + 1]
    BY <1>1, Zenon DEF Laid
  <1>4. size \in Nat /\ size >= 2 /\ w \in Seq(Units) /\ Len(w) = size
        /\ \A u \in 1..size : w[u] = Unit(f, u)
    BY WireIs
  <1>5. more \in Seq(N!Frames) /\ Len(more) = L + 1 /\ more[L + 1] = f
        /\ \A k \in 1..L : more[k] = frames[k]
    BY <1>2
  <1> HIDE DEF L, w, size, more
  <1>6. on \in Seq(Units) /\ Len(on) = Len(line) + size
        /\ (\A n \in 1..Len(line) : on[n] = line[n])
        /\ (\A u \in 1..size : on[Len(line) + u] = w[u])
    <2>1. line \o w \in Seq(Units) /\ Appended(line, w, line \o w)
      BY <1>2, <1>4, AppendedIs, Zenon
    <2> QED BY <1>2, <1>4, <2>1 DEF Appended, on
  <1> HIDE DEF on
  <1>7. p \in [from..(L + 2) -> Nat] /\ p[from] = base
    BY <1>2, <1>4
  <1>8. (\A k \in from..(L + 1) : p[k] = o[k]) /\ p[L + 2] = o[L + 1] + size
    BY <1>2
  <1> HIDE DEF p
  <1>9. L + 1 \in from..(L + 1) /\ o[L + 1] \in Nat
    BY <1>2
  <1>10. \A j, k \in from..(L + 2) : j <= k => p[j] <= p[k]
    <2>1. \A k \in from..(L + 1) : o[k] \in Nat /\ o[k] <= o[L + 1]
      BY <1>2, <1>9
    <2>2. \A k \in from..(L + 2) : k \in from..(L + 1) \/ k = L + 2
      BY <1>2
    <2>3. ASSUME NEW j \in from..(L + 2), NEW k \in from..(L + 2), j <= k
          PROVE  p[j] <= p[k]
      <3>1. CASE k \in from..(L + 1)
        <4>1. j \in from..(L + 1)
          BY <1>2, <2>3, <3>1
        <4> QED BY <1>2, <1>8, <2>3, <3>1, <4>1
      <3>2. CASE k = L + 2 /\ j = L + 2
        BY <1>4, <1>8, <1>9, <3>2
      <3>3. CASE k = L + 2 /\ j \in from..(L + 1)
        BY <1>4, <1>8, <1>9, <2>1, <3>3
      <3> QED BY <2>2, <3>1, <3>2, <3>3
    <2> QED BY <2>3
  <1>11. \A k \in from..(L + 1) : p[k + 1] = p[k] + Size(more[k])
    <2> SUFFICES ASSUME NEW k \in from..(L + 1) PROVE p[k + 1] = p[k] + Size(more[k])
      OBVIOUS
    <2>1. CASE k = L + 1
      BY <1>2, <1>5, <1>8, <1>9, <2>1 DEF size
    <2>2. CASE k \in from..L
      <3>1. k \in from..(L + 1) /\ k + 1 \in from..(L + 1) /\ k \in 1..L
        BY <1>2, <2>2
      <3> QED BY <1>3, <1>5, <1>8, <2>2, <3>1
    <2> QED BY <1>2, <2>1, <2>2
  <1>12. \A k \in from..(L + 1) : \A u \in 1..Size(more[k]) : on[p[k] + u] = Unit(more[k], u)
    <2> SUFFICES ASSUME NEW k \in from..(L + 1), NEW u \in 1..Size(more[k])
                 PROVE  on[p[k] + u] = Unit(more[k], u)
      OBVIOUS
    <2>1. CASE k = L + 1
      <3>1. more[k] = f /\ u \in 1..size /\ p[k] = Len(line)
        BY <1>3, <1>5, <1>8, <1>9, <2>1 DEF size
      <3> QED BY <1>4, <1>6, <3>1
    <2>2. CASE k \in from..L
      <3>1. k \in from..(L + 1) /\ k + 1 \in from..(L + 1) /\ k \in 1..L
        BY <1>2, <2>2
      <3>2. more[k] = frames[k] /\ p[k] = o[k] /\ o[k] \in Nat /\ o[k + 1] = o[k] + Size(frames[k])
            /\ o[k + 1] <= o[L + 1]
        BY <1>2, <1>3, <1>5, <1>8, <1>9, <2>2, <3>1, SMTT(60)
      <3>3. frames[k] \in N!Frames
        BY <1>2, <3>1 DEF L
      <3>4. Size(frames[k]) \in Nat
        BY <3>3, WireIs
      <3>5. u \in 1..Size(frames[k])
        BY <3>2
      <3>6. o[k] + u \in 1..Len(line)
        BY <1>3, <1>9, <3>2, <3>4, <3>5, SMTT(60)
      <3>7. line[o[k] + u] = Unit(frames[k], u)
        BY <1>3, <2>2, <3>5
      <3> QED BY <1>6, <3>2, <3>6, <3>7
    <2> QED BY <1>2, <2>1, <2>2
  <1>13. Len(on) = p[L + 2] /\ p[L + 2] \in Nat
    BY <1>3, <1>4, <1>6, <1>8, <1>9
  <1>14. (L + 1) + 1 = L + 2 /\ Len(more) + 1 = L + 2 /\ from \in 1..(L + 2)
    BY <1>2, <1>5
  <1>15. Laid(on, more, from, base, TRUE, p, f)
    <2>1. Len(on) - p[L + 2] = 0 /\ Len(on) < p[L + 2] + size /\ 1..0 = {}
      BY <1>4, <1>13
    <2>2. /\ from \in 1..(Len(more) + 1)
          /\ p \in [from..(Len(more) + 1) -> Nat]
          /\ \A j, k \in from..(Len(more) + 1) : j <= k => p[j] <= p[k]
      BY <1>7, <1>10, <1>14, Zenon
    <2>3. /\ \A k \in from..Len(more) : p[k + 1] = p[k] + Size(more[k])
          /\ \A k \in from..Len(more) : \A u \in 1..Size(more[k]) : on[p[k] + u] = Unit(more[k], u)
      BY <1>5, <1>11, <1>12, Zenon
    <2>4. /\ p[Len(more) + 1] <= Len(on) /\ Len(on) = p[Len(more) + 1]
          /\ Len(on) < p[Len(more) + 1] + Size(f)
      BY <1>13, <1>14, <2>1 DEF size
    <2>5. \A u \in 1..(Len(on) - p[Len(more) + 1]) : on[p[Len(more) + 1] + u] = Unit(f, u)
      BY <1>14, <2>1, Zenon
    <2> QED BY <1>2, <1>5, <1>6, <1>7, <2>2, <2>3, <2>4, <2>5, Zenon DEF Laid
  <1> QED BY <1>15, Zenon DEF Stream, on, w, more
\* The browser goes, between two frames or inside one.
LEMMA StreamCloses ==
    ASSUME NEW line, NEW frames, NEW from, NEW base, Stream(line, frames, from, base, TRUE)
    PROVE  /\ Stream(line, frames, from, base, FALSE)
           /\ \A f \in N!Frames : \A n \in 1..(Size(f) - 1) :
                 Stream(line \o SubSeq(N!Wire(f), 1, n), frames, from, base, FALSE)
  <1>1. PICK o, rest : Laid(line, frames, from, base, TRUE, o, rest)
    BY Zenon DEF Stream
  <1>2. Laid(line, frames, from, base, FALSE, o, rest)
    BY <1>1, Zenon DEF Laid
  <1>3. ASSUME NEW f \in N!Frames, NEW n \in 1..(Size(f) - 1)
        PROVE  Stream(line \o SubSeq(N!Wire(f), 1, n), frames, from, base, FALSE)
    <2> DEFINE w == SubSeq(N!Wire(f), 1, n)
               on == line \o w
               L == Len(frames)
    <2>1. Size(f) \in Nat /\ N!Wire(f) \in Seq(Units) /\ Len(N!Wire(f)) = Size(f)
          /\ \A u \in 1..Size(f) : N!Wire(f)[u] = Unit(f, u)
      BY WireIs
    <2>2. w \in Seq(Units) /\ Len(w) = n /\ \A u \in 1..n : w[u] = Unit(f, u)
      BY <2>1
    <2>3. /\ line \in Seq(Units) /\ frames \in Seq(N!Frames) /\ L \in Nat
          /\ from \in 1..(L + 1) /\ base \in Nat
          /\ o \in [from..(L + 1) -> Nat] /\ o[from] = base
          /\ Len(line) = o[L + 1]
      BY <1>1 DEF Laid
    <2>4. /\ \A j, k \in from..(L + 1) : j <= k => o[j] <= o[k]
          /\ \A k \in from..L : o[k + 1] = o[k] + Size(frames[k])
          /\ \A k \in from..L : \A u \in 1..Size(frames[k]) : line[o[k] + u] = Unit(frames[k], u)
      BY <1>1, Zenon DEF Laid
    <2> HIDE DEF w, L
    <2>5. on \in Seq(Units) /\ Appended(line, w, on)
      BY <2>2, <2>3, AppendedIs, Zenon
    <2> HIDE DEF on
    <2>6. /\ Len(line) \in Nat /\ Len(on) = o[L + 1] + n
          /\ (\A k \in 1..Len(line) : on[k] = line[k])
          /\ (\A u \in 1..n : on[o[L + 1] + u] = Unit(f, u))
      BY <2>2, <2>3, <2>5 DEF Appended
    <2>7. ASSUME NEW k \in from..L, NEW u \in 1..Size(frames[k])
          PROVE  on[o[k] + u] = Unit(frames[k], u)
      <3>1. k \in from..(L + 1) /\ k + 1 \in from..(L + 1) /\ L + 1 \in from..(L + 1)
            /\ k \in 1..L /\ k + 1 <= L + 1
        BY <2>3
      <3>2. o[k] \in Nat /\ o[k + 1] = o[k] + Size(frames[k]) /\ o[k + 1] <= o[L + 1]
        BY <2>3, <2>4, <3>1
      <3>3. frames[k] \in N!Frames
        BY <2>3, <3>1 DEF L
      <3>4. Size(frames[k]) \in Nat
        BY <3>3, WireIs
      <3>5. o[k] + u \in 1..Len(line)
        <4>1. /\ o[k] + Size(frames[k]) <= Len(line) /\ Len(line) \in Nat
          BY <2>3, <2>6, <3>2
        <4> QED BY <3>2, <3>4, <4>1
      <3> QED BY <2>4, <2>6, <3>5
    <2>8. Laid(on, frames, from, base, FALSE, o, f)
      <3>1. o[L + 1] \in Nat
        BY <2>3
      <3>2. o[L + 1] <= Len(on) /\ Len(on) < o[L + 1] + Size(f) /\ Len(on) - o[L + 1] = n
        BY <2>1, <2>6, <3>1
      <3> QED BY <2>3, <2>4, <2>5, <2>6, <2>7, <3>2, Zenon DEF Laid, L
    <2> QED BY <2>8, Zenon DEF Stream, on, w
  <1> QED BY <1>2, <1>3, Zenon DEF Stream

\* The first frame of the stream, and the stream after it.
LEMMA FrameFirst ==
    ASSUME NEW line, NEW frames, NEW from, NEW base, NEW isOpen,
           Stream(line, frames, from, base, isOpen), from <= Len(frames)
    PROVE  /\ line \in Seq(Units) /\ base \in Nat /\ from \in 1..Len(frames)
           /\ frames[from] \in N!Frames
           /\ base + Size(frames[from]) <= Len(line)
           /\ \A u \in 1..Size(frames[from]) : line[base + u] = Unit(frames[from], u)
           /\ Stream(line, frames, from + 1, base + Size(frames[from]), isOpen)
  <1>1. PICK o, rest : Laid(line, frames, from, base, isOpen, o, rest)
    BY Zenon DEF Stream
  <1> DEFINE L == Len(frames)
             p == [k \in (from + 1)..(L + 1) |-> o[k]]
             next == base + Size(frames[from])
  <1>2. /\ line \in Seq(Units) /\ frames \in Seq(N!Frames) /\ L \in Nat
        /\ from \in 1..L /\ base \in Nat
        /\ o \in [from..(L + 1) -> Nat] /\ o[from] = base
    BY <1>1 DEF Laid
  <1>3. /\ \A j, k \in from..(L + 1) : j <= k => o[j] <= o[k]
        /\ \A k \in from..L : o[k + 1] = o[k] + Size(frames[k])
        /\ \A k \in from..L : \A u \in 1..Size(frames[k]) : line[o[k] + u] = Unit(frames[k], u)
        /\ rest \in N!Frames
        /\ o[L + 1] <= Len(line) /\ Len(line) < o[L + 1] + Size(rest)
        /\ \A u \in 1..(Len(line) - o[L + 1]) : line[o[L + 1] + u] = Unit(rest, u)
        /\ isOpen => Len(line) = o[L + 1]
    BY <1>1, Zenon DEF Laid
  <1>4. frames[from] \in N!Frames
    BY <1>2
  <1>5. Size(frames[from]) \in Nat
    BY <1>4, WireIs
  <1> HIDE DEF L
  <1>6. from \in from..L /\ from + 1 \in from..(L + 1) /\ L + 1 \in from..(L + 1)
        /\ L + 1 \in (from + 1)..(L + 1) /\ from + 1 \in (from + 1)..(L + 1) /\ from + 1 \in 1..(L + 1)
    BY <1>2
  <1>7. o[from + 1] = next /\ o[from + 1] <= o[L + 1] /\ o[L + 1] \in Nat
    BY <1>2, <1>3, <1>6
  <1>8. next <= Len(line)
    BY <1>2, <1>3, <1>5, <1>7
  <1>9. \A u \in 1..Size(frames[from]) : line[base + u] = Unit(frames[from], u)
    BY <1>2, <1>3, <1>6, Zenon
  <1>10. p \in [(from + 1)..(L + 1) -> Nat] /\ p[from + 1] = next /\ p[L + 1] = o[L + 1]
    BY <1>2, <1>6, <1>7
  <1>11. /\ \A k \in (from + 1)..(L + 1) : p[k] = o[k] /\ k \in from..(L + 1)
         /\ \A k \in (from + 1)..L : /\ k \in from..L /\ k \in (from + 1)..(L + 1)
                                     /\ k + 1 \in (from + 1)..(L + 1)
    BY <1>2
  <1> HIDE DEF p, next
  <1>12. \A j, k \in (from + 1)..(L + 1) : j <= k => p[j] <= p[k]
    BY <1>3, <1>11
  <1>13. \A k \in (from + 1)..L : p[k + 1] = p[k] + Size(frames[k])
    BY <1>3, <1>11
  <1>14. \A k \in (from + 1)..L : \A u \in 1..Size(frames[k]) : line[p[k] + u] = Unit(frames[k], u)
    BY <1>3, <1>11
  <1>15. next \in Nat
    BY <1>2, <1>5 DEF next
  <1>16. Laid(line, frames, from + 1, next, isOpen, p, rest)
    BY <1>2, <1>3, <1>6, <1>10, <1>12, <1>13, <1>14, <1>15, Zenon DEF Laid, L
  <1> QED BY <1>2, <1>4, <1>8, <1>9, <1>16, Zenon DEF Stream, next, L

\* With d units of n read, the u-th unit behind x is the u-th behind y.
Placed(x, y, d, n, u) == y + u \in 1..(n - d) /\ d + (y + u) = x + u

\* The u-th of z units behind x is the u-th behind x - d once d units are read.
LEMMA PlaceMoves ==
    ASSUME NEW x \in Nat, NEW z \in Nat, NEW d \in Nat, NEW n \in Nat, NEW u \in 1..z,
           d <= x, x + z <= n, NEW y, y = x - d
    PROVE  Placed(x, y, d, n, u)
  BY DEF Placed

\* Sequence r, over S, is what follows the first d elements of s.
Remains(S, s, d, r) ==
    r \in Seq(S) /\ Len(r) = Len(s) - d /\ \A n \in 1..(Len(s) - d) : r[n] = s[d + n]

\* What drops the first d elements leaves the others.
LEMMA RemainsIs ==
    ASSUME NEW S, NEW s \in Seq(S), NEW d \in Nat, d <= Len(s),
           NEW r, r = SubSeq(s, d + 1, Len(s))
    PROVE  Remains(S, s, d, r)
  <1>1. Len(s) \in Nat /\ d + 1 \in 1..(Len(s) + 1)
    OBVIOUS
  <1>2. Len(r) = Len(s) - d /\ \A n \in 1..(Len(s) - d) : r[n] = s[d + n]
    BY <1>1, SMTT(60)
  <1>3. r \in Seq(S)
    BY <1>1, SMTT(60)
  <1> QED BY <1>2, <1>3, Zenon DEF Remains

\* Reading the first d units leaves the stream after them.
LEMMA UnitsTaken ==
    ASSUME NEW line, NEW frames, NEW from, NEW base \in Nat, NEW d \in Nat, NEW isOpen,
           Stream(line, frames, from, d + base, isOpen)
    PROVE  Stream(SubSeq(line, d + 1, Len(line)), frames, from, base, isOpen)
  <1>1. PICK o, rest : Laid(line, frames, from, d + base, isOpen, o, rest)
    BY Zenon DEF Stream
  <1> DEFINE L == Len(frames)
             p == [k \in from..(L + 1) |-> o[k] - d]
             on == SubSeq(line, d + 1, Len(line))
  <1>2. /\ line \in Seq(Units) /\ frames \in Seq(N!Frames) /\ L \in Nat
        /\ from \in 1..(L + 1)
        /\ o \in [from..(L + 1) -> Nat] /\ o[from] = d + base
    BY <1>1 DEF Laid
  <1>3. /\ \A j, k \in from..(L + 1) : j <= k => o[j] <= o[k]
        /\ \A k \in from..L : o[k + 1] = o[k] + Size(frames[k])
        /\ \A k \in from..L : \A u \in 1..Size(frames[k]) : line[o[k] + u] = Unit(frames[k], u)
        /\ rest \in N!Frames
        /\ o[L + 1] <= Len(line) /\ Len(line) < o[L + 1] + Size(rest)
        /\ \A u \in 1..(Len(line) - o[L + 1]) : line[o[L + 1] + u] = Unit(rest, u)
        /\ isOpen => Len(line) = o[L + 1]
    BY <1>1, Zenon DEF Laid
  <1> HIDE DEF L
  <1>4. from \in from..(L + 1) /\ L + 1 \in from..(L + 1)
        /\ \A k \in from..(L + 1) : from <= k
    BY <1>2
  <1>5. \A k \in from..(L + 1) : o[k] \in Nat /\ d + base <= o[k] /\ o[k] <= o[L + 1]
    <2>1. \A k \in from..(L + 1) : k <= L + 1
      BY <1>2
    <2> QED BY <1>2, <1>3, <1>4, <2>1
  <1>6. Len(line) \in Nat /\ d <= Len(line)
    BY <1>2, <1>3, <1>4, <1>5
  <1>7. on \in Seq(Units) /\ Len(on) = Len(line) - d
        /\ \A n \in 1..(Len(line) - d) : on[n] = line[d + n]
    <2>1. Remains(Units, line, d, on)
      BY <1>2, <1>6, RemainsIs, Zenon
    <2> QED BY <2>1, Zenon DEF Remains
  <1>8. p \in [from..(L + 1) -> Nat] /\ \A k \in from..(L + 1) : p[k] = o[k] - d
    BY <1>5
  <1> HIDE DEF p, on
  <1>9. p[from] = base /\ p[L + 1] = o[L + 1] - d
    BY <1>2, <1>4, <1>8
  <1>10. \A j, k \in from..(L + 1) : j <= k => p[j] <= p[k]
    BY <1>3, <1>5, <1>8
  <1>11. \A k \in from..L : /\ k \in from..(L + 1) /\ k + 1 \in from..(L + 1)
                            /\ k \in 1..L /\ frames[k] \in N!Frames
    BY <1>2 DEF L
  <1>12. \A k \in from..L : Size(frames[k]) \in Nat
    BY <1>11, WireIs
  <1>13. \A k \in from..L : p[k + 1] = p[k] + Size(frames[k])
    BY <1>3, <1>5, <1>8, <1>11, <1>12
  <1>14. ASSUME NEW k \in from..L, NEW u \in 1..Size(frames[k])
         PROVE  on[p[k] + u] = Unit(frames[k], u)
    <2>1. o[k] \in Nat /\ d <= o[k] /\ o[k] + Size(frames[k]) <= Len(line)
          /\ p[k] = o[k] - d /\ Size(frames[k]) \in Nat
      <3>1. o[k + 1] <= o[L + 1] /\ o[L + 1] \in Nat
        BY <1>4, <1>5, <1>11
      <3>2. o[k] + Size(frames[k]) = o[k + 1]
        BY <1>3
      <3>3. o[k] \in Nat /\ d + base <= o[k] /\ p[k] = o[k] - d /\ o[k + 1] \in Nat
        BY <1>5, <1>8, <1>11
      <3> QED BY <1>3, <1>6, <1>12, <3>1, <3>2, <3>3, SMTT(60)
    <2>2. p[k] + u \in 1..(Len(line) - d) /\ d + (p[k] + u) = o[k] + u
      <3>1. Placed(o[k], p[k], d, Len(line), u)
        BY <1>6, <2>1, PlaceMoves, Zenon
      <3> QED BY <3>1, Zenon DEF Placed
    <2>3. line[o[k] + u] = Unit(frames[k], u)
      BY <1>3
    <2> QED BY <1>7, <2>2, <2>3, Zenon
  <1>15. ASSUME NEW u \in 1..(Len(on) - p[L + 1])
         PROVE  on[p[L + 1] + u] = Unit(rest, u)
    <2>1. o[L + 1] \in Nat /\ d <= o[L + 1]
      BY <1>4, <1>5
    <2>2. /\ u \in 1..(Len(line) - o[L + 1])
          /\ p[L + 1] + u \in 1..(Len(line) - d) /\ d + (p[L + 1] + u) = o[L + 1] + u
      <3>1. Len(on) = Len(line) - d /\ p[L + 1] = o[L + 1] - d /\ Len(line) \in Nat
        BY <1>6, <1>7, <1>9, Zenon
      <3>2. Len(on) - p[L + 1] = Len(line) - o[L + 1]
        BY <2>1, <3>1
      <3>3. u \in 1..(Len(line) - o[L + 1])
        BY <3>2, Zenon
      <3>4. Len(line) - o[L + 1] \in Nat /\ o[L + 1] + (Len(line) - o[L + 1]) <= Len(line)
        BY <1>3, <2>1, <3>1
      <3>5. Placed(o[L + 1], p[L + 1], d, Len(line), u)
        BY <2>1, <3>1, <3>3, <3>4, PlaceMoves, Zenon
      <3> QED BY <3>3, <3>5, Zenon DEF Placed
    <2> QED BY <1>3, <1>7, <2>2, Zenon
  <1>16. Size(rest) \in Nat
    BY <1>3, WireIs
  <1>17. p[L + 1] <= Len(on) /\ Len(on) < p[L + 1] + Size(rest) /\ (isOpen => Len(on) = p[L + 1])
    <2>1. o[L + 1] \in Nat /\ d <= o[L + 1]
      BY <1>4, <1>5
    <2> QED BY <1>3, <1>6, <1>7, <1>9, <1>16, <2>1, SMTT(60)
  <1>18. Laid(on, frames, from, base, isOpen, p, rest)
    BY <1>2, <1>3, <1>7, <1>8, <1>9, <1>10, <1>13, <1>14, <1>15, <1>17, Zenon DEF Laid, L
  <1> QED BY <1>18, Zenon DEF Stream, on

\* What is before the stream is on the line.
LEMMA StreamReaches ==
    ASSUME NEW line, NEW frames, NEW from, NEW base, NEW isOpen,
           Stream(line, frames, from, base, isOpen)
    PROVE  base <= Len(line)
  <1>1. PICK o, rest : Laid(line, frames, from, base, isOpen, o, rest)
    BY Zenon DEF Stream
  <1>2. /\ frames \in Seq(N!Frames) /\ line \in Seq(Units)
        /\ from \in 1..(Len(frames) + 1) /\ o[from] = base
        /\ o \in [from..(Len(frames) + 1) -> Nat] /\ o[Len(frames) + 1] <= Len(line)
        /\ \A j, k \in from..(Len(frames) + 1) : j <= k => o[j] <= o[k]
    BY <1>1, Zenon DEF Laid
  <1>3. Len(line) \in Nat /\ Len(frames) \in Nat
    BY <1>2
  <1>4. base <= o[Len(frames) + 1] /\ o[Len(frames) + 1] \in Nat /\ base \in Nat
    BY <1>2, <1>3
  <1> QED BY <1>2, <1>3, <1>4

\* After the last frame only the start of one can follow, and only of a browser
\* that went.
LEMMA StreamEnds ==
    ASSUME NEW line, NEW frames, NEW isOpen,
           Stream(line, frames, Len(frames) + 1, 0, isOpen), Len(line) >= 2
    PROVE  /\ ~isOpen /\ line[1].of \in N!Frames /\ Len(line) < Size(line[1].of)
  <1>1. PICK o, rest : Laid(line, frames, Len(frames) + 1, 0, isOpen, o, rest)
    BY Zenon DEF Stream
  <1>2. /\ line \in Seq(Units) /\ o[Len(frames) + 1] = 0 /\ rest \in N!Frames
        /\ Len(line) < 0 + Size(rest) /\ (isOpen => Len(line) = 0)
        /\ \A u \in 1..(Len(line) - 0) : line[0 + u] = Unit(rest, u)
    BY <1>1 DEF Laid
  <1>3. line[1] = Unit(rest, 1)
    BY <1>2
  <1>4. Unit(rest, 1).of = rest
    BY DEF Unit
  <1>5. Size(rest) \in Nat /\ Len(line) \in Nat
    BY <1>2, WireIs
  <1> QED BY <1>2, <1>3, <1>4, <1>5
-----------------------------------------------------------------------------
(* The host.                                                               *)

\* The frame the host is at.
Frame == sent[Len(replies) + 1]

\* A request that was read, and the stream after it.
Taken ==
    /\ Len(replies) + 1 \in 1..Len(sent)
    /\ Stream(stdin, sent, Len(replies) + 2, 0, open)

\* The body of the frame is next, or was cut off with the browser.
AtBody ==
    \/ Len(stdin) < host.len /\ open = FALSE
    \/ /\ Len(replies) + 1 \in 1..Len(sent) /\ host.len = Frame.len
       /\ \A i \in 1..host.len : stdin[i] = Unit(Frame, i + 2)
       /\ Stream(stdin, sent, Len(replies) + 2, host.len, open)

HostTypes ==
    /\ open \in BOOLEAN /\ sent \in Seq(N!Frames) /\ stdin \in Seq(Units)
    /\ replies \in Seq({"running", "stopped", "jwt", "error"})
    /\ DOMAIN host = {"pc", "len", "request", "response"} /\ host.len \in Nat
    /\ host.pc \in {"length", "body", "handle", "call", "write", "closed", "failed"}

\* What the host is at, by step.
HostAt ==
    /\ host.pc = "length" => Stream(stdin, sent, Len(replies) + 1, 0, open)
    /\ host.pc = "body" => AtBody
    /\ host.pc \in {"handle", "call", "write"} => Taken
    /\ host.pc = "handle" => host.request = Frame.what
    /\ host.pc = "call" => Frame.what = "fetch"
    /\ host.pc = "write" =>
          /\ host.response \in {"running", "stopped", "jwt", "error"}
          /\ N!Fits(Frame.what, host.response)

\* The inductive invariant of the host.
HostInv == HostTypes /\ HostAt /\ RepliesFitFrames

\* Nothing is written.
LEMMA HostInit == N!Init => HostInv
  <1> SUFFICES ASSUME N!Init PROVE HostInv
    OBVIOUS
  <1>1. stdin = << >> /\ open = TRUE /\ sent = << >> /\ host = N!NoHost /\ replies = << >>
    BY DEF N!Init
  <1>2. HostTypes
    BY <1>1 DEF HostTypes, N!NoHost
  <1>3. Stream(stdin, sent, Len(replies) + 1, 0, open)
    <2> DEFINE f == [len |-> 0, what |-> "invalid"]
               o == [k \in 1..1 |-> 0]
    <2>1. f \in N!Frames
      BY DEF N!Frames
    <2>2. Size(f) = 2
      BY DEF Size
    <2>3. Len(sent) = 0 /\ Len(stdin) = 0 /\ Len(replies) = 0
      BY <1>1
    <2>4. o \in [1..1 -> Nat] /\ o[1] = 0
      OBVIOUS
    <2> HIDE DEF f, o
    <2>5. Laid(stdin, sent, 1, 0, open, o, f)
      BY <1>2, <2>1, <2>2, <2>3, <2>4 DEF Laid, HostTypes
    <2>6. Len(replies) + 1 = 1
      BY <2>3
    <2> QED BY <2>5, <2>6, Zenon DEF Stream
  <1>4. HostAt
    BY <1>1, <1>3, Zenon DEF HostAt, N!NoHost
  <1>5. RepliesFitFrames
    BY <1>1 DEF RepliesFitFrames, N!RepliesFitFrames
  <1> QED BY <1>2, <1>4, <1>5 DEF HostInv

\* A frame is written while the host is anywhere.
LEMMA SendFrameKeeps ==
    ASSUME HostInv, N!SendFrame
    PROVE  HostInv'
  <1>1. PICK f \in N!Frames : stdin' = stdin \o N!Wire(f) /\ sent' = Append(sent, f)
    BY Zenon DEF N!SendFrame
  <1>2. open = TRUE /\ open' = open /\ host' = host /\ replies' = replies
    BY DEF N!SendFrame, HostInv, HostTypes
  <1>3. /\ sent \in Seq(N!Frames) /\ stdin \in Seq(Units)
        /\ replies \in Seq({"running", "stopped", "jwt", "error"}) /\ host.len \in Nat
    BY DEF HostInv, HostTypes
  <1>4. sent' \in Seq(N!Frames) /\ Len(sent) \in Nat /\ Len(sent') = Len(sent) + 1
        /\ \A k \in 1..Len(sent) : sent'[k] = sent[k]
    BY <1>1, <1>3
  <1>5. stdin' \in Seq(Units) /\ Appended(stdin, N!Wire(f), stdin')
    <2>1. N!Wire(f) \in Seq(Units)
      BY WireIs
    <2> QED BY <1>1, <1>3, <2>1, AppendedIs, Zenon
  <1>6. HostTypes'
    BY <1>2, <1>4, <1>5 DEF HostInv, HostTypes
  <1>7. \A from, base : Stream(stdin, sent, from, base, open) => Stream(stdin', sent', from, base, open')
    BY <1>1, <1>2, FrameSent, Zenon
  <1>8. Len(replies) + 1 \in 1..Len(sent) => Frame' = Frame /\ Len(replies') + 1 \in 1..Len(sent')
    BY <1>2, <1>3, <1>4 DEF Frame
  <1>9. host.pc = "body" => AtBody'
    <2> SUFFICES ASSUME host.pc = "body" PROVE AtBody'
      OBVIOUS
    <2>1. /\ Len(replies) + 1 \in 1..Len(sent) /\ host.len = Frame.len
          /\ \A i \in 1..host.len : stdin[i] = Unit(Frame, i + 2)
          /\ Stream(stdin, sent, Len(replies) + 2, host.len, open)
      BY <1>2, Zenon DEF HostInv, HostAt, AtBody
    <2>2. host.len <= Len(stdin)
      BY <2>1, StreamReaches
    <2>3. \A i \in 1..host.len : stdin'[i] = stdin[i]
      BY <1>3, <1>5, <2>2 DEF Appended
    <2> QED BY <1>2, <1>7, <1>8, <2>1, <2>3, Zenon DEF AtBody
  <1>10. Taken => Taken'
    BY <1>2, <1>7, <1>8, Zenon DEF Taken
  <1>11. Taken => Frame' = Frame
    BY <1>8 DEF Taken
  <1>12. HostAt'
    <2>1. HostAt
      BY DEF HostInv
    <2> QED BY <1>2, <1>7, <1>9, <1>10, <1>11, <2>1, Zenon DEF HostAt
  <1>13. RepliesFitFrames'
    <2>1. RepliesFitFrames
      BY DEF HostInv
    <2> QED BY <1>2, <1>3, <1>4, <2>1 DEF RepliesFitFrames, N!RepliesFitFrames, N!Fits
  <1> QED BY <1>6, <1>12, <1>13 DEF HostInv
\* The browser goes while the host is anywhere.
LEMMA CloseStdinKeeps ==
    ASSUME HostInv, N!CloseStdin
    PROVE  HostInv'
  <1>1. open = TRUE /\ open' = FALSE /\ host' = host /\ replies' = replies /\ sent' = sent
    BY DEF N!CloseStdin, HostInv, HostTypes
  <1>2. \/ stdin' = stdin
        \/ \E f \in N!Frames : \E n \in 1..(Size(f) - 1) :
              stdin' = stdin \o SubSeq(N!Wire(f), 1, n)
    <2>1. \A f \in N!Frames : Len(N!Wire(f)) = Size(f)
      BY WireIs
    <2> QED BY <2>1, Zenon DEF N!CloseStdin
  <1>3. stdin \in Seq(Units) /\ host.len \in Nat
    BY DEF HostInv, HostTypes
  <1>4. stdin' \in Seq(Units) /\ \A i \in 1..Len(stdin) : stdin'[i] = stdin[i]
    <2>1. CASE stdin' = stdin
      BY <1>3, <2>1
    <2>2. ASSUME NEW f \in N!Frames, NEW n \in 1..(Size(f) - 1),
                 stdin' = stdin \o SubSeq(N!Wire(f), 1, n)
          PROVE  stdin' \in Seq(Units) /\ \A i \in 1..Len(stdin) : stdin'[i] = stdin[i]
      <3>1. N!Wire(f) \in Seq(Units) /\ Size(f) \in Nat /\ Len(N!Wire(f)) = Size(f)
        BY WireIs
      <3>2. SubSeq(N!Wire(f), 1, n) \in Seq(Units)
        BY <3>1
      <3>3. stdin' \in Seq(Units) /\ Appended(stdin, SubSeq(N!Wire(f), 1, n), stdin')
        BY <1>3, <2>2, <3>2, AppendedIs, Zenon
      <3> QED BY <3>3 DEF Appended
    <2> QED BY <1>2, <2>1, <2>2, Zenon
  <1>5. \A from, base : Stream(stdin, sent, from, base, open) => Stream(stdin', sent', from, base, open')
    BY <1>1, <1>2, StreamCloses, Zenon
  <1>6. HostTypes'
    BY <1>1, <1>4, Zenon DEF HostInv, HostTypes
  <1>7. Frame' = Frame
    BY <1>1 DEF Frame
  <1>8. host.pc = "body" => AtBody'
    <2> SUFFICES ASSUME host.pc = "body" PROVE AtBody'
      OBVIOUS
    <2>1. /\ Len(replies) + 1 \in 1..Len(sent) /\ host.len = Frame.len
          /\ \A i \in 1..host.len : stdin[i] = Unit(Frame, i + 2)
          /\ Stream(stdin, sent, Len(replies) + 2, host.len, open)
      BY <1>1, Zenon DEF HostInv, HostAt, AtBody
    <2>2. host.len <= Len(stdin)
      BY <2>1, StreamReaches
    <2>3. \A i \in 1..host.len : stdin'[i] = stdin[i]
      BY <1>3, <1>4, <2>2
    <2> QED BY <1>1, <1>5, <1>7, <2>1, <2>3, Zenon DEF AtBody
  <1>9. Taken => Taken'
    BY <1>1, <1>5, Zenon DEF Taken
  <1>10. HostAt'
    <2>1. HostAt
      BY DEF HostInv
    <2> QED BY <1>1, <1>5, <1>7, <1>8, <1>9, <2>1, Zenon DEF HostAt
  <1>11. RepliesFitFrames'
    BY <1>1 DEF HostInv, RepliesFitFrames, N!RepliesFitFrames
  <1> QED BY <1>6, <1>10, <1>11 DEF HostInv

\* What is left of a line once a length is read off it.
LEMMA LengthTaken ==
    ASSUME NEW line \in Seq(Units), Len(line) >= 2
    PROVE  /\ SubSeq(line, 3, Len(line)) \in Seq(Units)
           /\ Len(SubSeq(line, 3, Len(line))) = Len(line) - 2
           /\ \A i \in 1..(Len(line) - 2) : SubSeq(line, 3, Len(line))[i] = line[2 + i]
  <1>1. Len(line) \in Nat /\ line \in [1..Len(line) -> Units]
    OBVIOUS
  <1>2. 3 \in 1..(Len(line) + 1) /\ Len(line) \in (3 - 1)..Len(line)
    BY <1>1
  <1>3. /\ SubSeq(line, 3, Len(line)) \in Seq(Units)
        /\ Len(SubSeq(line, 3, Len(line))) = (Len(line) - 3) + 1
        /\ \A i \in 1..((Len(line) - 3) + 1) :
              SubSeq(line, 3, Len(line))[i] = line[(3 + i) - 1]
    BY <1>1, <1>2
  <1>4. (Len(line) - 3) + 1 = Len(line) - 2 /\ \A i \in Nat : (3 + i) - 1 = 2 + i
    BY <1>1
  <1> QED BY <1>1, <1>3, <1>4

\* A length is read: that of the next frame, or of one that was cut off.
LEMMA ReadLengthKeeps ==
    ASSUME HostInv, N!ReadLength
    PROVE  HostInv'
  <1>1. open' = open /\ sent' = sent /\ replies' = replies /\ host.pc = "length"
    BY DEF N!ReadLength
  <1>2. HostTypes /\ HostAt /\ RepliesFitFrames
    BY DEF HostInv
  <1>3. Stream(stdin, sent, Len(replies) + 1, 0, open)
    BY <1>1, <1>2 DEF HostAt
  <1>4. RepliesFitFrames'
    BY <1>1, <1>2 DEF RepliesFitFrames, N!RepliesFitFrames
  <1>5. CASE host' = [host EXCEPT !.pc = "closed"] /\ stdin' = << >>
    <2>1. HostTypes' /\ host'.pc = "closed"
      BY <1>1, <1>2, <1>5 DEF HostTypes
    <2> QED BY <1>4, <2>1 DEF HostInv, HostAt
  <1>6. CASE /\ Len(stdin) >= 2 /\ stdin' = SubSeq(stdin, 2 + 1, Len(stdin))
             /\ host' = [host EXCEPT !.len = stdin[1].of.len,
                    !.pc = IF stdin[1].of.len > MaxRequest THEN "failed" ELSE "body"]
    <2> DEFINE f == stdin[1].of
    <2>1. /\ sent \in Seq(N!Frames) /\ stdin \in Seq(Units) /\ Len(stdin) \in Nat
          /\ replies \in Seq({"running", "stopped", "jwt", "error"}) /\ Len(replies) \in Nat
          /\ DOMAIN host = {"pc", "len", "request", "response"} /\ Len(sent) \in Nat
      BY <1>2 DEF HostTypes
    <2>2. f \in N!Frames
      <3>1. 1 \in 1..Len(stdin)
        BY <1>6, <2>1
      <3>2. stdin[1] \in Units
        <4>1. stdin \in [1..Len(stdin) -> Units]
          BY <2>1
        <4> QED BY <3>1, <4>1, Zenon
      <3> QED BY <3>2 DEF Units
    <2>3. f.len \in Nat /\ Size(f) = 2 + f.len
      BY <2>2, WireIs DEF Size
    <2>4. DOMAIN host' = DOMAIN host /\ host'.len = f.len
          /\ (host'.pc = "failed" \/ host'.pc = "body")
      BY <1>6, <2>1
    <2>5. stdin' \in Seq(Units) /\ Len(stdin') = Len(stdin) - 2
          /\ \A i \in 1..(Len(stdin) - 2) : stdin'[i] = stdin[2 + i]
      <3>1. stdin' = SubSeq(stdin, 3, Len(stdin)) /\ Len(stdin) >= 2
        BY <1>6
      <3>2. stdin \in Seq(Units)
        BY <2>1
      <3> QED BY <3>1, <3>2, LengthTaken, Zenon
    <2>6. HostTypes'
      BY <1>1, <1>2, <2>3, <2>4, <2>5 DEF HostTypes
    <2>7. CASE Len(replies) = Len(sent)
      <3>1. open # TRUE /\ Len(stdin) < Size(f)
        BY <1>3, <1>6, <2>7, StreamEnds, Zenon
      <3>2. open = FALSE
        BY <1>2, <3>1, Zenon DEF HostTypes
      <3>3. Len(stdin') < host'.len
        BY <2>1, <2>3, <2>4, <2>5, <3>1
      <3>4. AtBody'
        BY <1>1, <3>2, <3>3, Zenon DEF AtBody
      <3> QED BY <1>4, <2>4, <2>6, <3>4 DEF HostInv, HostAt
    <2>8. CASE Len(replies) + 1 <= Len(sent)
      <3>1. /\ Frame \in N!Frames /\ Len(replies) + 1 \in 1..Len(sent)
            /\ 0 + Size(Frame) <= Len(stdin)
            /\ \A u \in 1..Size(Frame) : stdin[0 + u] = Unit(Frame, u)
            /\ Stream(stdin, sent, (Len(replies) + 1) + 1, 0 + Size(Frame), open)
        BY <1>3, <2>8, FrameFirst, SMTT(60) DEF Frame
      <3>2. Frame.len \in Nat /\ Size(Frame) = 2 + Frame.len
        BY <3>1, WireIs, Zenon DEF Size
      <3>3. f = Frame
        <4>1. stdin[1] = Unit(Frame, 1)
          BY <3>1, <3>2
        <4> QED BY <4>1 DEF Unit
      <3>4. Stream(stdin', sent, Len(replies) + 2, Frame.len, open)
        <4>1. (Len(replies) + 1) + 1 = Len(replies) + 2 /\ 0 + Size(Frame) = 2 + Frame.len
          BY <2>1, <3>2
        <4>2. Stream(stdin, sent, Len(replies) + 2, 2 + Frame.len, open)
          BY <3>1, <4>1
        <4>3. stdin' = SubSeq(stdin, 2 + 1, Len(stdin)) /\ 2 \in Nat
          BY <1>6
        <4> QED BY <3>2, <4>2, <4>3, UnitsTaken, Zenon
      <3>5. \A i \in 1..Frame.len : stdin'[i] = Unit(Frame, i + 2)
        <4> SUFFICES ASSUME NEW i \in 1..Frame.len PROVE stdin'[i] = Unit(Frame, i + 2)
          OBVIOUS
        <4>1. 2 + i \in 1..Size(Frame) /\ 0 + (2 + i) = 2 + i /\ i + 2 = 2 + i
              /\ i \in 1..(Len(stdin) - 2)
          BY <2>1, <3>1, <3>2
        <4>2. stdin'[i] = stdin[2 + i]
          BY <2>5, <4>1
        <4>3. stdin[0 + (2 + i)] = Unit(Frame, 2 + i)
          BY <3>1, <4>1
        <4> QED BY <4>1, <4>2, <4>3
      <3>6. Frame' = Frame
        BY <1>1 DEF Frame
      <3>7. AtBody'
        BY <1>1, <2>4, <3>1, <3>3, <3>4, <3>5, <3>6, Zenon DEF AtBody
      <3> QED BY <1>4, <2>4, <2>6, <3>7 DEF HostInv, HostAt
    <2>9. Len(replies) = Len(sent) \/ Len(replies) + 1 <= Len(sent)
      <3>1. Len(replies) <= Len(sent)
        BY <1>2, Zenon DEF RepliesFitFrames, N!RepliesFitFrames
      <3> QED BY <2>1, <3>1
    <2> QED BY <2>7, <2>8, <2>9
  <1> QED BY <1>5, <1>6, Zenon DEF N!ReadLength, N!Take, N!Become

\* A body is read: the request is what the frame asks.
LEMMA ReadBodyKeeps ==
    ASSUME HostInv, N!ReadBody
    PROVE  HostInv'
  <1> DEFINE request == IF /\ host.len > 0
                           /\ \A i \in 1..host.len : stdin[i] = [stdin[1] EXCEPT !.unit = "body"]
                        THEN stdin[1].of.what ELSE "invalid"
  <1>1. open' = open /\ sent' = sent /\ replies' = replies /\ host.pc = "body"
    BY DEF N!ReadBody
  <1>2. HostTypes /\ HostAt /\ RepliesFitFrames
    BY DEF HostInv
  <1>3. RepliesFitFrames'
    BY <1>1, <1>2 DEF RepliesFitFrames, N!RepliesFitFrames
  <1>4. CASE host' = [host EXCEPT !.pc = "failed"] /\ stdin' = << >>
    <2>1. HostTypes' /\ host'.pc = "failed"
      BY <1>1, <1>2, <1>4 DEF HostTypes
    <2> QED BY <1>3, <2>1 DEF HostInv, HostAt
  <1>5. CASE /\ Len(stdin) >= host.len /\ stdin' = SubSeq(stdin, host.len + 1, Len(stdin))
             /\ host' = [host EXCEPT !.pc = "handle", !.request = request]
    <2>1. /\ stdin \in Seq(Units) /\ Len(stdin) \in Nat /\ host.len \in Nat
          /\ sent \in Seq(N!Frames) /\ Len(replies) \in Nat
          /\ DOMAIN host = {"pc", "len", "request", "response"}
      BY <1>2 DEF HostTypes
    <2>2. /\ Len(replies) + 1 \in 1..Len(sent) /\ host.len = Frame.len
          /\ \A i \in 1..host.len : stdin[i] = Unit(Frame, i + 2)
          /\ Stream(stdin, sent, Len(replies) + 2, host.len, open)
      <3>1. ~(Len(stdin) < host.len)
        BY <1>5, <2>1
      <3> QED BY <1>1, <1>2, <3>1, Zenon DEF HostAt, AtBody
    <2>3. Frame \in N!Frames
      BY <2>1, <2>2 DEF Frame
    <2>4. (Frame.len = 0 => Frame.what = "invalid") /\ Frame.len \in Nat
      BY <2>3, WireIs
    <2>5. request = Frame.what
      <3>1. CASE host.len = 0
        BY <2>2, <2>4, <3>1
      <3>2. CASE host.len > 0
        <4>1. \A i \in 1..host.len : Unit(Frame, i + 2) = [unit |-> "body", of |-> Frame]
          BY <2>1 DEF Unit
        <4>2. \A i \in 1..host.len : stdin[i] = [unit |-> "body", of |-> Frame]
          BY <2>2, <4>1, Zenon
        <4>3. 1 \in 1..host.len
          BY <2>1, <3>2
        <4>4. stdin[1] = [unit |-> "body", of |-> Frame]
          BY <4>2, <4>3, Zenon
        <4>5. [stdin[1] EXCEPT !.unit = "body"] = [unit |-> "body", of |-> Frame]
              /\ stdin[1].of = Frame
          BY <4>4
        <4> QED BY <3>2, <4>2, <4>5
      <3> QED BY <2>1, <3>1, <3>2, SMTT(60)
    <2> HIDE DEF request
    <2>6. DOMAIN host' = DOMAIN host /\ host'.pc = "handle" /\ host'.len = host.len
          /\ host'.request = Frame.what
      BY <1>5, <2>1, <2>5
    <2>7. stdin' \in Seq(Units)
      BY <1>5, <2>1
    <2>8. HostTypes'
      BY <1>1, <1>2, <2>6, <2>7 DEF HostTypes
    <2>9. Frame' = Frame
      BY <1>1 DEF Frame
    <2>10. Stream(stdin', sent, Len(replies) + 2, 0, open)
      <3>1. host.len = host.len + 0 /\ 0 \in Nat
        BY <2>1
      <3>2. Stream(stdin, sent, Len(replies) + 2, host.len + 0, open)
        BY <2>2, <3>1, Zenon
      <3>3. Stream(SubSeq(stdin, host.len + 1, Len(stdin)), sent, Len(replies) + 2, 0, open)
        BY <2>1, <3>1, <3>2, UnitsTaken, Zenon
      <3> QED BY <1>5, <3>3, Zenon
    <2>11. HostAt'
      BY <1>1, <2>2, <2>6, <2>9, <2>10, Zenon DEF HostAt, Taken
    <2> QED BY <1>3, <2>8, <2>11 DEF HostInv
  <1> QED BY <1>4, <1>5, Zenon DEF N!ReadBody, N!Take, N!Become

\* The request is answered on the spot or by hired.
LEMMA HandleKeeps ==
    ASSUME HostInv, N!HandleRequest \/ N!FetchJwt
    PROVE  HostInv'
  <1>1. HostTypes /\ HostAt /\ RepliesFitFrames
    BY DEF HostInv
  <1>2. /\ open' = open /\ sent' = sent /\ replies' = replies /\ stdin' = stdin
        /\ host.pc \in {"handle", "call"}
        /\ \/ host' = [host EXCEPT !.pc = "call"] /\ Frame.what = "fetch"
           \/ \E response \in {"running", "stopped", "jwt", "error"} :
                 /\ host' = [host EXCEPT !.pc = "write", !.response = response]
                 /\ N!Fits(Frame.what, response)
    <2>1. CASE N!HandleRequest
      <3>1. host.pc = "handle" /\ host.request = Frame.what
        BY <1>1, <2>1 DEF HostAt, N!HandleRequest
      <3>2. CASE host.request = "invalid" /\ N!Respond("error")
        BY <3>1, <3>2 DEF N!Respond, N!Fits
      <3>3. CASE /\ host.request = "status"
                 /\ N!Respond(IF N!SocketExists THEN "running" ELSE "stopped")
        BY <3>1, <3>3, Zenon DEF N!Respond, N!Fits
      <3>4. CASE host.request = "fetch" /\ N!Respond("error")
        BY <3>1, <3>4 DEF N!Respond, N!Fits
      <3>5. CASE /\ host.request = "fetch" /\ N!Become("call")
                 /\ UNCHANGED <<daemon, changes, stdin, open, sent, replies>>
        BY <3>1, <3>5 DEF N!Become
      <3> QED BY <2>1, <3>2, <3>3, <3>4, <3>5, Zenon DEF N!HandleRequest
    <2>2. CASE N!FetchJwt
      <3>1. host.pc = "call" /\ Frame.what = "fetch"
        BY <1>1, <2>2 DEF HostAt, N!FetchJwt
      <3>2. PICK svids : N!Respond(IF svids = N!Refused THEN "error" ELSE "jwt")
        BY <2>2, Zenon DEF N!FetchJwt
      <3> QED BY <3>1, <3>2, Zenon DEF N!Respond, N!Fits
    <2> QED BY <2>1, <2>2
  <1>3. Taken
    BY <1>1, <1>2 DEF HostAt
  <1>4. Taken' /\ Frame' = Frame
    BY <1>2, <1>3 DEF Taken, Frame
  <1>5. RepliesFitFrames'
    BY <1>1, <1>2 DEF RepliesFitFrames, N!RepliesFitFrames
  <1>6. CASE host' = [host EXCEPT !.pc = "call"] /\ Frame.what = "fetch"
    <2>1. HostTypes' /\ host'.pc = "call"
      BY <1>1, <1>2, <1>6 DEF HostTypes
    <2> QED BY <1>4, <1>5, <1>6, <2>1 DEF HostInv, HostAt
  <1>7. ASSUME NEW response \in {"running", "stopped", "jwt", "error"},
               host' = [host EXCEPT !.pc = "write", !.response = response],
               N!Fits(Frame.what, response)
        PROVE  HostInv'
    <2>1. HostTypes' /\ host'.pc = "write" /\ host'.response = response
      BY <1>1, <1>2, <1>7 DEF HostTypes
    <2>2. N!Fits(Frame'.what, host'.response)
      BY <1>4, <1>7, <2>1, Zenon
    <2>3. HostAt'
      BY <1>4, <2>1, <2>2 DEF HostAt, N!Fits
    <2> QED BY <1>5, <2>1, <2>3 DEF HostInv
  <1> QED BY <1>2, <1>6, <1>7

\* A response is written, or the host ends.
LEMMA WriteKeeps ==
    ASSUME HostInv, N!WriteMessage
    PROVE  HostInv'
  <1>1. HostTypes /\ HostAt /\ RepliesFitFrames
    BY DEF HostInv
  <1>2. open' = open /\ sent' = sent /\ stdin' = stdin /\ host.pc = "write"
    BY DEF N!WriteMessage
  <1>3. CASE host' = [host EXCEPT !.pc = "failed"] /\ replies' = replies
    <2>1. HostTypes' /\ host'.pc = "failed"
      BY <1>1, <1>2, <1>3 DEF HostTypes
    <2>2. RepliesFitFrames'
      BY <1>1, <1>2, <1>3 DEF RepliesFitFrames, N!RepliesFitFrames
    <2> QED BY <2>1, <2>2 DEF HostInv, HostAt
  <1>4. CASE host' = N!NoHost /\ replies' = Append(replies, host.response)
    <2>1. /\ replies \in Seq({"running", "stopped", "jwt", "error"}) /\ Len(replies) \in Nat
          /\ host.response \in {"running", "stopped", "jwt", "error"}
          /\ N!Fits(Frame.what, host.response) /\ Taken
      BY <1>1, <1>2 DEF HostTypes, HostAt
    <2>2. /\ replies' \in Seq({"running", "stopped", "jwt", "error"})
          /\ Len(replies') = Len(replies) + 1 /\ replies'[Len(replies) + 1] = host.response
          /\ \A k \in 1..Len(replies) : replies'[k] = replies[k]
          /\ DOMAIN replies' = 1..(Len(replies) + 1) /\ DOMAIN replies = 1..Len(replies)
      BY <1>4, <2>1
    <2>3. HostTypes' /\ host'.pc = "length"
      BY <1>1, <1>2, <1>4, <2>2, Zenon DEF HostTypes, N!NoHost
    <2>4. Stream(stdin', sent', Len(replies') + 1, 0, open')
      <3>1. Len(replies') + 1 = Len(replies) + 2
        BY <2>1, <2>2
      <3> QED BY <1>2, <2>1, <3>1, Zenon DEF Taken
    <2>5. RepliesFitFrames'
      <3>1. Len(replies') <= Len(sent')
        BY <1>2, <2>1, <2>2 DEF Taken
      <3>2. ASSUME NEW i \in 1..(Len(replies) + 1)
            PROVE  N!Fits(sent[i].what, replies'[i])
        <4>1. CASE i \in 1..Len(replies)
          BY <1>1, <2>2, <4>1, Zenon DEF RepliesFitFrames, N!RepliesFitFrames
        <4>2. CASE i = Len(replies) + 1
          BY <2>1, <2>2, <4>2, Zenon DEF Frame
        <4>3. i \in 1..Len(replies) \/ i = Len(replies) + 1
          BY <2>1
        <4> QED BY <4>1, <4>2, <4>3
      <3> QED BY <1>2, <2>2, <3>1, <3>2 DEF RepliesFitFrames, N!RepliesFitFrames, N!Fits
    <2> QED BY <2>3, <2>4, <2>5 DEF HostInv, HostAt
  <1> QED BY <1>3, <1>4, Zenon DEF N!WriteMessage, N!Become

\* Every step of the browser, the host and hired keeps the invariant.
LEMMA HostNext == HostInv /\ [N!Next]_(N!vars) => HostInv'
  <1> SUFFICES ASSUME HostInv, [N!Next]_(N!vars) PROVE HostInv'
    OBVIOUS
  <1>1. CASE UNCHANGED <<stdin, open, sent, host, replies>>
    BY <1>1, Zenon DEF HostInv, HostTypes, HostAt, AtBody, Taken, Frame, RepliesFitFrames,
                N!RepliesFitFrames
  <1>2. UNCHANGED N!vars => UNCHANGED <<stdin, open, sent, host, replies>>
    BY DEF N!vars
  <1> QED BY <1>1, <1>2, SendFrameKeeps, CloseStdinKeeps, ReadLengthKeeps, ReadBodyKeeps,
             HandleKeeps, WriteKeeps, Zenon DEF N!Next, N!Step

\* Whatever a browser sends and wherever it stops, the i-th response answers what
\* the i-th frame asked (read_message, handle_request and write_message in
\* hire-nmh/src/main.rs), for any limit on requests and any number of frames.
THEOREM FramesAreAnswered == N!Spec => []RepliesFitFrames
  <1>1. N!Spec => []HostInv
    BY HostInit, HostNext, PTL DEF N!Spec
  <1>2. HostInv => RepliesFitFrames
    BY DEF HostInv
  <1> QED BY <1>1, <1>2, PTL

-----------------------------------------------------------------------------
(* The command line.                                                       *)

\* The words of line at S are flags, the others values.
FlagsOf(line, S) ==
    \A i \in DOMAIN line :
        i \in S <=> \/ i = 1
                    \/ i - 1 \in S /\ line[i - 1] = "--decode"
                    \/ i - 2 \in S /\ line[i - 2] # "--decode"

\* v is the value of the last use of flag on the line.
Valued(line, S, flag, v, absent) ==
    \/ (\A i \in S : line[i] # flag) /\ v = absent
    \/ \E i \in S : /\ line[i] = flag /\ \A j \in S : line[j] = flag => j <= i
                    /\ v = IF i = Len(line) THEN absent ELSE line[i + 1]

\* What follows is a flag.
FlagNext(line, S) ==
    \/ Len(line) = 0
    \/ Len(line) \in S /\ line[Len(line)] = "--decode"
    \/ Len(line) \notin S /\ Len(line) - 1 \in S /\ line[Len(line) - 1] # "--decode"

\* What follows is the value of the flag just read.
ValueNext(line, S, flag) ==
    /\ Len(line) \in S /\ line[Len(line)] = flag
    /\ ~(Len(line) - 1 \in S /\ line[Len(line) - 1] # "--decode")

\* S are the flags of a line and one word more, R those of the line.
Before(line, R, S) ==
    /\ FlagsOf(line, R)
    /\ FlagNext(line, R) => S = R \cup {Len(line) + 1}
    /\ \A flag : ValueNext(line, R, flag) /\ flag # "--decode" => S = R

\* One word more: what is known of the words before, and of this one.
LEMMA WordRead ==
    ASSUME NEW T, NEW line \in Seq(T), NEW w \in T, NEW S \in SUBSET DOMAIN Append(line, w),
           FlagsOf(Append(line, w), S)
    PROVE  \E R \in SUBSET DOMAIN line : Before(line, R, S)
  <1> DEFINE n == Len(line)
             more == Append(line, w)
             R == S \cap (1..n)
  <1>1. n \in Nat /\ DOMAIN line = 1..n /\ DOMAIN more = 1..(n + 1)
        /\ (\A i \in 1..n : more[i] = line[i]) /\ more[n + 1] = w
    OBVIOUS
  <1> HIDE DEF n, more
  <1>2. \A i \in 1..(n + 1) : i \in S <=> \/ i = 1
                                          \/ i - 1 \in S /\ more[i - 1] = "--decode"
                                          \/ i - 2 \in S /\ more[i - 2] # "--decode"
    BY <1>1, Zenon DEF FlagsOf, more
  <1>3. S \subseteq 1..(n + 1)
    BY <1>1, Zenon DEF more
  <1>4. FlagsOf(line, R)
    <2> SUFFICES ASSUME NEW i \in 1..n
                 PROVE  i \in R <=> \/ i = 1
                                    \/ i - 1 \in R /\ line[i - 1] = "--decode"
                                    \/ i - 2 \in R /\ line[i - 2] # "--decode"
      BY <1>1, Zenon DEF FlagsOf
    <2>1. i \in 1..(n + 1) /\ (i \in R <=> i \in S)
      BY <1>1
    <2>2. i - 1 \in S <=> i - 1 \in R
      BY <1>1, <1>3
    <2>3. i - 2 \in S <=> i - 2 \in R
      BY <1>1, <1>3
    <2>4. (i - 1 \in R => more[i - 1] = line[i - 1]) /\ (i - 2 \in R => more[i - 2] = line[i - 2])
      BY <1>1, Zenon
    <2> QED BY <1>2, <2>1, <2>2, <2>3, <2>4, Zenon
  <1>5. n + 1 \in S <=> \/ n + 1 = 1
                        \/ n \in R /\ line[n] = "--decode"
                        \/ n - 1 \in R /\ line[n - 1] # "--decode"
    <2>1. n + 1 \in 1..(n + 1) /\ (n + 1) - 1 = n /\ (n + 1) - 2 = n - 1
      BY <1>1
    <2>2. (n \in S <=> n \in R) /\ (n - 1 \in S <=> n - 1 \in R)
      BY <1>1, <1>3
    <2>3. (n \in R => more[n] = line[n]) /\ (n - 1 \in R => more[n - 1] = line[n - 1])
      BY <1>1, Zenon
    <2> HIDE DEF R
    <2> QED BY <1>2, <2>1, <2>2, <2>3, Zenon
  <1>6. S = IF n + 1 \in S THEN R \cup {n + 1} ELSE R
    <2>1. \A i \in 1..(n + 1) : i \in 1..n \/ i = n + 1
      BY <1>1
    <2>2. \A i : i \in S => i \in R \/ i = n + 1
      BY <1>3, <2>1, Zenon
    <2>3. R \subseteq S
      OBVIOUS
    <2> HIDE DEF R
    <2>4. n + 1 \in S => \A i : i \in S <=> i \in R \/ i = n + 1
      BY <2>2, <2>3, Zenon
    <2>5. n + 1 \notin S => \A i : i \in S <=> i \in R
      BY <2>2, <2>3, Zenon
    <2> QED BY <2>4, <2>5, Zenon
  <1>7. R \in SUBSET DOMAIN line
    BY <1>1, Zenon
  <1> HIDE DEF R
  <1>8. FlagNext(line, R) => S = R \cup {n + 1}
    BY <1>1, <1>5, <1>6 DEF FlagNext, n
  <1>9. ASSUME NEW flag, ValueNext(line, R, flag), flag # "--decode"
        PROVE  S = R
    <2>1. n \in R /\ line[n] # "--decode" /\ ~(n - 1 \in R /\ line[n - 1] # "--decode")
      BY <1>9, Zenon DEF ValueNext, n
    <2>2. n + 1 # 1
      BY <1>1, <1>7, <2>1
    <2> QED BY <1>5, <1>6, <2>1, <2>2, Zenon
  <1> QED BY <1>4, <1>7, <1>8, <1>9, Zenon DEF n, Before
\* A command line that is read so far can be read on.
LEMMA WordFits ==
    ASSUME NEW T, NEW line \in Seq(T), NEW w \in T, NEW R \in SUBSET DOMAIN line,
           FlagsOf(line, R)
    PROVE  \E S \in SUBSET DOMAIN Append(line, w) : FlagsOf(Append(line, w), S)
  <1> DEFINE n == Len(line)
             more == Append(line, w)
             isFlag == \/ n + 1 = 1
                       \/ n \in R /\ line[n] = "--decode"
                       \/ n - 1 \in R /\ line[n - 1] # "--decode"
             S == {i \in 1..(n + 1) : i \in R \/ (i = n + 1 /\ isFlag)}
  <1>1. n \in Nat /\ DOMAIN line = 1..n /\ DOMAIN more = 1..(n + 1)
        /\ (\A i \in 1..n : more[i] = line[i]) /\ more[n + 1] = w
    OBVIOUS
  <1> HIDE DEF n, more
  <1>2. R \subseteq 1..n
    BY <1>1, Zenon
  <1>3. \A i \in 1..n : i \in R <=> \/ i = 1
                                    \/ i - 1 \in R /\ line[i - 1] = "--decode"
                                    \/ i - 2 \in R /\ line[i - 2] # "--decode"
    BY <1>1, Zenon DEF FlagsOf
  <1>4. \A i \in 1..n : (i \in S <=> i \in R) /\ (i - 1 \in S <=> i - 1 \in R)
                        /\ (i - 2 \in S <=> i - 2 \in R)
    BY <1>1, <1>2
  <1>5. (n + 1 \in S <=> isFlag) /\ (n \in S <=> n \in R) /\ (n - 1 \in S <=> n - 1 \in R)
    BY <1>1, <1>2
  <1>6. S \subseteq 1..(n + 1)
    OBVIOUS
  <1>7. \A i : i \in R => more[i] = line[i]
    BY <1>1, <1>2, Zenon
  <1>8. isFlag <=> \/ n + 1 = 1
                   \/ n \in R /\ line[n] = "--decode"
                   \/ n - 1 \in R /\ line[n - 1] # "--decode"
    OBVIOUS
  <1> HIDE DEF S, isFlag
  <1>9. ASSUME NEW i \in 1..(n + 1)
        PROVE  i \in S <=> \/ i = 1
                           \/ i - 1 \in S /\ more[i - 1] = "--decode"
                           \/ i - 2 \in S /\ more[i - 2] # "--decode"
    <2>1. CASE i \in 1..n
      BY <1>3, <1>4, <1>7, <2>1, Zenon
    <2>2. CASE i = n + 1
      <3>1. i - 1 = n /\ i - 2 = n - 1
        BY <1>1, <2>2
      <3> QED BY <1>5, <1>7, <1>8, <2>2, <3>1, Zenon
    <2>3. i \in 1..n \/ i = n + 1
      BY <1>1
    <2> QED BY <2>1, <2>2, <2>3, Zenon
  <1>10. FlagsOf(more, S)
    BY <1>1, <1>9, Zenon DEF FlagsOf
  <1> QED BY <1>1, <1>6, <1>10, Zenon DEF more

\* A flag that is read changes the value of no other.
LEMMA FlagKeepsOthers ==
    ASSUME NEW T, NEW line \in Seq(T), NEW w \in T, NEW R \in SUBSET DOMAIN line,
           FlagNext(line, R),
           NEW flag, flag # w, flag # "--decode", NEW v, NEW absent,
           Valued(line, R, flag, v, absent)
    PROVE  Valued(Append(line, w), R \cup {Len(line) + 1}, flag, v, absent)
  <1> DEFINE n == Len(line)
             more == Append(line, w)
             S == R \cup {n + 1}
  <1>1. n \in Nat /\ R \subseteq 1..n /\ Len(more) = n + 1
        /\ (\A i \in 1..n : more[i] = line[i]) /\ more[n + 1] = w
    OBVIOUS
  <1> HIDE DEF n, more
  <1>2. CASE (\A i \in R : line[i] # flag) /\ v = absent
    <2>1. \A i \in S : more[i] # flag
      BY <1>1, <1>2, Zenon
    <2> QED BY <1>2, <2>1, Zenon DEF Valued, n, more
  <1>3. ASSUME NEW i \in R, line[i] = flag, \A j \in R : line[j] = flag => j <= i,
               v = IF i = n THEN absent ELSE line[i + 1]
        PROVE  Valued(more, S, flag, v, absent)
    <2>1. i # n
      BY <1>1, <1>3 DEF FlagNext, n
    <2>2. i \in S /\ more[i] = flag
      BY <1>1, <1>3, Zenon
    <2>3. \A j \in S : more[j] = flag => j <= i
      BY <1>1, <1>3, Zenon
    <2>4. i # Len(more) /\ v = more[i + 1]
      BY <1>1, <1>3, <2>1
    <2> HIDE DEF S
    <2> QED BY <2>2, <2>3, <2>4, Zenon DEF Valued
  <1> QED BY <1>2, <1>3, Zenon DEF Valued, n, more

\* A value that is read is that of its flag, and changes no other.
LEMMA ValueIsRead ==
    ASSUME NEW T, NEW line \in Seq(T), NEW w \in T, NEW R \in SUBSET DOMAIN line,
           NEW of, ValueNext(line, R, of), of # "--decode"
    PROVE  /\ FlagNext(Append(line, w), R)
           /\ \A absent : Valued(Append(line, w), R, of, w, absent)
           /\ \A flag, v, absent : flag # of /\ Valued(line, R, flag, v, absent)
                 => Valued(Append(line, w), R, flag, v, absent)
  <1> DEFINE n == Len(line)
             more == Append(line, w)
  <1>1. n \in Nat /\ R \subseteq 1..n /\ Len(more) = n + 1
        /\ (\A i \in 1..n : more[i] = line[i]) /\ more[n + 1] = w
    OBVIOUS
  <1>2. n \in R /\ line[n] = of
    BY Zenon DEF ValueNext
  <1> HIDE DEF n, more
  <1>3. FlagNext(more, R)
    <2>1. (n + 1) - 1 = n /\ n + 1 \notin R /\ more[n] = of
      BY <1>1, <1>2
    <2> QED BY <1>1, <1>2, <2>1, Zenon DEF FlagNext
  <1>4. ASSUME NEW absent
        PROVE  Valued(more, R, of, w, absent)
    <2>1. more[n] = of /\ n # Len(more) /\ w = more[n + 1] /\ \A j \in R : j <= n
      BY <1>1, <1>2
    <2> QED BY <1>2, <2>1, Zenon DEF Valued
  <1>5. ASSUME NEW flag, NEW v, NEW absent, flag # of, Valued(line, R, flag, v, absent)
        PROVE  Valued(more, R, flag, v, absent)
    <2>1. \A i \in R : more[i] = line[i]
      BY <1>1, Zenon
    <2>2. CASE (\A i \in R : line[i] # flag) /\ v = absent
      BY <2>1, <2>2, Zenon DEF Valued
    <2>3. ASSUME NEW i \in R, line[i] = flag, \A j \in R : line[j] = flag => j <= i,
                 v = IF i = n THEN absent ELSE line[i + 1]
          PROVE  Valued(more, R, flag, v, absent)
      <3>1. i # n /\ i # Len(more) /\ v = more[i + 1]
        BY <1>1, <1>2, <1>5, <2>3
      <3> QED BY <2>1, <2>3, <3>1, Zenon DEF Valued
    <2> QED BY <1>5, <2>2, <2>3, Zenon DEF Valued, n
  <1> QED BY <1>3, <1>4, <1>5, Zenon DEF more

\* A line that ends where a value is due gives its flag none.
LEMMA LineEnds ==
    ASSUME NEW T, NEW line \in Seq(T), NEW R \in SUBSET DOMAIN line,
           NEW of, ValueNext(line, R, of), NEW absent
    PROVE  Valued(line, R, of, absent, absent)
  BY DEF ValueNext, Valued
-----------------------------------------------------------------------------
(* The commands.                                                           *)

\* The three fields of a command, but for the one whose value is being read.
FieldsRead(S, but) ==
    /\ but # "--audience" => Valued(args, S, "--audience", cmd.audience, None)
    /\ cmd.name = "prove" =>
          /\ but # "--challenge" => Valued(args, S, "--challenge", cmd.challenge, None)
          /\ cmd.id = NoId
    /\ cmd.name = "fetch-jwt" =>
          /\ but # "--spiffe-id" => Valued(args, S, "--spiffe-id", cmd.id, NoId)
          /\ cmd.challenge = None

\* The argument loop, by step, for the words that are flags.
LineRead(S) ==
    /\ cmd.pc = "args" => FlagNext(args, S) /\ FieldsRead(S, "none")
    /\ cmd.pc = "value" => ValueNext(args, S, cmd.flag) /\ FieldsRead(S, cmd.flag)
    /\ cmd.pc \in {"required", "connect", "call"} => FieldsRead(S, "none")
    /\ cmd.pc = "ended" /\ asked # None => FieldsRead(S, "none")

\* Commands that read their line, and the line they read.
Reader == cmd.name \in {"fetch-jwt", "prove"}

LineInv ==
    Reader => /\ \E S \in SUBSET DOMAIN args : FlagsOf(args, S)
              /\ \A S \in SUBSET DOMAIN args : FlagsOf(args, S) => LineRead(S)

\* The commands' types.
CliTypes ==
    /\ args \in Seq(Words)
    /\ DOMAIN cmd = {"name", "pc", "flag", "audience", "id", "challenge", "source"}
    /\ cmd.audience \in Words \cup {None} /\ cmd.id \in Words \cup {NoId}
    /\ cmd.challenge \in Words \cup {None}
    /\ cmd.pc \in {"shell", "args", "value", "required", "connect", "call",
                   "enumerate", "install-service", "not-implemented", "ended"}
    /\ cmd.pc = "shell" => cmd = C!NoCommand /\ args = << >>
    /\ cmd.pc \in {"args", "value", "required"} => Reader
    /\ cmd.pc = "value" => cmd.flag \in C!Flags[cmd.name]
    /\ cmd.pc \in {"enumerate", "install-service"} => cmd.name = cmd.pc

\* What was asked, and what stdout holds when a command is over.
Asked == [audience |-> C!AudienceText(cmd.name, cmd.audience, cmd.challenge), id |-> cmd.id]

\* The line has what the command requires.
HasRequired == /\ cmd.audience # None
               /\ cmd.name = "prove" => cmd.challenge # None

CliAsked ==
    /\ cmd.pc \in {"shell", "args", "value", "required", "connect", "not-implemented"}
          => asked = None
    /\ cmd.pc = "call" => asked = Asked
    /\ asked # None => asked = Asked /\ (Reader => HasRequired)
    /\ cmd.pc \in {"connect", "call"} /\ Reader => HasRequired
    /\ ~Reader => cmd.id = NoId
    /\ cmd.pc \notin {"enumerate", "install-service", "ended"} => out = << >>

\* The inductive invariant of the commands.
CliInv == CliTypes /\ CliAsked /\ LineInv /\ SucceedsWithAnIdentity

\* Before the command is known.
LEMMA CliInit == C!Init => CliInv
  <1> SUFFICES ASSUME C!Init PROVE CliInv
    OBVIOUS
  <1>1. cmd = C!NoCommand /\ args = << >> /\ asked = None /\ out = << >>
    BY ZenonT(60) DEF C!Init
  <1>2. CliTypes /\ ~Reader
    BY <1>1 DEF CliTypes, C!NoCommand, Reader
  <1>3. CliAsked
    BY <1>1, <1>2, Zenon DEF CliAsked, C!NoCommand
  <1>4. SucceedsWithAnIdentity
    BY <1>1, Zenon DEF SucceedsWithAnIdentity, C!SucceedsWithAnIdentity, C!NoCommand
  <1> QED BY <1>2, <1>3, <1>4, Zenon DEF CliInv, LineInv

\* A step that leaves the line and its fields alone, once they are read.
LEMMA LineStays ==
    ASSUME CliInv, args' = args, cmd'.name = cmd.name, cmd'.audience = cmd.audience,
           cmd'.id = cmd.id, cmd'.challenge = cmd.challenge,
           \/ cmd'.pc \in {"required", "connect", "call"}
           \/ cmd'.pc = "ended" /\ asked' # None,
           \/ cmd.pc \in {"args", "required", "connect", "call"}
           \/ cmd.pc = "ended" /\ asked # None
    PROVE  LineInv'
  <1> SUFFICES ASSUME Reader'
               PROVE  /\ \E S \in SUBSET DOMAIN args' : FlagsOf(args', S)
                      /\ \A S \in SUBSET DOMAIN args' : FlagsOf(args', S) => LineRead(S)'
    BY Zenon DEF LineInv
  <1>1. Reader
    BY Zenon DEF Reader
  <1>2. ASSUME NEW S \in SUBSET DOMAIN args, FlagsOf(args, S)
        PROVE  LineRead(S)'
    <2>1. LineRead(S)
      BY <1>1, <1>2, Zenon DEF CliInv, LineInv
    <2>2. FieldsRead(S, "none")
      BY <2>1, Zenon DEF LineRead
    <2>3. FieldsRead(S, "none")'
      BY <2>2, Zenon DEF FieldsRead
    <2> QED BY <2>3, Zenon DEF LineRead
  <1>3. \E S \in SUBSET DOMAIN args : FlagsOf(args, S)
    BY <1>1, Zenon DEF CliInv, LineInv
  <1> QED BY <1>2, <1>3, Zenon

\* main picks the command; its line is not read yet.
LEMMA MainKeeps ==
    ASSUME CliInv, C!Main
    PROVE  CliInv'
  <1>1. PICK c \in {"whoami", "enumerate", "fetch-jwt", "prove", "trust-bundle",
                    "install-service", "not-implemented"} :
          cmd' = [cmd EXCEPT !.name = c,
              !.pc = CASE c \in DOMAIN C!Flags -> "args"
                       [] c \in {"whoami", "trust-bundle"} -> "connect"
                       [] OTHER -> c]
    BY Zenon DEF C!Main
  <1>2. cmd = C!NoCommand /\ args = << >> /\ asked = None /\ out = << >>
        /\ args' = args /\ asked' = asked /\ out' = out
    BY Zenon DEF C!Main, C!Quiet, CliInv, CliTypes, CliAsked
  <1>3. DOMAIN C!Flags = {"fetch-jwt", "prove"}
    BY Zenon DEF C!Flags
  <1>4. /\ DOMAIN cmd' = {"name", "pc", "flag", "audience", "id", "challenge", "source"}
        /\ cmd'.name = c /\ cmd'.audience = None /\ cmd'.id = NoId /\ cmd'.challenge = None
        /\ cmd'.pc = IF c \in {"fetch-jwt", "prove"} THEN "args"
                     ELSE IF c \in {"whoami", "trust-bundle"} THEN "connect" ELSE c
    BY <1>1, <1>2, <1>3, Zenon DEF C!NoCommand
  <1>5. CliTypes'
    BY <1>2, <1>4 DEF CliTypes, Reader
  <1>6. CliAsked'
    BY <1>2, <1>4, Zenon DEF CliAsked, Reader, HasRequired
  <1>7. LineInv'
    <2>1. DOMAIN args' = {} /\ Len(args') = 0
      BY <1>2
    <2>2. FlagsOf(args', {})
      BY <2>1, Zenon DEF FlagsOf
    <2>3. ASSUME NEW S \in SUBSET DOMAIN args'
          PROVE  FlagNext(args', S) /\ \A flag, absent : Valued(args', S, flag, absent, absent)
      BY <2>1, Zenon DEF FlagNext, Valued
    <2>4. ASSUME NEW S \in SUBSET DOMAIN args'
          PROVE  Reader' => LineRead(S)'
      <3>1. FieldsRead(S, "none")'
        BY <1>4, <2>3, Zenon DEF FieldsRead
      <3> QED BY <1>4, <2>3, <3>1, Zenon DEF LineRead, Reader
    <2> QED BY <2>1, <2>2, <2>4, Zenon DEF LineInv
  <1>8. SucceedsWithAnIdentity'
    BY <1>4, Zenon DEF SucceedsWithAnIdentity, C!SucceedsWithAnIdentity
  <1> QED BY <1>5, <1>6, <1>7, <1>8, Zenon DEF CliInv

\* A flag, --decode, or a word that ends the command.
LEMMA ReadFlagKeeps ==
    ASSUME CliInv, C!ReadFlag
    PROVE  CliInv'
  <1>1. PICK w \in Words :
          /\ args' = Append(args, w)
          /\ \/ /\ w \in C!Flags[cmd.name]
                /\ cmd' = [cmd EXCEPT !.pc = "value", !.flag = w]
                /\ C!Quiet
             \/ /\ w = "--decode" /\ cmd.name = "fetch-jwt"
                /\ UNCHANGED cmd /\ C!Quiet
             \/ /\ exit' = 1 /\ C!Become("ended")
                /\ UNCHANGED <<daemon, changes, asked, out, found, unit>>
    BY Zenon DEF C!ReadFlag
  <1>2. cmd.pc = "args" /\ Reader /\ CliTypes /\ CliAsked /\ args \in Seq(Words)
        /\ asked = None /\ out = << >>
    BY Zenon DEF C!ReadFlag, CliInv, CliTypes, CliAsked
  <1>3. asked' = asked /\ out' = out
    BY <1>1, Zenon DEF C!Quiet
  <1>4. args' \in Seq(Words)
    BY <1>1, <1>2
  <1>5. /\ DOMAIN cmd' = DOMAIN cmd
        /\ cmd'.name = cmd.name /\ cmd'.audience = cmd.audience
        /\ cmd'.id = cmd.id /\ cmd'.challenge = cmd.challenge
    BY <1>1, <1>2, Zenon DEF C!Become, CliTypes
  <1>6. \/ cmd'.pc = "value" /\ cmd'.flag = w /\ w \in C!Flags[cmd.name]
        \/ cmd'.pc = "args" /\ w = "--decode"
        \/ cmd'.pc = "ended" /\ exit' = 1
    BY <1>1, <1>2, Zenon DEF C!Become, CliTypes
  <1>7. CliTypes'
    BY <1>2, <1>4, <1>5, <1>6, Zenon DEF CliTypes, Reader
  <1>8. CliAsked'
    BY <1>2, <1>3, <1>5, <1>6, Zenon DEF CliAsked, Reader, HasRequired
  <1>9. SucceedsWithAnIdentity'
    BY <1>2, <1>3, <1>6 DEF SucceedsWithAnIdentity, C!SucceedsWithAnIdentity
  <1>10. \E S \in SUBSET DOMAIN args' : FlagsOf(args', S)
    <2>1. PICK R \in SUBSET DOMAIN args : FlagsOf(args, R)
      BY <1>2, Zenon DEF CliInv, LineInv
    <2> QED BY <1>1, <1>2, <2>1, WordFits, Zenon
  <1>11. ASSUME NEW S \in SUBSET DOMAIN args', FlagsOf(args', S)
         PROVE  LineRead(S)'
    <2>1. PICK R \in SUBSET DOMAIN args : Before(args, R, S)
      <3>1. S \in SUBSET DOMAIN Append(args, w) /\ FlagsOf(Append(args, w), S)
        BY <1>1, <1>11, Zenon
      <3> QED BY <1>2, <3>1, WordRead, Zenon
    <2>2. LineRead(R)
      BY <1>2, <2>1, Zenon DEF CliInv, LineInv, Before
    <2>3. FlagNext(args, R) /\ FieldsRead(R, "none")
      BY <1>2, <2>2, Zenon DEF LineRead
    <2>4. S = R \cup {Len(args) + 1}
      BY <2>1, <2>3, Zenon DEF Before
    <2>5. \A flag, v, absent :
             flag # w /\ flag # "--decode" /\ Valued(args, R, flag, v, absent)
                => Valued(args', S, flag, v, absent)
      BY <1>1, <1>2, <2>3, <2>4, FlagKeepsOthers, Zenon
    <2>6. ASSUME NEW but, w = but \/ w = "--decode"
          PROVE  FieldsRead(S, but)'
      BY <1>5, <2>3, <2>5, <2>6, Zenon DEF FieldsRead
    <2>7. CASE cmd'.pc = "value" /\ cmd'.flag = w
      <3>1. ValueNext(args', S, w)
        <4>1. Len(args) \in Nat /\ Len(args') = Len(args) + 1 /\ args'[Len(args')] = w
              /\ (\A i \in DOMAIN args : args'[i] = args[i]) /\ (Len(args) + 1) - 1 = Len(args)
          BY <1>1, <1>2
        <4>2. Len(args) \in R => args[Len(args)] = "--decode"
          BY <2>3, <4>1 DEF FlagNext
        <4>3. Len(args) \in S => Len(args) \in R
          <5>1. Len(args) # Len(args) + 1
            <6>1. Len(args) \in Nat
              BY <4>1, Zenon
            <6> QED BY <6>1
          <5> QED BY <2>4, <5>1, Zenon
        <4>4. Len(args) \in R => args'[Len(args)] = args[Len(args)]
          BY <4>1, Zenon
        <4> QED BY <2>4, <4>1, <4>2, <4>3, <4>4, Zenon DEF ValueNext
      <3>2. FieldsRead(S, w)'
        BY <2>6, Zenon
      <3> QED BY <2>7, <3>1, <3>2, Zenon DEF LineRead
    <2>8. CASE cmd'.pc = "args" /\ w = "--decode"
      <3>1. FlagNext(args', S)
        BY <1>1, <1>2, <2>4, <2>8 DEF FlagNext
      <3>2. FieldsRead(S, "none")'
        BY <2>6, <2>8, Zenon
      <3> QED BY <2>8, <3>1, <3>2, Zenon DEF LineRead
    <2>9. CASE cmd'.pc = "ended"
      BY <1>2, <1>3, <2>9, Zenon DEF LineRead
    <2> QED BY <1>6, <2>7, <2>8, <2>9, Zenon
  <1> QED BY <1>7, <1>8, <1>9, <1>10, <1>11, Zenon DEF CliInv, LineInv
\* The value of a flag, or the end of the line where it is due.
LEMMA ReadValueKeeps ==
    ASSUME CliInv, C!ReadValue
    PROVE  CliInv'
  <1> DEFINE field == C!Field[cmd.flag]
  <1>1. cmd.pc = "value" /\ Reader /\ CliTypes /\ CliAsked /\ args \in Seq(Words)
        /\ asked = None /\ out = << >> /\ asked' = asked /\ out' = out
    BY Zenon DEF C!ReadValue, C!Quiet, CliInv, CliTypes, CliAsked
  <1>2. \/ cmd.flag = "--audience" /\ field = "audience"
        \/ cmd.flag = "--spiffe-id" /\ field = "id" /\ cmd.name = "fetch-jwt"
        \/ cmd.flag = "--challenge" /\ field = "challenge" /\ cmd.name = "prove"
    BY <1>1, Zenon DEF CliTypes, Reader, C!Flags, C!Field
  <1>3. \/ \E w \in Words : /\ args' = Append(args, w)
                            /\ cmd' = [cmd EXCEPT !.pc = "args", ![field] = w]
        \/ /\ cmd' = [cmd EXCEPT !.pc = "required",
                 ![field] = IF cmd.flag = "--spiffe-id" THEN NoId ELSE None]
           /\ args' = args
    BY Zenon DEF C!ReadValue
  <1> HIDE DEF field
  <1>4. \E v : /\ cmd' = [cmd EXCEPT !.pc = cmd'.pc, ![field] = v]
               /\ \/ cmd'.pc = "args" /\ v \in Words /\ args' = Append(args, v)
                  \/ /\ cmd'.pc = "required" /\ args' = args
                     /\ v = IF cmd.flag = "--spiffe-id" THEN NoId ELSE None
    BY <1>1, <1>2, <1>3, Zenon DEF CliTypes
  <1>5. PICK v : /\ cmd' = [cmd EXCEPT !.pc = cmd'.pc, ![field] = v]
                 /\ \/ cmd'.pc = "args" /\ v \in Words /\ args' = Append(args, v)
                    \/ /\ cmd'.pc = "required" /\ args' = args
                       /\ v = IF cmd.flag = "--spiffe-id" THEN NoId ELSE None
    BY <1>4, Zenon
  <1>6. /\ DOMAIN cmd' = DOMAIN cmd
        /\ cmd'.name = cmd.name /\ cmd'.flag = cmd.flag
        /\ cmd'.audience = IF field = "audience" THEN v ELSE cmd.audience
        /\ cmd'.id = IF field = "id" THEN v ELSE cmd.id
        /\ cmd'.challenge = IF field = "challenge" THEN v ELSE cmd.challenge
    BY <1>1, <1>2, <1>5, Zenon DEF CliTypes
  <1>7. args' \in Seq(Words)
    BY <1>1, <1>5
  <1>8. CliTypes'
    BY <1>1, <1>2, <1>5, <1>6, <1>7, Zenon DEF CliTypes, Reader
  <1>9. CliAsked'
    BY <1>1, <1>5, <1>6, Zenon DEF CliAsked, Reader, HasRequired
  <1>10. SucceedsWithAnIdentity'
    BY <1>5, Zenon DEF SucceedsWithAnIdentity, C!SucceedsWithAnIdentity
  <1>11. PICK Q \in SUBSET DOMAIN args : FlagsOf(args, Q)
    BY <1>1, Zenon DEF CliInv, LineInv
  <1>12. \E S \in SUBSET DOMAIN args' : FlagsOf(args', S)
    <2>1. CASE args' = args
      BY <1>11, <2>1, Zenon
    <2>2. CASE v \in Words /\ args' = Append(args, v)
      BY <1>1, <1>11, <2>2, WordFits, Zenon
    <2> QED BY <1>5, <2>1, <2>2, Zenon
  <1>13. cmd.flag # "--decode"
    BY <1>2, Zenon
  <1>14. ASSUME NEW S \in SUBSET DOMAIN args', FlagsOf(args', S)
         PROVE  LineRead(S)'
    <2>1. CASE cmd'.pc = "args" /\ v \in Words /\ args' = Append(args, v)
      <3>1. S \in SUBSET DOMAIN Append(args, v) /\ FlagsOf(Append(args, v), S)
        BY <1>14, <2>1, Zenon
      <3>2. PICK R \in SUBSET DOMAIN args : Before(args, R, S)
        BY <1>1, <2>1, <3>1, WordRead, Zenon
      <3>3. LineRead(R)
        BY <1>1, <3>2, Zenon DEF CliInv, LineInv, Before
      <3>4. ValueNext(args, R, cmd.flag) /\ FieldsRead(R, cmd.flag)
        BY <1>1, <3>3, Zenon DEF LineRead
      <3>5. S = R
        BY <1>13, <3>2, <3>4, Zenon DEF Before
      <3>6. /\ FlagNext(args', S)
            /\ \A absent : Valued(args', S, cmd.flag, v, absent)
            /\ \A flag, u, absent : flag # cmd.flag /\ Valued(args, S, flag, u, absent)
                  => Valued(args', S, flag, u, absent)
        BY <1>1, <1>13, <2>1, <3>4, <3>5, ValueIsRead, Zenon
      <3>7. FieldsRead(S, "none")'
        BY <1>2, <1>6, <3>4, <3>5, <3>6, Zenon DEF FieldsRead
      <3> QED BY <2>1, <3>6, <3>7, Zenon DEF LineRead
    <2>2. CASE /\ cmd'.pc = "required" /\ args' = args
               /\ v = IF cmd.flag = "--spiffe-id" THEN NoId ELSE None
      <3>1. S \in SUBSET DOMAIN args /\ FlagsOf(args, S)
        BY <1>14, <2>2, Zenon
      <3>2. LineRead(S)
        BY <1>1, <3>1, Zenon DEF CliInv, LineInv
      <3>3. ValueNext(args, S, cmd.flag) /\ FieldsRead(S, cmd.flag)
        BY <1>1, <3>2, Zenon DEF LineRead
      <3>4. Valued(args', S, cmd.flag, v, v)
        BY <1>1, <2>2, <3>1, <3>3, LineEnds, Zenon
      <3>5. FieldsRead(S, "none")'
        BY <1>2, <1>6, <2>2, <3>3, <3>4, Zenon DEF FieldsRead
      <3> QED BY <2>2, <3>5, Zenon DEF LineRead
    <2> QED BY <1>5, <2>1, <2>2, Zenon
  <1> QED BY <1>8, <1>9, <1>10, <1>12, <1>14, Zenon DEF CliInv, LineInv

\* An error before anything was asked ends the command with nothing on stdout.
LEMMA ErrorKeeps ==
    ASSUME CliInv, C!Exit(1, << >>), cmd.pc \notin {"shell", "enumerate", "install-service", "ended"}
    PROVE  CliInv'
  <1>1. args' = args /\ asked' = asked /\ exit' = 1 /\ out' = out \o << >>
        /\ cmd' = [cmd EXCEPT !.pc = "ended"]
    BY Zenon DEF C!Exit, C!Become
  <1>2. CliTypes /\ CliAsked /\ out = << >>
    BY Zenon DEF CliInv, CliAsked
  <1>3. out' = << >>
    BY <1>1, <1>2
  <1>4. /\ DOMAIN cmd' = DOMAIN cmd /\ cmd'.pc = "ended"
        /\ cmd'.name = cmd.name /\ cmd'.audience = cmd.audience
        /\ cmd'.id = cmd.id /\ cmd'.challenge = cmd.challenge
    BY <1>1, <1>2, Zenon DEF CliTypes
  <1>5. CliTypes'
    BY <1>1, <1>2, <1>4, Zenon DEF CliTypes
  <1>6. CliAsked'
    BY <1>1, <1>2, <1>4, Zenon DEF CliAsked, Asked, Reader, HasRequired
  <1>7. SucceedsWithAnIdentity'
    BY <1>1, <1>3 DEF SucceedsWithAnIdentity, C!SucceedsWithAnIdentity
  <1>8. LineInv'
    <2>1. CASE asked # None
      <3>1. cmd.pc \in {"args", "required", "connect", "call"}
        BY <1>2, <2>1, Zenon DEF CliTypes, CliAsked
      <3> QED BY <1>1, <1>4, <2>1, <3>1, LineStays, Zenon
    <2>2. CASE asked = None
      <3>1. \A S : LineRead(S)'
        BY <1>1, <1>4, <2>2, Zenon DEF LineRead
      <3>2. Reader' = Reader
        BY <1>4, Zenon DEF Reader
      <3> QED BY <1>1, <3>1, <3>2, Zenon DEF CliInv, LineInv
    <2> QED BY <2>1, <2>2, Zenon
  <1> QED BY <1>5, <1>6, <1>7, <1>8, Zenon DEF CliInv
\* A command that asks for no identity goes on, or ends, whatever it prints.
LEMMA OtherKeeps ==
    ASSUME CliInv, cmd.name \in {"enumerate", "install-service", "trust-bundle"},
           args' = args, asked' = asked, DOMAIN cmd' = DOMAIN cmd, cmd'.name = cmd.name,
           cmd'.audience = cmd.audience, cmd'.id = cmd.id, cmd'.challenge = cmd.challenge,
           cmd'.pc = "ended" \/ (cmd.pc = "enumerate" /\ cmd'.pc = cmd.pc)
    PROVE  CliInv'
  <1>1. CliTypes /\ CliAsked /\ ~Reader
    BY Zenon DEF CliInv, Reader
  <1>2. CliTypes'
    BY <1>1, Zenon DEF CliTypes, Reader
  <1>3. CliAsked'
    BY <1>1, Zenon DEF CliAsked, Asked, Reader, HasRequired
  <1>4. LineInv'
    BY <1>1, Zenon DEF LineInv, Reader
  <1>5. SucceedsWithAnIdentity'
    BY Zenon DEF SucceedsWithAnIdentity, C!SucceedsWithAnIdentity
  <1> QED BY <1>2, <1>3, <1>4, <1>5, Zenon DEF CliInv

\* enumerate, attestor by attestor.
LEMMA EnumerateKeeps ==
    ASSUME CliInv, C!Enumerate
    PROVE  CliInv'
  <1>1. /\ cmd.pc = "enumerate" /\ args' = args /\ asked' = asked
        /\ \/ cmd' = [cmd EXCEPT !.pc = "ended"]
           \/ cmd' = [cmd EXCEPT !.source = @ + 1]
    BY Zenon DEF C!Enumerate, C!Exit, C!Become
  <1>2. CliTypes /\ cmd.name = "enumerate"
    BY <1>1, Zenon DEF CliInv, CliTypes
  <1>3. /\ DOMAIN cmd' = DOMAIN cmd /\ cmd'.name = cmd.name
        /\ cmd'.audience = cmd.audience /\ cmd'.id = cmd.id /\ cmd'.challenge = cmd.challenge
        /\ cmd'.pc = "ended" \/ cmd'.pc = cmd.pc
    BY <1>1, <1>2, Zenon DEF CliTypes
  <1> QED BY <1>1, <1>2, <1>3, OtherKeeps, Zenon

\* install-service, written in part, in whole or not.
LEMMA InstallServiceKeeps ==
    ASSUME CliInv, C!InstallService
    PROVE  CliInv'
  <1>1. /\ cmd.pc = "install-service" /\ args' = args /\ asked' = asked
        /\ cmd' = [cmd EXCEPT !.pc = "ended"]
    BY Zenon DEF C!InstallService, C!Exit, C!Become
  <1>2. CliTypes /\ cmd.name = "install-service"
    BY <1>1, Zenon DEF CliInv, CliTypes
  <1>3. /\ DOMAIN cmd' = DOMAIN cmd /\ cmd'.name = cmd.name
        /\ cmd'.audience = cmd.audience /\ cmd'.id = cmd.id /\ cmd'.challenge = cmd.challenge
        /\ cmd'.pc = "ended"
    BY <1>1, <1>2, Zenon DEF CliTypes
  <1> QED BY <1>2, <1>1, <1>3, OtherKeeps, Zenon

\* trust-bundle list.
LEMMA TrustBundleKeeps ==
    ASSUME CliInv, C!TrustBundleList
    PROVE  CliInv'
  <1>1. /\ cmd.name = "trust-bundle" /\ args' = args /\ asked' = asked
        /\ cmd' = [cmd EXCEPT !.pc = "ended"]
    BY Zenon DEF C!TrustBundleList, C!Exit, C!Become
  <1>2. /\ DOMAIN cmd' = DOMAIN cmd /\ cmd'.name = cmd.name
        /\ cmd'.audience = cmd.audience /\ cmd'.id = cmd.id /\ cmd'.challenge = cmd.challenge
        /\ cmd'.pc = "ended"
    BY <1>1, Zenon DEF CliInv, CliTypes
  <1> QED BY <1>1, <1>2, OtherKeeps, Zenon

\* The end of the line, and the check of what it must have.
LEMMA ArgsEndKeeps ==
    ASSUME CliInv, C!ArgsEnd \/ C!Required
    PROVE  CliInv'
  <1>1. \/ C!Exit(1, << >>) /\ cmd.pc = "required"
        \/ /\ cmd.pc \in {"args", "required"} /\ args' = args /\ asked' = asked /\ out' = out
           /\ \/ cmd' = [cmd EXCEPT !.pc = "required"]
              \/ HasRequired /\ cmd' = [cmd EXCEPT !.pc = "connect"]
    BY Zenon DEF C!ArgsEnd, C!Required, C!Become, C!Quiet, HasRequired
  <1>2. CASE C!Exit(1, << >>) /\ cmd.pc = "required"
    BY <1>2, ErrorKeeps, Zenon
  <1>3. CASE /\ cmd.pc \in {"args", "required"} /\ args' = args /\ asked' = asked /\ out' = out
             /\ \/ cmd' = [cmd EXCEPT !.pc = "required"]
                \/ HasRequired /\ cmd' = [cmd EXCEPT !.pc = "connect"]
    <2>1. CliTypes /\ CliAsked /\ Reader /\ out = << >> /\ asked = None
      BY <1>3, Zenon DEF CliInv, CliTypes, CliAsked
    <2>2. /\ DOMAIN cmd' = DOMAIN cmd /\ cmd'.name = cmd.name
          /\ cmd'.audience = cmd.audience /\ cmd'.id = cmd.id /\ cmd'.challenge = cmd.challenge
          /\ cmd'.pc = "required" \/ (HasRequired /\ cmd'.pc = "connect")
      BY <1>3, <2>1, Zenon DEF CliTypes
    <2>3. CliTypes'
      BY <1>3, <2>1, <2>2, Zenon DEF CliTypes, Reader
    <2>4. CliAsked'
      BY <1>3, <2>1, <2>2, Zenon DEF CliAsked, Reader, HasRequired
    <2>5. LineInv'
      BY <1>3, <2>2, LineStays, Zenon
    <2>6. SucceedsWithAnIdentity'
      BY <2>2, Zenon DEF SucceedsWithAnIdentity, C!SucceedsWithAnIdentity
    <2> QED BY <2>3, <2>4, <2>5, <2>6, Zenon DEF CliInv
  <1> QED BY <1>1, <1>2, <1>3, Zenon

\* connect_to_daemon, and the request it sends.
LEMMA ConnectKeeps ==
    ASSUME CliInv, C!Connect
    PROVE  CliInv'
  <1>1. CASE C!Exit(1, << >>) /\ cmd.pc = "connect"
    BY <1>1, ErrorKeeps, Zenon
  <1>2. CASE /\ cmd.pc = "connect" /\ args' = args /\ out' = out /\ asked' = Asked
             /\ cmd' = [cmd EXCEPT !.pc = "call"]
    <2>1. CliTypes /\ CliAsked /\ out = << >>
      BY <1>2, Zenon DEF CliInv, CliAsked
    <2>2. /\ DOMAIN cmd' = DOMAIN cmd /\ cmd'.name = cmd.name /\ cmd'.pc = "call"
          /\ cmd'.audience = cmd.audience /\ cmd'.id = cmd.id /\ cmd'.challenge = cmd.challenge
      BY <1>2, <2>1, Zenon DEF CliTypes
    <2>3. CliTypes'
      BY <1>2, <2>1, <2>2, Zenon DEF CliTypes, Reader
    <2>4. asked' = Asked'
      BY <1>2, <2>2, Zenon DEF Asked
    <2>5. CliAsked'
      BY <1>2, <2>1, <2>2, <2>4, Zenon DEF CliAsked, Reader, HasRequired
    <2>6. LineInv'
      BY <1>2, <2>2, LineStays, Zenon
    <2>7. SucceedsWithAnIdentity'
      BY <2>2, Zenon DEF SucceedsWithAnIdentity, C!SucceedsWithAnIdentity
    <2> QED BY <2>3, <2>5, <2>6, <2>7, Zenon DEF CliInv
  <1> QED BY <1>1, <1>2, Zenon DEF C!Connect, C!Become, Asked

\* Every audience that is sent is a text.
LEMMA TextsOfPieces ==
    ASSUME NEW name \in {"whoami", "fetch-jwt", "prove"}, NEW audience, NEW challenge,
           name \in {"fetch-jwt", "prove"} => audience \in Words,
           name = "prove" => challenge \in Words
    PROVE  C!AudienceText(name, audience, challenge) \in Seq(Pieces)
  <1>1. "?" \in Pieces /\ "challenge=" \in Pieces /\ "hire:whoami" \in Pieces
    BY Zenon DEF Pieces
  <1>2. \A w \in Words : Spelling[w] \in Seq(Pieces)
    BY SpellingAssumption, Zenon
  <1>3. CASE name = "whoami"
    BY <1>1, <1>3 DEF C!AudienceText
  <1>4. CASE name = "fetch-jwt"
    <2>1. C!AudienceText(name, audience, challenge) = Spelling[audience]
      BY <1>4 DEF C!AudienceText
    <2> QED BY <1>2, <1>4, <2>1, Zenon
  <1>5. CASE name = "prove"
    <2>1. C!AudienceText(name, audience, challenge)
            = Spelling[audience] \o <<"?", "challenge=">> \o Spelling[challenge]
      BY <1>5, Zenon DEF C!AudienceText
    <2>2. Spelling[audience] \in Seq(Pieces) /\ Spelling[challenge] \in Seq(Pieces)
      BY <1>2, <1>5, Zenon
    <2>3. <<"?", "challenge=">> \in Seq(Pieces)
      BY <1>1
    <2> QED BY <2>1, <2>2, <2>3
  <1> QED BY <1>3, <1>4, <1>5, Zenon

\* The answer: a refusal, or identities, of which the named one is alone.
LEMMA AnsweredKeeps ==
    ASSUME CliInv, NEW id, NEW all \in BOOLEAN, C!Answered(id, all), cmd.pc = "call",
           cmd.name \in {"whoami", "fetch-jwt", "prove"}, id = asked.id \/ asked.id = NoId
    PROVE  CliInv'
  <1>1. PICK svids \in C!Answers(id) :
           \/ C!Exit(1, << >>)
           \/ svids # C!Refused /\ C!Exit(0, IF all THEN svids ELSE <<svids[1]>>)
    BY Zenon DEF C!Answered
  <1>2. CASE C!Exit(1, << >>)
    BY <1>2, ErrorKeeps, Zenon
  <1>3. CASE svids # C!Refused /\ C!Exit(0, IF all THEN svids ELSE <<svids[1]>>)
    <2> DEFINE lines == IF all THEN svids ELSE <<svids[1]>>
    <2>1. args' = args /\ asked' = asked /\ exit' = 0 /\ out' = out \o lines
          /\ cmd' = [cmd EXCEPT !.pc = "ended"]
      BY <1>3, Zenon DEF C!Exit, C!Become
    <2>2. CliTypes /\ CliAsked /\ out = << >> /\ asked = Asked
      BY Zenon DEF CliInv, CliAsked
    <2>3. \/ \E i : svids = <<i>> /\ (id # NoId => i = id)
          \/ id = NoId /\ \E i, j : svids = <<i, j>>
      BY <1>3 DEF C!Answers, C!Refused
    <2>4. \/ \E i : lines = <<i>> /\ (id # NoId => i = id)
          \/ id = NoId /\ \E i, j : lines = <<i, j>>
      BY <2>3
    <2> HIDE DEF lines
    <2>5. out' # << >> /\ (id # NoId => out' = <<id>>)
      BY <2>1, <2>2, <2>4, SMTT(60)
    <2>6. /\ DOMAIN cmd' = DOMAIN cmd /\ cmd'.pc = "ended"
          /\ cmd'.name = cmd.name /\ cmd'.audience = cmd.audience
          /\ cmd'.id = cmd.id /\ cmd'.challenge = cmd.challenge
      BY <2>1, <2>2, Zenon DEF CliTypes
    <2>7. CliTypes'
      BY <2>1, <2>2, <2>6, Zenon DEF CliTypes
    <2>8. CliAsked'
      BY <2>1, <2>2, <2>6, Zenon DEF CliAsked, Asked, Reader, HasRequired
    <2>9. asked # None
      <3>1. C!AudienceText(cmd.name, cmd.audience, cmd.challenge) \in Seq(Pieces)
        <4>1. Reader => cmd.audience \in Words /\ (cmd.name = "prove" => cmd.challenge \in Words)
          BY <2>2, Zenon DEF CliTypes, CliAsked, HasRequired
        <4> QED BY <4>1, TextsOfPieces, Zenon DEF Reader
      <3>2. cmd.id \in Words \cup {NoId}
        BY <2>2, Zenon DEF CliTypes
      <3>3. Asked \in [audience : Seq(Pieces), id : Words \cup {NoId}]
        BY <3>1, <3>2, Zenon DEF Asked
      <3> QED BY <2>2, <3>3, NoneAssumption, Zenon
    <2>10. SucceedsWithAnIdentity'
      BY <2>1, <2>5, <2>9, Zenon DEF SucceedsWithAnIdentity, C!SucceedsWithAnIdentity
    <2>11. LineInv'
      BY <2>1, <2>6, <2>9, LineStays, Zenon
    <2> QED BY <2>7, <2>8, <2>10, <2>11, Zenon DEF CliInv
  <1> QED BY <1>1, <1>2, <1>3, Zenon

\* Every step of a command, and of hired, keeps the invariant.
LEMMA CliNext == CliInv /\ [C!Next]_(C!vars) => CliInv'
  <1> SUFFICES ASSUME CliInv, [C!Next]_(C!vars) PROVE CliInv'
    OBVIOUS
  <1>1. CASE C!Whoami \/ C!FetchJwt \/ C!Prove
    <2>1. cmd.pc = "call" /\ cmd.name \in {"whoami", "fetch-jwt", "prove"}
      BY <1>1, Zenon DEF C!Whoami, C!FetchJwt, C!Prove
    <2>2. C!FetchJwt \/ asked.id = NoId
      <3>1. asked = Asked /\ (cmd.name # "fetch-jwt" => cmd.id = NoId)
        <4>1. asked = Asked /\ (cmd.name = "whoami" => cmd.id = NoId)
          BY <2>1, Zenon DEF CliInv, CliAsked, Reader
        <4>2. ASSUME cmd.name = "prove" PROVE cmd.id = NoId
          <5>1. PICK S : LineRead(S)
            BY <4>2, Zenon DEF CliInv, LineInv, Reader
          <5> QED BY <2>1, <4>2, <5>1, Zenon DEF LineRead, FieldsRead
        <4> QED BY <2>1, <4>1, <4>2, Zenon
      <3>2. cmd.name = "fetch-jwt" => C!FetchJwt
        BY <1>1, Zenon DEF C!Whoami, C!Prove
      <3> QED BY <3>1, <3>2, Zenon DEF Asked
    <2> QED BY <1>1, <2>1, <2>2, AnsweredKeeps, Zenon DEF C!Whoami, C!FetchJwt, C!Prove
  <1>2. CASE C!NotImplemented
    BY <1>2, ErrorKeeps, Zenon DEF C!NotImplemented
  <1>3. CASE UNCHANGED C!cliVars
    <2>1. args' = args /\ cmd' = cmd /\ asked' = asked /\ out' = out /\ exit' = exit
      BY <1>3, Zenon DEF C!cliVars
    <2>2. CliTypes' /\ CliAsked'
      BY <2>1, Zenon DEF CliInv, CliTypes, CliAsked, Asked, Reader, HasRequired
    <2>3. SucceedsWithAnIdentity'
      BY <2>1, Zenon DEF CliInv, SucceedsWithAnIdentity, C!SucceedsWithAnIdentity
    <2>4. LineInv'
      BY <2>1, ZenonT(60) DEF CliInv, LineInv, LineRead, FieldsRead, Reader
    <2> QED BY <2>2, <2>3, <2>4, Zenon DEF CliInv
  <1>4. UNCHANGED C!vars => UNCHANGED C!cliVars
    BY Zenon DEF C!vars
  <1> QED BY <1>1, <1>2, <1>3, <1>4, MainKeeps, ReadFlagKeeps, ReadValueKeeps, ArgsEndKeeps,
             ConnectKeeps, TrustBundleKeeps, EnumerateKeeps, InstallServiceKeeps, Zenon
          DEF C!Next, C!Step

\* The commands keep their invariant.
LEMMA CliInvariance == C!Spec => []CliInv
  BY CliInit, CliNext, PTL DEF C!Spec

\* What is asked of hired is what the command line says, for lines of any length
\* (fetch_jwt and prove in hire/src/main.rs).
THEOREM LineIsAsked == C!Spec => []RequestIsTheLine
  <1>1. ASSUME CliInv PROVE RequestIsTheLine
    <2> DEFINE audience == C!OnTheLine("--audience", None)
               challenge == C!OnTheLine("--challenge", None)
    <2> SUFFICES ASSUME asked # None, cmd.name \in DOMAIN C!Flags
                 PROVE  /\ audience # None
                        /\ cmd.name = "fetch-jwt" => /\ asked.audience = Spelling[audience]
                                                    /\ asked.id = C!OnTheLine("--spiffe-id", NoId)
                        /\ cmd.name = "prove" =>
                              /\ challenge # None /\ asked.id = NoId
                              /\ asked.audience = Spelling[audience] \o <<"?", "challenge=">>
                                                    \o Spelling[challenge]
      BY Zenon DEF RequestIsTheLine, C!RequestIsTheLine
    <2>1. CliInv /\ CliTypes /\ Reader
      BY <1>1, Zenon DEF CliInv, Reader, C!Flags
    <2>2. asked = Asked /\ HasRequired
      BY <2>1, Zenon DEF CliInv, CliAsked
    <2> DEFINE S == CHOOSE S \in SUBSET DOMAIN args : C!AreFlags(S)
    <2>3. \A R : C!AreFlags(R) <=> FlagsOf(args, R)
      BY Zenon DEF C!AreFlags, FlagsOf
    <2>4. S \in SUBSET DOMAIN args /\ FlagsOf(args, S)
      <3>1. \E R \in SUBSET DOMAIN args : C!AreFlags(R)
        BY <2>1, <2>3, Zenon DEF CliInv, LineInv
      <3> QED BY <2>3, <3>1, Zenon
    <2> HIDE DEF S
    <2>5. FieldsRead(S, "none")
      <3>1. LineRead(S)
        BY <2>1, <2>4, Zenon DEF CliInv, LineInv
      <3>2. cmd.pc \in {"call", "ended"}
        BY <2>1, Zenon DEF CliInv, CliAsked, CliTypes, Reader
      <3> QED BY <3>1, <3>2, Zenon DEF LineRead
    <2>6. ASSUME NEW flag, NEW v, NEW absent, Valued(args, S, flag, v, absent)
          PROVE  v = C!OnTheLine(flag, absent)
      <3> DEFINE uses == {i \in S : args[i] = flag}
                 last == CHOOSE i \in uses : \A j \in uses : j <= i
      <3>1. C!OnTheLine(flag, absent)
              = IF uses = {} \/ last = Len(args) THEN absent ELSE args[last + 1]
        BY Zenon DEF C!OnTheLine, S
      <3>2. CASE (\A i \in S : args[i] # flag) /\ v = absent
        BY <3>1, <3>2, Zenon
      <3>3. ASSUME NEW i \in S, args[i] = flag, \A j \in S : args[j] = flag => j <= i,
                   v = IF i = Len(args) THEN absent ELSE args[i + 1]
            PROVE  v = C!OnTheLine(flag, absent)
        <4>1. i \in uses /\ \A j \in uses : j <= i
          BY <3>3, Zenon
        <4>2. last \in uses /\ \A j \in uses : j <= last
          BY <4>1, Zenon
        <4>3. \A j \in uses : j \in Nat
          BY <2>1, <2>4 DEF CliTypes
        <4> HIDE DEF uses, last
        <4>4. last = i
          BY <4>1, <4>2, <4>3
        <4> QED BY <3>1, <3>3, <4>1, <4>4, Zenon
      <3> QED BY <2>6, <3>2, <3>3, Zenon DEF Valued
    <2>7. "none" # "--audience" /\ "none" # "--challenge" /\ "none" # "--spiffe-id"
      OBVIOUS
    <2>8. cmd.audience = C!OnTheLine("--audience", None)
      <3>1. Valued(args, S, "--audience", cmd.audience, None)
        BY <2>5, <2>7, Zenon DEF FieldsRead
      <3> QED BY <2>6, <3>1, Zenon
    <2>9. cmd.name = "prove" => cmd.id = NoId /\ cmd.challenge = C!OnTheLine("--challenge", None)
      <3>1. cmd.name = "prove"
              => cmd.id = NoId /\ Valued(args, S, "--challenge", cmd.challenge, None)
        BY <2>5, <2>7, Zenon DEF FieldsRead
      <3> QED BY <2>6, <3>1, Zenon
    <2>10. cmd.name = "fetch-jwt"
             => cmd.challenge = None /\ cmd.id = C!OnTheLine("--spiffe-id", NoId)
      <3>1. cmd.name = "fetch-jwt"
              => cmd.challenge = None /\ Valued(args, S, "--spiffe-id", cmd.id, NoId)
        BY <2>5, <2>7, Zenon DEF FieldsRead
      <3> QED BY <2>6, <3>1, Zenon
    <2>11. /\ asked.audience = C!AudienceText(cmd.name, cmd.audience, cmd.challenge)
           /\ asked.id = cmd.id
      BY <2>2, Zenon DEF Asked
    <2>12. /\ cmd.name = "fetch-jwt" => asked.audience = Spelling[cmd.audience]
           /\ cmd.name = "prove" => asked.audience = Spelling[cmd.audience] \o <<"?", "challenge=">>
                                                      \o Spelling[cmd.challenge]
      BY <2>11, Zenon DEF C!AudienceText
    <2> QED BY <2>2, <2>8, <2>9, <2>10, <2>11, <2>12, Zenon DEF HasRequired
  <1> QED BY <1>1, CliInvariance, PTL

\* A script that gates on the exit code goes on only with an identity, the named
\* one if one was named (hire/src/main.rs).
THEOREM SuccessIsAnIdentity == C!Spec => []SucceedsWithAnIdentity
  <1>1. CliInv => SucceedsWithAnIdentity
    BY Zenon DEF CliInv
  <1> QED BY <1>1, CliInvariance, PTL

-----------------------------------------------------------------------------
(* The socket: its lock, its directory, its path.                            *)

\* The inductive invariant: who holds the lock decides who may touch the path.
IInv ==
    /\ TypeOK
    /\ LockMatchesHolder
    /\ BindFindsPathFree
    /\ ServesInVettedDirectory

\* The state before any daemon starts satisfies the invariant.
LEMMA InitIInv == Init => IInv
  BY DaemonsAssumption, BoundsAssumption
  DEF Init, IInv, TypeOK, LockMatchesHolder, HoldsLock, BindFindsPathFree,
      ServesInVettedDirectory, BindSteps, PcStates, PathLeftovers, DirStates

\* No step of main, bind_listener or serve, and no fault, leaves the types.
LEMMA StepTypeOK == TypeOK /\ [Next]_vars => TypeOK'
  <1> SUFFICES ASSUME TypeOK, [Next]_vars PROVE TypeOK'
    OBVIOUS
  <1> USE BoundsAssumption DEF TypeOK, Goto, Exit, BindSteps, PcStates, PathLeftovers, DirStates
  <1>1. ASSUME NEW d \in Daemons, Start(d) PROVE TypeOK'
    BY <1>1 DEF Start
  <1>2. ASSUME NEW d \in Daemons, Step(d) PROVE TypeOK'
    <2>1. CASE Probed(d) BY <2>1, Zenon DEF Probed
    <2>2. CASE PrepareSocketDir(d) BY <2>2 DEF PrepareSocketDir
    <2>3. CASE TightenDir(d) BY <2>3 DEF TightenDir
    <2>4. CASE CreateDir(d) BY <2>4 DEF CreateDir
    <2>5. CASE AcquireLock(d) BY <2>5, Zenon DEF AcquireLock
    <2>6. CASE UnlinkStale(d) BY <2>6 DEF UnlinkStale
    <2>7. CASE Bind(d) BY <2>7 DEF Bind
    <2>8. CASE Chmod(d) BY <2>8 DEF Chmod
    <2>9. CASE Shutdown(d) BY <2>9 DEF Shutdown
    <2>10. CASE DropLock(d) BY <2>10 DEF DropLock
    <2>11. CASE CleanupExists(d) BY <2>11 DEF CleanupExists
    <2>12. CASE CleanupRemove(d) BY <2>12 DEF CleanupRemove
    <2> QED BY <1>2, <2>1, <2>2, <2>3, <2>4, <2>5, <2>6, <2>7, <2>8, <2>9,
               <2>10, <2>11, <2>12, Zenon DEF Step
  <1>3. ASSUME NEW d \in Daemons, Fail(d) PROVE TypeOK'
    BY <1>3 DEF Fail
  <1>4. ASSUME NEW d \in Daemons, Signal(d) PROVE TypeOK'
    BY <1>4 DEF Signal
  <1>5. CASE OtherMakesDir
    BY <1>5 DEF OtherMakesDir
  <1>6. CASE UNCHANGED vars
    BY <1>6 DEF vars
  <1> QED BY <1>1, <1>2, <1>3, <1>4, <1>5, <1>6, Zenon DEF Next

\* The invariant is inductive.  The lock decides every case: a daemon that
\* unlinks or binds holds it, so no other daemon is past acquire_lock.
LEMMA NextIInv == IInv /\ [Next]_vars => IInv'
  <1> SUFFICES ASSUME IInv, [Next]_vars
               PROVE  (LockMatchesHolder /\ BindFindsPathFree
                         /\ ServesInVettedDirectory)'
    BY StepTypeOK, SMTT(60) DEF IInv
  <1> DEFINE Inv == LockMatchesHolder /\ BindFindsPathFree
                      /\ ServesInVettedDirectory
  <1> USE DaemonsAssumption DEF IInv, TypeOK, LockMatchesHolder, HoldsLock,
        BindFindsPathFree, ServesInVettedDirectory,
        Goto, Exit, BindSteps, PcStates, PathLeftovers, DirStates
  <1>1. ASSUME NEW d \in Daemons, Start(d) PROVE Inv'
    BY <1>1 DEF Start
  <1>2. ASSUME NEW d \in Daemons, Step(d) PROVE Inv'
    <2>1. CASE Probed(d) BY <2>1, Zenon DEF Probed
    <2>2. CASE PrepareSocketDir(d) BY <2>2, SMTT(60) DEF PrepareSocketDir
    <2>3. CASE TightenDir(d) BY <2>3 DEF TightenDir
    <2>4. CASE CreateDir(d) BY <2>4, Zenon DEF CreateDir
    <2>5. CASE AcquireLock(d) BY <2>5, ZenonT(60) DEF AcquireLock
    <2>6. CASE UnlinkStale(d) BY <2>6, ZenonT(60) DEF UnlinkStale
    <2>7. CASE Bind(d) BY <2>7, SMTT(60) DEF Bind
    <2>8. CASE Chmod(d) BY <2>8, ZenonT(60) DEF Chmod
    <2>9. CASE Shutdown(d) BY <2>9, ZenonT(60) DEF Shutdown
    <2>10. CASE DropLock(d) BY <2>10 DEF DropLock
    <2>11. CASE CleanupExists(d) BY <2>11 DEF CleanupExists
    <2>12. CASE CleanupRemove(d) BY <2>12, Zenon DEF CleanupRemove
    <2> QED BY <1>2, <2>1, <2>2, <2>3, <2>4, <2>5, <2>6, <2>7, <2>8, <2>9, <2>10, <2>11, <2>12, Zenon DEF Step
  <1>3. ASSUME NEW d \in Daemons, Fail(d) PROVE Inv'
    BY <1>3, Zenon DEF Fail
  <1>4. ASSUME NEW d \in Daemons, Signal(d) PROVE Inv'
    BY <1>4 DEF Signal
  <1>5. CASE OtherMakesDir
    BY <1>5 DEF OtherMakesDir
  <1>6. CASE UNCHANGED vars
    BY <1>6 DEF vars
  <1> QED BY <1>1, <1>2, <1>3, <1>4, <1>5, <1>6, Zenon DEF Next

\* Every reachable state of the daemons satisfies the invariant.
LEMMA Invariance == Spec => []IInv
  BY InitIInv, NextIInv, PTL DEF Spec

\* main.rs and server.rs keep every variable in its type.
THEOREM TypeCorrect == Spec => []TypeOK
  <1>1. IInv => TypeOK BY DEF IInv
  <1> QED BY <1>1, Invariance, PTL

\* The flock is held exactly from acquire_lock to the drop of serve's handle,
\* for any number of daemons and crashes.
THEOREM LockIsExact == Spec => []LockMatchesHolder
  <1>1. IInv => LockMatchesHolder BY DEF IInv
  <1> QED BY <1>1, Invariance, PTL

\* bind(2) in bind_listener never meets AddrInUse.
THEOREM BindNeverFindsAddrInUse == Spec => []BindFindsPathFree
  <1>1. IInv => BindFindsPathFree BY DEF IInv
  <1> QED BY <1>1, Invariance, PTL

\* prepare_socket_dir vets the directory before anything in it is touched, whoever
\* makes a directory there and when; only a daemon whose own create met somebody's
\* directory works in one that was not vetted.
THEOREM DirectoryVettedFirst == Spec => []ServesInVettedDirectory
  <1>1. IInv => ServesInVettedDirectory BY DEF IInv
  <1> QED BY <1>1, Invariance, PTL

\* A starting daemon never unlinks or replaces the socket of one that listens:
\* only CleanupRemove, which runs without the lock, can.
THEOREM NoTakeoverAtStartup == Spec => NoTakeover
  <1> USE DEF Goto, Exit, BindSteps, PcStates, PathLeftovers, DirStates
  <1> DEFINE Kept == \A d \in Daemons :
               Listening(d) /\ path = d /\ path' # d
                   => \E e \in Daemons \ {d} : CleanupRemove(e)
  <1>1. IInv /\ [Next]_vars => [Kept]_vars
    <2> SUFFICES ASSUME IInv, Next, NEW d \in Daemons,
                        Listening(d), path = d, path' # d
                 PROVE  \E e \in Daemons \ {d} : CleanupRemove(e)
      OBVIOUS
    <2>1. PICK e \in Daemons : Start(e) \/ Step(e) \/ Fail(e) \/ Signal(e)
      BY DEF Next, OtherMakesDir
    <2>2. pc[d] \in {"chmod", "serving"} /\ lock = d
      BY DEF Listening, IInv, LockMatchesHolder, HoldsLock
    <2>3. ~UnlinkStale(e)
      BY <2>2 DEF UnlinkStale, IInv, LockMatchesHolder, HoldsLock
    <2>4. ~Bind(e)
      BY <2>2, DaemonsAssumption DEF Bind
    <2>5. CleanupRemove(e)
      BY <2>1, <2>3, <2>4, Zenon DEF Start, Step, Fail, Signal, Probed, PrepareSocketDir,
         TightenDir, CreateDir, AcquireLock, Chmod, Shutdown, DropLock, CleanupExists
    <2>6. e # d
      BY <2>2, <2>5 DEF CleanupRemove
    <2> QED BY <2>5, <2>6
  <1> QED BY <1>1, Invariance, PTL DEF Spec, NoTakeover

\* Before the first signal no daemon is on its shutdown path, and the path names
\* the daemon that listens.
CalmInv ==
    signals = 0 =>
        /\ signalled = {}
        /\ \A d \in Daemons : pc[d] \notin {"drop_lock", "exists", "remove"}
        /\ \A d \in Daemons : Listening(d) => path = d

\* Before the first signal, no step of main, bind_listener or serve, no start and
\* no crash parts a listener from its path.
LEMMA NextCalmInv == IInv /\ CalmInv /\ [Next]_vars => CalmInv'
  <1> SUFFICES ASSUME IInv, CalmInv, [Next]_vars PROVE CalmInv'
    OBVIOUS
  <1> USE DaemonsAssumption DEF IInv, CalmInv, Listening, TypeOK, LockMatchesHolder, HoldsLock,
        Goto, Exit, BindSteps, PcStates, PathLeftovers
  <1>1. ASSUME NEW d \in Daemons, Start(d) PROVE CalmInv'
    BY <1>1 DEF Start
  <1>2. ASSUME NEW d \in Daemons, Step(d) PROVE CalmInv'
    <2>1. CASE Probed(d) BY <2>1, Zenon DEF Probed
    <2>2. CASE PrepareSocketDir(d) BY <2>2, ZenonT(60) DEF PrepareSocketDir
    <2>3. CASE TightenDir(d) BY <2>3, Zenon DEF TightenDir
    <2>4. CASE CreateDir(d) BY <2>4, Zenon DEF CreateDir
    <2>5. CASE AcquireLock(d) BY <2>5, Zenon DEF AcquireLock
    <2>6. CASE UnlinkStale(d) BY <2>6, ZenonT(60) DEF UnlinkStale
    <2>7. CASE Bind(d) BY <2>7 DEF Bind
    <2>8. CASE Chmod(d) BY <2>8 DEF Chmod
    <2>9. CASE Shutdown(d) BY <2>9, Zenon DEF Shutdown
    <2>10. CASE DropLock(d) BY <2>10, Zenon DEF DropLock
    <2>11. CASE CleanupExists(d) BY <2>11 DEF CleanupExists
    <2>12. CASE CleanupRemove(d) BY <2>12 DEF CleanupRemove
    <2> QED BY <1>2, <2>1, <2>2, <2>3, <2>4, <2>5, <2>6, <2>7, <2>8, <2>9,
               <2>10, <2>11, <2>12, ZenonT(60) DEF Step
  <1>3. ASSUME NEW d \in Daemons, Fail(d) PROVE CalmInv'
    BY <1>3 DEF Fail
  <1>4. ASSUME NEW d \in Daemons, Signal(d) PROVE CalmInv'
    BY <1>4, SMTT(60) DEF Signal
  <1>5. CASE OtherMakesDir
    BY <1>5 DEF OtherMakesDir
  <1>6. CASE UNCHANGED vars
    BY <1>6 DEF vars
  <1> QED BY <1>1, <1>2, <1>3, <1>4, <1>5, <1>6, Zenon DEF Next

\* What is true of ServingMeansReachable: until the first SIGTERM or SIGINT, a daemon
\* that serves is the one clients reach at the socket path, whatever starts, refused
\* starts and crashes happened; only the clean-up of a signalled daemon can part them.
THEOREM ReachableUntilSignalled == Spec => [](signals = 0 => ServingMeansReachable)
  <1>1. Init => CalmInv
    BY DEF Init, CalmInv, Listening
  <1>2. CalmInv => (signals = 0 => ServingMeansReachable)
    BY DEF CalmInv, ServingMeansReachable, Listening
  <1> QED BY <1>1, <1>2, NextCalmInv, Invariance, PTL DEF Spec

\* hired implements SocketService: the daemons that listen are one at most, and
\* the place changes hands only through vacancy.
THEOREM Refinement == Spec => ImplementsSocketService
  <1> USE DEF Goto, Exit, BindSteps, PcStates, PathLeftovers, DirStates
  <1> DEFINE L == {d \in Daemons : Listening(d)}
  <1>1. Init => Service!Init
    BY DEF Init, Service!Init, Listening
  <1>2. IInv /\ IInv' /\ [Next]_vars => [Service!Next]_L
    <2> SUFFICES ASSUME IInv, IInv', [Next]_vars, L' # L
                 PROVE  Service!Next
      OBVIOUS
    <2>1. \A d, e \in Daemons : Listening(d) /\ Listening(e) => d = e
      BY DEF IInv, LockMatchesHolder, HoldsLock, Listening
    <2>2. \A d, e \in Daemons : (Listening(d) /\ Listening(e))' => d = e
      BY DEF IInv, LockMatchesHolder, HoldsLock, Listening
    <2>3. PICK d \in Daemons : Start(d) \/ Step(d) \/ Fail(d) \/ Signal(d)
      BY DEF Next, OtherMakesDir, vars, Listening
    <2>4. \A e \in Daemons \ {d} : pc'[e] = pc[e]
      BY <2>3, Zenon DEF IInv, TypeOK, Start, Step, Fail, Signal, Probed, PrepareSocketDir,
         TightenDir, CreateDir, AcquireLock, UnlinkStale, Bind, Chmod, Shutdown,
         DropLock, CleanupExists, CleanupRemove
    <2>5. Listening(d)' <=> ~Listening(d)
      BY <2>4 DEF Listening
    <2>6. CASE Listening(d)
      <3>1. L = {d} /\ L' = {}
        BY <2>1, <2>4, <2>5, <2>6 DEF Listening
      <3> QED BY <3>1, Zenon DEF Service!Next, Service!Leave
    <2>7. CASE Listening(d)'
      <3>1. L = {} /\ L' = {d}
        BY <2>2, <2>4, <2>5, <2>7 DEF Listening
      <3> QED BY <3>1 DEF Service!Next, Service!Enter
    <2> QED BY <2>5, <2>6, <2>7
  <1> QED BY <1>1, <1>2, Invariance, PTL DEF Spec, ImplementsSocketService, Service!Spec

=============================================================================
