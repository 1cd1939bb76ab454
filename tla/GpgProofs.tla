------------------------------ MODULE GpgProofs ------------------------------
(***************************************************************************)
(* The gpg source, for any keys, any keyring and any number of calls: what       *)
(* parse_gpg_colons makes of a listing, and what evidence and a refusal of        *)
(* prove mean.                                                              *)
(***************************************************************************)
EXTENDS GpgProtocol, OrderFacts

\* s is a list, of whatever it has.
IsList(s) == s \in Seq({s[n] : n \in DOMAIN s})

\* What is left of a list after its first j, and then another.
Follows(lines, head, j, rest) ==
    /\ IsList(lines) /\ IsList(head) /\ IsList(rest) /\ j \in 0..Len(head)
    /\ Len(lines) = (Len(head) - j) + Len(rest)
    /\ \A n \in 1..(Len(head) - j) : lines[n] = head[j + n]
    /\ \A n \in 1..Len(rest) : lines[(Len(head) - j) + n] = rest[n]

\* The enrollable keys of a keyring, and the candidates of its first k keys.
Live(keys) == {n \in DOMAIN keys : Enrollable(keys[n])}

CandidatesOf(keys) == [n \in 1..Len(keys) |-> CandidateOf(keys[n])]

Listed(keys, k) == CandidatesOf(Kept(keys, Live(keys))[k])

\* uid is the first live name among the first m uids, if one of them is live.
LiveUpTo(key, m) == {n \in LiveUids(key) : n <= m}

NamedUpTo(key, m, uid) ==
    \/ LiveUpTo(key, m) = {} /\ uid = Unset
    \/ \E f \in LiveUpTo(key, m) :
          (\A n \in LiveUpTo(key, m) : f <= n) /\ uid = key.uids[f].name

\* What parse_gpg_colons has of a key after the first j lines of it.
ReadOf(key, j, p) ==
    /\ DOMAIN p = {"fp", "uid", "enrollable", "want"}
    /\ p.fp = IF j = 1 THEN Unset ELSE key.fpr
    /\ p.enrollable <=> key.secret # "#" /\ ~IsRevoked(key.validity)
    /\ p.want <=> j = 1
    /\ NamedUpTo(key, j - 2, p.uid)

\* After the first j lines of key k, with the keys before it found.
AtKey(keys, k, j, lines, p, found) ==
    /\ k \in 1..Len(keys) /\ j \in 1..Len(KeyLines(keys[k]))
    /\ Follows(lines, KeyLines(keys[k]), j, LinesOfLast(keys)[Len(keys) - k])
    /\ ReadOf(keys[k], j, p)
    /\ found = Listed(keys, k - 1)

\* Between two lines of a listing.
Parsing(keys, lines, p, found) ==
    \/ lines = Listing(keys) /\ p = NoParse /\ found = << >>
    \/ \E k \in 1..Len(keys) : \E j \in 1..Len(KeyLines(keys[k])) :
          AtKey(keys, k, j, lines, p, found)

\* The fields of a call.
Fields == {"pc", "fpr", "lines", "parse", "found", "message", "outcome"}

\* The call in flight, by step: what is parsed is a listing of this very call, what
\* is found is what that listing has, and a subject that was enrollable during the
\* call is recorded as enrolled.
GpgInv ==
    /\ keyring \in Seq(KeyType) /\ listing \in Seq(KeyType)
    /\ offered \subseteq {k.fpr : k \in Keys}
    /\ DOMAIN call = Fields
    /\ call.pc \in {"idle", "list", "parse", "listed", "sign", "verify"}
    /\ call.fpr \in {k.fpr : k \in Keys} \cup {Unset}
    /\ call.outcome \in {"none", "evidence", "refused"}
    /\ call.pc = "idle" => call.fpr = Unset
    /\ enrolled \in BOOLEAN
    /\ call.fpr = Unset => enrolled = FALSE
    /\ call.fpr # Unset /\ call.fpr \in HeldIn(keyring) => enrolled
    /\ call.pc \in {"parse", "listed"} /\ call.fpr # Unset /\ call.fpr \in HeldIn(listing)
          => enrolled
    /\ call.pc = "parse" => Parsing(listing, call.lines, call.parse, call.found)
    /\ call.pc \in {"listed", "sign", "verify"} => call.found = Listed(listing, Len(listing))
    /\ call.pc \in {"sign", "verify"} => enrolled /\ call.fpr # Unset
    /\ call.pc = "verify" => call.message.primary = call.fpr /\ call.message.over = calls

\* No two keys of the keyring share a fingerprint.
GpgDistinct == \A m, n \in DOMAIN keyring : keyring[m].fpr = keyring[n].fpr => m = n

\* What a call that nothing disturbed knows of keyring and session.
GpgCalm ==
    calm =>
        /\ call.pc \in {"parse", "listed"}
              => listing = IF session.gpg = "works" THEN keyring ELSE << >>
        /\ call.pc \in {"sign", "verify"} => session.gpg = "works" /\ call.fpr \in HeldIn(keyring)
        /\ call.pc = "verify"
              => /\ session.willing
                 /\ \E n \in DOMAIN keyring :
                       /\ keyring[n].fpr = call.fpr /\ Signs(keyring[n])
                       /\ call.message.signer = IF keyring[n].sub = Unset THEN keyring[n].fpr
                                                ELSE keyring[n].sub

-----------------------------------------------------------------------------
(* Lists of lines.                                                         *)

\* Two lists, one after the other, are a list.
LEMMA ListJoin ==
    ASSUME NEW s, NEW t, IsList(s), IsList(t)
    PROVE  IsList(s \o t) /\ Joined(s, t, s \o t) /\ Len(s \o t) = Len(s) + Len(t)
  <1> DEFINE T == {s[n] : n \in DOMAIN s} \cup {t[n] : n \in DOMAIN t}
  <1>1. s \in Seq(T) /\ t \in Seq(T)
    BY DEF IsList
  <1>2. s \o t \in Seq(T) /\ Joined(s, t, s \o t)
    BY <1>1, JoinedIs, Zenon
  <1>3. ASSUME NEW u \in Seq(T) PROVE IsList(u)
    BY DEF IsList
  <1> HIDE DEF T
  <1>4. Len(s \o t) = Len(s) + Len(t)
    BY <1>1
  <1> QED BY <1>2, <1>3, <1>4, Zenon

\* A list of two.
LEMMA ListPair ==
    ASSUME NEW a, NEW b
    PROVE  IsList(<<a, b>>) /\ Len(<<a, b>>) = 2 /\ <<a, b>>[1] = a /\ <<a, b>>[2] = b
  <1>1. <<a, b>> \in Seq({a, b})
    OBVIOUS
  <1>2. ASSUME NEW u \in Seq({a, b}) PROVE IsList(u)
    BY DEF IsList
  <1> QED BY <1>1, <1>2, Zenon

\* The rest of a list is a list, and its first element goes.
LEMMA ListTail ==
    ASSUME NEW s, IsList(s), s # << >>
    PROVE  /\ IsList(Tail(s)) /\ Len(s) \in Nat \ {0} /\ Len(Tail(s)) = Len(s) - 1
           /\ Head(s) = s[1]
           /\ \A n \in 1..(Len(s) - 1) : Tail(s)[n] = s[n + 1]
  <1> DEFINE T == {s[n] : n \in DOMAIN s}
  <1>1. s \in Seq(T) /\ s # << >>
    BY DEF IsList
  <1>2. ASSUME NEW u \in Seq(T) PROVE IsList(u)
    BY DEF IsList
  <1> HIDE DEF T
  <1>3. /\ Tail(s) \in Seq(T) /\ Len(s) \in Nat \ {0} /\ Len(Tail(s)) = Len(s) - 1
        /\ Head(s) = s[1]
        /\ \A n \in 1..(Len(s) - 1) : Tail(s)[n] = s[n + 1]
    BY <1>1
  <1> QED BY <1>2, <1>3, Zenon

\* A list with one element more.
LEMMA ListPush ==
    ASSUME NEW s, IsList(s), NEW c
    PROVE  /\ IsList(Append(s, c)) /\ Len(s) \in Nat /\ Len(Append(s, c)) = Len(s) + 1
           /\ Append(s, c)[Len(s) + 1] = c
           /\ \A n \in 1..Len(s) : Append(s, c)[n] = s[n]
  <1> DEFINE T == {s[n] : n \in DOMAIN s} \cup {c}
  <1>1. s \in Seq(T) /\ c \in T
    BY DEF IsList
  <1>2. ASSUME NEW u \in Seq(T) PROVE IsList(u)
    BY DEF IsList
  <1> HIDE DEF T
  <1>3. /\ Append(s, c) \in Seq(T) /\ Len(s) \in Nat /\ Len(Append(s, c)) = Len(s) + 1
        /\ Append(s, c)[Len(s) + 1] = c
        /\ \A n \in 1..Len(s) : Append(s, c)[n] = s[n]
    BY <1>1
  <1> QED BY <1>2, <1>3, Zenon

\* Lists with the same elements are the same.
LEMMA ListSame ==
    ASSUME NEW s, NEW t, IsList(s), IsList(t), Len(s) = Len(t),
           \A n \in 1..Len(s) : s[n] = t[n]
    PROVE  s = t
  <1>1. /\ s = [n \in 1..Len(s) |-> s[n]] /\ Len(s) \in Nat
        /\ t = [n \in 1..Len(t) |-> t[n]]
    BY DEF IsList
  <1> QED BY <1>1

\* A line is read of a list that is not at its end.
LEMMA FollowsTail ==
    ASSUME NEW lines, NEW head, NEW j, NEW rest, Follows(lines, head, j, rest), j < Len(head)
    PROVE  /\ lines # << >> /\ Head(lines) = head[j + 1]
           /\ Follows(Tail(lines), head, j + 1, rest)
  <1>1. /\ IsList(lines) /\ IsList(head) /\ IsList(rest) /\ j \in 0..Len(head)
        /\ Len(lines) = (Len(head) - j) + Len(rest)
        /\ \A n \in 1..(Len(head) - j) : lines[n] = head[j + n]
        /\ \A n \in 1..Len(rest) : lines[(Len(head) - j) + n] = rest[n]
    BY Zenon DEF Follows
  <1>2. Len(head) \in Nat /\ Len(rest) \in Nat /\ Len(lines) \in Nat /\ j \in Nat
    BY <1>1 DEF IsList
  <1>3. lines # << >>
    BY <1>1, <1>2
  <1>4. /\ IsList(Tail(lines)) /\ Len(Tail(lines)) = Len(lines) - 1
        /\ Head(lines) = lines[1]
        /\ \A n \in 1..(Len(lines) - 1) : Tail(lines)[n] = lines[n + 1]
    BY <1>1, <1>3, ListTail, Zenon
  <1>5. PICK t : t = Tail(lines)
    BY Zenon
  <1>6. \A n \in 1..(Len(head) - (j + 1)) : t[n] = head[(j + 1) + n]
    <2> SUFFICES ASSUME NEW n \in 1..(Len(head) - (j + 1)) PROVE t[n] = head[(j + 1) + n]
      OBVIOUS
    <2>1. n \in 1..(Len(lines) - 1) /\ n + 1 \in 1..(Len(head) - j) /\ j + (n + 1) = (j + 1) + n
      BY <1>1, <1>2
    <2>2. t[n] = lines[n + 1]
      BY <1>4, <1>5, <2>1
    <2> QED BY <1>1, <2>1, <2>2
  <1>7. \A n \in 1..Len(rest) : t[(Len(head) - (j + 1)) + n] = rest[n]
    <2> SUFFICES ASSUME NEW n \in 1..Len(rest) PROVE t[(Len(head) - (j + 1)) + n] = rest[n]
      OBVIOUS
    <2> DEFINE at == (Len(head) - (j + 1)) + n
    <2>1. at \in 1..(Len(lines) - 1) /\ at + 1 = (Len(head) - j) + n
      BY <1>1, <1>2
    <2>2. t[at] = lines[at + 1]
      BY <1>4, <1>5, <2>1
    <2> QED BY <1>1, <2>1, <2>2
  <1>8. j + 1 \in 0..Len(head) /\ Len(t) = (Len(head) - (j + 1)) + Len(rest)
    BY <1>1, <1>2, <1>4, <1>5
  <1>9. Follows(t, head, j + 1, rest)
    BY <1>1, <1>4, <1>5, <1>6, <1>7, <1>8, Zenon DEF Follows
  <1>10. Head(lines) = head[j + 1]
    <2>1. 1 \in 1..(Len(head) - j)
      BY <1>1, <1>2
    <2> QED BY <1>1, <1>4, <2>1
  <1> QED BY <1>3, <1>5, <1>9, <1>10

\* At its end, what is left is what follows.
LEMMA FollowsEnd ==
    ASSUME NEW lines, NEW head, NEW rest, Follows(lines, head, Len(head), rest)
    PROVE  lines = rest
  <1>1. /\ IsList(lines) /\ IsList(rest) /\ Len(head) \in 0..Len(head)
        /\ Len(lines) = (Len(head) - Len(head)) + Len(rest)
        /\ \A n \in 1..Len(rest) : lines[(Len(head) - Len(head)) + n] = rest[n]
    BY Zenon DEF Follows
  <1>2. Len(rest) \in Nat
    BY <1>1 DEF IsList
  <1>3. Len(lines) = Len(rest) /\ \A n \in 1..Len(lines) : lines[n] = rest[n]
    BY <1>1, <1>2
  <1> QED BY <1>1, <1>3, ListSame, Zenon

\* A list and another after it.
LEMMA FollowsWhole ==
    ASSUME NEW head, NEW rest, IsList(head), IsList(rest)
    PROVE  Follows(head \o rest, head, 0, rest)
  <1>1. PICK u : u = head \o rest
    BY Zenon
  <1>2. IsList(u) /\ Joined(head, rest, u)
    BY <1>1, ListJoin, Zenon
  <1>3. Len(head) \in Nat /\ Len(rest) \in Nat /\ Len(u) = Len(head) + Len(rest)
    BY <1>2 DEF IsList, Joined
  <1>4. Follows(u, head, 0, rest)
    BY <1>2, <1>3 DEF Follows, Joined
  <1> QED BY <1>1, <1>4

-----------------------------------------------------------------------------
(* The lines of a key, and of a keyring.                                     *)

\* What gpg prints for a key, by position.
PrintedKey(key, lines) ==
    /\ IsList(lines) /\ IsList(key.uids) /\ Len(key.uids) \in Nat
    /\ Len(lines) = (2 + Len(key.uids)) + (IF key.sub = Unset THEN 0 ELSE 2)
    /\ lines[1] = Line("sec", key.validity, key.secret)
    /\ lines[2] = Line("fpr", "-", key.fpr)
    /\ \A n \in 1..Len(key.uids) :
          lines[2 + n] = Line("uid", key.uids[n].validity, key.uids[n].name)
    /\ \A n \in 1..(Len(lines) - (2 + Len(key.uids))) :
          lines[(2 + Len(key.uids)) + n] = Line("ssb", key.validity, "+")
             \/ lines[(2 + Len(key.uids)) + n] = Line("fpr", "-", key.sub)

\* The uids of an edited key are those of a key that may be imported.
LEMMA KeyUids ==
    ASSUME NEW key \in KeyType
    PROVE  /\ IsList(key.uids) /\ Len(key.uids) \in Nat /\ DOMAIN key.uids = 1..Len(key.uids)
           /\ \A n \in 1..Len(key.uids) : key.uids[n].name # Unset
  <1>1. PICK k \in Keys : key.uids = k.uids
    BY DEF KeyType
  <1>2. IsList(k.uids) /\ \A n \in DOMAIN k.uids : k.uids[n].name # Unset
    BY KeysAssumption, Zenon DEF IsList
  <1>3. ASSUME NEW s, IsList(s) PROVE Len(s) \in Nat /\ DOMAIN s = 1..Len(s)
    BY <1>3 DEF IsList
  <1> QED BY <1>1, <1>2, <1>3

\* What gpg prints for a key, line by line.
LEMMA KeyLinesIs ==
    ASSUME NEW key \in KeyType
    PROVE  PrintedKey(key, KeyLines(key))
  <1> DEFINE first == <<Line("sec", key.validity, key.secret), Line("fpr", "-", key.fpr)>>
             second == [n \in DOMAIN key.uids |-> Line("uid", key.uids[n].validity, key.uids[n].name)]
             third == IF key.sub = Unset THEN << >>
                      ELSE <<Line("ssb", key.validity, "+"), Line("fpr", "-", key.sub)>>
  <1>1. PICK len : len = Len(key.uids)
    BY Zenon
  <1>2. len \in Nat /\ DOMAIN key.uids = 1..len /\ IsList(key.uids)
    BY <1>1, KeyUids
  <1>3. /\ IsList(first) /\ Len(first) = 2
        /\ first[1] = Line("sec", key.validity, key.secret) /\ first[2] = Line("fpr", "-", key.fpr)
    BY ListPair, Zenon
  <1>4. /\ IsList(second) /\ Len(second) = len
        /\ \A n \in 1..len : second[n] = Line("uid", key.uids[n].validity, key.uids[n].name)
    BY <1>2 DEF IsList
  <1>5. /\ IsList(third) /\ Len(third) = IF key.sub = Unset THEN 0 ELSE 2
        /\ \A n \in 1..Len(third) : \/ third[n] = Line("ssb", key.validity, "+")
                                    \/ third[n] = Line("fpr", "-", key.sub)
    <2>1. CASE key.sub = Unset
      BY <2>1 DEF IsList
    <2>2. CASE key.sub # Unset
      <3>1. third = <<Line("ssb", key.validity, "+"), Line("fpr", "-", key.sub)>>
        BY <2>2, Zenon
      <3>2. /\ IsList(third) /\ Len(third) = 2
            /\ third[1] = Line("ssb", key.validity, "+") /\ third[2] = Line("fpr", "-", key.sub)
        BY <3>1, ListPair, Zenon
      <3> HIDE DEF third
      <3>3. \A n \in 1..Len(third) : n = 1 \/ n = 2
        BY <3>2
      <3> QED BY <2>2, <3>2, <3>3, Zenon
    <2> QED BY <2>1, <2>2, Zenon
  <1>6. PICK u : u = first \o second
    BY Zenon
  <1>7. PICK v : v = u \o third
    BY Zenon
  <1>8. KeyLines(key) = v
    BY <1>6, <1>7 DEF KeyLines
  <1> HIDE DEF first, second, third
  <1>9. IsList(u) /\ Joined(first, second, u) /\ Len(u) = Len(first) + Len(second)
    BY <1>3, <1>4, <1>6, ListJoin, Zenon
  <1>10. IsList(v) /\ Joined(u, third, v) /\ Len(v) = Len(u) + Len(third)
    BY <1>5, <1>7, <1>9, ListJoin, Zenon
  <1>11. ASSUME NEW s, IsList(s) PROVE Len(s) \in Nat /\ DOMAIN s = 1..Len(s)
    BY <1>11 DEF IsList
  <1>12. Len(u) \in Nat /\ DOMAIN u = 1..Len(u) /\ Len(v) \in Nat /\ DOMAIN v = 1..Len(v) /\ Len(third) \in Nat
    BY <1>5, <1>9, <1>10, <1>11, Zenon
  <1>13. Len(u) = 2 + len /\ Len(v) = (2 + len) + Len(third)
    BY <1>2, <1>3, <1>4, <1>9, <1>10, <1>12
  <1>14. \A n \in 1..(2 + len) : v[n] = u[n]
    BY <1>10, <1>13 DEF Joined
  <1>15. v[1] = first[1] /\ v[2] = first[2]
    <2>1. 1 \in 1..2 /\ 2 \in 1..2 /\ 1 \in 1..(2 + len) /\ 2 \in 1..(2 + len)
      BY <1>2
    <2>2. \A n \in 1..2 : u[n] = first[n]
      BY <1>3, <1>9, Zenon DEF Joined
    <2>3. v[1] = u[1] /\ v[2] = u[2]
      BY <1>14, <2>1
    <2> QED BY <2>1, <2>2, <2>3
  <1>16. ASSUME NEW n \in 1..len PROVE v[2 + n] = second[n]
    <2>1. u[2 + n] = second[n]
      BY <1>3, <1>4, <1>9 DEF Joined
    <2>2. 2 + n \in 1..(2 + len)
      BY <1>2
    <2> QED BY <1>14, <2>1, <2>2
  <1>17. ASSUME NEW n \in 1..Len(third) PROVE v[(2 + len) + n] = third[n]
    BY <1>10, <1>13 DEF Joined
  <1>18. PrintedKey(key, v)
    <2>1. Len(v) - (2 + len) = Len(third)
      BY <1>2, <1>12, <1>13
    <2>2. \A n \in 1..(Len(v) - (2 + len)) : \/ v[(2 + len) + n] = Line("ssb", key.validity, "+")
                                            \/ v[(2 + len) + n] = Line("fpr", "-", key.sub)
      BY <1>5, <1>17, <2>1, Zenon
    <2>3. \A n \in 1..len : v[2 + n] = Line("uid", key.uids[n].validity, key.uids[n].name)
      BY <1>4, <1>16
    <2> QED BY <1>1, <1>2, <1>3, <1>5, <1>10, <1>13, <1>15, <2>2, <2>3, Zenon DEF PrintedKey
  <1> QED BY <1>8, <1>18

\* One step of the recursion in LinesOfLast, and its solution up to L.
LineStep(keys, n, before) ==
    IF n = 0 THEN << >> ELSE KeyLines(keys[Len(keys) + 1 - n]) \o before

Prints(keys, L, f) == f = [n \in 0..L |-> LineStep(keys, n, f[n - 1])]

\* Printing more keys prints the first ones alike.
LEMMA PrintsPrefix ==
    ASSUME NEW keys, NEW L \in Nat
    PROVE  \E f : Prints(keys, L, f)
  <1> DEFINE Good(m) == \E f : Prints(keys, m, f)
             Goods == {m \in Nat : Good(m)}
  <1>1. Good(0)
    <2>1. [n \in 0..0 |-> << >>] = [n \in 0..0 |-> LineStep(keys, n, [l \in 0..0 |-> << >>][n - 1])]
      BY DEF LineStep
    <2> QED BY <2>1 DEF Prints
  <1>2. ASSUME NEW m \in Nat, Good(m) PROVE Good(m + 1)
    <2>1. PICK f : f = [n \in 0..m |-> LineStep(keys, n, f[n - 1])]
      BY <1>2 DEF Prints
    <2> DEFINE new == [n \in 0..(m + 1) |-> IF n = m + 1 THEN LineStep(keys, n, f[m]) ELSE f[n]]
    <2>2. ASSUME NEW n \in 0..(m + 1) PROVE new[n] = LineStep(keys, n, new[n - 1])
      <3>1. CASE n = m + 1
        <4>1. n - 1 = m /\ m \in 0..(m + 1) /\ m # m + 1
          BY <3>1
        <4>2. new[n - 1] = f[m] /\ new[n] = LineStep(keys, n, f[m])
          BY <3>1, <4>1
        <4> QED BY <4>2
      <3>2. CASE n = 0
        <4>1. new[n] = f[n] /\ n \in 0..m
          BY <3>2
        <4>2. f[n] = LineStep(keys, n, f[n - 1])
          BY <2>1, <4>1
        <4> QED BY <3>2, <4>1, <4>2 DEF LineStep
      <3>3. CASE n \in 1..m
        <4>1. new[n] = f[n] /\ new[n - 1] = f[n - 1] /\ n \in 0..m
          BY <3>3
        <4>2. f[n] = LineStep(keys, n, f[n - 1])
          BY <2>1, <4>1
        <4> QED BY <4>1, <4>2
      <3> QED BY <3>1, <3>2, <3>3
    <2>3. Prints(keys, m + 1, new)
      BY <2>2 DEF Prints
    <2> HIDE DEF new
    <2> QED BY <2>3
  <1> HIDE DEF Good
  <1>3. 0 \in Goods /\ \A n \in Nat : n \in Goods => n + 1 \in Goods
    BY <1>1, <1>2
  <1>4. L \in Goods
    BY <1>3, SetInduction, Zenon
  <1> QED BY <1>4 DEF Good

\* A listing of the last n keys is key n from the end, then the listing of the rest.
LEMMA LinesOfLastIs ==
    ASSUME NEW keys, Len(keys) \in Nat
    PROVE  /\ LinesOfLast(keys)[0] = << >>
           /\ \A n \in 1..Len(keys) :
                 LinesOfLast(keys)[n] = KeyLines(keys[Len(keys) + 1 - n]) \o LinesOfLast(keys)[n - 1]
  <1> DEFINE Is(f) == f = [n \in 0..Len(keys) |->
                              IF n = 0 THEN << >>
                              ELSE KeyLines(keys[Len(keys) + 1 - n]) \o f[n - 1]]
  <1>1. \E f : Is(f)
    <2>1. PICK f : Prints(keys, Len(keys), f)
      BY PrintsPrefix, Zenon
    <2>2. Is(f)
      BY <2>1, Zenon DEF Prints, LineStep
    <2> HIDE DEF Is
    <2> QED BY <2>2
  <1>2. LinesOfLast(keys) = CHOOSE f : Is(f)
    BY DEF LinesOfLast
  <1>3. Is(LinesOfLast(keys))
    BY <1>1, <1>2, Zenon
  <1>4. PICK f : f = LinesOfLast(keys)
    OBVIOUS
  <1>5. ASSUME NEW n \in 0..Len(keys)
        PROVE  f[n] = IF n = 0 THEN << >> ELSE KeyLines(keys[Len(keys) + 1 - n]) \o f[n - 1]
    BY <1>3, <1>4, Zenon
  <1>6. f[0] = << >>
    BY <1>5
  <1>7. ASSUME NEW n \in 1..Len(keys)
        PROVE  f[n] = KeyLines(keys[Len(keys) + 1 - n]) \o f[n - 1]
    <2>1. n \in 0..Len(keys) /\ n # 0
      OBVIOUS
    <2> QED BY <1>5, <2>1, Zenon
  <1> QED BY <1>4, <1>6, <1>7, Zenon

\* The lines of the last keys are lists.
LEMMA LastIsList ==
    ASSUME NEW keys \in Seq(KeyType), NEW l \in 0..Len(keys)
    PROVE  IsList(LinesOfLast(keys)[l])
  <1> DEFINE Goods == {n \in Nat : n <= Len(keys) => IsList(LinesOfLast(keys)[n])}
  <1>1. Len(keys) \in Nat
    OBVIOUS
  <1>2. 0 \in Goods
    <2>1. IsList(<< >>)
      BY DEF IsList
    <2> QED BY <1>1, <2>1, LinesOfLastIs, Zenon
  <1>3. ASSUME NEW n \in Nat, n \in Goods, n + 1 <= Len(keys)
        PROVE  IsList(LinesOfLast(keys)[n + 1])
    <2>1. n + 1 \in 1..Len(keys) /\ (n + 1) - 1 = n /\ n <= Len(keys)
      BY <1>1, <1>3
    <2>2. PICK key : key = keys[Len(keys) + 1 - (n + 1)]
      BY Zenon
    <2>3. key \in KeyType
      BY <2>1, <2>2
    <2>4. LinesOfLast(keys)[n + 1] = KeyLines(key) \o LinesOfLast(keys)[(n + 1) - 1]
      BY <1>1, <2>1, <2>2, LinesOfLastIs, Zenon
    <2>5. IsList(KeyLines(key))
      BY <2>3, KeyLinesIs, Zenon DEF PrintedKey
    <2>6. IsList(LinesOfLast(keys)[n])
      BY <1>3, <2>1
    <2>7. LinesOfLast(keys)[n + 1] = KeyLines(key) \o LinesOfLast(keys)[n]
      BY <2>1, <2>4, Zenon
    <2> QED BY <2>5, <2>6, <2>7, ListJoin, Zenon
  <1>4. \A n \in Nat : n \in Goods => n + 1 \in Goods
    BY <1>3
  <1>5. Nat \subseteq Goods
    BY <1>2, <1>4, SetInduction, Zenon
  <1> QED BY <1>1, <1>5

\* Before the k-th key there are its lines, and those of the keys after it.
LEMMA KeyBegins ==
    ASSUME NEW keys \in Seq(KeyType), NEW k \in 1..Len(keys)
    PROVE  Follows(LinesOfLast(keys)[Len(keys) - (k - 1)], KeyLines(keys[k]), 0,
                   LinesOfLast(keys)[Len(keys) - k])
  <1>1. PICK n : n = Len(keys) - (k - 1)
    OBVIOUS
  <1>2. /\ Len(keys) \in Nat /\ n \in 1..Len(keys) /\ Len(keys) + 1 - n = k
        /\ n - 1 = Len(keys) - k /\ n - 1 \in 0..Len(keys) /\ keys[k] \in KeyType
    BY <1>1
  <1>3. LinesOfLast(keys)[n] = KeyLines(keys[Len(keys) + 1 - n]) \o LinesOfLast(keys)[n - 1]
    BY <1>2, LinesOfLastIs, Zenon
  <1>4. IsList(KeyLines(keys[k])) /\ IsList(LinesOfLast(keys)[n - 1])
    BY <1>2, KeyLinesIs, LastIsList, Zenon DEF PrintedKey
  <1>5. Follows(KeyLines(keys[k]) \o LinesOfLast(keys)[n - 1], KeyLines(keys[k]), 0, LinesOfLast(keys)[n - 1])
    BY <1>4, FollowsWhole, Zenon
  <1>6. LinesOfLast(keys)[n] = KeyLines(keys[k]) \o LinesOfLast(keys)[n - 1]
    BY <1>2, <1>3, Zenon
  <1> QED BY <1>1, <1>2, <1>5, <1>6, Zenon

-----------------------------------------------------------------------------
(* The lines of one key, read one by one.                                    *)

\* The record of a key begins it anew.
LEMMA ReadsSec ==
    ASSUME NEW key \in KeyType, NEW p
    PROVE  ReadOf(key, 1, ReadLine(p, Line("sec", key.validity, key.secret)))
  <1>1. PICK e : e = (key.secret # "#" /\ ~IsRevoked(key.validity))
    BY Zenon
  <1>2. LiveUpTo(key, 1 - 2) = {}
    BY KeyUids DEF LiveUpTo, LiveUids
  <1>3. NamedUpTo(key, 1 - 2, Unset)
    BY <1>2 DEF NamedUpTo
  <1>4. PICK q : q = ReadLine(p, Line("sec", key.validity, key.secret))
    BY Zenon
  <1>5. PICK line : line = Line("sec", key.validity, key.secret)
    BY Zenon
  <1>6. line.rec = "sec" /\ line.value = key.secret /\ line.validity = key.validity
    BY <1>5 DEF Line
  <1>7. q = [fp |-> Unset, uid |-> Unset, want |-> TRUE, enrollable |-> e]
    BY <1>1, <1>4, <1>5, <1>6, Zenon DEF ReadLine
  <1>8. /\ DOMAIN q = {"fp", "uid", "enrollable", "want"}
        /\ q.fp = Unset /\ q.uid = Unset /\ q.want /\ q.enrollable = e
    BY <1>7
  <1> QED BY <1>1, <1>3, <1>4, <1>8, Zenon DEF ReadOf

\* The first fingerprint after it is the key's.
LEMMA ReadsFpr ==
    ASSUME NEW key \in KeyType, NEW p, ReadOf(key, 1, p)
    PROVE  ReadOf(key, 2, ReadLine(p, Line("fpr", "-", key.fpr)))
  <1>1. /\ DOMAIN p = {"fp", "uid", "enrollable", "want"}
        /\ p.want /\ (p.enrollable <=> key.secret # "#" /\ ~IsRevoked(key.validity))
        /\ NamedUpTo(key, 1 - 2, p.uid)
    BY Zenon DEF ReadOf
  <1>2. PICK q : q = ReadLine(p, Line("fpr", "-", key.fpr))
    BY Zenon
  <1>3. q = [p EXCEPT !.fp = key.fpr, !.want = FALSE]
    BY <1>1, <1>2 DEF ReadLine, Line
  <1>4. /\ DOMAIN q = {"fp", "uid", "enrollable", "want"}
        /\ q.fp = key.fpr /\ q.uid = p.uid /\ ~q.want /\ q.enrollable = p.enrollable
    BY <1>1, <1>3
  <1>5. LiveUpTo(key, 1 - 2) = {} /\ LiveUpTo(key, 2 - 2) = {}
    BY KeyUids DEF LiveUpTo, LiveUids
  <1>6. NamedUpTo(key, 2 - 2, q.uid)
    BY <1>1, <1>4, <1>5, Zenon DEF NamedUpTo
  <1>7. 2 # 1
    OBVIOUS
  <1> QED BY <1>1, <1>2, <1>4, <1>6, <1>7, Zenon DEF ReadOf

\* A uid names the key if it is live and none before it was.
LEMMA ReadsUid ==
    ASSUME NEW key \in KeyType, NEW p, NEW m \in 1..Len(key.uids), ReadOf(key, m + 1, p)
    PROVE  ReadOf(key, m + 2, ReadLine(p, Line("uid", key.uids[m].validity, key.uids[m].name)))
  <1>1. PICK line : line = Line("uid", key.uids[m].validity, key.uids[m].name)
    BY Zenon
  <1>2. /\ line.rec = "uid" /\ line.value = key.uids[m].name
        /\ line.validity = key.uids[m].validity
    BY <1>1 DEF Line
  <1>3. /\ Len(key.uids) \in Nat /\ DOMAIN key.uids = 1..Len(key.uids)
        /\ \A n \in 1..Len(key.uids) : key.uids[n].name # Unset
    BY KeyUids, Zenon
  <1>4. m + 1 # 1 /\ m + 2 # 1 /\ (m + 1) - 2 = m - 1 /\ (m + 2) - 2 = m /\ m \in Nat
    BY <1>3
  <1>5. /\ DOMAIN p = {"fp", "uid", "enrollable", "want"}
        /\ p.fp = key.fpr /\ ~p.want /\ (p.enrollable <=> key.secret # "#" /\ ~IsRevoked(key.validity))
        /\ NamedUpTo(key, m - 1, p.uid)
    BY <1>4, Zenon DEF ReadOf
  <1>6. PICK q : q = ReadLine(p, line)
    BY Zenon
  <1> DEFINE old == LiveUpTo(key, m - 1)
             new == LiveUpTo(key, m)
  <1>7. /\ m \in LiveUids(key) <=> ~IsRevoked(key.uids[m].validity)
        /\ LiveUids(key) \subseteq 1..Len(key.uids)
    BY <1>3 DEF LiveUids
  <1>8. /\ m \in LiveUids(key) => new = old \cup {m}
        /\ m \notin LiveUids(key) => new = old
        /\ \A n \in old : n \in Nat /\ n < m /\ n \in 1..Len(key.uids)
    BY <1>3, <1>7 DEF LiveUpTo
  <1>9. p.uid = Unset <=> old = {}
    BY <1>3, <1>5, <1>8 DEF NamedUpTo
  <1>10. CASE old = {} /\ m \in LiveUids(key)
    <2>1. q = [p EXCEPT !.uid = line.value]
      BY <1>2, <1>6, <1>7, <1>9, <1>10 DEF ReadLine
    <2>2. /\ DOMAIN q = {"fp", "uid", "enrollable", "want"}
          /\ q.fp = p.fp /\ q.uid = line.value /\ q.want = p.want /\ q.enrollable = p.enrollable
      BY <1>5, <2>1
    <2>3. new = {m}
      BY <1>8, <1>10
    <2>4. NamedUpTo(key, m, q.uid)
      BY <1>2, <1>4, <2>2, <2>3 DEF NamedUpTo
    <2>5. ReadOf(key, m + 2, q)
      BY <1>4, <1>5, <2>2, <2>4, Zenon DEF ReadOf
    <2> QED BY <1>1, <1>6, <2>5
  <1>11. CASE ~(old = {} /\ m \in LiveUids(key))
    <2>1. q = p
      BY <1>2, <1>6, <1>7, <1>9, <1>11 DEF ReadLine
    <2>2. NamedUpTo(key, m, p.uid)
      <3>1. CASE m \notin LiveUids(key)
        <4>1. new = old
          BY <1>8, <3>1
        <4> QED BY <1>5, <4>1, Zenon DEF NamedUpTo
      <3>2. CASE m \in LiveUids(key)
        <4>1. new = old \cup {m} /\ old # {}
          BY <1>8, <1>11, <3>2
        <4>2. PICK f \in old : (\A n \in old : f <= n) /\ p.uid = key.uids[f].name
          BY <1>5, <4>1, Zenon DEF NamedUpTo
        <4>3. f \in new /\ \A n \in new : f <= n
          BY <1>4, <1>8, <4>1, <4>2
        <4> QED BY <4>2, <4>3, Zenon DEF NamedUpTo
      <3> QED BY <3>1, <3>2
    <2>3. ReadOf(key, m + 2, p)
      BY <1>4, <1>5, <2>2, Zenon DEF ReadOf
    <2> QED BY <1>1, <1>6, <2>1, <2>3
  <1> QED BY <1>10, <1>11

\* A subkey and its fingerprint change nothing.
LEMMA ReadsSub ==
    ASSUME NEW key \in KeyType, NEW p, NEW j \in Nat, j >= 2 + Len(key.uids), ReadOf(key, j, p),
           NEW line, line = Line("ssb", key.validity, "+") \/ line = Line("fpr", "-", key.sub)
    PROVE  ReadOf(key, j + 1, ReadLine(p, line))
  <1>1. line.rec \in {"ssb", "fpr"}
    BY DEF Line
  <1>2. /\ Len(key.uids) \in Nat /\ DOMAIN key.uids = 1..Len(key.uids)
    BY KeyUids, Zenon
  <1>3. j # 1 /\ j + 1 # 1
    BY <1>2
  <1>4. /\ DOMAIN p = {"fp", "uid", "enrollable", "want"}
        /\ p.fp = key.fpr /\ ~p.want /\ (p.enrollable <=> key.secret # "#" /\ ~IsRevoked(key.validity))
        /\ NamedUpTo(key, j - 2, p.uid)
    BY <1>3, Zenon DEF ReadOf
  <1>5. ReadLine(p, line) = p
    BY <1>1, <1>4 DEF ReadLine
  <1>6. LiveUpTo(key, j - 2) = LiveUids(key) /\ LiveUpTo(key, (j + 1) - 2) = LiveUids(key)
    BY <1>2 DEF LiveUpTo, LiveUids
  <1>7. NamedUpTo(key, (j + 1) - 2, p.uid)
    BY <1>4, <1>6, Zenon DEF NamedUpTo
  <1>8. ReadOf(key, j + 1, p)
    BY <1>3, <1>4, <1>7, Zenon DEF ReadOf
  <1> QED BY <1>5, <1>8

\* Any line of a key but its first.
LEMMA ReadsNext ==
    ASSUME NEW key \in KeyType, NEW p, NEW j \in 1..(Len(KeyLines(key)) - 1), ReadOf(key, j, p)
    PROVE  /\ KeyLines(key)[j + 1].rec # "sec"
           /\ ReadOf(key, j + 1, ReadLine(p, KeyLines(key)[j + 1]))
  <1>1. PICK lines : lines = KeyLines(key)
    BY Zenon
  <1>2. PICK len : len = Len(key.uids)
    BY Zenon
  <1>3. PICK all : all = Len(lines)
    BY Zenon
  <1>4. /\ len \in Nat
        /\ all = (2 + len) + (IF key.sub = Unset THEN 0 ELSE 2)
        /\ lines[2] = Line("fpr", "-", key.fpr)
        /\ \A n \in 1..len : lines[2 + n] = Line("uid", key.uids[n].validity, key.uids[n].name)
        /\ \A n \in 1..(all - (2 + len)) :
              lines[(2 + len) + n] = Line("ssb", key.validity, "+")
                 \/ lines[(2 + len) + n] = Line("fpr", "-", key.sub)
    BY <1>1, <1>2, <1>3, KeyLinesIs, Zenon DEF PrintedKey
  <1>5. PICK more \in {0, 2} : all = (2 + len) + more
    BY <1>4, Zenon
  <1>6. len \in Nat /\ all \in Nat /\ j \in 1..(all - 1)
    <2>1. len \in Nat /\ j \in 1..(all - 1)
      BY <1>1, <1>3, <1>4, Zenon
    <2> QED BY <1>5, <2>1
  <1>7. ASSUME NEW line, NEW rec, NEW a, NEW b, line = Line(rec, a, b) PROVE line.rec = rec
    BY <1>7 DEF Line
  <1>8. PICK line : line = lines[j + 1]
    BY Zenon
  <1>9. CASE j = 1
    <2>1. j + 1 = 2
      BY <1>9
    <2>2. line = Line("fpr", "-", key.fpr)
      BY <1>4, <1>8, <2>1, Zenon
    <2>3. ReadOf(key, 2, ReadLine(p, line))
      BY <1>9, <2>2, ReadsFpr, Zenon
    <2>4. line.rec = "fpr"
      BY <1>7, <2>2, Zenon
    <2> QED BY <1>1, <1>8, <2>1, <2>3, <2>4, Zenon
  <1>10. CASE j \in 2..(1 + len)
    <2>1. PICK m : m = j - 1
      BY Zenon
    <2>2. m \in 1..len /\ j = m + 1 /\ j + 1 = m + 2 /\ j + 1 = 2 + m
      BY <1>6, <1>10, <2>1
    <2>3. line = Line("uid", key.uids[m].validity, key.uids[m].name)
      BY <1>4, <1>8, <2>2, Zenon
    <2>4. ReadOf(key, m + 1, p) /\ m \in 1..Len(key.uids)
      BY <1>2, <2>2, Zenon
    <2>5. ReadOf(key, m + 2, ReadLine(p, line))
      BY <2>3, <2>4, ReadsUid, Zenon
    <2>6. line.rec = "uid"
      BY <1>7, <2>3, Zenon
    <2>7. ReadOf(key, j + 1, ReadLine(p, line))
      BY <2>2, <2>5, Zenon
    <2> QED BY <1>1, <1>8, <2>6, <2>7, Zenon
  <1>11. CASE j >= 2 + len
    <2>1. PICK n : n = (j + 1) - (2 + len)
      BY Zenon
    <2>2. n \in 1..(all - (2 + len)) /\ j + 1 = (2 + len) + n /\ j \in Nat
      BY <1>6, <1>11, <2>1
    <2>3. line = Line("ssb", key.validity, "+") \/ line = Line("fpr", "-", key.sub)
      BY <1>4, <1>8, <2>2, Zenon
    <2>4. ReadOf(key, j + 1, ReadLine(p, line))
      BY <1>2, <1>11, <2>2, <2>3, ReadsSub, Zenon
    <2>5. line.rec = "ssb" \/ line.rec = "fpr"
      BY <1>7, <2>3, Zenon
    <2> QED BY <1>1, <1>8, <2>4, <2>5, Zenon
  <1>12. j = 1 \/ j \in 2..(1 + len) \/ j >= 2 + len
    BY <1>6
  <1> QED BY <1>9, <1>10, <1>11, <1>12

-----------------------------------------------------------------------------
(* The candidates found so far.                                            *)

\* The first live uid names the candidate.
LEMMA CandidateNamed ==
    ASSUME NEW key \in KeyType, NEW f \in LiveUids(key), \A n \in LiveUids(key) : f <= n
    PROVE  CandidateOf(key) = [fpr |-> key.fpr, name |-> key.uids[f].name]
  <1> DEFINE First(g) == g \in LiveUids(key) /\ \A n \in LiveUids(key) : g <= n
  <1>1. PICK g : g = CHOOSE n : First(n)
    BY Zenon
  <1>2. First(g)
    BY <1>1, Zenon
  <1>3. LiveUids(key) \subseteq Nat
    BY KeyUids DEF LiveUids
  <1>4. g = f
    BY <1>2, <1>3
  <1>5. CandidateOf(key) = [fpr |-> key.fpr, name |-> key.uids[CHOOSE n : First(n)].name]
    BY Zenon DEF CandidateOf
  <1> QED BY <1>1, <1>4, <1>5, Zenon

\* A key whose lines are all read is flushed as its candidate, if it is enrollable.
LEMMA FlushIs ==
    ASSUME NEW key \in KeyType, NEW p, ReadOf(key, Len(KeyLines(key)), p), NEW found
    PROVE  FlushKey(found, p)
             = IF Enrollable(key) THEN Append(found, CandidateOf(key)) ELSE found
  <1>1. PICK j : j = Len(KeyLines(key))
    BY Zenon
  <1>2. PICK len : len = Len(key.uids)
    BY Zenon
  <1>3. /\ len \in Nat /\ DOMAIN key.uids = 1..len
        /\ \A n \in 1..len : key.uids[n].name # Unset
    BY <1>2, KeyUids, Zenon
  <1>4. PICK more \in {0, 2} : j = (2 + len) + more
    BY <1>1, <1>2, KeyLinesIs, Zenon DEF PrintedKey
  <1>5. j # 1 /\ LiveUpTo(key, j - 2) = LiveUids(key) /\ LiveUids(key) \subseteq 1..len
    BY <1>3, <1>4 DEF LiveUpTo, LiveUids
  <1>6. /\ p.fp = key.fpr /\ (p.enrollable <=> key.secret # "#" /\ ~IsRevoked(key.validity))
        /\ NamedUpTo(key, j - 2, p.uid)
    BY <1>1, <1>5, Zenon DEF ReadOf
  <1>7. key.fpr # Unset
    BY UnsetAssumption DEF KeyType
  <1>8. CASE LiveUids(key) = {}
    <2>1. p.uid = Unset
      BY <1>5, <1>6, <1>8, Zenon DEF NamedUpTo
    <2> QED BY <1>8, <2>1, Zenon DEF FlushKey, Enrollable
  <1>9. CASE LiveUids(key) # {}
    <2>1. PICK f \in LiveUids(key) : (\A n \in LiveUids(key) : f <= n) /\ p.uid = key.uids[f].name
      BY <1>5, <1>6, <1>9, Zenon DEF NamedUpTo
    <2>2. CandidateOf(key) = [fpr |-> p.fp, name |-> p.uid] /\ p.uid # Unset
      BY <1>3, <1>5, <1>6, <2>1, CandidateNamed, Zenon
    <2>3. p.fp # Unset /\ (p.enrollable <=> Enrollable(key))
      BY <1>6, <1>7, <1>9, Zenon DEF Enrollable
    <2> QED BY <2>2, <2>3, Zenon DEF FlushKey
  <1> QED BY <1>8, <1>9

\* The candidates of a list of keys, and of one more.
LEMMA CandidatesPush ==
    ASSUME NEW t \in Seq(KeyType), NEW key \in KeyType
    PROVE  CandidatesOf(Append(t, key)) = Append(CandidatesOf(t), CandidateOf(key))
  <1>1. ASSUME NEW s \in Seq(KeyType)
        PROVE  /\ IsList(CandidatesOf(s)) /\ Len(CandidatesOf(s)) = Len(s) /\ Len(s) \in Nat
               /\ \A n \in 1..Len(s) : CandidatesOf(s)[n] = CandidateOf(s[n])
    BY DEF CandidatesOf, IsList
  <1>2. PICK u : u = Append(t, key)
    BY Zenon
  <1>3. PICK len : len = Len(t)
    BY Zenon
  <1>4. /\ u \in Seq(KeyType) /\ Len(u) = len + 1 /\ u[len + 1] = key /\ len \in Nat
        /\ \A n \in 1..len : u[n] = t[n]
    BY <1>2, <1>3
  <1>5. PICK a : a = CandidatesOf(t)
    BY Zenon
  <1>6. PICK b : b = CandidatesOf(u)
    BY Zenon
  <1>7. PICK c : c = Append(a, CandidateOf(key))
    BY Zenon
  <1>8. IsList(a) /\ Len(a) = len /\ \A n \in 1..len : a[n] = CandidateOf(t[n])
    BY <1>1, <1>3, <1>5, Zenon
  <1>9. IsList(b) /\ Len(b) = len + 1 /\ \A n \in 1..(len + 1) : b[n] = CandidateOf(u[n])
    BY <1>1, <1>4, <1>6, Zenon
  <1>10. /\ IsList(c) /\ Len(c) = len + 1 /\ c[len + 1] = CandidateOf(key)
         /\ \A n \in 1..len : c[n] = a[n]
    <2>1. /\ IsList(c) /\ Len(c) = Len(a) + 1 /\ c[Len(a) + 1] = CandidateOf(key)
          /\ \A n \in 1..Len(a) : c[n] = a[n]
      BY <1>7, <1>8, ListPush
    <2> QED BY <1>8, <2>1
  <1>11. ASSUME NEW n \in 1..(len + 1) PROVE b[n] = c[n]
    <2>1. CASE n = len + 1
      BY <1>4, <1>9, <1>10, <2>1, Zenon
    <2>2. CASE n \in 1..len
      BY <1>4, <1>8, <1>9, <1>10, <2>2, ZenonT(60)
    <2>3. n = len + 1 \/ n \in 1..len
      BY <1>4
    <2> QED BY <2>1, <2>2, <2>3
  <1>12. b = c
    BY <1>9, <1>10, <1>11, ListSame, Zenon
  <1> QED BY <1>2, <1>5, <1>6, <1>7, <1>12, Zenon

\* The candidates of one key more.
LEMMA ListedGrows ==
    ASSUME NEW keys \in Seq(KeyType)
    PROVE  /\ Listed(keys, 0) = << >>
           /\ \A n \in 1..Len(keys) :
                 Listed(keys, n) = IF Enrollable(keys[n])
                                   THEN Append(Listed(keys, n - 1), CandidateOf(keys[n]))
                                   ELSE Listed(keys, n - 1)
  <1>0. PICK K : K = Kept(keys, Live(keys))
    BY Zenon
  <1>1. Len(keys) \in Nat /\ DOMAIN keys = 1..Len(keys)
    OBVIOUS
  <1>2. /\ K[0] = << >>
        /\ \A n \in 1..Len(keys) :
              K[n] = IF n \in Live(keys) THEN Append(K[n - 1], keys[n]) ELSE K[n - 1]
    BY <1>0, <1>1, KeptIs
  <1>3. ASSUME NEW n PROVE Listed(keys, n) = CandidatesOf(K[n])
    BY <1>0, Zenon DEF Listed
  <1>4. Listed(keys, 0) = << >>
    <2>1. CandidatesOf(<< >>) = << >>
      BY DEF CandidatesOf
    <2> QED BY <1>2, <1>3, <2>1, Zenon
  <1>5. ASSUME NEW n \in 1..Len(keys)
        PROVE  Listed(keys, n) = IF Enrollable(keys[n])
                                 THEN Append(Listed(keys, n - 1), CandidateOf(keys[n]))
                                 ELSE Listed(keys, n - 1)
    <2>1. n - 1 \in 0..Len(keys) /\ keys[n] \in KeyType
      BY <1>1
    <2>2. PICK t : t = K[n - 1]
      BY Zenon
    <2>3. t \in Seq(KeyType) /\ Listed(keys, n - 1) = CandidatesOf(t)
      BY <1>0, <1>3, <2>1, <2>2, KeptInOrder, Zenon
    <2>4. CASE Enrollable(keys[n])
      <3>1. K[n] = Append(t, keys[n])
        BY <1>1, <1>2, <2>2, <2>4, Zenon DEF Live
      <3> QED BY <1>3, <2>1, <2>3, <2>4, <3>1, CandidatesPush, Zenon
    <2>5. CASE ~Enrollable(keys[n])
      <3>1. K[n] = t
        BY <1>1, <1>2, <2>2, <2>5, Zenon DEF Live
      <3> QED BY <1>3, <2>3, <2>5, <3>1, Zenon
    <2> QED BY <2>4, <2>5
  <1> QED BY <1>4, <1>5

-----------------------------------------------------------------------------
(* parse_gpg_colons, line by line.                                           *)

\* At a key, no line of it read: the next line is its record.
LEMMA ParseBegins ==
    ASSUME NEW keys \in Seq(KeyType), NEW k \in 1..Len(keys), NEW p, NEW lines,
           lines = LinesOfLast(keys)[Len(keys) - (k - 1)]
    PROVE  /\ lines # << >> /\ Head(lines).rec = "sec"
           /\ AtKey(keys, k, 1, Tail(lines), ReadLine(p, Head(lines)), Listed(keys, k - 1))
  <1>1. PICK key : key = keys[k]
    BY Zenon
  <1>2. key \in KeyType
    BY <1>1
  <1>3. PICK head : head = KeyLines(key)
    BY Zenon
  <1>4. PICK rest : rest = LinesOfLast(keys)[Len(keys) - k]
    BY Zenon
  <1>5. Follows(lines, head, 0, rest)
    BY <1>1, <1>3, <1>4, KeyBegins, Zenon
  <1>6. PICK more \in {0, 2} : Len(head) = (2 + Len(key.uids)) + more
    BY <1>2, <1>3, KeyLinesIs, Zenon DEF PrintedKey
  <1>7. head[1] = Line("sec", key.validity, key.secret) /\ Len(key.uids) \in Nat
    BY <1>2, <1>3, KeyLinesIs, Zenon DEF PrintedKey
  <1>8. 0 < Len(head) /\ 0 + 1 = 1 /\ 1 \in 1..Len(head)
    BY <1>6, <1>7
  <1>9. lines # << >> /\ Head(lines) = head[0 + 1] /\ Follows(Tail(lines), head, 0 + 1, rest)
    BY <1>5, <1>8, FollowsTail, Zenon
  <1>10. Head(lines) = Line("sec", key.validity, key.secret) /\ Follows(Tail(lines), head, 1, rest)
    BY <1>7, <1>8, <1>9, Zenon
  <1>11. Line("sec", key.validity, key.secret).rec = "sec"
    BY DEF Line
  <1>12. ReadOf(key, 1, ReadLine(p, Head(lines)))
    BY <1>2, <1>10, ReadsSec, Zenon
  <1> QED BY <1>1, <1>3, <1>4, <1>8, <1>9, <1>10, <1>11, <1>12, Zenon DEF AtKey

\* At a key whose lines are all read, the next key is there or the text ends.
LEMMA ParseBetween ==
    ASSUME NEW keys \in Seq(KeyType), NEW k, NEW lines, NEW p, NEW found,
           AtKey(keys, k, Len(KeyLines(keys[k])), lines, p, found)
    PROVE  /\ FlushKey(found, p) = Listed(keys, k)
           /\ lines = LinesOfLast(keys)[Len(keys) - k]
  <1>1. /\ k \in 1..Len(keys)
        /\ Follows(lines, KeyLines(keys[k]), Len(KeyLines(keys[k])), LinesOfLast(keys)[Len(keys) - k])
        /\ ReadOf(keys[k], Len(KeyLines(keys[k])), p)
        /\ found = Listed(keys, k - 1)
    BY Zenon DEF AtKey
  <1>2. keys[k] \in KeyType
    BY <1>1
  <1>3. FlushKey(found, p) = IF Enrollable(keys[k]) THEN Append(found, CandidateOf(keys[k])) ELSE found
    BY <1>1, <1>2, FlushIs, Zenon
  <1>4. Listed(keys, k) = IF Enrollable(keys[k])
                          THEN Append(Listed(keys, k - 1), CandidateOf(keys[k]))
                          ELSE Listed(keys, k - 1)
    BY <1>1, ListedGrows, Zenon
  <1>5. lines = LinesOfLast(keys)[Len(keys) - k]
    BY <1>1, FollowsEnd, Zenon
  <1> QED BY <1>1, <1>3, <1>4, <1>5, Zenon

\* A line of a listing is read: parse_gpg_colons is at the next place of it.
LEMMA ParseStep ==
    ASSUME NEW keys \in Seq(KeyType), NEW lines, NEW p, NEW found,
           Parsing(keys, lines, p, found), lines # << >>
    PROVE  Parsing(keys, Tail(lines), ReadLine(p, Head(lines)),
                   IF Head(lines).rec = "sec" THEN FlushKey(found, p) ELSE found)
  <1> DEFINE q == ReadLine(p, Head(lines))
             next == IF Head(lines).rec = "sec" THEN FlushKey(found, p) ELSE found
  <1> SUFFICES Parsing(keys, Tail(lines), q, next)
    BY Zenon
  <1>1. ASSUME NEW k, NEW j, AtKey(keys, k, j, Tail(lines), q, next)
        PROVE  Parsing(keys, Tail(lines), q, next)
    BY <1>1, Zenon DEF Parsing, AtKey
  <1>2. Len(keys) \in Nat
    OBVIOUS
  <1>3. ASSUME NEW k \in 1..Len(keys), lines = LinesOfLast(keys)[Len(keys) - (k - 1)],
               FlushKey(found, p) = Listed(keys, k - 1)
        PROVE  Parsing(keys, Tail(lines), q, next)
    <2>1. Head(lines).rec = "sec" /\ AtKey(keys, k, 1, Tail(lines), q, Listed(keys, k - 1))
      BY <1>3, ParseBegins, Zenon
    <2>2. next = Listed(keys, k - 1)
      BY <1>3, <2>1, Zenon
    <2> HIDE DEF q, next
    <2> QED BY <1>1, <2>1, <2>2, Zenon
  <1>4. CASE lines = Listing(keys) /\ p = NoParse /\ found = << >>
    <2>1. Len(keys) # 0
      <3> SUFFICES ASSUME Len(keys) = 0 PROVE FALSE
        OBVIOUS
      <3> QED BY <1>2, <1>4, LinesOfLastIs, Zenon DEF Listing
    <2>2. 1 \in 1..Len(keys) /\ Len(keys) - (1 - 1) = Len(keys) /\ 1 - 1 = 0
      BY <1>2, <2>1
    <2>3. FlushKey(found, p) = Listed(keys, 0)
      BY <1>4, ListedGrows DEF FlushKey, NoParse
    <2>4. lines = LinesOfLast(keys)[Len(keys) - (1 - 1)]
      BY <1>4, <2>2, Zenon DEF Listing
    <2>5. FlushKey(found, p) = Listed(keys, 1 - 1)
      BY <2>2, <2>3, Zenon
    <2> HIDE DEF q, next
    <2> QED BY <1>3, <2>2, <2>4, <2>5, Zenon
  <1>5. ASSUME NEW k \in 1..Len(keys), NEW j \in 1..Len(KeyLines(keys[k])),
               AtKey(keys, k, j, lines, p, found)
        PROVE  Parsing(keys, Tail(lines), q, next)
    <2>1. PICK key : key = keys[k]
      BY Zenon
    <2>2. PICK head : head = KeyLines(key)
      BY Zenon
    <2>3. key \in KeyType
      BY <2>1
    <2>4. /\ Follows(lines, head, j, LinesOfLast(keys)[Len(keys) - k])
          /\ ReadOf(key, j, p) /\ found = Listed(keys, k - 1)
      BY <1>5, <2>1, <2>2, Zenon DEF AtKey
    <2>5. j \in 1..Len(head)
      BY <2>1, <2>2, Zenon
    <2>6. CASE j < Len(head)
      <3>1. Head(lines) = head[j + 1] /\ Follows(Tail(lines), head, j + 1, LinesOfLast(keys)[Len(keys) - k])
        BY <2>4, <2>6, FollowsTail, Zenon
      <3>2. Len(head) \in Nat
        BY <2>2, <2>3, KeyLinesIs DEF PrintedKey, IsList
      <3>3. j \in 1..(Len(head) - 1) /\ j + 1 \in 1..Len(head)
        BY <2>5, <2>6, <3>2
      <3>4. Head(lines).rec # "sec" /\ ReadOf(key, j + 1, q)
        BY <2>2, <2>3, <2>4, <3>1, <3>3, ReadsNext, Zenon
      <3>5. next = found
        BY <3>4, Zenon
      <3> HIDE DEF q, next
      <3>6. AtKey(keys, k, j + 1, Tail(lines), q, next)
        BY <2>1, <2>2, <2>4, <3>1, <3>3, <3>4, <3>5, Zenon DEF AtKey
      <3> QED BY <1>1, <3>6, Zenon
    <2>7. CASE j = Len(head)
      <3>1. FlushKey(found, p) = Listed(keys, k) /\ lines = LinesOfLast(keys)[Len(keys) - k]
        BY <1>5, <2>1, <2>2, <2>7, ParseBetween, Zenon
      <3>2. k # Len(keys)
        <4> SUFFICES ASSUME k = Len(keys) PROVE FALSE
          OBVIOUS
        <4>1. Len(keys) - k = 0
          BY <1>2
        <4> QED BY <1>2, <3>1, <4>1, LinesOfLastIs, Zenon
      <3>3. k + 1 \in 1..Len(keys) /\ (k + 1) - 1 = k
        BY <1>2, <3>2
      <3>4. lines = LinesOfLast(keys)[Len(keys) - ((k + 1) - 1)] /\ FlushKey(found, p) = Listed(keys, (k + 1) - 1)
        BY <3>1, <3>3, Zenon
      <3> HIDE DEF q, next
      <3> QED BY <1>3, <3>3, <3>4, Zenon
    <2>8. j < Len(head) \/ j = Len(head)
      BY <2>5
    <2> QED BY <2>6, <2>7, <2>8
  <1> HIDE DEF q, next
  <1> QED BY <1>4, <1>5, Zenon DEF Parsing

\* At the end of a listing, what the last key adds completes the candidates.
LEMMA ParseDone ==
    ASSUME NEW keys \in Seq(KeyType), NEW p, NEW found, Parsing(keys, << >>, p, found)
    PROVE  FlushKey(found, p) = Listed(keys, Len(keys))
  <1>1. Len(keys) \in Nat
    OBVIOUS
  <1>2. ASSUME NEW k \in 1..Len(keys) PROVE LinesOfLast(keys)[Len(keys) - (k - 1)] # << >>
    BY ParseBegins, Zenon
  <1>3. CASE << >> = Listing(keys) /\ p = NoParse /\ found = << >>
    <2>1. Len(keys) = 0
      <3> SUFFICES ASSUME Len(keys) # 0 PROVE FALSE
        OBVIOUS
      <3>1. 1 \in 1..Len(keys) /\ Len(keys) - (1 - 1) = Len(keys)
        BY <1>1
      <3>2. LinesOfLast(keys)[Len(keys) - (1 - 1)] # << >>
        BY <1>2, <3>1, Zenon
      <3> QED BY <1>3, <3>1, <3>2, Zenon DEF Listing
    <2> QED BY <1>3, <2>1, ListedGrows, Zenon DEF FlushKey, NoParse
  <1>4. ASSUME NEW k \in 1..Len(keys), NEW j \in 1..Len(KeyLines(keys[k])),
               AtKey(keys, k, j, << >>, p, found)
        PROVE  FlushKey(found, p) = Listed(keys, Len(keys))
    <2>1. Follows(<< >>, KeyLines(keys[k]), j, LinesOfLast(keys)[Len(keys) - k])
      BY <1>4, Zenon DEF AtKey
    <2>2. j = Len(KeyLines(keys[k]))
      <3>1. ~(j < Len(KeyLines(keys[k])))
        BY <2>1, FollowsTail, Zenon
      <3> QED BY <3>1
    <2>3. FlushKey(found, p) = Listed(keys, k) /\ << >> = LinesOfLast(keys)[Len(keys) - k]
      BY <1>4, <2>2, ParseBetween, Zenon
    <2>4. k = Len(keys)
      <3> SUFFICES ASSUME k # Len(keys) PROVE FALSE
        OBVIOUS
      <3>1. k + 1 \in 1..Len(keys) /\ (k + 1) - 1 = k
        BY <1>1
      <3>2. LinesOfLast(keys)[Len(keys) - ((k + 1) - 1)] # << >>
        BY <1>2, <3>1, Zenon
      <3> QED BY <2>3, <3>1, <3>2, Zenon
    <2> QED BY <2>3, <2>4
  <1> QED BY <1>3, <1>4, Zenon DEF Parsing

-----------------------------------------------------------------------------
(* The calls.                                                              *)

\* What is found has the fingerprint of a key exactly if the listing holds the key.
LEMMA ListedHeld ==
    ASSUME NEW keys \in Seq(KeyType), NEW fpr
    PROVE  (\E n \in DOMAIN Listed(keys, Len(keys)) : Listed(keys, Len(keys))[n].fpr = fpr)
             <=> fpr \in HeldIn(keys)
  <1>1. PICK t : t = Kept(keys, Live(keys))[Len(keys)]
    BY Zenon
  <1>2. Len(keys) \in 0..Len(keys) /\ DOMAIN keys = 1..Len(keys)
    OBVIOUS
  <1>3. t \in Seq(KeyType) /\ \E o : InOrder(keys, Live(keys), Len(keys), t, o)
    BY <1>1, <1>2, KeptInOrder, Zenon
  <1>4. PICK o : InOrder(keys, Live(keys), Len(keys), t, o)
    BY <1>3
  <1>5. PICK f : f = Listed(keys, Len(keys))
    BY Zenon
  <1>6. DOMAIN f = 1..Len(t) /\ \A n \in 1..Len(t) : f[n].fpr = t[n].fpr
    BY <1>1, <1>5, Zenon DEF Listed, CandidatesOf, CandidateOf
  <1>7. ASSUME NEW n \in 1..Len(t), f[n].fpr = fpr PROVE fpr \in HeldIn(keys)
    <2>1. o[n] \in Live(keys) /\ t[n] = keys[o[n]]
      BY <1>4, Zenon DEF InOrder
    <2> QED BY <1>6, <1>7, <2>1 DEF HeldIn, Live
  <1>8. ASSUME fpr \in HeldIn(keys) PROVE \E n \in 1..Len(t) : f[n].fpr = fpr
    <2>1. PICK m \in Live(keys) : keys[m].fpr = fpr
      BY <1>8 DEF HeldIn, Live
    <2>2. PICK n \in 1..Len(t) : o[n] = m
      BY <1>2, <1>4, <2>1, Zenon DEF InOrder, Live
    <2>3. t[n] = keys[m]
      BY <1>4, <2>2, Zenon DEF InOrder
    <2> QED BY <1>6, <2>1, <2>2, <2>3, Zenon
  <1> QED BY <1>5, <1>6, <1>7, <1>8, Zenon

\* A keyring holds keys that may be imported.
LEMMA HeldAreKeys ==
    ASSUME NEW keys \in Seq(KeyType)
    PROVE  HeldIn(keys) \subseteq {k.fpr : k \in Keys}
  <1>1. ASSUME NEW key \in KeyType PROVE key.fpr \in {k.fpr : k \in Keys}
    BY DEF KeyType
  <1>2. ASSUME NEW n \in DOMAIN keys PROVE keys[n] \in KeyType
    OBVIOUS
  <1> QED BY <1>1, <1>2, Zenon DEF HeldIn

\* Unset is called in the initial state.
LEMMA GpgInitHolds == GpgInit => GpgInv
  <1> SUFFICES ASSUME GpgInit PROVE GpgInv
    OBVIOUS
  <1>1. keyring = << >> /\ listing = << >> /\ offered = {} /\ call = NoCall /\ enrolled = FALSE
    BY DEF GpgInit
  <1>2. /\ call.pc = "idle" /\ call.fpr = Unset /\ call.outcome = "none" /\ DOMAIN call = Fields
    BY <1>1 DEF NoCall, Fields
  <1>3. keyring \in Seq(KeyType) /\ listing \in Seq(KeyType) /\ offered \subseteq {k.fpr : k \in Keys}
    BY <1>1
  <1> QED BY <1>1, <1>2, <1>3, Zenon DEF GpgInv

\* A call that returns leaves no subject.
LEMMA GpgReturnKeeps ==
  ASSUME GpgInv, NEW outcome \in {"none", "evidence", "refused"}, Return(outcome),
         UNCHANGED <<keyring, listing>>, offered' \subseteq {k.fpr : k \in Keys}
  PROVE  /\ GpgInv' /\ call'.pc = "idle"
         /\ call'.fpr = Unset /\ call'.outcome = outcome /\ enrolled' = FALSE
  <1>1. call' = [NoCall EXCEPT !.outcome = outcome] /\ enrolled' = FALSE
    BY DEF Return
  <1>2. /\ call'.pc = "idle" /\ call'.fpr = Unset /\ call'.outcome = outcome
        /\ DOMAIN call' = Fields
    BY <1>1 DEF NoCall, Fields
  <1>3. keyring' \in Seq(KeyType) /\ listing' \in Seq(KeyType)
    BY Zenon DEF GpgInv
  <1> QED BY <1>1, <1>2, <1>3, Zenon DEF GpgInv

\* What a step of the code may do to what Prover sees: nothing, or the end of the
\* call, with evidence only of what was enrolled.
GpgEnds ==
    /\ call.fpr # Unset
    /\ call'.fpr = Unset /\ enrolled' = FALSE
    /\ call'.outcome = "refused" \/ (enrolled /\ call'.outcome = "evidence")

\* A step inside a call.
GpgGoes == UNCHANGED enrolled /\ call'.fpr = call.fpr /\ call'.outcome = call.outcome

\* An error ends a proof as refused; Prover does not see enumerations.
LEMMA GpgFailKeeps ==
  ASSUME GpgInv, Fail
  PROVE  GpgInv' /\ UNCHANGED keyring /\ (GpgEnds \/ GpgGoes)
  <1>1. /\ UNCHANGED <<keyring, listing, offered>>
        /\ Return(IF call.fpr = Unset THEN call.outcome ELSE "refused")
    BY DEF Fail
  <1>2. (IF call.fpr = Unset THEN call.outcome ELSE "refused") \in {"none", "evidence", "refused"}
    BY Zenon DEF GpgInv
  <1>3. offered' \subseteq {k.fpr : k \in Keys}
    BY <1>1, Zenon DEF GpgInv
  <1>4. /\ GpgInv' /\ call'.fpr = Unset /\ enrolled' = FALSE
        /\ call'.outcome = IF call.fpr = Unset THEN call.outcome ELSE "refused"
    BY <1>1, <1>2, <1>3, GpgReturnKeeps, Zenon
  <1>5. CASE call.fpr = Unset
    BY <1>1, <1>4, <1>5, Zenon DEF GpgGoes, GpgInv
  <1>6. CASE call.fpr # Unset
    BY <1>1, <1>4, <1>6, Zenon DEF GpgEnds
  <1> QED BY <1>5, <1>6

\* A call that goes on keeps its subject.
LEMMA GpgGoesOnKeeps ==
  ASSUME GpgInv, UNCHANGED <<keyring, offered, enrolled>>,
         call'.fpr = call.fpr, call'.outcome = call.outcome, DOMAIN call' = Fields,
         listing' \in Seq(KeyType),
         call'.pc \in {"list", "parse", "listed", "sign", "verify"},
         call'.pc \in {"parse", "listed"} /\ call.fpr # Unset /\ call.fpr \in HeldIn(listing')
            => enrolled,
         call'.pc = "parse" => Parsing(listing', call'.lines, call'.parse, call'.found),
         call'.pc \in {"listed", "sign", "verify"} => call'.found = Listed(listing', Len(listing')),
         call'.pc \in {"sign", "verify"} => enrolled /\ call.fpr # Unset,
         call'.pc = "verify" => call'.message.primary = call.fpr /\ call'.message.over = calls'
  PROVE  GpgInv' /\ UNCHANGED keyring /\ GpgGoes /\ call'.pc # "idle"
  <1>1. UNCHANGED keyring /\ UNCHANGED offered /\ UNCHANGED enrolled
    BY Zenon
  <1>2. call'.pc # "idle" /\ call'.pc \in {"idle", "list", "parse", "listed", "sign", "verify"}
    OBVIOUS
  <1>3. /\ keyring \in Seq(KeyType) /\ offered \subseteq {k.fpr : k \in Keys}
        /\ call.fpr \in {k.fpr : k \in Keys} \cup {Unset}
        /\ call.outcome \in {"none", "evidence", "refused"}
        /\ enrolled \in BOOLEAN
        /\ call.fpr = Unset => enrolled = FALSE
        /\ call.fpr # Unset /\ call.fpr \in HeldIn(keyring) => enrolled
    BY Zenon DEF GpgInv
  <1>4. GpgGoes
    BY <1>1, Zenon DEF GpgGoes
  <1> QED BY <1>1, <1>2, <1>3, <1>4 DEF GpgInv

\* The list run: what it prints is parsed next.
LEMMA GpgListKeeps ==
  ASSUME GpgInv, List
  PROVE  GpgInv' /\ UNCHANGED keyring /\ (GpgEnds \/ GpgGoes)
  <1>1. call.pc = "list" /\ DOMAIN call = Fields /\ keyring \in Seq(KeyType)
    BY Zenon DEF List, GpgInv
  <1>2. CASE Fail
    BY <1>2, GpgFailKeeps, Zenon
  <1>3. CASE /\ listing' = IF session.gpg = "works" THEN keyring ELSE << >>
             /\ call' = [call EXCEPT !.pc = "parse", !.lines = Listing(listing'),
                                     !.parse = NoParse, !.found = << >>]
             /\ UNCHANGED <<keyring, session, edits, offered, calls, enrolled, calm>>
    <2>1. listing' = keyring \/ listing' = << >>
      BY <1>3, Zenon
    <2>2. listing' \in Seq(KeyType) /\ (listing' = << >> => HeldIn(listing') = {})
      <3>1. << >> \in Seq(KeyType)
        OBVIOUS
      <3>2. HeldIn(<< >>) = {}
        BY DEF HeldIn
      <3> QED BY <1>1, <2>1, <3>1, <3>2, Zenon
    <2>3. UNCHANGED <<keyring, offered, enrolled>>
      BY <1>3
    <2>4. call.fpr # Unset /\ call.fpr \in HeldIn(listing') => enrolled
      BY <2>1, <2>2, Zenon DEF GpgInv
    <2>5. PICK lines : lines = Listing(listing')
      BY Zenon
    <2>6. call' = [call EXCEPT !.pc = "parse", !.lines = lines, !.parse = NoParse, !.found = << >>]
      BY <1>3, <2>5, Zenon
    <2>7. /\ call'.pc = "parse" /\ call'.lines = lines /\ call'.parse = NoParse
          /\ call'.found = << >> /\ call'.fpr = call.fpr /\ call'.outcome = call.outcome
          /\ DOMAIN call' = Fields
      BY <1>1, <2>6 DEF Fields
    <2>8. Parsing(listing', call'.lines, call'.parse, call'.found)
      BY <2>5, <2>7, Zenon DEF Parsing
    <2>9. /\ call'.pc \in {"list", "parse", "listed", "sign", "verify"}
          /\ call'.pc \notin {"listed", "sign", "verify"} /\ call'.pc # "verify" /\ call'.pc # "idle"
          /\ call'.pc \notin {"sign", "verify"}
      BY <2>7
    <2> QED BY <2>2, <2>3, <2>4, <2>7, <2>8, <2>9, GpgGoesOnKeeps
  <1> QED BY <1>2, <1>3, Zenon DEF List

\* A line of the listing, and its end.
LEMMA GpgParseKeeps ==
  ASSUME GpgInv, ParseLine \/ ParseEnd
  PROVE  GpgInv' /\ UNCHANGED keyring /\ GpgGoes
  <1>1. /\ call.pc = "parse" /\ DOMAIN call = Fields /\ listing \in Seq(KeyType) /\ Quiet
    BY Zenon DEF ParseLine, ParseEnd, GpgInv
  <1>2. /\ Parsing(listing, call.lines, call.parse, call.found)
        /\ call.fpr # Unset /\ call.fpr \in HeldIn(listing) => enrolled
    BY <1>1, Zenon DEF GpgInv
  <1>3. UNCHANGED <<keyring, offered, enrolled>> /\ listing' = listing /\ calls' = calls
    BY <1>1 DEF Quiet
  <1>4. CASE ParseLine
    <2>1. PICK q, found : /\ q = ReadLine(call.parse, Head(call.lines))
                          /\ found = IF Head(call.lines).rec = "sec"
                                     THEN FlushKey(call.found, call.parse) ELSE call.found
      BY Zenon
    <2>2. call.lines # << >> /\ call' = [call EXCEPT !.lines = Tail(call.lines), !.parse = q, !.found = found]
      BY <1>4, <2>1, Zenon DEF ParseLine
    <2>3. /\ call'.pc = "parse" /\ call'.lines = Tail(call.lines) /\ call'.parse = q
          /\ call'.found = found /\ call'.fpr = call.fpr /\ call'.outcome = call.outcome
          /\ DOMAIN call' = Fields
      BY <1>1, <2>2 DEF Fields
    <2>4. Parsing(listing, Tail(call.lines), q, found)
      BY <1>1, <1>2, <2>1, <2>2, ParseStep, Zenon
    <2>5. Parsing(listing', call'.lines, call'.parse, call'.found)
      BY <1>3, <2>3, <2>4, Zenon
    <2>6. /\ call'.pc \in {"list", "parse", "listed", "sign", "verify"}
          /\ call'.pc \notin {"listed", "sign", "verify"} /\ call'.pc # "verify" /\ call'.pc # "idle"
      BY <2>3
    <2>7. GpgInv' /\ UNCHANGED keyring /\ GpgGoes
      BY <1>1, <1>2, <1>3, <2>3, <2>5, <2>6, GpgGoesOnKeeps
    <2> QED BY <2>7
  <1>5. CASE ParseEnd
    <2>1. PICK found : found = FlushKey(call.found, call.parse)
      BY Zenon
    <2>2. call.lines = << >> /\ call' = [call EXCEPT !.found = found, !.parse = NoParse, !.pc = "listed"]
      BY <1>5, <2>1, Zenon DEF ParseEnd
    <2>3. /\ call'.pc = "listed" /\ call'.found = found /\ call'.fpr = call.fpr
          /\ call'.outcome = call.outcome /\ DOMAIN call' = Fields
      BY <1>1, <2>2 DEF Fields
    <2>4. found = Listed(listing, Len(listing))
      BY <1>1, <1>2, <2>1, <2>2, ParseDone, Zenon
    <2>5. call'.found = Listed(listing', Len(listing'))
      BY <1>3, <2>3, <2>4, Zenon
    <2>6. /\ call'.pc \in {"list", "parse", "listed", "sign", "verify"}
          /\ call'.pc # "parse" /\ call'.pc \notin {"sign", "verify"} /\ call'.pc # "verify" /\ call'.pc # "idle"
      BY <2>3
    <2>7. GpgInv' /\ UNCHANGED keyring /\ GpgGoes
      BY <1>1, <1>2, <1>3, <2>3, <2>5, <2>6, GpgGoesOnKeeps
    <2> QED BY <2>7
  <1> QED BY <1>4, <1>5

\* enumerate offers what it found; prove goes on only with what it found.
LEMMA GpgFindKeeps ==
  ASSUME GpgInv, FindKey
  PROVE  GpgInv' /\ UNCHANGED keyring /\ (GpgEnds \/ GpgGoes)
  <1>1. /\ call.pc = "listed" /\ DOMAIN call = Fields /\ listing \in Seq(KeyType)
        /\ call.outcome \in {"none", "evidence", "refused"}
        /\ call.fpr = Unset => enrolled = FALSE
        /\ call.fpr # Unset /\ call.fpr \in HeldIn(listing) => enrolled
        /\ call.found = Listed(listing, Len(listing))
    BY DEF FindKey, GpgInv
  <1>2. ASSUME NEW fpr
        PROVE  (\E n \in DOMAIN call.found : call.found[n].fpr = fpr) <=> fpr \in HeldIn(listing)
    <2>1. (\E n \in DOMAIN Listed(listing, Len(listing)) : Listed(listing, Len(listing))[n].fpr = fpr)
             <=> fpr \in HeldIn(listing)
      BY <1>1, ListedHeld, Zenon
    <2> QED BY <1>1, <2>1, Zenon
  <1>3. CASE /\ call.fpr = Unset
             /\ offered' = {call.found[n].fpr : n \in DOMAIN call.found}
             /\ Return(call.outcome) /\ UNCHANGED <<keyring, session, edits, listing, calls, calm>>
    <2>1. offered' \subseteq {k.fpr : k \in Keys}
      <3>1. ASSUME NEW fpr \in offered' PROVE fpr \in {k.fpr : k \in Keys}
        <4>1. fpr \in HeldIn(listing)
          BY <1>2, <1>3, <3>1, Zenon
        <4> QED BY <1>1, <4>1, HeldAreKeys, Zenon
      <3> QED BY <3>1, Zenon
    <2>2. UNCHANGED <<keyring, listing>>
      BY <1>3
    <2>3. GpgInv' /\ call'.fpr = Unset /\ call'.outcome = call.outcome /\ enrolled' = FALSE
      BY <1>1, <1>3, <2>1, <2>2, GpgReturnKeeps, Zenon
    <2> QED BY <1>1, <1>3, <2>2, <2>3, Zenon DEF GpgGoes
  <1>4. CASE Fail
    BY <1>4, GpgFailKeeps, Zenon
  <1>5. CASE /\ \E n \in DOMAIN call.found : call.found[n].fpr = call.fpr
             /\ call' = [call EXCEPT !.pc = "sign"]
             /\ Quiet
    <2>1. call.fpr \in HeldIn(listing)
      BY <1>2, <1>5, Zenon
    <2>2. call.fpr # Unset /\ enrolled
      BY <1>1, <2>1, HeldAreKeys, UnsetAssumption, Zenon
    <2>3. /\ call'.pc = "sign" /\ call'.found = call.found /\ call'.fpr = call.fpr
          /\ call'.outcome = call.outcome /\ DOMAIN call' = Fields
      BY <1>1, <1>5 DEF Fields
    <2>4. /\ UNCHANGED <<keyring, offered, enrolled>> /\ listing' = listing
      BY <1>5 DEF Quiet
    <2>5. call'.found = Listed(listing', Len(listing'))
      BY <1>1, <2>3, <2>4, Zenon
    <2>6. /\ call'.pc \in {"list", "parse", "listed", "sign", "verify"}
          /\ call'.pc # "parse" /\ call'.pc \notin {"parse", "listed"} /\ call'.pc # "verify" /\ call'.pc # "idle"
      BY <2>3
    <2>7. GpgInv' /\ UNCHANGED keyring /\ GpgGoes
      BY <1>1, <2>2, <2>3, <2>4, <2>5, <2>6, GpgGoesOnKeeps
    <2> QED BY <2>7
  <1> QED BY <1>3, <1>4, <1>5, Zenon DEF FindKey

\* The signature is of the key that was asked for, over this call's challenge.
LEMMA GpgSignKeeps ==
  ASSUME GpgInv, Sign
  PROVE  GpgInv' /\ UNCHANGED keyring /\ (GpgEnds \/ GpgGoes)
  <1>1. /\ call.pc = "sign" /\ DOMAIN call = Fields /\ listing \in Seq(KeyType)
        /\ enrolled /\ call.fpr # Unset
        /\ call.found = Listed(listing, Len(listing))
    BY Zenon DEF Sign, GpgInv
  <1>2. CASE Fail
    BY <1>2, GpgFailKeeps, Zenon
  <1>3. ASSUME NEW n \in DOMAIN keyring, keyring[n].fpr = call.fpr,
               call' = [call EXCEPT !.pc = "verify", !.message = SignedBy(keyring[n])], Quiet
        PROVE  GpgInv' /\ UNCHANGED keyring /\ GpgGoes
    <2>1. PICK message : message = SignedBy(keyring[n])
      BY Zenon
    <2>2. message.primary = call.fpr /\ message.over = calls
      BY <1>3, <2>1 DEF SignedBy
    <2>3. call' = [call EXCEPT !.pc = "verify", !.message = message]
      BY <1>3, <2>1, Zenon
    <2>4. /\ call'.pc = "verify" /\ call'.found = call.found /\ call'.fpr = call.fpr
          /\ call'.outcome = call.outcome /\ DOMAIN call' = Fields /\ call'.message = message
      BY <1>1, <2>3 DEF Fields
    <2>5. UNCHANGED <<keyring, offered, enrolled>> /\ listing' = listing /\ calls' = calls
      BY <1>3 DEF Quiet
    <2>6. call'.found = Listed(listing', Len(listing'))
      BY <1>1, <2>4, <2>5, Zenon
    <2>7. /\ call'.pc \in {"list", "parse", "listed", "sign", "verify"}
          /\ call'.pc # "parse" /\ call'.pc \notin {"parse", "listed"} /\ call'.pc # "idle"
      BY <2>4
    <2>8. call'.message.primary = call.fpr /\ call'.message.over = calls'
      BY <2>2, <2>4, <2>5, Zenon
    <2>9. GpgInv' /\ UNCHANGED keyring /\ GpgGoes
      BY <1>1, <2>4, <2>5, <2>6, <2>7, <2>8, GpgGoesOnKeeps
    <2> QED BY <2>9
  <1> QED BY <1>2, <1>3, Zenon DEF Sign

\* verify_openpgp ends the call.
LEMMA GpgVerifyKeeps ==
  ASSUME GpgInv, Verify
  PROVE  GpgInv' /\ UNCHANGED keyring /\ (GpgEnds \/ GpgGoes)
  <1>1. /\ enrolled /\ call.fpr # Unset /\ offered \subseteq {k.fpr : k \in Keys}
    BY Zenon DEF Verify, GpgInv
  <1>2. CASE Fail
    BY <1>2, GpgFailKeeps, Zenon
  <1>3. ASSUME NEW outcome \in {"evidence", "refused"}, Return(outcome),
               UNCHANGED <<keyring, session, edits, offered, listing, calls, calm>>
        PROVE  GpgInv' /\ UNCHANGED keyring /\ GpgEnds
    <2>1. outcome \in {"none", "evidence", "refused"}
      BY <1>3, Zenon
    <2>2. UNCHANGED <<keyring, listing>> /\ offered' = offered /\ UNCHANGED keyring
      BY <1>3
    <2>3. GpgInv' /\ call'.fpr = Unset /\ call'.outcome = outcome /\ enrolled' = FALSE
      BY <1>1, <1>3, <2>1, <2>2, GpgReturnKeeps, Zenon
    <2> QED BY <1>1, <1>3, <2>2, <2>3, Zenon DEF GpgEnds
  <1>4. ASSUME NEW B \in BOOLEAN PROVE (IF B THEN "evidence" ELSE "refused") \in {"evidence", "refused"}
    BY Zenon
  <1> QED BY <1>2, <1>3, <1>4, Zenon DEF Verify

\* Each step of a call keeps the invariant, and looks to Prover like a stutter or
\* like the end of the call.
LEMMA GpgStepKeeps ==
  ASSUME GpgInv, Step
  PROVE  GpgInv' /\ UNCHANGED keyring /\ (GpgEnds \/ GpgGoes)
  BY GpgListKeeps, GpgParseKeeps, GpgFindKeeps, GpgSignKeeps, GpgVerifyKeeps, Zenon DEF Step

\* The keyring is edited: a key that is enrollable by then is recorded.
LEMMA GpgEditKeeps ==
  ASSUME GpgInv, NEW keys \in Seq(KeyType), Edit(keys)
  PROVE  /\ GpgInv' /\ UNCHANGED call /\ keyring' = keys
         /\ enrolled' = (enrolled \/ (call.fpr # Unset /\ call.fpr \in HeldIn(keys)))
  <1>1. /\ keyring' = keys /\ offered' = offered /\ listing' = listing
        /\ call' = call /\ calls' = calls
        /\ enrolled' = (enrolled \/ (call.fpr # Unset /\ call.fpr \in HeldIn(keys)))
    BY DEF Edit
  <1>2. /\ listing \in Seq(KeyType)
        /\ offered \subseteq {k.fpr : k \in Keys}
        /\ DOMAIN call = Fields
        /\ call.pc \in {"idle", "list", "parse", "listed", "sign", "verify"}
        /\ call.fpr \in {k.fpr : k \in Keys} \cup {Unset}
        /\ call.outcome \in {"none", "evidence", "refused"}
        /\ call.pc = "idle" => call.fpr = Unset
        /\ enrolled \in BOOLEAN
        /\ call.fpr = Unset => enrolled = FALSE
        /\ call.pc \in {"parse", "listed"} /\ call.fpr # Unset /\ call.fpr \in HeldIn(listing)
              => enrolled
        /\ call.pc = "parse" => Parsing(listing, call.lines, call.parse, call.found)
        /\ call.pc \in {"listed", "sign", "verify"} => call.found = Listed(listing, Len(listing))
        /\ call.pc \in {"sign", "verify"} => enrolled /\ call.fpr # Unset
        /\ call.pc = "verify" => call.message.primary = call.fpr /\ call.message.over = calls
    BY Zenon DEF GpgInv
  <1>3. /\ enrolled' \in BOOLEAN /\ (enrolled => enrolled')
        /\ call.fpr = Unset => enrolled' = FALSE
        /\ call.fpr # Unset /\ call.fpr \in HeldIn(keys) => enrolled'
    BY <1>1, <1>2, Zenon
  <1> QED BY <1>1, <1>2, <1>3, Zenon DEF GpgInv

\* Fingerprints are not repeated.
DistinctIn(keys) == \A m, n \in DOMAIN keys : keys[m].fpr = keys[n].fpr => m = n

\* The edits of the keyring are edits to a list of keys that repeats no fingerprint.
LEMMA GpgEdits ==
  ASSUME GpgInv, GpgDistinct, EditKeyring
  PROVE  \E keys \in Seq(KeyType) : Edit(keys) /\ DistinctIn(keys)
  <1>0. keyring \in Seq(KeyType) /\ DistinctIn(keyring)
    BY Zenon DEF GpgInv, GpgDistinct, DistinctIn
  <1>1. CASE ImportKey
    <2>1. PICK k \in Keys : Edit(Append(keyring, k)) /\ \A n \in DOMAIN keyring : keyring[n].fpr # k.fpr
      BY <1>1 DEF ImportKey
    <2>2. k \in KeyType
      BY KeysAssumption, Zenon
    <2>3. Append(keyring, k) \in Seq(KeyType) /\ DistinctIn(Append(keyring, k))
      BY <1>0, <2>1, <2>2 DEF DistinctIn
    <2> QED BY <2>1, <2>3, Zenon
  <1>2. ASSUME NEW n \in DOMAIN keyring, NEW key \in KeyType, key.fpr = keyring[n].fpr,
               NEW keys, keys = [keyring EXCEPT ![n] = key], Edit(keys)
        PROVE  \E to \in Seq(KeyType) : Edit(to) /\ DistinctIn(to)
    <2>1. keys \in Seq(KeyType)
      BY <1>0, <1>2
    <2>2. DOMAIN keys = DOMAIN keyring /\ \A m \in DOMAIN keyring : keys[m].fpr = keyring[m].fpr
      BY <1>2
    <2>3. DistinctIn(keys)
      BY <1>0, <2>2, Zenon DEF DistinctIn
    <2> QED BY <1>2, <2>1, <2>3, Zenon
  <1>3. CASE RevokeKey
    <2>1. PICK n \in DOMAIN keyring : Edit([keyring EXCEPT ![n].validity = "r"])
      BY <1>3, Zenon DEF RevokeKey
    <2>2. PICK key : key = [keyring[n] EXCEPT !.validity = "r"]
      BY Zenon
    <2>3. keyring[n] \in KeyType
      BY <1>0
    <2>4. key \in KeyType /\ key.fpr = keyring[n].fpr
      BY <2>2, <2>3 DEF KeyType
    <2>5. [keyring EXCEPT ![n].validity = "r"] = [keyring EXCEPT ![n] = key]
      BY <2>2
    <2> QED BY <1>2, <2>1, <2>4, <2>5, Zenon
  <1>4. CASE ExpireKey
    <2>1. PICK n \in DOMAIN keyring : Edit([keyring EXCEPT ![n].validity = "e"])
      BY <1>4, Zenon DEF ExpireKey
    <2>2. PICK key : key = [keyring[n] EXCEPT !.validity = "e"]
      BY Zenon
    <2>3. keyring[n] \in KeyType
      BY <1>0
    <2>4. key \in KeyType /\ key.fpr = keyring[n].fpr
      BY <2>2, <2>3 DEF KeyType
    <2>5. [keyring EXCEPT ![n].validity = "e"] = [keyring EXCEPT ![n] = key]
      BY <2>2
    <2> QED BY <1>2, <2>1, <2>4, <2>5, Zenon
  <1>5. CASE TakeOffline
    <2>1. PICK n \in DOMAIN keyring : Edit([keyring EXCEPT ![n].secret = "#"])
      BY <1>5, Zenon DEF TakeOffline
    <2>2. PICK key : key = [keyring[n] EXCEPT !.secret = "#"]
      BY Zenon
    <2>3. keyring[n] \in KeyType
      BY <1>0
    <2>4. key \in KeyType /\ key.fpr = keyring[n].fpr
      BY <2>2, <2>3 DEF KeyType
    <2>5. [keyring EXCEPT ![n].secret = "#"] = [keyring EXCEPT ![n] = key]
      BY <2>2
    <2> QED BY <1>2, <2>1, <2>4, <2>5, Zenon
  <1>6. CASE DeleteKey
    <2>1. PICK n \in DOMAIN keyring : Edit(Without(keyring, n))
      BY <1>6 DEF DeleteKey
    <2>2. Without(keyring, n) \in Seq(KeyType)
      BY <1>0 DEF Without
    <2>3. DistinctIn(Without(keyring, n))
      BY <1>0 DEF DistinctIn, Without
    <2> QED BY <2>1, <2>2, <2>3, Zenon
  <1> QED BY <1>1, <1>3, <1>4, <1>5, <1>6, Zenon DEF EditKeyring

\* A change of the session leaves keyring and call alone.
LEMMA GpgSessionKeeps ==
  ASSUME GpgInv, ChangeSession
  PROVE  GpgInv' /\ UNCHANGED keyring /\ UNCHANGED call /\ UNCHANGED enrolled /\ calm' = FALSE
  <1>1. /\ UNCHANGED keyring /\ UNCHANGED offered /\ UNCHANGED listing /\ UNCHANGED call
        /\ UNCHANGED calls /\ UNCHANGED enrolled /\ calm' = FALSE
    BY Zenon DEF ChangeSession
  <1> QED BY <1>1, Zenon DEF GpgInv

\* A call begins: an enumeration, or a proof of a key that was offered.
LEMMA GpgBeginKeeps ==
  ASSUME GpgInv, Begin
  PROVE  /\ GpgInv' /\ UNCHANGED keyring /\ call.fpr = Unset /\ call.pc = "idle"
         /\ \/ GpgGoes
            \/ /\ call'.fpr \in {k.fpr : k \in Keys} /\ call'.outcome = "none"
               /\ enrolled' = (call'.fpr \in HeldIn(keyring))
  <1>1. /\ call.pc = "idle" /\ DOMAIN call = Fields /\ call.fpr = Unset /\ listing \in Seq(KeyType)
        /\ keyring \in Seq(KeyType) /\ offered \subseteq {k.fpr : k \in Keys} /\ enrolled = FALSE
    BY Zenon DEF Begin, GpgInv
  <1>2. keyring' = keyring /\ offered' = offered /\ listing' = listing
    BY Zenon DEF Begin
  <1>3. CASE call' = [call EXCEPT !.pc = "list"] /\ UNCHANGED enrolled
    <2>1. /\ call'.pc = "list" /\ call'.fpr = call.fpr /\ call'.outcome = call.outcome
          /\ DOMAIN call' = Fields
      BY <1>1, <1>3 DEF Fields
    <2>2. UNCHANGED <<keyring, offered, enrolled>> /\ listing' \in Seq(KeyType)
      BY <1>1, <1>2, <1>3
    <2>3. /\ call'.pc \in {"list", "parse", "listed", "sign", "verify"}
          /\ call'.pc \notin {"parse", "listed"} /\ call'.pc # "parse" /\ call'.pc \notin {"listed", "sign", "verify"}
          /\ call'.pc \notin {"sign", "verify"} /\ call'.pc # "verify"
      BY <2>1
    <2> QED BY <1>1, <2>1, <2>2, <2>3, GpgGoesOnKeeps
  <1>4. ASSUME NEW fpr \in offered,
               call' = [call EXCEPT !.pc = "list", !.fpr = fpr, !.outcome = "none"],
               enrolled' = (fpr \in HeldIn(keyring))
        PROVE  /\ GpgInv' /\ call'.fpr \in {k.fpr : k \in Keys} /\ call'.outcome = "none"
               /\ enrolled' = (call'.fpr \in HeldIn(keyring))
    <2>1. call'.pc = "list" /\ call'.fpr = fpr /\ call'.outcome = "none" /\ DOMAIN call' = Fields
      BY <1>1, <1>4 DEF Fields
    <2>2. fpr \in {k.fpr : k \in Keys} /\ fpr # Unset
      BY <1>1, <1>4, UnsetAssumption, Zenon
    <2>3. enrolled' \in BOOLEAN
      BY <1>4
    <2>4. call'.pc # "idle" /\ call'.pc \notin {"parse", "listed", "sign", "verify"}
      BY <2>1
    <2>5. call'.pc \notin {"parse", "listed"} /\ call'.pc # "parse" /\ call'.pc \notin {"listed", "sign", "verify"}
          /\ call'.pc \notin {"sign", "verify"} /\ call'.pc # "verify"
          /\ call'.pc \in {"idle", "list", "parse", "listed", "sign", "verify"}
          /\ call'.outcome \in {"none", "evidence", "refused"}
      BY <2>1
    <2> QED BY <1>1, <1>2, <1>4, <2>1, <2>2, <2>3, <2>4, <2>5, Zenon DEF GpgInv
  <1> QED BY <1>1, <1>2, <1>3, <1>4, Zenon DEF Begin

-----------------------------------------------------------------------------
(* A call that nothing disturbs.                                           *)

\* A step that ends an undisturbed call has evidence exactly of a usable key.
GpgProves ==
    calm /\ call.pc # "idle" /\ call'.pc = "idle" /\ call.fpr # Unset
       => (call'.outcome = "evidence" <=> Usable)

\* An error ends the call, a proof as refused.
LEMMA GpgFailRefuses ==
  ASSUME Fail
  PROVE  call'.pc = "idle" /\ (call.fpr # Unset => call'.outcome = "refused")
  <1>1. PICK outcome : outcome = IF call.fpr = Unset THEN call.outcome ELSE "refused"
    BY Zenon
  <1>2. call' = [NoCall EXCEPT !.outcome = outcome]
    BY <1>1, Zenon DEF Fail, Return
  <1>3. call'.pc = "idle" /\ call'.outcome = outcome
    BY <1>2 DEF NoCall
  <1> QED BY <1>1, <1>3, Zenon

\* Between calls there is nothing to know.
LEMMA GpgIdleCalm ==
  ASSUME call'.pc = "idle"
  PROVE  GpgCalm'
  <1>1. call'.pc \notin {"parse", "listed"} /\ call'.pc \notin {"sign", "verify"} /\ call'.pc # "verify"
    OBVIOUS
  <1> QED BY <1>1, Zenon DEF GpgCalm

\* An error that a usable key does not meet.
LEMMA GpgFailProves ==
  ASSUME Fail, calm /\ call.fpr # Unset => ~Usable
  PROVE  GpgCalm' /\ GpgProves
  <1>1. call'.pc = "idle" /\ (call.fpr # Unset => call'.outcome # "evidence")
    BY GpgFailRefuses, Zenon
  <1> QED BY <1>1, GpgIdleCalm, Zenon DEF GpgProves

\* What an undisturbed list run printed.
LEMMA GpgListCalm ==
  ASSUME GpgInv, List
  PROVE  GpgCalm' /\ GpgProves
  <1>1. CASE session.gpg = "missing" /\ Fail
    BY <1>1, GpgFailProves, Zenon DEF Usable
  <1>2. CASE /\ listing' = IF session.gpg = "works" THEN keyring ELSE << >>
             /\ call' = [call EXCEPT !.pc = "parse", !.lines = Listing(listing'),
                                     !.parse = NoParse, !.found = << >>]
             /\ UNCHANGED <<keyring, session, edits, offered, calls, enrolled, calm>>
    <2>1. DOMAIN call = Fields
      BY Zenon DEF GpgInv
    <2>2. PICK lines : lines = Listing(listing')
      BY Zenon
    <2>3. call' = [call EXCEPT !.pc = "parse", !.lines = lines, !.parse = NoParse, !.found = << >>]
      BY <1>2, <2>2, Zenon
    <2>4. call'.pc = "parse"
      BY <2>1, <2>3 DEF Fields
    <2>5. call'.pc \notin {"sign", "verify"} /\ call'.pc # "verify" /\ call'.pc # "idle"
      BY <2>4
    <2>6. UNCHANGED session /\ UNCHANGED keyring
      BY <1>2
    <2>7. listing' = IF session'.gpg = "works" THEN keyring' ELSE << >>
      BY <1>2, <2>6, Zenon
    <2> QED BY <2>5, <2>7, Zenon DEF GpgCalm, GpgProves
  <1> QED BY <1>1, <1>2, Zenon DEF List

\* Parsing changes nothing about it.
LEMMA GpgParseCalm ==
  ASSUME GpgInv, GpgCalm, ParseLine \/ ParseEnd
  PROVE  GpgCalm' /\ GpgProves
  <1>1. call.pc = "parse" /\ DOMAIN call = Fields /\ Quiet
    BY Zenon DEF ParseLine, ParseEnd, GpgInv
  <1>2. UNCHANGED session /\ UNCHANGED keyring /\ UNCHANGED listing /\ UNCHANGED calm
    BY <1>1 DEF Quiet
  <1>3. CASE ParseLine
    <2>1. PICK lines, q, found : call' = [call EXCEPT !.lines = lines, !.parse = q, !.found = found]
      BY <1>3, Zenon DEF ParseLine
    <2>2. call'.pc = "parse"
      BY <1>1, <2>1 DEF Fields
    <2>3. call'.pc \notin {"sign", "verify"} /\ call'.pc # "verify" /\ call'.pc # "idle"
      BY <2>2
    <2>4. calm => listing = IF session.gpg = "works" THEN keyring ELSE << >>
      BY <1>1, Zenon DEF GpgCalm
    <2> QED BY <1>2, <2>3, <2>4, Zenon DEF GpgCalm, GpgProves
  <1>4. CASE ParseEnd
    <2>1. PICK found : call' = [call EXCEPT !.found = found, !.parse = NoParse, !.pc = "listed"]
      BY <1>4, Zenon DEF ParseEnd
    <2>2. call'.pc = "listed"
      BY <1>1, <2>1 DEF Fields
    <2>3. call'.pc \notin {"sign", "verify"} /\ call'.pc # "verify" /\ call'.pc # "idle"
      BY <2>2
    <2>4. calm => listing = IF session.gpg = "works" THEN keyring ELSE << >>
      BY <1>1, Zenon DEF GpgCalm
    <2> QED BY <1>2, <2>3, <2>4, Zenon DEF GpgCalm, GpgProves
  <1> QED BY <1>3, <1>4

\* The key is found exactly when gpg works and the keyring has it enrollable.
LEMMA GpgFindCalm ==
  ASSUME GpgInv, GpgCalm, FindKey
  PROVE  GpgCalm' /\ GpgProves
  <1>1. /\ call.pc = "listed" /\ DOMAIN call = Fields /\ listing \in Seq(KeyType)
        /\ call.found = Listed(listing, Len(listing))
    BY Zenon DEF FindKey, GpgInv
  <1>2. calm => listing = IF session.gpg = "works" THEN keyring ELSE << >>
    BY <1>1, Zenon DEF GpgCalm
  <1>3. (\E n \in DOMAIN call.found : call.found[n].fpr = call.fpr) <=> call.fpr \in HeldIn(listing)
    <2>1. (\E n \in DOMAIN Listed(listing, Len(listing)) : Listed(listing, Len(listing))[n].fpr = call.fpr)
             <=> call.fpr \in HeldIn(listing)
      BY <1>1, ListedHeld, Zenon
    <2> QED BY <1>1, <2>1, Zenon
  <1>4. CASE call.fpr = Unset /\ Return(call.outcome)
    <2>1. call' = [NoCall EXCEPT !.outcome = call.outcome]
      BY <1>4, Zenon DEF Return
    <2>2. call'.pc = "idle"
      BY <2>1 DEF NoCall
    <2> QED BY <1>4, <2>2, GpgIdleCalm, Zenon DEF GpgProves
  <1>5. CASE /\ call.fpr # Unset
             /\ \A n \in DOMAIN call.found : call.found[n].fpr # call.fpr
             /\ Fail
    <2>1. call.fpr \notin HeldIn(listing)
      BY <1>3, <1>5, Zenon
    <2>2. Usable => session.gpg = "works" /\ call.fpr \in HeldIn(keyring)
      BY Zenon DEF Usable, HeldIn
    <2>3. calm => ~Usable
      BY <1>2, <2>1, <2>2, Zenon
    <2> QED BY <1>5, <2>3, GpgFailProves, Zenon
  <1>6. CASE /\ \E n \in DOMAIN call.found : call.found[n].fpr = call.fpr
             /\ call' = [call EXCEPT !.pc = "sign"]
             /\ Quiet
    <2>1. call.fpr \in HeldIn(listing)
      BY <1>3, <1>6, Zenon
    <2>2. HeldIn(<< >>) = {}
      BY DEF HeldIn
    <2>3. calm => session.gpg = "works" /\ call.fpr \in HeldIn(keyring)
      BY <1>2, <2>1, <2>2, Zenon
    <2>4. call'.pc = "sign" /\ call'.fpr = call.fpr
      BY <1>1, <1>6 DEF Fields
    <2>5. call'.pc \notin {"parse", "listed"} /\ call'.pc # "verify" /\ call'.pc # "idle"
      BY <2>4
    <2>6. UNCHANGED session /\ UNCHANGED keyring /\ UNCHANGED calm
      BY <1>6 DEF Quiet
    <2> QED BY <2>3, <2>4, <2>5, <2>6, Zenon DEF GpgCalm, GpgProves
  <1> QED BY <1>4, <1>5, <1>6, Zenon DEF FindKey

\* What is usable, gpg signs with.
LEMMA UsableSigns ==
  ASSUME NEW key \in KeyType, Enrollable(key), key.validity # "e"
  PROVE  Signs(key)
  <1>1. key.validity \in {"u", "e", "r"}
    BY DEF KeyType
  <1>2. key.validity = "u" /\ key.secret # "#"
    BY <1>1, Zenon DEF Enrollable, IsRevoked
  <1> QED BY <1>2, Zenon DEF Signs

\* gpg signs with the key unless it is not usable.
LEMMA GpgSignCalm ==
  ASSUME GpgInv, GpgCalm, Sign
  PROVE  GpgCalm' /\ GpgProves
  <1> DEFINE signing == {n \in DOMAIN keyring : keyring[n].fpr = call.fpr /\ Signs(keyring[n])}
  <1>1. call.pc = "sign" /\ DOMAIN call = Fields /\ keyring \in Seq(KeyType)
    BY Zenon DEF Sign, GpgInv
  <1>2. CASE ~(session.gpg = "works" /\ session.willing /\ signing # {}) /\ Fail
    <2>1. ASSUME Usable PROVE session.gpg = "works" /\ session.willing /\ signing # {}
      <3>1. PICK n \in DOMAIN keyring :
               keyring[n].fpr = call.fpr /\ Enrollable(keyring[n]) /\ keyring[n].validity # "e"
        BY <2>1, Zenon DEF Usable
      <3>2. keyring[n] \in KeyType
        BY <1>1
      <3>3. Signs(keyring[n])
        BY <3>1, <3>2, UsableSigns, Zenon
      <3> QED BY <2>1, <3>1, <3>3, Zenon DEF Usable
    <2> QED BY <1>2, <2>1, GpgFailProves, Zenon
  <1>3. ASSUME session.gpg = "works", session.willing, NEW n \in signing, Quiet,
               call' = [call EXCEPT !.pc = "verify", !.message = SignedBy(keyring[n])]
        PROVE  GpgCalm' /\ GpgProves
    <2>1. PICK message : message = SignedBy(keyring[n])
      BY Zenon
    <2>2. message.signer = IF keyring[n].sub = Unset THEN keyring[n].fpr ELSE keyring[n].sub
      BY <2>1, Zenon DEF SignedBy
    <2>3. call' = [call EXCEPT !.pc = "verify", !.message = message]
      BY <1>3, <2>1, Zenon
    <2>4. call'.pc = "verify" /\ call'.fpr = call.fpr /\ call'.message = message
      BY <1>1, <2>3 DEF Fields
    <2>5. call'.pc \notin {"parse", "listed"} /\ call'.pc # "idle"
      BY <2>4
    <2>6. UNCHANGED session /\ UNCHANGED keyring /\ UNCHANGED calm
      BY <1>3 DEF Quiet
    <2>7. calm => call.fpr \in HeldIn(keyring)
      BY <1>1, Zenon DEF GpgCalm
    <2>8. n \in DOMAIN keyring /\ keyring[n].fpr = call.fpr /\ Signs(keyring[n])
      BY <1>3, Zenon
    <2> QED BY <1>3, <2>2, <2>4, <2>5, <2>6, <2>7, <2>8, Zenon DEF GpgCalm, GpgProves
  <1> QED BY <1>2, <1>3, Zenon DEF Sign

\* VALIDSIG of an undisturbed call names the key exactly when that is usable.
LEMMA GpgVerifyCalm ==
  ASSUME GpgInv, GpgDistinct, GpgCalm, Verify
  PROVE  GpgCalm' /\ GpgProves
  <1> DEFINE primary == IF session.primary THEN call.message.primary ELSE Unset
  <1>1. /\ call.pc = "verify" /\ call.message.primary = call.fpr /\ call.message.over = calls
        /\ call.fpr \in {k.fpr : k \in Keys} /\ keyring \in Seq(KeyType) /\ call.fpr # Unset
    BY Zenon DEF Verify, GpgInv
  <1>2. ASSUME calm
        PROVE  /\ session.gpg = "works" /\ session.willing
               /\ \E n \in DOMAIN keyring :
                     /\ keyring[n].fpr = call.fpr /\ keyring[n].validity = "u"
                     /\ Enrollable(keyring[n])
                     /\ call.message.signer = IF keyring[n].sub = Unset THEN keyring[n].fpr
                                              ELSE keyring[n].sub
    <2>1. /\ session.gpg = "works" /\ call.fpr \in HeldIn(keyring) /\ session.willing
          /\ \E n \in DOMAIN keyring :
                /\ keyring[n].fpr = call.fpr /\ Signs(keyring[n])
                /\ call.message.signer = IF keyring[n].sub = Unset THEN keyring[n].fpr
                                         ELSE keyring[n].sub
      BY <1>1, <1>2, Zenon DEF GpgCalm
    <2>2. PICK m \in DOMAIN keyring : keyring[m].fpr = call.fpr /\ Enrollable(keyring[m])
      BY <2>1, Zenon DEF HeldIn
    <2> QED BY <2>1, <2>2, Zenon DEF GpgDistinct, Signs
  <1>3. CASE /\ session.gpg = "works"
                   => \A n \in {m \in DOMAIN keyring : keyring[m].fpr = call.message.primary} :
                         IsRevoked(keyring[n].validity)
             /\ Fail
    <2>1. ~IsRevoked("u")
      BY DEF IsRevoked
    <2>2. ~calm
      BY <1>1, <1>2, <1>3, <2>1, Zenon
    <2> QED BY <1>3, <2>2, GpgFailProves, Zenon
  <1>4. CASE Return(IF NamesKey(call.fpr, call.message.signer, primary) /\ call.message.over = calls
                    THEN "evidence" ELSE "refused")
    <2>1. PICK outcome :
             outcome = IF NamesKey(call.fpr, call.message.signer, primary) /\ call.message.over = calls
                       THEN "evidence" ELSE "refused"
      BY Zenon
    <2>2. call' = [NoCall EXCEPT !.outcome = outcome]
      BY <1>4, <2>1, Zenon DEF Return
    <2>3. call'.pc = "idle" /\ call'.outcome = outcome
      BY <2>2 DEF NoCall
    <2>4. outcome = "evidence" <=> NamesKey(call.fpr, call.message.signer, primary)
      <3>1. "evidence" # "refused"
        OBVIOUS
      <3> QED BY <1>1, <2>1, <3>1, Zenon
    <2>5. ASSUME calm PROVE NamesKey(call.fpr, call.message.signer, primary) <=> Usable
      <3>1. PICK n \in DOMAIN keyring :
                     /\ keyring[n].fpr = call.fpr /\ keyring[n].validity = "u"
                     /\ Enrollable(keyring[n])
                     /\ call.message.signer = IF keyring[n].sub = Unset THEN keyring[n].fpr
                                              ELSE keyring[n].sub
        BY <1>2, <2>5, Zenon
      <3>2. keyring[n] \in KeyType
        BY <1>1
      <3>3. keyring[n].sub \in {k.sub : k \in Keys}
        BY <3>2 DEF KeyType
      <3>4. keyring[n].sub # call.fpr
        BY <1>1, <3>3, KeysAssumption, Zenon
      <3>5. call.fpr = call.message.signer <=> keyring[n].sub = Unset
        BY <3>1, <3>4, Zenon
      <3>6. call.fpr = primary <=> session.primary
        BY <1>1, Zenon
      <3>7. Usable <=> keyring[n].sub = Unset \/ session.primary
        <4>1. \A m \in DOMAIN keyring : keyring[m].fpr = call.fpr => m = n
          BY <3>1, Zenon DEF GpgDistinct
        <4>2. keyring[n].validity # "e"
          BY <3>1
        <4> QED BY <1>2, <2>5, <3>1, <4>1, <4>2, Zenon DEF Usable
      <3> QED BY <3>5, <3>6, <3>7, Zenon DEF NamesKey
    <2> QED BY <2>3, <2>4, <2>5, GpgIdleCalm, Zenon DEF GpgProves
  <1> QED BY <1>3, <1>4, Zenon DEF Verify

\* A call begins with nothing listed.
LEMMA GpgBeginCalm ==
  ASSUME GpgInv, Begin
  PROVE  GpgCalm' /\ GpgProves
  <1>1. DOMAIN call = Fields /\ call.pc = "idle"
    BY Zenon DEF GpgInv, Begin
  <1>2. CASE call' = [call EXCEPT !.pc = "list"]
    <2>1. call'.pc = "list"
      BY <1>1, <1>2 DEF Fields
    <2>2. call'.pc \notin {"parse", "listed"} /\ call'.pc \notin {"sign", "verify"} /\ call'.pc # "verify"
      BY <2>1
    <2> QED BY <1>1, <2>2, Zenon DEF GpgCalm, GpgProves
  <1>3. ASSUME NEW fpr, call' = [call EXCEPT !.pc = "list", !.fpr = fpr, !.outcome = "none"]
        PROVE  GpgCalm' /\ GpgProves
    <2>1. call'.pc = "list"
      BY <1>1, <1>3 DEF Fields
    <2>2. call'.pc \notin {"parse", "listed"} /\ call'.pc \notin {"sign", "verify"} /\ call'.pc # "verify"
      BY <2>1
    <2> QED BY <1>1, <2>2, Zenon DEF GpgCalm, GpgProves
  <1> QED BY <1>2, <1>3, Zenon DEF Begin

-----------------------------------------------------------------------------
(* All of it.                                                              *)

\* The inductive invariant.
GpgAll == GpgInv /\ GpgDistinct /\ GpgCalm

\* It holds of a keyring with no keys.
LEMMA GpgAllInit == GpgInit => GpgAll
  <1> SUFFICES ASSUME GpgInit PROVE GpgDistinct /\ GpgCalm
    BY GpgInitHolds, Zenon DEF GpgAll
  <1>1. keyring = << >> /\ call = NoCall
    BY DEF GpgInit
  <1>2. call.pc = "idle"
    BY <1>1 DEF NoCall
  <1>3. call.pc \notin {"parse", "listed"} /\ call.pc \notin {"sign", "verify"} /\ call.pc # "verify"
    BY <1>2
  <1>4. GpgDistinct
    BY <1>1 DEF GpgDistinct
  <1> QED BY <1>3, <1>4, Zenon DEF GpgCalm

\* Every step keeps it, and ends no undisturbed call with the wrong answer.
LEMMA GpgNextHolds ==
  ASSUME GpgAll, [GpgNext]_gpgVars
  PROVE  GpgAll' /\ [GpgProves]_gpgVars
  <1>0. GpgInv /\ GpgDistinct /\ GpgCalm
    BY Zenon DEF GpgAll
  <1>1. CASE EditKeyring
    <2>1. PICK keys \in Seq(KeyType) : Edit(keys) /\ DistinctIn(keys)
      BY <1>0, <1>1, GpgEdits
    <2>2. GpgInv' /\ UNCHANGED call /\ keyring' = keys
      BY <1>0, <2>1, GpgEditKeeps, Zenon
    <2>3. calm' = FALSE
      BY <2>1, Zenon DEF Edit
    <2>4. GpgDistinct' /\ GpgCalm' /\ GpgProves
      BY <2>1, <2>2, <2>3, Zenon DEF GpgDistinct, DistinctIn, GpgCalm, GpgProves
    <2> QED BY <2>2, <2>4, Zenon DEF GpgAll
  <1>2. CASE ChangeSession
    BY <1>0, <1>2, GpgSessionKeeps, Zenon DEF GpgAll, GpgDistinct, GpgCalm, GpgProves
  <1>3. CASE Begin
    BY <1>0, <1>3, GpgBeginKeeps, GpgBeginCalm, Zenon DEF GpgAll, GpgDistinct
  <1>4. CASE Step
    <2>1. GpgInv' /\ GpgDistinct'
      BY <1>0, <1>4, GpgStepKeeps, Zenon DEF GpgDistinct
    <2>2. GpgCalm' /\ GpgProves
      BY <1>0, <1>4, GpgListCalm, GpgParseCalm, GpgFindCalm, GpgSignCalm, GpgVerifyCalm, Zenon DEF Step
    <2> QED BY <2>1, <2>2, Zenon DEF GpgAll
  <1>5. CASE UNCHANGED gpgVars
    <2>1. /\ UNCHANGED keyring /\ UNCHANGED session /\ UNCHANGED offered /\ UNCHANGED listing
          /\ UNCHANGED call /\ UNCHANGED calls /\ UNCHANGED enrolled /\ UNCHANGED calm
      BY <1>5, Zenon DEF gpgVars
    <2>2. GpgInv' /\ GpgDistinct' /\ GpgCalm'
      BY <1>0, <2>1, Zenon DEF GpgInv, GpgDistinct, GpgCalm
    <2> QED BY <1>5, <2>2, Zenon DEF GpgAll
  <1> QED BY <1>1, <1>2, <1>3, <1>4, <1>5, Zenon DEF GpgNext

\* parse_gpg_colons yields exactly the enrollable keys of the keyring that was
\* printed, in order, each under its primary fingerprint and its own first live
\* name, whatever the keyring.
THEOREM ListingIsRead == GpgSpec => []ListedIsEnrollable
  <1>1. GpgInv => ListedIsEnrollable
    <2>1. ASSUME NEW keys PROVE Retain(keys, {n \in DOMAIN keys : Enrollable(keys[n])}) = Kept(keys, Live(keys))[Len(keys)]
      BY Zenon DEF Retain, Live
    <2> QED BY <2>1, Zenon DEF GpgInv, ListedIsEnrollable, Listed, CandidatesOf
  <1>2. GpgAll => GpgInv
    BY Zenon DEF GpgAll
  <1>3. GpgAll /\ [GpgNext]_gpgVars => GpgAll'
    BY GpgNextHolds
  <1> QED BY <1>1, <1>2, <1>3, GpgAllInit, PTL DEF GpgSpec

\* prove answers an undisturbed call with evidence exactly when its key is enrollable
\* and not expired, gpg works, the human is willing, and gpg names the primary where
\* a subkey signs.
THEOREM UndisturbedGpgProves == GpgSpec => UndisturbedProvesTheUsable
  <1>1. GpgAll /\ [GpgNext]_gpgVars => GpgAll' /\ [GpgProves]_gpgVars
    BY GpgNextHolds
  <1> QED BY <1>1, GpgAllInit, PTL DEF GpgSpec, UndisturbedProvesTheUsable, GpgProves

\* gpg implements Prover: evidence is of a key that was enrollable during the very
\* call, and a call that fails, however late, proves nothing.
THEOREM GpgRefinesProver == GpgSpec => GpgImplementsProver
  <1>1. GpgInit => P!Init
    BY DEF GpgInit, P!Init, NoCall, HeldIn
  <1>2. GpgAll /\ [GpgNext]_gpgVars => [P!Next]_P!vars
    <2> SUFFICES ASSUME GpgAll, [GpgNext]_gpgVars PROVE [P!Next]_P!vars
      OBVIOUS
    <2>0. GpgInv /\ GpgDistinct
      BY Zenon DEF GpgAll
    <2>1. ASSUME UNCHANGED keyring, GpgGoes
          PROVE  UNCHANGED P!vars
      BY <2>1 DEF GpgGoes, P!vars
    <2>2. CASE EditKeyring
      <3>1. PICK keys \in Seq(KeyType) : Edit(keys)
        BY <2>0, <2>2, GpgEdits
      <3>2. /\ keyring' = keys /\ UNCHANGED call
            /\ enrolled' = (enrolled \/ (call.fpr # Unset /\ call.fpr \in HeldIn(keys)))
        BY <2>0, <3>1, GpgEditKeeps, Zenon
      <3>3. HeldIn(keys) \subseteq {k.fpr : k \in Keys} /\ Unset \notin HeldIn(keys)
        BY HeldAreKeys, UnsetAssumption, Zenon
      <3>4. enrolled' = (enrolled \/ call.fpr \in HeldIn(keyring'))
        BY <3>2, <3>3, Zenon
      <3>5. HeldIn(keyring') \subseteq {k.fpr : k \in Keys}
        BY <3>2, <3>3
      <3> QED BY <3>2, <3>4, <3>5 DEF P!Next, P!Change
    <2>3. CASE Begin
      <3>1. /\ UNCHANGED keyring /\ call.fpr = Unset
            /\ \/ GpgGoes
               \/ /\ call'.fpr \in {k.fpr : k \in Keys} /\ call'.outcome = "none"
                  /\ enrolled' = (call'.fpr \in HeldIn(keyring))
        BY <2>0, <2>3, GpgBeginKeeps, Zenon
      <3>2. CASE GpgGoes
        BY <3>1, <3>2, <2>1
      <3>3. CASE ~GpgGoes
        BY <3>1, <3>3 DEF P!Next, P!Begin
      <3> QED BY <3>2, <3>3
    <2>4. CASE Step
      <3>1. UNCHANGED keyring /\ (GpgEnds \/ GpgGoes)
        BY <2>0, <2>4, GpgStepKeeps, Zenon
      <3>2. CASE GpgEnds
        BY <3>1, <3>2 DEF GpgEnds, P!Next, P!Prove, P!Refuse
      <3>3. CASE GpgGoes
        BY <3>1, <3>3, <2>1
      <3> QED BY <3>1, <3>2, <3>3
    <2>5. CASE ChangeSession
      <3>1. UNCHANGED keyring /\ GpgGoes
        BY <2>0, <2>5, GpgSessionKeeps, Zenon DEF GpgGoes
      <3> QED BY <3>1, <2>1
    <2>6. CASE UNCHANGED gpgVars
      BY <2>6 DEF gpgVars, P!vars
    <2> QED BY <2>2, <2>3, <2>4, <2>5, <2>6 DEF GpgNext
  <1>3. GpgAll /\ [GpgNext]_gpgVars => GpgAll'
    BY GpgNextHolds
  <1> QED BY <1>1, <1>2, <1>3, GpgAllInit, PTL DEF GpgSpec, GpgImplementsProver, P!Spec
=============================================================================
