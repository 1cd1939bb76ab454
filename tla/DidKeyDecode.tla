---------------------------- MODULE DidKeyDecode ----------------------------
(***************************************************************************)
(* ed25519_point (hire-attestors/src/did_key.rs): the base58 decoding of a      *)
(* did:key into a buffer of fixed width, one digit a step.  The digits are the   *)
(* positions in the alphabet; a character outside it ends the decoding.         *)
(***************************************************************************)
EXTENDS Integers, Sequences

CONSTANTS
    Digits,     \* digits a DID may have, with NoDigit for any other character
    NoDigit,
    MaxDigits,  \* bound on the length of a DID
    Width,      \* ED25519_DID_LEN
    Prefix,     \* ED25519_MULTICODEC, a sequence of bytes
    Nothing

VARIABLES
    read,       \* the digits read so far
    decoded,    \* the buffer, most significant byte first
    point       \* "pending", then the key after the prefix, or Nothing

vars == <<read, decoded, point>>

Init ==
    /\ read = << >>
    /\ decoded = [i \in 1..Width |-> 0]
    /\ point = "pending"

\* The inner loop: the carries into each byte, from the last byte to the first.
Carries(bytes, digit) ==
    LET carry[i \in 0..Width] ==
          IF i = Width THEN digit ELSE (carry[i + 1] + 58 * bytes[i + 1]) \div 256
    IN  carry

\* A slip in Push: a carry out of the buffer is dropped.
PushWrapping(digit) ==
    LET carry == Carries(decoded, digit)
    IN  /\ decoded' = [i \in 1..Width |-> (carry[i] + 58 * decoded[i]) % 256]
        /\ UNCHANGED point

\* One digit: multiply by 58 and add; a carry out of the buffer ends it.
Push(digit) ==
    LET carry == Carries(decoded, digit)
    IN  \/ /\ carry[0] = 0
           /\ decoded' = [i \in 1..Width |-> (carry[i] + 58 * decoded[i]) % 256]
           /\ UNCHANGED point
        \/ /\ carry[0] # 0
           /\ point' = Nothing
           /\ UNCHANGED decoded

ReadDigit ==
    /\ point = "pending" /\ Len(read) < MaxDigits
    /\ \E digit \in Digits :
          /\ read' = Append(read, digit)
          /\ \/ digit = NoDigit /\ point' = Nothing /\ UNCHANGED decoded
             \/ digit # NoDigit /\ Push(digit)

\* The end of the string: the multicodec prefix decides.
Finish ==
    /\ point = "pending"
    /\ point' = IF SubSeq(decoded, 1, Len(Prefix)) = Prefix
                THEN SubSeq(decoded, Len(Prefix) + 1, Width) ELSE Nothing
    /\ UNCHANGED <<read, decoded>>

Next == ReadDigit \/ Finish

Spec == Init /\ [][Next]_vars

-----------------------------------------------------------------------------
(* Properties.                                                             *)

\* The number a sequence of digits stands for.
Value(digits, base) ==
    LET upTo[n \in 0..Len(digits)] == IF n = 0 THEN 0 ELSE upTo[n - 1] * base + digits[n]
    IN  upTo[Len(digits)]

\* The buffer always holds the number the digits stand for, so two DIDs that
\* decode to the same key are the same number, and no carry is lost.
BufferIsTheNumber ==
    point # Nothing => Value(decoded, 256) = Value(read, 58)

=============================================================================
