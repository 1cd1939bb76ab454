------------------------------ MODULE Retained ------------------------------
(***************************************************************************)
(* Vec::retain: what is left of a list when only some positions are kept.    *)
(***************************************************************************)
EXTENDS Naturals, Sequences

\* What is kept of the first n elements.
Kept(s, P) ==
    LET kept[n \in 0..Len(s)] ==
          IF n = 0 THEN << >>
          ELSE IF n \in P THEN Append(kept[n - 1], s[n]) ELSE kept[n - 1]
    IN  kept

\* What is kept of all of them.
Retain(s, P) == Kept(s, P)[Len(s)]

=============================================================================
