------------------------------- MODULE MCTexts -------------------------------
(***************************************************************************)
(* A small instance, for TLC, of the parsers of hired (Texts).                     *)
(***************************************************************************)
EXTENDS Texts

CONSTANTS
    MaxParams,      \* bound: parameters of one audience
    MaxAudiences    \* bound: audiences of one request

UpTo(S_, n) == UNION {[1..k -> S_] : k \in 0..n}

MCInputs == UpTo(UpTo(Params, MaxParams), MaxAudiences) \ {<< >>}

\* Any text is a source; one text is malformed for each of the other keys.
MCHintValid ==
    [k \in {"source", "identity_assurance", "presence", "age"} |->
        IF k = "source" THEN HintValues ELSE {"v"}]

MCDidPrefix == <<237, 1>>
=============================================================================
