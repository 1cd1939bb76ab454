------------------------------ MODULE HintParse ------------------------------
(***************************************************************************)
(* SvidHint::from_str (hire-core/src/hint.rs): the tag of an SVID, read parameter   *)
(* by parameter.  The tag is chosen as it is read; what follows an error does not   *)
(* matter to the code either.                                                   *)
(***************************************************************************)
EXTENDS Naturals, Sequences

CONSTANTS
    Values,     \* texts a parameter may carry
    Valid,      \* [Keys -> SUBSET Values]: what parses for a key; all for source
    NoValue,    \* an absent Option
    MaxParams   \* bound on the tag

VARIABLES
    raw,        \* the parameters read, the empty ones left out by filter
    fields,     \* the four Options
    result      \* "reading", "ok", or the error

vars == <<raw, fields, result>>

Keys == {"source", "identity_assurance", "presence", "age"}

Init ==
    /\ raw = << >>
    /\ fields = [k \in Keys |-> NoValue]
    /\ result = "reading"

\* A slip in ReadParam: the last value wins.
ReadParamLastWins ==
    /\ result = "reading" /\ Len(raw) < MaxParams
    /\ \E k \in Keys \cup {"other"}, v \in Values :
          /\ raw' = Append(raw, <<k, v>>)
          /\ IF k \notin Keys THEN result' = "UnknownKey" /\ UNCHANGED fields
             ELSE IF v \notin Valid[k] THEN result' = "BadValue" /\ UNCHANGED fields
             ELSE /\ fields' = [fields EXCEPT ![k] = v]
                  /\ UNCHANGED result

\* A slip in ReadParam: source is accepted in the first place only.
ReadParamInOrder ==
    /\ result = "reading" /\ Len(raw) < MaxParams
    /\ \E k \in Keys, v \in Values :
          /\ raw' = Append(raw, <<k, v>>)
          /\ fields' = [fields EXCEPT ![k] = v]
          /\ result' = IF k = "source" /\ raw # << >> THEN "UnknownKey"
                       ELSE IF fields[k] # NoValue THEN "RepeatedKey" ELSE "reading"

\* One turn of the loop.  A parameter without "=" is one whose key is "other";
\* the value is checked before the repetition, and replaced before it too.
ReadParam ==
    /\ result = "reading" /\ Len(raw) < MaxParams
    /\ \E k \in Keys \cup {"other"}, v \in Values :
          /\ raw' = Append(raw, <<k, v>>)
          /\ IF k \notin Keys THEN result' = "UnknownKey" /\ UNCHANGED fields
             ELSE IF v \notin Valid[k] THEN result' = "BadValue" /\ UNCHANGED fields
             ELSE /\ fields' = [fields EXCEPT ![k] = v]
                  /\ result' = IF fields[k] # NoValue THEN "RepeatedKey" ELSE "reading"

\* The end of the tag.
Finish ==
    /\ result = "reading"
    /\ result' = IF \E k \in Keys : fields[k] = NoValue THEN "Missing" ELSE "ok"
    /\ UNCHANGED <<raw, fields>>

Next == ReadParam \/ Finish

Spec == Init /\ [][Next]_vars

-----------------------------------------------------------------------------
(* Properties.                                                             *)

\* The parser stays in its types.
TypeOK ==
    /\ raw \in Seq((Keys \cup {"other"}) \X Values)
    /\ fields \in [Keys -> Values \cup {NoValue}]
    /\ result \in {"reading", "ok", "UnknownKey", "BadValue", "RepeatedKey", "Missing"}

\* A tag is accepted only when it holds each key exactly once, with a value that
\* parses, and nothing else, and the hint carries those values: there is no field
\* the caller could not see and no value silently picked.
AcceptedIsTheTag ==
    result = "ok" =>
        /\ \A k \in Keys : \E i \in DOMAIN raw : raw[i] = <<k, fields[k]>> /\ fields[k] \in Valid[k]
        /\ \A i, j \in DOMAIN raw : raw[i][1] = raw[j][1] => i = j
        /\ \A i \in DOMAIN raw : raw[i][1] \in Keys

\* A tag like the ones Display writes, in any order, is never refused.
RefusedHasAFault ==
    /\ result \in {"UnknownKey", "BadValue", "RepeatedKey"} =>
          \/ \E i \in DOMAIN raw : raw[i][1] \notin Keys \/ raw[i][2] \notin Valid[raw[i][1]]
          \/ \E i, j \in DOMAIN raw : i # j /\ raw[i][1] = raw[j][1]
    /\ result = "Missing" => \E k \in Keys : \A i \in DOMAIN raw : raw[i][1] # k
=============================================================================
