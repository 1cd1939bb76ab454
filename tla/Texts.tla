-------------------------------- MODULE Texts --------------------------------
(***************************************************************************)
(* The texts hired reads, side by side: the audience lists of a request             *)
(* (AudiencePolicy), SPIFFE IDs (SpiffeUri), the hint of an SVID (HintParse) and     *)
(* DIDs (DidKeyDecode).  A behaviour is one parser running, the others parked.     *)
(***************************************************************************)
EXTENDS AudiencePolicy

CONSTANTS
    MaxTokens,      \* bound: tokens of a SPIFFE ID
    HintValues,     \* texts a parameter of a hint may carry
    HintValid,      \* [key -> the texts that parse for it]
    Nothing,
    MaxHint,        \* bound: parameters of a hint
    Digits,         \* digits a DID may have, with NoDigit for any other character
    NoDigit,
    Width,          \* ED25519_DID_LEN
    DidPrefix,      \* ED25519_MULTICODEC
    MaxDigits       \* bound: digits of a DID

VARIABLES
    which,
    scheme, text,
    raw, fields, result,
    read, decoded, point

uri == <<scheme, text>>
hint == <<raw, fields, result>>
did == <<read, decoded, point>>
allVars == <<which, vars, uri, hint, did>>

S == INSTANCE SpiffeUri
H == INSTANCE HintParse WITH
        Values <- HintValues, Valid <- HintValid, NoValue <- Nothing, MaxParams <- MaxHint
D == INSTANCE DidKeyDecode WITH Prefix <- DidPrefix

\* An absent field of a hint is no text, and what parses for a key is a text.
ASSUME HintAssumption ==
    /\ Nothing \notin HintValues
    /\ HintValid \in [H!Keys -> SUBSET HintValues]

\* The digits of a DID are numbers, and a decoding that is not over has not failed.
ASSUME DidAssumption == Digits \subseteq Nat /\ Width \in Nat /\ Nothing # "pending"

\* Every parser is ready, and one of them runs.
AllInit ==
    /\ Init /\ S!Init /\ H!Init /\ D!Init
    /\ which \in {"policy"} \cup (IF audiences = <<<< >>>> THEN {"uri", "hint", "did"} ELSE {})

PolicyRuns == which = "policy" /\ UNCHANGED <<which, uri, hint, did>>
UriRuns == which = "uri" /\ UNCHANGED <<which, vars, hint, did>>
HintRuns == which = "hint" /\ UNCHANGED <<which, vars, uri, did>>
DidRuns == which = "did" /\ UNCHANGED <<which, vars, uri, hint>>

AllNext ==
    \/ Next /\ PolicyRuns
    \/ S!Next /\ UriRuns
    \/ H!Next /\ HintRuns
    \/ D!Next /\ DidRuns

AllSpec == AllInit /\ [][AllNext]_allVars

-----------------------------------------------------------------------------
(* The properties of the instances; each is stated and explained in its module. *)

\* SPIFFE IDs: what parses is what it prints.
ParsedIsPrinted == S!ParsedIsPrinted

\* SPIFFE IDs: what is printed parses to the same identity.
PrintedIsParsed == S!PrintedIsParsed

\* Hints: an accepted tag is carried field by field.
AcceptedIsTheTag == H!AcceptedIsTheTag

\* Hints: a refused tag has a fault.
RefusedHasAFault == H!RefusedHasAFault

\* did:key: the decoding buffer holds the number the digits stand for.
BufferIsTheNumber == D!BufferIsTheNumber
=============================================================================
