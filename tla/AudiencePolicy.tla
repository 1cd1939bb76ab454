--------------------------- MODULE AudiencePolicy ---------------------------
(***************************************************************************)
(* From the audience strings of a FetchJWTSVID request to the one policy it  *)
(* is gated on: AudienceExtensions::parse (hire-core/src/audience.rs), one    *)
(* query parameter at a time, for every audience in turn, and the folds of    *)
(* fetch_jwtsvid over the results (hire-grpc/src/service.rs).                 *)
(*                                                                          *)
(* An audience string is the sequence of its query parameters, and a          *)
(* parameter is what the parser's branches tell apart.                        *)
(***************************************************************************)
EXTENDS Issuance

CONSTANTS
    Seconds,    \* the bounds hire_max_age may name
    Inputs      \* audience lists: sequences of sequences of parameters

\* hire_require_presence=, hire_max_age=, and the kinds without a value: either
\* of them malformed, another hire_ name, a policy name without its prefix, and
\* a parameter that is none of the parser's business.
Params ==
         [kind : {"presence"}, level : PresenceLevels]
    \cup [kind : {"max_age"}, seconds : Seconds]
    \cup [kind : {"bad_presence", "bad_max_age", "reserved", "unprefixed", "other"}]

ASSUME SecondsAssumption == Seconds \subseteq Nat

ASSUME AudiencesAssumption == Inputs \subseteq Seq(Seq(Params)) \ {<< >>}

VARIABLES
    pc,         \* "parse", "fold", "ok", "invalid"
    audiences,  \* the request's audience list
    a, p,       \* next audience, next parameter of it
    require, bound, kept,   \* require_presence, max_age, kept_params of audience a
    exts,       \* the audiences parsed so far
    policy      \* what the request is gated on

vars == <<pc, audiences, a, p, require, bound, kept, exts, policy>>

Init ==
    /\ pc = "parse"
    /\ audiences \in Inputs
    /\ a = 1 /\ p = 1
    /\ require = PresenceNone /\ bound = {} /\ kept = << >>
    /\ exts = << >>
    /\ policy = [presence |-> PresenceNone, maxAge |-> {}]

\* Whether a parameter makes parse return an error.
Rejected(param) == param.kind \notin {"presence", "max_age", "other"}

\* The smaller of two bounds, each {} for none.
Tighter(named, current) ==
    IF named # {} /\ \A s \in named, t \in current : s < t THEN named ELSE current

\* A slip in Parse: a repeated parameter replaces the one before it.
ParseLastWins ==
    /\ pc = "parse" /\ a <= Len(audiences) /\ p <= Len(audiences[a])
    /\ LET param == audiences[a][p]
       IN  /\ ~Rejected(param)
           /\ require' = IF param.kind = "presence" THEN param.level ELSE require
           /\ bound' = IF param.kind = "max_age" THEN {param.seconds} ELSE bound
           /\ kept' = IF param.kind = "other" THEN Append(kept, param) ELSE kept
    /\ p' = p + 1
    /\ UNCHANGED <<pc, audiences, a, exts, policy>>

\* A slip in Reject: an unknown hire_ parameter ends the parameter list.
RejectStopsQuietly ==
    /\ pc = "parse" /\ a <= Len(audiences) /\ p <= Len(audiences[a])
    /\ Rejected(audiences[a][p])
    /\ p' = Len(audiences[a]) + 1
    /\ UNCHANGED <<pc, audiences, a, require, bound, kept, exts, policy>>

\* One accepted parameter of the loop: the strictest requirement wins.
Parse ==
    /\ pc = "parse" /\ a <= Len(audiences) /\ p <= Len(audiences[a])
    /\ LET param == audiences[a][p]
       IN  /\ ~Rejected(param)
           /\ require' = IF param.kind = "presence" /\ param.level > require
                         THEN param.level ELSE require
           /\ bound' = IF param.kind = "max_age"
                       THEN Tighter({param.seconds}, bound) ELSE bound
           /\ kept' = IF param.kind = "other" THEN Append(kept, param) ELSE kept
    /\ p' = p + 1
    /\ UNCHANGED <<pc, audiences, a, exts, policy>>

\* One rejected parameter: the whole request is an invalid argument.
Reject ==
    /\ pc = "parse" /\ a <= Len(audiences) /\ p <= Len(audiences[a])
    /\ Rejected(audiences[a][p])
    /\ pc' = "invalid"
    /\ UNCHANGED <<audiences, a, p, require, bound, kept, exts, policy>>

\* The end of one audience: its name is what the parser kept of it.
Parsed ==
    /\ pc = "parse" /\ a <= Len(audiences) /\ p > Len(audiences[a])
    /\ exts' = Append(exts, [presence |-> require, maxAge |-> bound, name |-> kept])
    /\ a' = a + 1 /\ p' = 1
    /\ require' = PresenceNone /\ bound' = {} /\ kept' = << >>
    /\ UNCHANGED <<pc, audiences, policy>>

\* Every audience is parsed: the two folds begin.
Collected ==
    /\ pc = "parse" /\ a > Len(audiences)
    /\ pc' = "fold" /\ a' = 1
    /\ UNCHANGED <<audiences, p, require, bound, kept, exts, policy>>

\* One audience of fold(None, max) and of filter_map(max_age).min().
Fold ==
    /\ pc = "fold" /\ a <= Len(exts)
    /\ LET ext == exts[a]
       IN  policy' = [presence |-> IF ext.presence > policy.presence
                                   THEN ext.presence ELSE policy.presence,
                      maxAge |-> Tighter(ext.maxAge, policy.maxAge)]
    /\ a' = a + 1
    /\ UNCHANGED <<pc, audiences, p, require, bound, kept, exts>>

Gated ==
    /\ pc = "fold" /\ a > Len(exts)
    /\ pc' = "ok"
    /\ UNCHANGED <<audiences, a, p, require, bound, kept, exts, policy>>

Next == Parse \/ Reject \/ Parsed \/ Collected \/ Fold \/ Gated

Spec == Init /\ [][Next]_vars

-----------------------------------------------------------------------------
(* Properties.                                                             *)

\* Every parameter the request carries, wherever it stands.
Carried == UNION {Range(audiences[n]) : n \in DOMAIN audiences}

\* Option<Duration>.
AgeBounds == {{}} \cup {{s} : s \in Seconds}

\* The accumulators stay in range.
TypeOK ==
    /\ pc \in {"parse", "fold", "ok", "invalid"}
    /\ audiences \in Seq(Seq(Params))
    /\ a \in Nat \ {0} /\ p \in Nat \ {0}
    /\ require \in PresenceLevels
    /\ bound \in AgeBounds
    /\ kept \in Seq(Params)
    /\ exts \in Seq([presence : PresenceLevels, maxAge : AgeBounds, name : Seq(Params)])
    /\ policy \in [presence : PresenceLevels, maxAge : AgeBounds]

\* No audience and no repetition, in any position, lowers the bar: the request
\* is gated on the highest presence and the smallest age any parameter of any of
\* its audiences names, and on nothing nobody named.
StrictestWins ==
    pc = "ok" =>
        LET levels == {q.level : q \in {r \in Carried : r.kind = "presence"}}
            ages == {q.seconds : q \in {r \in Carried : r.kind = "max_age"}}
        IN  /\ \A l \in levels : l <= policy.presence
            /\ policy.presence \in levels \cup {PresenceNone}
            /\ ages = {} => policy.maxAge = {}
            /\ ages # {} => \E s \in ages : policy.maxAge = {s} /\ \A t \in ages : s <= t

\* The hire_ namespace is closed: a request is accepted only when every
\* parameter of every audience was understood, wherever it stands.
NothingIgnored ==
    /\ pc = "ok" => \A q \in Carried : ~Rejected(q)
    /\ pc = "invalid" => \E q \in Carried : Rejected(q)

=============================================================================
