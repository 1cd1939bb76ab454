------------------------------ MODULE Clients ------------------------------
(***************************************************************************)
(* The clients of hired that end, side by side: the browser's host (NativeHost)   *)
(* and the one-shot commands (HireCli).  They share hired as seen through its     *)
(* socket.                                                                 *)
(***************************************************************************)
EXTENDS Naturals, Sequences

CONSTANTS
    Ids, NoId,
    MaxRestarts,    \* bound: restarts, crashes and stalls of hired
    MaxRequest, MaxFrames,              \* of the host
    Words, Spelling, None, Shell, MaxArgs   \* of the commands; Shell counts its attestors

VARIABLES
    daemon, changes,
    stdin, open, sent, host, replies,
    cmd, args, asked, out, found, unit, exit

N == INSTANCE NativeHost WITH MaxChanges <- MaxRestarts

C == INSTANCE HireCli WITH Sources <- Shell, MaxChanges <- MaxRestarts

\* MAX_REQUEST is a number.
ASSUME RequestAssumption == MaxRequest \in Nat

\* What texts are made of.
Pieces ==
    {"?", "challenge=", "hire:whoami"}
        \cup UNION {{Spelling[w][i] : i \in DOMAIN Spelling[w]} : w \in Words}

\* Every word has a text.
ASSUME SpellingAssumption == Spelling \in [Words -> Seq(Pieces)]

\* An absent request is told from any other.
ASSUME NoneAssumption == None \notin [audience : Seq(Pieces), id : Words \cup {NoId}]

-----------------------------------------------------------------------------
(* The properties of the instances; each is stated and explained in its module. *)

\* hire-nmh: the i-th response answers the i-th frame.
RepliesFitFrames == N!RepliesFitFrames

\* hire: what is asked of hired is what the command line says.
RequestIsTheLine == C!RequestIsTheLine

\* hire: exit 0 exactly with an identity on stdout, the named one if one was named.
SucceedsWithAnIdentity == C!SucceedsWithAnIdentity

\* hire prove: the challenge is one more parameter of the audience.
ChallengeIsAParameter == C!ChallengeIsAParameter
=============================================================================
