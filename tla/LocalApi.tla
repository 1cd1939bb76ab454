------------------------------ MODULE LocalApi ------------------------------
(***************************************************************************)
(* The tailscale source (hire-attestors/src/tailscale.rs): one status request  *)
(* per call over tailscaled's socket, read to the end of the stream, taken      *)
(* apart, and compared with the candidate.  tailscaled may be logged in as       *)
(* someone else between two calls, and may die in the middle of an answer.      *)
(***************************************************************************)
EXTENDS Naturals, Sequences

CONSTANTS
    Logins,     \* accounts the node may be logged in as
    Nothing,
    Splits,     \* ways tailscaled cuts a status into chunks: where each ends
    MaxCalls,   \* bound on calls
    MaxLogins   \* bound on log-ins and log-outs

VARIABLES
    login,      \* the account of the node now, or Nothing
    logins,
    offered,    \* the accounts the latest enumeration found
    call,       \* the call in flight
    calls,
    reported,   \* history: whether the call's account was logged in during the call
    whole       \* history: whether the latest answer arrived whole

vars == <<login, logins, offered, call, calls, reported, whole>>

NoCall == [pc |-> "idle", account |-> Nothing, wire |-> << >>, chunked |-> FALSE,
           out |-> << >>, outcome |-> "none"]

Init ==
    /\ login = Nothing /\ logins = 0
    /\ offered = {}
    /\ call = NoCall /\ calls = 0
    /\ reported = FALSE /\ whole = FALSE

\* tailscale up as another account, or logout.
LogIn ==
    /\ logins < MaxLogins
    /\ logins' = logins + 1
    /\ login' \in (Logins \cup {Nothing}) \ {login}
    /\ reported' = (reported \/ (call.account # Nothing /\ call.account = login'))
    /\ UNCHANGED <<offered, call, calls, whole>>

-----------------------------------------------------------------------------
(* What tailscaled sends: the status as JSON, whose parts only make sense      *)
(* together, plain or as chunks closed by one of length zero.                  *)

Body(account) == [i \in 1..3 |-> [kind |-> "data", part |-> i, of |-> account]]

ChunkLen(n) == [kind |-> "len", n |-> n]
Crlf == [kind |-> "crlf"]

\* The parts in the first k chunks, and their tokens: each chunk has its length
\* line before it and a line end after it.
PartsIn(split, k) == IF k = 0 THEN 0 ELSE split[k]
TokensIn(split, k) == PartsIn(split, k) + 2 * k

Chunked(account, split) ==
    [p \in 1..TokensIn(split, Len(split)) + 2 |->
        IF p > TokensIn(split, Len(split))
        THEN IF p = TokensIn(split, Len(split)) + 1 THEN ChunkLen(0) ELSE Crlf
        ELSE LET k == CHOOSE k \in 1..Len(split) :
                         TokensIn(split, k - 1) < p /\ p <= TokensIn(split, k)
             IN  IF p = TokensIn(split, k - 1) + 1
                 THEN ChunkLen(PartsIn(split, k) - PartsIn(split, k - 1))
                 ELSE IF p = TokensIn(split, k) THEN Crlf
                 ELSE Body(account)[p + 1 - 2 * k]]

-----------------------------------------------------------------------------
(* A call of enumerate or prove.                                           *)

Goto(pc) == call' = [call EXCEPT !.pc = pc]

Return(outcome) ==
    /\ call' = [NoCall EXCEPT !.outcome = outcome]
    /\ reported' = FALSE

Fail ==
    /\ Return(IF call.account = Nothing THEN call.outcome ELSE "refused")
    /\ UNCHANGED <<login, logins, offered, calls, whole>>

Quiet == UNCHANGED <<login, logins, offered, calls, reported, whole>>

Begin ==
    /\ call.pc = "idle"
    /\ calls < MaxCalls
    /\ calls' = calls + 1
    /\ whole' = FALSE
    /\ \/ Goto("fetch") /\ UNCHANGED reported
       \/ \E account \in offered :
             /\ call' = [call EXCEPT !.pc = "fetch", !.account = account, !.outcome = "none"]
             /\ reported' = (account = login)
    /\ UNCHANGED <<login, logins, offered>>

\* fetch_status up to the end of the stream: connect, request, and whatever
\* arrives before tailscaled closes or dies; without a whole header block there
\* is no body.
FetchStatus ==
    /\ call.pc = "fetch"
    /\ \/ \E sent \in {Body(login)} \cup {Chunked(login, s) : s \in Splits} :
             \E n \in 0..Len(sent) :
                /\ call' = [call EXCEPT !.pc = IF sent = Body(login) THEN "json" ELSE "dechunk",
                               !.chunked = sent # Body(login),
                               !.wire = SubSeq(sent, 1, n),
                               !.out = IF sent = Body(login) THEN SubSeq(sent, 1, n) ELSE << >>]
                /\ whole' = (n = Len(sent))
          /\ UNCHANGED <<login, logins, offered, calls, reported>>
       \/ Fail

\* Drop n tokens and the line end that may follow them.
AfterChunk(wire, n) ==
    LET rest == SubSeq(wire, n + 1, Len(wire))
    IN  IF rest # << >> /\ Head(rest) = Crlf THEN Tail(rest) ELSE rest

\* A slip in Dechunk: the end of the stream ends the body.
DechunkToEnd ==
    /\ call.pc = "dechunk"
    /\ IF call.wire = << >> THEN Goto("json")
       ELSE IF Head(call.wire) = ChunkLen(0) THEN Goto("json")
       ELSE LET n == Head(call.wire).n
                rest == Tail(call.wire)
                got == IF n > Len(rest) THEN Len(rest) ELSE n
            IN  call' = [call EXCEPT !.out = @ \o SubSeq(rest, 1, got),
                                     !.wire = AfterChunk(rest, got)]
    /\ Quiet

\* One turn of dechunk: the length line, then that many bytes.  A stream that
\* ends before a length line, or inside a chunk, is an error.
Dechunk ==
    /\ call.pc = "dechunk"
    /\ IF call.wire = << >> \/ Head(call.wire).kind # "len" THEN Fail
       ELSE LET n == Head(call.wire).n
                rest == Tail(call.wire)
            IN  \/ n = 0 /\ Goto("json") /\ Quiet
                \/ n > Len(rest) /\ Fail
                \/ /\ n \in 1..Len(rest)
                   /\ call' = [call EXCEPT !.out = @ \o SubSeq(rest, 1, n),
                                           !.wire = AfterChunk(rest, n)]
                   /\ Quiet

\* The parts of one status, all of them, are JSON; a status of a node that is
\* logged out has no User entry.
Accounts(out) == {account \in Logins : out = Body(account)}

\* A slip in IdentityOf: prove does not compare the path.
IdentityOfAnyone ==
    /\ call.pc = "json"
    /\ \/ Accounts(call.out) = {} /\ Fail
       \/ \E account \in Accounts(call.out) :
             /\ IF call.account = Nothing
                THEN offered' = {account} /\ Return(call.outcome)
                ELSE Return("evidence") /\ UNCHANGED offered
             /\ UNCHANGED <<login, logins, calls, whole>>

\* from_slice and identity_of, then the candidate of enumerate, or the
\* comparison of prove.
IdentityOf ==
    /\ call.pc = "json"
    /\ \/ Accounts(call.out) = {} /\ Fail
       \/ \E account \in Accounts(call.out) :
             /\ IF call.account = Nothing
                THEN offered' = {account} /\ Return(call.outcome)
                ELSE /\ Return(IF account = call.account THEN "evidence" ELSE "refused")
                     /\ UNCHANGED offered
             /\ UNCHANGED <<login, logins, calls, whole>>

Step == FetchStatus \/ Dechunk \/ IdentityOf

Next == LogIn \/ Begin \/ Step

Spec == Init /\ [][Next]_vars

-----------------------------------------------------------------------------
(* Properties.                                                             *)

\* The call stays in its types.
TypeOK ==
    /\ login \in Logins \cup {Nothing}
    /\ call.pc \in {"idle", "fetch", "dechunk", "json"}
    /\ call.account \in Logins \cup {Nothing}
    /\ call.outcome \in {"none", "evidence", "refused"}
    /\ offered \subseteq Logins

\* What dechunk hands on is the whole status and nothing else: every chunk in
\* order, no length line, no line end; an answer cut short is an error, even one
\* cut between two chunks.
DechunkedIsTheBody ==
    call.pc = "json" /\ call.chunked
        => \E account \in Logins \cup {Nothing} : call.out = Body(account)

\* The calls implement what every source promises: a node that is logged in as
\* someone else is not evidence for the candidate.
P == INSTANCE Prover WITH
        Subjects <- Logins,
        NoSubject <- Nothing,
        held <- {login} \cap Logins,
        subject <- call.account,
        seen <- reported,
        outcome <- call.outcome

ImplementsProver == P!Spec
=============================================================================
