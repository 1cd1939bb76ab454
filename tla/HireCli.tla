------------------------------- MODULE HireCli -------------------------------
(***************************************************************************)
(* The one-shot commands of hire (hire/src/main.rs).  Scripts gate on their exit   *)
(* code and redirect their stdout.  The command line is chosen as it is read, so   *)
(* args holds the part of it the command looked at.                             *)
(***************************************************************************)
EXTENDS DaemonSeen

CONSTANTS
    Words,      \* what may stand on a command line, flags included
    Spelling,   \* the text of each word, a sequence of pieces, "?" and "&"
    None,       \* an absent Option
    Sources,    \* the number of active attestors of the shell
    MaxArgs     \* bound on the command line

VARIABLES
    cmd,        \* [name, pc, flag, audience, id, challenge, source]
    args,
    asked,      \* the request sent, None before it is
    out,        \* what was written to stdout
    found,      \* history: what each attestor of the shell reported
    unit,       \* hired.service on disk: "none", "part" or "whole"
    exit        \* the exit code, Running before it

cliVars == <<cmd, args, asked, out, found, unit, exit>>
vars == <<daemon, changes, cliVars>>

Running == 2

Flags == [c \in {"fetch-jwt", "prove"} |->
             IF c = "prove" THEN {"--audience", "--challenge"}
             ELSE {"--audience", "--spiffe-id"}]

NoCommand == [name |-> "none", pc |-> "shell", flag |-> "none",
              audience |-> None, id |-> NoId, challenge |-> None, source |-> 0]

Init ==
    /\ DaemonInit
    /\ cmd = NoCommand /\ args = << >> /\ asked = None
    /\ out = << >> /\ found = << >> /\ unit = "none"
    /\ exit = Running

Become(pc) == cmd' = [cmd EXCEPT !.pc = pc]

\* Leaves with code and lines on stdout.
Exit(code, lines) ==
    /\ exit' = code
    /\ out' = out \o lines
    /\ Become("ended")
    /\ UNCHANGED <<daemon, changes, args, asked, found, unit>>

Quiet == UNCHANGED <<daemon, changes, asked, out, found, unit, exit>>

\* main: the subcommand decides where to start.
Main ==
    /\ cmd.pc = "shell"
    /\ \E c \in {"whoami", "enumerate", "fetch-jwt", "prove", "trust-bundle",
                 "install-service", "not-implemented"} :
          cmd' = [cmd EXCEPT !.name = c,
              !.pc = CASE c \in DOMAIN Flags -> "args"
                       [] c \in {"whoami", "trust-bundle"} -> "connect"
                       [] OTHER -> c]
    /\ UNCHANGED args /\ Quiet

\* fetch_x509, enroll, trust-bundle add and remove: an error, and exit 1.
NotImplemented == cmd.pc = "not-implemented" /\ Exit(1, << >>)

-----------------------------------------------------------------------------
(* fetch_jwt and prove: their argument loop.                                 *)

Field == [f \in {"--audience", "--spiffe-id", "--challenge"} |->
             IF f = "--audience" THEN "audience" ELSE IF f = "--spiffe-id" THEN "id" ELSE "challenge"]

ReadFlag ==
    /\ cmd.pc = "args" /\ Len(args) < MaxArgs
    /\ \E w \in Words :
          /\ args' = Append(args, w)
          /\ \/ /\ w \in Flags[cmd.name]
                /\ cmd' = [cmd EXCEPT !.pc = "value", !.flag = w]
                /\ Quiet
             \/ /\ w = "--decode" /\ cmd.name = "fetch-jwt"
                /\ UNCHANGED cmd /\ Quiet
             \/ /\ w \notin Flags[cmd.name] /\ ~(w = "--decode" /\ cmd.name = "fetch-jwt")
                /\ exit' = 1 /\ Become("ended")
                /\ UNCHANGED <<daemon, changes, asked, out, found, unit>>

\* A slip in ReadValue: the first value of a flag stays.
ReadValueFirst ==
    /\ cmd.pc = "value"
    /\ Len(args) < MaxArgs
    /\ \E w \in Words :
          /\ args' = Append(args, w)
          /\ cmd' = [cmd EXCEPT !.pc = "args",
                 ![Field[cmd.flag]] = IF @ \in {None, NoId} THEN w ELSE @]
    /\ Quiet

\* args.get(i): the next word whatever it is, or nothing at the end of the line.
ReadValue ==
    /\ cmd.pc = "value"
    /\ \/ /\ Len(args) < MaxArgs
          /\ \E w \in Words :
                /\ args' = Append(args, w)
                /\ cmd' = [cmd EXCEPT !.pc = "args", ![Field[cmd.flag]] = w]
       \/ /\ cmd' = [cmd EXCEPT !.pc = "required",
                 ![Field[cmd.flag]] = IF cmd.flag = "--spiffe-id" THEN NoId ELSE None]
          /\ UNCHANGED args
    /\ Quiet

\* The end of the line.
ArgsEnd ==
    /\ cmd.pc = "args"
    /\ Become("required")
    /\ UNCHANGED args /\ Quiet

Required ==
    /\ cmd.pc = "required"
    /\ LET missing == cmd.audience = None \/ (cmd.name = "prove" /\ cmd.challenge = None)
       IN  \/ missing /\ Exit(1, << >>)
           \/ ~missing /\ Become("connect") /\ UNCHANGED args /\ Quiet

-----------------------------------------------------------------------------
(* The request.                                                            *)

\* The audience that is sent: prove puts a "?" and its challenge behind the text it
\* was given, whether or not that has a query; trust-bundle sends none.
AudienceText(name, audience, challenge) ==
    CASE name = "fetch-jwt" -> Spelling[audience]
      [] name = "prove" -> Spelling[audience] \o <<"?", "challenge=">> \o Spelling[challenge]
      [] name = "whoami" -> <<"hire:whoami">>
      [] OTHER -> << >>

\* connect_to_daemon: no socket, or nobody behind it, is an error.
Connect ==
    /\ cmd.pc = "connect"
    /\ \/ ~Listening /\ Exit(1, << >>)
       \/ /\ Listening
          /\ Become("call")
          /\ asked' = [audience |-> AudienceText(cmd.name, cmd.audience, cmd.challenge),
                        id |-> cmd.id]
          /\ UNCHANGED <<daemon, changes, args, out, found, unit, exit>>

\* The outcome of fetch_jwtsvid for a request that names id: a refusal and a lost
\* connection exit 1; otherwise the lines printed are the answer, or its start.
Answered(id, all) ==
    \E svids \in Answers(id) :
        /\ Returns(id, svids)
        /\ \/ svids = Refused /\ Exit(1, << >>)
           \/ svids # Refused /\ Exit(0, IF all THEN svids ELSE <<svids[1]>>)

\* whoami prints every identity of the answer.
Whoami == cmd.pc = "call" /\ cmd.name = "whoami" /\ Answered(NoId, TRUE)

\* A slip in FetchJwt: the identity is left out of the request.
FetchJwtUnnamed == cmd.pc = "call" /\ cmd.name = "fetch-jwt" /\ Answered(NoId, FALSE)

\* fetch-jwt prints the first token, or with --decode its parts.
FetchJwt == cmd.pc = "call" /\ cmd.name = "fetch-jwt" /\ Answered(asked.id, FALSE)

\* prove names no identity and prints the first token.
Prove == cmd.pc = "call" /\ cmd.name = "prove" /\ Answered(NoId, FALSE)

\* fetch_jwt_bundles sends one message, the domain's bundle, and ends the stream.
TrustBundleList ==
    /\ cmd.pc = "call" /\ cmd.name = "trust-bundle"
    /\ \/ daemon = "up" /\ Exit(0, <<"domain">>)
       \/ ~Listening /\ Exit(1, << >>)

-----------------------------------------------------------------------------
(* Commands that do not ask hired.                                           *)

\* enumerate: attestor by attestor; an error is a warning on stderr.
Enumerate ==
    /\ cmd.pc = "enumerate"
    /\ \/ cmd.source = Sources /\ Exit(0, << >>)
       \/ /\ cmd.source < Sources
          /\ \E r \in {None, << >>} \cup {<<i>> : i \in Ids} :
                /\ found' = Append(found, r)
                /\ out' = IF r = None THEN out ELSE out \o r
          /\ cmd' = [cmd EXCEPT !.source = @ + 1]
          /\ UNCHANGED <<daemon, changes, args, asked, unit, exit>>

\* install_service: no systemd hands the unit over on stdout and fails; a
\* directory that cannot be made fails; a write that fails may leave a part.
InstallService ==
    /\ cmd.pc = "install-service"
    /\ \/ Exit(1, <<"unit">>)
       \/ Exit(1, << >>)
       \/ \E u \in {"none", "part", "whole"} :
             /\ unit' = u
             /\ exit' = IF u = "whole" THEN 0 ELSE 1
             /\ out' = IF u = "whole" THEN <<"installed">> ELSE << >>
             /\ Become("ended")
             /\ UNCHANGED <<daemon, changes, args, asked, found>>

Step ==
    \/ NotImplemented \/ ReadFlag \/ ReadValue \/ ArgsEnd \/ Required
    \/ Connect \/ Whoami \/ FetchJwt \/ Prove \/ TrustBundleList \/ Enumerate \/ InstallService

Next == Main \/ Step \/ (DaemonChanges /\ UNCHANGED cliVars)

Spec == Init /\ [][Next]_vars

-----------------------------------------------------------------------------
(* Properties.                                                             *)

\* The command stays in its types.
TypeOK ==
    /\ cmd.pc \in {"shell", "args", "value", "required", "connect", "call",
                   "enumerate", "install-service", "not-implemented", "ended"}
    /\ cmd.source \in 0..Sources
    /\ exit \in {Running, 0, 1}
    /\ unit \in {"none", "part", "whole"}

\* The words read as flags: the first, and then what follows a --decode or a
\* flag's value.
AreFlags(S) ==
    \A i \in DOMAIN args :
        i \in S <=> \/ i = 1
                    \/ i - 1 \in S /\ args[i - 1] = "--decode"
                    \/ i - 2 \in S /\ args[i - 2] # "--decode"

\* The value a flag has on the whole line: that of its last use.
OnTheLine(flag, absent) ==
    LET flags == CHOOSE S \in SUBSET DOMAIN args : AreFlags(S)
        uses == {i \in flags : args[i] = flag}
        last == CHOOSE i \in uses : \A j \in uses : j <= i
    IN  IF uses = {} \/ last = Len(args) THEN absent ELSE args[last + 1]

\* What hired is asked is what the line says: the audience is the last one of the
\* line, for prove with the last challenge behind it; an identity is named, which is
\* the consent to prove it, only by --spiffe-id in the place of a flag; and a value
\* that looks like a flag is not one.
RequestIsTheLine ==
    LET audience == OnTheLine("--audience", None)
        challenge == OnTheLine("--challenge", None)
    IN  asked # None /\ cmd.name \in DOMAIN Flags =>
            /\ audience # None
            /\ cmd.name = "fetch-jwt" => /\ asked.audience = Spelling[audience]
                                        /\ asked.id = OnTheLine("--spiffe-id", NoId)
            /\ cmd.name = "prove" =>
                  /\ challenge # None /\ asked.id = NoId
                  /\ asked.audience
                        = Spelling[audience] \o <<"?", "challenge=">> \o Spelling[challenge]

\* A script that gates on whoami, fetch-jwt or prove goes on only with an identity
\* hired gave: exit 0 exactly when stdout holds one, that of the line if named.
SucceedsWithAnIdentity ==
    cmd.pc = "ended" /\ cmd.name \in {"whoami", "fetch-jwt", "prove"} =>
        /\ exit = 0 <=> out # << >>
        /\ exit = 0 => asked # None /\ (asked.id # NoId => out = <<asked.id>>)

\* What hired reads from an audience, AudienceExtensions::parse: the query is what
\* follows the first "?", and each "&" of it ends a parameter.
Parameters(text) ==
    LET InQuery(i) == \E m \in 1..(i - 1) : text[m] = "?"
        Cut(i) == i > Len(text) \/ ~InQuery(i) \/ text[i] = "&"
        Spans == {s \in (DOMAIN text) \X (DOMAIN text) :
                     /\ s[1] <= s[2] /\ Cut(s[1] - 1) /\ Cut(s[2] + 1)
                     /\ \A i \in s[1]..s[2] : ~Cut(i)}
    IN  {SubSeq(text, s[1], s[2]) : s \in Spans}

\* An audience may carry parameters of its own, such as the presence it requires:
\* hired reads from what prove sends these parameters, and the challenge as one more.
ChallengeIsAParameter ==
    asked # None /\ cmd.name = "prove" =>
        Parameters(asked.audience)
            = Parameters(Spelling[cmd.audience]) \cup {<<"challenge=">> \o Spelling[cmd.challenge]}

=============================================================================
