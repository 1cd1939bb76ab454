---------------------------- MODULE MCWorkloadApi ----------------------------
(***************************************************************************)
(* Small instances of WorkloadApi for TLC.                                 *)
(***************************************************************************)
EXTENDS WorkloadApi, Registry, TLC

Symmetry == Permutations(Requests)

\* A desktop on a tailnet with an SSH agent.
AgentSources == ProbeSources({"tailscale", "ssh-agent"})

\* The identity lists each of them may hold over time.
MayHold(name) ==
    CASE name = "tailscale" -> {<<"login1">>, <<"login2">>}
      [] name = "ssh-agent" -> {<< >>, <<"key1">>, <<"key2", "key1">>}
      [] name = "oidc-cached" -> {<<"sub1">>}
      [] name = "unix" -> {<<"uid">>}

AgentHoldings == [s \in DOMAIN AgentSources |-> MayHold(AgentSources[s].name)]

\* The sources of the service's own tests: one that replays the proof it gave
\* first (tests/e2e.rs), and two that prove the same identities
\* (tests/selector.rs), beside the daemon's.
TestSources ==
    << [Source("replaying", "Silent", "ssh.local", "Possession") EXCEPT !.caches = TRUE],
       Source("first", "Silent", "ssh.local", "Possession"),
       Source("tailscale", "Silent", "tailscale", "DaemonAssertion"),
       Source("second", "Silent", "ssh.local", "Possession") >>

TestHoldings ==
    << {<<"key3">>}, {<<"key1">>, <<"key2", "key1">>}, {<<"login1">>}, {<<"key1", "key2">>} >>

Audience(presence, maxAge) == [presence |-> presence, maxAge |-> maxAge, valid |-> TRUE]
Plain == Audience(PresenceNone, {})
Invalid == [presence |-> PresenceNone, maxAge |-> {}, valid |-> FALSE]

Input(audiences, selector) ==
    [consumer |-> "app", audiences |-> audiences, selector |-> selector]

Id(domain, path) == [domain |-> domain, path |-> path]

\* Calls that are refused before any source is asked.
RefusedInputs ==
    { [consumer |-> NoConsumer, audiences |-> <<Plain>>, selector |-> NoSelector],
      Input(<< >>, NoSelector), Input(<<Plain, Invalid>>, NoSelector),
      Input(<<Plain>>, BadSelector) }

UnnamedInputs ==
    { Input(<<Plain>>, NoSelector),
      Input(<<Audience(PresenceNone, {1}), Audience(PresenceNone, {2})>>, NoSelector),
      Input(<<Plain, Audience(PresenceHardware, {})>>, NoSelector) }

NamedInputs ==
    { Input(<<Plain>>, Id("ssh.local", "key1")),
      Input(<<Audience(PresenceNone, {1}), Plain>>, Id("tailscale", "login1")),
      Input(<<Plain>>, Id("tailscale", "key1")),
      Input(<<Plain>>, Id("ssh.local", "sub1")) }

TestInputs ==
    { Input(<<Plain>>, NoSelector), Input(<<Plain>>, Id("ssh.local", "key3")) }

AllInputs == RefusedInputs \cup UnnamedInputs \cup NamedInputs
=============================================================================
