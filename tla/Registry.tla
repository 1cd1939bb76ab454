------------------------------ MODULE Registry ------------------------------
(***************************************************************************)
(* The identity sources hired may register at start-up                      *)
(* (hire-attestors/src), each reduced to what FetchJWTSVID can tell of it:   *)
(* whether proving may prompt a human, the trust domain its candidates name,  *)
(* and the evidence a successful prove returns ("none": prove declines).      *)
(***************************************************************************)
EXTENDS Sequences

Source(name, cost, domain, evidence) ==
    [name |-> name, cost |-> cost, domain |-> domain, evidence |-> evidence,
     caches |-> FALSE]

Tailscale == Source("tailscale", "Silent", "tailscale", "DaemonAssertion")

SshAgent == Source("ssh-agent", "Interactive", "ssh.local", "Possession")

\* Enumerates unverified tokens; prove is the trait's default, which declines.
OidcCached == Source("oidc-cached", "Silent", "ssh.local", "none")

\* The DIDs come from the environment, their keys from the ssh agent.
DidKey == Source("did:key", "Interactive", "ssh.local", "Possession")

Gpg == Source("gpg", "Interactive", "ssh.local", "Possession")

\* Enumerates plugged-in devices; prove is not implemented.
Fido2 == Source("fido2", "Interactive", "ssh.local", "none")

Unix == Source("unix", "Silent", "ssh.local", "PlatformAssertion")

\* probe_sources: the available ones in a fixed order, oidc-cached and unix
\* always, unix last.  goa and piv enumerate nothing, so they are left out.
ProbeSources(available) ==
    SelectSeq(<<Tailscale, SshAgent, OidcCached, DidKey, Gpg, Fido2, Unix>>,
              LAMBDA a : a.name \in available \cup {"oidc-cached", "unix"})
=============================================================================
