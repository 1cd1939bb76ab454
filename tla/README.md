# A TLA+ verification of hired, the human identity daemon

`hired` serves the SPIFFE Workload API on a Unix socket. It asks the identity
sources of a desktop session (an SSH agent, gpg, tailscale, the OS account, ...)
what identities the user has, has them prove the ones a caller may be given, and
issues short-lived JWT-SVIDs under a per-consumer pseudonym. This directory
models it in TLA+, checks the models on small instances with TLC and proves the
central invariants for every instance with TLAPS.

## The system

| Part | Code | State | What makes it hard |
|---|---|---|---|
| daemon life cycle | `hired/src/main.rs`, `hire-grpc/src/server.rs` | the socket path, its directory, the advisory lock, each process's progress | several daemons race; crashes and signals at any system call; clean-up after the lock is gone |
| FetchJWTSVID | `hire-grpc/src/service.rs` | per request: candidates, claims, reply | every await lets sources and clock change; prompts need consent; sources fail or hang |
| claims and evidence | `hire-attestors/src/claim.rs` | the accumulators of `derive` | presence and its date must move together; replayed evidence |
| audience policy | `hire-core/src/audience.rs` | parser accumulators, the folded requirement | repeats and order; nothing in `hire_` may be ignored |
| token life | `hire-core/src/signer.rs`, `trust_bundle.rs`, `service.rs` | keypair, bundles, tokens, clock | two clock reads, a clock that steps, whole seconds, restarts |
| sources and registry | `hire-attestors/src/*.rs` | what each source holds | lists change between enumeration and proof |
| consumer attestation | `hire-grpc/src/consumer_attest.rs` | the peer of a connection | a pid looked up after `connect()` |
| clients | `hire/src/main.rs`, `hire-nmh/src/main.rs` | a frame stream, a command line, a watch loop | truncated frames; a daemon that stops, stalls and comes back; signals nobody listens for |
| parsers | `spiffe_id.rs`, `hint.rs`, `did_key.rs` | the fields and the buffer read so far | round trips, repeats, overflow of a fixed buffer |

The daemon's start-up builds the registry, the signer and the bundle store; the
server attests each connection's peer and hands the consumer to FetchJWTSVID,
which calls the sources, derives claims from their evidence, applies the
audience policy and has the signer issue tokens; ValidateJWTSVID checks tokens
against the bundle store alone.

## Modules

| Module | Models | Composes |
|---|---|---|
| `SocketService` | what the daemons promise together: one listener at a time | |
| `Daemon` | `main`, `serve`, `bind_listener`, `prepare_socket_dir`, `acquire_lock` | implements `SocketService` |
| `Claim` | `Evidence::tier`, `binds_to`; `Claim::derive` as a definition | |
| `DeriveLoop` | `Claim::derive` as the loop it is | `Claim` |
| `Issuance` | ages, TTL, bounds, ordering, de-duplication, pseudonyms | `Claim` |
| `AudiencePolicy` | `AudienceExtensions::parse` and the folds of `fetch_jwtsvid` | `Issuance` |
| `Registry` | `probe_sources` and what each source is to the service | |
| `WorkloadApi` | `fetch_jwtsvid` with concurrent requests and changing sources | `Issuance`, sources from `Registry` |
| `Svid` | issue, restart and ValidateJWTSVID over a moving clock | `Issuance` |
| `ConsumerAttest` | `AttestedStream::accept`, `attest_peer`, `exe_path_for_pid`, `hash_file` on Linux | |
| `Prover` | what `Attestor::prove` promises of every source | |
| `AgentProtocol` | ssh-agent and did:key: list, find, sign, the verifying constructors | implements `Prover` |
| `GpgProtocol` | gpg: the colon listing and its parser, signing, `names_key` | implements `Prover` |
| `LocalApi` | tailscale: the status exchange, `dechunk`, `identity_of` | implements `Prover` |
| `UnixAccount` | the passwd lookup with its growing buffer | |
| `Sources` | | the agent, tailscale and passwd sources, side by side |
| `SpiffeUri`, `HintParse`, `DidKeyDecode` | printing and parsing SPIFFE IDs; `SvidHint::from_str`; base58 of a DID | |
| `Texts` | | `AudiencePolicy`, `SpiffeUri`, `HintParse`, `DidKeyDecode`, side by side |
| `Retained` | `Vec::retain` | |
| `DaemonSeen` | hired as a client sees it: absent, up, stalled | |
| `NativeHost`, `HireCli`, `HireWatch` | the native messaging host; the one-shot commands; `hire watch` | `DaemonSeen` |
| `Clients` | | `NativeHost` and `HireCli`, side by side |
| `MC*` | instances for TLC; `MCEvidence` and `MCClients` hold several that share no state | |
| `*Proofs` | theorems | |
| `OrderFacts` | lemmas on extrema, induction and the lists that retain and concatenation leave | |

**Daemon.** One action is one system call whose effect another process sees.
`pc` names the next call; `lock` is the flock on `<socket>.lock`; `path` is what
the socket path names (a daemon's socket, a stale one, a dangling symlink, a
directory); `dir` abstracts owner and mode of the parent. `OtherMakesDir` lets
anybody put a directory or a file where there is none, also between
`prepare_socket_dir`'s look at the metadata and its create, which accepts what it
meets; `met` is history, the daemons to which that happened. `bind_listener` has no
await, so a pending signal is noticed in `select` (before serve is polled) or
while serving. `Fail` is a kill at any point or an error that leaves `main`
through `?`; in both cases the kernel closes descriptors and no clean-up runs.
`Shutdown`, `DropLock`, `CleanupExists` and `CleanupRemove` follow the order in
which `select!` drops the serve future and `main` then removes the path.

**WorkloadApi.** One action ends at each await: one `enumerate()`, one
`prove()`, the human's answer. `Change` moves the world between any two of them:
a source's list, its status (up, failing, hung), the clock in either direction.
`Call` is everything before the first await, early refusals and a failing random
number generator included; `Respond`
is everything after the last one, including the sort, the de-duplication, the
clock reading, the gates and the refusal of an empty list. A challenge is
represented by the request that drew it. Presence in production evidence is
always none; test sources exercise the rest of the claim machinery. `OrderedReply`
and replayed proofs need sources like those of the service's tests
(`tests/e2e.rs`, `tests/selector.rs`), since no two registry sources prove the
same identity.

**Pseudonyms.** HKDF over the daemon's key, the root identity and the consumer is
represented by the pair of consumer and root, under the root's trust domain:
distinct inputs give distinct pseudonyms.

**Svid.** `clock` counts ticks, `Tick` to the second, because observations have
fractions and tokens do not. `ReadClock` and the `iat` of `Token` are separate
readings, as in the code. A token carries as history the claim it was made from and
`stepped`, whether the clock went back since the first proof, so that properties can
relate what is published to what was observed.

**ConsumerAttest.** The kernel records pid and uid at `connect()`; `Accept`,
`ExePathForPid` and `HashFile` are the three calls between which the peer may exec,
exit or lend its pid and its file may be replaced. Two variables are history:
`before` is, for each connection, the program that connected, until something happens
to its pid or its file; `ran` is what the pid has run between accept and now, and the
files that took such a program's place.

**Sources.** Each module is one call in flight against a holder that changes
between any two steps: keys are added and removed, the keyring is edited, the node
logs in as somebody else, an answer is cut short. A signature is represented by
the key that made it and what it covers. A gpg key has a validity (good, revoked or
expired) and may sign with a subkey; `session` is whether gpg works, whether the human
agrees, and whether this gpg names the primary of a signing subkey. In `MCEvidence` one source, or `derive`,
runs in a behaviour while the others are parked; likewise the parsers of `Texts`.

**Clients.** `NativeHost` reads its stream in halves of a length, then a body, so
that the browser may vanish inside either. `HireCli` chooses the command line word
by word as the argument loop reads it. A word is a model value; `Spelling` gives its
text as pieces cut at "?" and "&", so that what a command sends is the text it puts
together, and `Parameters` is what hired reads in it. `HireWatch` keeps apart whether SIGINT's
default action was replaced and whether a listener exists now.

A definition whose comment starts with "A slip in" is no part of the system: it is
a wrong version of the definition it names, which shows that a property notices.

## Runs

| Run | Shows | Bounds |
|---|---|---|
| `Daemon_all` | free path at bind, a vetted directory unless create met one, no take-over, refinement of `SocketService`; a caught signal ends the process; after crashes at any step the socket is reclaimed for good | 3 supervised daemons, 2 faults, 2 signals, every leftover and directory |
| `Daemon_reachable` | *violated*: the clean-up removes a successor's socket | 2 daemons, 1 signal |
| `Evidence_all` | the three network and key sources implement `Prover`; an undisturbed agent proves what it holds, an undisturbed keyring exactly its usable keys; the gpg listing parses to exactly the enrollable keys; a chunked answer is whole or refused; an ordinary passwd entry is found; the loop computes `Derive` | 3 calls and 3 changes of each holder, 4 key blobs, 3 gpg keys, 2 logins; 3 items of evidence, 3 instants |
| `Texts_all` | strictest wins, nothing ignored; SPIFFE IDs parse as the inverse of printing; a hint is accepted exactly when complete and unambiguous; the base58 buffer is the number read | 2 audiences of 2 parameters, bounds 0, 5, 9; 4 tokens; 6 hint parameters; 6 digits into 3 bytes |
| `WorkloadApi_safety` | consent boundary, every audience met, only the named identity, one failing source costs nothing else; every call is answered when sources and the human answer | 1 request of every kind, 2 changes |
| `WorkloadApi_ties` | ordered, duplicate-free replies; claims hold when they are proved, and replayed proofs join nothing | 2 symmetric requests, 2 changes |
| `Svid_life` | presence decays at the TTL; the published window never shows presence past the TTL, and lies in its token's life; exp, kid and restart end a token; a refusal is final while time moves forward | 2 incarnations, a clock that steps both ways |
| `Svid_own` | *violated*: tokens of a domain without a bundle fail the daemon's own validation | 1 token |
| `ConsumerAttest_all` | an undisturbed peer is named for its program, a disturbed one for a program its pid ran meanwhile, a connection is named once, no peer stops the accept loop | 2 pids, 2 connections, 2 paths, 3 files, 2 users, 4 events |
| `Clients_all` | responses match frames; requests match the command line; exit 0 means an identity was printed; the watch survives outages | 2 frames, 5 words, 2 changes of hired (1 for host and commands), 2 Ctrl-C |
| `Clients_prove` | *violated*: an audience with a query swallows the challenge of `hire prove` | the commands of `Clients_all`, audiences with a presence parameter |
| `HireWatch_ctrlc` | *violated*: a Ctrl-C during a poll is lost | 1 change of hired, 1 Ctrl-C |

Why the bounds are enough to meet the interesting cases: three daemons give a
holder, a contender and a stopping one at once; three items of evidence give an
accumulated touch, a later weaker item and a token; two parameters and two
audiences give a repeat inside and a fold across; two changes let a source be lost
and the clock move within one call; three calls let a source enumerate, prove and
prove again after a change; six hint parameters are the four keys, a repeat and an
unknown one; six base58 digits overflow three bytes; five words are a command's two
flags with values and one more; a TTL of two ticks, with the clock stepping both
ways, puts observations before, at and past every boundary. Constants named
`Max...` exist for TLC only; no theorem limits them.

The type invariant of each module documents its state. It is proved for `Daemon`,
`AudiencePolicy` and, as part of the invariants below, `DeriveLoop`,
`ConsumerAttest` and `HintParse`; the invariants of the other modules with a
theorem state the types they need themselves. What remains is neither proved nor
checked by a registered run: the runs spend their properties on other questions.

Deadlock is checked where the system cannot stop (`Daemon`, `Svid`). Elsewhere every
request, input, call or command ends, so the runs end too.

## Fairness

* `Daemon!Fairness`: an operating system runs a runnable process. Nothing is
  assumed of signals, faults or starts.
* `SupervisedSpec` adds that a supervisor starts a daemon that is off, as the
  units in `systemd/` and `launchd/` ask for. Only `ReclaimedAfterCrash` needs it,
  and only of behaviours without signals: a daemon told to stop may take its
  successor's socket along (`Daemon_reachable`).
* `WorkloadApi!FairSpec`: the runtime polls a future that can progress. A hung
  source disables its step, so fairness says nothing about it.
* `ConsumerAttest!FairAttestSpec`: the runtime polls the listener. A read from a file
  system that does not answer is disabled, so `EveryPeerDecided` assumes that files
  can be read again for good.
* `HireWatch!Fairness`: the runtime polls the loop and time passes. Nothing is
  assumed of Ctrl-C or of hired.
* `AttendedSpec` adds that a human answers a prompt they see, with yes or no;
  it is used only for `AnsweredUnlessHung`.

## Proofs

Every safety property of a passing run is proved for all values of the constants;
so are the refinements.

| Theorem | Says | Argument |
|---|---|---|
| `DaemonProofs!TypeCorrect` | types | one step per action |
| `LockIsExact` | the lock is held by exactly the daemon in the locked part of its life | inductive with the type invariant |
| `BindNeverFindsAddrInUse` | nothing is at the path when bind runs | only the lock's holder binds, so nobody can between unlink and bind |
| `DirectoryVettedFirst` | from the lock on, the directory is private or root's sticky one, unless the daemon's create met it made | inductive with the type invariant: what was vetted is only ever tightened |
| `NoTakeoverAtStartup` | only a stopping daemon's clean-up removes a listener's socket | from the invariant: the listener holds the lock, so no other daemon is at unlink |
| `ReachableUntilSignalled` | until the first signal, the daemon that serves is the one at the path, through any starts and crashes | `CalmInv`: no daemon is on its shutdown path and the path names the listener; this is what is true of the property `Daemon_reachable` violates |
| `Refinement` | `Daemon` implements `SocketService` | at most one listener, by the exact lock |
| `FramesAreAnswered` | the host's i-th response answers the i-th frame | `Stream`: where on the line each frame not yet read starts, and that nothing but the start of a further one follows; a length is then always the first frame's own, or that of one cut off |
| `LineIsAsked` | the text a command sends to hired is the one its line spells | `LineInv`: the fields hold the last value of each flag on the words read so far, and those words decide alone which of them are flags; the text is made of these fields |
| `SuccessIsAnIdentity` | exit 0 means that an identity, the named one, was printed | `CliInv`: the exit status and the output are set in one step, from an answer that has an identity |
| `WorkloadApiProofs!ConsentBoundary` | only the named identity is prompted for, once | `IInv`, per request: before proving nothing was prompted, and the prompting step ends the request's proving |
| `AudiencesMet` | every token meets each audience's presence and age | `RInv`; the folded requirement is a maximum of levels and a minimum of ages, so what meets it meets every member |
| `NamedOnly` | a named request gets that identity alone | `RInv`: at `respond` a named request has one claim, of its selector |
| `RepliesOrdered` | a reply is sorted by assurance, ties by source, each identity once | `RInv`: claims arrive in the order of the sources; the sort is stable, and retain keeps an order |
| `HoldingsProofs!NothingLost` | no silent identity held throughout is missing from an unnamed reply | `KInv` follows what is held from the candidates to the claims to the reply; de-duplication keeps a claim of every identity |
| `ClaimsHeld` | a claim is held and dated in the step that makes it | `PInv`: a replayed proof belongs to a request that is through with its source, so `binds_to` refuses it for any other |
| `ClaimProofs!DeriveIsComputed` | the loop returns `Derive` for evidence of any length | `DeriveInv`: what is kept is bound, in order, and the accumulators are those of the strongest item so far |
| `PresenceIsFresh`, `WindowFailsClosed` | a token's presence is fresh; its window, read in whole seconds, never exceeds the TTL and lies in the token's life | `IInv`: a token is still what it was signed as, and without a backward step its observation is not after its `iat`; whole seconds by division |
| `AcceptanceIsLive`, `RefusalLasts` | an accepted token is this incarnation's, in time; a refusal is final while the clock does not go back | `IInv`: bundles are those of the running epoch, and no token has a later one |
| `PublishedTokensValidate` | a live token under a published trust domain is accepted for each of its audiences | the same invariant; this is what is true of the property `Svid_own` violates |
| `PeerNamedOnce`, `RacesStayInTheWindow` | a connection is named once, an undisturbed one for the program that connected; whatever races, a name is of a program the pid ran while it was attested | `Queue`: what waits is unnamed and waits once, and the connection attested has left the queue; `Undisturbed`: the process keeps the program it connected with; `LinkInWindow`, `FileInWindow`: the path read is of a program in `ran`, and the file there now is in `ran` too |
| `TextsProofs!TypeCorrect`, `StrictestAlwaysWins`, `NamespaceIsClosed` | types; the strictest parameter wins; no rejected parameter passes | loop invariant over the parameters read so far and the audiences finished |
| `TextsAreCanonical`, `IdentitiesRoundTrip` | printing and parsing of SPIFFE IDs are inverse, for any length | where the first slash is; texts as functions on their positions |
| `AcceptedTagIsTheHint`, `RefusalIsJustified` | an accepted tag is the hint; a refused one has a fault | `Clean`: unless a parameter was refused, a field is set exactly for the keys read, and no key was read twice |
| `NoCarryIsLost` | the base58 buffer is the number read, for any width | one digit multiplies by 58 and adds: induction over the bytes on a sum of prefixes, the last carry being what overflows |
| `GpgProofs!ListingIsRead` | the parsed listing has exactly the enrollable keys, in order | `Parsing`: after j lines of key k the parser has what those lines say of it and the candidates of the keys before |
| `UndisturbedGpgProves` | an undisturbed keyring proves exactly its usable keys | `GpgInv`: while calm, the listing is the keyring, and what was signed is this call's challenge |
| `GpgRefinesProver` | gpg implements `Prover` | `GpgInv`: a key found in the listing was enrollable during the call |
| `SourcesProofs!LookupReachesHalf` | a passwd entry of up to half the limit is found | the buffer doubles, so it fails only past half the limit |
| `ChunksAreTheStatus` | dechunk hands on the whole status or nothing | `Moved`: after k chunks the output is their parts and the rest of the wire is a window of the answer |
| `TailscaleRefinesProver` | tailscale implements `Prover` | a whole status names an account that was logged in during the call |
| `AgentRefinesProver` | ssh-agent and did:key implement `Prover` | `AgentInv`: a key found in the list was resident during the call; every step is a stutter of `Prover` or ends the call |
| `UndisturbedAgentProves` | an undisturbed agent proves what it holds | `AgentCalm`: what was listed is what is held, and what was signed is this call's challenge |

The assumptions are those named in the modules, which TLC evaluates on every run:
constants have their types (`MaxRequest` is a number), absent values are told from
present ones, daemons are not leftovers of the path, the ends of a status's chunks
increase up to its own, a uid of a gpg key has a name, and a word of a command line has
a text. Two theorems have a hypothesis of their own.
`NothingLost` assumes `NoCaching`: no source keeps its proofs. That is so of every
source of the registry; only a source of `tests/e2e.rs` keeps them, and for that one
the property is false, since a replayed proof joins nothing. `ClaimsHeld` assumes
`ReplaysOne`: a source that replays its proof proves possession, of one identity, as
that source does.

The theorems on sources, on `derive` and on the clients are about the components' own
specifications (`A!Spec`, `GpgSpec`, `DeriveSpec`, `N!Spec`, ...). `Evidence_all` and
`Clients_all` check the same definitions on a specification that runs one of them in
each behaviour.

Loops are step machines, so their invariants are proved by induction over steps.
Where a definition is a recursive function (what retain keeps, what a digit string
stands for, the lines of a listing), the induction is over a set of naturals,
`OrderFacts!SetInduction`, itself proved from a least counterexample: first that
two solutions of the recursion agree wherever both are defined, then the property
of the solution.

Only model-checked: liveness (`SignalEndsDaemon`, `ReclaimedAfterCrash`,
`AnsweredUnlessHung`, `EveryPeerDecided`, `KeepsPolling`), as fairness is out of the
prover's reach.

## Where code and text disagree

1. `hired/src/main.rs:72`: the clean-up runs without the lock and can remove the
   socket of the daemon that took over (`Daemon_reachable`).
2. `hire/src/main.rs:327`: `hire prove` appends `?challenge=N` to its audience,
   although an audience may have a query (`SPEC-HIRE.md:332`); hired then reads the
   challenge as the tail of that query's last value, and refuses the request when that
   is the presence required (`Clients_prove`).
3. `SPEC-HIRE.md:144` says the daemon maintains a bundle for each source's trust
   domain; it publishes one for `ssh.local` only (`Svid_own`).
4. `hire/src/main.rs:439` says that only Ctrl-C ends the watch. It does, but not
   every Ctrl-C: each turn listens anew, nobody listens during a poll, and the
   default action is gone by then (`HireWatch_ctrlc`). While hired stalls in a poll,
   Ctrl-C cannot stop the watch.

Smaller ones, met on the way and not the subject of a run:

* `server.rs:169` says of `prepare_socket_dir` "So refuse a directory this user does
  not own". That is true of the directory whose metadata is read; one that appears
  between that and the create is accepted, whoever owns it.
* `server.rs:240` says that `bind_listener` takes the socket over from a running hired.
  That was so before `acquire_lock`; `NoTakeover` is what the code does now.
* `SPEC-HIRE.md:361` promises a presence challenge and a timeout for it. Neither is
  built: a presence that is missing is refused at once, and `gpg.rs:88` explains why a
  pinentry has no timeout.
* `gpg.rs:136` lets an expired key be offered because "an expired identity beats no
  identity at all"; gpg signs with none, so it is offered and never proved.
* `unix.rs:105` and `:141` speak of entries larger than `MAX_PASSWD_BUF`. The buffer
  doubles, so unless that lands on the limit exactly an entry of more than half of it
  may be refused; `SmallEntryIsFound` claims half.
* `did_key.rs:77` says that a longer identifier carries out of the buffer. Leading `1`
  digits are zeros and never carry, so such a text decodes to the same key (its identity,
  a hash of the text, is another); `BufferIsTheNumber` is about the number.
* `consumer_attest.rs:73` explains the link under `/proc` as one that follows the
  inode, while the code reads the path and opens that by name.
* `gpg.rs:91` says that `FetchJWTSVID` never gets there, which a request that names a
  gpg identity does.
* `hire/src/main.rs:434` says that `hire watch` prints identities as they change, and
  it prints them at every poll; line 442 says that the redirected stream holds
  identities alone, and line 470 prints "no identity" to it.

## Not modelled

* The X.509 and WIT RPCs (unimplemented in the code) and the bundle RPCs (a read of
  a store that is constant after start-up).
* Cryptography and encodings: JWT, JWK and HKDF, and the JSON of tailscaled and of
  the browser, are reduced to what they succeed on. The serialisation of HVID claims
  is left out.
* The macOS branches of consumer attestation and of `install-service`.
* `SpiffeId::provenance`, the cached OIDC source's file scan, the choice of the
  socket path.
* Connection tasks that outlive `serve`.
* What others do inside the socket's directory or to its mode once it is there, and
  errors of accept(2).
* A human who never answers a prompt, and a source that hangs for good, block their own
  call for ever; `AnsweredUnlessHung` excludes both. A file system that hangs for good
  blocks the accept loop, since the hash is synchronous; `EveryPeerDecided` excludes it.
* An error of the signer itself (`service.rs:186`): signing with a key in memory.
* A session end that removes the runtime directory with the lock file in it: the
  proofs about `Daemon` assume that the lock file stays.
* `ConsumerAttest` and `WorkloadApi` are not composed: a request carries a consumer
  or none as its input, and the instances use one consumer.
