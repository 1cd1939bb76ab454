--------------------------- MODULE ConsumerAttest ---------------------------
(***************************************************************************)
(* Who is calling: hired names the peer of a connection once, while it       *)
(* accepts it (hire-grpc/src/consumer_attest.rs and the incoming stream of     *)
(* server.rs).  Requests are then refused or served as WorkloadApi says.       *)
(*                                                                          *)
(* The kernel reports the pid and uid recorded at connect().  The daemon      *)
(* reads the link /proc/<pid>/exe and then opens the path it read.  Between   *)
(* any two of these calls the peer may exec, exit or lend its pid to another   *)
(* process, and a package manager may remove or replace the file.  accept()    *)
(* contains no await, so one connection is attested at a time.                *)
(***************************************************************************)
EXTENDS Naturals, Sequences, FiniteSets

CONSTANTS
    Pids,           \* process ids
    Conns,          \* connections
    Paths,          \* paths of executables
    Files,          \* inodes
    Content,        \* for each inode, what it holds; SHA-256 tells contents apart
    Uids, MyUid,    \* user ids, and the daemon's own
    Nothing,        \* no process, no file, no consumer
    MaxEvents       \* bound: execs, exits, removals and replacements

ASSUME NothingAssumption ==
    /\ Nothing \notin Paths \cup Files \cup Conns
    /\ Nothing \notin [exe : Files, path : Paths]
    /\ Nothing \notin [exe : Files, path : Paths, uid : Uids]

VARIABLES
    disk,       \* the inode each path names, or Nothing
    gone,       \* inodes that lost their name; none gets one again
    procs,      \* the process with each pid: [exe, path, uid], or Nothing
    conns,      \* each connection: [phase, pid, uid, peer]
    backlog,    \* connections waiting in the listener's queue
    attest,     \* the attestation in progress: [step, conn, link]
    reachable,  \* whether the executables' file system answers
    events,     \* changes of processes and files so far
    before,     \* history: for each connection the program of the process that
                \* connected, while nothing has happened to the pid or to the file
    ran         \* history: the programs the pid being attested ran since accept, and
                \* the files that took the place of one

world == <<disk, gone, procs, reachable, events>>
attestVars == <<world, conns, backlog, attest, before, ran>>

Unconnected == [phase |-> "none", pid |-> Nothing, uid |-> Nothing, peer |-> Nothing]

NoAttest == [step |-> "idle", conn |-> Nothing, link |-> Nothing]

AttestInit ==
    /\ disk \in [Paths -> Files]
    /\ \A p, q \in Paths : disk[p] = disk[q] => p = q
    /\ gone = {}
    /\ procs = [pid \in Pids |-> Nothing]
    /\ conns = [c \in Conns |-> Unconnected]
    /\ backlog = << >>
    /\ attest = NoAttest
    /\ reachable = TRUE
    /\ events = 0
    /\ before = [c \in Conns |-> Nothing]
    /\ ran = {}

-----------------------------------------------------------------------------
(* Processes and files.                                                    *)

Event ==
    /\ events < MaxEvents
    /\ events' = events + 1

Program(proc) == [exe |-> proc.exe, path |-> proc.path]

\* The kernel shows the program of a live process of the daemon's user.
Readable(proc) == proc # Nothing /\ proc.uid = MyUid

\* What an event on this pid, or on this path, does to the connections' history.
TouchesPid(pid) ==
    /\ before' = [c \in Conns |-> IF conns[c].pid = pid THEN Nothing ELSE before[c]]
    /\ ran' = IF /\ attest.conn # Nothing /\ conns[attest.conn].pid = pid
                 /\ Readable(procs'[pid])
              THEN ran \cup {Program(procs'[pid])} ELSE ran

TouchesPath(path) ==
    /\ before' = [c \in Conns |-> IF before[c] # Nothing /\ before[c].path = path
                                  THEN Nothing ELSE before[c]]
    /\ ran' = IF disk'[path] # Nothing /\ \E w \in ran : w.path = path
              THEN ran \cup {[exe |-> disk'[path], path |-> path]} ELSE ran

\* fork and exec: a pid that is free starts running a program.
Spawn(pid) ==
    /\ procs[pid] = Nothing
    /\ \E path \in Paths, uid \in Uids :
          /\ disk[path] # Nothing
          /\ procs' = [procs EXCEPT ![pid] = [exe |-> disk[path], path |-> path, uid |-> uid]]
    /\ Event
    /\ TouchesPid(pid)
    /\ UNCHANGED <<disk, gone, reachable, conns, backlog, attest>>

\* exec in place: the pid and its connections stay, the program changes.
Exec(pid) ==
    /\ procs[pid] # Nothing
    /\ \E path \in Paths :
          /\ disk[path] \notin {Nothing, procs[pid].exe}
          /\ procs' = [procs EXCEPT ![pid].exe = disk[path], ![pid].path = path]
    /\ Event
    /\ TouchesPid(pid)
    /\ UNCHANGED <<disk, gone, reachable, conns, backlog, attest>>

ExitProcess(pid) ==
    /\ procs[pid] # Nothing
    /\ procs' = [procs EXCEPT ![pid] = Nothing]
    /\ Event
    /\ TouchesPid(pid)
    /\ UNCHANGED <<disk, gone, reachable, conns, backlog, attest>>

\* An update renames a new file over the path, a removal unlinks it.
ReplaceFile(path) ==
    /\ disk[path] # Nothing
    /\ \E new \in (Files \ (gone \cup {disk[p] : p \in Paths})) \cup {Nothing} :
          disk' = [disk EXCEPT ![path] = new]
    /\ gone' = gone \cup {disk[path]}
    /\ Event
    /\ TouchesPath(path)
    /\ UNCHANGED <<procs, reachable, conns, backlog, attest>>

\* A network file system stops answering, and recovers.
Outage ==
    /\ reachable
    /\ Event
    /\ reachable' = FALSE
    /\ UNCHANGED <<disk, gone, procs, conns, backlog, attest, before, ran>>

Recovery ==
    /\ ~reachable
    /\ reachable' = TRUE
    /\ UNCHANGED <<disk, gone, procs, events, conns, backlog, attest, before, ran>>

\* What a process runs, if the file still has its name.
Running(proc) == IF disk[proc.path] = proc.exe THEN Program(proc) ELSE Nothing

\* connect(): the kernel records the caller's credentials and queues.
Connect(c) ==
    /\ conns[c].phase = "none"
    /\ \E pid \in Pids :
          /\ procs[pid] # Nothing
          /\ conns' = [conns EXCEPT ![c] = [phase |-> "queued", pid |-> pid,
                          uid |-> procs[pid].uid, peer |-> Nothing]]
          /\ before' = [before EXCEPT ![c] = Running(procs[pid])]
    /\ backlog' = Append(backlog, c)
    /\ UNCHANGED <<world, attest, ran>>

-----------------------------------------------------------------------------
(* AttestedStream::accept.                                                 *)

\* A slip in Decide: an unattested peer ends the accept loop.
DecideOrStop(c, peer) ==
    /\ conns' = IF peer = Nothing THEN conns
                ELSE [conns EXCEPT ![c].phase = "open", ![c].peer = peer]
    /\ attest' = IF peer = Nothing THEN [attest EXCEPT !.step = "stopped"] ELSE NoAttest
    /\ before' = [before EXCEPT ![c] = Nothing]
    /\ ran' = {}

\* The attestation ends: the connection is open, with a consumer or with none.
Decide(c, peer) ==
    /\ conns' = [conns EXCEPT ![c].phase = "open", ![c].peer = peer]
    /\ attest' = NoAttest
    /\ before' = [before EXCEPT ![c] = Nothing]
    /\ ran' = {}

\* The program of a process, where the kernel shows it.
Shown(proc) == IF Readable(proc) THEN {Program(proc)} ELSE {}

\* A slip in Accept: the uid is not compared.
AcceptAnyUid ==
    /\ attest.step = "idle" /\ backlog # << >>
    /\ backlog' = Tail(backlog)
    /\ attest' = [step |-> "link", conn |-> Head(backlog), link |-> Nothing]
    /\ ran' = Shown(procs[conns[Head(backlog)].pid])
    /\ UNCHANGED <<world, conns, before>>

\* accept(2), peer_cred() and attest_peer up to the uid comparison.
Accept ==
    LET c == Head(backlog)
    IN  /\ attest.step = "idle" /\ backlog # << >>
        /\ backlog' = Tail(backlog)
        /\ \/ Decide(c, Nothing)               \* AttestError::PeerCred, NoPeerPid
           \/ /\ conns[c].uid # MyUid           \* AttestError::WrongUid
              /\ Decide(c, Nothing)
           \/ /\ conns[c].uid = MyUid
              /\ attest' = [step |-> "link", conn |-> c, link |-> Nothing]
              /\ ran' = Shown(procs[conns[c].pid])
              /\ UNCHANGED <<conns, before>>
        /\ UNCHANGED <<world>>

\* A slip in ExePathForPid: the program of some process of the user.
ExePathForAnyPid ==
    /\ attest.step = "link"
    /\ \E pid \in Pids :
          /\ procs[pid] # Nothing
          /\ attest' = [attest EXCEPT !.step = "open", !.link = procs[pid].path]
    /\ UNCHANGED <<world, conns, backlog, before, ran>>

\* read_link on /proc/<pid>/exe.  It marks the path of a file without a name as
\* deleted, and such a path names nothing.
ExePathForPid ==
    LET c == attest.conn
        proc == procs[conns[c].pid]
    IN  /\ attest.step = "link"
        /\ \/ /\ ~Readable(proc)                        \* AttestError::NoExePath
              /\ Decide(c, Nothing)
           \/ /\ Readable(proc)
              /\ attest' = [attest EXCEPT !.step = "open",
                    !.link = IF disk[proc.path] = proc.exe THEN proc.path ELSE Nothing]
              /\ UNCHANGED <<conns, before, ran>>
        /\ UNCHANGED <<world, backlog>>

\* hash_file: File::open on the path, then its content to the end.  What an open
\* file holds does not change: a running program cannot be written.
HashFile ==
    LET found == IF attest.link = Nothing THEN Nothing ELSE disk[attest.link]
    IN  /\ attest.step = "open"
        /\ reachable
        /\ Decide(attest.conn, IF found = Nothing THEN Nothing    \* AttestError::Unreadable
                               ELSE Content[found])
        /\ UNCHANGED <<world, backlog>>

Daemon == Accept \/ ExePathForPid \/ HashFile

AttestNext ==
    \/ \E pid \in Pids : Spawn(pid) \/ Exec(pid) \/ ExitProcess(pid)
    \/ \E path \in Paths : ReplaceFile(path)
    \/ Outage \/ Recovery
    \/ \E c \in Conns : Connect(c)
    \/ Daemon

AttestSpec == AttestInit /\ [][AttestNext]_attestVars

\* The runtime polls the listener; a read of an unreachable file blocks.
FairAttestSpec == AttestSpec /\ WF_attestVars(Daemon)

-----------------------------------------------------------------------------
(* Properties.                                                             *)

Consumers == {Content[f] : f \in Files}

\* Paths, processes, connections and the attestation stay in their types.
AttestTypeOK ==
    /\ disk \in [Paths -> Files \cup {Nothing}]
    /\ gone \subseteq Files
    /\ procs \in [Pids -> [exe : Files, path : Paths, uid : Uids] \cup {Nothing}]
    /\ conns \in [Conns -> [phase : {"none", "queued", "open"}, pid : Pids \cup {Nothing},
                            uid : Uids \cup {Nothing}, peer : Consumers \cup {Nothing}]]
    /\ backlog \in Seq(Conns)
    /\ attest \in [step : {"idle", "link", "open"}, conn : Conns \cup {Nothing},
                   link : Paths \cup {Nothing}]
    /\ before \in [Conns -> [exe : Files, path : Paths] \cup {Nothing}]
    /\ ran \subseteq [exe : Files, path : Paths]

\* A connection is named once, before it is open, whatever its peer execs or
\* installs later, and nobody is named who is not the daemon's user.  A peer of that
\* user whose pid and program were left alone since connect() leaves the attestation
\* named, and for the program that connected.
NamedForItsProgram ==
    [][\A c \in Conns :
          /\ conns'[c].peer # conns[c].peer => conns[c].phase = "queued" /\ conns[c].uid = MyUid
          /\ attest.conn = c /\ before[c] # Nothing /\ conns'[c].phase = "open"
                => conns'[c].peer = Content[before[c].exe]]_attestVars

\* However the peer execs, exits or lends its pid, and however files are replaced,
\* while the daemon goes from accept to the link to the hash, a name it gives is
\* that of a program that pid ran for the daemon's user in this window, or of the
\* file that took such a program's place in it.  Never is it another process's, nor
\* one the pid ran before accept and had left.
NamedFromTheWindow ==
    [][\A c \in Conns : conns'[c].peer # conns[c].peer
          => \E w \in ran : conns'[c].peer = Content[w.exe]]_attestVars

\* Peers that cannot be named, dead, foreign or deleted, never stop the accept
\* loop: when files can be read, every connection is decided.
EveryPeerDecided ==
    <>[]reachable => \A c \in Conns : conns[c].phase = "queued" ~> conns[c].phase = "open"
=============================================================================
