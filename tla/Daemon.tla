------------------------------- MODULE Daemon -------------------------------
(***************************************************************************)
(* The life of hired processes that share one socket path: start-up,       *)
(* bind_listener with its directory check and advisory lock, serving,      *)
(* signals, clean-up, failures and crashes.                                *)
(*                                                                         *)
(* hired/src/main.rs and hire-grpc/src/server.rs.  One action is one system *)
(* call whose effect another process can see; the calls of different       *)
(* processes interleave.  bind_listener contains no await, so a signal is  *)
(* noticed only before serve is first polled or once it waits for a        *)
(* connection, never in between.                                           *)
(***************************************************************************)
EXTENDS Naturals

CONSTANTS
    Daemons,        \* hired processes
    NoDaemon,       \* nobody holds the lock
    InitialPaths,   \* what may lie at the socket path before any daemon runs
    InitialDirs,    \* what may lie at the socket's parent directory
    MaxFaults,      \* bound: crashes, I/O errors and transport errors
    MaxSignals      \* bound: SIGTERM and SIGINT deliveries

\* Contents of the socket path other than a socket some daemon bound:
\* nothing; a socket of an earlier boot; a dangling symlink; a directory.
PathLeftovers == {"none", "stale", "symlink", "directory"}

\* The parent directory: missing; ours and 0700; ours and group- or
\* world-accessible; root's and sticky; another user's; not a directory.
DirStates == {"absent", "private", "loose", "sticky", "foreign", "file"}

ASSUME DaemonsAssumption ==
    /\ Daemons \cap PathLeftovers = {}
    /\ NoDaemon \notin Daemons

ASSUME BoundsAssumption ==
    /\ InitialPaths \subseteq PathLeftovers
    /\ InitialDirs \subseteq DirStates
    /\ MaxFaults \in Nat
    /\ MaxSignals \in Nat

VARIABLES
    pc,             \* where each process is, see PcStates
    lock,           \* holder of the flock on <socket>.lock, or NoDaemon
    path,           \* what the socket path names: a daemon's socket or a leftover
    dir,            \* state of the socket's parent directory
    signalled,      \* daemons with an undelivered SIGTERM or SIGINT
    met,            \* history: daemons whose create found a directory already made
    faults,         \* crashes and errors so far
    signals         \* signals sent so far

vars == <<pc, lock, path, dir, signalled, met, faults, signals>>

\* "probing" is main up to the installation of the signal handlers, "select"
\* is main at select! with serve not yet polled; "drop_lock", "exists" and
\* "remove" are the shutdown path.  The others are named for the next call.
BindSteps == {"tighten_dir", "create_dir", "acquire_lock", "unlink", "bind", "chmod"}

PcStates == BindSteps \cup
    {"off", "probing", "select", "serving", "drop_lock", "exists", "remove"}

\* The processes that hold a bound, listening socket.
Listening(d) == pc[d] \in {"chmod", "serving"}

\* The states in which bind_listener or serve owns the lock's file handle.
HoldsLock(d) == pc[d] \in {"unlink", "bind", "chmod", "serving", "drop_lock"}

-----------------------------------------------------------------------------

Init ==
    /\ pc = [d \in Daemons |-> "off"]
    /\ lock = NoDaemon
    /\ path \in InitialPaths
    /\ dir \in InitialDirs
    /\ signalled = {}
    /\ met = {}
    /\ faults = 0
    /\ signals = 0

Goto(d, label) == pc' = [pc EXCEPT ![d] = label]

\* Process exit: the kernel closes every descriptor, which drops the flock and
\* the listener.  The socket file stays where it is.
Exit(d) ==
    /\ Goto(d, "off")
    /\ lock' = IF lock = d THEN NoDaemon ELSE lock
    /\ signalled' = signalled \ {d}
    /\ met' = met \ {d}

-----------------------------------------------------------------------------
(* Variants of the operations below, each with one plausible slip; they take  *)
(* part in no specification.                                               *)

\* The ownership check forgotten.
PrepareSocketDirAnyOwner(d) ==
    /\ pc[d] = "select"
    /\ Goto(d, IF dir = "absent" THEN "create_dir" ELSE "acquire_lock")
    /\ UNCHANGED <<lock, path, dir, signalled, met, faults, signals>>

\* `let _ = acquire_lock(..)`: the handle is dropped at the end of the statement.
AcquireLockDropped(d) ==
    /\ pc[d] = "acquire_lock"
    /\ Goto(d, "unlink")
    /\ UNCHANGED <<lock, path, dir, signalled, met, faults, signals>>

\* `if path.exists() { remove_file }`: exists() follows a symlink.
UnlinkStaleIfExists(d) ==
    /\ pc[d] = "unlink"
    /\ path' = IF path = "stale" THEN "none" ELSE path
    /\ Goto(d, "bind")
    /\ UNCHANGED <<lock, dir, signalled, met, faults, signals>>

\* The signal branch races serve only until serve is first polled.
ShutdownBeforeServeOnly(d) ==
    /\ d \in signalled
    /\ pc[d] = "select"
    /\ Goto(d, "exists")
    /\ UNCHANGED <<lock, path, dir, signalled, met, faults, signals>>

-----------------------------------------------------------------------------

\* An operator, systemd or launchd starts a daemon.
Start(d) ==
    /\ pc[d] = "off"
    /\ Goto(d, "probing")
    /\ UNCHANGED <<lock, path, dir, signalled, met, faults, signals>>

\* Keys are generated, sources probed, handlers installed: nothing shared.
Probed(d) ==
    /\ pc[d] = "probing"
    /\ Goto(d, "select")
    /\ UNCHANGED <<lock, path, dir, signalled, met, faults, signals>>

\* select! polls serve, which enters prepare_socket_dir and reads the parent's
\* metadata.  A directory that is not ours and not root's sticky one is refused.
PrepareSocketDir(d) ==
    /\ pc[d] = "select"
    /\ \/ /\ dir \in {"file", "foreign"}
          /\ Exit(d)
       \/ /\ dir = "absent"
          /\ Goto(d, "create_dir")
          /\ UNCHANGED <<lock, signalled, met>>
       \/ /\ dir = "loose"
          /\ Goto(d, "tighten_dir")
          /\ UNCHANGED <<lock, signalled, met>>
       \/ /\ dir \in {"private", "sticky"}
          /\ Goto(d, "acquire_lock")
          /\ UNCHANGED <<lock, signalled, met>>
    /\ UNCHANGED <<path, dir, faults, signals>>

\* set_permissions(dir, 0700) on a directory this user owns.
TightenDir(d) ==
    /\ pc[d] = "tighten_dir"
    /\ dir' = "private"
    /\ Goto(d, "acquire_lock")
    /\ UNCHANGED <<lock, path, signalled, met, faults, signals>>

\* DirBuilder::recursive: creates the directory 0700.  It accepts one that was made
\* since the metadata was read, by another daemon or by anybody else, whatever its
\* owner and mode, and fails on what is not a directory.
CreateDir(d) ==
    /\ pc[d] = "create_dir"
    /\ \/ /\ dir = "absent"
          /\ dir' = "private"
          /\ Goto(d, "acquire_lock")
          /\ UNCHANGED <<lock, signalled, met>>
       \/ /\ dir \notin {"absent", "file"}
          /\ met' = met \cup {d}
          /\ Goto(d, "acquire_lock")
          /\ UNCHANGED <<lock, dir, signalled>>
       \/ /\ dir = "file"              \* ServeError::SocketDir
          /\ Exit(d)
          /\ UNCHANGED dir
    /\ UNCHANGED <<path, faults, signals>>

\* open(O_CREAT) and flock(LOCK_EX | LOCK_NB).  The lock file is never
\* unlinked, so every process locks the same inode.
AcquireLock(d) ==
    /\ pc[d] = "acquire_lock"
    /\ \/ /\ lock = NoDaemon
          /\ lock' = d
          /\ Goto(d, "unlink")
          /\ UNCHANGED <<signalled, met>>
       \/ /\ lock # NoDaemon        \* ServeError::AlreadyRunning
          /\ Exit(d)
    /\ UNCHANGED <<path, dir, faults, signals>>

\* remove_file on the socket path, absent or not; a directory there is
\* ServeError::StaleSocket.
UnlinkStale(d) ==
    /\ pc[d] = "unlink"
    /\ \/ /\ path # "directory"
          /\ path' = "none"
          /\ Goto(d, "bind")
          /\ UNCHANGED <<lock, signalled, met>>
       \/ /\ path = "directory"
          /\ Exit(d)
          /\ UNCHANGED path
    /\ UNCHANGED <<dir, faults, signals>>

\* bind(2) needs a free path (AddrInUse otherwise).
Bind(d) ==
    /\ pc[d] = "bind"
    /\ IF path = "none"
       THEN /\ path' = d
            /\ Goto(d, "chmod")
            /\ UNCHANGED <<lock, signalled, met>>
       ELSE Exit(d) /\ UNCHANGED path
    /\ UNCHANGED <<dir, faults, signals>>

\* set_permissions by path: ENOENT when the path no longer names anything.
Chmod(d) ==
    /\ pc[d] = "chmod"
    /\ \/ /\ path # "none"
          /\ Goto(d, "serving")
          /\ UNCHANGED <<lock, signalled, met>>
       \/ /\ path = "none"          \* ServeError::Permissions
          /\ Exit(d)
    /\ UNCHANGED <<path, dir, faults, signals>>

\* select! completes on a signal.  The serve future is dropped before anything
\* else in main runs: the listener closes first, the lock's handle after it.
\* With serve never polled there is neither.
Shutdown(d) ==
    /\ d \in signalled
    /\ \/ pc[d] = "serving" /\ Goto(d, "drop_lock")
       \/ pc[d] = "select" /\ Goto(d, "exists")
    /\ UNCHANGED <<lock, path, dir, signalled, met, faults, signals>>

DropLock(d) ==
    /\ pc[d] = "drop_lock"
    /\ lock' = NoDaemon
    /\ Goto(d, "exists")
    /\ UNCHANGED <<path, dir, signalled, met, faults, signals>>

\* socket_path_cleanup.exists(), which follows symlinks; when it says no, main
\* returns.
CleanupExists(d) ==
    /\ pc[d] = "exists"
    /\ \/ /\ path \notin {"none", "symlink"}
          /\ Goto(d, "remove")
          /\ UNCHANGED <<lock, signalled, met>>
       \/ /\ path \in {"none", "symlink"}
          /\ Exit(d)
    /\ UNCHANGED <<path, dir, faults, signals>>

\* remove_file with its error ignored, then main returns.
CleanupRemove(d) ==
    /\ pc[d] = "remove"
    /\ path' = IF path = "directory" THEN path ELSE "none"
    /\ Exit(d)
    /\ UNCHANGED <<dir, faults, signals>>

\* The process is killed at any point, or, before it serves, an I/O error of one
\* of bind_listener's calls, or a transport error while serving, leaves main
\* through `?`: no clean-up runs in any of these cases.
Fail(d) ==
    /\ pc[d] # "off"
    /\ faults < MaxFaults
    /\ faults' = faults + 1
    /\ Exit(d)
    /\ UNCHANGED <<path, dir, signals>>

\* SIGTERM or SIGINT: kills a process whose handlers are not installed yet,
\* otherwise it is remembered until select! looks.
Signal(d) ==
    /\ pc[d] # "off"
    /\ signals < MaxSignals
    /\ signals' = signals + 1
    /\ \/ /\ pc[d] = "probing"
          /\ Exit(d)
       \/ /\ pc[d] # "probing"
          /\ signalled' = signalled \cup {d}
          /\ UNCHANGED <<pc, lock, met>>
    /\ UNCHANGED <<path, dir, faults>>

\* Another user, or another program of this one, puts something where the
\* directory is missing: below /tmp anybody may.
OtherMakesDir ==
    /\ dir = "absent"
    /\ dir' \in {"loose", "foreign", "file"}
    /\ UNCHANGED <<pc, lock, path, signalled, met, faults, signals>>

\* The steps a running process takes by itself.
Step(d) ==
    \/ Probed(d) \/ PrepareSocketDir(d) \/ TightenDir(d) \/ CreateDir(d)
    \/ AcquireLock(d) \/ UnlinkStale(d) \/ Bind(d) \/ Chmod(d)
    \/ Shutdown(d) \/ DropLock(d) \/ CleanupExists(d) \/ CleanupRemove(d)

Next ==
    \/ \E d \in Daemons : Start(d) \/ Step(d) \/ Fail(d) \/ Signal(d)
    \/ OtherMakesDir

\* A process the operating system runs keeps running.
Fairness == \A d \in Daemons : WF_vars(Step(d))

Spec == Init /\ [][Next]_vars

FairSpec == Spec /\ Fairness

\* With a supervisor that starts the daemon again (systemd Restart=on-failure,
\* launchd KeepAlive).
SupervisedSpec == FairSpec /\ \A d \in Daemons : WF_vars(Start(d))

-----------------------------------------------------------------------------
(* Properties.                                                             *)

\* Every variable stays in the set of values the code can give it.
TypeOK ==
    /\ pc \in [Daemons -> PcStates]
    /\ lock \in Daemons \cup {NoDaemon}
    /\ path \in Daemons \cup PathLeftovers
    /\ dir \in DirStates
    /\ signalled \subseteq Daemons
    /\ met \subseteq Daemons
    /\ faults \in 0..MaxFaults
    /\ signals \in 0..MaxSignals

\* The flock is held by exactly the process that is between acquire_lock and
\* the drop of serve's `_lock`: it outlives every step of serving, and no exit,
\* error or crash leaves it behind.
LockMatchesHolder == \A d \in Daemons : HoldsLock(d) <=> lock = d

\* bind(2) never meets AddrInUse: between the unlink of a stale socket and the
\* bind, no other daemon's bind can slip in.
BindFindsPathFree == \A d \in Daemons : pc[d] = "bind" => path = "none"

\* A daemon works in a directory that is 0700 and ours, or root's and sticky,
\* from the lock to the end of serving, whoever makes the directory meanwhile.
\* The exception is one that found no directory and whose create met one:
\* prepare_socket_dir does not look at that one again.  No daemon that starts
\* later follows it there.
ServesInVettedDirectory ==
    \A d \in Daemons :
        (pc[d] = "acquire_lock" \/ HoldsLock(d)) /\ d \notin met
            => dir \in {"private", "sticky"}

\* No start-up removes or replaces the socket of a daemon that listens: while
\* it listens, its socket goes only by the clean-up of a daemon that is
\* stopping.  (The comment on ServeError says that bind_listener takes the socket
\* over from a running hired; that was so before acquire_lock.)
NoTakeover ==
    [][\A d \in Daemons :
          Listening(d) /\ path = d /\ path' # d
              => \E e \in Daemons \ {d} : CleanupRemove(e)]_vars

\* The processes, seen only through who listens, behave as SocketService.
Service == INSTANCE SocketService WITH servers <- {d \in Daemons : Listening(d)}

\* hired implements SocketService: one listener at a time, never displaced.
ImplementsSocketService == Service!Spec

\* A SIGTERM or SIGINT that the handlers caught ends the process.
SignalEndsDaemon == \A d \in Daemons : d \in signalled ~> pc[d] = "off"

\* Whatever a crash leaves behind, at whichever step it happens, a restarted
\* daemon reclaims the socket: once faults stop, and if no daemon is told to
\* stop and nobody else takes the directory's place, some daemon serves for good
\* and the socket path leads to it.
ReclaimedAfterCrash ==
    [](dir \notin {"foreign", "file"}) /\ path # "directory" /\ [](signals = 0)
        => <>[](\E d \in Daemons : pc[d] = "serving" /\ path = d)

\* The socket path leads to the daemon that serves, as long as it serves.
ServingMeansReachable == \A d \in Daemons : pc[d] = "serving" => path = d

=============================================================================
