----------------------------- MODULE UnixAccount -----------------------------
(***************************************************************************)
(* UnixAttestor (hire-attestors/src/unix.rs): the name of the account is       *)
(* looked up once, when the source is built, with a buffer that grows until    *)
(* the passwd entry fits.  A directory server may be out of reach, may hold no   *)
(* entry, or may ask for more room forever.                                   *)
(***************************************************************************)
EXTENDS Naturals

CONSTANTS
    Suggested,      \* what sysconf may suggest as a size; 0 for no answer
    DefaultCap,     \* the size used without an answer
    MaxPasswdBuf,   \* MAX_PASSWD_BUF
    Entries,        \* sizes of the account's entry, with NoEntry
    NoEntry,
    Unbounded       \* the entry of a backend that always wants more room

VARIABLES
    entry,      \* the size of the account's passwd entry
    cap,        \* the size of the buffer
    named,      \* how the account is named: "unknown" while the lookup runs
    failed      \* history: whether the directory server failed

vars == <<entry, cap, named, failed>>

Init ==
    /\ entry = NoEntry /\ cap = 0
    /\ named = "unbuilt"
    /\ failed = FALSE

\* UnixAttestor::new, and username_for up to its loop.
New ==
    /\ named = "unbuilt"
    /\ entry' \in Entries \cup {NoEntry, Unbounded}
    /\ \E suggested \in Suggested : cap' = IF suggested > 0 THEN suggested ELSE DefaultCap
    /\ named' = "unknown"
    /\ UNCHANGED failed

\* A slip in GetPwUid: the first buffer that is too small ends the lookup.
GetPwUidOnce ==
    /\ named = "unknown"
    /\ named' = IF entry \notin {NoEntry, Unbounded} /\ entry <= cap
                THEN "by name" ELSE "by uid"
    /\ UNCHANGED <<entry, cap, failed>>

\* One turn of the loop in username_for, and new() on what it returns: ERANGE
\* doubles the buffer up to the limit; no entry, a failed lookup and an entry
\* past the limit name the account by its uid.
GetPwUid ==
    /\ named = "unknown"
    /\ \/ /\ entry # NoEntry /\ (entry = Unbounded \/ entry > cap)     \* ERANGE
          /\ cap' = 2 * cap
          /\ named' = IF cap' > MaxPasswdBuf THEN "by uid" ELSE "unknown"
       \/ /\ entry \notin {NoEntry, Unbounded} /\ entry <= cap
          /\ named' = "by name"
          /\ UNCHANGED cap
       \/ entry = NoEntry /\ named' = "by uid" /\ UNCHANGED cap
    /\ UNCHANGED <<entry, failed>>

\* The directory server fails, whatever the buffer.
LookupFails ==
    /\ named = "unknown"
    /\ named' = "by uid"
    /\ failed' = TRUE
    /\ UNCHANGED <<entry, cap>>

Step == GetPwUid \/ LookupFails

Next == New \/ Step

Spec == Init /\ [][Next]_vars

-----------------------------------------------------------------------------
(* Properties.                                                             *)

\* Only an entry larger than half the limit can be missed: the doubling always
\* tries a buffer of at least that size before it gives up.
SmallEntryIsFound ==
    named = "by uid" /\ ~failed /\ entry \notin {NoEntry, Unbounded} => 2 * entry > MaxPasswdBuf
=============================================================================
