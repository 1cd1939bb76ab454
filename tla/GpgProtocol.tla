----------------------------- MODULE GpgProtocol -----------------------------
(***************************************************************************)
(* The gpg source (hire-attestors/src/gpg.rs) and the constructor that alone   *)
(* makes its evidence (verify_openpgp in claim.rs).                           *)
(*                                                                          *)
(* A proof runs gpg three times: it lists the secret keys and parses the       *)
(* listing line by line, has the challenge signed, and has the signature       *)
(* checked.  The owner edits the keyring between the runs, and the signing run   *)
(* waits on a dialog for as long as the human takes.                          *)
(***************************************************************************)
EXTENDS Naturals, Sequences, Retained

CONSTANTS
    Keys,       \* keys that may be imported: [fpr, secret, validity, uids, sub]
    Unset,      \* no fingerprint, no name, no subkey
    MaxRuns,    \* bound on calls
    MaxEdits    \* bound on edits of the keyring and on changes of the session

VARIABLES
    keyring,    \* the keys, in gpg's order
    session,    \* what gpg and the human would do if asked now
    edits,
    offered,    \* the fingerprints the latest enumeration found
    listing,    \* history: the keyring as the latest list run printed it
    call,       \* the call in flight
    calls,      \* calls begun; a call's challenge is its number
    enrolled,   \* history: whether the call's key was enrollable during the call
    calm        \* history: whether keyring and session are as when the call began

gpgVars == <<keyring, session, edits, offered, listing, call, calls, enrolled, calm>>

NoParse == [fp |-> Unset, uid |-> Unset, enrollable |-> FALSE, want |-> FALSE]

NoCall == [pc |-> "idle", fpr |-> Unset, lines |-> << >>, parse |-> NoParse,
           found |-> << >>, message |-> Unset, outcome |-> "none"]

\* gpg runs, runs and fails, or is not there; the human answers its dialog or
\* cancels it; and this version of gpg names the primary in VALIDSIG or does not.
Sessions == [gpg : {"works", "fails", "missing"}, willing : BOOLEAN, primary : BOOLEAN]

GpgInit ==
    /\ keyring = << >> /\ edits = 0
    /\ session \in Sessions
    /\ offered = {}
    /\ listing = << >>
    /\ call = NoCall
    /\ calls = 0
    /\ enrolled = FALSE
    /\ calm = TRUE

-----------------------------------------------------------------------------
(* The keyring.                                                            *)

\* is_revoked: field 2 of a record, which is "e" for one that expired and "u" for
\* a good one.
IsRevoked(validity) == validity = "r"

LiveUids(key) == {i \in DOMAIN key.uids : ~IsRevoked(key.uids[i].validity)}

\* What an edited key is still made of.
KeyType ==
    [fpr : {k.fpr : k \in Keys}, secret : {"#"} \cup {k.secret : k \in Keys},
     validity : {"u", "e", "r"}, uids : {k.uids : k \in Keys}, sub : {k.sub : k \in Keys}]

\* No call in flight is told from a call on any key.
ASSUME UnsetAssumption == Unset \notin {k.fpr : k \in Keys}

\* A key is a record with a list of uids, each of which carries a name.  "Fingerprints
\* do not collide across the primary/subkey distinction" (names_key).
ASSUME KeysAssumption ==
    /\ Keys \subseteq KeyType
    /\ \A k \in Keys : /\ k.uids \in Seq({k.uids[n] : n \in DOMAIN k.uids})
                      /\ \A n \in DOMAIN k.uids : k.uids[n].name # Unset
    /\ \A k, l \in Keys : k.fpr # l.sub

\* The enrolment rule: the secret key is here, nothing withdrawn, a live name.  A
\* key that expired is enrollable.
Enrollable(key) == key.secret # "#" /\ ~IsRevoked(key.validity) /\ LiveUids(key) # {}

HeldIn(keys) == {keys[i].fpr : i \in {j \in DOMAIN keys : Enrollable(keys[j])}}

Edit(keys) ==
    /\ edits < MaxEdits
    /\ edits' = edits + 1
    /\ keyring' = keys
    /\ enrolled' = (enrolled \/ (call.fpr # Unset /\ call.fpr \in HeldIn(keys)))
    /\ calm' = FALSE
    /\ UNCHANGED <<session, offered, listing, call, calls>>

ImportKey == \E k \in Keys : (\A i \in DOMAIN keyring : keyring[i].fpr # k.fpr)
                             /\ Edit(Append(keyring, k))

RevokeKey == \E i \in DOMAIN keyring : Edit([keyring EXCEPT ![i].validity = "r"])

ExpireKey == \E i \in DOMAIN keyring :
    keyring[i].validity = "u" /\ Edit([keyring EXCEPT ![i].validity = "e"])

\* The secret primary moves offline and leaves a stub.
TakeOffline == \E i \in DOMAIN keyring : Edit([keyring EXCEPT ![i].secret = "#"])

Without(keys, i) == [n \in 1..(Len(keys) - 1) |-> keys[IF n < i THEN n ELSE n + 1]]

DeleteKey == \E i \in DOMAIN keyring : Edit(Without(keyring, i))

EditKeyring == ImportKey \/ RevokeKey \/ ExpireKey \/ TakeOffline \/ DeleteKey

\* gpg is upgraded, breaks or is repaired; the human changes their mind.
ChangeSession ==
    /\ edits < MaxEdits
    /\ edits' = edits + 1
    /\ session' \in Sessions \ {session}
    /\ calm' = FALSE
    /\ UNCHANGED <<keyring, offered, listing, call, calls, enrolled>>

\* What gpg prints for a key: its record and fingerprint, its uids, then its
\* subkey and the fingerprint of that.
Line(rec, validity, value) == [rec |-> rec, validity |-> validity, value |-> value]

KeyLines(key) ==
    <<Line("sec", key.validity, key.secret), Line("fpr", "-", key.fpr)>>
        \o [i \in DOMAIN key.uids |-> Line("uid", key.uids[i].validity, key.uids[i].name)]
        \o (IF key.sub = Unset THEN << >>
            ELSE <<Line("ssb", key.validity, "+"), Line("fpr", "-", key.sub)>>)

\* The lines of the last n keys.
LinesOfLast(keys) ==
    LET last[n \in 0..Len(keys)] ==
          IF n = 0 THEN << >> ELSE KeyLines(keys[Len(keys) + 1 - n]) \o last[n - 1]
    IN  last

Listing(keys) == LinesOfLast(keys)[Len(keys)]

-----------------------------------------------------------------------------
(* A call of enumerate or prove.                                           *)

Return(outcome) ==
    /\ call' = [NoCall EXCEPT !.outcome = outcome]
    /\ enrolled' = FALSE

Fail ==
    /\ Return(IF call.fpr = Unset THEN call.outcome ELSE "refused")
    /\ UNCHANGED <<keyring, session, edits, offered, listing, calls, calm>>

Quiet == UNCHANGED <<keyring, session, edits, offered, listing, calls, enrolled, calm>>

\* enumerate, or prove on a candidate the latest enumeration found.
Begin ==
    /\ call.pc = "idle"
    /\ calls < MaxRuns
    /\ calls' = calls + 1
    /\ calm' = TRUE
    /\ \/ /\ call' = [call EXCEPT !.pc = "list"]
          /\ UNCHANGED enrolled
       \/ \E fpr \in offered :
             /\ call' = [call EXCEPT !.pc = "list", !.fpr = fpr, !.outcome = "none"]
             /\ enrolled' = (fpr \in HeldIn(keyring))
    /\ UNCHANGED <<keyring, session, edits, offered, listing>>

\* gpg --list-secret-keys.  A gpg that fails lists nothing; one that cannot be
\* started is an error.
List ==
    /\ call.pc = "list"
    /\ \/ /\ session.gpg # "missing"
          /\ listing' = IF session.gpg = "works" THEN keyring ELSE << >>
          /\ call' = [call EXCEPT !.pc = "parse", !.lines = Listing(listing'),
                                  !.parse = NoParse, !.found = << >>]
          /\ UNCHANGED <<keyring, session, edits, offered, calls, enrolled, calm>>
       \/ /\ session.gpg = "missing"
          /\ Fail

\* flush_key: the candidate of the key that just ended, if it has all it needs.
FlushKey(found, p) ==
    IF p.enrollable /\ p.fp # Unset /\ p.uid # Unset
    THEN Append(found, [fpr |-> p.fp, name |-> p.uid]) ELSE found

\* A slip in ReadLine: the name of the key before is kept.
ReadLineKeepUid(p, line) ==
    CASE line.rec = "sec" ->
            [fp |-> Unset, uid |-> p.uid, want |-> TRUE,
             enrollable |-> line.value # "#" /\ ~IsRevoked(line.validity)]
      [] line.rec = "fpr" /\ p.want -> [p EXCEPT !.fp = line.value, !.want = FALSE]
      [] line.rec = "uid" /\ p.uid = Unset /\ ~IsRevoked(line.validity) -> [p EXCEPT !.uid = line.value]
      [] OTHER -> p

\* parse_gpg_colons, one line.
ReadLine(p, line) ==
    CASE line.rec = "sec" ->
            [fp |-> Unset, uid |-> Unset, want |-> TRUE,
             enrollable |-> line.value # "#" /\ ~IsRevoked(line.validity)]
      [] line.rec = "fpr" /\ p.want -> [p EXCEPT !.fp = line.value, !.want = FALSE]
      [] line.rec = "uid" /\ p.uid = Unset /\ ~IsRevoked(line.validity) -> [p EXCEPT !.uid = line.value]
      [] OTHER -> p

ParseLine ==
    /\ call.pc = "parse" /\ call.lines # << >>
    /\ LET line == Head(call.lines)
       IN  call' = [call EXCEPT
              !.lines = Tail(@),
              !.parse = ReadLine(@, line),
              !.found = IF line.rec = "sec" THEN FlushKey(@, call.parse) ELSE @]
    /\ Quiet

ParseEnd ==
    /\ call.pc = "parse" /\ call.lines = << >>
    /\ call' = [call EXCEPT !.found = FlushKey(@, call.parse),
                            !.parse = NoParse, !.pc = "listed"]
    /\ Quiet

\* A slip in FindKey: the candidate is taken at its word.
FindKeyUnasked ==
    /\ call.pc = "listed"
    /\ \/ /\ call.fpr = Unset
          /\ offered' = {call.found[i].fpr : i \in DOMAIN call.found}
          /\ Return(call.outcome) /\ UNCHANGED <<keyring, session, edits, listing, calls, calm>>
       \/ /\ call.fpr # Unset
          /\ call' = [call EXCEPT !.pc = "sign"]
          /\ Quiet

\* enumerate returns; prove looks for its candidate in what it found.
FindKey ==
    /\ call.pc = "listed"
    /\ \/ /\ call.fpr = Unset
          /\ offered' = {call.found[i].fpr : i \in DOMAIN call.found}
          /\ Return(call.outcome) /\ UNCHANGED <<keyring, session, edits, listing, calls, calm>>
       \/ /\ call.fpr # Unset
          /\ \A i \in DOMAIN call.found : call.found[i].fpr # call.fpr
          /\ Fail
       \/ /\ \E i \in DOMAIN call.found : call.found[i].fpr = call.fpr
          /\ call' = [call EXCEPT !.pc = "sign"]
          /\ Quiet

\* gpg --local-user <fpr> --sign: gpg signs with the subkey of the key if it has
\* one, and refuses a key that is gone, revoked, expired, or cannot sign.  The
\* human may cancel the dialog.
Signs(key) == key.validity = "u" /\ (key.secret # "#" \/ key.sub # Unset)

SignedBy(key) == [signer |-> IF key.sub = Unset THEN key.fpr ELSE key.sub,
                  primary |-> key.fpr, over |-> calls]

Sign ==
    /\ call.pc = "sign"
    /\ LET signing == {i \in DOMAIN keyring : keyring[i].fpr = call.fpr /\ Signs(keyring[i])}
           able == session.gpg = "works" /\ session.willing /\ signing # {}
       IN  \/ /\ able
              /\ \E i \in signing :
                    call' = [call EXCEPT !.pc = "verify", !.message = SignedBy(keyring[i])]
              /\ Quiet
           \/ ~able /\ Fail

\* A slip in NamesKey: only the signing position is read.
NamesSigningKey(fpr, signing, primary) == fpr = signing

\* names_key: VALIDSIG names the signing key and, in newer versions of gpg, the
\* primary.
NamesKey(fpr, signing, primary) == fpr = signing \/ fpr = primary

\* verify_openpgp: gpg --decrypt needs the public key, and may balk at one that was
\* revoked meanwhile; what the signature covers must be this challenge.
Verify ==
    /\ call.pc = "verify"
    /\ LET public == {i \in DOMAIN keyring : keyring[i].fpr = call.message.primary}
           primary == IF session.primary THEN call.message.primary ELSE Unset
       IN  \/ /\ session.gpg = "works" /\ public # {}
              /\ Return(IF /\ NamesKey(call.fpr, call.message.signer, primary)
                           /\ call.message.over = calls
                        THEN "evidence" ELSE "refused")
              /\ UNCHANGED <<keyring, session, edits, offered, listing, calls, calm>>
           \/ /\ session.gpg = "works" => \A i \in public : IsRevoked(keyring[i].validity)
              /\ Fail

Step == List \/ ParseLine \/ ParseEnd \/ FindKey \/ Sign \/ Verify

GpgNext == EditKeyring \/ ChangeSession \/ Begin \/ Step

GpgSpec == GpgInit /\ [][GpgNext]_gpgVars

-----------------------------------------------------------------------------
(* Properties.                                                             *)

\* The parse and the call stay in their types.
GpgTypeOK ==
    /\ call.pc \in {"idle", "list", "parse", "listed", "sign", "verify"}
    /\ call.parse.enrollable \in BOOLEAN /\ call.parse.want \in BOOLEAN
    /\ call.outcome \in {"none", "evidence", "refused"}
    /\ session \in Sessions
    /\ enrolled \in BOOLEAN /\ calm \in BOOLEAN

\* The candidate of a key: its primary fingerprint and its first live name.
CandidateOf(key) ==
    LET first == CHOOSE i \in LiveUids(key) : \A j \in LiveUids(key) : i <= j
    IN  [fpr |-> key.fpr, name |-> key.uids[first].name]

\* parse_gpg_colons yields exactly the enrollable keys of the keyring it was
\* printed from, in order, each under its primary fingerprint and its own first
\* live name: no stub, no revoked key, no subkey and no name of a neighbour.
ListedIsEnrollable ==
    call.pc \in {"listed", "sign", "verify"}
        => LET kept == Retain(listing, {i \in DOMAIN listing : Enrollable(listing[i])})
           IN  call.found = [i \in 1..Len(kept) |-> CandidateOf(kept[i])]

\* The call's key would prove, asked now: enrollable and not expired, gpg working,
\* the human willing, and the primary named by gpg where a subkey signs.
Usable ==
    /\ session.gpg = "works" /\ session.willing
    /\ \E i \in DOMAIN keyring :
          /\ keyring[i].fpr = call.fpr /\ Enrollable(keyring[i])
          /\ keyring[i].validity # "e"
          /\ keyring[i].sub = Unset \/ session.primary

\* A proof that nothing disturbs ends with evidence exactly when its key is usable.
\* So an expired key, which the enrolment rule offers on purpose, never proves, and
\* a key that signs with a subkey proves exactly where gpg names its primary.
UndisturbedProvesTheUsable ==
    [][calm /\ call.pc # "idle" /\ call'.pc = "idle" /\ call.fpr # Unset
         => (call'.outcome = "evidence" <=> Usable)]_gpgVars

\* The calls implement what every source promises.
P == INSTANCE Prover WITH
        Subjects <- {k.fpr : k \in Keys},
        NoSubject <- Unset,
        held <- HeldIn(keyring),
        subject <- call.fpr,
        seen <- enrolled,
        outcome <- call.outcome

GpgImplementsProver == P!Spec
=============================================================================
