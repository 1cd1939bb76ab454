----------------------------- MODULE NativeHost -----------------------------
(***************************************************************************)
(* hire-nmh: the native messaging host a browser starts (hire-nmh/src/main.rs). *)
(* It reads frames (a length, then that many bytes) from stdin, asks hired, and   *)
(* writes one response per frame.  The browser may go away at any byte, send a     *)
(* frame that is too long, or close its end; hired may restart or stall.          *)
(***************************************************************************)
EXTENDS DaemonSeen

CONSTANTS
    MaxRequest,     \* MAX_REQUEST, in units of the body
    MaxFrames       \* bound on frames

VARIABLES
    stdin,      \* units the browser has written and the host has not read
    open,       \* whether the browser still holds its end
    sent,       \* history: the frames written in full
    host,       \* [pc, len, request, response]
    replies     \* the responses written, in order

vars == <<daemon, changes, stdin, open, sent, host, replies>>

NoHost == [pc |-> "length", len |-> 0, request |-> "none", response |-> "none"]

Init ==
    /\ DaemonInit
    /\ stdin = << >> /\ open = TRUE /\ sent = << >>
    /\ host = NoHost
    /\ replies = << >>

-----------------------------------------------------------------------------
(* The browser.  A length takes two units, so that it can be cut in half; a      *)
(* unit of a body knows its frame.                                            *)

Frames ==
    [len : 1..MaxRequest + 1, what : {"status", "fetch", "invalid"}]
        \cup {[len |-> 0, what |-> "invalid"]}

Wire(f) ==
    <<[unit |-> "len", of |-> f], [unit |-> "len", of |-> f]>>
        \o [i \in 1..f.len |-> [unit |-> "body", of |-> f]]

Running == host.pc \notin {"closed", "failed"}

SendFrame ==
    /\ open /\ Len(sent) < MaxFrames
    /\ \E f \in Frames : stdin' = stdin \o Wire(f) /\ sent' = Append(sent, f)
    /\ UNCHANGED <<daemon, changes, open, host, replies>>

\* The extension is unloaded, between two frames or inside one.
CloseStdin ==
    /\ open
    /\ open' = FALSE
    /\ \/ UNCHANGED stdin
       \/ \E f \in Frames : \E n \in 1..Len(Wire(f)) - 1 :
             stdin' = stdin \o SubSeq(Wire(f), 1, n)
    /\ UNCHANGED <<daemon, changes, sent, host, replies>>

-----------------------------------------------------------------------------
(* The host.                                                               *)

Take(n) == stdin' = SubSeq(stdin, n + 1, Len(stdin))

Become(pc) == host' = [host EXCEPT !.pc = pc]

\* A slip in ReadLength: a frame that is too long is passed over.
ReadLengthResync ==
    /\ host.pc = "length"
    /\ \/ /\ Len(stdin) >= 2
          /\ Take(2)
          /\ host' = [host EXCEPT !.len = stdin[1].of.len,
                 !.pc = IF stdin[1].of.len > MaxRequest THEN "length" ELSE "body"]
       \/ Len(stdin) < 2 /\ ~open /\ Become("closed") /\ stdin' = << >>
    /\ UNCHANGED <<daemon, changes, open, sent, replies>>

\* read_message up to its limit: the end of the stream ends the host, also in
\* the middle of a length; a frame above the limit is an error.
ReadLength ==
    /\ host.pc = "length"
    /\ \/ /\ Len(stdin) >= 2
          /\ Take(2)
          /\ host' = [host EXCEPT !.len = stdin[1].of.len,
                 !.pc = IF stdin[1].of.len > MaxRequest THEN "failed" ELSE "body"]
       \/ Len(stdin) < 2 /\ ~open /\ Become("closed") /\ stdin' = << >>
    /\ UNCHANGED <<daemon, changes, open, sent, replies>>

\* read_exact of the body, and from_slice: a request only when the bytes are the
\* body of one frame.
ReadBody ==
    /\ host.pc = "body"
    /\ \/ /\ Len(stdin) >= host.len
          /\ Take(host.len)
          /\ host' = [host EXCEPT !.pc = "handle",
                 !.request = IF /\ host.len > 0
                                /\ \A i \in 1..host.len : stdin[i] = [stdin[1] EXCEPT !.unit = "body"]
                             THEN stdin[1].of.what ELSE "invalid"]
       \/ Len(stdin) < host.len /\ ~open /\ Become("failed") /\ stdin' = << >>
    /\ UNCHANGED <<daemon, changes, open, sent, replies>>

Respond(response) ==
    /\ host' = [host EXCEPT !.pc = "write", !.response = response]
    /\ UNCHANGED <<daemon, changes, stdin, open, sent, replies>>

\* handle_request: an invalid request and a status are answered on the spot,
\* fetch_jwt connects.
HandleRequest ==
    /\ host.pc = "handle"
    /\ \/ host.request = "invalid" /\ Respond("error")
       \/ host.request = "status" /\ Respond(IF SocketExists THEN "running" ELSE "stopped")
       \/ host.request = "fetch" /\ ~Listening /\ Respond("error")
       \/ /\ host.request = "fetch" /\ Listening
          /\ Become("call")
          /\ UNCHANGED <<daemon, changes, stdin, open, sent, replies>>

\* The first SVID of the answer, or the error.
FetchJwt ==
    /\ host.pc = "call"
    /\ \E svids \in Answers(NoId) :
          /\ Returns(NoId, svids)
          /\ Respond(IF svids = Refused THEN "error" ELSE "jwt")

\* send_response: a browser that is gone, and a token or message above
\* MAX_RESPONSE, are errors that end the host with nothing written.
WriteMessage ==
    /\ host.pc = "write"
    /\ \/ /\ host' = NoHost
          /\ replies' = Append(replies, host.response)
       \/ /\ ~open \/ host.response \in {"jwt", "error"}
          /\ Become("failed") /\ UNCHANGED replies
    /\ UNCHANGED <<daemon, changes, stdin, open, sent>>

Step == ReadLength \/ ReadBody \/ HandleRequest \/ FetchJwt \/ WriteMessage

Next ==
    \/ SendFrame \/ CloseStdin \/ Step
    \/ DaemonChanges /\ UNCHANGED <<stdin, open, sent, host, replies>>

Spec == Init /\ [][Next]_vars

-----------------------------------------------------------------------------
(* Properties.                                                             *)

Fits(what, response) ==
    \/ what = "invalid" /\ response = "error"
    \/ what = "status" /\ response \in {"running", "stopped"}
    \/ what = "fetch" /\ response \in {"jwt", "error"}

\* The host and the stream stay in their types.
TypeOK ==
    /\ host.pc \in {"length", "body", "handle", "call", "write", "closed", "failed"}
    /\ host.len \in 0..MaxRequest + 1
    /\ host.request \in {"none", "status", "fetch", "invalid"}
    /\ open \in BOOLEAN

\* The responses answer the frames one for one, in order: whatever came before,
\* the i-th response is a response to what the i-th frame asked.
RepliesFitFrames ==
    /\ Len(replies) <= Len(sent)
    /\ \A i \in DOMAIN replies : Fits(sent[i].what, replies[i])

=============================================================================
