-------------------------- MODULE WinHttpTransport --------------------------
(***************************************************************************)
(* WinHttpTransport::forward_streaming for one upstream request: the       *)
(* request thread in its synchronous WinHTTP calls, and those who may      *)
(* close the request handle under it: the cancellation callback and the    *)
(* total, response header and operation deadlines, each on a thread of its *)
(* own.                                                                    *)
(*                                                                         *)
(* Bodies are counted in bytes of a small unit; upstream sends, stops or   *)
(* keeps silent as it likes, the sender of the server (on_headers,         *)
(* on_chunk) accepts or refuses, the memory budget grants or refuses.      *)
(***************************************************************************)
EXTENDS Naturals, FiniteSets, FiniteSetsExt

CONSTANTS
    MaxBytes,     \* bound: bytes of an upstream body
    ReadSize,     \* kReadChunkSize
    MaxBuffered   \* max_response_body_size

ASSUME WinHttpAssumption ==
    /\ {MaxBytes, ReadSize, MaxBuffered} \subseteq Nat \ {0}

VARIABLES
    \* the request thread
    rpc,        \* its next step
    outcome,    \* what forward_streaming returned or threw, or "none"
    stream,     \* the response is an event stream
    asked,      \* bytes requested by the current read
    body,       \* bytes received: buffered, or delivered to on_chunk
    lease,      \* bytes of the response's memory lease
    \* the request handle and those who close it
    handle,     \* "none", "open" or "closed"
    closers,    \* who closed it, as the metrics record it
    timer,      \* deadline -> "off", "armed", "firing" or "fired"
    token,      \* "live", "cancelled" (callbacks pending) or "called"
    registered, \* the cancellation callback is registered
    \* upstream
    sent,       \* bytes upstream has sent
    upstream    \* "open", "ended" or "broken"

Deadline == {"total", "header", "operation"}

request  == <<rpc, outcome, stream, asked, body, lease>>
closing  == <<handle, closers, timer, token, registered>>
peer     == <<sent, upstream>>
winVars  == <<request, closing, peer>>

TimedOut(d) == timer[d] \in {"firing", "fired"}
Cancelled == token # "live"

-----------------------------------------------------------------------------
(* CancelableWinHttpHandle *)

\* Whoever exchanges the handle first closes it and is counted.
CloseBy(who) ==
    IF handle = "open" THEN handle' = "closed" /\ closers' = closers \cup {who}
                       ELSE UNCHANGED <<handle, closers>>

-----------------------------------------------------------------------------
(* DeadlineTimer *)

\* cancel() waits for a callback that is running.
Disarm(d) == timer[d] # "firing" /\ timer' = [timer EXCEPT ![d] = IF @ = "armed" THEN "off" ELSE @]

\* arm() cancels and forgets that the timer has fired before.
Arm(d) == timer[d] # "firing" /\ timer' = [timer EXCEPT ![d] = "armed"]

Expire(d) ==
    /\ timer[d] = "armed"
    /\ timer' = [timer EXCEPT ![d] = "firing"]
    /\ UNCHANGED <<request, handle, closers, token, registered, peer>>

ExpireCloses(d) ==
    /\ timer[d] = "firing"
    /\ timer' = [timer EXCEPT ![d] = "fired"]
    /\ CloseBy(d)
    /\ UNCHANGED <<request, token, registered, peer>>

-----------------------------------------------------------------------------
(* CancellationSource::cancel and CancellationToken::on_cancel *)

Cancel ==
    /\ token = "live" /\ outcome = "none"
    /\ token' = "cancelled"
    /\ UNCHANGED <<request, handle, closers, timer, registered, peer>>

\* The callbacks registered until then, if their registrations still exist.
CancelCalls ==
    /\ token = "cancelled"
    /\ token' = "called"
    /\ IF registered THEN CloseBy("cancelled") ELSE UNCHANGED <<handle, closers>>
    /\ registered' = FALSE
    /\ UNCHANGED <<request, timer, peer>>

-----------------------------------------------------------------------------
(* Upstream *)

UpstreamSends ==
    /\ upstream = "open" /\ sent < MaxBytes /\ rpc \notin {"start", "session", "connect"}
    /\ sent' = sent + 1
    /\ UNCHANGED <<request, closing, upstream>>

UpstreamStops(how) ==
    /\ upstream = "open" /\ outcome = "none"
    /\ upstream' = how
    /\ UNCHANGED <<request, closing, sent>>

-----------------------------------------------------------------------------
(* forward_streaming *)

RequestAt(l) == rpc' = l /\ UNCHANGED <<outcome, registered, token, peer>>

\* The destructors: the timers are cancelled, the registration is reset, the
\* handle closed if nobody has closed it and, unless a body is returned with
\* its lease, the memory given back.
Unwind(result) ==
    /\ rpc' = "done" /\ outcome' = result
    /\ \A d \in Deadline : timer[d] # "firing"
    /\ timer' = [d \in Deadline |-> IF timer[d] = "armed" THEN "off" ELSE timer[d]]
    /\ registered' = FALSE
    /\ handle' = IF handle = "open" THEN "closed" ELSE handle
    /\ lease' = IF result = "complete" /\ ~stream THEN lease ELSE 0
    /\ UNCHANGED <<stream, asked, body, token, peer>>

End(result) == Unwind(result) /\ closers' = closers

Start ==
    /\ rpc = "start"
    /\ IF Cancelled
       THEN End("499")
       ELSE /\ RequestAt("session")
            /\ UNCHANGED <<stream, asked, body, lease, handle, closers, timer>>

\* session_for_request: the published session, or the published error.
SessionForRequest ==
    /\ rpc = "session"
    /\ \/ End("502")
       \/ /\ RequestAt("connect")
          /\ UNCHANGED <<stream, asked, body, lease, handle, closers, timer>>

\* Connection and request handle, proxy of an explicit PAC.
Connect ==
    /\ rpc = "connect"
    /\ handle' = "open" /\ closers' = closers
    /\ RequestAt("register")
    /\ UNCHANGED <<stream, asked, body, lease, timer>>

ConnectFails == rpc = "connect" /\ End("502")

\* on_cancel runs the callback at once when the token is cancelled already.
\* A total timeout may be configured or not.
Register ==
    /\ rpc = "register"
    /\ IF Cancelled
       THEN /\ Unwind("499")
            /\ closers' = IF handle = "open" THEN closers \cup {"cancelled"} ELSE closers
       ELSE /\ registered' = TRUE
            /\ Arm("total") \/ timer' = timer
            /\ rpc' = "send"
            /\ UNCHANGED <<outcome, stream, asked, body, lease, handle, closers>>
            /\ UNCHANGED <<token, peer>>

\* A synchronous call fails: the handle is closed, the system reports a
\* timeout of its own, or upstream is broken.
CallFails == handle = "closed" \/ upstream = "broken"

\* How a failed call is reported while the request is sent and its headers
\* are awaited, and while the body is read.
SendError(own) ==
    CASE TimedOut("total") -> "504 total"
      [] ~TimedOut("total") /\ Cancelled -> "499"
      [] ~TimedOut("total") /\ ~Cancelled /\ own -> "504 send"
      [] OTHER -> "502"

HeaderError(own) ==
    CASE TimedOut("total") -> "504 total"
      [] ~TimedOut("total") /\ Cancelled -> "499"
      [] ~TimedOut("total") /\ ~Cancelled /\ (TimedOut("header") \/ own) -> "504 header"
      [] OTHER -> "502"

BodyError(own) ==
    CASE TimedOut("total") -> "504 total"
      [] ~TimedOut("total") /\ TimedOut("operation") -> "504 operation"
      [] ~TimedOut("total") /\ ~TimedOut("operation") /\ Cancelled -> "499"
      [] ~TimedOut("total") /\ ~TimedOut("operation") /\ ~Cancelled /\ own -> "504 operation"
      [] OTHER -> "502"

Send ==
    /\ rpc = "send" /\ handle = "open"
    /\ Arm("header") /\ UNCHANGED <<handle, closers>>
    /\ RequestAt("receive")
    /\ UNCHANGED <<stream, asked, body, lease>>

SendFails ==
    /\ rpc = "send"
    /\ \E own \in BOOLEAN : (own \/ CallFails) /\ End(SendError(own))

\* apply_timeouts fails before: no deadline is asked.
ConfigureFails == rpc = "send" /\ End(IF Cancelled THEN "499" ELSE "502")

\* WinHttpReceiveResponse; the header deadline is checked once more.
Receive ==
    /\ rpc = "receive" /\ handle = "open"
    /\ IF TimedOut("header") THEN End("504 header")
       ELSE /\ Disarm("header") /\ UNCHANGED <<handle, closers>>
            /\ RequestAt("status")
            /\ UNCHANGED <<stream, asked, body, lease>>

ReceiveFails ==
    /\ rpc = "receive"
    /\ \E own \in BOOLEAN : (own \/ CallFails) /\ End(HeaderError(own))

\* The calls that read the status and the headers fail on a closed handle;
\* a proxy that wants a password is refused.
StatusFails ==
    /\ rpc = "status"
    /\ IF TimedOut("total") THEN End("504 total") ELSE End("502")

Status(s) ==
    /\ rpc = "status" /\ ~TimedOut("total") /\ handle = "open"
    /\ stream' = s
    /\ RequestAt("query")
    /\ UNCHANGED <<asked, body, lease, handle, closers, timer>>

\* on_headers or on_chunk refuses: the client is gone.
SenderRefuses ==
    /\ stream /\ rpc \in {"query", "deliver"}
    /\ rpc = "query" => body = 0
    /\ End(IF Cancelled THEN "499" ELSE "stopped")

-----------------------------------------------------------------------------
(* read_body *)

Query ==
    /\ rpc = "query"
    /\ Arm("operation") /\ UNCHANGED <<handle, closers>>
    /\ RequestAt("available")
    /\ UNCHANGED <<stream, asked, body, lease>>

QueryFails ==
    /\ rpc = "available"
    /\ \E own \in BOOLEAN : (own \/ CallFails) /\ End(BodyError(own))

\* No more data.
QueryEnds ==
    /\ rpc = "available" /\ handle = "open" /\ upstream = "ended" /\ body = sent
    /\ End("complete")

Available == sent - body

TooLarge ==
    /\ rpc = "available" /\ handle = "open" /\ ~stream
    /\ Available > MaxBuffered - body
    /\ End("502 too large")

\* The lease grows by what is about to be read.
Reserve ==
    /\ rpc = "available" /\ handle = "open" /\ Available > 0
    /\ stream \/ Available <= MaxBuffered - body
    /\ asked' = Min({Available, ReadSize})
    /\ lease' = lease + asked'
    /\ Arm("operation") /\ UNCHANGED <<handle, closers>>
    /\ RequestAt("read")
    /\ UNCHANGED <<stream, body>>

BudgetRefuses ==
    /\ rpc = "available" /\ handle = "open" /\ Available > 0
    /\ End("503")

\* and shrinks to what was read; a chunk's lease lasts until it is delivered.
\* A read of nothing does not follow on data that were reported available.
Read(n) ==
    /\ rpc = "read" /\ handle = "open" /\ n \in 1 .. asked /\ n <= Available
    /\ body' = body + n /\ lease' = lease - (asked - n)
    /\ asked' = 0
    /\ RequestAt(IF stream THEN "deliver" ELSE "query")
    /\ UNCHANGED <<stream, handle, closers, timer>>

ReadFails ==
    /\ rpc = "read"
    /\ \E own \in BOOLEAN : (own \/ CallFails) /\ End(BodyError(own))

Deliver ==
    /\ rpc = "deliver"
    /\ lease' = 0
    /\ RequestAt("query")
    /\ UNCHANGED <<stream, asked, body, handle, closers, timer>>

-----------------------------------------------------------------------------
WinInit ==
    /\ rpc = "start" /\ outcome = "none" /\ stream = FALSE
    /\ asked = 0 /\ body = 0 /\ lease = 0
    /\ handle = "none" /\ closers = {} /\ timer = [d \in Deadline |-> "off"]
    /\ token = "live" /\ registered = FALSE
    /\ sent = 0 /\ upstream = "open"

\* The steps of the request thread.
RequestStep ==
    \/ Start \/ SessionForRequest \/ Connect \/ ConnectFails \/ Register
    \/ Send \/ SendFails \/ ConfigureFails \/ Receive \/ ReceiveFails \/ StatusFails
    \/ \E s \in BOOLEAN : Status(s)
    \/ SenderRefuses \/ Query \/ QueryFails \/ QueryEnds \/ TooLarge
    \/ Reserve \/ BudgetRefuses \/ ReadFails \/ Deliver
    \/ \E n \in 1 .. ReadSize : Read(n)

\* A synchronous call in progress may take for ever; the others may not.
Blocked == rpc \in {"send", "receive", "available", "read"} /\ handle = "open"

WinNext ==
    \/ RequestStep
    \/ \E d \in Deadline : Expire(d) \/ ExpireCloses(d)
    \/ Cancel \/ CancelCalls
    \/ UpstreamSends \/ \E how \in {"ended", "broken"} : UpstreamStops(how)

\* Timers fire, callbacks and threads run; only a call on an open handle may
\* take for ever, except WinHttpSendRequest, which has time limits of its own.
WinFairness ==
    /\ WF_winVars(RequestStep /\ (~Blocked \/ rpc = "send"))
    /\ \A d \in Deadline : WF_winVars(Expire(d)) /\ WF_winVars(ExpireCloses(d))
    /\ WF_winVars(CancelCalls)

WinSpec == WinInit /\ [][WinNext]_winVars /\ WinFairness

-----------------------------------------------------------------------------
\* What forward_streaming reports is true: a complete response holds every
\* byte upstream sent and its end, a cancellation was requested, a deadline
\* that is blamed has passed; and however the cancellation and the deadlines
\* race for the request handle, one of them closes it and is counted (the
\* checks after each WinHTTP call, CancelableWinHttpHandle::close).
WinOutcomeTruthful ==
    /\ Cardinality(closers) <= 1
    /\ outcome = "complete" => upstream = "ended" /\ body = sent
    /\ outcome = "499" => Cancelled
    /\ outcome = "504 total" => TimedOut("total")

\* The memory lease is exactly what the response holds: nothing while it is
\* streamed and the body otherwise, and nothing once the request has failed
\* (Lease::try_grow and shrink in read_body).
WinLeaseExact ==
    /\ rpc \in {"query", "available"} => lease = IF stream THEN 0 ELSE body
    /\ rpc = "read" => lease = asked + IF stream THEN 0 ELSE body
    /\ rpc = "done" => lease = IF outcome = "complete" /\ ~stream THEN body ELSE 0

\* A request ends although upstream keeps silent (DeadlineTimer).
WinRequestEnds == <>(rpc = "done")
=============================================================================
