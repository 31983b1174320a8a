---------------------------- MODULE CurlTransport ----------------------------
(***************************************************************************)
(* CurlTransport: requests that share a bounded pool of libcurl handles,   *)
(* each driven by its own thread, which polls libcurl and watches the      *)
(* cancellation token and the deadlines itself.  libcurl calls back for    *)
(* the progress of the request, for each line of the response's header     *)
(* and for each piece of its body; a callback that refuses ends the        *)
(* transfer.  A line and a piece of the body count one byte.               *)
(***************************************************************************)
EXTENDS Naturals, FiniteSets

CONSTANTS
    Requests,
    PoolSize,      \* handle_pool_size
    HeaderLimit,   \* kResponseHeaderLimit
    BodyLimit,     \* max_response_body_size
    MaxPieces      \* bound: pieces of an upstream body

ASSUME CurlAssumption ==
    /\ IsFiniteSet(Requests)
    /\ {PoolSize, HeaderLimit, BodyLimit, MaxPieces} \subseteq Nat \ {0}

VARIABLES
    created,   \* handles created, minus those discarded
    available, \* handles in the pool
    poisoned,  \* a handle could not be detached
    gone,      \* the requests whose clients have cancelled
    limited,   \* a total timeout is configured
    curl       \* request -> its thread and RequestContext

curlVars == <<created, available, poisoned, gone, limited, curl>>
poolVars == <<created, available, poisoned>>

\* RequestContext.  phase counts resolved, connected and send_completed;
\* part is where the response is: before a status line, in its header or,
\* once headers_complete, in its body; pieces is what upstream has sent.
Context ==
    [at |-> "start", abort |-> "none", phase |-> 0, part |-> "none",
     interim |-> FALSE, streaming |-> FALSE, header |-> 0, body |-> 0,
     lease |-> 0, pieces |-> 0, transfer |-> "running", outcome |-> "none"]

At(r, l) == curl[r].at = l
Running(r) == At(r, "perform") /\ curl[r].transfer = "running"

\* The request returns or throws; only a response outlives the context, and
\* keeps its lease.
Ended(c, result) ==
    [Context EXCEPT !.at = "done", !.outcome = result,
                    !.header = IF result \in {"complete", "stopped"} THEN c.header ELSE 0,
                    !.body = IF result \in {"complete", "stopped"} THEN c.body ELSE 0,
                    !.lease = IF result \in {"complete", "stopped"} THEN c.lease ELSE 0]

\* A callback gives its reason and returns 0, which ends the transfer.
Refuse(c, reason) == [c EXCEPT !.abort = reason, !.transfer = "failed"]

-----------------------------------------------------------------------------
(* CurlHandlePool *)

Sleepers == {r \in Requests : At(r, "asleep")}
Woken(cs, ws) == [r \in Requests |-> IF r \in ws THEN [cs[r] EXCEPT !.at = "acquire"] ELSE cs[r]]

\* acquire: a handle of the pool, a new one, or wait for one.
Acquire(r) ==
    /\ At(r, "acquire")
    /\ \/ /\ poisoned
          /\ curl' = [curl EXCEPT ![r] = Ended(@, "500")]
          /\ UNCHANGED poolVars
       \/ /\ ~poisoned /\ available > 0
          /\ available' = available - 1
          /\ curl' = [curl EXCEPT ![r].at = "setup"]
          /\ UNCHANGED <<created, poisoned>>
       \/ /\ ~poisoned /\ available = 0 /\ created < PoolSize
          /\ created' = created + 1
          /\ curl' = [curl EXCEPT ![r].at = "setup"]
          /\ UNCHANGED <<available, poisoned>>
       \/ /\ ~poisoned /\ available = 0 /\ created < PoolSize
          /\ curl' = [curl EXCEPT ![r] = Ended(@, "500")]
          /\ UNCHANGED poolVars
       \/ /\ ~poisoned /\ available = 0 /\ created >= PoolSize
          /\ curl' = [curl EXCEPT ![r].at = "asleep"]
          /\ UNCHANGED poolVars
    /\ UNCHANGED <<gone, limited>>

\* (mutant) The handle goes back without a notification.
ReleaseQuiet(cs) ==
    available' = available + 1 /\ curl' = cs /\ UNCHANGED <<created, poisoned>>

\* release: the handle goes back and one who waits is notified.
Release(cs) ==
    /\ available' = available + 1
    /\ \/ Sleepers = {} /\ curl' = cs
       \/ \E w \in Sleepers : curl' = Woken(cs, {w})
    /\ UNCHANGED <<created, poisoned>>

\* discard: a handle that cannot be detached poisons the pool.
Discard(cs) ==
    /\ poisoned' = TRUE /\ created' = created - 1
    /\ curl' = Woken(cs, Sleepers)
    /\ UNCHANGED available

-----------------------------------------------------------------------------
(* The callbacks of libcurl: what each makes of the context *)

\* transfer_progress
Progress(c, cancelled) ==
    IF cancelled THEN {Refuse(c, "cancelled")}
    ELSE {[c EXCEPT !.phase = p] : p \in c.phase .. 3}

\* reserve_response_header_bytes for one line, then go on with next.
Reserved(c, next) ==
    IF c.header >= HeaderLimit THEN {Refuse(c, "headers too large")}
    ELSE {Refuse(c, "budget"),
          [next EXCEPT !.header = c.header + 1, !.lease = c.lease + 1]}

\* (mutant) The next status line forgets the bytes of the last response and
\* not their lease.
ResetForgotten(c) == [c EXCEPT !.header = 0, !.body = 0]

\* reset_response_accounting and the new HttpResponse
Reset(c) == [c EXCEPT !.lease = @ - c.header - c.body, !.header = 0, !.body = 0]

StatusLine(c) ==
    UNION {Reserved(Reset(c), [c EXCEPT !.part = "header", !.interim = i, !.body = 0,
                                       !.streaming = FALSE, !.phase = 3])
           : i \in BOOLEAN}

HeaderLine(c) == Reserved(c, c) \cup {Refuse(c, "allocation")}

\* The empty line after the header: an interim response is waited out, the
\* final one is filtered, announced to on_headers if it is a stream.
BlankLine(c) ==
    IF c.interim THEN Reserved(c, [c EXCEPT !.part = "none"])
    ELSE UNION {LET n == [c EXCEPT !.part = "body", !.streaming = s] IN
                UNION {Reserved(c, m) : m \in
                        {n, Refuse(c, "budget")}
                        \cup IF s THEN {Refuse(n, "stopped"), Refuse(n, "exception")} ELSE {}}
                : s \in BOOLEAN}

\* (mutant) A piece that does not fit is passed over.
PieceSkipped(c) ==
    IF c.streaming THEN {c}
    ELSE IF c.body >= BodyLimit THEN {c}
    ELSE {[c EXCEPT !.body = @ + 1, !.lease = @ + 1]}

\* A piece of the body: on_chunk takes it, or it is kept with its lease.
Piece(c) ==
    IF c.streaming
    THEN {c, Refuse(c, "budget"), Refuse(c, "stopped"), Refuse(c, "exception")}
    ELSE IF c.body >= BodyLimit THEN {Refuse(c, "too large")}
    ELSE {[c EXCEPT !.body = @ + 1, !.lease = @ + 1],
          Refuse(c, "budget"), Refuse(c, "allocation")}

-----------------------------------------------------------------------------
(* curl_multi_perform *)

Callback(r, contexts) ==
    /\ \E c \in contexts : curl' = [curl EXCEPT ![r] = c]
    /\ UNCHANGED <<poolVars, gone, limited>>

\* The last call may come when the transfer has been refused already.
ProgressCallback(r) ==
    /\ At(r, "perform")
    /\ Callback(r, Progress(curl[r], r \in gone) \ {curl[r]})

\* socket_option_callback
SocketCallback(r) ==
    /\ Running(r) /\ curl[r].phase = 0
    /\ Callback(r, {[curl[r] EXCEPT !.phase = 1], [curl[r] EXCEPT !.transfer = "failed"]})

HeaderCallback(r) ==
    /\ Running(r)
    /\ \/ curl[r].part = "none" /\ Callback(r, StatusLine(curl[r]))
       \/ curl[r].part # "none" /\ Callback(r, HeaderLine(curl[r]))
       \/ curl[r].part = "header" /\ Callback(r, BlankLine(curl[r]))

BodyCallback(r) ==
    /\ Running(r) /\ curl[r].part = "body" /\ curl[r].pieces < MaxPieces
    /\ LET c == [curl[r] EXCEPT !.pieces = @ + 1] IN
       Callback(r, IF r \in gone THEN {Refuse(c, "cancelled")} ELSE Piece(c))

\* libcurl reports the end of the response, an error or a timeout.
TransferEnds(r) ==
    /\ Running(r)
    /\ Callback(r, {[curl[r] EXCEPT !.transfer = "failed"], [curl[r] EXCEPT !.transfer = "timeout"]}
                   \cup IF curl[r].phase = 3 /\ curl[r].part # "header"
                        THEN {[curl[r] EXCEPT !.transfer = "ok"]} ELSE {})

PerformReturns(r) ==
    /\ At(r, "perform")
    /\ curl' = [curl EXCEPT ![r].at = IF @ = "perform" /\ Running(r) THEN "check" ELSE "finish"]
    /\ UNCHANGED <<poolVars, gone, limited>>

-----------------------------------------------------------------------------
(* forward_streaming *)

Begin(r) ==
    /\ At(r, "start")
    /\ curl' = [curl EXCEPT ![r] = IF r \in gone THEN Ended(@, "499") ELSE [@ EXCEPT !.at = "acquire"]]
    /\ UNCHANGED <<poolVars, gone, limited>>

\* The deadline of the phase the request is in.
PhaseDeadline(c) ==
    CASE c.phase = 0 -> "resolve"
      [] c.phase = 1 -> "connect"
      [] c.phase = 2 -> "send"
      [] c.phase = 3 /\ c.part # "body" -> "response header"
      [] OTHER -> IF c.streaming THEN "stream idle" ELSE "response body"

Timeouts == {"resolve", "connect", "send", "response header", "stream idle", "response body", "total"}

\* deadline_abort, when some deadline has passed
DeadlineAborts(r) ==
    /\ At(r, "check")
    /\ \E d \in {PhaseDeadline(curl[r])} \cup (IF limited THEN {"total"} ELSE {}) :
          curl' = [curl EXCEPT ![r].abort = IF r \in gone THEN "cancelled" ELSE d,
                               ![r].at = "finish"]
    /\ UNCHANGED <<poolVars, gone, limited>>

\* and when none has: curl_multi_poll.
Poll(r) ==
    /\ At(r, "check")
    /\ curl' = [curl EXCEPT ![r] =
                  IF r \in gone THEN [@ EXCEPT !.abort = "cancelled", !.at = "finish"]
                  ELSE [@ EXCEPT !.at = "perform"]]
    /\ UNCHANGED <<poolVars, gone, limited>>

\* The reason that counts: a cancellation replaces none and a refusing sink.
Reason(c, cancelled) ==
    IF cancelled /\ c.abort \in {"none", "stopped"} THEN "cancelled" ELSE c.abort

\* A timeout of libcurl is the total one if there is one.
CurlTimeout(c) == IF limited THEN {"total", PhaseDeadline(c)} ELSE {PhaseDeadline(c)}

\* What the request returns or throws (abort_error, timeout_phase).
Outcomes(c, cancelled) ==
    LET reason == Reason(c, cancelled) IN
    CASE reason = "stopped" -> {"stopped"}
      [] reason = "cancelled" -> {"499"}
      [] reason \in Timeouts -> {reason}
      [] reason \in {"too large", "headers too large"} -> {"502"}
      [] reason = "budget" -> {"503"}
      [] reason = "allocation" -> {"500"}
      [] reason = "exception" -> {"500", "503"}
      [] reason = "none" /\ c.transfer = "timeout" -> CurlTimeout(c)
      [] reason = "none" /\ c.transfer = "failed" -> {"502"}
      [] reason = "none" /\ c.transfer = "ok" /\ c.part # "body" -> {"502"}
      [] OTHER -> {"complete", "502"}

\* Options and curl_multi_add_handle; what fails gives the handle back.
Setup(r) ==
    /\ At(r, "setup")
    /\ \/ curl' = [curl EXCEPT ![r].at = "perform"] /\ UNCHANGED poolVars
       \/ \E e \in {"500", "503"} : Release([curl EXCEPT ![r] = Ended(@, e)])
    /\ UNCHANGED <<gone, limited>>

\* remove_handle, and the result.
Finish(r) ==
    /\ At(r, "finish")
    /\ \E o \in Outcomes(curl[r], r \in gone) : Release([curl EXCEPT ![r] = Ended(@, o)])
    /\ UNCHANGED <<gone, limited>>

FinishFails(r) ==
    /\ At(r, "finish")
    /\ Discard([curl EXCEPT ![r] = Ended(@, "502")])
    /\ UNCHANGED <<gone, limited>>

\* curl_multi_poll or curl_multi_perform fails.
PerformFails(r) ==
    /\ At(r, "perform")
    /\ \/ Release([curl EXCEPT ![r] = Ended(@, "502")])
       \/ Discard([curl EXCEPT ![r] = Ended(@, "502")])
    /\ UNCHANGED <<gone, limited>>

\* The client of a request leaves.
ClientCancels(r) ==
    /\ r \notin gone /\ ~At(r, "done")
    /\ gone' = gone \cup {r}
    /\ UNCHANGED <<poolVars, limited, curl>>

-----------------------------------------------------------------------------
CurlInit ==
    /\ created = 0 /\ available = 0 /\ poisoned = FALSE
    /\ gone = {} /\ limited \in BOOLEAN
    /\ curl = [r \in Requests |-> Context]

Thread(r) ==
    Begin(r) \/ Acquire(r) \/ Setup(r) \/ PerformReturns(r) \/ Poll(r) \/ Finish(r)

CurlNext ==
    \E r \in Requests :
        \/ Thread(r) \/ DeadlineAborts(r) \/ FinishFails(r) \/ PerformFails(r)
        \/ ProgressCallback(r) \/ SocketCallback(r) \/ HeaderCallback(r)
        \/ BodyCallback(r) \/ TransferEnds(r) \/ ClientCancels(r)

\* The threads run.  A phase that lasts is ended by its deadline, which is
\* checked again and again; upstream and the client promise nothing.
CurlFairness ==
    \A r \in Requests : WF_curlVars(Thread(r)) /\ SF_curlVars(DeadlineAborts(r))

-----------------------------------------------------------------------------
\* What forward_streaming reports is true: a complete response has all of
\* its header and every piece upstream sent, libcurl saw its end, no
\* callback refused and no cancellation was seen; a cancellation happened; a
\* timeout is that of the phase the request was in (deadline_abort, the
\* checks after the loop).
CurlOutcomeTrue(r) ==
    LET c == curl[r]
        o == curl'[r].outcome IN
    o # c.outcome =>
        /\ o = "complete" =>
              /\ c.part = "body" /\ c.transfer = "ok" /\ c.abort = "none"
              /\ c.streaming \/ c.body = c.pieces
        /\ o = "stopped" => c.streaming
        /\ o = "499" => r \in gone
        /\ o \in Timeouts \ {"total"} => o = PhaseDeadline(c)

CurlOutcomeTruthful == [][\A r \in Requests : CurlOutcomeTrue(r)]_curlVars

\* The lease of a response is what it holds, the lines of its header and the
\* body it buffers, and nothing once the request has failed
\* (reset_response_accounting, reserve_response_header_bytes).
CurlLeaseExact ==
    \A r \in Requests : curl[r].lease = curl[r].header + curl[r].body

\* Every request ends, the one that waits for a handle too, whatever
\* upstream does (the loop around curl_multi_poll, release, discard).
CurlRequestsEnd == <>(\A r \in Requests : At(r, "done"))
=============================================================================
