---------------------------- MODULE MCTransport ----------------------------
(***************************************************************************)
(* The upstream transports: a process has the one of its platform, on      *)
(* Windows with the watcher of the system proxy.  One of the machines runs *)
(* in each behaviour, the others have ended.                               *)
(***************************************************************************)
EXTENDS WinHttpTransport, SystemProxyWatcher, CurlTransport

WinIdle ==
    /\ rpc = "done" /\ outcome = "idle" /\ stream = FALSE
    /\ asked = 0 /\ body = 0 /\ lease = 0
    /\ handle = "none" /\ closers = {} /\ timer = [d \in Deadline |-> "off"]
    /\ token = "called" /\ registered = FALSE /\ sent = 0 /\ upstream = "ended"

ProxyIdle ==
    /\ settings = MaxChanges /\ armed = FALSE /\ signalled = FALSE
    /\ watcher = "exited" /\ latest = 0 /\ missed = FALSE
    /\ published = [session |-> 0, error |-> FALSE]

CurlIdle ==
    /\ created = 0 /\ available = 0 /\ poisoned = FALSE /\ gone = {} /\ limited = FALSE
    /\ curl = [r \in Requests |-> Ended(Context, "idle")]

TransportInit ==
    \/ WinInit /\ ProxyIdle /\ CurlIdle
    \/ WinIdle /\ ProxyInit /\ CurlIdle
    \/ WinIdle /\ ProxyIdle /\ CurlInit

TransportNext ==
    \/ WinNext /\ UNCHANGED <<proxyVars, curlVars>>
    \/ ProxyNext /\ UNCHANGED <<winVars, curlVars>>
    \/ CurlNext /\ UNCHANGED <<winVars, proxyVars>>

transportVars == <<winVars, proxyVars, curlVars>>

TransportSpec ==
    /\ TransportInit /\ [][TransportNext]_transportVars
    /\ WinFairness /\ ProxyFairness /\ CurlFairness

\* What forward_streaming reports to its caller is true on both platforms,
\* however the answer of upstream, deadlines and cancellation race.
OutcomeTruthful == []WinOutcomeTruthful /\ CurlOutcomeTruthful

\* Both lease exactly the memory a response holds (read_body on Windows, the
\* callbacks of libcurl on macOS).
LeaseExact == WinLeaseExact /\ CurlLeaseExact

\* A request ends on both platforms although upstream keeps silent, the pool
\* of handles is used up and clients cancel (DeadlineTimer, deadline_abort).
RequestsEnd == WinRequestEnds /\ CurlRequestsEnd
=============================================================================
