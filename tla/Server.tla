------------------------------- MODULE Server -------------------------------
(***************************************************************************)
(* Server::run: one acceptor, a FIFO queue and a growing pool of workers,  *)
(* the registry of client sockets that a stop closes, the monitor that     *)
(* turns a client's disconnect into the cancellation of its request, and   *)
(* the process-wide memory budget, from the opened listener to the return  *)
(* of run().                                                               *)
(*                                                                         *)
(* Sockets are descriptor numbers that the system hands out again as soon  *)
(* as they are closed: queue, registry, monitor and workers keep numbers,  *)
(* owner is the descriptor table they index.                               *)
(*                                                                         *)
(* Left out: what routes, rules and protocols compute (a request is        *)
(* answered locally or forwarded), bytes after the one request of a        *)
(* connection, logging and counters.  Upstream answers when it likes.      *)
(***************************************************************************)
EXTENDS Naturals, Sequences, FiniteSets, FiniteSetsExt, Sums

CONSTANTS
    Conn,         \* client connections
    Handle,       \* descriptor numbers
    WorkerLimit,  \* runtime.worker_threads
    Prewarm,      \* workers created before the first connection (8 in the code)
    Limits,       \* values of runtime.max_connections a reload may publish
    Capacity,     \* runtime.max_inflight_bytes, in buffers
    None,         \* no descriptor, no job, no copy of the entries
    Other,        \* a descriptor of another part of the process
    MaxReloads,   \* bound: reloads
    MaxOther      \* bound: descriptors opened by other parts of the process

ASSUME ServerAssumption ==
    /\ WorkerLimit \in Nat \ {0} /\ Prewarm \in 1 .. WorkerLimit
    /\ Limits \subseteq Nat \ {0} /\ Limits # {}
    /\ Capacity \in Nat /\ MaxReloads \in Nat /\ MaxOther \in Nat
    /\ None \notin Conn /\ Other \notin Conn /\ None # Other

Worker == 1 .. WorkerLimit
Job == [conn : Conn, handle : Handle]

VARIABLES
    \* the system
    owner,      \* descriptor table: a connection, Other or None
    peer,       \* the client's end: "new", "open" or "gone"
    \* the acceptor
    apc,        \* its next step
    hand,       \* the socket it has accepted, or None
    backlog,    \* connections the listener has not accepted yet
    \* under queue_mutex
    queue,      \* client_queue
    open,       \* open_connections
    active,     \* active_worker_count
    accepting,  \* ~accepting_done
    \* the workers
    wpc,        \* next step of each worker, "none" before it is created
    job,        \* its ClientJob
    \* ClientConnectionRegistry
    registry, closing,
    \* ClientCancellationMonitor
    entries,    \* entries_: sockets and the cancellation sources they belong to
    polled,     \* the copy the monitor polls, or None
    left,       \* those of it that poll found disconnected, or None
    cancelled,  \* connections whose cancellation source was cancelled
    \* InflightMemoryBudget
    lease, inflight,
    \* the generation, stopping and run()
    maxConn,    \* runtime.max_connections of the current generation
    stop,       \* stop_requested_ or the shutdown signal
    shutting,   \* request_stop is about to close the clients
    rpc,        \* run(): "serve", "close", "flag", "join" or "returned"
    \* bounds and history
    reloads, others,
    asked       \* somebody asked the server to stop

sys      == <<owner, peer>>
acceptor == <<apc, hand, backlog>>
pool     == <<queue, open, active, accepting>>
work     == <<wpc, job>>
clients  == <<registry, closing>>
monitor  == <<entries, polled, left, cancelled>>
memory   == <<lease, inflight>>
control  == <<maxConn, stop, shutting, rpc, reloads, others, asked>>
vars == <<sys, acceptor, pool, work, clients, monitor, memory, control>>

Busy == {"read", "recv", "parse", "process", "forward", "deliver", "reply",
         "close", "account"}
Serving(w) == wpc[w] \in Busy
Workers == {w \in Worker : wpc[w] # "none"}

\* A worker is handling c.
InService(c) == \E w \in Worker : Serving(w) /\ job[w].conn = c

-----------------------------------------------------------------------------
(* The memory budget *)

Fits(n) == inflight + n <= Capacity

\* Lease::try_grow of n buffers succeeds.
Grow(c, n) ==
    /\ Fits(n)
    /\ lease' = [lease EXCEPT ![c] = @ + n] /\ inflight' = inflight + n

Shrink(c, n) ==
    lease' = [lease EXCEPT ![c] = @ - n] /\ inflight' = inflight - n

\* The leases of a request are destroyed.
Release(c) == Shrink(c, lease[c])

-----------------------------------------------------------------------------
(* Clients and the rest of the process *)

Connect(c) ==
    /\ rpc = "serve" /\ peer[c] = "new"
    /\ peer' = [peer EXCEPT ![c] = "open"] /\ backlog' = backlog \cup {c}
    /\ UNCHANGED <<owner, apc, hand, pool, work, clients, monitor, memory, control>>

Disconnect(c) ==
    /\ peer[c] = "open"
    /\ peer' = [peer EXCEPT ![c] = "gone"]
    /\ UNCHANGED <<owner, acceptor, pool, work, clients, monitor, memory, control>>

OtherOpens(h) ==
    /\ owner[h] = None /\ others < MaxOther
    /\ owner' = [owner EXCEPT ![h] = Other] /\ others' = others + 1
    /\ UNCHANGED <<peer, acceptor, pool, work, clients, monitor, memory>>
    /\ UNCHANGED <<maxConn, stop, shutting, rpc, reloads, asked>>

OtherCloses(h) ==
    /\ owner[h] = Other
    /\ owner' = [owner EXCEPT ![h] = None]
    /\ UNCHANGED <<peer, acceptor, pool, work, clients, monitor, memory, control>>

-----------------------------------------------------------------------------
(* accept_loop *)

Accepting(l) == apc' = l /\ UNCHANGED <<pool, work, clients, monitor, memory>>

AcceptLoop ==
    /\ apc = "accept"
    /\ Accepting(IF stop THEN "exit" ELSE "listen")
    /\ UNCHANGED <<sys, hand, backlog, control>>

\* LocalListener::accept waits 100 ms at most.
AcceptTimeout ==
    /\ apc = "listen"
    /\ Accepting("accept")
    /\ UNCHANGED <<sys, hand, backlog, control>>

Accept(c, h) ==
    /\ apc = "listen" /\ c \in backlog /\ owner[h] = None
    /\ owner' = [owner EXCEPT ![h] = c] /\ peer' = peer
    /\ hand' = [conn |-> c, handle |-> h] /\ backlog' = backlog \ {c}
    /\ Accepting("admit")
    /\ UNCHANGED control

\* accept() reports that the client is gone, or that no descriptor is left:
\* Failed, and the server stops.
AcceptFails(c) ==
    /\ apc = "listen" /\ c \in backlog
    /\ peer[c] = "gone" \/ \A h \in Handle : owner[h] # None
    /\ backlog' = backlog \ {c} /\ hand' = hand
    /\ Accepting("exit") /\ stop' = TRUE
    /\ UNCHANGED <<sys, maxConn, shutting, rpc, reloads, others, asked>>

\* The worker threads grow_workers creates to have n of them.
Grown(n) ==
    [w \in Worker |-> IF w <= n /\ wpc[w] = "none" THEN "check" ELSE wpc[w]]

Enough == {WorkerLimit, active + Len(queue) + 1}

\* (mutant) The accepted connection is queued without a notification.
AdmitSilently ==
    /\ apc = "admit" /\ open < maxConn /\ ~closing
    /\ registry' = registry \cup {hand.handle} /\ closing' = closing
    /\ queue' = Append(queue, hand) /\ open' = open + 1
    /\ wpc' = Grown(Min(Enough))
    /\ apc' = "accept" /\ hand' = None
    /\ UNCHANGED <<sys, backlog, active, accepting, job, monitor, memory, control>>

\* Below max_connections: registered, queued and given a worker if there is
\* none to spare.  Creating a thread may fail, with some of them created.
Admit ==
    /\ apc = "admit" /\ open < maxConn /\ ~closing
    /\ registry' = registry \cup {hand.handle} /\ closing' = closing
    /\ queue' = Append(queue, hand) /\ open' = open + 1
    /\ \E n \in 0 .. Min(Enough) : wpc' = Grown(n)
    /\ apc' = "notify" /\ hand' = None
    /\ UNCHANGED <<sys, backlog, active, accepting, job, monitor, memory, control>>

\* (mutant) A socket the registry refuses is not closed.
AdmitStoppedLeak ==
    /\ apc = "admit" /\ open < maxConn /\ closing
    /\ hand' = None
    /\ Accepting("exit")
    /\ UNCHANGED <<sys, backlog, control>>

\* The registry is closing: the socket is closed and the loop ends.
AdmitStopped ==
    /\ apc = "admit" /\ open < maxConn /\ closing
    /\ owner' = [owner EXCEPT ![hand.handle] = None] /\ peer' = peer
    /\ hand' = None
    /\ Accepting("exit")
    /\ UNCHANGED <<backlog, control>>

\* No memory to register or queue it: the socket is closed, the server stops.
AdmitFails ==
    /\ apc = "admit" /\ open < maxConn /\ ~closing
    /\ owner' = [owner EXCEPT ![hand.handle] = None] /\ peer' = peer
    /\ hand' = None /\ stop' = TRUE
    /\ Accepting("exit")
    /\ UNCHANGED <<backlog, maxConn, shutting, rpc, reloads, others, asked>>

\* reject_overloaded_client: 503 and the end of sending; the socket is in no
\* registry.
Reject ==
    /\ apc = "admit" /\ open >= maxConn
    /\ Accepting("drain")
    /\ UNCHANGED <<sys, hand, backlog, control>>

\* The loop of shutdown_send_and_drain is left and the socket closed.
Drained ==
    /\ owner' = [owner EXCEPT ![hand.handle] = None] /\ peer' = peer
    /\ hand' = None
    /\ Accepting("accept")
    /\ UNCHANGED <<backlog, control>>

\* The client has left.
DrainEnds == apc = "drain" /\ peer[hand.conn] = "gone" /\ Drained

\* It has sent nothing for 250 ms.  Bytes that arrive before are read and
\* dropped, and the time begins again.
DrainSilent == apc = "drain" /\ peer[hand.conn] = "open" /\ Drained

Waiting == {w \in Worker : wpc[w] = "wait"}

\* queue_cv.notify_one, after queue_mutex is released.
NotifyOne ==
    /\ apc = "notify"
    /\ apc' = "accept"
    /\ \/ Waiting = {} /\ wpc' = wpc
       \/ \E w \in Waiting : wpc' = [wpc EXCEPT ![w] = "check"]
    /\ UNCHANGED <<sys, hand, backlog, pool, job, clients, monitor, memory, control>>

-----------------------------------------------------------------------------
(* worker_loop and handle_client *)

Goto(w, l) == wpc' = [wpc EXCEPT ![w] = l] /\ job' = job

\* Wait for the predicate under queue_mutex, then take the oldest job.
TakeJob(w) ==
    /\ wpc[w] = "check"
    /\ \/ /\ queue # <<>>
          /\ wpc' = [wpc EXCEPT ![w] = "read"]
          /\ job' = [job EXCEPT ![w] = Head(queue)]
          /\ queue' = Tail(queue) /\ active' = active + 1
       \/ /\ queue = <<>>
          /\ Goto(w, IF accepting THEN "wait" ELSE "exit")
          /\ UNCHANGED <<queue, active>>
    /\ UNCHANGED <<sys, acceptor, open, accepting, clients, monitor, memory, control>>

\* recv_with_stop: stopping() before every receive.
ReadMore(w) ==
    /\ wpc[w] = "read"
    /\ IF stop THEN Goto(w, "close") /\ Release(job[w].conn)
               ELSE Goto(w, "recv") /\ UNCHANGED memory
    /\ UNCHANGED <<sys, acceptor, pool, clients, monitor, control>>

\* Bytes arrive: they are leased and appended to the receive buffer, which
\* then holds a whole request or not; without memory the request is refused.
BytesArrive(w) ==
    LET c == job[w].conn IN
    /\ wpc[w] = "recv" /\ owner[job[w].handle] = c /\ peer[c] = "open"
    /\ \/ Grow(c, 1) /\ (Goto(w, "read") \/ Goto(w, "parse"))
       \/ ~Fits(1) /\ Release(c) /\ Goto(w, "reply")
    /\ UNCHANGED <<sys, acceptor, pool, clients, monitor, control>>

\* The client has left, or close_all has shut the socket down; half a request
\* is an error that is answered, unless the server stops.
ReadEnds(w) ==
    LET c == job[w].conn IN
    /\ wpc[w] = "recv"
    /\ owner[job[w].handle] # c \/ peer[c] = "gone"
    /\ Release(c)
    /\ Goto(w, IF stop \/ lease[c] = 0 THEN "close" ELSE "reply")
    /\ UNCHANGED <<sys, acceptor, pool, clients, monitor, control>>

Watch(w) == [handle |-> job[w].handle, conn |-> job[w].conn]

\* The request gets buffers of its own and the receive buffer is given back;
\* its socket is watched from here on.
Parse(w) ==
    LET c == job[w].conn IN
    /\ wpc[w] = "parse" /\ Fits(1)
    /\ lease' = [lease EXCEPT ![c] = 1] /\ inflight' = inflight + 1 - lease[c]
    /\ Goto(w, "process") /\ entries' = entries \cup {Watch(w)}
    /\ UNCHANGED <<sys, acceptor, pool, clients, polled, left, cancelled, control>>

\* Malformed or too large, or no memory for it: an error response.
ParseFails(w) ==
    /\ wpc[w] = "parse"
    /\ Release(job[w].conn) /\ Goto(w, "reply")
    /\ UNCHANGED <<sys, acceptor, pool, clients, monitor, control>>

\* The rule pipeline leaves the body alone, or rewrites it under a lease of its
\* own and the original is given back; without memory for that, or on an error
\* of route or pipeline, the request is answered locally.
Process(w) ==
    /\ wpc[w] = "process"
    /\ Goto(w, "forward") \/ Goto(w, "reply")
    /\ UNCHANGED <<sys, acceptor, pool, clients, monitor, memory, control>>

\* A piece of the response, head or chunk, is leased for the time of its sending.
UpstreamChunk(w) ==
    LET c == job[w].conn IN
    /\ wpc[w] = "forward" /\ c \notin cancelled
    /\ \/ Grow(c, 1) /\ Goto(w, "deliver")
       \/ ~Fits(1) /\ Goto(w, "reply") /\ UNCHANGED memory
    /\ UNCHANGED <<sys, acceptor, pool, clients, monitor, control>>

\* send_all reaches whatever the descriptor is now; if nobody is there the
\* request is cancelled.
Deliver(w) ==
    LET c == job[w].conn
        o == owner[job[w].handle]
    IN
    /\ wpc[w] = "deliver"
    /\ cancelled' = IF o = None \/ (o \in Conn /\ peer[o] = "gone")
                    THEN cancelled \cup {c} ELSE cancelled
    /\ Shrink(c, 1) /\ Goto(w, "forward")
    /\ UNCHANGED <<sys, acceptor, pool, clients, entries, polled, left, control>>

\* The request is over: upstream is done, or the cancellation ended it.  Its
\* buffers are given back and its socket is no longer watched.
Finish(w) ==
    /\ Release(job[w].conn) /\ Goto(w, "close")
    /\ entries' = entries \ {Watch(w)}
    /\ UNCHANGED <<sys, acceptor, pool, clients, polled, left, cancelled, control>>

UpstreamEnds(w) ==
    wpc[w] = "forward" /\ job[w].conn \notin cancelled /\ Finish(w)

Cancelled(w) == wpc[w] = "forward" /\ job[w].conn \in cancelled /\ Finish(w)

\* An error response is sent, to whoever the descriptor belongs to.
Reply(w) == wpc[w] = "reply" /\ Finish(w)

\* (mutant) close_registered closes the descriptor without asking the registry.
CloseUnasked(w) ==
    LET h == job[w].handle IN
    /\ wpc[w] = "close"
    /\ registry' = registry \ {h} /\ closing' = closing
    /\ owner' = [owner EXCEPT ![h] = None] /\ peer' = peer
    /\ Goto(w, "account")
    /\ UNCHANGED <<acceptor, pool, monitor, memory, control>>

\* close_registered: the socket is closed if it is still in the registry.
CloseRegistered(w) ==
    LET h == job[w].handle IN
    /\ wpc[w] = "close"
    /\ registry' = registry \ {h} /\ closing' = closing
    /\ owner' = IF h \in registry THEN [owner EXCEPT ![h] = None] ELSE owner
    /\ peer' = peer
    /\ Goto(w, "account")
    /\ UNCHANGED <<acceptor, pool, monitor, memory, control>>

\* (mutant) A finished connection still counts as open.
AccountActiveOnly(w) ==
    /\ wpc[w] = "account"
    /\ active' = active - 1
    /\ wpc' = [wpc EXCEPT ![w] = "check"] /\ job' = [job EXCEPT ![w] = None]
    /\ UNCHANGED <<sys, acceptor, queue, open, accepting, clients, monitor, memory>>
    /\ UNCHANGED control

Account(w) ==
    /\ wpc[w] = "account"
    /\ active' = active - 1 /\ open' = open - 1
    /\ wpc' = [wpc EXCEPT ![w] = "check"] /\ job' = [job EXCEPT ![w] = None]
    /\ UNCHANGED <<sys, acceptor, queue, accepting, clients, monitor, memory, control>>

-----------------------------------------------------------------------------
(* ClientCancellationMonitor::run *)

CopyEntries ==
    /\ polled = None /\ left = None /\ rpc # "returned" /\ entries # {}
    /\ polled' = entries
    /\ UNCHANGED <<sys, acceptor, pool, work, clients, entries, left, cancelled>>
    /\ UNCHANGED <<memory, control>>

\* (mutant) Only a closed number counts as disconnected.
DisconnectedIfClosed(h) == {owner[h] = None}

\* poll_disconnected: a closed number, or one whose peer has left.  Another
\* file may look either way.
Disconnected(h) ==
    CASE owner[h] = None  -> {TRUE}
      [] owner[h] = Other -> BOOLEAN
      [] OTHER            -> {peer[owner[h]] = "gone"}

\* The answer of poll_disconnected for the copied numbers, which may belong to
\* somebody else by now.
Poll ==
    /\ polled # None
    /\ \E gone \in {D \in SUBSET polled :
                       \A e \in polled : (e \in D) \in Disconnected(e.handle)} :
          left' = IF gone = {} THEN None ELSE gone
    /\ polled' = None
    /\ UNCHANGED <<sys, acceptor, pool, work, clients, entries, cancelled>>
    /\ UNCHANGED <<memory, control>>

\* (mutant) The monitor cancels the request that has the number now.
CancelByNumber ==
    /\ left # None
    /\ cancelled' = cancelled \cup
          {e.conn : e \in {x \in entries : \E g \in left : g.handle = x.handle}}
    /\ left' = None
    /\ UNCHANGED <<sys, acceptor, pool, work, clients, entries, polled, memory, control>>

\* The sources of the copied entries are cancelled.
CancelLeft ==
    /\ left # None
    /\ cancelled' = cancelled \cup {e.conn : e \in left}
    /\ left' = None
    /\ UNCHANGED <<sys, acceptor, pool, work, clients, entries, polled, memory, control>>

-----------------------------------------------------------------------------
(* reload, request_stop and the end of run() *)

\* A new generation; only its connection limit matters here.
Reload(n) ==
    /\ reloads < MaxReloads /\ n # maxConn
    /\ maxConn' = n /\ reloads' = reloads + 1
    /\ UNCHANGED <<sys, acceptor, pool, work, clients, monitor, memory>>
    /\ UNCHANGED <<stop, shutting, rpc, others, asked>>

\* request_stop, with the clients still to be closed, or the signal, which
\* leaves that to run().
RequestStop(signal) ==
    /\ ~asked /\ rpc # "returned"
    /\ stop' = TRUE /\ asked' = TRUE /\ shutting' = ~signal
    /\ UNCHANGED <<sys, acceptor, pool, work, clients, monitor, memory>>
    /\ UNCHANGED <<maxConn, rpc, reloads, others>>

CloseAll ==
    /\ closing' = TRUE /\ registry' = {}
    /\ owner' = [h \in Handle |-> IF h \in registry THEN None ELSE owner[h]]
    /\ UNCHANGED <<peer, acceptor, pool, work, monitor, memory>>

ShutdownClients ==
    /\ shutting /\ shutting' = FALSE
    /\ CloseAll
    /\ UNCHANGED <<maxConn, stop, rpc, reloads, others, asked>>

\* The acceptor is joined and the listener closed, with what it had not accepted.
JoinAcceptor ==
    /\ rpc = "serve" /\ apc = "exit"
    /\ rpc' = "close" /\ backlog' = {}
    /\ UNCHANGED <<sys, apc, hand, pool, work, clients, monitor, memory>>
    /\ UNCHANGED <<maxConn, stop, shutting, reloads, others, asked>>

CloseClients ==
    /\ rpc = "close" /\ rpc' = "flag"
    /\ CloseAll
    /\ UNCHANGED <<maxConn, stop, shutting, reloads, others, asked>>

\* (mutant) accepting_done is set and nobody is told.
AcceptingDoneSilently ==
    /\ rpc = "flag" /\ rpc' = "join"
    /\ accepting' = FALSE
    /\ UNCHANGED <<sys, acceptor, queue, open, active, work, clients, monitor, memory>>
    /\ UNCHANGED <<maxConn, stop, shutting, reloads, others, asked>>

\* accepting_done, then notify_all.
AcceptingDone ==
    /\ rpc = "flag" /\ rpc' = "join"
    /\ accepting' = FALSE
    /\ wpc' = [w \in Worker |-> IF wpc[w] = "wait" THEN "check" ELSE wpc[w]]
    /\ UNCHANGED <<sys, acceptor, queue, open, active, job, clients, monitor, memory>>
    /\ UNCHANGED <<maxConn, stop, shutting, reloads, others, asked>>

\* The workers are joined; the monitor goes with the scope of run().
JoinWorkers ==
    /\ rpc = "join" /\ \A w \in Workers : wpc[w] = "exit"
    /\ rpc' = "returned" /\ polled' = None /\ left' = None
    /\ UNCHANGED <<sys, acceptor, pool, work, clients, entries, cancelled, memory>>
    /\ UNCHANGED <<maxConn, stop, shutting, reloads, others, asked>>

-----------------------------------------------------------------------------
Init ==
    /\ owner = [h \in Handle |-> None] /\ peer = [c \in Conn |-> "new"]
    /\ apc = "accept" /\ hand = None /\ backlog = {}
    /\ queue = <<>> /\ open = 0 /\ active = 0 /\ accepting = TRUE
    /\ wpc = [w \in Worker |-> IF w <= Prewarm THEN "check" ELSE "none"]
    /\ job = [w \in Worker |-> None]
    /\ registry = {} /\ closing = FALSE
    /\ entries = {} /\ polled = None /\ left = None /\ cancelled = {}
    /\ lease = [c \in Conn |-> 0] /\ inflight = 0
    /\ maxConn \in Limits /\ stop = FALSE /\ shutting = FALSE /\ rpc = "serve"
    /\ reloads = 0 /\ others = 0 /\ asked = FALSE

\* Steps of the acceptor that wait for no client.
AcceptorStep ==
    \/ AcceptLoop \/ AcceptTimeout \/ Admit \/ AdmitStopped \/ AdmitFails
    \/ Reject \/ DrainEnds \/ NotifyOne

\* Steps a worker takes by itself: it waits neither for the client's request
\* nor for the upstream answer.
WorkerStep(w) ==
    \/ TakeJob(w) \/ ReadMore(w) \/ ReadEnds(w) \/ Parse(w) \/ ParseFails(w)
    \/ Process(w) \/ Deliver(w) \/ Cancelled(w) \/ Reply(w)
    \/ CloseRegistered(w) \/ Account(w)

MonitorStep == CopyEntries \/ Poll \/ CancelLeft

StopStep ==
    ShutdownClients \/ JoinAcceptor \/ CloseClients \/ AcceptingDone \/ JoinWorkers

Next ==
    \/ \E c \in Conn : Connect(c) \/ Disconnect(c) \/ AcceptFails(c)
    \/ \E h \in Handle : OtherOpens(h) \/ OtherCloses(h)
    \/ \E c \in Conn, h \in Handle : Accept(c, h)
    \/ AcceptorStep \/ DrainSilent
    \/ \E w \in Worker : WorkerStep(w)
    \/ \E w \in Worker : BytesArrive(w) \/ UpstreamChunk(w) \/ UpstreamEnds(w)
    \/ MonitorStep
    \/ \E n \in Limits : Reload(n)
    \/ \E signal \in BOOLEAN : RequestStop(signal)
    \/ StopStep

Spec == Init /\ [][Next]_vars

(***************************************************************************)
(* Every thread runs on, and other parts of the process close what they    *)
(* open.  Nobody has to connect, to send a request, to answer one or, when *)
(* rejected, to fall silent.                                               *)
(***************************************************************************)
Fairness ==
    /\ WF_vars(AcceptorStep)
    /\ \A w \in Worker : WF_vars(WorkerStep(w))
    /\ WF_vars(MonitorStep) /\ WF_vars(StopStep)
    /\ \A h \in Handle : WF_vars(OtherCloses(h))

FairSpec == Spec /\ Fairness

-----------------------------------------------------------------------------
(* Properties *)

Step ==
    Busy \cup {"none", "check", "wait", "exit"}

\* Every variable has its declared shape.
TypeOK ==
    /\ owner \in [Handle -> Conn \cup {Other, None}]
    /\ peer \in [Conn -> {"new", "open", "gone"}]
    /\ apc \in {"accept", "listen", "admit", "drain", "notify", "exit"}
    /\ hand \in Job \cup {None} /\ backlog \subseteq Conn
    /\ queue \in Seq(Job) /\ open \in Nat /\ active \in Nat /\ accepting \in BOOLEAN
    /\ wpc \in [Worker -> Step] /\ job \in [Worker -> Job \cup {None}]
    /\ registry \subseteq Handle /\ closing \in BOOLEAN
    /\ entries \subseteq Job
    /\ polled \in (SUBSET Job) \cup {None} /\ left \in (SUBSET Job) \cup {None}
    /\ cancelled \subseteq Conn
    /\ lease \in [Conn -> Nat] /\ inflight \in Nat
    /\ maxConn \in Limits /\ stop \in BOOLEAN /\ shutting \in BOOLEAN
    /\ rpc \in {"serve", "close", "flag", "join", "returned"}
    /\ reloads \in Nat /\ others \in Nat /\ asked \in BOOLEAN

Pending == {queue[i] : i \in 1 .. Len(queue)}
Held == Pending \cup {job[w] : w \in {v \in Worker : Serving(v)}}

\* HandlesOwned: until a stop closes the clients, every descriptor number that the queue or
\* a worker about to use it holds still is the socket of that connection: no
\* response and no read goes to a reused number.
HandlesOwned ==
    ~closing =>
        /\ \A j \in Pending : owner[j.handle] = j.conn
        /\ \A w \in Worker : Serving(w) /\ wpc[w] # "account" =>
              owner[job[w].handle] = job[w].conn

\* Stopping and closing never hit a reused number: a descriptor of another
\* part of the process is closed by that part only, and a worker closes no
\* socket but its own.
ClosesOwnOnly ==
    [][\A h \in Handle :
          /\ owner[h] = Other /\ owner'[h] # Other => UNCHANGED <<wpc, registry, rpc>>
          /\ \A w \in Worker :
                wpc[w] = "close" /\ wpc'[w] # "close" /\ owner'[h] # owner[h] =>
                    owner[h] = job[w].conn]_vars

\* A disconnect cancels only the request of the client that left: as long as
\* the clients are not being closed, no request in progress is cancelled whose
\* own client is still there, however stale the copy the monitor polls.
CancelsOwnOnly ==
    [][\A e \in entries :
          e.conn \in cancelled' \ cancelled => closing \/ peer[e.conn] = "gone"]_vars

\* What the request of each worker leases.
Leases == [w \in Worker |-> IF Serving(w) THEN lease[job[w].conn] ELSE 0]

\* The budget counts what is leased, never more than its capacity; a
\* connection leases nothing unless a worker serves it, and then only one.
MemoryAccounted ==
    /\ inflight = SumTo(Leases, WorkerLimit)
    /\ inflight <= Capacity
    /\ \A c \in Conn : lease[c] > 0 => InService(c)
    /\ \A v, w \in Worker : Serving(v) /\ Serving(w) /\ v # w => job[v].conn # job[w].conn

\* No wake-up is lost: workers sleep only if every queued connection has a
\* worker on its way to the queue or a notification about to be sent.
NoLostWakeup ==
    Waiting # {} =>
        Len(queue) <= Cardinality({w \in Worker : wpc[w] = "check"})
                        + (IF apc = "notify" THEN 1 ELSE 0)

\* The counters agree with the queue and the workers, so connections beyond
\* the limit are refused and none below it is.
PoolAccounted ==
    /\ active = Cardinality({w \in Worker : Serving(w)})
    /\ open = Len(queue) + active
    /\ Cardinality(Held) = open

\* Descriptors, memory budget, connection counters and the queue stay owned and
\* counted, whatever clients, reloads and a stop do: a response goes to its own
\* client only, no leased byte is lost or counted twice, and exactly the
\* connections beyond the limit are refused (ClientSocketRegistry, Lease,
\* the counters of accept_loop and worker_loop).
ResourcesAccounted == TypeOK /\ HandlesOwned /\ MemoryAccounted /\ PoolAccounted

\* When run() returns nothing is left: no connection is queued, no client
\* socket is open, no memory is leased and no socket is watched.
CleanReturn ==
    rpc = "returned" =>
        /\ queue = <<>> /\ open = 0 /\ inflight = 0 /\ entries = {}
        /\ \A h \in Handle : owner[h] \notin Conn

\* A rejected client that is still sending holds the acceptor.
HeldByClient == apc = "drain" /\ peer[hand.conn] = "open"

\* A stop ends run(), whatever upstream and the accepted clients do: half-read
\* requests and requests waiting for upstream are ended by closing the sockets.
\* The one exception is a rejected client that sends for ever, never silent for
\* 250 ms: its socket is in no registry, and shutdown_send_and_drain holds the
\* acceptor that run() joins.  A number closed by the stop and reused by another
\* part of the process is assumed to be given back.
StopCompletes == (stop ~> (rpc = "returned")) \/ <>[]HeldByClient

\* A client that leaves frees its worker even if upstream never answers, provided
\* it sent nothing after its request: poll_disconnected peeks at one byte, and a
\* client that closed with unread bytes does not look disconnected to it.  The
\* exception is as above: once a stop has closed the sockets, the number that the
\* monitor polls may be that of the rejected client.
DisconnectReleases ==
    \/ \A c \in Conn : (peer[c] = "gone" /\ InService(c)) ~> ~InService(c)
    \/ <>[]HeldByClient

(***************************************************************************)
(* Claims of the repository's documents that the code does not keep.       *)
(***************************************************************************)

\* README.md: client disconnects cancel only the corresponding upstream
\* request.  A client that leaves before it is accepted can make accept()
\* fail, and a failed accept() stops the server.
DisconnectsStayLocal ==
    [][\A c \in backlog \ backlog' :
          peer[c] = "gone" /\ (\E h \in Handle : owner[h] = None) => stop' = stop]_vars

\* docs/Design.md: accepted sockets are in the registry, and a stop closes them
\* to wake whoever reads from them.  That of a rejected client is not, and run()
\* waits until that client falls silent.
StopAlwaysCompletes == stop ~> (rpc = "returned")
=============================================================================
