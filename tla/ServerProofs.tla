---------------------------- MODULE ServerProofs ----------------------------
(***************************************************************************)
(* The invariants of Server, for every number of connections, descriptors  *)
(* and workers and every budget: descriptors belong to the connections     *)
(* that hold them, the memory budget and the connection counters are exact,*)
(* no wake-up is lost, and run() returns with nothing left behind.         *)
(***************************************************************************)
EXTENDS Server, SumsProofs, FiniteSetTheorems

\* A worker that may still use its socket.
Using(w) == Serving(w) /\ wpc[w] # "account"
Watching == {"process", "forward", "deliver", "reply"}
Jobs == Pending \cup {job[w] : w \in {v \in Worker : Using(v)}}

\* The acceptor has a socket in its hand.
Holding == apc \in {"admit", "drain"}

\* The acceptor, the workers and run() in step with each other.
Phases ==
    /\ Holding => hand \in Job
    /\ rpc # "serve" => apc = "exit"
    /\ rpc \in {"flag", "join", "returned"} => closing
    /\ accepting <=> rpc \notin {"join", "returned"}
    /\ wpc[1] # "none"
    /\ \A w \in Worker : Serving(w) => job[w] \in Job
    /\ \A w \in Worker : wpc[w] = "exit" => queue = <<>> /\ ~accepting
    /\ rpc = "returned" => \A w \in Worker : wpc[w] \in {"none", "exit"}

\* A connection is in one place: not yet connected, in the backlog, in the
\* hand of the acceptor, in the queue or with one worker.
Waits(c) == peer[c] = "new" \/ c \in backlog
InHand(c) == Holding /\ hand.conn = c

Places ==
    /\ \A c \in backlog : peer[c] # "new"
    /\ Holding => ~Waits(hand.conn)
    /\ \A i \in 1 .. Len(queue) : ~Waits(queue[i].conn) /\ ~InHand(queue[i].conn)
    /\ \A i, j \in 1 .. Len(queue) : i # j => queue[i].conn # queue[j].conn
    /\ \A w \in Worker : Serving(w) =>
         /\ ~Waits(job[w].conn) /\ ~InHand(job[w].conn)
         /\ \A i \in 1 .. Len(queue) : queue[i].conn # job[w].conn
         /\ \A v \in Worker : Serving(v) /\ v # w => job[v].conn # job[w].conn

\* Client sockets are registered or in the acceptor's hand, and the registry
\* holds numbers of connections that are still served only.
Descriptors ==
    /\ HandlesOwned
    /\ Holding => owner[hand.handle] = hand.conn
    /\ closing => registry = {}
    /\ \A h \in registry : \E j \in Jobs : j.handle = h
    /\ \A h \in Handle : owner[h] \in Conn =>
         h \in registry \/ (Holding /\ hand.handle = h)

Memory ==
    /\ inflight = SumTo(Leases, WorkerLimit) /\ inflight <= Capacity
    /\ \A c \in Conn : lease[c] > 0 => InService(c)
    /\ \A w \in Worker : wpc[w] \in {"close", "account"} => lease[job[w].conn] = 0
    /\ \A w \in Worker : wpc[w] = "deliver" => lease[job[w].conn] > 0

\* What was watched belongs to a request that was parsed, and stays its.
Known(j) ==
    /\ ~Waits(j.conn) /\ ~InHand(j.conn)
    /\ \A i \in 1 .. Len(queue) : queue[i].conn # j.conn
    /\ \A w \in Worker : Serving(w) /\ job[w].conn = j.conn =>
         job[w] = j /\ wpc[w] \notin {"read", "recv", "parse"}

Watched ==
    /\ \A e \in entries : \E w \in Worker : wpc[w] \in Watching /\ job[w] = e
    /\ \A e \in entries : Known(e)
    /\ polled # None => \A e \in polled : Known(e)
    /\ left # None => \A e \in left : Known(e)
    /\ left # None => \A g \in left, e \in entries :
         g.conn = e.conn => closing \/ peer[g.conn] = "gone"

Pool == PoolAccounted /\ IsFiniteSet(Held)

ServerInv ==
    /\ TypeOK /\ Phases /\ Places /\ Descriptors /\ Memory
    /\ Pool /\ NoLostWakeup /\ Watched

USE DEF sys, acceptor, pool, work, clients, monitor, memory, control, Holding

-----------------------------------------------------------------------------
(* A part of the invariant whose variables do not change stays *)

LEMMA KeepPhases ==
    Phases /\ UNCHANGED <<apc, hand, rpc, closing, accepting, wpc, job, queue>> => Phases'
BY DEF Phases, Serving, Busy

LEMMA KeepPlaces ==
    Places /\ UNCHANGED <<apc, hand, backlog, peer, queue, wpc, job>> => Places'
BY DEF Places, Waits, InHand, Serving, Busy

LEMMA KeepJobs ==
    UNCHANGED <<queue, wpc, job>> => Jobs' = Jobs /\ Pending' = Pending /\ Held' = Held
BY DEF Jobs, Pending, Held, Using, Serving, Busy

LEMMA KeepDescriptors ==
    Descriptors /\ UNCHANGED <<owner, apc, hand, queue, wpc, job, registry, closing>>
        => Descriptors'
BY KeepJobs DEF Descriptors, HandlesOwned, Serving, Busy

LEMMA KeepMemory ==
    Memory /\ UNCHANGED <<wpc, job, lease, inflight>> => Memory'
<1> SUFFICES ASSUME Memory, UNCHANGED <<wpc, job, lease, inflight>> PROVE Memory'
  OBVIOUS
<1>1. Leases' = Leases
  BY DEF Leases, Serving, Busy
<1>2. \A c \in Conn : InService(c)' = InService(c)
  BY DEF InService, Serving, Busy
<1> QED BY <1>1, <1>2 DEF Memory

LEMMA KeepPool ==
    Pool /\ UNCHANGED <<queue, open, active, wpc, job>> => Pool'
<1> SUFFICES ASSUME Pool, UNCHANGED <<queue, open, active, wpc, job>> PROVE Pool'
  OBVIOUS
<1>1. Held' = Held /\ {w \in Worker : Serving(w)}' = {w \in Worker : Serving(w)}
  BY KeepJobs DEF Serving, Busy
<1> QED BY <1>1 DEF Pool, PoolAccounted

LEMMA KeepNoLostWakeup ==
    NoLostWakeup /\ UNCHANGED <<wpc, queue, apc>> => NoLostWakeup'
BY DEF NoLostWakeup, Waiting

LEMMA KeepWatched ==
    Watched /\ UNCHANGED <<peer, backlog, apc, hand, queue, wpc, job, entries, polled, left,
       closing>>
        => Watched'
BY DEF Watched, Known, Waits, InHand, Serving, Busy

-----------------------------------------------------------------------------
(* Connections and their descriptors *)

\* What is queued or in use is a connection that is nowhere else.
LEMMA JobsPlaced ==
    ASSUME ServerInv
    PROVE  \A j \in Jobs : /\ j \in Job /\ ~Waits(j.conn) /\ ~InHand(j.conn)
                           /\ ~closing => owner[j.handle] = j.conn
<1>1. ASSUME NEW i \in 1 .. Len(queue)
      PROVE  /\ queue[i] \in Job /\ ~Waits(queue[i].conn) /\ ~InHand(queue[i].conn)
             /\ ~closing => owner[queue[i].handle] = queue[i].conn
  <2>1. queue[i] \in Job
    <3>1. queue \in Seq(Job) BY DEF ServerInv, TypeOK
    <3> QED BY <3>1
  <2>2. ~Waits(queue[i].conn) /\ ~InHand(queue[i].conn)
    BY DEF ServerInv, Places
  <2>3. ~closing => owner[queue[i].handle] = queue[i].conn
    BY DEF ServerInv, Descriptors, HandlesOwned, Pending
  <2> QED BY <2>1, <2>2, <2>3
<1>2. ASSUME NEW w \in Worker, Using(w)
      PROVE  /\ job[w] \in Job /\ ~Waits(job[w].conn) /\ ~InHand(job[w].conn)
             /\ ~closing => owner[job[w].handle] = job[w].conn
  BY <1>2 DEF ServerInv, Phases, Places, Descriptors, HandlesOwned, Using
<1> QED BY <1>1, <1>2 DEF Jobs, Pending

LEMMA JobTypes ==
    ASSUME ServerInv
    PROVE  /\ Holding => hand \in Job /\ hand.conn \in Conn /\ hand.handle \in Handle
           /\ \A i \in 1 .. Len(queue) : queue[i] \in Job /\ queue[i].conn \in Conn
           /\ \A w \in Worker : Serving(w) =>
                job[w] \in Job /\ job[w].conn \in Conn /\ job[w].handle \in Handle
<1>1. \A j \in Job : j.conn \in Conn /\ j.handle \in Handle
  BY DEF Job
<1>2. \A i \in 1 .. Len(queue) : queue[i] \in Job
  <2>1. queue \in Seq(Job) BY DEF ServerInv, TypeOK
  <2> QED BY <2>1
<1>3. Holding => hand \in Job
  BY DEF ServerInv, Phases
<1>4. \A w \in Worker : Serving(w) => job[w] \in Job
  BY DEF ServerInv, Phases
<1> QED BY <1>1, <1>2, <1>3, <1>4

\* Registered numbers are client sockets, that of the acceptor is not one.
LEMMA RegistryOwned ==
    ASSUME ServerInv
    PROVE  /\ \A h \in registry : owner[h] \in Conn
           /\ Holding => hand.handle \notin registry
<1>1. ASSUME NEW h \in registry
      PROVE  owner[h] \in Conn /\ (Holding => owner[h] # hand.conn)
  <2>1. ~closing BY DEF ServerInv, Descriptors, TypeOK
  <2>2. PICK j \in Jobs : j.handle = h BY DEF ServerInv, Descriptors
  <2>3. j \in Job /\ ~InHand(j.conn) /\ owner[h] = j.conn BY <2>1, <2>2, JobsPlaced
  <2> QED BY <2>3 DEF Job, InHand
<1>2. Holding => owner[hand.handle] = hand.conn
  BY DEF ServerInv, Descriptors
<1> QED BY <1>1, <1>2

\* A step that moves connections nobody watches.
LEMMA WatchedMoves ==
    ASSUME Watched, entries \subseteq Job, polled \in (SUBSET Job) \cup {None},
           left \in (SUBSET Job) \cup {None},
           UNCHANGED <<queue, wpc, job, entries, polled, left>>, closing => closing',
           \A c \in Conn : peer[c] = "gone" => peer'[c] = "gone",
           \A c \in Conn : ~Waits(c) /\ ~InHand(c) => ~Waits(c)' /\ ~InHand(c)'
    PROVE  Watched'
<1>1. ASSUME NEW j \in Job, Known(j) PROVE Known(j)'
  BY <1>1 DEF Known, Job, Serving
<1>2. \A e \in entries' : \E w \in Worker : wpc'[w] \in Watching /\ job'[w] = e
  BY DEF Watched
<1>3. \A e \in entries' : Known(e)'
  BY <1>1 DEF Watched
<1>4. (polled' # None => \A e \in polled' : Known(e)') /\ (left' # None
      => \A e \in left' : Known(e)')
  <2>1. (polled # None => polled \subseteq Job) /\ (left # None => left \subseteq Job)
    OBVIOUS
  <2>2. (polled # None => \A e \in polled : Known(e)) /\ (left # None => \A e \in left : Known(e))
    BY DEF Watched
  <2>3. polled # None => \A e \in polled : Known(e)'
    BY <1>1, <2>1, <2>2
  <2>4. left # None => \A e \in left : Known(e)'
    BY <1>1, <2>1, <2>2
  <2> QED BY <2>3, <2>4
<1>5. left' # None => \A g \in left', e \in entries' :
        g.conn = e.conn => closing' \/ peer'[g.conn] = "gone"
  BY DEF Watched, Job
<1> QED BY <1>2, <1>3, <1>4, <1>5 DEF Watched

-----------------------------------------------------------------------------
(* A worker moves from one step of a request to another *)

LEMMA BusyStep ==
    ASSUME ServerInv, NEW w \in Worker, NEW l \in Busy, Serving(w),
           wpc' = [wpc EXCEPT ![w] = l], job' = job,
           UNCHANGED <<peer, apc, hand, backlog, queue, open, active, accepting, rpc, closing>>
    PROVE  /\ Phases' /\ Places' /\ Pool' /\ NoLostWakeup'
           /\ \A v \in Worker : Serving(v)' <=> Serving(v)
           /\ \A v \in Worker : v # w => wpc'[v] = wpc[v]
           /\ wpc'[w] = l
<1> USE DEF ServerInv
<1>1. /\ \A v \in Worker : v # w => wpc'[v] = wpc[v]
      /\ wpc'[w] = l /\ wpc[w] \in Busy
  BY DEF TypeOK, Serving
<1>2. \A v \in Worker : Serving(v)' <=> Serving(v)
  BY <1>1 DEF Serving
<1>3. \A x \in {"none", "check", "wait", "exit"} : \A v \in Worker : wpc'[v] = x <=> wpc[v] = x
  BY <1>1 DEF Busy
<1>4. Phases'
  <2>1. 1 \in Worker BY ServerAssumption DEF Worker
  <2>2. rpc # "returned" BY <1>1 DEF Phases, Busy
  <2>3. \A v \in Worker : Serving(v)' => job'[v] \in Job BY <1>2 DEF Phases
  <2>4. \A v \in Worker : wpc'[v] = "exit" => queue' = <<>> /\ ~accepting'
    BY <1>3 DEF Phases
  <2>5. wpc'[1] # "none" BY <1>3, <2>1 DEF Phases
  <2> QED BY <2>2, <2>3, <2>4, <2>5 DEF Phases
<1>5. Places'
  BY <1>2 DEF Places, Waits, InHand
<1>6. Pool'
  <2>1. {v \in Worker : Serving(v)}' = {v \in Worker : Serving(v)} BY <1>2
  <2>2. Held' = Held BY <1>2 DEF Held, Pending
  <2> QED BY <2>1, <2>2 DEF Pool, PoolAccounted
<1>7. NoLostWakeup'
  <2>1. {v \in Worker : wpc[v] = "check"}' = {v \in Worker : wpc[v] = "check"} /\ Waiting' = Waiting
    BY <1>3 DEF Waiting
  <2> QED BY <2>1 DEF NoLostWakeup
<1> QED BY <1>1, <1>2, <1>4, <1>5, <1>6, <1>7

\* It keeps its socket.
LEMMA BusyDescriptors ==
    ASSUME Descriptors, NEW w \in Worker, NEW l \in Busy \ {"account"}, Using(w),
           wpc' = [wpc EXCEPT ![w] = l], wpc \in [Worker -> Step],
           UNCHANGED <<job, owner, apc, hand, queue, registry, closing>>
    PROVE  Descriptors'
<1>1. \A v \in Worker : Using(v)' <=> Using(v)
  BY DEF Using, Serving, Busy
<1>2. Jobs' = Jobs /\ Pending' = Pending
  BY <1>1 DEF Jobs, Pending
<1>3. HandlesOwned'
  BY <1>1, <1>2 DEF Descriptors, HandlesOwned, Using
<1> QED BY <1>2, <1>3 DEF Descriptors

\* Its lease changes, and the budget with it.
LEMMA BusyMemory ==
    ASSUME ServerInv, NEW w \in Worker, NEW l \in Busy, Serving(w),
           wpc' = [wpc EXCEPT ![w] = l], job' = job,
           lease' \in [Conn -> Nat],
           \A c \in Conn : c # job[w].conn => lease'[c] = lease[c],
           inflight' = inflight + lease'[job[w].conn] - lease[job[w].conn],
           inflight' <= Capacity,
           l \in {"close", "account"} => lease'[job[w].conn] = 0,
           l = "deliver" => lease'[job[w].conn] > 0
    PROVE  Memory' /\ inflight' \in Nat /\ lease[job[w].conn] <= inflight
<1> USE DEF ServerInv
<1>1. /\ \A v \in Worker : v # w => wpc'[v] = wpc[v]
      /\ wpc'[w] = l /\ wpc[w] \in Busy
  BY DEF TypeOK, Serving
<1>2. \A v \in Worker : Serving(v)' <=> Serving(v)
  BY <1>1 DEF Serving
<1>3. PICK c \in Conn : c = job[w].conn
  BY DEF Phases, Job
<1>4. \A v \in Worker : Serving(v) /\ v # w => job[v].conn \in Conn /\ job[v].conn # c
  BY <1>3 DEF Phases, Job, Places
<1>5. /\ \A v \in 1 .. WorkerLimit : Leases[v] \in Nat /\ Leases'[v] \in Nat
      /\ \A v \in 1 .. WorkerLimit : v # w => Leases[v] = Leases'[v]
      /\ Leases[w] = lease[c] /\ Leases'[w] = lease'[c]
  <2>1. lease \in [Conn -> Nat] BY DEF TypeOK
  <2>2. \A v \in Worker : Leases[v] = (IF Serving(v) THEN lease[job[v].conn] ELSE 0)
    BY DEF Leases
  <2>3. \A v \in Worker : Leases'[v] = (IF Serving(v) THEN lease'[job[v].conn] ELSE 0)
    BY <1>2 DEF Leases
  <2> QED BY <1>3, <1>4, <2>1, <2>2, <2>3 DEF Worker
<1>6. WorkerLimit \in Nat /\ w \in 1 .. WorkerLimit
  BY ServerAssumption DEF Worker
<1>7. SumTo(Leases', WorkerLimit) + Leases[w] = SumTo(Leases, WorkerLimit) + Leases'[w]
  <2> DEFINE f == Leases  g == Leases'
  <2>1. /\ \A v \in 1 .. WorkerLimit : f[v] \in Nat /\ g[v] \in Nat
        /\ \A v \in 1 .. WorkerLimit : v # w => f[v] = g[v]
    BY <1>5
  <2> HIDE DEF f, g
  <2>2. SumTo(g, WorkerLimit) + f[w] = SumTo(f, WorkerLimit) + g[w]
    BY <1>6, <2>1, SumChange
  <2> QED BY <2>2 DEF f, g
<1>8. /\ SumTo(Leases, WorkerLimit) \in Nat /\ SumTo(Leases', WorkerLimit) \in Nat
      /\ Leases[w] <= SumTo(Leases, WorkerLimit)
  <2> DEFINE f == Leases  g == Leases'
  <2>1. \A v \in 1 .. WorkerLimit : f[v] \in Nat /\ g[v] \in Nat
    BY <1>5
  <2> HIDE DEF f, g
  <2>2. SumTo(f, WorkerLimit) \in Nat /\ SumTo(g, WorkerLimit) \in Nat /\ f[w] <= SumTo(f,
          WorkerLimit)
    BY <1>6, <2>1, SumType, SumBound
  <2> QED BY <2>2 DEF f, g
<1>9. lease[c] \in Nat /\ lease'[c] \in Nat
  BY <1>3 DEF TypeOK
<1>10. inflight = SumTo(Leases, WorkerLimit) /\ inflight' = inflight + lease'[c] - lease[c]
  BY <1>3 DEF Memory
<1>11. inflight' = SumTo(Leases', WorkerLimit) /\ lease[c] <= inflight
  BY <1>5, <1>7, <1>8, <1>9, <1>10
<1>12. ASSUME NEW d \in Conn, lease'[d] > 0 PROVE InService(d)'
  <2>1. CASE d = c
    BY <1>2, <1>3, <2>1 DEF InService
  <2>2. CASE d # c
    <3>1. lease[d] > 0 BY <1>3, <1>12, <2>2
    <3> QED BY <1>2, <3>1 DEF Memory, InService
  <2> QED BY <2>1, <2>2
<1>13. \A v \in Worker : wpc'[v] \in {"close", "account"} => lease'[job'[v].conn] = 0
  BY <1>1, <1>3, <1>4 DEF Memory, Serving, Busy
<1>14. \A v \in Worker : wpc'[v] = "deliver" => lease'[job'[v].conn] > 0
  BY <1>1, <1>3, <1>4 DEF Memory, Serving, Busy
<1>15. SumTo(Leases, WorkerLimit)' = SumTo(Leases', WorkerLimit)
  BY DEF SumTo
<1> QED BY <1>3, <1>8, <1>11, <1>12, <1>13, <1>14, <1>15 DEF Memory

\* What the monitor knows stays true of it.
LEMMA BusyWatched ==
    ASSUME ServerInv, NEW w \in Worker, NEW l \in Busy, Serving(w),
           wpc' = [wpc EXCEPT ![w] = l], job' = job,
           UNCHANGED <<peer, apc, hand, backlog, queue, closing, polled, left>>,
           l \in {"read", "recv", "parse"} => wpc[w] \in {"read", "recv", "parse"},
           wpc[w] \in Watching => l \in Watching \/ job[w] \notin entries',
           entries' \subseteq entries \cup {job[w]},
           job[w] \in entries' \ entries => wpc[w] = "parse" /\ l = "process"
    PROVE  Watched'
<1> USE DEF ServerInv
<1>1. /\ \A v \in Worker : v # w => wpc'[v] = wpc[v]
      /\ wpc'[w] = l /\ wpc[w] \in Busy
  BY DEF TypeOK, Serving
<1>2. \A v \in Worker : Serving(v)' <=> Serving(v)
  BY <1>1 DEF Serving
<1>3. ASSUME NEW j, Known(j) PROVE Known(j)'
  <2>1. ~Waits(j.conn)' /\ ~InHand(j.conn)' BY <1>3 DEF Known, Waits, InHand
  <2>2. ASSUME NEW v \in Worker, Serving(v)', job'[v].conn = j.conn
        PROVE  job'[v] = j /\ wpc'[v] \notin {"read", "recv", "parse"}
    BY <1>1, <1>2, <1>3, <2>2 DEF Known
  <2> QED BY <1>3, <2>1, <2>2 DEF Known
<1>4. job[w] \in entries' \ entries => Known(job[w])'
  <2>1. job[w] \in Job /\ ~Waits(job[w].conn)' /\ ~InHand(job[w].conn)'
    BY DEF Phases, Places, Waits, InHand
  <2>2. \A i \in 1 .. Len(queue') : queue'[i].conn # job[w].conn
    BY DEF Places
  <2>3. ASSUME NEW v \in Worker, Serving(v)', job'[v].conn = job[w].conn PROVE v = w
    BY <1>2, <2>3 DEF Places
  <2> QED BY <1>1, <2>1, <2>2, <2>3 DEF Known
<1>5. \A e \in entries' : Known(e)'
  BY <1>3, <1>4 DEF Watched
<1>6. ASSUME NEW e \in entries'
      PROVE  \E v \in Worker : wpc'[v] \in Watching /\ job'[v] = e
  <2>1. CASE e \in entries
    <3>1. PICK v \in Worker : wpc[v] \in Watching /\ job[v] = e BY <2>1 DEF Watched
    <3>2. CASE v # w BY <1>1, <3>1, <3>2
    <3>3. CASE v = w BY <1>1, <3>1, <3>3
    <3> QED BY <3>2, <3>3
  <2>2. CASE e \notin entries
    BY <1>1, <2>2 DEF Watching
  <2> QED BY <2>1, <2>2
<1>7. (polled' # None => \A e \in polled' : Known(e)') /\ (left' # None
      => \A e \in left' : Known(e)')
  BY <1>3 DEF Watched
<1>8. ASSUME left' # None, NEW g \in left', NEW e \in entries', g.conn = e.conn
      PROVE  closing' \/ peer'[g.conn] = "gone"
  <2>1. CASE e \in entries
    BY <1>8, <2>1 DEF Watched
  <2>2. CASE e \notin entries
    <3>1. e = job[w] /\ wpc[w] = "parse" BY <2>2
    <3>2. Known(g) BY <1>8 DEF Watched
    <3> QED BY <1>8, <3>1, <3>2 DEF Known
  <2> QED BY <2>1, <2>2
<1> QED BY <1>5, <1>6, <1>7, <1>8 DEF Watched

-----------------------------------------------------------------------------
(* Clients and the rest of the process *)

LEMMA ConnectStep ==
    ASSUME ServerInv, NEW c \in Conn, Connect(c)
    PROVE  ServerInv'
<1> USE DEF ServerInv
<1>0. /\ peer[c] = "new" /\ peer' = [peer EXCEPT ![c] = "open"] /\ backlog' = backlog \cup {c}
      /\ UNCHANGED <<owner, apc, hand, pool, work, clients, monitor, memory, control>>
  BY DEF Connect
<1>1. \A d \in Conn : ~Waits(d) => ~Waits(d)'
  BY <1>0 DEF Waits, TypeOK
<1>2. \A d \in Conn : InHand(d)' <=> InHand(d)
  BY <1>0 DEF InHand
<1>3. TypeOK'
  BY <1>0 DEF TypeOK
<1>4. Phases' /\ Descriptors' /\ Memory' /\ Pool' /\ NoLostWakeup'
  BY <1>0, KeepPhases, KeepDescriptors, KeepMemory, KeepPool, KeepNoLostWakeup
<1>5. Places'
  <2>1. Holding => hand.conn \in Conn
    BY JobTypes
  <2>2. \A i \in 1 .. Len(queue) : queue[i].conn \in Conn
    BY JobTypes
  <2>3. \A w \in Worker : Serving(w) => job[w].conn \in Conn
    BY DEF Phases, Job
  <2>4. \A d \in backlog' : peer'[d] # "new"
    BY <1>0 DEF Places, TypeOK
  <2>5. \A w \in Worker : Serving(w)' <=> Serving(w)
    BY <1>0 DEF Serving
  <2> QED BY <1>0, <1>1, <1>2, <2>1, <2>2, <2>3, <2>4, <2>5 DEF Places
<1>6. Watched'
  <2>1. \A d \in Conn : peer[d] = "gone" => peer'[d] = "gone" BY <1>0 DEF TypeOK
  <2>2. entries \subseteq Job /\ polled \in (SUBSET Job) \cup {None}
          /\ left \in (SUBSET Job) \cup {None}
    BY DEF TypeOK
  <2> QED BY <1>0, <1>1, <1>2, <2>1, <2>2, WatchedMoves
<1> QED BY <1>3, <1>4, <1>5, <1>6

LEMMA DisconnectStep ==
    ASSUME ServerInv, NEW c \in Conn, Disconnect(c)
    PROVE  ServerInv'
<1> USE DEF ServerInv
<1>0. /\ peer[c] = "open" /\ peer' = [peer EXCEPT ![c] = "gone"]
      /\ UNCHANGED <<owner, acceptor, pool, work, clients, monitor, memory, control>>
  BY DEF Disconnect
<1>1. \A d \in Conn : Waits(d)' <=> Waits(d)
  BY <1>0 DEF Waits, TypeOK
<1>2. \A d \in Conn : InHand(d)' <=> InHand(d)
  BY <1>0 DEF InHand
<1>3. TypeOK'
  BY <1>0 DEF TypeOK
<1>4. Phases' /\ Descriptors' /\ Memory' /\ Pool' /\ NoLostWakeup'
  BY <1>0, KeepPhases, KeepDescriptors, KeepMemory, KeepPool, KeepNoLostWakeup
<1>5. Places'
  <2>1. Holding => hand.conn \in Conn
    BY DEF Phases, Job
  <2>2. \A i \in 1 .. Len(queue) : queue[i].conn \in Conn
    BY JobTypes
  <2>3. \A w \in Worker : Serving(w) => job[w].conn \in Conn
    BY DEF Phases, Job
  <2>4. \A d \in backlog' : peer'[d] # "new"
    BY <1>0 DEF Places, TypeOK
  <2>5. \A w \in Worker : Serving(w)' <=> Serving(w)
    BY <1>0 DEF Serving
  <2> QED BY <1>0, <1>1, <1>2, <2>1, <2>2, <2>3, <2>4, <2>5 DEF Places
<1>6. Watched'
  <2>1. \A d \in Conn : peer[d] = "gone" => peer'[d] = "gone" BY <1>0 DEF TypeOK
  <2>2. entries \subseteq Job /\ polled \in (SUBSET Job) \cup {None}
          /\ left \in (SUBSET Job) \cup {None}
    BY DEF TypeOK
  <2> QED BY <1>0, <1>1, <1>2, <2>1, <2>2, WatchedMoves
<1> QED BY <1>3, <1>4, <1>5, <1>6

\* A descriptor that is no client's changes hands.
LEMMA OtherStep ==
    ASSUME ServerInv, NEW h \in Handle, OtherOpens(h) \/ OtherCloses(h)
    PROVE  ServerInv'
<1> USE DEF ServerInv
<1>0. PICK o \in {None, Other} :
      /\ owner[h] \notin Conn /\ owner' = [owner EXCEPT ![h] = o] /\ others' \in {others,
         others + 1}
      /\ UNCHANGED <<peer, acceptor, pool, work, clients, monitor, memory>>
      /\ UNCHANGED <<maxConn, stop, shutting, rpc, reloads, asked>>
  BY ServerAssumption DEF OtherOpens, OtherCloses
<1>1. TypeOK'
  BY <1>0 DEF TypeOK
<1>2. Phases' /\ Places' /\ Memory' /\ Pool' /\ NoLostWakeup' /\ Watched'
  BY <1>0, KeepPhases, KeepPlaces, KeepMemory, KeepPool, KeepNoLostWakeup, KeepWatched
<1>3. Descriptors'
  <2>1. Jobs' = Jobs /\ Pending' = Pending /\ \A w \in Worker : Serving(w)' <=> Serving(w)
    BY <1>0, KeepJobs DEF Serving
  <2>2. \A x \in Handle : owner[x] \in Conn => owner'[x] = owner[x]
    BY <1>0 DEF TypeOK
  <2>3. \A x \in Handle : owner'[x] \in Conn => owner[x] \in Conn
    BY <1>0, ServerAssumption DEF TypeOK
  <2>4. HandlesOwned'
    <3> SUFFICES ASSUME ~closing
                 PROVE  /\ \A j \in Pending : owner'[j.handle] = j.conn
                        /\ \A w \in Worker : Serving(w) /\ wpc[w] # "account" =>
                              owner'[job[w].handle] = job[w].conn
      BY <1>0, <2>1 DEF HandlesOwned
    <3>1. \A j \in Jobs : j.handle \in Handle /\ owner[j.handle] = j.conn /\ j.conn \in Conn
      BY JobsPlaced DEF Job
    <3>2. \A j \in Jobs : owner'[j.handle] = j.conn
      BY <2>2, <3>1
    <3> QED BY <3>2 DEF Jobs, Using
  <2>5. Holding => owner'[hand.handle] = hand.conn
    BY <2>2 DEF Descriptors, Phases, Job
  <2> QED BY <1>0, <2>1, <2>3, <2>4, <2>5 DEF Descriptors
<1> QED BY <1>1, <1>2, <1>3

-----------------------------------------------------------------------------
(* The acceptor *)

\* The acceptor waits, times out or fails; a client may leave the backlog.
LEMMA AcceptorMoves ==
    ASSUME ServerInv, apc \in {"accept", "listen"}, apc' \in {"accept", "listen", "exit"},
           backlog' \subseteq backlog, stop' \in BOOLEAN,
           UNCHANGED <<sys, hand, pool, work, clients, monitor, memory>>,
           UNCHANGED <<maxConn, shutting, rpc, reloads, others, asked>>
    PROVE  ServerInv'
<1> USE DEF ServerInv
<1>1. TypeOK'
  BY DEF TypeOK
<1>2. Memory' /\ Pool'
  BY KeepMemory, KeepPool
<1>3. Phases'
  BY DEF Phases, Serving
<1>4. \A c : ~Waits(c) /\ ~InHand(c) => ~Waits(c)' /\ ~InHand(c)'
  BY DEF Waits, InHand
<1>5. Places'
  <2>1. \A w \in Worker : Serving(w)' <=> Serving(w)
    BY DEF Serving
  <2> QED BY <1>4, <2>1 DEF Places
<1>6. Descriptors'
  <2>1. Jobs' = Jobs /\ Pending' = Pending /\ \A w \in Worker : Serving(w)' <=> Serving(w)
    BY KeepJobs DEF Serving
  <2> QED BY <2>1 DEF Descriptors, HandlesOwned
<1>7. NoLostWakeup'
  BY DEF NoLostWakeup, Waiting
<1>8. Watched'
  <2>1. entries \subseteq Job /\ polled \in (SUBSET Job) \cup {None}
          /\ left \in (SUBSET Job) \cup {None}
    BY DEF TypeOK
  <2> QED BY <1>4, <2>1, WatchedMoves
<1> QED BY <1>1, <1>2, <1>3, <1>5, <1>6, <1>7, <1>8

LEMMA AcceptLoopStep == ASSUME ServerInv, AcceptLoop \/ AcceptTimeout PROVE ServerInv'
<1>1. stop \in BOOLEAN BY DEF ServerInv, TypeOK
<1> QED BY <1>1, AcceptorMoves DEF AcceptLoop, AcceptTimeout, Accepting

LEMMA AcceptFailsStep == ASSUME ServerInv, NEW c \in Conn, AcceptFails(c) PROVE ServerInv'
BY AcceptorMoves DEF AcceptFails, Accepting

LEMMA AcceptStep ==
    ASSUME ServerInv, NEW c \in Conn, NEW h \in Handle, Accept(c, h)
    PROVE  ServerInv'
<1> USE DEF ServerInv
<1>0. /\ apc = "listen" /\ c \in backlog /\ owner[h] = None /\ apc' = "admit"
      /\ owner' = [owner EXCEPT ![h] = c] /\ peer' = peer
      /\ hand' = [conn |-> c, handle |-> h] /\ backlog' = backlog \ {c}
      /\ UNCHANGED <<pool, work, clients, monitor, memory, control>>
  BY DEF Accept, Accepting
<1>1. /\ hand' \in Job /\ hand'.conn = c /\ hand'.handle = h
      /\ \A x \in Handle : x # h => owner'[x] = owner[x]
      /\ owner'[h] = c /\ None \notin Conn
  BY <1>0, ServerAssumption DEF Job, TypeOK
<1>2. TypeOK'
  BY <1>0, <1>1 DEF TypeOK
<1>3. Memory' /\ Pool'
  BY <1>0, KeepMemory, KeepPool
<1>4. Phases'
  BY <1>0, <1>1 DEF Phases, Serving
<1>5. \A d : ~Waits(d) => ~Waits(d)' /\ ~InHand(d)'
  BY <1>0, <1>1 DEF Waits, InHand
<1>6. Places'
  <2>1. \A w \in Worker : Serving(w)' <=> Serving(w)
    BY <1>0 DEF Serving
  <2>2. ~Waits(hand.conn)'
    BY <1>0, <1>1 DEF Waits, Places
  <2> QED BY <1>0, <1>5, <2>1, <2>2 DEF Places
<1>7. Descriptors'
  <2>1. Jobs' = Jobs /\ Pending' = Pending /\ \A w \in Worker : Serving(w)' <=> Serving(w)
    BY <1>0, KeepJobs DEF Serving
  <2>2. HandlesOwned'
    <3> SUFFICES ASSUME ~closing
                 PROVE  /\ \A j \in Pending : owner'[j.handle] = j.conn
                        /\ \A w \in Worker : Serving(w) /\ wpc[w] # "account" =>
                              owner'[job[w].handle] = job[w].conn
      BY <1>0, <2>1 DEF HandlesOwned
    <3>1. \A j \in Jobs : j.handle \in Handle /\ owner[j.handle] = j.conn /\ j.conn \in Conn
      BY JobsPlaced DEF Job
    <3>2. \A j \in Jobs : owner'[j.handle] = j.conn
      BY <1>0, <1>1, <3>1
    <3> QED BY <3>2 DEF Jobs, Using
  <2>3. \A x \in Handle : owner'[x] \in Conn => x \in registry'
          \/ (Holding' /\ hand'.handle = x)
    BY <1>0, <1>1 DEF Descriptors
  <2> QED BY <1>0, <1>1, <2>1, <2>2, <2>3 DEF Descriptors
<1>8. NoLostWakeup'
  BY <1>0 DEF NoLostWakeup, Waiting
<1>9. Watched'
  <2>1. entries \subseteq Job /\ polled \in (SUBSET Job) \cup {None}
          /\ left \in (SUBSET Job) \cup {None}
    BY DEF TypeOK
  <2> QED BY <1>0, <1>5, <2>1, WatchedMoves
<1> QED BY <1>2, <1>3, <1>4, <1>6, <1>7, <1>8, <1>9

\* The acceptor closes the socket in its hand.
LEMMA HandClosed ==
    ASSUME ServerInv, Holding, apc' \in {"accept", "exit"}, hand' = None,
           owner' = [owner EXCEPT ![hand.handle] = None], peer' = peer,
           stop' \in BOOLEAN,
           UNCHANGED <<backlog, pool, work, clients, monitor, memory>>,
           UNCHANGED <<maxConn, shutting, rpc, reloads, others, asked>>
    PROVE  ServerInv'
<1> USE DEF ServerInv
<1>1. /\ hand \in Job /\ owner[hand.handle] = hand.conn
      /\ \A x \in Handle : x # hand.handle => owner'[x] = owner[x]
      /\ owner'[hand.handle] = None /\ None \notin Conn
  BY ServerAssumption DEF Phases, Job, TypeOK, Descriptors
<1>2. TypeOK'
  BY <1>1 DEF TypeOK
<1>3. Memory' /\ Pool'
  BY KeepMemory, KeepPool
<1>4. Phases'
  BY DEF Phases, Serving
<1>5. \A c : ~Waits(c) /\ ~InHand(c) => ~Waits(c)' /\ ~InHand(c)'
  BY DEF Waits, InHand
<1>6. Places'
  <2>1. \A w \in Worker : Serving(w)' <=> Serving(w)
    BY DEF Serving
  <2> QED BY <1>5, <2>1 DEF Places
<1>7. Descriptors'
  <2>1. Jobs' = Jobs /\ Pending' = Pending /\ \A w \in Worker : Serving(w)' <=> Serving(w)
    BY KeepJobs DEF Serving
  <2>2. HandlesOwned'
    <3> SUFFICES ASSUME ~closing
                 PROVE  /\ \A j \in Pending : owner'[j.handle] = j.conn
                        /\ \A w \in Worker : Serving(w) /\ wpc[w] # "account" =>
                              owner'[job[w].handle] = job[w].conn
      BY <2>1 DEF HandlesOwned
    <3>1. \A j \in Jobs : j.handle \in Handle /\ owner[j.handle] = j.conn /\ j.conn # hand.conn
      BY JobsPlaced DEF Job, InHand
    <3>2. \A j \in Jobs : owner'[j.handle] = j.conn
      BY <1>1, <3>1
    <3> QED BY <3>2 DEF Jobs, Using
  <2>3. \A x \in Handle : owner'[x] \in Conn => x \in registry'
    BY <1>1 DEF Descriptors
  <2> QED BY <2>1, <2>2, <2>3 DEF Descriptors
<1>8. NoLostWakeup'
  BY DEF NoLostWakeup, Waiting
<1>9. Watched'
  <2>1. entries \subseteq Job /\ polled \in (SUBSET Job) \cup {None}
          /\ left \in (SUBSET Job) \cup {None}
    BY DEF TypeOK
  <2> QED BY <1>5, <2>1, WatchedMoves
<1> QED BY <1>2, <1>3, <1>4, <1>6, <1>7, <1>8, <1>9

LEMMA RefuseStep ==
    ASSUME ServerInv, AdmitStopped \/ AdmitFails \/ DrainEnds \/ DrainSilent
    PROVE  ServerInv'
<1>1. stop \in BOOLEAN BY DEF ServerInv, TypeOK
<1> QED BY <1>1, HandClosed
        DEF AdmitStopped, AdmitFails, DrainEnds, DrainSilent, Drained, Accepting

\* A rejected client stays in the acceptor's hand.
LEMMA RejectStep == ASSUME ServerInv, Reject PROVE ServerInv'
<1> USE DEF ServerInv
<1>0. /\ apc = "admit" /\ apc' = "drain"
      /\ UNCHANGED <<sys, hand, backlog, pool, work, clients, monitor, memory, control>>
  BY DEF Reject, Accepting
<1>1. TypeOK' BY <1>0 DEF TypeOK
<1>2. Phases' BY <1>0 DEF Phases, Serving
<1>3. \A c : (Waits(c)' <=> Waits(c)) /\ (InHand(c)' <=> InHand(c))
  BY <1>0 DEF Waits, InHand
<1>4. Places' BY <1>0, <1>3 DEF Places, Serving
<1>5. Descriptors' BY <1>0, KeepJobs DEF Descriptors, HandlesOwned, Serving
<1>6. Memory' /\ Pool' BY <1>0, KeepMemory, KeepPool
<1>7. NoLostWakeup' BY <1>0 DEF NoLostWakeup, Waiting
<1>8. Watched' BY <1>0, <1>3 DEF Watched, Known, Serving
<1> QED BY <1>1, <1>2, <1>4, <1>5, <1>6, <1>7, <1>8

\* Threads created and woken are none that serves.
LEMMA AdmitStep ==
    ASSUME ServerInv, Admit
    PROVE  ServerInv'
<1> USE DEF ServerInv
<1>0. /\ apc = "admit" /\ ~closing /\ apc' = "notify" /\ hand' = None
      /\ registry' = registry \cup {hand.handle} /\ closing' = closing
      /\ queue' = Append(queue, hand) /\ open' = open + 1
      /\ UNCHANGED <<sys, backlog, active, accepting, job, monitor, memory, control>>
  BY DEF Admit
<1>1. /\ wpc' \in [Worker -> Step]
      /\ \A w \in Worker : wpc'[w] = wpc[w] \/ (wpc[w] = "none" /\ wpc'[w] = "check")
  BY DEF Admit, Grown, TypeOK, Step
<1>2. hand \in Job /\ hand.conn \in Conn /\ hand.handle \in Handle /\ owner[hand.handle] = hand.conn
  BY <1>0, JobTypes DEF Descriptors
<1>3. /\ queue \in Seq(Job) /\ queue' \in Seq(Job) /\ Len(queue) \in Nat
      /\ Len(queue') = Len(queue) + 1
      /\ \A i \in 1 .. Len(queue) : queue'[i] = queue[i]
      /\ queue'[Len(queue) + 1] = hand
  <2>1. queue \in Seq(Job) BY DEF TypeOK
  <2> QED BY <1>0, <1>2, <2>1
<1>4. \A w \in Worker : (Serving(w)' <=> Serving(w)) /\ (Serving(w) => wpc'[w] = wpc[w])
  BY <1>1 DEF Serving, Busy
<1>5. \A i \in 1 .. Len(queue') : i \in 1 .. Len(queue) \/ i = Len(queue) + 1
  BY <1>3
<1>6. Pending' = Pending \cup {hand} /\ Held' = Held \cup {hand} /\ Jobs' = Jobs \cup {hand}
  <2>1. \A j : j \in Pending' <=> j \in Pending \cup {hand}
    <3>1. \A j : j \in Pending' <=> \E i \in 1 .. Len(queue') : j = queue'[i] BY DEF Pending
    <3>2. \A i \in 1 .. Len(queue) : i \in 1 .. Len(queue') BY <1>3
    <3>3. Len(queue) + 1 \in 1 .. Len(queue') BY <1>3
    <3> QED BY <1>3, <1>5, <3>1, <3>2, <3>3 DEF Pending
  <2>2. Pending' = Pending \cup {hand} BY <2>1
  <2>3. {w \in Worker : Serving(w)}' = {w \in Worker : Serving(w)} BY <1>4
  <2>4. {w \in Worker : Using(w)}' = {w \in Worker : Using(w)} BY <1>4 DEF Using
  <2>5. {job[w] : w \in {v \in Worker : Serving(v)}}' = {job[w] : w \in {v \in Worker : Serving(v)}}
    BY <1>0, <1>4
  <2>6. {job[w] : w \in {v \in Worker : Using(v)}}' = {job[w] : w \in {v \in Worker : Using(v)}}
    BY <1>0, <2>4
  <2> QED BY <2>2, <2>5, <2>6 DEF Held, Jobs
<1>7. TypeOK'
  BY <1>0, <1>1, <1>2, <1>3 DEF TypeOK
<1>8. Phases'
  <2>1. 1 \in Worker BY ServerAssumption DEF Worker
  <2>2. rpc = "serve" /\ accepting BY <1>0 DEF Phases, TypeOK
  <2>3. \A w \in Worker : wpc'[w] # "exit" BY <1>1, <2>2 DEF Phases
  <2>4. wpc'[1] # "none" BY <1>1, <2>1 DEF Phases
  <2> QED BY <1>0, <1>4, <2>2, <2>3, <2>4 DEF Phases
<1>9. Places'
  <2>1. \A c : ~Waits(c) => ~Waits(c)' /\ ~InHand(c)'
    BY <1>0 DEF Waits, InHand
  <2>2. ~Waits(hand.conn) /\ \A i \in 1 .. Len(queue) : queue[i].conn # hand.conn
    BY <1>0 DEF Places, InHand
  <2>3. \A i \in 1 .. Len(queue') : ~Waits(queue'[i].conn)
    BY <1>3, <1>5, <1>0, <2>2 DEF Places
  <2>4. \A i, k \in 1 .. Len(queue') : i # k => queue'[i].conn # queue'[k].conn
    BY <1>3, <1>5, <2>2 DEF Places
  <2>5. \A w \in Worker : Serving(w) =>
          ~Waits(job[w].conn) /\ job[w].conn # hand.conn
          /\ \A i \in 1 .. Len(queue) : queue[i].conn # job[w].conn
    BY <1>0 DEF Places, InHand
  <2>6. \A w \in Worker : Serving(w) => \A i \in 1 .. Len(queue') : queue'[i].conn # job[w].conn
    BY <1>3, <1>5, <2>5
  <2>7. \A c \in backlog' : peer'[c] # "new"
    BY <1>0 DEF Places
  <2>8. \A v, w \in Worker : Serving(w) /\ Serving(v) /\ v # w => job[v].conn # job[w].conn
    BY DEF Places
  <2> QED BY <1>0, <1>4, <2>1, <2>3, <2>4, <2>5, <2>6, <2>7, <2>8 DEF Places
<1>10. Descriptors'
  <2>1. HandlesOwned'
    <3>1. \A j \in Pending' : owner'[j.handle] = j.conn
      BY <1>0, <1>2, <1>6 DEF Descriptors, HandlesOwned
    <3>2. \A w \in Worker : Serving(w)' /\ wpc'[w] # "account"
              => owner'[job'[w].handle] = job'[w].conn
      BY <1>0, <1>4 DEF Descriptors, HandlesOwned
    <3> QED BY <3>1, <3>2 DEF HandlesOwned
  <2>2. \A h \in registry' : \E j \in Jobs' : j.handle = h
    BY <1>0, <1>6 DEF Descriptors
  <2>3. \A h \in Handle : owner'[h] \in Conn => h \in registry'
    BY <1>0 DEF Descriptors
  <2> QED BY <1>0, <2>1, <2>2, <2>3 DEF Descriptors
<1>11. Memory'
  <2>1. Leases' = Leases
    BY <1>0, <1>4 DEF Leases
  <2>2. \A c \in Conn : InService(c)' <=> InService(c)
    BY <1>0, <1>4 DEF InService
  <2>3. \A w \in Worker : wpc'[w] \in {"close", "account", "deliver"} => wpc'[w] = wpc[w]
    BY <1>1
  <2> QED BY <1>0, <2>1, <2>2, <2>3 DEF Memory
<1>12. Pool'
  <2>1. {w \in Worker : Serving(w)}' = {w \in Worker : Serving(w)}
    BY <1>4
  <2>2. hand \notin Held
    <3>1. hand \notin Pending BY <1>0 DEF Pending, Places, InHand
    <3>2. \A w \in Worker : Serving(w) => job[w] # hand BY <1>0 DEF Places, InHand
    <3> QED BY <3>1, <3>2 DEF Held
  <2>3. IsFiniteSet(Held') /\ Cardinality(Held') = Cardinality(Held) + 1
    BY <1>6, <2>2, FS_AddElement DEF Pool
  <2>4. open \in Nat /\ active \in Nat
    BY DEF TypeOK
  <2>5. active = Cardinality({w \in Worker : Serving(w)}) /\ open = Len(queue) + active
        /\ Cardinality(Held) = open
    BY DEF Pool, PoolAccounted
  <2>6. open' = Len(queue') + active'
    BY <1>0, <1>3, <2>4, <2>5
  <2> QED BY <1>0, <2>1, <2>3, <2>5, <2>6 DEF Pool, PoolAccounted
<1>13. NoLostWakeup'
  <2> DEFINE C == {w \in Worker : wpc[w] = "check"}
             D == {w \in Worker : wpc'[w] = "check"}
  <2>1. Waiting' = Waiting
    BY <1>1 DEF Waiting
  <2>2. C \subseteq D /\ IsFiniteSet(D)
    <3>1. IsFiniteSet(Worker) BY ServerAssumption, FS_Interval DEF Worker
    <3>2. D \subseteq Worker OBVIOUS
    <3>3. IsFiniteSet(D) BY <3>1, <3>2, FS_Subset
    <3> QED BY <1>1, <3>3
  <2>3. Cardinality(C) <= Cardinality(D) /\ Cardinality(C) \in Nat /\ Cardinality(D) \in Nat
    BY <2>2, FS_Subset, FS_CardinalityType
  <2>4. Waiting # {} => Len(queue) <= Cardinality(C)
    <3>1. apc # "notify" BY <1>0
    <3> QED BY <2>3, <3>1 DEF NoLostWakeup
  <2>5. Waiting # {} => Len(queue') <= Cardinality(D) + 1
    BY <1>3, <2>3, <2>4
  <2> QED BY <1>0, <2>1, <2>5 DEF NoLostWakeup
<1>14. Watched'
  <2>1. ASSUME NEW j, Known(j) PROVE Known(j)'
    <3>1. ~Waits(j.conn)' /\ ~InHand(j.conn)' BY <1>0, <2>1 DEF Known, Waits, InHand
    <3>2. hand.conn # j.conn BY <1>0, <2>1 DEF Known, InHand
    <3>3. \A i \in 1 .. Len(queue') : queue'[i].conn # j.conn BY <1>3, <1>5, <2>1, <3>2 DEF Known
    <3> QED BY <1>0, <1>4, <2>1, <3>1, <3>3 DEF Known
  <2>2. \A e \in entries : \E w \in Worker : wpc'[w] \in Watching /\ job'[w] = e
    BY <1>0, <1>1 DEF Watched, Watching
  <2> QED BY <1>0, <2>1, <2>2 DEF Watched
<1> QED BY <1>7, <1>8, <1>9, <1>10, <1>11, <1>12, <1>13, <1>14

\* Workers that wait are told to look.
LEMMA Woken ==
    ASSUME ServerInv, wpc' \in [Worker -> Step],
           \A w \in Worker : wpc'[w] = wpc[w] \/ (wpc[w] = "wait" /\ wpc'[w] = "check"),
           UNCHANGED <<sys, hand, backlog, queue, open, active, job, clients, monitor, memory>>,
           ~Holding, ~Holding'
    PROVE  Places' /\ Descriptors' /\ Memory' /\ Pool' /\ Watched'
           /\ \A w \in Worker : Serving(w)' <=> Serving(w)
<1> USE DEF ServerInv
<1>1. \A w \in Worker : (Serving(w)' <=> Serving(w)) /\ (Serving(w) => wpc'[w] = wpc[w])
  BY DEF Serving, Busy
<1>2. \A c : (Waits(c)' <=> Waits(c)) /\ (InHand(c)' <=> InHand(c))
  BY DEF Waits, InHand
<1>3. Jobs' = Jobs /\ Pending' = Pending /\ Held' = Held
  BY <1>1 DEF Jobs, Pending, Held, Using
<1>4. Places'
  BY <1>1, <1>2 DEF Places
<1>5. Descriptors'
  BY <1>1, <1>3 DEF Descriptors, HandlesOwned
<1>6. Memory'
  <2>1. Leases' = Leases
    BY <1>1 DEF Leases
  <2>2. \A c \in Conn : InService(c)' <=> InService(c)
    BY <1>1 DEF InService
  <2>3. \A w \in Worker : wpc'[w] \in {"close", "account", "deliver"} => wpc'[w] = wpc[w]
    OBVIOUS
  <2> QED BY <2>1, <2>2, <2>3 DEF Memory
<1>7. Pool'
  <2>1. {w \in Worker : Serving(w)}' = {w \in Worker : Serving(w)}
    BY <1>1
  <2> QED BY <1>3, <2>1 DEF Pool, PoolAccounted
<1>8. Watched'
  <2>1. \A j : Known(j)' <=> Known(j)
    BY <1>1, <1>2 DEF Known
  <2>2. \A w \in Worker : wpc[w] \in Watching => wpc'[w] = wpc[w]
    BY DEF Watching
  <2> QED BY <2>1, <2>2 DEF Watched
<1> QED BY <1>1, <1>4, <1>5, <1>6, <1>7, <1>8

LEMMA NotifyOneStep ==
    ASSUME ServerInv, NotifyOne
    PROVE  ServerInv'
<1> USE DEF ServerInv
<1>0. /\ apc = "notify" /\ apc' = "accept"
      /\ UNCHANGED <<sys, hand, backlog, pool, job, clients, monitor, memory, control>>
  BY DEF NotifyOne
<1>1. /\ wpc' \in [Worker -> Step]
      /\ \A w \in Worker : wpc'[w] = wpc[w] \/ (wpc[w] = "wait" /\ wpc'[w] = "check")
  BY DEF NotifyOne, Waiting, TypeOK, Step
<1>2. Places' /\ Descriptors' /\ Memory' /\ Pool' /\ Watched'
      /\ \A w \in Worker : Serving(w)' <=> Serving(w)
  BY <1>0, <1>1, Woken
<1>3. TypeOK'
  BY <1>0, <1>1 DEF TypeOK
<1>4. Phases'
  <2>1. 1 \in Worker BY ServerAssumption DEF Worker
  <2>2. \A w \in Worker : wpc'[w] \in {"exit", "none"} => wpc'[w] = wpc[w] BY <1>1
  <2>3. rpc # "returned" BY <1>0 DEF Phases
  <2> QED BY <1>0, <1>2, <2>1, <2>2, <2>3 DEF Phases
<1>5. NoLostWakeup'
  <2> DEFINE C == {w \in Worker : wpc[w] = "check"}
             D == {w \in Worker : wpc'[w] = "check"}
  <2>1. Len(queue) \in Nat
    <3>1. queue \in Seq(Job) BY DEF TypeOK
    <3> QED BY <3>1
  <2>2. CASE Waiting = {}
    BY <1>1, <2>2 DEF NoLostWakeup, Waiting
  <2>3. CASE Waiting # {}
    <3>1. PICK v \in Waiting : wpc' = [wpc EXCEPT ![v] = "check"] BY <2>3 DEF NotifyOne
    <3>2. v \in Worker /\ wpc[v] = "wait" BY DEF Waiting
    <3>3. D = C \cup {v} /\ v \notin C BY <3>1, <3>2 DEF TypeOK
    <3>4. IsFiniteSet(C)
      <4>1. IsFiniteSet(Worker) BY ServerAssumption, FS_Interval DEF Worker
      <4>2. C \subseteq Worker OBVIOUS
      <4> QED BY <4>1, <4>2, FS_Subset
    <3>5. Cardinality(D) = Cardinality(C) + 1 /\ Cardinality(C) \in Nat
      BY <3>3, <3>4, FS_AddElement, FS_CardinalityType
    <3>6. Len(queue) <= Cardinality(C) + 1 BY <1>0, <2>3 DEF NoLostWakeup
    <3>7. Len(queue') <= Cardinality(D) + 0 BY <1>0, <2>1, <3>5, <3>6
    <3> QED BY <1>0, <3>7 DEF NoLostWakeup
  <2> QED BY <2>2, <2>3
<1> QED BY <1>2, <1>3, <1>4, <1>5

-----------------------------------------------------------------------------
(* A worker serves *)

\* The lease of c, and the budget with it, becomes n.
Leased(c, n) ==
    /\ lease' \in [Conn -> Nat] /\ lease'[c] = n /\ n \in Nat
    /\ \A d \in Conn : d # c => lease'[d] = lease[d]
    /\ inflight' = inflight + lease'[c] - lease[c]

LEMMA LeaseType ==
    ASSUME ServerInv, NEW c \in Conn
    PROVE  lease \in [Conn -> Nat] /\ lease[c] \in Nat /\ inflight \in Nat /\ inflight <= Capacity
           /\ Capacity \in Nat
BY ServerAssumption DEF ServerInv, TypeOK, Memory

LEMMA ReleaseLeases ==
    ASSUME ServerInv, NEW c \in Conn, Release(c)
    PROVE  Leased(c, 0) /\ inflight' <= Capacity
<1>1. lease \in [Conn -> Nat] /\ lease[c] \in Nat /\ inflight \in Nat /\ inflight <= Capacity
      /\ Capacity \in Nat
  BY LeaseType
<1>2. lease' = [lease EXCEPT ![c] = lease[c] - lease[c]] /\ inflight' = inflight - lease[c]
  BY DEF Release, Shrink
<1>3. lease'[c] = 0 /\ lease' \in [Conn -> Nat] /\ \A d \in Conn : d # c => lease'[d] = lease[d]
  BY <1>1, <1>2
<1> QED BY <1>1, <1>2, <1>3 DEF Leased

LEMMA GrowLeases ==
    ASSUME ServerInv, NEW c \in Conn, Grow(c, 1)
    PROVE  Leased(c, lease[c] + 1) /\ inflight' <= Capacity /\ lease'[c] > 0
<1>1. lease \in [Conn -> Nat] /\ lease[c] \in Nat /\ inflight \in Nat /\ Capacity \in Nat
  BY LeaseType
<1>2. lease' = [lease EXCEPT ![c] = lease[c] + 1] /\ inflight' = inflight + 1
      /\ inflight + 1 <= Capacity
  BY DEF Grow, Fits
<1>3. lease'[c] = lease[c] + 1 /\ lease' \in [Conn -> Nat]
      /\ \A d \in Conn : d # c => lease'[d] = lease[d]
  BY <1>1, <1>2
<1> QED BY <1>1, <1>2, <1>3 DEF Leased

LEMMA KeepLeases ==
    ASSUME ServerInv, NEW c \in Conn, UNCHANGED memory
    PROVE  Leased(c, lease[c]) /\ inflight' <= Capacity
<1>1. lease \in [Conn -> Nat] /\ lease[c] \in Nat /\ inflight \in Nat /\ inflight <= Capacity
  BY LeaseType
<1> QED BY <1>1 DEF Leased

LEMMA ServeStep ==
    ASSUME ServerInv, NEW w \in Worker, NEW l \in Busy \ {"account"}, Using(w), Goto(w, l),
           NEW n, Leased(job[w].conn, n), inflight' <= Capacity,
           l = "close" => n = 0, l = "deliver" => n > 0,
           UNCHANGED <<sys, acceptor, pool, clients, polled, left, control>>,
           cancelled' \subseteq Conn,
           l \in {"read", "recv", "parse"} => wpc[w] \in {"read", "recv", "parse"},
           wpc[w] \in Watching => l \in Watching \/ job[w] \notin entries',
           entries' \subseteq entries \cup {job[w]},
           job[w] \in entries' \ entries => wpc[w] = "parse" /\ l = "process"
    PROVE  ServerInv'
<1>1. Serving(w) /\ wpc' = [wpc EXCEPT ![w] = l] /\ job' = job /\ l \in Busy /\ l # "account"
  BY DEF Using, Goto
<1>2. Phases' /\ Places' /\ Pool' /\ NoLostWakeup'
  BY <1>1, BusyStep
<1>3. Descriptors'
  BY <1>1, BusyDescriptors DEF ServerInv, TypeOK
<1>4. Memory' /\ inflight' \in Nat
  BY <1>1, BusyMemory DEF Leased
<1>5. Watched'
  BY <1>1, BusyWatched
<1>6. TypeOK'
  <2>1. job[w] \in Job BY <1>1, JobTypes
  <2>2. entries' \subseteq Job BY <2>1 DEF ServerInv, TypeOK
  <2>3. wpc' \in [Worker -> Step] BY <1>1 DEF ServerInv, TypeOK, Step
  <2>4. lease' \in [Conn -> Nat] BY DEF Leased
  <2> QED BY <1>1, <1>4, <2>2, <2>3, <2>4 DEF ServerInv, TypeOK
<1> QED BY <1>2, <1>3, <1>4, <1>5, <1>6 DEF ServerInv

\* Before the request is parsed its socket is not watched.
LEMMA UnwatchedStep ==
    ASSUME ServerInv, NEW w \in Worker, NEW l \in Busy \ {"account"}, Goto(w, l),
           wpc[w] \in {"read", "recv", "parse"}, l \notin {"deliver"},
           NEW n, Leased(job[w].conn, n), inflight' <= Capacity, l = "close" => n = 0,
           UNCHANGED <<sys, acceptor, pool, clients, monitor, control>>
    PROVE  ServerInv'
<1>1. Using(w) BY DEF Using, Serving, Busy
<1>2. cancelled' \subseteq Conn BY DEF ServerInv, TypeOK
<1>3. wpc[w] \notin Watching BY DEF Watching
<1> QED BY <1>1, <1>2, <1>3, ServeStep

LEMMA ReadMoreStep == ASSUME ServerInv, NEW w \in Worker, ReadMore(w) PROVE ServerInv'
<1>1. job[w].conn \in Conn /\ wpc[w] = "read"
  BY JobTypes DEF ReadMore, Serving, Busy
<1>2. CASE stop
  <2>1. Goto(w, "close") /\ Release(job[w].conn) BY <1>2 DEF ReadMore
  <2> QED BY <1>1, <2>1, ReleaseLeases, UnwatchedStep DEF ReadMore, Busy
<1>3. CASE ~stop
  <2>1. Goto(w, "recv") /\ UNCHANGED memory BY <1>3 DEF ReadMore
  <2> QED BY <1>1, <2>1, KeepLeases, UnwatchedStep DEF ReadMore, Busy
<1> QED BY <1>2, <1>3

LEMMA BytesArriveStep == ASSUME ServerInv, NEW w \in Worker, BytesArrive(w) PROVE ServerInv'
<1>1. job[w].conn \in Conn /\ wpc[w] = "recv"
  BY JobTypes DEF BytesArrive, Serving, Busy
<1>2. CASE Grow(job[w].conn, 1) /\ (Goto(w, "read") \/ Goto(w, "parse"))
  BY <1>1, <1>2, GrowLeases, UnwatchedStep DEF BytesArrive, Busy
<1>3. CASE Release(job[w].conn) /\ Goto(w, "reply")
  BY <1>1, <1>3, ReleaseLeases, UnwatchedStep DEF BytesArrive, Busy
<1> QED BY <1>2, <1>3 DEF BytesArrive

LEMMA ReadEndsStep == ASSUME ServerInv, NEW w \in Worker, ReadEnds(w) PROVE ServerInv'
<1>1. job[w].conn \in Conn /\ wpc[w] = "recv"
  BY JobTypes DEF ReadEnds, Serving, Busy
<1>2. Leased(job[w].conn, 0) /\ inflight' <= Capacity
  BY <1>1, ReleaseLeases DEF ReadEnds
<1>3. Goto(w, "close") \/ Goto(w, "reply")
  BY DEF ReadEnds
<1> QED BY <1>1, <1>2, <1>3, UnwatchedStep DEF ReadEnds, Busy

LEMMA ParseFailsStep == ASSUME ServerInv, NEW w \in Worker, ParseFails(w) PROVE ServerInv'
<1>1. job[w].conn \in Conn /\ wpc[w] = "parse"
  BY JobTypes DEF ParseFails, Serving, Busy
<1> QED BY <1>1, ReleaseLeases, UnwatchedStep DEF ParseFails, Busy

LEMMA WatchIsJob == ASSUME ServerInv, NEW w \in Worker, Serving(w) PROVE Watch(w) = job[w]
BY JobTypes DEF Watch, Job

LEMMA ParseStep == ASSUME ServerInv, NEW w \in Worker, Parse(w) PROVE ServerInv'
<1>1. wpc[w] = "parse" /\ Using(w) /\ Serving(w)
  BY DEF Parse, Using, Serving, Busy
<1>2. job[w].conn \in Conn /\ Watch(w) = job[w]
  BY <1>1, JobTypes, WatchIsJob
<1>3. PICK c \in Conn : c = job[w].conn
  BY <1>2
<1>4. lease \in [Conn -> Nat] /\ lease[c] \in Nat /\ inflight \in Nat /\ Capacity \in Nat
  BY LeaseType
<1>5. lease' = [lease EXCEPT ![c] = 1] /\ inflight' = inflight + 1 - lease[c]
      /\ inflight + 1 <= Capacity
  BY <1>3 DEF Parse, Fits
<1>6. lease'[c] = 1 /\ lease' \in [Conn -> Nat] /\ \A d \in Conn : d # c => lease'[d] = lease[d]
  BY <1>4, <1>5
<1>7. Leased(job[w].conn, 1) /\ inflight' <= Capacity
  BY <1>3, <1>4, <1>5, <1>6 DEF Leased
<1>8. cancelled' \subseteq Conn
  BY DEF ServerInv, TypeOK, Parse
<1> QED BY <1>1, <1>2, <1>7, <1>8, ServeStep DEF Parse, Busy, Watching

LEMMA ProcessStep == ASSUME ServerInv, NEW w \in Worker, Process(w) PROVE ServerInv'
<1>1. wpc[w] = "process" /\ Using(w) /\ Serving(w)
  BY DEF Process, Using, Serving, Busy
<1>2. job[w].conn \in Conn
  BY <1>1, JobTypes
<1>3. Goto(w, "forward") \/ Goto(w, "reply")
  BY DEF Process
<1>4. cancelled' \subseteq Conn
  BY DEF ServerInv, TypeOK, Process
<1>5. Leased(job[w].conn, lease[job[w].conn]) /\ inflight' <= Capacity
  BY <1>2, KeepLeases DEF Process
<1> QED BY <1>1, <1>3, <1>4, <1>5, ServeStep DEF Process, Busy, Watching

LEMMA UpstreamChunkStep == ASSUME ServerInv, NEW w \in Worker, UpstreamChunk(w) PROVE ServerInv'
<1>1. wpc[w] = "forward" /\ Using(w) /\ Serving(w)
  BY DEF UpstreamChunk, Using, Serving, Busy
<1>2. job[w].conn \in Conn
  BY <1>1, JobTypes
<1>3. cancelled' \subseteq Conn
  BY DEF ServerInv, TypeOK, UpstreamChunk
<1>4. CASE Grow(job[w].conn, 1) /\ Goto(w, "deliver")
  <2>1. Leased(job[w].conn, lease[job[w].conn] + 1) /\ inflight' <= Capacity
        /\ lease[job[w].conn] + 1 > 0
    BY <1>2, <1>4, GrowLeases DEF Leased
  <2> QED BY <1>1, <1>3, <1>4, <2>1, ServeStep DEF UpstreamChunk, Busy, Watching
<1>5. CASE Goto(w, "reply") /\ UNCHANGED memory
  <2>1. Leased(job[w].conn, lease[job[w].conn]) /\ inflight' <= Capacity
    BY <1>2, <1>5, KeepLeases
  <2> QED BY <1>1, <1>3, <1>5, <2>1, ServeStep DEF UpstreamChunk, Busy, Watching
<1> QED BY <1>4, <1>5 DEF UpstreamChunk

LEMMA DeliverStep == ASSUME ServerInv, NEW w \in Worker, Deliver(w) PROVE ServerInv'
<1>1. wpc[w] = "deliver" /\ Using(w) /\ Serving(w)
  BY DEF Deliver, Using, Serving, Busy
<1>2. job[w].conn \in Conn
  BY <1>1, JobTypes
<1>3. PICK c \in Conn : c = job[w].conn
  BY <1>2
<1>4. lease \in [Conn -> Nat] /\ lease[c] \in Nat /\ lease[c] > 0 /\ inflight \in Nat
      /\ inflight <= Capacity /\ Capacity \in Nat
  BY <1>1, <1>3, LeaseType DEF ServerInv, Memory
<1>5. lease' = [lease EXCEPT ![c] = lease[c] - 1] /\ inflight' = inflight - 1
  BY <1>3 DEF Deliver, Shrink
<1>6. lease'[c] = lease[c] - 1 /\ lease' \in [Conn -> Nat]
      /\ \A d \in Conn : d # c => lease'[d] = lease[d]
  BY <1>4, <1>5
<1>7. Leased(job[w].conn, lease[c] - 1) /\ inflight' <= Capacity
  BY <1>3, <1>4, <1>5, <1>6 DEF Leased
<1>8. cancelled' \subseteq Conn
  BY <1>2 DEF ServerInv, TypeOK, Deliver
<1> QED BY <1>1, <1>7, <1>8, ServeStep DEF Deliver, Busy, Watching

LEMMA FinishStep ==
    ASSUME ServerInv, NEW w \in Worker, wpc[w] \in Watching, Finish(w)
    PROVE  ServerInv'
<1>1. Using(w) /\ Serving(w)
  BY DEF Watching, Using, Serving, Busy
<1>2. job[w].conn \in Conn /\ Watch(w) = job[w]
  BY <1>1, JobTypes, WatchIsJob
<1>3. Leased(job[w].conn, 0) /\ inflight' <= Capacity
  BY <1>2, ReleaseLeases DEF Finish
<1>4. cancelled' \subseteq Conn
  BY DEF ServerInv, TypeOK, Finish
<1> QED BY <1>1, <1>2, <1>3, <1>4, ServeStep DEF Finish, Busy

LEMMA RequestEnds ==
    ASSUME ServerInv, NEW w \in Worker, UpstreamEnds(w) \/ Cancelled(w) \/ Reply(w)
    PROVE  ServerInv'
BY FinishStep DEF UpstreamEnds, Cancelled, Reply, Watching

-----------------------------------------------------------------------------
(* A worker takes a job, closes its socket and is free again *)

LEMMA TakesJob ==
    ASSUME ServerInv, NEW w \in Worker, wpc[w] = "check", queue # <<>>,
           wpc' = [wpc EXCEPT ![w] = "read"], job' = [job EXCEPT ![w] = Head(queue)],
           queue' = Tail(queue), active' = active + 1,
           UNCHANGED <<sys, acceptor, open, accepting, clients, monitor, memory, control>>
    PROVE  ServerInv'
<1> USE DEF ServerInv
<1>1. /\ queue \in Seq(Job) /\ Len(queue) \in Nat \ {0} /\ Head(queue) = queue[1]
      /\ queue' \in Seq(Job) /\ Len(queue') = Len(queue) - 1
      /\ \A i \in 1 .. Len(queue') : queue'[i] = queue[i + 1]
  <2>1. queue \in Seq(Job) BY DEF TypeOK
  <2> QED BY <2>1
<1>2. Len(queue) \in Nat \ {0} /\ Len(queue') = Len(queue) - 1
  BY <1>1
<1>3. PICK j \in Job : j = queue[1]
  BY <1>1
<1>4. /\ 1 \in 1 .. Len(queue)
      /\ \A i \in 1 .. Len(queue') : i + 1 \in 1 .. Len(queue) /\ i + 1 # 1
      /\ \A i \in 1 .. Len(queue) : i # 1 => i - 1 \in 1 .. Len(queue') /\ (i - 1) + 1 = i
  BY <1>2
<1>5. /\ \A v \in Worker : v # w => wpc'[v] = wpc[v] /\ job'[v] = job[v]
      /\ wpc'[w] = "read" /\ job'[w] = j
      /\ wpc' \in [Worker -> Step] /\ job' \in [Worker -> Job \cup {None}]
  BY <1>1, <1>3 DEF TypeOK, Step, Busy
<1>6. /\ ~Serving(w) /\ Serving(w)' /\ \A v \in Worker : v # w => (Serving(v)' <=> Serving(v))
  BY <1>5 DEF Serving, Busy
<1>7. \A i \in 1 .. Len(queue') : \E k \in 1 .. Len(queue) : k # 1 /\ queue'[i] = queue[k]
  BY <1>1, <1>4
<1>8. Pending = Pending' \cup {j}
  <2>1. \A x : x \in Pending <=> \E i \in 1 .. Len(queue) : x = queue[i] BY DEF Pending
  <2>2. \A x : x \in Pending' <=> \E i \in 1 .. Len(queue') : x = queue'[i] BY DEF Pending
  <2>3. ASSUME NEW i \in 1 .. Len(queue) PROVE queue[i] \in Pending' \cup {j}
    <3>1. CASE i = 1 BY <1>3, <3>1
    <3>2. CASE i # 1
      <4>1. i - 1 \in 1 .. Len(queue') /\ (i - 1) + 1 = i BY <1>4, <3>2
      <4>2. queue'[i - 1] = queue[i] BY <1>1, <4>1
      <4> QED BY <2>2, <4>1, <4>2
    <3> QED BY <3>1, <3>2
  <2>4. \A x : x \in Pending' \cup {j} => x \in Pending BY <1>3, <1>4, <1>7, <2>1, <2>2
  <2> QED BY <2>1, <2>3, <2>4
<1>9. Held' = Held /\ Jobs' = Jobs
  <2>1. \A x : x \in {job[v] : v \in {v \in Worker : Serving(v)}}'
                 <=> x = j \/ x \in {job[v] : v \in {v \in Worker : Serving(v)}}
    BY <1>5, <1>6
  <2>2. ~Using(w) /\ Using(w)' /\ \A v \in Worker : v # w => (Using(v)' <=> Using(v))
    BY <1>5, <1>6 DEF Using
  <2>3. \A x : x \in {job[v] : v \in {v \in Worker : Using(v)}}'
                 <=> x = j \/ x \in {job[v] : v \in {v \in Worker : Using(v)}}
    BY <1>5, <2>2
  <2> QED BY <1>8, <2>1, <2>3 DEF Held, Jobs
<1>10. TypeOK'
  BY <1>1, <1>5 DEF TypeOK
<1>11. Phases'
  <2>1. 1 \in Worker BY ServerAssumption DEF Worker
  <2>2. rpc # "returned" BY DEF Phases
  <2>3. \A v \in Worker : wpc[v] # "exit" BY DEF Phases
  <2>4. \A v \in Worker : wpc'[v] # "exit" BY <1>5, <2>3
  <2>5. wpc'[1] # "none" BY <1>5, <2>1 DEF Phases
  <2>6. \A v \in Worker : Serving(v)' => job'[v] \in Job BY <1>5, <1>6 DEF Phases
  <2> QED BY <2>2, <2>4, <2>5, <2>6 DEF Phases
<1>12. Places'
  <2>1. \A c : (Waits(c)' <=> Waits(c)) /\ (InHand(c)' <=> InHand(c))
    BY DEF Waits, InHand
  <2>2. \A i \in 1 .. Len(queue') : ~Waits(queue'[i].conn) /\ ~InHand(queue'[i].conn)
                                    /\ queue'[i].conn # j.conn
    BY <1>3, <1>4, <1>7 DEF Places
  <2>3. \A i, k \in 1 .. Len(queue') : i # k => queue'[i].conn # queue'[k].conn
    <3> SUFFICES ASSUME NEW i \in 1 .. Len(queue'), NEW k \in 1 .. Len(queue'), i # k
                 PROVE  queue'[i].conn # queue'[k].conn
      OBVIOUS
    <3>1. i + 1 \in 1 .. Len(queue) /\ k + 1 \in 1 .. Len(queue) /\ i + 1 # k + 1 BY <1>4
    <3> QED BY <1>1, <3>1 DEF Places
  <2>4. ~Waits(j.conn) /\ ~InHand(j.conn)
    BY <1>3, <1>4 DEF Places
  <2>5. \A v \in Worker : Serving(v) =>
          ~Waits(job[v].conn) /\ ~InHand(job[v].conn) /\ job[v].conn # j.conn
          /\ \A i \in 1 .. Len(queue') : queue'[i].conn # job[v].conn
    BY <1>3, <1>4, <1>7 DEF Places
  <2>6. \A v, x \in Worker : Serving(x) /\ Serving(v) /\ v # x => job[v].conn # job[x].conn
    BY DEF Places
  <2>7. \A v \in Worker : Serving(v)' =>
          ~Waits(job'[v].conn) /\ ~InHand(job'[v].conn)
          /\ \A i \in 1 .. Len(queue') : queue'[i].conn # job'[v].conn
    BY <1>5, <1>6, <2>2, <2>4, <2>5
  <2>8. \A v, x \in Worker : Serving(x)' /\ Serving(v)' /\ v # x => job'[v].conn # job'[x].conn
    BY <1>5, <1>6, <2>5, <2>6
  <2>9. (\A c \in backlog' : peer'[c] # "new") /\ (Holding' => ~Waits(hand'.conn))
    BY DEF Places
  <2> QED BY <2>1, <2>2, <2>3, <2>7, <2>8, <2>9 DEF Places
<1>13. Descriptors'
  <2>1. HandlesOwned'
    <3> SUFFICES ASSUME ~closing
                 PROVE  /\ \A x \in Pending' : owner[x.handle] = x.conn
                        /\ \A v \in Worker : Serving(v)' /\ wpc'[v] # "account" =>
                              owner[job'[v].handle] = job'[v].conn
      BY DEF HandlesOwned
    <3>1. \A x \in Pending : owner[x.handle] = x.conn BY DEF Descriptors, HandlesOwned
    <3>2. \A v \in Worker : Serving(v) /\ wpc[v] # "account" => owner[job[v].handle] = job[v].conn
      BY DEF Descriptors, HandlesOwned
    <3> QED BY <1>5, <1>6, <1>8, <3>1, <3>2
  <2> QED BY <1>9, <2>1 DEF Descriptors
<1>14. Memory'
  <2>1. ~InService(j.conn)
    BY <1>3, <1>4 DEF InService, Places
  <2>2. lease[j.conn] = 0
    <3>1. j.conn \in Conn BY DEF Job
    <3>2. lease[j.conn] \in Nat BY <3>1 DEF TypeOK
    <3> QED BY <2>1, <3>1, <3>2 DEF Memory
  <2>3. Leases' = Leases
    BY <1>5, <1>6, <2>2 DEF Leases
  <2>4. \A c \in Conn : InService(c) => InService(c)'
    BY <1>5, <1>6 DEF InService
  <2>5. \A v \in Worker : wpc'[v] \in {"close", "account", "deliver"} =>
           wpc'[v] = wpc[v] /\ job'[v] = job[v]
    BY <1>5
  <2> QED BY <2>3, <2>4, <2>5 DEF Memory
<1>15. Pool'
  <2> DEFINE B == {v \in Worker : Serving(v)}
  <2>1. B' = B \cup {w} /\ w \notin B BY <1>6
  <2>2. IsFiniteSet(B)
    <3>1. IsFiniteSet(Worker) BY ServerAssumption, FS_Interval DEF Worker
    <3>2. B \subseteq Worker OBVIOUS
    <3> QED BY <3>1, <3>2, FS_Subset
  <2>3. Cardinality(B') = Cardinality(B) + 1 BY <2>1, <2>2, FS_AddElement
  <2>4. active = Cardinality(B) /\ open = Len(queue) + active /\ Cardinality(Held) = open
        /\ active \in Nat
    BY DEF Pool, PoolAccounted, TypeOK
  <2>5. active' = Cardinality(B') /\ open' = Len(queue') + active'
    BY <1>2, <2>3, <2>4
  <2> QED BY <1>9, <2>4, <2>5 DEF Pool, PoolAccounted
<1>16. NoLostWakeup'
  <2> DEFINE C == {v \in Worker : wpc[v] = "check"}
             D == {v \in Worker : wpc'[v] = "check"}
  <2>1. Waiting' = Waiting BY <1>5 DEF Waiting
  <2>2. D = C \ {w} /\ w \in C BY <1>5
  <2>3. IsFiniteSet(C)
    <3>1. IsFiniteSet(Worker) BY ServerAssumption, FS_Interval DEF Worker
    <3>2. C \subseteq Worker OBVIOUS
    <3> QED BY <3>1, <3>2, FS_Subset
  <2>4. Cardinality(D) = Cardinality(C) - 1 /\ Cardinality(C) \in Nat
    BY <2>2, <2>3, FS_RemoveElement, FS_CardinalityType
  <2>5. Waiting # {} => Len(queue) <= Cardinality(C) + (IF apc = "notify" THEN 1 ELSE 0)
    BY DEF NoLostWakeup
  <2>6. Waiting # {} => Len(queue') <= Cardinality(D) + (IF apc = "notify" THEN 1 ELSE 0)
    BY <1>2, <2>4, <2>5
  <2> QED BY <2>1, <2>6 DEF NoLostWakeup
<1>17. Watched'
  <2>1. ASSUME NEW x, Known(x) PROVE Known(x)'
    <3>1. ~Waits(x.conn)' /\ ~InHand(x.conn)' BY <2>1 DEF Known, Waits, InHand
    <3>2. \A i \in 1 .. Len(queue') : queue'[i].conn # x.conn BY <1>7, <2>1 DEF Known
    <3>3. j.conn # x.conn BY <1>3, <1>4, <2>1 DEF Known
    <3> QED BY <1>5, <1>6, <2>1, <3>1, <3>2, <3>3 DEF Known
  <2>2. \A e \in entries : \E v \in Worker : wpc'[v] \in Watching /\ job'[v] = e
    <3>1. \A v \in Worker : wpc[v] \in Watching => wpc'[v] = wpc[v] /\ job'[v] = job[v]
      BY <1>5 DEF Watching
    <3> QED BY <3>1 DEF Watched
  <2> QED BY <2>1, <2>2 DEF Watched
<1> QED BY <1>10, <1>11, <1>12, <1>13, <1>14, <1>15, <1>16, <1>17

\* A worker that finds nothing waits or ends.
LEMMA FindsNothing ==
    ASSUME ServerInv, NEW w \in Worker, wpc[w] = "check", queue = <<>>,
           wpc' = [wpc EXCEPT ![w] = IF accepting THEN "wait" ELSE "exit"], job' = job,
           UNCHANGED <<sys, acceptor, queue, active, open, accepting, clients, monitor, memory,
              control>>
    PROVE  ServerInv'
<1> USE DEF ServerInv
<1>1. /\ \A v \in Worker : v # w => wpc'[v] = wpc[v]
      /\ wpc'[w] = (IF accepting THEN "wait" ELSE "exit")
      /\ wpc' \in [Worker -> Step]
  BY DEF TypeOK, Step
<1>2. \A v \in Worker : (Serving(v)' <=> Serving(v)) /\ (Serving(v) => wpc'[v] = wpc[v])
  BY <1>1 DEF Serving, Busy
<1>3. TypeOK'
  BY <1>1 DEF TypeOK
<1>4. Phases'
  <2>1. 1 \in Worker BY ServerAssumption DEF Worker
  <2>2. rpc # "returned" BY DEF Phases
  <2>3. wpc'[1] # "none" BY <1>1, <2>1 DEF Phases
  <2>4. \A v \in Worker : wpc'[v] = "exit" => queue' = <<>> /\ ~accepting' BY <1>1 DEF Phases
  <2> QED BY <1>2, <2>2, <2>3, <2>4 DEF Phases
<1>5. Places'
  BY <1>2 DEF Places, Waits, InHand
<1>6. Jobs' = Jobs /\ Pending' = Pending /\ Held' = Held
  BY <1>2 DEF Jobs, Pending, Held, Using
<1>7. Descriptors'
  BY <1>2, <1>6 DEF Descriptors, HandlesOwned
<1>8. Memory'
  <2>1. Leases' = Leases BY <1>2 DEF Leases
  <2>2. \A c \in Conn : InService(c)' <=> InService(c) BY <1>2 DEF InService
  <2>3. \A v \in Worker : wpc'[v] \in {"close", "account", "deliver"} => wpc'[v] = wpc[v] BY <1>1
  <2> QED BY <2>1, <2>2, <2>3 DEF Memory
<1>9. Pool'
  <2>1. {v \in Worker : Serving(v)}' = {v \in Worker : Serving(v)} BY <1>2
  <2> QED BY <1>6, <2>1 DEF Pool, PoolAccounted
<1>10. NoLostWakeup'
  <2> DEFINE D == {v \in Worker : wpc'[v] = "check"}
  <2>1. IsFiniteSet(D)
    <3>1. IsFiniteSet(Worker) BY ServerAssumption, FS_Interval DEF Worker
    <3>2. D \subseteq Worker OBVIOUS
    <3> QED BY <3>1, <3>2, FS_Subset
  <2>2. Cardinality(D) \in Nat BY <2>1, FS_CardinalityType
  <2>3. Len(queue') = 0 OBVIOUS
  <2>4. Len(queue') <= Cardinality(D) + (IF apc' = "notify" THEN 1 ELSE 0) BY <2>2, <2>3
  <2> QED BY <2>4 DEF NoLostWakeup
<1>11. Watched'
  <2>1. \A x : Known(x)' <=> Known(x) BY <1>2 DEF Known, Waits, InHand
  <2>2. \A v \in Worker : wpc[v] \in Watching => wpc'[v] = wpc[v] BY <1>1 DEF Watching
  <2> QED BY <2>1, <2>2 DEF Watched
<1> QED BY <1>3, <1>4, <1>5, <1>7, <1>8, <1>9, <1>10, <1>11

LEMMA TakeJobStep == ASSUME ServerInv, NEW w \in Worker, TakeJob(w) PROVE ServerInv'
<1>1. CASE queue # <<>>
  BY <1>1, TakesJob DEF TakeJob
<1>2. CASE queue = <<>>
  BY <1>2, FindsNothing DEF TakeJob, Goto
<1> QED BY <1>1, <1>2

LEMMA CloseRegisteredStep ==
    ASSUME ServerInv, NEW w \in Worker, CloseRegistered(w)
    PROVE  ServerInv'
<1> USE DEF ServerInv
<1>0. /\ wpc[w] = "close" /\ registry' = registry \ {job[w].handle} /\ closing' = closing
      /\ owner' = (IF job[w].handle \in registry THEN [owner EXCEPT ![job[w].handle] = None] ELSE owner)
      /\ peer' = peer /\ wpc' = [wpc EXCEPT ![w] = "account"] /\ job' = job
      /\ UNCHANGED <<acceptor, pool, monitor, memory, control>>
  BY DEF CloseRegistered, Goto
<1>1. Serving(w) /\ Using(w) /\ "account" \in Busy
  BY <1>0 DEF Serving, Using, Busy
<1>2. PICK h \in Handle : h = job[w].handle
  BY <1>1, JobTypes
<1>3. PICK c \in Conn : c = job[w].conn
  BY <1>1, JobTypes
<1>4. /\ Phases' /\ Places' /\ Pool' /\ NoLostWakeup'
      /\ \A v \in Worker : Serving(v)' <=> Serving(v)
      /\ \A v \in Worker : v # w => wpc'[v] = wpc[v]
      /\ wpc'[w] = "account"
  BY <1>0, <1>1, BusyStep
<1>5. TypeOK'
  <2>1. owner' \in [Handle -> Conn \cup {Other, None}] BY <1>0 DEF TypeOK
  <2>2. wpc' \in [Worker -> Step] BY <1>0 DEF TypeOK, Step, Busy
  <2> QED BY <1>0, <2>1, <2>2 DEF TypeOK
<1>6. Memory'
  <2>1. lease[job[w].conn] = 0 /\ lease' = lease /\ inflight' = inflight BY <1>0 DEF Memory
  <2>2. lease \in [Conn -> Nat] /\ inflight \in Nat /\ inflight <= Capacity BY DEF TypeOK, Memory
  <2>3. inflight' = inflight + lease'[job[w].conn] - lease[job[w].conn] BY <2>1, <2>2
  <2> QED BY <1>0, <1>1, <2>1, <2>2, <2>3, BusyMemory
<1>7. Watched'
  BY <1>0, <1>1, BusyWatched DEF Watching
<1>8. Descriptors'
  <2>1. \A v \in Worker : Using(v)' <=> Using(v) /\ v # w
    BY <1>4 DEF Using
  <2>2. Pending' = Pending
    BY <1>0 DEF Pending
  <2>3. \A x \in Jobs' : x \in Jobs /\ x.conn # c
    <3>1. \A v \in Worker : Using(v)' => job[v].conn # c /\ Using(v)
      BY <1>1, <1>3, <2>1 DEF Places, Using
    <3>2. \A i \in 1 .. Len(queue) : queue[i].conn # c
      BY <1>1, <1>3 DEF Places
    <3> QED BY <1>0, <2>2, <3>1, <3>2 DEF Jobs, Pending
  <2>4. CASE closing
    <3>1. registry = {} BY <2>4 DEF Descriptors
    <3>2. owner' = owner /\ registry' = {} BY <1>0, <3>1
    <3> QED BY <1>0, <2>4, <3>1, <3>2 DEF Descriptors, HandlesOwned
  <2>5. CASE ~closing
    <3>1. owner[h] = c BY <1>0, <1>1, <1>2, <1>3, <2>5 DEF Descriptors, HandlesOwned
    <3>2. \A x \in Handle : x # h => owner'[x] = owner[x] BY <1>0, <1>2 DEF TypeOK
    <3>3. \A x \in Jobs' : x.handle # h /\ owner'[x.handle] = x.conn
      BY <2>3, <2>5, <3>1, <3>2, JobsPlaced DEF Job
    <3>4. HandlesOwned'
      BY <1>0, <1>4, <2>1, <2>2, <3>3 DEF HandlesOwned, Jobs, Using
    <3>5. Holding => hand.handle # h /\ owner'[hand.handle] = hand.conn
      <4>1. Holding => hand.conn # c BY <1>1, <1>3 DEF Places, InHand
      <4>2. Holding => hand.handle \in Handle /\ owner[hand.handle] = hand.conn
        BY JobTypes DEF Descriptors
      <4> QED BY <3>1, <3>2, <4>1, <4>2
    <3>6. \A x \in registry' : \E y \in Jobs' : y.handle = x
      <4> SUFFICES ASSUME NEW x \in registry' PROVE \E y \in Jobs' : y.handle = x
        OBVIOUS
      <4>1. x \in registry /\ x # h BY <1>0, <1>2
      <4>2. PICK y \in Jobs : y.handle = x BY <4>1 DEF Descriptors
      <4>3. y # job[w] BY <1>2, <4>1, <4>2
      <4>4. y \in Jobs'
        BY <1>0, <2>1, <2>2, <4>3 DEF Jobs
      <4> QED BY <4>2, <4>4
    <3>7. \A x \in Handle : owner'[x] \in Conn => x \in registry'
              \/ (Holding' /\ hand'.handle = x)
      <4>1. owner'[h] \in Conn => h \notin registry
        BY <1>0, <1>2, ServerAssumption DEF TypeOK
      <4>2. \A x \in Handle : x # h => (x \in registry' <=> x \in registry)
        BY <1>0, <1>2
      <4>3. h \in registry
        BY <3>1, <3>5 DEF Descriptors
      <4> QED BY <1>0, <3>2, <4>1, <4>2, <4>3 DEF Descriptors
    <3> QED BY <1>0, <2>5, <3>4, <3>5, <3>6, <3>7 DEF Descriptors
  <2> QED BY <2>4, <2>5 DEF TypeOK
<1> QED BY <1>4, <1>5, <1>6, <1>7, <1>8

LEMMA AccountStep ==
    ASSUME ServerInv, NEW w \in Worker, Account(w)
    PROVE  ServerInv'
<1> USE DEF ServerInv
<1>0. /\ wpc[w] = "account" /\ active' = active - 1 /\ open' = open - 1
      /\ wpc' = [wpc EXCEPT ![w] = "check"] /\ job' = [job EXCEPT ![w] = None]
      /\ UNCHANGED <<sys, acceptor, queue, accepting, clients, monitor, memory, control>>
  BY DEF Account
<1>1. /\ \A v \in Worker : v # w => wpc'[v] = wpc[v] /\ job'[v] = job[v]
      /\ wpc'[w] = "check"
      /\ wpc' \in [Worker -> Step] /\ job' \in [Worker -> Job \cup {None}]
  BY <1>0 DEF TypeOK, Step
<1>2. Serving(w) /\ ~Serving(w)' /\ \A v \in Worker : v # w => (Serving(v)' <=> Serving(v))
  BY <1>0, <1>1 DEF Serving, Busy
<1>3. PICK c \in Conn : c = job[w].conn
  BY <1>2, JobTypes
<1>4. /\ \A v \in Worker : Serving(v) /\ v # w => job[v].conn # c
      /\ \A i \in 1 .. Len(queue) : queue[i].conn # c
  BY <1>2, <1>3 DEF Places
<1>5. Pending' = Pending
  BY <1>0 DEF Pending
<1>6. Held' = Held \ {job[w]} /\ job[w] \in Held
  <2>1. \A x : x \in Held <=> x \in Pending \/ \E v \in Worker : Serving(v) /\ x = job[v]
    BY DEF Held
  <2>2. \A x : x \in Held' <=> x \in Pending \/ \E v \in Worker : Serving(v)' /\ x = job'[v]
    BY <1>5 DEF Held
  <2>3. job[w] \notin Pending
    BY <1>3, <1>4 DEF Pending
  <2>4. \A x \in Held' : x \in Held \ {job[w]}
    BY <1>1, <1>2, <1>3, <1>4, <2>1, <2>2, <2>3
  <2>5. \A x \in Held \ {job[w]} : x \in Held'
    BY <1>1, <1>2, <2>1, <2>2
  <2> QED BY <1>2, <2>1, <2>4, <2>5
<1>7. Jobs' = Jobs
  <2>1. ~Using(w) /\ ~Using(w)' BY <1>0, <1>2 DEF Using
  <2>2. \A v \in Worker : v # w => (Using(v)' <=> Using(v)) BY <1>1, <1>2 DEF Using
  <2> QED BY <1>1, <1>5, <2>1, <2>2 DEF Jobs
<1>8. active \in Nat /\ open \in Nat /\ active # 0 /\ Len(queue) \in Nat
      /\ open = Len(queue) + active
      /\ active' = Cardinality({v \in Worker : Serving(v)}')
  <2> DEFINE B == {v \in Worker : Serving(v)}
  <2>1. IsFiniteSet(B)
    <3>1. IsFiniteSet(Worker) BY ServerAssumption, FS_Interval DEF Worker
    <3>2. B \subseteq Worker OBVIOUS
    <3> QED BY <3>1, <3>2, FS_Subset
  <2>2. B' = B \ {w} /\ w \in B BY <1>2
  <2>3. Cardinality(B') = Cardinality(B) - 1 /\ Cardinality(B) \in Nat /\ B # {}
    BY <2>1, <2>2, FS_RemoveElement, FS_CardinalityType
  <2>4. Cardinality(B) # 0 BY <2>1, <2>3, FS_EmptySet
  <2>5. active = Cardinality(B) /\ open = Len(queue) + active BY DEF Pool, PoolAccounted
  <2>6. queue \in Seq(Job) BY DEF TypeOK
  <2>7. Len(queue) \in Nat BY <2>6
  <2> QED BY <1>0, <2>3, <2>4, <2>5, <2>7
<1>9. active' \in Nat /\ open' \in Nat /\ open' = Len(queue) + active'
  BY <1>0, <1>8
<1>10. TypeOK'
  BY <1>0, <1>1, <1>9 DEF TypeOK
<1>11. Phases'
  <2>1. 1 \in Worker BY ServerAssumption DEF Worker
  <2>2. rpc # "returned" BY <1>0 DEF Phases
  <2>3. \A v \in Worker : wpc'[v] = "exit" => wpc[v] = "exit" BY <1>1
  <2>4. wpc'[1] # "none" BY <1>1, <2>1 DEF Phases
  <2>5. \A v \in Worker : Serving(v)' => job'[v] \in Job BY <1>1, <1>2 DEF Phases
  <2> QED BY <1>0, <2>2, <2>3, <2>4, <2>5 DEF Phases
<1>12. Places'
  <2>1. \A d : (Waits(d)' <=> Waits(d)) /\ (InHand(d)' <=> InHand(d))
    BY <1>0 DEF Waits, InHand
  <2>2. \A v \in Worker : Serving(v)' => Serving(v) /\ job'[v] = job[v]
    BY <1>1, <1>2
  <2> QED BY <1>0, <2>1, <2>2 DEF Places
<1>13. Descriptors'
  <2>1. HandlesOwned'
    BY <1>0, <1>1, <1>2, <1>5 DEF Descriptors, HandlesOwned
  <2> QED BY <1>0, <1>7, <2>1 DEF Descriptors
<1>14. Memory'
  <2>1. lease[c] = 0 BY <1>0, <1>3 DEF Memory
  <2>2. Leases' = Leases
    BY <1>0, <1>1, <1>2, <1>3, <2>1 DEF Leases
  <2>3. \A d \in Conn : d # c => (InService(d) => InService(d)')
    BY <1>1, <1>2, <1>3 DEF InService
  <2>4. \A d \in Conn : lease[d] > 0 => InService(d)'
    <3>1. ~(lease[c] > 0) BY <2>1
    <3> QED BY <2>3, <3>1 DEF Memory
  <2>5. \A v \in Worker : wpc'[v] \in {"close", "account", "deliver"} =>
           wpc'[v] = wpc[v] /\ job'[v] = job[v]
    BY <1>1
  <2> QED BY <1>0, <2>2, <2>4, <2>5 DEF Memory
<1>15. Pool'
  <2>1. IsFiniteSet(Held') /\ Cardinality(Held') = Cardinality(Held) - 1
    BY <1>6, FS_RemoveElement DEF Pool
  <2> QED BY <1>0, <1>8, <1>9, <2>1 DEF Pool, PoolAccounted
<1>16. NoLostWakeup'
  <2> DEFINE C == {v \in Worker : wpc[v] = "check"}
             D == {v \in Worker : wpc'[v] = "check"}
  <2>1. Waiting' = Waiting BY <1>0, <1>1 DEF Waiting
  <2>2. D = C \cup {w} /\ w \notin C BY <1>0, <1>1
  <2>3. IsFiniteSet(C)
    <3>1. IsFiniteSet(Worker) BY ServerAssumption, FS_Interval DEF Worker
    <3>2. C \subseteq Worker OBVIOUS
    <3> QED BY <3>1, <3>2, FS_Subset
  <2>4. Cardinality(D) = Cardinality(C) + 1 /\ Cardinality(C) \in Nat
    BY <2>2, <2>3, FS_AddElement, FS_CardinalityType
  <2>5. Waiting # {} => Len(queue) <= Cardinality(C) + (IF apc = "notify" THEN 1 ELSE 0)
    BY DEF NoLostWakeup
  <2>6. Waiting # {} => Len(queue) <= Cardinality(D) + (IF apc = "notify" THEN 1 ELSE 0)
    BY <1>8, <2>4, <2>5
  <2> QED BY <1>0, <2>1, <2>6 DEF NoLostWakeup
<1>17. Watched'
  <2>1. ASSUME NEW x, Known(x) PROVE Known(x)'
    BY <1>0, <1>1, <1>2, <2>1 DEF Known, Waits, InHand
  <2>2. \A v \in Worker : wpc[v] \in Watching => wpc'[v] = wpc[v] /\ job'[v] = job[v]
    BY <1>0, <1>1 DEF Watching
  <2> QED BY <1>0, <2>1, <2>2 DEF Watched
<1> QED BY <1>10, <1>11, <1>12, <1>13, <1>14, <1>15, <1>16, <1>17
-----------------------------------------------------------------------------
(* The monitor *)

\* A step of the monitor changes what it has copied and what is cancelled.
LEMMA MonitorMoves ==
    ASSUME ServerInv, polled' \in (SUBSET Job) \cup {None}, left' \in (SUBSET Job) \cup {None},
           cancelled' \subseteq Conn, Watched',
           UNCHANGED <<sys, acceptor, pool, work, clients, entries, memory, control>>
    PROVE  ServerInv'
<1>1. TypeOK'
  BY DEF ServerInv, TypeOK
<1>2. Phases' /\ Places' /\ Descriptors' /\ Memory' /\ Pool' /\ NoLostWakeup'
  BY KeepPhases, KeepPlaces, KeepDescriptors, KeepMemory, KeepPool, KeepNoLostWakeup
  DEF ServerInv
<1> QED BY <1>1, <1>2 DEF ServerInv

LEMMA KeepKnown ==
    ASSUME UNCHANGED <<sys, acceptor, pool, work>>, NEW x
    PROVE  Known(x)' <=> Known(x)
BY DEF Known, Waits, InHand, Serving

LEMMA CopyEntriesStep == ASSUME ServerInv, CopyEntries PROVE ServerInv'
<1>0. /\ polled' = entries /\ left = None
      /\ UNCHANGED <<sys, acceptor, pool, work, clients, entries, left, cancelled>>
      /\ UNCHANGED <<memory, control>>
  BY DEF CopyEntries
<1>1. entries \subseteq Job /\ cancelled \subseteq Conn
  BY DEF ServerInv, TypeOK
<1>2. Watched'
  BY <1>0, KeepKnown DEF ServerInv, Watched
<1> QED BY <1>0, <1>1, <1>2, MonitorMoves

\* Of a request in progress, poll reports the disconnect of its own client.
LEMMA PollStep == ASSUME ServerInv, Poll PROVE ServerInv'
<1>0. /\ polled # None /\ polled' = None
      /\ UNCHANGED <<sys, acceptor, pool, work, clients, entries, cancelled>>
      /\ UNCHANGED <<memory, control>>
  BY DEF Poll
<1>1. PICK gone \in SUBSET polled :
        /\ \A e \in polled : (e \in gone) \in Disconnected(e.handle)
        /\ left' = IF gone = {} THEN None ELSE gone
  BY DEF Poll
<1>2. polled \subseteq Job /\ cancelled \subseteq Conn /\ entries \subseteq Job
  BY <1>0 DEF ServerInv, TypeOK
<1>3. ASSUME NEW g \in gone, NEW e \in entries, g.conn = e.conn, ~closing
      PROVE  peer[g.conn] = "gone"
  <2>1. PICK w \in Worker : wpc[w] \in Watching /\ job[w] = e
    BY DEF ServerInv, Watched
  <2>2. Serving(w) /\ wpc[w] # "account" BY <2>1 DEF Serving, Busy, Watching
  <2>3. Known(g) BY <1>0 DEF ServerInv, Watched
  <2>4. job[w] = g BY <1>3, <2>1, <2>2, <2>3 DEF Known
  <2>5. owner[g.handle] = g.conn
    BY <1>3, <2>2, <2>4 DEF ServerInv, Descriptors, HandlesOwned
  <2>6. g.conn \in Conn BY <1>2 DEF Job
  <2>7. Disconnected(g.handle) = {peer[g.conn] = "gone"}
    <3>1. owner[g.handle] # None /\ owner[g.handle] # Other BY <2>5, <2>6, ServerAssumption
    <3> QED BY <2>5, <3>1 DEF Disconnected
  <2>8. (g \in gone) \in Disconnected(g.handle) BY <1>1
  <2>9. (g \in gone) = (peer[g.conn] = "gone") BY <2>7, <2>8
  <2> QED BY <2>9
<1>4. Watched'
  <2>1. left' # None => left' = gone BY <1>1
  <2>2. \A e \in gone : Known(e)'
    BY <1>0, KeepKnown DEF ServerInv, Watched
  <2>3. \A e \in entries : Known(e)'
    BY <1>0, KeepKnown DEF ServerInv, Watched
  <2>4. \A e \in entries : \E w \in Worker : wpc[w] \in Watching /\ job[w] = e
    BY DEF ServerInv, Watched
  <2> QED BY <1>0, <1>3, <2>1, <2>2, <2>3, <2>4 DEF Watched
<1> QED BY <1>0, <1>1, <1>2, <1>4, MonitorMoves

LEMMA CancelLeftStep == ASSUME ServerInv, CancelLeft PROVE ServerInv'
<1>0. /\ left # None /\ left' = None /\ cancelled' = cancelled \cup {e.conn : e \in left}
      /\ UNCHANGED <<sys, acceptor, pool, work, clients, entries, polled, memory, control>>
  BY DEF CancelLeft
<1>1. polled' \in (SUBSET Job) \cup {None} /\ cancelled' \subseteq Conn
  <2>1. left \subseteq Job /\ cancelled \subseteq Conn /\ polled \in (SUBSET Job) \cup {None}
    BY <1>0 DEF ServerInv, TypeOK
  <2>2. \A e \in left : e.conn \in Conn BY <2>1 DEF Job
  <2> QED BY <1>0, <2>1, <2>2
<1>2. Watched'
  BY <1>0, KeepKnown DEF ServerInv, Watched
<1> QED BY <1>0, <1>1, <1>2, MonitorMoves

-----------------------------------------------------------------------------
(* Reload, request_stop and the end of run() *)

\* A new generation or a request to stop touches nothing of the above.
LEMMA ControlStep ==
    ASSUME ServerInv,
           (\E n \in Limits : Reload(n)) \/ (\E signal \in BOOLEAN : RequestStop(signal))
    PROVE  ServerInv'
<1>0. /\ maxConn' \in Limits /\ stop' \in BOOLEAN /\ shutting' \in BOOLEAN
      /\ reloads' \in Nat /\ asked' \in BOOLEAN
      /\ UNCHANGED <<sys, acceptor, pool, work, clients, monitor, memory, rpc, others>>
  <2>1. /\ maxConn \in Limits /\ stop \in BOOLEAN /\ shutting \in BOOLEAN
        /\ reloads \in Nat /\ asked \in BOOLEAN
    BY DEF ServerInv, TypeOK
  <2>2. ASSUME NEW n \in Limits, Reload(n)
        PROVE  /\ maxConn' \in Limits /\ reloads' = reloads + 1
               /\ UNCHANGED <<stop, shutting, asked, rpc, others>>
               /\ UNCHANGED <<sys, acceptor, pool, work, clients, monitor, memory>>
    BY <2>2 DEF Reload
  <2>3. ASSUME NEW signal \in BOOLEAN, RequestStop(signal)
        PROVE  /\ stop' = TRUE /\ asked' = TRUE /\ shutting' \in BOOLEAN
               /\ UNCHANGED <<maxConn, reloads, rpc, others>>
               /\ UNCHANGED <<sys, acceptor, pool, work, clients, monitor, memory>>
    BY <2>3 DEF RequestStop
  <2>4. CASE \E n \in Limits : Reload(n) BY <2>1, <2>2, <2>4
  <2>5. CASE \E signal \in BOOLEAN : RequestStop(signal) BY <2>1, <2>3, <2>5
  <2> QED BY <2>4, <2>5
<1>1. TypeOK'
  BY <1>0 DEF ServerInv, TypeOK
<1>2. Phases' /\ Places' /\ Descriptors' /\ Memory' /\ Pool' /\ NoLostWakeup' /\ Watched'
  BY <1>0, KeepPhases, KeepPlaces, KeepDescriptors, KeepMemory, KeepPool, KeepNoLostWakeup,
     KeepWatched
  DEF ServerInv
<1> QED BY <1>1, <1>2 DEF ServerInv

\* close_all closes the registered sockets, which all are clients'.
LEMMA CloseAllStep ==
    ASSUME ServerInv, CloseAll, shutting' \in BOOLEAN,
           rpc' = rpc \/ (rpc = "close" /\ rpc' = "flag"),
           UNCHANGED <<maxConn, stop, reloads, others, asked>>
    PROVE  ServerInv'
<1>0. /\ closing' = TRUE /\ registry' = {}
      /\ owner' = [h \in Handle |-> IF h \in registry THEN None ELSE owner[h]]
      /\ UNCHANGED <<peer, acceptor, pool, work, monitor, memory>>
  BY DEF CloseAll
<1>1. TypeOK'
  BY <1>0 DEF ServerInv, TypeOK
<1>2. Phases'
  BY <1>0 DEF ServerInv, Phases, Serving
<1>3. Places' /\ Memory' /\ Pool' /\ NoLostWakeup'
  BY <1>0, KeepPlaces, KeepMemory, KeepPool, KeepNoLostWakeup DEF ServerInv
<1>4. Descriptors'
  <2>1. HandlesOwned' BY <1>0 DEF HandlesOwned
  <2>2. Holding => owner'[hand.handle] = hand.conn
    <3> SUFFICES ASSUME Holding PROVE owner'[hand.handle] = hand.conn
      OBVIOUS
    <3>1. hand.handle \in Handle /\ hand.handle \notin registry BY JobTypes, RegistryOwned
    <3> QED BY <1>0, <3>1 DEF ServerInv, Descriptors
  <2>3. \A h \in Handle : owner'[h] \in Conn => Holding /\ hand.handle = h
    BY <1>0, ServerAssumption DEF ServerInv, Descriptors
  <2> QED BY <1>0, <2>1, <2>2, <2>3 DEF Descriptors
<1>5. Watched'
  <2>1. entries \subseteq Job /\ polled \in (SUBSET Job) \cup {None}
          /\ left \in (SUBSET Job) \cup {None}
    BY DEF ServerInv, TypeOK
  <2>2. \A c \in Conn : ~Waits(c) /\ ~InHand(c) => ~Waits(c)' /\ ~InHand(c)'
    BY <1>0 DEF Waits, InHand
  <2> QED BY <1>0, <2>1, <2>2, WatchedMoves DEF ServerInv
<1> QED BY <1>1, <1>2, <1>3, <1>4, <1>5 DEF ServerInv

LEMMA ShutdownClientsStep == ASSUME ServerInv, ShutdownClients PROVE ServerInv'
BY CloseAllStep DEF ShutdownClients

LEMMA CloseClientsStep == ASSUME ServerInv, CloseClients PROVE ServerInv'
<1>1. shutting' \in BOOLEAN BY DEF CloseClients, ServerInv, TypeOK
<1> QED BY <1>1, CloseAllStep DEF CloseClients

LEMMA JoinAcceptorStep == ASSUME ServerInv, JoinAcceptor PROVE ServerInv'
<1>0. /\ rpc = "serve" /\ apc = "exit" /\ rpc' = "close" /\ backlog' = {}
      /\ UNCHANGED <<sys, apc, hand, pool, work, clients, monitor, memory>>
      /\ UNCHANGED <<maxConn, stop, shutting, reloads, others, asked>>
  BY DEF JoinAcceptor
<1>1. TypeOK'
  BY <1>0 DEF ServerInv, TypeOK
<1>2. Phases'
  BY <1>0 DEF ServerInv, Phases, Serving
<1>3. Descriptors' /\ Memory' /\ Pool' /\ NoLostWakeup'
  BY <1>0, KeepDescriptors, KeepMemory, KeepPool, KeepNoLostWakeup DEF ServerInv
<1>4. \A c : ~Waits(c) /\ ~InHand(c) => ~Waits(c)' /\ ~InHand(c)'
  BY <1>0 DEF Waits, InHand
<1>5. Places'
  <2>1. \A w \in Worker : Serving(w)' <=> Serving(w) BY <1>0 DEF Serving
  <2> QED BY <1>0, <1>4, <2>1 DEF ServerInv, Places
<1>6. Watched'
  <2>1. entries \subseteq Job /\ polled \in (SUBSET Job) \cup {None}
          /\ left \in (SUBSET Job) \cup {None}
    BY DEF ServerInv, TypeOK
  <2> QED BY <1>0, <1>4, <2>1, WatchedMoves DEF ServerInv
<1> QED BY <1>1, <1>2, <1>3, <1>5, <1>6 DEF ServerInv

\* notify_all leaves nobody waiting.
LEMMA AcceptingDoneStep == ASSUME ServerInv, AcceptingDone PROVE ServerInv'
<1>0. /\ rpc = "flag" /\ rpc' = "join" /\ accepting' = FALSE
      /\ UNCHANGED <<sys, acceptor, queue, open, active, job, clients, monitor, memory>>
      /\ UNCHANGED <<maxConn, stop, shutting, reloads, others, asked>>
  BY DEF AcceptingDone
<1>1. /\ wpc' \in [Worker -> Step]
      /\ \A w \in Worker : wpc'[w] = IF wpc[w] = "wait" THEN "check" ELSE wpc[w]
  BY DEF AcceptingDone, ServerInv, TypeOK, Step
<1>2. apc = "exit" /\ closing
  BY <1>0 DEF ServerInv, Phases
<1>3. /\ Places' /\ Descriptors' /\ Memory' /\ Pool' /\ Watched'
      /\ \A w \in Worker : Serving(w)' <=> Serving(w)
  BY <1>0, <1>1, <1>2, Woken
<1>4. TypeOK'
  BY <1>0, <1>1 DEF ServerInv, TypeOK
<1>5. Phases'
  <2>1. 1 \in Worker BY ServerAssumption DEF Worker
  <2>2. wpc'[1] # "none" BY <1>1, <2>1 DEF ServerInv, Phases
  <2>3. \A w \in Worker : wpc'[w] = "exit" => queue' = <<>> BY <1>0, <1>1 DEF ServerInv, Phases
  <2>4. \A w \in Worker : Serving(w)' => job'[w] \in Job BY <1>0, <1>3 DEF ServerInv, Phases
  <2> QED BY <1>0, <1>2, <2>2, <2>3, <2>4 DEF ServerInv, Phases
<1>6. NoLostWakeup'
  <2>1. Waiting' = {} BY <1>1 DEF Waiting
  <2> QED BY <2>1 DEF NoLostWakeup
<1> QED BY <1>3, <1>4, <1>5, <1>6 DEF ServerInv

LEMMA JoinWorkersStep == ASSUME ServerInv, JoinWorkers PROVE ServerInv'
<1>0. /\ rpc = "join" /\ rpc' = "returned" /\ polled' = None /\ left' = None
      /\ \A w \in Worker : wpc[w] \in {"none", "exit"}
      /\ UNCHANGED <<sys, acceptor, pool, work, clients, entries, cancelled, memory>>
      /\ UNCHANGED <<maxConn, stop, shutting, reloads, others, asked>>
  BY DEF JoinWorkers, Workers
<1>1. TypeOK'
  BY <1>0 DEF ServerInv, TypeOK
<1>2. Phases'
  BY <1>0 DEF ServerInv, Phases, Serving
<1>3. Places' /\ Descriptors' /\ Memory' /\ Pool' /\ NoLostWakeup'
  BY <1>0, KeepPlaces, KeepDescriptors, KeepMemory, KeepPool, KeepNoLostWakeup DEF ServerInv
<1>4. Watched'
  BY <1>0, KeepKnown DEF ServerInv, Watched
<1> QED BY <1>1, <1>2, <1>3, <1>4 DEF ServerInv
-----------------------------------------------------------------------------
(* The invariant *)

LEMMA ServerInit == Init => ServerInv
<1> SUFFICES ASSUME Init PROVE ServerInv
  OBVIOUS
<1>1. /\ owner = [h \in Handle |-> None] /\ peer = [c \in Conn |-> "new"]
      /\ apc = "accept" /\ hand = None /\ backlog = {}
      /\ queue = <<>> /\ open = 0 /\ active = 0 /\ accepting = TRUE
      /\ registry = {} /\ closing = FALSE
      /\ entries = {} /\ polled = None /\ left = None /\ cancelled = {}
      /\ lease = [c \in Conn |-> 0] /\ inflight = 0 /\ rpc = "serve"
  BY DEF Init
<1>2. /\ wpc \in [Worker -> {"check", "none"}] /\ job = [w \in Worker |-> None]
      /\ wpc[1] = "check"
  <2>1. 1 \in Worker /\ 1 <= Prewarm BY ServerAssumption DEF Worker
  <2> QED BY <2>1 DEF Init
<1>3. \A w \in Worker : ~Serving(w) /\ wpc[w] \notin {"exit", "wait"}
  BY <1>2 DEF Serving, Busy
<1>4. Len(queue) = 0 /\ \A i \in 1 .. Len(queue) : FALSE
  BY <1>1
<1>5. TypeOK
  <2>1. wpc \in [Worker -> Step] BY <1>2 DEF Step
  <2>2. queue \in Seq(Job) BY <1>1
  <2>3. job \in [Worker -> Job \cup {None}] BY <1>2
  <2>4. /\ maxConn \in Limits /\ stop \in BOOLEAN /\ shutting \in BOOLEAN
        /\ reloads \in Nat /\ others \in Nat /\ asked \in BOOLEAN
    BY DEF Init
  <2>5. /\ owner \in [Handle -> Conn \cup {Other, None}]
        /\ peer \in [Conn -> {"new", "open", "gone"}] /\ lease \in [Conn -> Nat]
    BY <1>1
  <2>6. /\ hand \in Job \cup {None} /\ polled \in (SUBSET Job) \cup {None}
        /\ left \in (SUBSET Job) \cup {None}
    BY <1>1
  <2> QED BY <1>1, <2>1, <2>2, <2>3, <2>4, <2>5, <2>6 DEF TypeOK
<1>6. Phases
  BY <1>1, <1>2, <1>3 DEF Phases
<1>7. Places
  BY <1>1, <1>3, <1>4 DEF Places
<1>8. Pending = {} /\ Held = {}
  BY <1>3, <1>4 DEF Pending, Held
<1>9. Descriptors
  BY <1>1, <1>3, <1>8, ServerAssumption DEF Descriptors, HandlesOwned
<1>10. Memory
  <2>1. \A w \in 1 .. WorkerLimit : Leases[w] = 0 BY <1>3 DEF Leases, Worker
  <2>2. SumTo(Leases, WorkerLimit) = 0 BY <2>1, SumOfZeros, ServerAssumption
  <2>3. \A c \in Conn : ~(lease[c] > 0) BY <1>1
  <2>4. \A w \in Worker : wpc[w] \notin {"close", "account", "deliver"} BY <1>2
  <2> QED BY <1>1, <2>2, <2>3, <2>4, ServerAssumption DEF Memory
<1>11. Pool
  <2>1. {w \in Worker : Serving(w)} = {} BY <1>3
  <2>2. IsFiniteSet({}) /\ Cardinality({}) = 0 BY FS_EmptySet
  <2>3. active = Cardinality({w \in Worker : Serving(w)}) BY <1>1, <2>1, <2>2
  <2>4. open = Len(queue) + active BY <1>1, <1>4
  <2>5. Cardinality(Held) = open /\ IsFiniteSet(Held) BY <1>1, <1>8, <2>2
  <2> QED BY <2>3, <2>4, <2>5 DEF Pool, PoolAccounted
<1>12. NoLostWakeup
  BY <1>3 DEF NoLostWakeup, Waiting
<1>13. Watched
  BY <1>1 DEF Watched
<1> QED BY <1>5, <1>6, <1>7, <1>9, <1>10, <1>11, <1>12, <1>13 DEF ServerInv

LEMMA ServerStep == ServerInv /\ [Next]_vars => ServerInv'
<1> SUFFICES ASSUME ServerInv, [Next]_vars PROVE ServerInv'
  OBVIOUS
<1>1. CASE UNCHANGED vars
  <2>1. UNCHANGED <<sys, acceptor, pool, work, clients, monitor, memory, control>>
    BY <1>1 DEF vars
  <2>2. TypeOK' BY <2>1 DEF ServerInv, TypeOK
  <2> QED BY <2>1, <2>2, KeepPhases, KeepPlaces, KeepDescriptors, KeepMemory, KeepPool,
             KeepNoLostWakeup, KeepWatched DEF ServerInv
<1>2. ASSUME NEW c \in Conn, Connect(c) \/ Disconnect(c) \/ AcceptFails(c) PROVE ServerInv'
  BY <1>2, ConnectStep, DisconnectStep, AcceptFailsStep
<1>3. ASSUME NEW h \in Handle, OtherOpens(h) \/ OtherCloses(h) PROVE ServerInv'
  BY <1>3, OtherStep
<1>4. ASSUME NEW c \in Conn, NEW h \in Handle, Accept(c, h) PROVE ServerInv'
  BY <1>4, AcceptStep
<1>5. CASE AcceptorStep \/ DrainSilent
  BY <1>5, AcceptLoopStep, AdmitStep, RefuseStep, RejectStep, NotifyOneStep DEF AcceptorStep
<1>6. ASSUME NEW w \in Worker, WorkerStep(w) PROVE ServerInv'
  BY <1>6, TakeJobStep, ReadMoreStep, ReadEndsStep, ParseStep, ParseFailsStep, ProcessStep,
     DeliverStep, RequestEnds, CloseRegisteredStep, AccountStep
  DEF WorkerStep
<1>7. ASSUME NEW w \in Worker, BytesArrive(w) \/ UpstreamChunk(w) \/ UpstreamEnds(w)
      PROVE  ServerInv'
  BY <1>7, BytesArriveStep, UpstreamChunkStep, RequestEnds
<1>8. CASE MonitorStep
  BY <1>8, CopyEntriesStep, PollStep, CancelLeftStep DEF MonitorStep
<1>9. CASE (\E n \in Limits : Reload(n)) \/ (\E signal \in BOOLEAN : RequestStop(signal))
  BY <1>9, ControlStep
<1>10. CASE StopStep
  BY <1>10, ShutdownClientsStep, JoinAcceptorStep, CloseClientsStep, AcceptingDoneStep,
     JoinWorkersStep
  DEF StopStep
<1> QED BY <1>1, <1>2, <1>3, <1>4, <1>5, <1>6, <1>7, <1>8, <1>9, <1>10 DEF Next

\* Server::run keeps its threads, descriptors, buffers, counters and watched
\* sockets consistent, in every interleaving of clients, workers, monitor,
\* reloads and a stop.
THEOREM ServerInvariant == Spec => []ServerInv
BY ServerInit, ServerStep, PTL DEF Spec

\* Until a stop closes the clients, accept_loop and worker_loop hold descriptor
\* numbers of their own connections only; InflightMemoryBudget counts what
\* requests lease, never beyond its capacity; and open_connections and
\* active_worker_count equal what is queued and served.
THEOREM ResourcesAreAccounted == Spec => []ResourcesAccounted
<1>1. ServerInv => ResourcesAccounted
  BY DEF ServerInv, ResourcesAccounted, Descriptors, Memory, MemoryAccounted, Pool, Places
<1> QED BY <1>1, ServerInvariant, PTL

\* Although notify_one is called after queue_mutex is released, no connection
\* is queued while every worker that could take it sleeps in queue_cv.wait.
THEOREM NoWakeupIsLost == Spec => []NoLostWakeup
<1>1. ServerInv => NoLostWakeup
  BY DEF ServerInv
<1> QED BY <1>1, ServerInvariant, PTL

\* When Server::run returns no connection is queued, no client socket is open,
\* no buffer is leased and no socket is watched.
THEOREM ReturnIsClean == Spec => []CleanReturn
<1>1. ServerInv => CleanReturn
  <2> SUFFICES ASSUME ServerInv, rpc = "returned"
               PROVE  /\ queue = <<>> /\ open = 0 /\ inflight = 0 /\ entries = {}
                      /\ \A h \in Handle : owner[h] \notin Conn
    BY DEF CleanReturn
  <2>1. \A w \in Worker : wpc[w] \in {"none", "exit"} BY DEF ServerInv, Phases
  <2>2. \A w \in Worker : ~Serving(w) /\ wpc[w] \notin Watching
    BY <2>1 DEF Serving, Busy, Watching
  <2>3. queue = <<>>
    <3>1. 1 \in Worker BY ServerAssumption DEF Worker
    <3>2. wpc[1] = "exit" BY <2>1, <3>1 DEF ServerInv, Phases
    <3> QED BY <3>1, <3>2 DEF ServerInv, Phases
  <2>4. open = 0
    <3>1. {w \in Worker : Serving(w)} = {} BY <2>2
    <3>2. active = 0 BY <3>1, FS_EmptySet DEF ServerInv, Pool, PoolAccounted
    <3>3. Len(queue) = 0 BY <2>3
    <3> QED BY <3>2, <3>3 DEF ServerInv, Pool, PoolAccounted
  <2>5. inflight = 0
    <3>1. \A w \in 1 .. WorkerLimit : Leases[w] = 0 BY <2>2 DEF Leases, Worker
    <3>2. SumTo(Leases, WorkerLimit) = 0 BY <3>1, SumOfZeros, ServerAssumption
    <3> QED BY <3>2 DEF ServerInv, Memory
  <2>6. entries = {}
    BY <2>2 DEF ServerInv, Watched
  <2>7. \A h \in Handle : owner[h] \notin Conn
    BY DEF ServerInv, Phases, Descriptors
  <2> QED BY <2>3, <2>4, <2>5, <2>6, <2>7
<1> QED BY <1>1, ServerInvariant, PTL

-----------------------------------------------------------------------------
(* What a step never does *)

\* Only these steps change the descriptor table, and but for the last they
\* leave the workers alone.
LEMMA OwnerSteps ==
    ASSUME ServerInv, [Next]_vars
    PROVE  \/ owner' = owner
           \/ \E h \in Handle : OtherOpens(h) \/ OtherCloses(h)
           \/ \E c \in Conn, h \in Handle : Accept(c, h)
           \/ AdmitStopped \/ AdmitFails \/ DrainEnds \/ DrainSilent
           \/ ShutdownClients \/ CloseClients
           \/ \E w \in Worker : CloseRegistered(w)
<1>1. CASE UNCHANGED vars BY <1>1 DEF vars
<1>2. ASSUME NEW c \in Conn, Connect(c) \/ Disconnect(c) \/ AcceptFails(c) PROVE owner' = owner
  BY <1>2 DEF Connect, Disconnect, AcceptFails
<1>3. ASSUME AcceptLoop \/ AcceptTimeout \/ Admit \/ Reject \/ NotifyOne PROVE owner' = owner
  BY <1>3 DEF AcceptLoop, AcceptTimeout, Admit, Reject, NotifyOne
<1>4. ASSUME NEW w \in Worker, WorkerStep(w), ~CloseRegistered(w) PROVE owner' = owner
  BY <1>4 DEF WorkerStep, TakeJob, ReadMore, ReadEnds, Parse, ParseFails, Process, Deliver,
              Cancelled, Reply, Finish, Account
<1>5. ASSUME NEW w \in Worker, BytesArrive(w) \/ UpstreamChunk(w) \/ UpstreamEnds(w)
      PROVE  owner' = owner
  BY <1>5 DEF BytesArrive, UpstreamChunk, UpstreamEnds, Finish
<1>6. ASSUME MonitorStep PROVE owner' = owner
  BY <1>6 DEF MonitorStep, CopyEntries, Poll, CancelLeft
<1>7. ASSUME NEW n, Reload(n) PROVE owner' = owner
  BY <1>7 DEF Reload
<1>8. ASSUME NEW signal, RequestStop(signal) PROVE owner' = owner
  BY <1>8 DEF RequestStop
<1>9. ASSUME JoinAcceptor \/ AcceptingDone \/ JoinWorkers PROVE owner' = owner
  BY <1>9 DEF JoinAcceptor, AcceptingDone, JoinWorkers
<1> QED BY <1>1, <1>2, <1>3, <1>4, <1>5, <1>6, <1>7, <1>8, <1>9
        DEF Next, AcceptorStep, StopStep

\* close_registered, close_all and the acceptor never close a number that the
\* system has handed to another part of the process, and a worker closes no
\* socket but that of its own connection.
THEOREM ClosesItsOwnOnly == Spec => ClosesOwnOnly
<1> DEFINE A == \A h \in Handle :
          /\ owner[h] = Other /\ owner'[h] # Other => UNCHANGED <<wpc, registry, rpc>>
          /\ \A w \in Worker :
                wpc[w] = "close" /\ wpc'[w] # "close" /\ owner'[h] # owner[h] =>
                    owner[h] = job[w].conn
<1>1. ServerInv /\ [Next]_vars => A
  <2> SUFFICES ASSUME ServerInv, [Next]_vars PROVE A
    OBVIOUS
  <2>1. owner \in [Handle -> Conn \cup {Other, None}] BY DEF ServerInv, TypeOK
  <2>2. Other \notin Conn /\ None # Other BY ServerAssumption
  <2>3. CASE owner' = owner
    BY <2>3
  <2>4. ASSUME NEW x \in Handle, OtherOpens(x) \/ OtherCloses(x) PROVE A
    <3>1. /\ wpc' = wpc /\ registry' = registry /\ rpc' = rpc
      BY <2>4 DEF OtherOpens, OtherCloses
    <3> QED BY <3>1
  <2>5. ASSUME NEW c \in Conn, NEW x \in Handle, Accept(c, x) PROVE A
    <3>1. /\ wpc' = wpc /\ owner[x] = None
          /\ \A h \in Handle : h # x => owner'[h] = owner[h]
      BY <2>1, <2>5 DEF Accept, Accepting
    <3> QED BY <2>2, <3>1
  <2>6. CASE AdmitStopped \/ AdmitFails \/ DrainEnds \/ DrainSilent
    <3>1. /\ wpc' = wpc /\ Holding
          /\ owner' = [owner EXCEPT ![hand.handle] = None]
      BY <2>6 DEF AdmitStopped, AdmitFails, DrainEnds, DrainSilent, Drained, Accepting
    <3>2. owner[hand.handle] \in Conn
      BY <3>1, JobTypes DEF ServerInv, Descriptors
    <3> QED BY <2>1, <2>2, <3>1, <3>2
  <2>7. CASE ShutdownClients \/ CloseClients
    <3>1. /\ wpc' = wpc
          /\ owner' = [h \in Handle |-> IF h \in registry THEN None ELSE owner[h]]
      BY <2>7 DEF ShutdownClients, CloseClients, CloseAll
    <3> QED BY <2>2, <3>1, RegistryOwned
  <2>8. ASSUME NEW w \in Worker, CloseRegistered(w) PROVE A
    <3>1. /\ wpc[w] = "close"
          /\ owner' = IF job[w].handle \in registry
                      THEN [owner EXCEPT ![job[w].handle] = None] ELSE owner
      BY <2>8 DEF CloseRegistered
    <3>2. \A v \in Worker : v # w => wpc'[v] = wpc[v]
      BY <2>8 DEF CloseRegistered, Goto, ServerInv, TypeOK
    <3>3. CASE job[w].handle \notin registry
      BY <3>1, <3>3
    <3>4. CASE job[w].handle \in registry
      <4>1. ~closing BY <3>4 DEF ServerInv, Descriptors, TypeOK
      <4>2. Serving(w) /\ wpc[w] # "account" BY <3>1 DEF Serving, Busy
      <4>3. owner[job[w].handle] = job[w].conn
        BY <4>1, <4>2 DEF ServerInv, Descriptors, HandlesOwned
      <4>4. owner[job[w].handle] \in Conn BY <3>4, RegistryOwned
      <4>5. \A h \in Handle : h # job[w].handle => owner'[h] = owner[h]
        BY <2>1, <3>1
      <4> QED BY <2>2, <3>2, <4>3, <4>4, <4>5
    <3> QED BY <3>3, <3>4
  <2> HIDE DEF A
  <2> QED BY <2>3, <2>4, <2>5, <2>6, <2>7, <2>8, OwnerSteps
<1>2. ServerInv /\ [Next]_vars => [A]_vars
  BY <1>1
<1> QED BY <1>2, ServerInvariant, PTL DEF Spec, ClosesOwnOnly

\* Only these steps cancel a request.
LEMMA CancelSteps ==
    ASSUME [Next]_vars
    PROVE  cancelled' = cancelled \/ CancelLeft \/ \E w \in Worker : Deliver(w)
<1>1. CASE UNCHANGED vars BY <1>1 DEF vars
<1>2. ASSUME NEW c \in Conn, Connect(c) \/ Disconnect(c) \/ AcceptFails(c)
      PROVE  cancelled' = cancelled
  BY <1>2 DEF Connect, Disconnect, AcceptFails, Accepting
<1>3. ASSUME NEW h \in Handle, OtherOpens(h) \/ OtherCloses(h) PROVE cancelled' = cancelled
  BY <1>3 DEF OtherOpens, OtherCloses
<1>4. ASSUME NEW c \in Conn, NEW h \in Handle, Accept(c, h) PROVE cancelled' = cancelled
  BY <1>4 DEF Accept, Accepting
<1>5. ASSUME AcceptorStep \/ DrainSilent PROVE cancelled' = cancelled
  BY <1>5 DEF AcceptorStep, AcceptLoop, AcceptTimeout, Admit, AdmitStopped, AdmitFails,
              Reject, DrainEnds, DrainSilent, Drained, NotifyOne, Accepting
<1>6. ASSUME NEW w \in Worker, WorkerStep(w), ~Deliver(w) PROVE cancelled' = cancelled
  BY <1>6 DEF WorkerStep, TakeJob, ReadMore, ReadEnds, Parse, ParseFails, Process,
              Cancelled, Reply, Finish, CloseRegistered, Account
<1>7. ASSUME NEW w \in Worker, BytesArrive(w) \/ UpstreamChunk(w) \/ UpstreamEnds(w)
      PROVE  cancelled' = cancelled
  BY <1>7 DEF BytesArrive, UpstreamChunk, UpstreamEnds, Finish
<1>8. ASSUME CopyEntries \/ Poll PROVE cancelled' = cancelled
  BY <1>8 DEF CopyEntries, Poll
<1>9. ASSUME NEW n, Reload(n) PROVE cancelled' = cancelled
  BY <1>9 DEF Reload
<1>10. ASSUME NEW signal, RequestStop(signal) PROVE cancelled' = cancelled
  BY <1>10 DEF RequestStop
<1>11. ASSUME StopStep PROVE cancelled' = cancelled
  BY <1>11 DEF StopStep, ShutdownClients, CloseClients, CloseAll, JoinAcceptor, AcceptingDone,
               JoinWorkers
<1> QED BY <1>1, <1>2, <1>3, <1>4, <1>5, <1>6, <1>7, <1>8, <1>9, <1>10, <1>11
        DEF Next, MonitorStep

\* The monitor polls a copy of descriptor numbers that may be closed and reused
\* meanwhile, and a worker cancels when its socket is gone: neither cancels a
\* request whose own client is still there, unless the clients are closed.
THEOREM CancelsItsOwnOnly == Spec => CancelsOwnOnly
<1> DEFINE A == \A e \in entries :
          e.conn \in cancelled' \ cancelled => closing \/ peer[e.conn] = "gone"
<1>1. ServerInv /\ [Next]_vars => A
  <2> SUFFICES ASSUME ServerInv, [Next]_vars, NEW e \in entries,
                      e.conn \in cancelled' \ cancelled, ~closing
               PROVE  peer[e.conn] = "gone"
    OBVIOUS
  <2>1. CASE CancelLeft
    <3>1. left # None /\ cancelled' = cancelled \cup {g.conn : g \in left}
      BY <2>1 DEF CancelLeft
    <3>2. PICK g \in left : g.conn = e.conn BY <3>1
    <3> QED BY <3>1, <3>2 DEF ServerInv, Watched
  <2>2. ASSUME NEW w \in Worker, Deliver(w) PROVE peer[e.conn] = "gone"
    <3>1. /\ wpc[w] = "deliver"
          /\ cancelled' = IF owner[job[w].handle] = None
                              \/ (owner[job[w].handle] \in Conn /\ peer[owner[job[w].handle]] = "gone")
                          THEN cancelled \cup {job[w].conn} ELSE cancelled
      BY <2>2 DEF Deliver
    <3>2. Serving(w) /\ wpc[w] # "account" BY <3>1 DEF Serving, Busy
    <3>3. owner[job[w].handle] = job[w].conn
      BY <3>2 DEF ServerInv, Descriptors, HandlesOwned
    <3>4. job[w].conn \in Conn BY <3>2, JobTypes
    <3> QED BY <3>1, <3>3, <3>4, ServerAssumption
  <2> QED BY <2>1, <2>2, CancelSteps
<1>2. ServerInv /\ [Next]_vars => [A]_vars
  BY <1>1
<1> QED BY <1>2, ServerInvariant, PTL DEF Spec, CancelsOwnOnly
=============================================================================
