--------------------------- MODULE TrayHostProofs ---------------------------
(***************************************************************************)
(* Proofs about the tray and its service, for every set of configurations, *)
(* every capacity of the executor and every number of commands.            *)
(***************************************************************************)
EXTENDS TrayHost, TLAPS

USE ServiceAssumption, TrayAssumption

-----------------------------------------------------------------------------
(* The inductive invariant of the service: what is true while a command is  *)
(* at each of its steps                                                     *)

Steps ==
    {"idle", "refresh", "check", "load", "spawn", "await", "failed", "swap", "applied",
     "restart", "join_old", "reload_failed", "stop", "join_stop", "done"}

Thread ==
    [pc : {"none", "created", "open", "serve", "leave", "ended"},
     cfg : Config \cup {None}, stop : BOOLEAN]

Call ==
    [op : Op, cand : Config \cup {None}, prev : Config \cup {None},
     phase : {"start", "restart", "rollback"}, ok : BOOLEAN]

ServiceType ==
    /\ svc \in Service \cup {None}
    /\ srv \in Thread
    /\ cpc \in Steps
    /\ call \in Call
    /\ shut \in BOOLEAN

\* A server thread that has opened belongs to a service, which runs until
\* the thread has ended.
Up == svc # None /\ srv.pc \in {"serve", "leave", "ended"}
Serves == Up /\ (srv.pc # "ended" => svc.state = "running")

\* The configuration in force, as the controller remembers and shows it.
InForce == appSnap \in Config /\ listener = appSnap.topo

\* Between two commands.
Settled ==
    /\ svc = None =>
          /\ srv.pc = "none" /\ appSnap = None /\ listener = None
          /\ app \in {"stopped", "faulted", "shutdown"}
          /\ shut <=> app = "shutdown"
    /\ svc # None =>
          /\ app = "running" /\ ~shut /\ Serves /\ InForce
          /\ svc.snap = appSnap /\ srv.cfg = appSnap

\* A start has no configuration in force, a reload keeps it until it succeeds.
Starting == call.op = "start" /\ app = "starting" /\ appSnap = None /\ listener = None
Reloading == call.op = "reload" /\ app = "reloading" /\ InForce

\* Which configuration a start, a restart and a rollback try.
Attempt ==
    /\ svc # None
    /\ \/ Starting /\ call.phase = "start" /\ svc.snap = call.cand
       \/ Reloading /\ call.phase = "restart" /\ svc.snap = call.cand /\ call.prev = appSnap
       \/ Reloading /\ call.phase = "rollback" /\ svc.snap = appSnap /\ call.prev = appSnap

AwaitStart ==
    /\ Attempt /\ srv.cfg = svc.snap /\ srv.pc # "none"
    /\ srv.pc \in {"created", "open"} => svc.state = "starting" /\ ~svc.started
    /\ srv.pc = "serve" => svc.ok
    /\ srv.pc \in {"serve", "leave"} /\ svc.ok => svc.state = "running"
    /\ srv.pc = "ended" => svc.state = "stopped"

Deciding == Reloading /\ Serves /\ svc.snap = appSnap /\ call.prev = appSnap

AtStep ==
    /\ cpc \in {"idle", "refresh", "check", "stop", "done"} => Settled
    /\ cpc \notin {"idle", "refresh", "check", "done"} => ~shut
    /\ cpc = "done" /\ call.op = "shutdown" => shut
    /\ cpc = "load" =>
          \/ Starting /\ svc = None /\ srv.pc = "none"
          \/ Reloading /\ Serves /\ svc.snap = appSnap /\ srv.cfg = appSnap
    /\ cpc \in {"spawn", "failed"} => Attempt /\ svc.state = "stopped" /\ srv.pc = "none"
    /\ cpc = "await" => AwaitStart
    /\ cpc \in {"swap", "restart"} => Deciding /\ srv.cfg = appSnap
    /\ cpc = "applied" => Deciding /\ srv.cfg = call.cand
    /\ cpc = "join_old" => Reloading /\ Up /\ call.prev = appSnap
    /\ cpc = "reload_failed" =>
          /\ Reloading /\ svc # None /\ srv.pc \notin {"created", "open"}
          /\ srv.pc = "none" => svc.state = "stopped"
          /\ svc.state = "running" => Serves /\ svc.snap = appSnap /\ srv.cfg = appSnap
    /\ cpc \in {"stop", "join_stop"} => call.op \in {"stop", "shutdown"}
    /\ cpc = "join_stop" => app = "stopping" /\ Up
    /\ cpc \in {"spawn", "await", "failed", "swap", "restart", "applied", "join_old"} =>
          call.cand \in Config

\* A thread that has ended has set the state of its service.
ThreadInv ==
    /\ srv.pc = "ended" => svc # None /\ svc.state = "stopped"
    /\ srv.pc # "none" => svc # None

ServiceInv == ServiceType /\ AtStep /\ ThreadInv

-----------------------------------------------------------------------------
(* The inductive invariant of the executor *)

Drains(t) == t # None /\ t.op = "drained"

\* One command at a time: the worker's, or that of the destructor once the
\* worker has ended.
ExecutorInv ==
    /\ tasks \in Seq(Task) /\ running \in Task \cup {None}
    /\ running = None => cpc = "idle" \/ ui = "destroy"
    /\ Drains(running) => cpc = "idle" /\ ui = "drain"
    /\ ui \in {"join", "destroy", "gone"} => joining
    /\ ui \in {"destroy", "gone"} => tasks = <<>> /\ running = None
    /\ ui = "destroy" => call.op = "shutdown"
    /\ ui = "gone" => cpc = "idle" /\ shut

\* view_model_.stop waits for one task.
DrainInv ==
    \A i \in 1 .. Len(tasks) :
        Drains(tasks[i]) =>
            /\ ui = "drain" /\ ~Drains(running)
            /\ \A j \in 1 .. Len(tasks) : Drains(tasks[j]) => i = j

HostInv == ServiceInv /\ ExecutorInv /\ DrainInv

-----------------------------------------------------------------------------
(* The server thread *)

\* What a step of the thread leaves to prove: it goes on to its next step,
\* and the state of its service follows.
LEMMA ThreadMoves ==
    ASSUME ServiceInv, UNCHANGED <<control, cpc, call>>,
           svc # None, svc' \in Service, svc'.snap = svc.snap,
           srv' \in Thread,
           srv'.cfg = srv.cfg,
           \/ /\ srv.pc = "created" /\ srv'.pc = "open"
              /\ svc'.state = svc.state /\ svc'.started = svc.started
           \/ srv.pc = "open" /\ srv'.pc = "leave" /\ ~svc'.ok /\ svc'.state = "stopped"
           \/ srv.pc = "open" /\ srv'.pc = "serve" /\ svc'.ok /\ svc'.state = "running"
           \/ /\ srv.pc = "serve" /\ srv'.pc \in {"serve", "leave"}
              /\ svc'.state = svc.state /\ svc'.ok = svc.ok
           \/ srv.pc = "leave" /\ srv'.pc = "ended" /\ svc'.state = "stopped"
    PROVE  ServiceInv'
<1>1. svc' # None BY DEF Service
<1>2. ServiceType' BY DEF ServiceInv, ServiceType, control
<1>3. ThreadInv' BY <1>1 DEF ThreadInv
<1>4. srv.pc \in {"created", "open"} => cpc = "await"
  BY DEF ServiceInv, ServiceType, Steps, AtStep, Settled, Serves, Up, Deciding
<1>5. (Settled => Settled') /\ (Attempt => Attempt') /\ (Reloading => Reloading')
  BY <1>1 DEF Settled, Attempt, Reloading, Starting, InForce, Serves, Up, control
<1>6. (Serves => Serves') /\ (Up => Up') BY <1>1 DEF Serves, Up
<1>7. cpc = "await" => AwaitStart'
  BY <1>1, <1>5 DEF ServiceInv, AtStep, AwaitStart
<1>8. AtStep'
  BY <1>1, <1>4, <1>5, <1>6, <1>7 DEF ServiceInv, AtStep, Deciding, Starting, control, Settled
<1>9. QED BY <1>2, <1>3, <1>8 DEF ServiceInv

\* Whatever the server thread does, and whenever it does it.
LEMMA ServerKeeps == ServiceInv /\ (ServerStep \/ RunBreaks) => ServiceInv'
<1> SUFFICES ASSUME ServiceInv, ServerStep \/ RunBreaks PROVE ServiceInv'
  OBVIOUS
<1>1. srv.pc # "none" /\ svc # None /\ svc \in Service /\ srv \in Thread
  BY DEF ServerStep, RunBegins, RunFails, RunOpens, RunBreaks, RunStops, RunReturns,
     ServiceInv, ServiceType, ThreadInv
<1>2. CASE RunBegins
  <2>1. srv' \in Thread /\ srv'.pc = "open" /\ srv'.cfg = srv.cfg
    BY <1>1, <1>2 DEF RunBegins, Thread
  <2>2. QED BY <1>1, <1>2, <2>1, ThreadMoves DEF RunBegins
<1>3. CASE RunFails
  <2>1. srv' \in Thread /\ srv'.pc = "leave" /\ srv'.cfg = srv.cfg
    BY <1>1, <1>3 DEF RunFails, Thread
  <2>2. svc' \in Service /\ svc'.snap = svc.snap /\ ~svc'.ok /\ svc'.state = "stopped"
    BY <1>1, <1>3 DEF RunFails, Service
  <2>3. QED BY <1>1, <1>3, <2>1, <2>2, ThreadMoves DEF RunFails
<1>4. CASE RunOpens
  <2>1. srv' \in Thread /\ srv'.pc = "serve" /\ srv'.cfg = srv.cfg
    BY <1>1, <1>4 DEF RunOpens, Thread
  <2>2. svc.state = "starting"
    BY <1>4 DEF RunOpens, ServiceInv, ServiceType, Steps, AtStep, Settled, Serves, Up,
       Deciding, AwaitStart
  <2>3. svc' = [svc EXCEPT !.started = TRUE, !.ok = TRUE, !.code = 0, !.state = "running"]
    BY <1>4, <2>2 DEF RunOpens
  <2>4. svc' \in Service /\ svc'.snap = svc.snap /\ svc'.ok /\ svc'.state = "running"
    BY <1>1, <2>3 DEF Service
  <2>5. QED BY <1>1, <1>4, <2>1, <2>4, ThreadMoves DEF RunOpens
<1>5. CASE RunBreaks
  <2>1. srv' \in Thread /\ srv'.pc = "serve" /\ srv'.cfg = srv.cfg
    BY <1>1, <1>5 DEF RunBreaks, Thread
  <2>2. PICK code \in {0, 1} : svc' = [svc EXCEPT !.code = code] BY <1>5 DEF RunBreaks
  <2>3. /\ svc' \in Service /\ svc'.snap = svc.snap /\ svc'.ok = svc.ok
        /\ svc'.state = svc.state
    BY <1>1, <2>2 DEF Service
  <2>4. QED BY <1>1, <1>5, <2>1, <2>3, ThreadMoves DEF RunBreaks
<1>6. CASE RunStops
  <2>1. srv' \in Thread /\ srv'.pc = "leave" /\ srv'.cfg = srv.cfg
    BY <1>1, <1>6 DEF RunStops, Thread
  <2>2. PICK code \in {svc.code, 1} : svc' = [svc EXCEPT !.code = code] BY <1>6 DEF RunStops
  <2>3. code \in {0, 1} BY <1>1, <2>2 DEF Service
  <2>4. /\ svc' \in Service /\ svc'.snap = svc.snap /\ svc'.ok = svc.ok
        /\ svc'.state = svc.state
    BY <1>1, <2>2, <2>3 DEF Service
  <2>5. QED BY <1>1, <1>6, <2>1, <2>4, ThreadMoves DEF RunStops
<1>7. CASE RunReturns
  <2>1. srv' \in Thread /\ srv'.pc = "ended" /\ srv'.cfg = srv.cfg
    BY <1>1, <1>7 DEF RunReturns, Thread
  <2>2. svc' \in Service /\ svc'.snap = svc.snap /\ svc'.state = "stopped"
    BY <1>1, <1>7 DEF RunReturns, Service
  <2>3. QED BY <1>1, <1>7, <2>1, <2>2, ThreadMoves DEF RunReturns
<1>8. QED BY <1>2, <1>3, <1>4, <1>5, <1>6, <1>7 DEF ServerStep

-----------------------------------------------------------------------------
(* The command *)

LEMMA NoThreadType == NoThread \in Thread /\ NoThread.pc = "none"
BY DEF NoThread, Thread

\* refresh_completed_service between commands: a service whose thread has
\* ended is joined and reported as a fault.
LEMMA RefreshSettles ==
    ASSUME ServiceInv, Settled, RefreshCompleted
    PROVE  /\ Settled' /\ ThreadInv' /\ shut' = shut
           /\ svc' \in Service \cup {None}
           /\ srv' \in Thread
<1>1. CASE Completed
  <2>1. svc # None /\ ~shut BY <1>1 DEF Completed, Settled
  <2>2. /\ svc' = None /\ srv'.pc = "none" /\ appSnap' = None /\ shut' = shut
        /\ app' = "faulted" /\ listener' = None
    BY <1>1 DEF RefreshCompleted, NoThread, Status
  <2>3. Settled' BY <2>1, <2>2 DEF Settled
  <2>4. srv' \in Thread
    BY <1>1, NoThreadType DEF RefreshCompleted
  <2>5. QED BY <2>2, <2>3, <2>4 DEF ThreadInv
<1>2. CASE ~Completed
  <2>1. UNCHANGED <<control, svc, srv>> BY <1>2 DEF RefreshCompleted
  <2>2. Settled' /\ ThreadInv'
    BY <2>1 DEF ServiceInv, Settled, Serves, Up, InForce, ThreadInv, control
  <2>3. QED BY <2>1, <2>2 DEF ServiceInv, ServiceType, control
<1>3. QED BY <1>1, <1>2

\* A command returns with the service settled.
LEMMA ReturnSettles ==
    ASSUME ServiceInv, NEW ok \in BOOLEAN, Return(ok), shut' \in BOOLEAN,
           svc' \in Service \cup {None},
           srv' \in Thread,
           Settled', ThreadInv', call.op = "shutdown" => shut'
    PROVE  ServiceInv'
<1>1. cpc' = "done" /\ call'.op = call.op
  BY DEF Return, ServiceInv, ServiceType
<1>2. ServiceType' BY <1>1 DEF Return, ServiceInv, ServiceType, Steps, Call
<1>3. AtStep' BY <1>1 DEF AtStep
<1>4. QED BY <1>2, <1>3 DEF ServiceInv

\* A service just constructed is stopped.
LEMMA FreshType ==
    ASSUME NEW c \in Config
    PROVE  /\ Fresh(c) \in Service /\ Fresh(c) # None
           /\ Fresh(c).state = "stopped" /\ Fresh(c).snap = c
<1>1. Fresh(c) \in Service BY DEF Fresh, Service
<1>2. QED BY <1>1 DEF Fresh

\* What an action that goes on with its command leaves to prove.
LEMMA CommandGoesOn ==
    ASSUME ServiceInv, cpc' \in Steps, call' \in Call,
           svc' \in Service \cup {None}, srv' \in Thread, shut' = shut,
           AtStep', ThreadInv'
    PROVE  ServiceInv'
BY DEF ServiceInv, ServiceType, Call

LEMMA CheckKeeps == ServiceInv /\ Check => ServiceInv'
<1> SUFFICES ASSUME ServiceInv, Check PROVE ServiceInv'
  OBVIOUS
<1>1. Settled /\ ThreadInv /\ ServiceType BY DEF ServiceInv, AtStep, Check
<1>2. svc' = svc /\ srv' = srv /\ shut' = shut /\ appSnap' = appSnap BY DEF Check
<1>3. ThreadInv' BY <1>1, <1>2 DEF ThreadInv
<1>4. CASE ~Allowed
  <2>1. app' = app /\ listener' = listener BY <1>4 DEF Check
  <2>2. Settled' BY <1>1, <1>2, <2>1 DEF Settled, Serves, Up, InForce
  <2>3. call.op = "shutdown" => shut BY <1>4 DEF Allowed
  <2>4. \E ok \in BOOLEAN : Return(ok)
    <3>1. Return(call.op \in {"status", "shutdown"}) BY <1>4 DEF Check
    <3>2. CASE call.op \in {"status", "shutdown"}
      <4>1. Return(TRUE) BY <3>1, <3>2 DEF Return
      <4>2. QED BY <4>1
    <3>3. CASE call.op \notin {"status", "shutdown"}
      <4>1. (call.op \in {"status", "shutdown"}) = FALSE BY <3>3
      <4>2. Return(FALSE) BY <3>1, <4>1 DEF Return
      <4>3. QED BY <4>2
    <3>4. QED BY <3>2, <3>3
  <2>5. QED BY <1>1, <1>2, <1>3, <2>2, <2>3, <2>4, ReturnSettles DEF ServiceType
<1>5. CASE Allowed /\ call.op \in {"start", "reload"}
  <2>1. /\ cpc' = "load" /\ call' = call
        /\ Status(IF call.op = "start" THEN "starting" ELSE "reloading")
    BY <1>5 DEF Check, Goto
  <2>2. ~shut /\ (call.op = "start" => svc = None) /\ (call.op = "reload" => svc # None)
    BY <1>1, <1>5 DEF Allowed, Settled
  <2>3. CASE call.op = "start"
    <3>1. app' = "starting" /\ listener' = listener BY <2>1, <2>3 DEF Status
    <3>2. Starting' /\ svc' = None /\ srv'.pc = "none"
      BY <1>1, <1>2, <2>1, <2>2, <2>3, <3>1 DEF Starting, Settled
    <3>3. AtStep' BY <1>2, <2>1, <2>2, <3>2 DEF AtStep
    <3>4. QED BY <1>1, <1>2, <1>3, <2>1, <3>3, CommandGoesOn DEF ServiceType, Call, Steps
  <2>4. CASE call.op = "reload"
    <3>1. app' = "reloading" /\ listener' = listener BY <2>1, <2>4 DEF Status
    <3>2. Reloading' /\ Serves' /\ svc'.snap = appSnap' /\ srv'.cfg = appSnap'
      BY <1>1, <1>2, <2>1, <2>2, <2>4, <3>1 DEF Reloading, Settled, Serves, Up, InForce
    <3>3. AtStep' BY <1>2, <2>1, <2>2, <3>2 DEF AtStep
    <3>4. QED BY <1>1, <1>2, <1>3, <2>1, <3>3, CommandGoesOn DEF ServiceType, Call, Steps
  <2>5. QED BY <1>5, <2>3, <2>4
<1>6. CASE Allowed /\ call.op \in {"stop", "shutdown"}
  <2>1. cpc' = "stop" /\ call' = call /\ app' = app /\ listener' = listener
    BY <1>6 DEF Check, Goto
  <2>2. ~shut BY <1>6 DEF Allowed
  <2>3. Settled' BY <1>1, <1>2, <2>1 DEF Settled, Serves, Up, InForce
  <2>4. AtStep' BY <1>2, <1>6, <2>1, <2>2, <2>3 DEF AtStep
  <2>5. QED BY <1>1, <1>2, <1>3, <2>1, <2>4, CommandGoesOn DEF ServiceType, Call, Steps
<1>7. QED BY <1>4, <1>5, <1>6 DEF Check

LEMMA RefreshKeeps == ServiceInv /\ Refresh => ServiceInv'
<1> SUFFICES ASSUME ServiceInv, Refresh PROVE ServiceInv'
  OBVIOUS
<1>1. Settled /\ ThreadInv /\ ServiceType BY DEF ServiceInv, AtStep, Refresh
<1>2. cpc' = "check" /\ call' = call BY DEF Refresh, Goto
<1>3. Settled' /\ ThreadInv' /\ shut' = shut /\ svc' \in Service \cup {None} /\ srv' \in Thread
  <2>1. CASE RefreshCompleted BY <1>1, <2>1, RefreshSettles
  <2>2. CASE UNCHANGED <<control, svc, srv>>
    BY <1>1, <2>2 DEF Settled, Serves, Up, InForce, ThreadInv, control, ServiceType
  <2>3. QED BY <2>1, <2>2 DEF Refresh
<1>4. AtStep' BY <1>2, <1>3 DEF AtStep
<1>5. QED BY <1>1, <1>2, <1>3, <1>4, CommandGoesOn DEF ServiceType, Call, Steps

LEMMA LoadKeeps == ServiceInv /\ Load => ServiceInv'
<1> SUFFICES ASSUME ServiceInv, Load PROVE ServiceInv'
  OBVIOUS
<1>1. /\ ~shut /\ ThreadInv /\ ServiceType
      /\ \/ Starting /\ svc = None /\ srv.pc = "none"
         \/ Reloading /\ Serves /\ svc.snap = appSnap /\ srv.cfg = appSnap
  BY DEF ServiceInv, AtStep, Load
<1>2. srv' = srv /\ shut' = shut /\ appSnap' = appSnap BY DEF Load
<1>3. CASE /\ Return(FALSE) /\ svc' = svc
           /\ Status(IF call.op = "start" THEN "faulted" ELSE "running")
  <2>1. Settled' BY <1>1, <1>2, <1>3 DEF Settled, Status, Starting, Reloading, Serves, Up, InForce
  <2>2. ThreadInv' BY <1>1, <1>2, <1>3 DEF ThreadInv
  <2>3. call.op # "shutdown" BY <1>1 DEF Starting, Reloading
  <2>4. QED BY <1>1, <1>2, <1>3, <2>1, <2>2, <2>3, ReturnSettles DEF ServiceType
<1>4. ASSUME NEW c \in Config, call.op = "start", svc' = Fresh(c), cpc' = "spawn",
             call' = [call EXCEPT !.cand = c, !.phase = "start"], UNCHANGED <<app, listener>>
      PROVE  ServiceInv'
  <2>1. Starting /\ srv.pc = "none" BY <1>1, <1>4 DEF Reloading
  <2>2. call' \in Call /\ call'.op = "start" /\ call'.cand = c /\ call'.phase = "start"
    BY <1>1, <1>4 DEF ServiceType, Call
  <2>3. /\ svc' \in Service /\ svc' # None /\ svc'.state = "stopped" /\ svc'.snap = c
    BY <1>4, FreshType
  <2>4. Attempt' BY <1>2, <1>4, <2>1, <2>2, <2>3 DEF Attempt, Starting
  <2>5. AtStep' BY <1>1, <1>2, <1>4, <2>1, <2>2, <2>3, <2>4 DEF AtStep
  <2>6. ThreadInv' BY <1>2, <2>1 DEF ThreadInv
  <2>7. QED
    BY <1>1, <1>2, <1>4, <2>2, <2>3, <2>5, <2>6, CommandGoesOn DEF ServiceType, Steps
<1>5. ASSUME NEW c \in Config, call.op = "reload", svc' = svc, cpc' = "swap",
             call' = [call EXCEPT !.cand = c, !.prev = svc.snap], UNCHANGED <<app, listener>>
      PROVE  ServiceInv'
  <2>1. Reloading /\ Serves /\ svc.snap = appSnap /\ srv.cfg = appSnap
    BY <1>1, <1>5 DEF Starting
  <2>2. svc.snap \in Config BY <2>1 DEF Reloading, InForce
  <2>3. call' \in Call /\ call'.op = "reload" /\ call'.cand = c /\ call'.prev = svc.snap
    BY <1>1, <1>5, <2>2 DEF ServiceType, Call
  <2>4. Deciding' /\ srv'.cfg = appSnap'
    BY <1>2, <1>5, <2>1, <2>3 DEF Deciding, Reloading, Serves, Up, InForce
  <2>5. AtStep' BY <1>1, <1>2, <1>5, <2>3, <2>4 DEF AtStep
  <2>6. ThreadInv' BY <1>1, <1>2, <1>5 DEF ThreadInv
  <2>7. QED
    BY <1>1, <1>2, <1>5, <2>3, <2>5, <2>6, CommandGoesOn DEF ServiceType, Steps
<1>6. QED BY <1>3, <1>4, <1>5 DEF Load

LEMMA SpawnKeeps == ServiceInv /\ Spawn => ServiceInv'
<1> SUFFICES ASSUME ServiceInv, Spawn PROVE ServiceInv'
  OBVIOUS
<1>1. /\ Attempt /\ svc.state = "stopped" /\ srv.pc = "none" /\ ~shut
      /\ call.cand \in Config /\ ServiceType /\ svc \in Service
  BY DEF ServiceInv, AtStep, Spawn, Attempt, ServiceType
<1>2. svc.snap \in Config BY <1>1 DEF Service
<1>3. /\ UNCHANGED control /\ call' = call BY DEF Spawn, Goto
<1>4. ASSUME svc' \in Service, svc'.snap = svc.snap PROVE Attempt'
  <2>1. svc' # None BY <1>4
  <2>2. QED BY <1>1, <1>3, <1>4, <2>1 DEF Attempt, Starting, Reloading, InForce, control
<1>5. CASE /\ svc' = [Fresh(svc.snap) EXCEPT !.state = "starting", !.server = TRUE,
                                             !.complete = FALSE]
           /\ srv' = [pc |-> "created", cfg |-> svc.snap, stop |-> FALSE]
           /\ cpc' = "await"
  <2>1. Fresh(svc.snap) \in Service BY <1>2, FreshType
  <2>2. Fresh(svc.snap).started = FALSE BY DEF Fresh
  <2>3. /\ svc' \in Service /\ svc'.snap = svc.snap /\ svc'.state = "starting"
        /\ ~svc'.started
    BY <1>2, <1>5, <2>1, <2>2, FreshType DEF Service
  <2>4. srv' \in Thread /\ srv'.pc = "created" /\ srv'.cfg = svc.snap
    BY <1>2, <1>5 DEF Thread
  <2>5. AwaitStart' BY <1>4, <2>3, <2>4 DEF AwaitStart
  <2>6. AtStep' BY <1>1, <1>3, <1>5, <2>5 DEF AtStep, control
  <2>7. ThreadInv' BY <2>3, <2>4 DEF ThreadInv
  <2>8. QED
    BY <1>1, <1>3, <1>5, <2>3, <2>4, <2>6, <2>7, CommandGoesOn DEF ServiceType, Steps, Call, control
<1>6. CASE svc' = Fresh(svc.snap) /\ srv' = srv /\ cpc' = "failed"
  <2>1. svc' \in Service /\ svc'.snap = svc.snap /\ svc'.state = "stopped"
    BY <1>2, <1>6, FreshType
  <2>2. AtStep' BY <1>1, <1>3, <1>4, <1>6, <2>1 DEF AtStep, control
  <2>3. ThreadInv' BY <1>1, <1>6 DEF ThreadInv
  <2>4. QED
    BY <1>1, <1>3, <1>6, <2>1, <2>2, <2>3, CommandGoesOn DEF ServiceType, Steps, Call, control
<1>7. QED BY <1>1, <1>5, <1>6 DEF Spawn, Goto, Joinable

\* The command succeeds: the candidate is in force.
LEMMA SucceedKeeps ==
    ASSUME ServiceInv, Succeed, call.cand \in Config, ~shut, call.op # "shutdown",
           svc' \in Service, srv' \in Thread, ThreadInv', Serves',
           svc'.snap = call.cand, srv'.cfg = call.cand
    PROVE  ServiceInv'
<1>1. InForce' BY DEF InForce, Succeed
<1>2. Settled' BY <1>1 DEF Settled, Succeed
<1>3. shut' = shut /\ shut \in BOOLEAN /\ Return(TRUE)
  BY DEF Succeed, ServiceInv, ServiceType
<1>4. QED BY <1>2, <1>3, ReturnSettles

LEMMA AwaitKeeps == ServiceInv /\ Await => ServiceInv'
<1> SUFFICES ASSUME ServiceInv, Await PROVE ServiceInv'
  OBVIOUS
<1>1. /\ AwaitStart /\ Attempt /\ ~shut /\ call.cand \in Config /\ ServiceType
      /\ svc \in Service /\ svc # None /\ ThreadInv /\ svc.started
  BY DEF ServiceInv, AtStep, Await, AwaitStart, Attempt, ServiceType
<1>2. CASE svc.ok /\ call.phase \in {"start", "restart"} /\ Succeed /\ UNCHANGED <<svc, srv>>
  <2>1. Serves' BY <1>1, <1>2 DEF AwaitStart, Serves, Up, ServiceType, Thread
  <2>2. ThreadInv' BY <1>1, <1>2 DEF ThreadInv
  <2>3. svc.snap = call.cand /\ srv.cfg = call.cand /\ call.op # "shutdown"
    BY <1>1, <1>2 DEF AwaitStart, Attempt, Starting, Reloading
  <2>4. QED BY <1>1, <1>2, <2>1, <2>2, <2>3, SucceedKeeps DEF ServiceType
<1>3. CASE /\ svc.ok /\ call.phase = "rollback"
           /\ Goto("reload_failed") /\ UNCHANGED <<control, svc, srv>>
  <2>1. Serves' /\ srv'.pc \notin {"none", "created", "open"}
    BY <1>1, <1>3 DEF AwaitStart, Serves, Up, ServiceType, Thread
  <2>2. ThreadInv' BY <1>1, <1>3 DEF ThreadInv
  <2>3. /\ Reloading' /\ svc'.snap = appSnap' /\ srv'.cfg = appSnap' /\ svc' # None
    BY <1>1, <1>3 DEF AwaitStart, Attempt, Reloading, InForce, control, Goto
  <2>4. AtStep' BY <1>1, <1>3, <2>1, <2>3 DEF AtStep, Goto, control
  <2>5. QED
    BY <1>1, <1>3, <2>2, <2>4, CommandGoesOn DEF ServiceType, Steps, Call, Goto, control
<1>4. CASE /\ ~svc.ok /\ Ended
           /\ srv' = NoThread /\ svc' = [svc EXCEPT !.server = FALSE]
           /\ Goto("failed") /\ UNCHANGED control
  <2>1. /\ svc' \in Service /\ svc'.snap = svc.snap /\ svc'.state = svc.state
    BY <1>1, <1>4 DEF Service
  <2>2. svc' # None BY <2>1
  <2>3. srv' \in Thread /\ srv'.pc = "none" BY <1>4, NoThreadType
  <2>4. Attempt'
    BY <1>1, <1>4, <2>1, <2>2 DEF Attempt, Starting, Reloading, InForce, control, Goto
  <2>5. svc'.state = "stopped" BY <1>1, <1>4, <2>1 DEF Ended, ThreadInv
  <2>6. AtStep' BY <1>1, <1>4, <2>3, <2>4, <2>5 DEF AtStep, Goto, control
  <2>7. ThreadInv' BY <2>3 DEF ThreadInv
  <2>8. QED
    BY <1>1, <1>4, <2>1, <2>3, <2>6, <2>7, CommandGoesOn DEF ServiceType, Steps, Call, Goto, control
<1>5. QED BY <1>2, <1>3, <1>4 DEF Await

LEMMA FailedKeeps == ServiceInv /\ Failed => ServiceInv'
<1> SUFFICES ASSUME ServiceInv, Failed PROVE ServiceInv'
  OBVIOUS
<1>1. /\ Attempt /\ svc.state = "stopped" /\ srv.pc = "none" /\ ~shut /\ svc # None
      /\ call.cand \in Config /\ ServiceType /\ svc \in Service /\ srv' = srv
  BY DEF ServiceInv, AtStep, Failed, Attempt, ServiceType
<1>2. ThreadInv' BY <1>1 DEF ThreadInv
<1>3. CASE /\ call.phase = "start" /\ svc' = None /\ Status("faulted")
           /\ UNCHANGED <<shut, appSnap>> /\ Return(FALSE)
  <2>1. Starting BY <1>1, <1>3 DEF Attempt
  <2>2. Settled' BY <1>1, <1>3, <2>1 DEF Settled, Status, Starting
  <2>3. QED BY <1>1, <1>2, <1>3, <2>1, <2>2, ReturnSettles DEF ServiceType, Starting
<1>4. CASE /\ call.phase = "restart" /\ svc' = [svc EXCEPT !.snap = call.prev]
           /\ UNCHANGED control
           /\ call' = [call EXCEPT !.phase = "rollback"] /\ cpc' = "spawn"
  <2>1. Reloading /\ call.prev = appSnap /\ appSnap \in Config
    BY <1>1, <1>4 DEF Attempt, Reloading, InForce
  <2>2. svc' \in Service /\ svc'.snap = appSnap /\ svc'.state = "stopped"
    BY <1>1, <1>4, <2>1 DEF Service
  <2>3. svc' # None BY <2>2
  <2>4. /\ call' \in Call /\ call'.op = call.op /\ call'.phase = "rollback"
        /\ call'.prev = call.prev /\ call'.cand = call.cand
    BY <1>1, <1>4 DEF ServiceType, Call
  <2>5. Attempt' BY <1>4, <2>1, <2>2, <2>3, <2>4 DEF Attempt, Reloading, InForce, control
  <2>6. AtStep' BY <1>1, <1>4, <2>2, <2>4, <2>5 DEF AtStep, control
  <2>7. QED
    BY <1>1, <1>2, <1>4, <2>2, <2>4, <2>6, CommandGoesOn DEF ServiceType, Steps, control
<1>5. CASE call.phase = "rollback" /\ Goto("reload_failed") /\ UNCHANGED <<control, svc>>
  <2>1. Reloading' BY <1>1, <1>5 DEF Attempt, Reloading, InForce, control, Goto
  <2>2. AtStep' BY <1>1, <1>5, <2>1 DEF AtStep, Goto, control
  <2>3. QED
    BY <1>1, <1>2, <1>5, <2>2, CommandGoesOn DEF ServiceType, Steps, Call, Goto, control
<1>6. QED BY <1>3, <1>4, <1>5 DEF Failed

LEMMA SwapKeeps == ServiceInv /\ Swap => ServiceInv'
<1> SUFFICES ASSUME ServiceInv, Swap PROVE ServiceInv'
  OBVIOUS
<1>1. /\ Deciding /\ srv.cfg = appSnap /\ ~shut /\ call.cand \in Config /\ ServiceType
      /\ ThreadInv /\ srv \in Thread /\ svc # None
  BY DEF ServiceInv, AtStep, Swap, ServiceType, Deciding, Serves, Up
<1>2. UNCHANGED <<control, svc>> /\ call' = call BY DEF Swap, Goto
<1>3. CASE srv' = [srv EXCEPT !.cfg = call.cand] /\ cpc' = "applied"
  <2>1. srv' \in Thread /\ srv'.cfg = call.cand /\ srv'.pc = srv.pc BY <1>1, <1>3 DEF Thread
  <2>2. Deciding'
    BY <1>1, <1>2, <2>1 DEF Deciding, Reloading, InForce, Serves, Up, control
  <2>3. AtStep' BY <1>1, <1>2, <1>3, <2>1, <2>2 DEF AtStep, control
  <2>4. ThreadInv' BY <1>1, <1>2, <2>1 DEF ThreadInv
  <2>5. QED
    BY <1>1, <1>2, <1>3, <2>1, <2>3, <2>4, CommandGoesOn DEF ServiceType, Steps, Call, control
<1>4. CASE srv' = srv /\ cpc' \in {"restart", "reload_failed"}
  <2>1. Deciding' BY <1>1, <1>2, <1>4 DEF Deciding, Reloading, InForce, Serves, Up, control
  <2>2. srv.pc \in {"serve", "leave", "ended"} BY <1>1 DEF Deciding, Serves, Up
  <2>3. AtStep' BY <1>1, <1>2, <1>4, <2>1, <2>2 DEF AtStep, control, Deciding
  <2>4. ThreadInv' BY <1>1, <1>2, <1>4 DEF ThreadInv
  <2>5. QED
    BY <1>1, <1>2, <1>4, <2>3, <2>4, CommandGoesOn DEF ServiceType, Steps, Call, control
<1>5. QED BY <1>3, <1>4 DEF Swap, Goto

LEMMA AppliedKeeps == ServiceInv /\ Applied => ServiceInv'
<1> SUFFICES ASSUME ServiceInv, Applied PROVE ServiceInv'
  OBVIOUS
<1>1. /\ Deciding /\ srv.cfg = call.cand /\ ~shut /\ call.cand \in Config /\ ServiceType
      /\ ThreadInv /\ srv \in Thread /\ svc # None /\ svc \in Service /\ srv' = srv
  BY DEF ServiceInv, AtStep, Applied, ServiceType, Deciding, Serves, Up
<1>2. CASE svc.state = "running" /\ svc' = [svc EXCEPT !.snap = call.cand] /\ Succeed
  <2>1. svc' \in Service /\ svc'.snap = call.cand /\ svc'.state = svc.state
    BY <1>1, <1>2 DEF Service
  <2>2. svc' # None BY <2>1
  <2>3. Serves' /\ ThreadInv'
    BY <1>1, <2>1, <2>2 DEF Deciding, Serves, Up, ThreadInv
  <2>4. call.op # "shutdown" BY <1>1 DEF Deciding, Reloading
  <2>5. QED BY <1>1, <1>2, <2>1, <2>3, <2>4, SucceedKeeps
<1>3. CASE svc.state # "running" /\ Goto("reload_failed") /\ UNCHANGED <<control, svc>>
  <2>1. Reloading' /\ srv.pc \in {"serve", "leave", "ended"}
    BY <1>1, <1>3 DEF Deciding, Reloading, InForce, Serves, Up, control, Goto
  <2>2. AtStep' BY <1>1, <1>3, <2>1 DEF AtStep, Goto, control
  <2>3. ThreadInv' BY <1>1, <1>3 DEF ThreadInv
  <2>4. QED
    BY <1>1, <1>3, <2>2, <2>3, CommandGoesOn DEF ServiceType, Steps, Call, Goto, control
<1>4. QED BY <1>2, <1>3 DEF Applied

LEMMA RestartKeeps == ServiceInv /\ Restart => ServiceInv'
<1> SUFFICES ASSUME ServiceInv, Restart PROVE ServiceInv'
  OBVIOUS
<1>1. /\ Deciding /\ srv.cfg = appSnap /\ ~shut /\ call.cand \in Config /\ ServiceType
      /\ ThreadInv /\ srv \in Thread /\ svc # None /\ svc \in Service /\ call' = call
      /\ UNCHANGED control
  BY DEF ServiceInv, AtStep, Restart, ServiceType, Deciding, Serves, Up, Goto
<1>2. Reloading' BY <1>1 DEF Deciding, Reloading, InForce, control
<1>3. CASE /\ svc.state = "running"
           /\ svc' = [svc EXCEPT !.state = "reloading"] /\ srv' = [srv EXCEPT !.stop = TRUE]
           /\ cpc' = "join_old"
  <2>1. svc' \in Service /\ svc'.state = "reloading" BY <1>1, <1>3 DEF Service
  <2>2. srv' \in Thread /\ srv'.pc = srv.pc BY <1>1, <1>3 DEF Thread
  <2>3. svc' # None BY <2>1
  <2>4. srv.pc # "ended" BY <1>1, <1>3 DEF ThreadInv
  <2>5. Up' /\ ThreadInv' BY <1>1, <2>2, <2>3, <2>4 DEF Deciding, Serves, Up, ThreadInv
  <2>6. AtStep' BY <1>1, <1>2, <1>3, <2>5 DEF AtStep, control, Deciding
  <2>7. QED
    BY <1>1, <1>3, <2>1, <2>2, <2>5, <2>6, CommandGoesOn DEF ServiceType, Steps, Call, control
<1>4. CASE svc.state # "running" /\ cpc' = "reload_failed" /\ UNCHANGED <<svc, srv>>
  <2>1. srv.pc \in {"serve", "leave", "ended"} BY <1>1 DEF Deciding, Serves, Up
  <2>2. AtStep' BY <1>1, <1>2, <1>4, <2>1 DEF AtStep, control
  <2>3. ThreadInv' BY <1>1, <1>4 DEF ThreadInv
  <2>4. QED
    BY <1>1, <1>4, <2>2, <2>3, CommandGoesOn DEF ServiceType, Steps, Call, control
<1>5. QED BY <1>3, <1>4 DEF Restart, Goto

LEMMA JoinOldKeeps == ServiceInv /\ JoinOld => ServiceInv'
<1> SUFFICES ASSUME ServiceInv, JoinOld PROVE ServiceInv'
  OBVIOUS
<1>1. /\ Reloading /\ call.prev = appSnap /\ ~shut /\ call.cand \in Config /\ ServiceType
      /\ svc \in Service
  BY DEF ServiceInv, AtStep, JoinOld, ServiceType, Up
<1>2. /\ srv' = NoThread /\ cpc' = "spawn" /\ UNCHANGED control
      /\ svc' = [svc EXCEPT !.server = FALSE, !.state = "stopped", !.snap = call.cand]
      /\ call' = [call EXCEPT !.phase = "restart"]
  BY DEF JoinOld
<1>3. svc' \in Service /\ svc'.state = "stopped" /\ svc'.snap = call.cand
  BY <1>1, <1>2 DEF Service
<1>4. svc' # None BY <1>3
<1>5. srv' \in Thread /\ srv'.pc = "none" BY <1>2, NoThreadType
<1>6. /\ call' \in Call /\ call'.op = call.op /\ call'.phase = "restart"
      /\ call'.prev = call.prev /\ call'.cand = call.cand
  BY <1>1, <1>2 DEF ServiceType, Call
<1>7. Attempt'
  BY <1>1, <1>2, <1>3, <1>4, <1>6 DEF Attempt, Reloading, InForce, control
<1>8. AtStep' BY <1>1, <1>2, <1>3, <1>5, <1>6, <1>7 DEF AtStep, control
<1>9. ThreadInv' BY <1>5 DEF ThreadInv
<1>10. QED
  BY <1>1, <1>2, <1>3, <1>5, <1>6, <1>8, <1>9, CommandGoesOn DEF ServiceType, Steps, control

LEMMA ReloadFailedKeeps == ServiceInv /\ ReloadFailed => ServiceInv'
<1> SUFFICES ASSUME ServiceInv, ReloadFailed PROVE ServiceInv'
  OBVIOUS
<1>1. /\ Reloading /\ svc # None /\ ~shut /\ ServiceType /\ ThreadInv
      /\ svc.state = "running" => Serves /\ svc.snap = appSnap /\ srv.cfg = appSnap
      /\ shut' = shut /\ Return(FALSE) /\ call.op # "shutdown"
  BY DEF ServiceInv, AtStep, ReloadFailed, Reloading
<1>2. CASE svc.state = "running" /\ Status("running") /\ UNCHANGED <<svc, srv, appSnap>>
  <2>1. Settled'
    BY <1>1, <1>2 DEF Settled, Status, Reloading, InForce, Serves, Up
  <2>2. ThreadInv' BY <1>1, <1>2 DEF ThreadInv
  <2>3. QED BY <1>1, <1>2, <2>1, <2>2, ReturnSettles DEF ServiceType
<1>3. CASE /\ svc.state # "running" /\ svc' = None /\ srv' = NoThread /\ appSnap' = None
           /\ Status("faulted")
  <2>1. srv' \in Thread /\ srv'.pc = "none" BY <1>3, NoThreadType
  <2>2. Settled' BY <1>1, <1>3, <2>1 DEF Settled, Status
  <2>3. ThreadInv' BY <2>1 DEF ThreadInv
  <2>4. QED BY <1>1, <1>3, <2>1, <2>2, <2>3, ReturnSettles DEF ServiceType
<1>4. QED BY <1>2, <1>3 DEF ReloadFailed

\* stop() and shutdown() end with no service and no thread.
LEMMA StopReturnsKeeps ==
    ASSUME ServiceInv, NEW ok \in BOOLEAN, StopReturns(ok), ~shut,
           call.op \in {"stop", "shutdown"}
    PROVE  ServiceInv'
<1>1. srv' \in Thread /\ srv'.pc = "none" BY NoThreadType DEF StopReturns
<1>2. /\ svc' = None /\ appSnap' = None /\ Return(ok) /\ shut' \in BOOLEAN
      /\ listener' = None /\ app' \in {"stopped", "faulted", "shutdown"}
      /\ call.op = "shutdown" => shut'
      /\ shut' = TRUE <=> app' = "shutdown"
  <2>1. CASE call.op = "stop"
    BY <2>1 DEF StopReturns, Status, ServiceInv, ServiceType
  <2>2. CASE call.op = "shutdown"
    BY <2>2 DEF StopReturns, Status
  <2>3. QED BY <2>1, <2>2
<1>3. Settled' BY <1>1, <1>2 DEF Settled
<1>4. ThreadInv' BY <1>1 DEF ThreadInv
<1>5. QED BY <1>1, <1>2, <1>3, <1>4, ReturnSettles

LEMMA StopServiceKeeps == ServiceInv /\ StopService => ServiceInv'
<1> SUFFICES ASSUME ServiceInv, StopService PROVE ServiceInv'
  OBVIOUS
<1>1. /\ Settled /\ ~shut /\ call.op \in {"stop", "shutdown"} /\ ServiceType /\ ThreadInv
  BY DEF ServiceInv, AtStep, StopService
<1>2. CASE svc = None /\ StopReturns(TRUE) BY <1>1, <1>2, StopReturnsKeeps
<1>3. CASE svc # None
  <2>1. /\ app' = "stopping" /\ shut' = shut /\ appSnap' = appSnap
        /\ cpc' = "join_stop" /\ call' = call
        /\ \/ UNCHANGED <<svc, srv>>
           \/ /\ svc.state # "stopped"
              /\ svc' = [svc EXCEPT !.state = "stopping"]
              /\ srv' = [srv EXCEPT !.stop = TRUE]
    BY <1>3 DEF StopService, Status, Goto
  <2>2. Up /\ svc \in Service /\ srv \in Thread
    BY <1>1, <1>3 DEF Settled, Serves, ServiceType
  <2>3. Up' /\ ThreadInv' /\ svc' \in Service /\ srv' \in Thread
    <3>1. CASE UNCHANGED <<svc, srv>> BY <1>1, <2>2, <3>1 DEF Up, ThreadInv
    <3>2. CASE /\ svc.state # "stopped"
               /\ svc' = [svc EXCEPT !.state = "stopping"]
               /\ srv' = [srv EXCEPT !.stop = TRUE]
      <4>1. svc' \in Service BY <2>2, <3>2 DEF Service
      <4>2. svc' # None BY <4>1
      <4>3. srv' \in Thread /\ srv'.pc = srv.pc BY <2>2, <3>2 DEF Thread
      <4>4. srv.pc # "ended" BY <1>1, <3>2 DEF ThreadInv
      <4>5. QED BY <2>2, <4>1, <4>2, <4>3, <4>4 DEF Up, ThreadInv
    <3>3. QED BY <2>1, <3>1, <3>2
  <2>4. AtStep' BY <1>1, <2>1, <2>3 DEF AtStep
  <2>5. QED BY <1>1, <2>1, <2>3, <2>4, CommandGoesOn DEF ServiceType, Steps, Call
<1>4. QED BY <1>2, <1>3 DEF StopService

LEMMA JoinStopKeeps == ServiceInv /\ JoinStop => ServiceInv'
<1> SUFFICES ASSUME ServiceInv, JoinStop PROVE ServiceInv'
  OBVIOUS
<1>1. ~shut /\ call.op \in {"stop", "shutdown"} BY DEF ServiceInv, AtStep, JoinStop
<1>2. \E ok \in BOOLEAN : StopReturns(ok)
  <2>1. StopReturns(svc.code = 0) BY DEF JoinStop
  <2>2. (svc.code = 0) \in BOOLEAN OBVIOUS
  <2>3. QED BY <2>1, <2>2, Zenon
<1>3. QED BY <1>1, <1>2, StopReturnsKeeps

\* Every step of a command keeps the invariant of the service.
LEMMA CommandKeeps == ServiceInv /\ CommandStep => ServiceInv'
BY RefreshKeeps, CheckKeeps, LoadKeeps, SpawnKeeps, AwaitKeeps, FailedKeeps, SwapKeeps,
   AppliedKeeps, RestartKeeps, JoinOldKeeps, ReloadFailedKeeps, StopServiceKeeps, JoinStopKeeps
   DEF CommandStep

-----------------------------------------------------------------------------
(* The host *)

LEMMA ServiceSame == ServiceInv /\ UNCHANGED controlVars => ServiceInv'
BY DEF ServiceInv, ServiceType, AtStep, ThreadInv, Settled, Starting, Reloading,
   InForce, Attempt, AwaitStart, Deciding, Serves, Up, controlVars, control

\* A post leaves one more task.
LEMMA PostTasks ==
    ASSUME tasks \in Seq(Task), NEW op \in Op \cup {"drained"}, NEW from \in {"tray", "view"},
           Post(op, from)
    PROVE  /\ tasks' \in Seq(Task) /\ Len(tasks') = Len(tasks) + 1
           /\ \A i \in 1 .. Len(tasks) : tasks'[i] = tasks[i]
           /\ tasks'[Len(tasks) + 1] = [op |-> op, from |-> from]
<1>1. [op |-> op, from |-> from] \in Task BY DEF Task
<1>2. QED BY <1>1 DEF Post

\* A command or a status request is posted, from a thread that the exit has
\* not stopped yet.
LEMMA PostKeeps ==
    ASSUME HostInv, NEW op \in Op, NEW from \in {"tray", "view"}, Post(op, from), CanPost,
           UNCHANGED <<controlVars, running, joining, ui>>
    PROVE  HostInv'
<1>1. ui \notin {"join", "destroy", "gone"} BY DEF HostInv, ExecutorInv, CanPost
<1>2. /\ tasks' \in Seq(Task) /\ Len(tasks') = Len(tasks) + 1
      /\ \A i \in 1 .. Len(tasks) : tasks'[i] = tasks[i]
      /\ tasks'[Len(tasks) + 1] = [op |-> op, from |-> from]
  BY PostTasks DEF HostInv, ExecutorInv
<1>3. ServiceInv' BY ServiceSame DEF HostInv
<1>4. ExecutorInv' BY <1>1, <1>2 DEF HostInv, ExecutorInv, Drains, controlVars, control
<1>5. DrainInv'
  <2>1. op # "drained" BY DEF Op
  <2>2. \A i \in 1 .. Len(tasks') : Drains(tasks'[i]) => i \in 1 .. Len(tasks)
    BY <1>2, <2>1 DEF Drains, HostInv, ExecutorInv
  <2>3. QED BY <1>2, <2>2 DEF HostInv, DrainInv, Drains, ExecutorInv
<1>6. QED BY <1>3, <1>4, <1>5 DEF HostInv

\* The UI thread goes on without the executor: no task is awaited, and the
\* executor has not been joined.
LEMMA UiKeeps ==
    ASSUME HostInv, UNCHANGED <<controlVars, executor>>,
           ui \notin {"drain", "destroy", "gone"},
           ui' \notin {"join", "destroy", "gone"}
    PROVE  HostInv'
<1>1. ServiceInv' BY ServiceSame DEF HostInv
<1>2. ExecutorInv' BY DEF HostInv, ExecutorInv, Drains, controlVars, control, executor
<1>3. DrainInv' BY DEF HostInv, DrainInv, Drains, executor
<1>4. QED BY <1>1, <1>2, <1>3 DEF HostInv

\* A command goes on, or the server thread does.
LEMMA ControlKeeps ==
    ASSUME HostInv, ServiceInv', UNCHANGED <<executor, ui>>,
           CommandStep \/ UNCHANGED <<cpc, call>>,
           shut => shut'
    PROVE  HostInv'
<1>1. CASE UNCHANGED <<cpc, call>>
  <2>1. ExecutorInv' BY <1>1 DEF HostInv, ExecutorInv, Drains, executor
  <2>2. QED BY <2>1 DEF HostInv, DrainInv, Drains, executor
<1>2. CASE CommandStep
  <2>1. cpc # "idle" /\ call'.op = call.op
    BY <1>2, ZenonT(60) DEF HostInv, ServiceInv, ServiceType, Call, CommandStep, Refresh, Check,
       Load, Spawn,
       Await, Failed, Swap, Applied, Restart, JoinOld, ReloadFailed, StopService, JoinStop,
       Goto, Return, Succeed, StopReturns
  <2>2. ExecutorInv' BY <2>1 DEF HostInv, ExecutorInv, Drains, executor
  <2>3. QED BY <2>2 DEF HostInv, DrainInv, Drains, executor
<1>3. QED BY <1>1, <1>2

\* Nothing takes a shutdown back.
LEMMA ShutStays ==
    ASSUME ServiceInv, CommandStep \/ ServerStep \/ RunBreaks \/ StatusElsewhere, shut
    PROVE  shut'
BY DEF CommandStep, Refresh, Check, Load, Spawn, Await, Failed, Swap, Applied, Restart, JoinOld,
   ReloadFailed, StopService, JoinStop, RefreshCompleted, Succeed, StopReturns, control,
   ServerStep, RunBegins, RunFails, RunOpens, RunBreaks, RunStops, RunReturns, StatusElsewhere

\* A settled service between commands, when the executor gives its worker or
\* the destructor a command, or when a command has been answered.
LEMMA BetweenCommands ==
    ASSUME ServiceInv, Settled', ThreadInv', shut' = shut,
           svc' \in Service \cup {None}, srv' \in Thread, call' \in Call,
           cpc' \in {"idle", "refresh"} \/ (cpc' = "done" /\ cpc = "done" /\ call' = call)
    PROVE  ServiceInv'
<1>1. AtStep' BY DEF ServiceInv, AtStep
<1>2. QED BY <1>1, CommandGoesOn DEF Steps

LEMMA NoCallType == \A op \in Op : [NoCall EXCEPT !.op = op] \in Call
                                   /\ [NoCall EXCEPT !.op = op].op = op
BY DEF NoCall, Call

\* The status refreshed between commands, by the executor or by the
\* maintenance endpoint.
LEMMA StatusKeeps ==
    ASSUME ServiceInv, RefreshCompleted, cpc \in {"idle", "done"}, call' \in Call,
           cpc' = "idle" \/ UNCHANGED <<cpc, call>>
    PROVE  ServiceInv' /\ shut' = shut
<1>1. Settled BY DEF ServiceInv, AtStep
<1>2. QED BY <1>1, RefreshSettles, BetweenCommands

\* The worker takes the task at the head of its queue.
LEMMA TakeTaskKeeps == HostInv /\ TakeTask => HostInv'
<1> SUFFICES ASSUME HostInv, TakeTask PROVE HostInv'
  OBVIOUS
<1>1. /\ tasks \in Seq(Task) /\ tasks # <<>> /\ running = None
      /\ running' = Head(tasks) /\ tasks' = Tail(tasks) /\ joining' = joining /\ ui' = ui
      /\ UNCHANGED <<control, svc, srv>>
  BY DEF TakeTask, HostInv, ExecutorInv
<1>2. /\ Head(tasks) = tasks[1] /\ tasks[1] \in Task /\ Len(tasks) \in Nat /\ Len(tasks) > 0
      /\ tasks' \in Seq(Task) /\ Len(tasks') = Len(tasks) - 1
      /\ \A i \in 1 .. Len(tasks') : i + 1 \in 1 .. Len(tasks) /\ tasks'[i] = tasks[i + 1]
  BY <1>1
<1>3. running' # None /\ running' \in Task BY <1>1, <1>2
<1>4. cpc = "idle" /\ ui \notin {"destroy", "gone"} BY <1>1 DEF HostInv, ExecutorInv
<1>5. Settled /\ ThreadInv /\ ServiceType BY <1>4 DEF HostInv, ServiceInv, AtStep
<1>6. Settled' /\ ThreadInv'
  BY <1>1, <1>5 DEF Settled, Serves, Up, InForce, ThreadInv, control
<1>7. ServiceInv' /\ (Drains(running') => cpc' = "idle")
  <2>1. CASE Head(tasks).op \in Op
    <3>1. cpc' = "refresh" /\ call' = [NoCall EXCEPT !.op = Head(tasks).op]
      BY <2>1 DEF TakeTask
    <3>2. call' \in Call BY <2>1, <3>1, NoCallType
    <3>3. ServiceInv'
      BY <1>1, <1>5, <1>6, <3>1, <3>2, BetweenCommands DEF HostInv, ServiceType, control
    <3>4. ~Drains(running') BY <1>1, <2>1 DEF Drains, Op
    <3>5. QED BY <3>3, <3>4
  <2>2. CASE Head(tasks).op \notin Op
    BY <1>1, <1>4, <2>2, ServiceSame DEF TakeTask, HostInv, controlVars
  <2>3. QED BY <2>1, <2>2
<1>8. Drains(running') => ui = "drain" BY <1>1, <1>2 DEF HostInv, DrainInv
<1>9. ExecutorInv' BY <1>1, <1>2, <1>3, <1>4, <1>7, <1>8 DEF HostInv, ExecutorInv
<1>10. DrainInv'
  <2> SUFFICES ASSUME NEW i \in 1 .. Len(tasks'), Drains(tasks'[i])
               PROVE  /\ ui' = "drain" /\ ~Drains(running')
                      /\ \A j \in 1 .. Len(tasks') : Drains(tasks'[j]) => i = j
    BY DEF DrainInv, Drains
  <2>1. i + 1 \in 1 .. Len(tasks) /\ Drains(tasks[i + 1]) BY <1>2
  <2>2. ui = "drain" /\ \A j \in 1 .. Len(tasks) : Drains(tasks[j]) => i + 1 = j
    BY <2>1 DEF HostInv, DrainInv
  <2>3. 1 \in 1 .. Len(tasks) /\ i + 1 # 1 BY <1>2
  <2>4. ~Drains(running') BY <1>1, <1>2, <2>2, <2>3
  <2>5. \A j \in 1 .. Len(tasks') : Drains(tasks'[j]) => i = j BY <1>2, <2>2
  <2>6. QED BY <1>1, <2>2, <2>4, <2>5
<1>11. QED BY <1>7, <1>9, <1>10 DEF HostInv

\* A command has been answered.
LEMMA FinishCommandKeeps == HostInv /\ FinishCommand => HostInv'
<1> SUFFICES ASSUME HostInv, FinishCommand PROVE HostInv'
  OBVIOUS
<1>1. /\ running # None /\ cpc = "done" /\ running' = None /\ cpc' = "idle" /\ call' = NoCall
      /\ tasks' = tasks /\ joining' = joining /\ ui' = ui
      /\ RefreshCompleted \/ UNCHANGED <<control, svc, srv>>
  BY DEF FinishCommand
<1>2. NoCall \in Call BY DEF NoCall, Call, Op
<1>3. ServiceInv'
  <2>1. CASE RefreshCompleted BY <1>1, <1>2, <2>1, StatusKeeps DEF HostInv
  <2>2. CASE UNCHANGED <<control, svc, srv>>
    <3>1. Settled /\ ThreadInv /\ ServiceType BY <1>1 DEF HostInv, ServiceInv, AtStep
    <3>2. Settled' /\ ThreadInv'
      BY <2>2, <3>1 DEF Settled, Serves, Up, InForce, ThreadInv, control
    <3>3. QED BY <1>1, <1>2, <2>2, <3>1, <3>2, BetweenCommands DEF HostInv, ServiceType, control
  <2>3. QED BY <1>1, <2>1, <2>2
<1>4. ui \notin {"destroy", "gone"} BY <1>1 DEF HostInv, ExecutorInv
<1>5. ExecutorInv' BY <1>1, <1>4 DEF HostInv, ExecutorInv, Drains
<1>6. DrainInv' BY <1>1 DEF HostInv, DrainInv, Drains
<1>7. QED BY <1>3, <1>5, <1>6 DEF HostInv

\* Every step of the UI thread, the executor, the server thread and the
\* maintenance endpoint keeps the invariant.
LEMMA HostStep == HostInv /\ [Next]_vars => HostInv'
<1> SUFFICES ASSUME HostInv, [Next]_vars PROVE HostInv'
  OBVIOUS
<1>1. CASE UNCHANGED vars
  <2>1. ServiceInv' BY <1>1, ServiceSame DEF vars, HostInv
  <2>2. ExecutorInv' BY <1>1 DEF vars, HostInv, ExecutorInv, Drains, executor, controlVars, control
  <2>3. DrainInv' BY <1>1 DEF vars, HostInv, DrainInv, Drains, executor
  <2>4. QED BY <2>1, <2>2, <2>3 DEF HostInv
<1>2. ASSUME NEW op \in ServiceOp, PostCommand(op) PROVE HostInv'
  <2>1. op \in Op BY DEF ServiceOp, Op
  <2>2. CASE CanPost BY <1>2, <2>1, <2>2, PostKeeps DEF PostCommand
  <2>3. CASE ~CanPost BY <1>2, <2>3, UiKeeps DEF PostCommand, executor
  <2>4. QED BY <2>2, <2>3
<1>3. ASSUME NEW op \in ServiceOp, Submit(op) PROVE HostInv'
  <2>1. op \in Op BY DEF ServiceOp, Op
  <2>2. QED BY <1>3, <2>1, PostKeeps DEF Submit
<1>4. CASE PostStatus
  <2>1. "status" \in Op BY DEF Op
  <2>2. QED BY <1>4, <2>1, PostKeeps DEF PostStatus
<1>5. CASE RequestExit BY <1>5, UiKeeps DEF RequestExit, BeginExit
<1>6. CASE LoopFails BY <1>6, UiKeeps DEF LoopFails
<1>7. CASE GuiStopped BY <1>7, UiKeeps DEF GuiStopped
<1>8. CASE HandleMessage BY <1>8, UiKeeps DEF HandleMessage, FinishExit, BeginExit
<1>9. CASE StopViewModel
  <2>1. CASE ~CanPost BY <1>9, <2>1, UiKeeps DEF StopViewModel, executor
  <2>2. CASE CanPost
    <3>1. /\ Post("drained", "view") /\ ui = "view" /\ ui' = "drain"
          /\ UNCHANGED <<controlVars, running, joining>>
      BY <1>9, <2>2 DEF StopViewModel
    <3>2. /\ tasks' \in Seq(Task) /\ Len(tasks') = Len(tasks) + 1
          /\ \A i \in 1 .. Len(tasks) : tasks'[i] = tasks[i]
      BY <3>1, PostTasks DEF HostInv, ExecutorInv
    <3>3. ServiceInv' BY <3>1, ServiceSame DEF HostInv
    <3>4. ExecutorInv' BY <3>1, <3>2 DEF HostInv, ExecutorInv, Drains, controlVars, control
    <3>5. /\ ~Drains(running)
          /\ \A i \in 1 .. Len(tasks) : ~Drains(tasks[i])
      BY <3>1 DEF HostInv, DrainInv, ExecutorInv
    <3>6. \A i \in 1 .. Len(tasks') : Drains(tasks'[i]) => i = Len(tasks')
      BY <3>2, <3>5 DEF HostInv, ExecutorInv
    <3>7. DrainInv' BY <3>1, <3>5, <3>6 DEF DrainInv, Drains
    <3>8. QED BY <3>3, <3>4, <3>7 DEF HostInv
  <2>3. QED BY <2>1, <2>2
<1>10. CASE PostShutdown
  <2>1. CASE ~CanPost BY <1>10, <2>1, UiKeeps DEF PostShutdown, executor, FinishExit
  <2>2. CASE CanPost
    <3>1. /\ Post("shutdown", "tray") /\ ui = "shutdown" /\ ui' = "loop"
          /\ UNCHANGED <<controlVars, running, joining>>
      BY <1>10, <2>2 DEF PostShutdown
    <3>2. "shutdown" \in Op BY DEF Op
    <3>3. /\ tasks' \in Seq(Task) /\ Len(tasks') = Len(tasks) + 1
          /\ \A i \in 1 .. Len(tasks) : tasks'[i] = tasks[i]
          /\ tasks'[Len(tasks) + 1] = [op |-> "shutdown", from |-> "tray"]
      BY <3>1, <3>2, PostTasks DEF HostInv, ExecutorInv
    <3>4. ServiceInv' BY <3>1, ServiceSame DEF HostInv
    <3>5. ExecutorInv' BY <3>1, <3>3 DEF HostInv, ExecutorInv, Drains, controlVars, control
    <3>6. \A i \in 1 .. Len(tasks) : ~Drains(tasks[i]) BY <3>1 DEF HostInv, DrainInv
    <3>7. \A i \in 1 .. Len(tasks') : ~Drains(tasks'[i])
      BY <3>3, <3>6 DEF HostInv, ExecutorInv, Drains
    <3>8. DrainInv' BY <3>7 DEF DrainInv, Drains
    <3>9. QED BY <3>4, <3>5, <3>8 DEF HostInv
  <2>3. QED BY <2>1, <2>2
<1>11. CASE StopExecutor
  <2>1. ServiceInv' BY <1>11, ServiceSame DEF StopExecutor, HostInv
  <2>2. ExecutorInv' BY <1>11 DEF StopExecutor, HostInv, ExecutorInv, Drains, controlVars, control
  <2>3. DrainInv' BY <1>11 DEF StopExecutor, HostInv, DrainInv, Drains
  <2>4. QED BY <2>1, <2>2, <2>3 DEF HostInv
<1>12. CASE DestroyController
  <2>1. /\ ui = "join" /\ tasks = <<>> /\ running = None /\ cpc = "idle"
        /\ UNCHANGED <<control, svc, srv, executor>> /\ ui' = "destroy"
        /\ cpc' = "refresh" /\ call' = [NoCall EXCEPT !.op = "shutdown"]
    BY <1>12 DEF DestroyController, HostInv, ExecutorInv
  <2>2. call' \in Call /\ call'.op = "shutdown" BY <2>1, NoCallType DEF Op
  <2>3. Settled /\ ThreadInv /\ ServiceType BY <2>1 DEF HostInv, ServiceInv, AtStep
  <2>4. Settled' /\ ThreadInv'
    BY <2>1, <2>3 DEF Settled, Serves, Up, InForce, ThreadInv, control
  <2>5. ServiceInv'
    BY <2>1, <2>2, <2>3, <2>4, BetweenCommands DEF HostInv, ServiceType, control
  <2>6. ExecutorInv' BY <2>1, <2>2 DEF HostInv, ExecutorInv, Drains, executor
  <2>7. DrainInv' BY <2>1 DEF DrainInv, executor
  <2>8. QED BY <2>5, <2>6, <2>7 DEF HostInv
<1>13. CASE End
  <2>1. /\ ui = "destroy" /\ cpc = "done" /\ UNCHANGED <<control, svc, srv, call, executor>>
        /\ ui' = "gone" /\ cpc' = "idle"
    BY <1>13 DEF End
  <2>2. Settled /\ ThreadInv /\ ServiceType /\ shut /\ tasks = <<>>
    BY <2>1 DEF HostInv, ServiceInv, AtStep, ExecutorInv
  <2>3. Settled' /\ ThreadInv'
    BY <2>1, <2>2 DEF Settled, Serves, Up, InForce, ThreadInv, control
  <2>4. ServiceInv'
    BY <2>1, <2>2, <2>3, BetweenCommands DEF HostInv, ServiceType, control, Call
  <2>5. ExecutorInv' BY <2>1, <2>2 DEF HostInv, ExecutorInv, Drains, executor, control
  <2>6. DrainInv' BY <2>1, <2>2 DEF DrainInv, executor
  <2>7. QED BY <2>4, <2>5, <2>6 DEF HostInv
<1>14. CASE TakeTask BY <1>14, TakeTaskKeeps
<1>15. CASE FinishCommand BY <1>15, FinishCommandKeeps
<1>16. CASE FinishDrained
  <2>1. /\ Drains(running) /\ running' = None /\ ui' = "shutdown"
        /\ UNCHANGED <<controlVars, tasks, joining>>
    BY <1>16 DEF FinishDrained, Drains
  <2>2. ServiceInv' BY <2>1, ServiceSame DEF HostInv
  <2>3. ExecutorInv' BY <2>1 DEF HostInv, ExecutorInv, Drains, controlVars, control
  <2>4. DrainInv' BY <2>1 DEF HostInv, DrainInv, Drains
  <2>5. QED BY <2>2, <2>3, <2>4 DEF HostInv
<1>17. CASE Control(CommandStep)
  BY <1>17, CommandKeeps, ShutStays, ControlKeeps DEF Control, HostInv
<1>18. CASE Control(ServerStep) \/ Control(RunBreaks)
  <2>1. UNCHANGED <<cpc, call>>
    BY <1>18 DEF Control, ServerStep, RunBegins, RunFails, RunOpens, RunBreaks, RunStops, RunReturns
  <2>2. QED BY <1>18, <2>1, ServerKeeps, ShutStays, ControlKeeps DEF Control, HostInv
<1>19. ASSUME NEW delivered \in BOOLEAN, RequestShutdown(delivered) PROVE HostInv'
  <2>1. UNCHANGED <<controlVars, executor, ui>> BY <1>19 DEF RequestShutdown
  <2>2. ServiceInv' BY <2>1, ServiceSame DEF HostInv
  <2>3. QED BY <2>1, <2>2, ControlKeeps DEF controlVars, control
<1>20. CASE MaintenanceStatus
  <2>1. UNCHANGED <<cpc, call, executor, ui>> /\ StatusElsewhere
    BY <1>20 DEF MaintenanceStatus
  <2>2. ServiceInv'
    <3>1. CASE RefreshCompleted /\ cpc \in {"idle", "done"}
      BY <2>1, <3>1, StatusKeeps DEF HostInv, ServiceInv, ServiceType, Call
    <3>2. CASE UNCHANGED <<control, svc, srv>>
      BY <2>1, <3>2, ServiceSame DEF HostInv, controlVars
    <3>3. QED BY <2>1, <3>1, <3>2 DEF StatusElsewhere
  <2>3. QED BY <2>1, <2>2, ShutStays, ControlKeeps DEF HostInv
<1>21. QED
  BY <1>1, <1>2, <1>3, <1>4, <1>5, <1>6, <1>7, <1>8, <1>9, <1>10, <1>11, <1>12, <1>13, <1>14,
     <1>15, <1>16, <1>17, <1>18, <1>19, <1>20 DEF Next, UiStep, ExecutorStep

LEMMA HostInitial == Init => HostInv
<1> SUFFICES ASSUME Init PROVE HostInv
  OBVIOUS
<1>1. ServiceInv
  <2>1. NoThread \in Thread /\ NoThread.pc = "none" BY NoThreadType
  <2>2. NoCall \in Call BY DEF NoCall, Call, Op
  <2>3. ServiceType BY <2>1, <2>2 DEF Init, ControlInit, ServiceType, Steps, Call
  <2>4. Settled BY <2>1 DEF Init, ControlInit, Settled
  <2>5. QED
    BY <2>1, <2>3, <2>4 DEF Init, ControlInit, ServiceInv, AtStep, ThreadInv
<1>2. ExecutorInv
  <2>1. /\ [op |-> "status", from |-> "tray"] \in Task
        /\ [op |-> "start", from |-> "tray"] \in Task
    BY DEF Task, Op
  <2>2. tasks \in Seq(Task) BY <2>1 DEF Init
  <2>3. QED BY <2>2 DEF Init, ControlInit, ExecutorInv, Drains
<1>3. DrainInv
  <2>1. Len(tasks) = 2 /\ tasks[1].op = "status" /\ tasks[2].op = "start" BY DEF Init
  <2>2. \A i \in 1 .. Len(tasks) : i = 1 \/ i = 2 BY <2>1
  <2>3. \A i \in 1 .. Len(tasks) : ~Drains(tasks[i]) BY <2>1, <2>2 DEF Drains
  <2>4. QED BY <2>3 DEF DrainInv
<1>4. QED BY <1>1, <1>2, <1>3 DEF HostInv

\* The invariant of the service and of the executor holds of every run of
\* the tray.
THEOREM HostInvariant == Spec => []HostInv
BY HostInitial, HostStep, PTL DEF Spec

\* Between commands the status of the tray is the truth about the service,
\* and wait_for_release is answered only when nothing is left running.
THEOREM StatusIsTruthful == Spec => []StatusTruthful
<1>1. HostInv => StatusTruthful
  <2> SUFFICES ASSUME HostInv PROVE StatusTruthful
    OBVIOUS
  <2>1. app \in {"stopped", "shutdown"} => svc = None /\ srv.pc = "none"
    <3> SUFFICES ASSUME app \in {"stopped", "shutdown"} PROVE svc = None /\ srv.pc = "none"
      OBVIOUS
    <3>1. CASE cpc \in {"idle", "refresh", "check", "stop", "done"}
      BY <3>1 DEF HostInv, ServiceInv, AtStep, Settled
    <3>2. CASE cpc \notin {"idle", "refresh", "check", "stop", "done"}
      BY <3>2 DEF HostInv, ServiceInv, ServiceType, Steps, AtStep, Starting, Reloading,
         Attempt, AwaitStart, Deciding
    <3>3. QED BY <3>1, <3>2
  <2>2. cpc = "idle" => Settled BY DEF HostInv, ServiceInv, AtStep
  <2>3. QED BY <2>1, <2>2 DEF StatusTruthful, ReleaseReady, Settled, InForce
<1>2. QED BY <1>1, HostInvariant, PTL

\* After a shutdown, and when the process has ended, nothing is left running.
THEOREM ShutdownIsFinal == Spec => []ShutdownFinal
<1>1. HostInv => ShutdownFinal
  <2> SUFFICES ASSUME HostInv, shut PROVE app = "shutdown" /\ svc = None /\ srv.pc = "none"
    BY DEF HostInv, ExecutorInv, ShutdownFinal
  <2>1. Settled BY DEF HostInv, ServiceInv, AtStep
  <2>2. QED BY <2>1 DEF Settled
<1>2. QED BY <1>1, HostInvariant, PTL

\* A reload that fails leaves the configuration in force, or none.
THEOREM FailureKeepsTheConfiguration == Spec => FailureKeepsConfiguration
<1> DEFINE Kept ==
      cpc # "done" /\ cpc' = "done" /\ call.op = "reload" /\ ~call'.ok =>
          appSnap' \in {appSnap, None} /\ (svc' # None => svc'.snap = appSnap)
<1>1. HostInv /\ [Next]_vars => [Kept]_vars
  <2> SUFFICES ASSUME HostInv, Next, cpc # "done", cpc' = "done", call.op = "reload", ~call'.ok
               PROVE  appSnap' \in {appSnap, None} /\ (svc' # None => svc'.snap = appSnap)
    OBVIOUS
  <2>1. CommandStep
    BY DEF Next, UiStep, ExecutorStep, PostCommand, Submit, PostStatus, RequestExit, LoopFails,
       GuiStopped, StopViewModel, PostShutdown, HandleMessage, StopExecutor, DestroyController,
       End, TakeTask, FinishCommand, FinishDrained, Control, ServerStep, RunBegins, RunFails,
       RunOpens, RunBreaks, RunStops, RunReturns, RequestShutdown, MaintenanceStatus, controlVars
  <2>2. CASE Check
    <3>1. Settled /\ UNCHANGED <<svc, appSnap>>
      BY <2>2 DEF HostInv, ServiceInv, AtStep, Check
    <3>2. QED BY <3>1 DEF Settled
  <2>3. CASE Load
    <3>1. svc' = svc /\ appSnap' = appSnap BY <2>3 DEF Load
    <3>2. svc.snap = appSnap BY <2>3 DEF Load, HostInv, ServiceInv, AtStep, Starting
    <3>3. QED BY <3>1, <3>2
  <2>4. CASE ReloadFailed
    <3>1. svc.state = "running" => svc.snap = appSnap
      BY <2>4 DEF ReloadFailed, HostInv, ServiceInv, AtStep
    <3>2. QED BY <2>4, <3>1 DEF ReloadFailed
  <2>5. CASE Await \/ Applied
    <3>1. call' = [call EXCEPT !.ok = TRUE]
      BY <2>5 DEF Await, Applied, Succeed, Return, Goto
    <3>2. QED BY <3>1 DEF HostInv, ServiceInv, ServiceType
  <2>6. CASE StopService \/ JoinStop
    BY <2>6 DEF StopService, JoinStop, HostInv, ServiceInv, AtStep
  <2>7. CASE Failed
    <3>1. call.phase = "start" BY <2>7 DEF Failed, Goto
    <3>2. QED BY <2>7, <3>1 DEF Failed, HostInv, ServiceInv, AtStep, Attempt, Starting
  <2>8. QED
    BY <2>1, <2>2, <2>3, <2>4, <2>5, <2>6, <2>7
    DEF CommandStep, Refresh, Spawn, Swap, Restart, JoinOld, Goto
<1>2. QED BY <1>1, HostInvariant, PTL DEF Spec, FailureKeepsConfiguration
=============================================================================
