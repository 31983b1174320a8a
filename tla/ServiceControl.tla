--------------------------- MODULE ServiceControl ---------------------------
(***************************************************************************)
(* ApplicationController over AppService over one server thread: starting, *)
(* reloading by a generation swap or by a restart with rollback, stopping, *)
(* and noticing a server that ended by itself.                             *)
(*                                                                         *)
(* The controller calls its AppService only under command_mutex_, so the   *)
(* lifecycle mutex and the wait flag of AppService never meet a second     *)
(* caller; what remains is the command in progress against the server      *)
(* thread, which shares AppService's state under mutex_.                   *)
(*                                                                         *)
(* The server thread is Server::run seen from outside: it opens or fails   *)
(* to, serves, ends when told to or by itself, and always returns once     *)
(* stopped (StopCompletes of module Server).  A configuration is a record  *)
(* of what a restart compares (topo) and what a generation swap publishes  *)
(* (gen).                                                                  *)
(***************************************************************************)
EXTENDS Naturals

CONSTANTS
    Config,    \* configurations that load and compile
    None       \* no configuration, no service

\* The fields of an AppService.
Service ==
    [state : {"stopped", "starting", "running", "reloading", "stopping"},
     snap : Config, server : BOOLEAN, started : BOOLEAN, ok : BOOLEAN,
     complete : BOOLEAN, code : {0, 1}]

ASSUME ServiceAssumption ==
    /\ None \notin Config \cup Service
    /\ \A c \in Config : DOMAIN c = {"topo", "gen"}

VARIABLES
    app,       \* status_.state
    listener,  \* status_.listener_host and port: topo of the running configuration
    shut,      \* shutdown_
    appSnap,   \* the controller's snapshot_
    svc,       \* service_ or the candidate of start, or None
    srv,       \* thread_ and the Server it runs
    cpc,       \* step of the command that holds command_mutex_, or "idle"
    call       \* that command and its locals

control == <<app, listener, shut, appSnap>>
controlVars == <<control, svc, srv, cpc, call>>

Op == {"start", "reload", "stop", "shutdown", "status"}

\* An AppService that was just constructed.
Fresh(c) ==
    [state |-> "stopped", snap |-> c, server |-> FALSE, started |-> FALSE,
     ok |-> FALSE, complete |-> TRUE, code |-> 1]

NoThread == [pc |-> "none", cfg |-> None, stop |-> FALSE]
NoCall == [op |-> "status", cand |-> None, prev |-> None, phase |-> "start", ok |-> FALSE]

Joinable == srv.pc # "none"
Ended == srv.pc = "ended"

\* update_status: the listener is cleared once nothing runs.
Status(s) ==
    /\ app' = s
    /\ listener' = IF s \in {"stopped", "faulted", "shutdown"} THEN None ELSE listener

-----------------------------------------------------------------------------
(* The server thread: Server::run and the lambda of start_impl around it *)

\* run() forgets an earlier stop request.
RunBegins ==
    /\ srv.pc = "created"
    /\ srv' = [srv EXCEPT !.pc = "open", !.stop = FALSE]
    /\ UNCHANGED <<control, svc, cpc, call>>

\* Log file, signals or listener cannot be opened: reported, and run() returns 1.
RunFails ==
    /\ srv.pc = "open"
    /\ srv' = [srv EXCEPT !.pc = "leave"]
    /\ svc' = [svc EXCEPT !.started = TRUE, !.ok = FALSE, !.state = "stopped", !.code = 1]
    /\ UNCHANGED <<control, cpc, call>>

RunOpens ==
    LET ok == svc.state = "starting" IN
    /\ srv.pc = "open"
    /\ srv' = [srv EXCEPT !.pc = "serve"]
    /\ svc' = [svc EXCEPT !.started = TRUE, !.ok = ok, !.code = 0,
                          !.state = IF ok THEN "running" ELSE "stopped"]
    /\ UNCHANGED <<control, cpc, call>>

\* The listener fails, or the logger does, which is a fatal error.
RunBreaks ==
    /\ srv.pc = "serve" /\ ~srv.stop
    /\ srv' = [srv EXCEPT !.stop = TRUE]
    /\ \E code \in {0, 1} : svc' = [svc EXCEPT !.code = code]
    /\ UNCHANGED <<control, cpc, call>>

\* Connections, workers and logger are drained; the logger may fail at last.
RunStops ==
    /\ srv.pc = "serve" /\ srv.stop
    /\ srv' = [srv EXCEPT !.pc = "leave"]
    /\ \E code \in {svc.code, 1} : svc' = [svc EXCEPT !.code = code]
    /\ UNCHANGED <<control, cpc, call>>

\* run() has returned: the end of the thread's function.
RunReturns ==
    /\ srv.pc = "leave"
    /\ srv' = [srv EXCEPT !.pc = "ended"]
    /\ svc' = [svc EXCEPT !.started = TRUE, !.state = "stopped", !.complete = TRUE]
    /\ UNCHANGED <<control, cpc, call>>

ServerStep == RunBegins \/ RunFails \/ RunOpens \/ RunStops \/ RunReturns

-----------------------------------------------------------------------------
(* The command in progress *)

Goto(l) == cpc' = l /\ call' = call
Return(ok) == cpc' = "done" /\ call' = [call EXCEPT !.ok = ok]

\* AppService::try_wait finds a thread that has finished.
Completed == svc # None /\ svc.state = "stopped" /\ svc.complete

\* (mutant) A server that ended by itself is not noticed.
RefreshNothing == UNCHANGED <<control, svc, srv>>

\* refresh_completed_service: the thread is joined, and as nobody asked the
\* service to end it is a fault.
RefreshCompleted ==
    IF Completed
    THEN /\ svc' = None /\ srv' = NoThread /\ appSnap' = None /\ shut' = shut
         /\ Status("faulted")
    ELSE UNCHANGED <<control, svc, srv>>

Refresh ==
    /\ cpc = "refresh" /\ Goto("check")
    /\ IF call.op = "shutdown" /\ shut
       THEN UNCHANGED <<control, svc, srv>>
       ELSE RefreshCompleted

\* May the command go on?  status() is done, shutdown() returns at once the
\* second time.
Allowed ==
    CASE call.op = "start"    -> ~shut /\ app \in {"stopped", "faulted"}
      [] call.op = "reload"   -> ~shut /\ svc # None /\ app = "running"
      [] call.op = "stop"     -> ~shut
      [] call.op = "shutdown" -> ~shut
      [] OTHER                -> FALSE

Check ==
    /\ cpc = "check" /\ UNCHANGED <<svc, srv, shut, appSnap>>
    /\ \/ /\ ~Allowed
          /\ Return(call.op \in {"status", "shutdown"}) /\ UNCHANGED <<app, listener>>
       \/ /\ Allowed /\ call.op \in {"start", "reload"}
          /\ Goto("load") /\ Status(IF call.op = "start" THEN "starting" ELSE "reloading")
       \/ /\ Allowed /\ call.op \in {"stop", "shutdown"}
          /\ Goto("stop") /\ UNCHANGED <<app, listener>>

\* load_runtime_snapshot reads what is stored by now, which may not compile.
Load ==
    /\ cpc = "load" /\ UNCHANGED <<srv, shut, appSnap>>
    /\ \/ /\ Return(FALSE) /\ svc' = svc
          /\ Status(IF call.op = "start" THEN "faulted" ELSE "running")
       \/ \E c \in Config :
            /\ call.op = "start"
            /\ svc' = Fresh(c) /\ cpc' = "spawn"
            /\ call' = [call EXCEPT !.cand = c, !.phase = "start"]
            /\ UNCHANGED <<app, listener>>
       \/ \E c \in Config :
            /\ call.op = "reload"
            /\ svc' = svc /\ cpc' = "swap"
            /\ call' = [call EXCEPT !.cand = c, !.prev = svc.snap]
            /\ UNCHANGED <<app, listener>>

\* start_impl creates the thread, or cannot.  Its refusal of a service that runs
\* is unreachable from the controller.
Spawn ==
    /\ cpc = "spawn" /\ UNCHANGED control
    /\ \/ /\ svc.state = "stopped" /\ ~Joinable
          /\ svc' = [Fresh(svc.snap) EXCEPT !.state = "starting", !.server = TRUE,
                                            !.complete = FALSE]
          /\ srv' = [pc |-> "created", cfg |-> svc.snap, stop |-> FALSE]
          /\ Goto("await")
       \/ /\ svc.state = "stopped" /\ ~Joinable
          /\ svc' = Fresh(svc.snap) /\ srv' = srv /\ Goto("failed")
       \/ /\ ~(svc.state = "stopped" /\ ~Joinable)
          /\ Goto("failed") /\ UNCHANGED <<svc, srv>>

\* The candidate runs: it becomes the controller's snapshot.
Succeed ==
    /\ appSnap' = call.cand /\ shut' = shut
    /\ app' = "running" /\ listener' = call.cand.topo
    /\ Return(TRUE)

\* The startup result is awaited: the service runs, with the candidate or, after
\* a rollback, without it; or the thread of a failed start is joined.
Await ==
    /\ cpc = "await" /\ svc.started
    /\ \/ /\ svc.ok /\ call.phase \in {"start", "restart"}
          /\ Succeed /\ UNCHANGED <<svc, srv>>
       \/ /\ svc.ok /\ call.phase = "rollback"
          /\ Goto("reload_failed") /\ UNCHANGED <<control, svc, srv>>
       \/ /\ ~svc.ok /\ Ended
          /\ srv' = NoThread /\ svc' = [svc EXCEPT !.server = FALSE]
          /\ Goto("failed") /\ UNCHANGED control

\* (mutant) The rollback starts the candidate again.
FailedForward ==
    /\ cpc = "failed" /\ srv' = srv
    /\ \/ /\ call.phase = "start"
          /\ svc' = None /\ Status("faulted") /\ UNCHANGED <<shut, appSnap>>
          /\ Return(FALSE)
       \/ /\ call.phase = "restart"
          /\ call' = [call EXCEPT !.phase = "rollback"] /\ cpc' = "spawn"
          /\ UNCHANGED <<control, svc>>
       \/ /\ call.phase = "rollback"
          /\ Goto("reload_failed") /\ UNCHANGED <<control, svc>>

\* start gives up; a restart rolls back to the previous snapshot; a rollback
\* that fails too ends the reload.
Failed ==
    /\ cpc = "failed" /\ srv' = srv
    /\ \/ /\ call.phase = "start"
          /\ svc' = None /\ Status("faulted") /\ UNCHANGED <<shut, appSnap>>
          /\ Return(FALSE)
       \/ /\ call.phase = "restart"
          /\ svc' = [svc EXCEPT !.snap = call.prev] /\ UNCHANGED control
          /\ call' = [call EXCEPT !.phase = "rollback"] /\ cpc' = "spawn"
       \/ /\ call.phase = "rollback"
          /\ Goto("reload_failed") /\ UNCHANGED <<control, svc>>

\* Server::reload: the generation is swapped unless listener, execution or
\* log writer change; a log writer of its own may fail to open.
Swap ==
    /\ cpc = "swap" /\ UNCHANGED <<control, svc>>
    /\ \/ /\ svc.state = "running" /\ srv.cfg.topo = call.cand.topo
          /\ srv' = [srv EXCEPT !.cfg = call.cand] /\ Goto("applied")
       \/ /\ svc.state = "running" /\ srv.cfg.topo # call.cand.topo
          /\ srv' = srv /\ Goto("restart")
       \/ /\ svc.state # "running" \/ srv.cfg.topo = call.cand.topo
          /\ srv' = srv /\ Goto("reload_failed")

\* (mutant) A swapped generation is not remembered by the service.
AppliedStale ==
    /\ cpc = "applied" /\ UNCHANGED <<svc, srv>>
    /\ \/ svc.state = "running" /\ Succeed
       \/ svc.state # "running" /\ Goto("reload_failed") /\ UNCHANGED control

Applied ==
    /\ cpc = "applied" /\ srv' = srv
    /\ \/ svc.state = "running" /\ svc' = [svc EXCEPT !.snap = call.cand] /\ Succeed
       \/ svc.state # "running" /\ Goto("reload_failed") /\ UNCHANGED <<control, svc>>

Restart ==
    /\ cpc = "restart" /\ UNCHANGED control
    /\ \/ /\ svc.state = "running"
          /\ svc' = [svc EXCEPT !.state = "reloading"] /\ srv' = [srv EXCEPT !.stop = TRUE]
          /\ Goto("join_old")
       \/ svc.state # "running" /\ Goto("reload_failed") /\ UNCHANGED <<svc, srv>>

JoinOld ==
    /\ cpc = "join_old" /\ Ended /\ UNCHANGED control
    /\ srv' = NoThread
    /\ svc' = [svc EXCEPT !.server = FALSE, !.state = "stopped", !.snap = call.cand]
    /\ call' = [call EXCEPT !.phase = "restart"] /\ cpc' = "spawn"

\* The controller keeps a service that still runs and destroys one that does
\* not; its destructor joins the thread.
ReloadFailed ==
    /\ cpc = "reload_failed" /\ shut' = shut /\ Return(FALSE)
    /\ \/ /\ svc.state = "running"
          /\ Status("running") /\ UNCHANGED <<svc, srv, appSnap>>
       \/ /\ svc.state # "running" /\ (Ended \/ ~Joinable)
          /\ svc' = None /\ srv' = NoThread /\ appSnap' = None
          /\ Status("faulted")

\* The end of stop(), or of shutdown(), which adds the shutdown itself.
StopReturns(ok) ==
    /\ Return(ok) /\ svc' = None /\ srv' = NoThread /\ appSnap' = None
    /\ \/ call.op = "stop" /\ shut' = shut /\ Status(IF ok THEN "stopped" ELSE "faulted")
       \/ call.op = "shutdown" /\ shut' = TRUE /\ Status("shutdown")

StopService ==
    /\ cpc = "stop"
    /\ \/ svc = None /\ StopReturns(TRUE)
       \/ /\ svc # None
          /\ Status("stopping") /\ UNCHANGED <<shut, appSnap>> /\ Goto("join_stop")
          /\ \/ svc.state = "stopped" /\ UNCHANGED <<svc, srv>>
             \/ /\ svc.state # "stopped"
                /\ svc' = [svc EXCEPT !.state = "stopping"]
                /\ srv' = [srv EXCEPT !.stop = TRUE]

\* (mutant) stop() does not wait for the thread, and the service stays.
StopUnjoined ==
    /\ cpc = "join_stop"
    /\ Return(TRUE) /\ UNCHANGED <<svc, srv>> /\ appSnap' = None
    /\ \/ call.op = "stop" /\ shut' = shut /\ Status("stopped")
       \/ call.op = "shutdown" /\ shut' = TRUE /\ Status("shutdown")

\* wait() joins the thread and returns its exit code.
JoinStop ==
    /\ cpc = "join_stop" /\ (Ended \/ ~Joinable)
    /\ StopReturns(svc.code = 0)

CommandStep ==
    \/ Refresh \/ Check \/ Load \/ Spawn \/ Await \/ Failed \/ Swap
    \/ Applied \/ Restart \/ JoinOld \/ ReloadFailed \/ StopService \/ JoinStop

ControlInit ==
    /\ app = "stopped" /\ listener = None /\ shut = FALSE /\ appSnap = None
    /\ svc = None /\ srv = NoThread /\ cpc = "idle" /\ call = NoCall
=============================================================================
