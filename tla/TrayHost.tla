------------------------------ MODULE TrayHost ------------------------------
(***************************************************************************)
(* The Windows tray: its UI thread posts commands to the ControlExecutor,  *)
(* whose worker runs them on the ApplicationController and posts results   *)
(* back to the window; the main window's view model uses the same          *)
(* executor; a maintenance client asks for shutdown and for the release of *)
(* the runtime; the exit drains the executor and shuts the service down.   *)
(*                                                                         *)
(* Window messages are delivered in order while the window exists.  Left   *)
(* out: icon, menu, notifications, the GUI session (its shutdown has a     *)
(* time limit), commands that do not touch the service.                    *)
(***************************************************************************)
EXTENDS ServiceControl, Sequences

CONSTANTS
    Capacity,    \* kDefaultControlQueueCapacity
    MaxCommands  \* bound: service commands of the user, in tray and main window

\* A task of the executor: a command, or the one view_model_.stop waits for.
Task == [op : Op \cup {"drained"}, from : {"tray", "view"}]

ASSUME TrayAssumption ==
    /\ Capacity \in Nat \ {0} /\ MaxCommands \in Nat
    /\ None \notin Task

VARIABLES
    tasks,     \* ControlExecutor: tasks_
    running,   \* the task its worker runs, or None
    joining,   \* stopping_
    inbox,     \* messages posted to the window
    ui,        \* step of the UI thread
    busy,      \* service_command_pending_
    polling,   \* status_pending_
    editing,   \* the view model's command_pending
    exiting, asked, guiDone,  \* exiting_, maintenance_shutdown_requested_, gui_shutdown_complete_
    commands   \* for the bound

executor == <<tasks, running, joining>>
flags    == <<busy, polling, editing>>
leaving  == <<exiting, asked, guiDone>>
vars == <<controlVars, executor, inbox, ui, flags, leaving, commands>>

ServiceOp == {"start", "stop", "reload"}

\* ControlExecutor::post accepts a task.
CanPost == ~joining /\ Len(tasks) < Capacity
Post(op, from) == tasks' = Append(tasks, [op |-> op, from |-> from])

HasWindow == ui \in {"loop", "gui", "view", "drain", "shutdown"}
Send(m) == inbox' = IF HasWindow THEN Append(inbox, m) ELSE inbox

-----------------------------------------------------------------------------
(* The UI thread *)

\* Another command of the user.
Command == commands < MaxCommands /\ commands' = commands + 1

\* post_command for start, stop and reload: one at a time.
PostCommand(op) ==
    /\ ui = "loop" /\ ~exiting /\ Command /\ ~busy
    /\ \/ CanPost /\ Post(op, "tray") /\ busy' = TRUE
       \/ ~CanPost /\ UNCHANGED <<tasks, busy>>
    /\ UNCHANGED <<controlVars, running, joining, inbox, ui, polling, editing>>
    /\ UNCHANGED leaving

\* The status timer.
PostStatus ==
    /\ ui = "loop" /\ ~exiting /\ ~polling /\ CanPost
    /\ Post("status", "tray") /\ polling' = TRUE
    /\ UNCHANGED <<controlVars, running, joining, inbox, ui, busy, editing, commands>>
    /\ UNCHANGED leaving

\* MainWindowViewModel::submit: the main window's commands, one at a time.  They
\* come in on the thread of the GUI session, which an exit stops first.
Submit(op) ==
    /\ ui \in {"loop", "gui"} /\ ~guiDone /\ Command /\ ~editing /\ CanPost
    /\ Post(op, "view") /\ editing' = TRUE
    /\ UNCHANGED <<controlVars, running, joining, inbox, ui, busy, polling>>
    /\ UNCHANGED leaving

\* begin_exit up to the shutdown of the GUI session.
BeginExit ==
    /\ ~exiting
    /\ ui' = "gui" /\ exiting' = TRUE /\ asked' = TRUE
    /\ guiDone' = guiDone

\* Exit in the menu, a closed window or the end of the session.
RequestExit ==
    /\ ui = "loop" /\ BeginExit
    /\ UNCHANGED <<controlVars, executor, inbox, flags, commands>>

GuiStopped ==
    /\ ui = "gui"
    /\ ui' = "view" /\ guiDone' = TRUE
    /\ UNCHANGED <<controlVars, executor, inbox, flags, exiting, asked, commands>>

\* (mutant) The view model waits for its task even if it was rejected.
StopViewModelWaits ==
    /\ ui = "view" /\ ui' = "drain"
    /\ \/ CanPost /\ Post("drained", "view")
       \/ ~CanPost /\ tasks' = tasks
    /\ UNCHANGED <<controlVars, running, joining, inbox, flags, leaving, commands>>

\* MainWindowViewModel::stop posts a task and waits for it, unless the
\* executor is full.
StopViewModel ==
    /\ ui = "view"
    /\ \/ CanPost /\ Post("drained", "view") /\ ui' = "drain"
       \/ ~CanPost /\ tasks' = tasks /\ ui' = "shutdown"
    /\ UNCHANGED <<controlVars, running, joining, inbox, flags, leaving, commands>>

\* finish_exit: maintenance server and window are gone.
FinishExit == ui' = "unwind" /\ inbox' = <<>>

PostShutdown ==
    /\ ui = "shutdown"
    /\ \/ CanPost /\ Post("shutdown", "tray") /\ ui' = "loop" /\ inbox' = inbox
       \/ ~CanPost /\ tasks' = tasks /\ FinishExit
    /\ UNCHANGED <<controlVars, running, joining, flags, leaving, commands>>

\* handle_command_result, or the messages that end the tray.
HandleMessage ==
    /\ ui = "loop" /\ inbox # <<>>
    /\ LET m == Head(inbox) IN
       \/ /\ m.kind = "result"
          /\ inbox' = Tail(inbox)
          /\ busy' = IF m.op \in ServiceOp THEN FALSE ELSE busy
          /\ polling' = IF m.op = "status" THEN FALSE ELSE polling
          /\ UNCHANGED <<ui, editing, leaving>>
       \/ /\ m.kind = "exit"
          /\ inbox' = Tail(inbox) /\ UNCHANGED flags
          /\ \/ BeginExit
             \/ exiting /\ UNCHANGED <<ui, leaving>>
       \/ /\ m.kind = "shutdown"
          /\ FinishExit /\ UNCHANGED <<flags, leaving>>
    /\ UNCHANGED <<controlVars, executor, commands>>

\* GetMessageW fails and run() returns without an exit.
LoopFails ==
    /\ ui = "loop"
    /\ ui' = "unwind"
    /\ UNCHANGED <<controlVars, executor, inbox, flags, leaving, commands>>

\* ~TrayApplication stops view model and executor, which drains its queue ...
StopExecutor ==
    /\ ui = "unwind"
    /\ ui' = "join" /\ joining' = TRUE
    /\ UNCHANGED <<controlVars, tasks, running, inbox, flags, leaving, commands>>

\* ... and then shuts the controller down, if that is still to be done.
DestroyController ==
    /\ ui = "join" /\ tasks = <<>> /\ running = None
    /\ ui' = "destroy" /\ cpc' = "refresh" /\ call' = [NoCall EXCEPT !.op = "shutdown"]
    /\ UNCHANGED <<control, svc, srv, executor, inbox, flags, leaving, commands>>

End ==
    /\ ui = "destroy" /\ cpc = "done"
    /\ ui' = "gone" /\ cpc' = "idle"
    /\ UNCHANGED <<control, svc, srv, call, executor, inbox, flags, leaving, commands>>

-----------------------------------------------------------------------------
(* ControlExecutor::run *)

TakeTask ==
    /\ running = None /\ tasks # <<>>
    /\ running' = Head(tasks) /\ tasks' = Tail(tasks)
    /\ \/ /\ Head(tasks).op \in Op
          /\ cpc' = "refresh" /\ call' = [NoCall EXCEPT !.op = Head(tasks).op]
       \/ Head(tasks).op \notin Op /\ UNCHANGED <<cpc, call>>
    /\ UNCHANGED <<control, svc, srv, joining, inbox, ui, flags, leaving, commands>>

\* (mutant) The result of a reload that failed is not posted.
FinishCommandSilent ==
    /\ running # None /\ cpc = "done"
    /\ running' = None /\ cpc' = "idle" /\ call' = NoCall
    /\ \/ /\ running.from = "tray" /\ running.op # "shutdown"
          /\ RefreshCompleted
          /\ IF running.op = "reload" /\ ~call.ok
             THEN inbox' = inbox ELSE Send([kind |-> "result", op |-> running.op])
          /\ editing' = editing
       \/ /\ running.from = "view"
          /\ RefreshCompleted
          /\ editing' = FALSE /\ inbox' = inbox
       \/ /\ running.op = "shutdown"
          /\ Send([kind |-> "shutdown", op |-> "shutdown"])
          /\ UNCHANGED <<control, svc, srv, editing>>
    /\ UNCHANGED <<tasks, joining, ui, busy, polling, leaving, commands>>

\* A command has returned: its result is posted with the status after it.  The
\* view model publishes its new state, which the window only draws.
FinishCommand ==
    /\ running # None /\ cpc = "done"
    /\ running' = None /\ cpc' = "idle" /\ call' = NoCall
    /\ \/ /\ running.from = "tray" /\ running.op # "shutdown"
          /\ RefreshCompleted
          /\ Send([kind |-> "result", op |-> running.op])
          /\ editing' = editing
       \/ /\ running.from = "view"
          /\ RefreshCompleted
          /\ editing' = FALSE /\ inbox' = inbox
       \/ /\ running.op = "shutdown"
          /\ Send([kind |-> "shutdown", op |-> "shutdown"])
          /\ UNCHANGED <<control, svc, srv, editing>>
    /\ UNCHANGED <<tasks, joining, ui, busy, polling, leaving, commands>>

\* The task that view_model_.stop waits for.
FinishDrained ==
    /\ running # None /\ running.op = "drained"
    /\ running' = None /\ ui' = "shutdown"
    /\ UNCHANGED <<controlVars, tasks, joining, inbox, flags, leaving, commands>>

-----------------------------------------------------------------------------
(* The maintenance endpoint, while it is open *)

\* request_shutdown: the exit is posted once the answer has been delivered.
RequestShutdown(delivered) ==
    /\ HasWindow /\ ~asked
    /\ asked' = TRUE
    /\ \/ delivered /\ Send([kind |-> "exit", op |-> "shutdown"])
       \/ ~delivered /\ inbox' = inbox
    /\ UNCHANGED <<controlVars, executor, ui, flags, exiting, guiDone, commands>>

\* ApplicationController::status from another thread: refreshed if no
\* command is in progress.
StatusElsewhere ==
    IF cpc \in {"idle", "done"} THEN RefreshCompleted ELSE UNCHANGED <<control, svc, srv>>

\* query_version and wait_for_release look at the status.
MaintenanceStatus ==
    /\ HasWindow /\ StatusElsewhere
    /\ UNCHANGED <<cpc, call, executor, inbox, ui, flags, leaving, commands>>

\* The answer of wait_for_release is release_ready.
ReleaseReady ==
    HasWindow /\ exiting /\ guiDone /\ app \in {"stopped", "shutdown"}

-----------------------------------------------------------------------------
Control(A) == A /\ UNCHANGED <<executor, inbox, ui, flags, leaving, commands>>

\* The tray starts the service by itself.
Init ==
    /\ ControlInit
    /\ tasks = <<[op |-> "status", from |-> "tray"], [op |-> "start", from |-> "tray"]>>
    /\ running = None /\ joining = FALSE /\ inbox = <<>> /\ ui = "loop"
    /\ busy = TRUE /\ polling = TRUE /\ editing = FALSE
    /\ exiting = FALSE /\ asked = FALSE /\ guiDone = FALSE
    /\ commands = 0

UiStep ==
    \/ GuiStopped \/ StopViewModel \/ PostShutdown \/ HandleMessage
    \/ StopExecutor \/ DestroyController \/ End

ExecutorStep ==
    \/ TakeTask \/ FinishCommand \/ FinishDrained
    \/ Control(CommandStep)

Next ==
    \/ \E op \in ServiceOp : PostCommand(op) \/ Submit(op)
    \/ PostStatus \/ RequestExit \/ LoopFails
    \/ UiStep \/ ExecutorStep
    \/ Control(ServerStep) \/ Control(RunBreaks)
    \/ \E delivered \in BOOLEAN : RequestShutdown(delivered)
    \/ MaintenanceStatus

Spec == Init /\ [][Next]_vars

(***************************************************************************)
(* UI thread, executor and server thread run on, and the status timer      *)
(* fires.  The user, clients and failures are free.                        *)
(***************************************************************************)
Fairness ==
    /\ WF_vars(UiStep) /\ WF_vars(ExecutorStep) /\ WF_vars(Control(ServerStep))
    /\ WF_vars(PostStatus)

FairSpec == Spec /\ Fairness

-----------------------------------------------------------------------------
(* Properties *)

\* Between commands the status tells the truth about what was configured: a
\* service exists exactly when the state is running; its snapshot, the
\* controller's, the listener shown and the configuration being served are
\* the same, after a swap, a restart, a rollback or a failed reload; and
\* without a service no server thread is left behind.  And wait_for_release
\* answers release_ready only while no service and no server thread exists, on
\* the maintenance thread and whatever the executor is doing.
StatusTruthful ==
    /\ ReleaseReady => svc = None /\ srv.pc = "none"
    /\ cpc = "idle" =>
        /\ svc # None <=> app = "running"
        /\ svc # None => appSnap = svc.snap /\ listener = appSnap.topo
        /\ srv.pc = "serve" => srv.cfg = svc.snap
        /\ svc = None => srv.pc = "none" /\ appSnap = None /\ listener = None

\* A reload that fails never leaves the candidate in force: whatever the
\* command returns, a configuration takes over only with success.
FailureKeepsConfiguration ==
    [][cpc # "done" /\ cpc' = "done" /\ call.op = "reload" /\ ~call'.ok =>
          appSnap' \in {appSnap, None}
             /\ (svc' # None => svc'.snap = appSnap)]_vars

\* Shutdown is final: afterwards no service exists and no thread serves, and
\* the process never ends before that.
ShutdownFinal ==
    shut \/ ui = "gone" => app = "shutdown" /\ svc = None /\ srv.pc = "none"

\* Every tray command is answered: the menu never stays disabled.
CommandAnswered == busy ~> (~busy \/ exiting \/ ~HasWindow)

\* A server thread that ends, by itself or because it was told to, is always
\* joined: no command has to come for the tray to notice it.
EndNoticed == (srv.pc = "ended") ~> (srv.pc # "ended")

\* An exit always ends the process, whatever the service was doing.
ExitCompletes == (exiting \/ ~HasWindow) ~> (ui = "gone")
=============================================================================
