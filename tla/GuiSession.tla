----------------------------- MODULE GuiSession -----------------------------
(***************************************************************************)
(* The session between the tray and the Qt window, a process of its own:   *)
(* the UI thread of the tray launches it, publishes the view model's       *)
(* states and answers its commands; the accept thread reads the pipe; the  *)
(* writer of GuiOutboundChannel writes it; the control executor runs       *)
(* commands; the GUI keeps a copy of the state and one command at a time.  *)
(*                                                                         *)
(* A state of the view model is its revision and two of its fields, the    *)
(* pending flag and the number of the last command.  Sequence numbers and  *)
(* identities of messages are left out: both ends count the same messages  *)
(* of one ordered pipe.  So are the window itself, full executor queues    *)
(* and window messages that Windows refuses.                               *)
(***************************************************************************)
EXTENDS Integers, Sequences, SequencesExt, FiniteSets

CONSTANTS
    QueueCapacity, \* kDefaultOutboundQueueCapacity
    PipeSize,      \* messages the pipe buffers for the GUI
    MaxPosted,     \* bound: states posted to the window before the timer adds one
    Budgets        \* bounds: what users and other clients may do in a behaviour

ASSUME GuiAssumption ==
    /\ {QueueCapacity, PipeSize, MaxPosted} \subseteq Nat \ {0}
    /\ Budgets \subseteq [open : BOOLEAN, ticks : Nat, opens : Nat, commands : Nat,
                         menu : Nat, exits : Nat, crashes : Nat, strangers : Nat]

VARIABLES
    states,   \* MainWindowViewModel: the fields of every revision so far
    owners,   \* who submitted each command: a GUI's request, or the tray
    late,     \* revision the executor has still to post, or 0
    task,     \* the command the executor runs, or 0
    posted,   \* revisions posted to the UI thread
    ui, after,  \* step of the UI thread, and where a call of it returns
    pending,  \* GuiCommandRouter: pending_
    acc, hand,  \* step of the accept thread, and what it has read
    peer,     \* client of the pipe: session, Stranger, or 0
    credentials, authenticated, active, stopping, \* of server and connection
    halt,     \* stopping_ of the server
    jobs, closed, drain, queued, latest, sent, \* GuiOutboundChannel
    writer, message,    \* step of the writer, and what it writes
    joining, joined,    \* threads in writer_.join, and whether it was joined
    toClient, toServer, \* messages in the pipe
    gui,      \* the GUI process: client, state tracker and dispatcher
    budget,   \* what is left of the bounds; commands are those of one process,
              \* ticks new revisions by the timer; open: the GUI is
              \* there at first
    stranger  \* whether a client that is not the launched GUI is there

model   == <<states, owners, late, task, posted>>
tray    == <<ui, after>>
server  == <<acc, hand, peer, credentials, authenticated, active, stopping, halt>>
channel == <<jobs, closed, drain, queued, latest, sent, writer, message, joining, joined>>
pipe    == <<toClient, toServer>>
others  == <<budget, stranger>>
guiVars == <<model, tray, pending, server, channel, pipe, gui, others>>

Stranger == -1

\* Take one of a bound.
Spend(what) == budget[what] > 0 /\ budget' = [budget EXCEPT ![what] = @ - 1]

Tray == [session |-> 0, request |-> 0]

\* A message or job: an answer names its request and the command it tells of
\* (0: none was run), a snapshot its revision, a delta the two revisions.
Msg(kind) == [kind |-> kind, request |-> 0, result |-> 0, from |-> 0, revision |-> 0]
Answer(request, result) == [Msg("answer") EXCEPT !.request = request, !.result = result]
SnapshotOf(revision) == [Msg("snapshot") EXCEPT !.revision = revision]

NoHand == [request |-> 0, previous |-> 0, revision |-> 0, answer |-> 0]
NoPending == [request |-> 0, previous |-> 0]
NoGui == [session |-> 0, state |-> "none", request |-> 0, made |-> 0,
          view |-> [revision |-> 0, pending |-> FALSE, sequence |-> 0], required |-> TRUE]

Revision == Len(states)
Current == states[Revision]

-----------------------------------------------------------------------------
(* MainWindowViewModel, as far as the session sees it *)

\* publish_state_change: a new state, which is posted after the lock.
Change(fields) == states' = Append(states, fields)

\* MainWindowViewModel::submit; rejected while a command is pending.
Submit(owner) ==
    /\ owners' = Append(owners, owner)
    /\ posted' = Append(posted, Revision + 1)
    /\ \/ /\ Current.pending
          /\ Change([Current EXCEPT !.sequence = Len(owners) + 1]) /\ task' = task
       \/ /\ ~Current.pending
          /\ Change([Current EXCEPT !.pending = TRUE]) /\ task' = Len(owners) + 1

\* MainWindowViewModel::execute ends ...
Complete ==
    /\ task # 0 /\ late = 0
    /\ Change([pending |-> FALSE, sequence |-> task])
    /\ late' = Revision + 1 /\ task' = 0
    /\ UNCHANGED <<owners, posted, tray, pending, server, channel, pipe, gui, others>>

\* ... and notify posts the state, which a later one may have overtaken.
Notify ==
    /\ late # 0
    /\ posted' = Append(posted, late) /\ late' = 0
    /\ UNCHANGED <<states, owners, task, tray, pending, server, channel, pipe, gui, others>>

-----------------------------------------------------------------------------
(* GuiOutboundChannel *)

Full == Len(jobs) >= QueueCapacity
CanPush == ~closed /\ ~Full
Push(job) == jobs' = Append(jobs, job)

\* stop() up to the join, by thread t.
StopChannel(t) ==
    /\ closed' = TRUE /\ drain' = FALSE
    /\ jobs' = <<>> /\ queued' = FALSE
    /\ joining' = IF joined THEN joining ELSE joining \cup {t}

\* The join of thread t returns.  A thread outside joining found the writer
\* joined, or its connection has made way for the next one.
Joins(t) ==
    /\ \/ t \notin joining
       \/ t \in joining /\ writer = "exited"
    /\ joining' = joining \ {t}
    /\ joined' = (joined \/ t \in joining)

\* A second thread in it joins a thread that is not joinable any more: it goes
\* on, or the tray ends in std::terminate.
JoinsTwice ==
    /\ writer = "exited" /\ joined /\ joining # {}
    /\ ui' = "crashed" /\ acc' = "done" /\ peer' = 0
    /\ task' = 0 /\ late' = 0 /\ toClient' = <<>> /\ toServer' = <<>>
    /\ UNCHANGED <<states, owners, posted, after, pending, hand, credentials, authenticated>>
    /\ UNCHANGED <<active, stopping, halt, channel, gui, others>>

\* (mutant) The flag of the queued state is not cleared.
TakenFlagKept(job) == queued

Taken(job) == queued /\ job.kind # "state"

\* build_gui_state_delta: nothing but the revision differs.
DeltaEmpty(from, to) == states[from] = states[to]

\* The other end of the pipe is open.
Connected ==
    \/ peer = Stranger /\ stranger
    \/ peer > 0 /\ peer = gui.session /\ gui.state \in {"handshake", "synced", "ready"}

\* write_all, which waits for room in the pipe, and the baseline of the next
\* delta.
Write(m) ==
    \/ /\ Connected /\ Len(toClient) < PipeSize
       /\ toClient' = Append(toClient, m)
       /\ sent' = IF m.kind \in {"snapshot", "delta"} THEN m.revision ELSE sent
       /\ writer' = "wait" /\ message' = Msg("none")
    \/ /\ ~(Connected /\ Len(toClient) < PipeSize)
       /\ writer' = "write" /\ message' = m
       /\ UNCHANGED <<toClient, sent>>

\* run takes a job, prepare_job makes the message.
TakeJob ==
    /\ writer = "wait" /\ jobs # <<>> /\ (closed => drain)
    /\ LET job == Head(jobs)
           prepared ==
             CASE job.kind # "state" -> job
               [] job.kind = "state" /\ sent = 0 -> SnapshotOf(latest)
               [] OTHER -> [Msg("delta") EXCEPT !.from = sent, !.revision = latest]
       IN /\ jobs' = Tail(jobs)
          /\ queued' = Taken(job)
          /\ \/ /\ prepared.kind = "delta" /\ DeltaEmpty(sent, latest)
                /\ UNCHANGED <<toClient, sent, writer, message>>
             \/ /\ prepared.kind = "delta" => ~DeltaEmpty(sent, latest)
                /\ Write(prepared)
    /\ UNCHANGED <<model, tray, pending, server, closed, drain, latest>>
    /\ UNCHANGED <<joining, joined, toServer, gui, others>>

WriteMessage ==
    /\ writer = "write" /\ Connected /\ Len(toClient) < PipeSize
    /\ Write(message)
    /\ UNCHANGED <<model, tray, pending, server, jobs, closed, drain, queued, latest>>
    /\ UNCHANGED <<joining, joined, toServer, gui, others>>

\* CancelIoEx ends a read, and misses one that is still to begin.
CancelRead == acc' \in IF acc = "read" THEN {"read", "leave"} ELSE {acc}

\* The client is gone: report_failure, and CancelIoEx for the reader.
WriteFails ==
    /\ writer = "write" /\ ~Connected
    /\ writer' = "exited" /\ message' = Msg("none")
    /\ closed' = TRUE /\ drain' = FALSE /\ jobs' = <<>> /\ queued' = FALSE
    /\ CancelRead
    /\ UNCHANGED <<model, tray, pending, hand, peer, credentials, authenticated, active>>
    /\ UNCHANGED <<stopping, halt, latest, sent, joining, joined, pipe, gui, others>>

WriterExits ==
    /\ writer = "wait" /\ closed /\ (drain => jobs = <<>>)
    /\ writer' = "exited"
    /\ UNCHANGED <<model, tray, pending, server, jobs, closed, drain, queued, latest, sent>>
    /\ UNCHANGED <<message, joining, joined, pipe, gui, others>>

-----------------------------------------------------------------------------
(* The UI thread of the tray *)

\* refresh_application_status after every status result: the timer never
\* stops, past its bound it posts the last revision again.
Tick ==
    /\ ui = "loop" /\ Len(posted) < MaxPosted
    /\ \/ Spend("ticks") /\ Change(Current)
       \/ budget.ticks = 0 /\ UNCHANGED <<states, budget>>
    /\ posted' = Append(posted, Len(states'))
    /\ UNCHANGED <<owners, late, task, tray, pending, server, channel, pipe, gui, stranger>>

\* set_lightweight_mode: the menu's command of the view model.
MenuCommand ==
    /\ ui = "loop" /\ Spend("menu") /\ Submit(Tray)
    /\ UNCHANGED <<late, tray, pending, server, channel, pipe, gui, stranger>>

\* (mutant) A result is taken for new whatever its number is.
CompletesAny(revision) ==
    /\ pending.request # 0 /\ ~states[revision].pending
    /\ states[revision].sequence # 0

\* GuiCommandRouter::observe: this state ends the pending request.
Completes(revision) ==
    /\ pending.request # 0 /\ ~states[revision].pending
    /\ states[revision].sequence > pending.previous

\* GuiIpcConnection::stop up to the join of the writer, by thread t.
BeginStop(t) == stopping' = TRUE /\ StopChannel(t)

\* Send a reliable message from the UI thread and go on at next; a connection
\* that does not take it is stopped.
SendFromUi(job, next) ==
    /\ \/ /\ active /\ authenticated /\ CanPush
          /\ Push(job) /\ ui' = next
          /\ UNCHANGED <<after, stopping, closed, drain, queued, joining>>
       \/ /\ active /\ ~(authenticated /\ CanPush) /\ ~stopping
          /\ BeginStop("ui") /\ ui' = "join" /\ after' = next
       \/ /\ active /\ ~(authenticated /\ CanPush) => stopping
          /\ ~(active /\ authenticated /\ CanPush)
          /\ ui' = next
          /\ UNCHANGED <<after, jobs, stopping, closed, drain, queued, joining>>
    /\ UNCHANGED <<latest, sent, writer, message, joined>>

\* publish_state behind queue: the last state replaces one that is queued.
PublishView(queue) ==
    /\ latest' = IF active /\ authenticated /\ ~closed THEN Head(posted) ELSE latest
    /\ IF active /\ authenticated /\ ~closed /\ ~queued /\ Len(queue) < QueueCapacity
       THEN jobs' = Append(queue, Msg("state")) /\ queued' = TRUE
       ELSE jobs' = queue /\ queued' = queued
    /\ posted' = Tail(posted)
    /\ UNCHANGED <<after, closed, drain, joining, stopping>>

\* handle_view_state: observe, then the completion, then the state.
HandleView ==
    /\ ui \in {"loop", "publish"} /\ posted # <<>>
    /\ LET done == ui = "loop" /\ Completes(Head(posted))
           result == Answer(pending.request, states[Head(posted)].sequence)
       IN \/ ~done /\ PublishView(jobs) /\ ui' = "loop" /\ pending' = pending
          \/ /\ done /\ active /\ authenticated /\ CanPush
             /\ PublishView(Append(jobs, result)) /\ ui' = "loop" /\ pending' = NoPending
          \/ /\ done /\ ~(active /\ authenticated /\ CanPush)
             /\ pending' = NoPending /\ posted' = posted /\ UNCHANGED <<latest>>
             /\ IF active /\ ~stopping
                THEN BeginStop("ui") /\ ui' = "join" /\ after' = "publish"
                ELSE ui' = "publish" /\ UNCHANGED <<after, jobs, closed, drain, queued, joining, stopping>>
    /\ UNCHANGED <<states, owners, late, task, acc, hand, peer, credentials, authenticated>>
    /\ UNCHANGED <<active, halt, sent, writer, message, joined, pipe, gui, others>>

\* The rest of GuiIpcConnection::stop on the UI thread.
UiJoined ==
    /\ ui = "join" /\ Joins("ui")
    /\ ui' = after /\ after' = "loop" /\ CancelRead
    /\ UNCHANGED <<model, pending, hand, peer, credentials, authenticated>>
    /\ UNCHANGED <<active, stopping, halt, jobs, closed, drain, queued, latest, sent>>
    /\ UNCHANGED <<writer, message, pipe, gui, others>>

\* GuiProcessLauncher: the process has not ended; launch_suspended makes one
\* that knows the credentials; terminate ends it.
Running == gui.state # "none"
Launch ==
    /\ credentials' = gui.session + 1
    /\ gui' = [NoGui EXCEPT !.session = gui.session + 1, !.state = "connect"]
Terminated == gui' = [NoGui EXCEPT !.session = gui.session]

\* prepare_session: not while a client of the pipe is there.
CanPrepare == peer = 0

\* show_main_window, launch_or_activate: activate the session, leave a process
\* that starts alone, or launch one with new credentials.
OpenWindow ==
    /\ ui = "loop" /\ Spend("opens")
    /\ \/ /\ active /\ authenticated
          /\ SendFromUi(Msg("activate"), "loop")
          /\ UNCHANGED <<credentials, gui>>
       \/ /\ ~(active /\ authenticated) /\ (Running \/ ~CanPrepare)
          /\ UNCHANGED <<ui, after, stopping, credentials, channel, gui>>
       \/ /\ ~Running /\ CanPrepare /\ Launch
          /\ ui' = "launch" /\ UNCHANGED <<after, stopping, channel>>
    /\ UNCHANGED <<model, pending, acc, hand, peer, authenticated, active, halt>>
    /\ UNCHANGED <<pipe, stranger>>

\* ... and wait 150 ms for an early exit.
LaunchWaited ==
    /\ ui = "launch" /\ ui' = "loop"
    /\ UNCHANGED <<model, after, pending, server, channel, pipe, gui, others>>

\* GuiSessionController::shutdown on exit: ask the GUI to go ...
BeginExit ==
    /\ ui = "loop" /\ Spend("exits")
    /\ IF active /\ authenticated
       THEN SendFromUi(Msg("shutdown"), "wait")
       ELSE ui' = "wait" /\ UNCHANGED <<after, stopping, channel>>
    /\ UNCHANGED <<model, pending, acc, hand, peer, credentials, authenticated>>
    /\ UNCHANGED <<active, halt, pipe, gui, stranger>>

\* (mutant) The GUI is not terminated after the timeout.
WaitForever ==
    /\ ui = "wait" /\ ~Running /\ ui' = "stop"
    /\ UNCHANGED <<model, after, pending, server, channel, pipe, gui, others>>

\* ... wait for its exit, terminate it after the timeout ...
WaitForExit ==
    /\ ui = "wait" /\ ui' = "stop" /\ Terminated
    /\ UNCHANGED <<model, after, pending, server, channel, pipe, others>>

\* ... and stop the server: connection, pending I/O, accept thread.
StopServer ==
    /\ ui = "stop" /\ halt' = TRUE
    /\ \/ active /\ ~stopping /\ BeginStop("ui") /\ ui' = "join" /\ after' = "cancel"
       \/ /\ active => stopping
          /\ ui' = "cancel"
          /\ UNCHANGED <<after, stopping, jobs, closed, drain, queued, joining>>
    /\ UNCHANGED <<model, pending, acc, hand, peer, credentials, authenticated>>
    /\ UNCHANGED <<active, latest, sent, writer, message, joined, pipe, gui, others>>

CancelAccept ==
    /\ ui = "cancel" /\ ui' = "accepting" /\ CancelRead
    /\ UNCHANGED <<model, after, pending, hand, peer, credentials, authenticated>>
    /\ UNCHANGED <<active, stopping, halt, channel, pipe, gui, others>>

ServerStopped ==
    /\ ui = "accepting" /\ acc = "done" /\ ui' = "ended"
    /\ UNCHANGED <<model, after, pending, server, channel, pipe, gui, others>>

-----------------------------------------------------------------------------
(* The accept thread *)

\* A client connects; without a listening pipe it finds none.
Connect(client) ==
    /\ acc = "listen" /\ acc' = "accepted"
    /\ peer' = client
    /\ toServer' = <<Msg("hello")>> /\ toClient' = <<>>
    /\ UNCHANGED <<model, tray, pending, hand, credentials, authenticated, active>>
    /\ UNCHANGED <<stopping, halt, channel>>

ListenEnds ==
    /\ acc = "listen" /\ halt /\ acc' = "done"
    /\ UNCHANGED <<model, tray, pending, hand, peer, credentials, authenticated, active>>
    /\ UNCHANGED <<stopping, halt, channel, pipe, gui, others>>

\* handle_client: without credentials the client is turned away.
HandleClient ==
    /\ acc = "accepted"
    /\ \/ /\ halt \/ credentials = 0
          /\ acc' = "close" /\ UNCHANGED <<authenticated, active, stopping, channel>>
       \/ /\ ~halt /\ credentials # 0
          /\ acc' = "read"
          /\ authenticated' = FALSE /\ active' = TRUE /\ stopping' = FALSE
          /\ jobs' = <<>> /\ closed' = FALSE /\ drain' = FALSE /\ queued' = FALSE
          /\ latest' = 0 /\ sent' = 0
          /\ writer' = "wait" /\ message' = Msg("none") /\ joining' = {} /\ joined' = FALSE
    /\ UNCHANGED <<model, tray, pending, hand, peer, credentials, halt, pipe, gui, others>>

AcceptStep == <<model, tray, peer, credentials, halt, gui, others>>
ChannelBut == <<latest, sent, writer, message>>

\* GuiIpcConnection::run, the head of its loop.
Again == IF stopping THEN "leave" ELSE "read"

\* A frame: hello, a command (router and view model are asked for a command
\* in progress) or a request for a snapshot.
ReadFrame ==
    /\ acc = "read" /\ toServer # <<>>
    /\ LET m == Head(toServer) IN
       CASE m.kind = "hello" ->
              acc' = "greet" /\ hand' = [NoHand EXCEPT !.revision = Revision]
         [] m.kind = "command" ->
              /\ acc' = IF Current.pending THEN "reply" ELSE "route"
              /\ hand' = [NoHand EXCEPT !.request = m.request, !.previous = Current.sequence]
         [] m.kind = "request" ->
              acc' = "snapshot" /\ hand' = [NoHand EXCEPT !.revision = Revision]
    /\ toServer' = Tail(toServer)
    /\ UNCHANGED <<AcceptStep, pending, authenticated, active, stopping, channel, toClient>>

ReadBroken ==
    /\ acc = "read" /\ toServer = <<>> /\ ~Connected
    /\ acc' = "leave"
    /\ UNCHANGED <<AcceptStep, pending, hand, authenticated, active, stopping, channel, pipe>>

\* Queue a job of the connection, or leave its loop.
PushOrLeave(job, next) ==
    \/ CanPush /\ Push(job) /\ acc' = next
    \/ ~CanPush /\ jobs' = jobs /\ acc' = "leave"

\* ServerSession::accept_hello: token and process are those of the launch.
HelloAccepted == peer = credentials

\* handle_hello: the one launched process is let in.
Greet ==
    /\ acc = "greet"
    /\ LET known == HelloAccepted IN
       /\ PushOrLeave([Msg("hello") EXCEPT !.result = IF known THEN 1 ELSE 0],
                      IF known THEN "initial" ELSE "drain")
       /\ authenticated' = (known /\ CanPush)
       /\ pending' = IF known THEN pending ELSE NoPending
    /\ UNCHANGED <<AcceptStep, hand, active, stopping, closed, drain, queued, joining, joined>>
    /\ UNCHANGED <<ChannelBut, pipe>>

\* The snapshot was read before the client counts as authenticated.
SendSnapshot ==
    /\ acc \in {"initial", "snapshot"}
    /\ PushOrLeave(SnapshotOf(hand.revision), Again)
    /\ hand' = NoHand
    /\ UNCHANGED <<AcceptStep, pending, authenticated, active, stopping, closed, drain, queued>>
    /\ UNCHANGED <<joining, joined, ChannelBut, pipe>>

\* GuiCommandRouter::submit: the request is pending from here ...
Route ==
    /\ acc = "route"
    /\ \/ pending.request # 0 /\ acc' = "reply" /\ UNCHANGED pending
       \/ /\ pending.request = 0 /\ acc' = "submit"
          /\ pending' = [request |-> hand.request, previous |-> hand.previous]
    /\ UNCHANGED <<AcceptStep, hand, authenticated, active, stopping, channel, pipe>>

\* ... and is submitted; the view model may refuse it.
SubmitRequest ==
    /\ acc = "submit"
    /\ Submit([session |-> peer, request |-> hand.request])
    /\ acc' = IF Current.pending THEN "refused" ELSE Again
    /\ UNCHANGED <<late, tray, pending, hand, peer, credentials, authenticated>>
    /\ UNCHANGED <<active, stopping, halt, channel, pipe, gui, others>>

Refused ==
    /\ acc = "refused"
    /\ acc' = "reply" /\ pending' = NoPending
    /\ hand' = [hand EXCEPT !.answer =
                  IF Current.sequence > hand.previous THEN Current.sequence ELSE 0]
    /\ UNCHANGED <<AcceptStep, authenticated, active, stopping, channel, pipe>>

\* (mutant) A request that is refused gets no answer.
ReplyLost ==
    /\ acc = "reply" /\ acc' = Again /\ hand' = NoHand
    /\ UNCHANGED <<AcceptStep, pending, authenticated, active, stopping, channel, pipe>>

\* The immediate answer of handle_gui_command.
Reply ==
    /\ acc = "reply"
    /\ \/ /\ authenticated /\ CanPush
          /\ Push(Answer(hand.request, hand.answer)) /\ acc' = Again
          /\ UNCHANGED <<stopping, closed, drain, queued, joining>>
       \/ /\ ~(authenticated /\ CanPush) /\ ~stopping
          /\ BeginStop("accept") /\ acc' = "joinStop"
       \/ /\ ~(authenticated /\ CanPush) /\ stopping
          /\ acc' = Again /\ UNCHANGED <<jobs, stopping, closed, drain, queued, joining>>
    /\ hand' = NoHand
    /\ UNCHANGED <<AcceptStep, pending, authenticated, active, joined, ChannelBut, pipe>>

\* The end of run: nothing more is written ...
Leave ==
    /\ acc = "leave"
    /\ authenticated' = FALSE
    /\ StopChannel("accept") /\ acc' = "joinLeave"
    /\ UNCHANGED <<AcceptStep, pending, hand, active, stopping, joined, ChannelBut, pipe>>

\* ... or what is queued still is.
Drain ==
    /\ acc = "drain" /\ acc' = "joinDrain"
    /\ closed' = TRUE /\ drain' = TRUE
    /\ joining' = IF joined THEN joining ELSE joining \cup {"accept"}
    /\ UNCHANGED <<AcceptStep, pending, hand, authenticated, active, stopping, jobs, queued>>
    /\ UNCHANGED <<joined, ChannelBut, pipe>>

\* The writer has been joined, and a drained pipe flushed; with the event
\* "disconnected" the router forgets the request.
AcceptJoined ==
    /\ acc \in {"joinStop", "joinLeave", "joinDrain"} /\ Joins("accept")
    /\ acc = "joinDrain" => stopping \/ toClient = <<>> \/ ~Connected
    /\ acc' = IF acc = "joinStop" THEN Again ELSE "release"
    /\ pending' = IF acc = "joinStop" THEN pending ELSE NoPending
    /\ UNCHANGED <<AcceptStep, hand, authenticated, active, stopping, jobs, closed, drain>>
    /\ UNCHANGED <<queued, ChannelBut, pipe>>

\* The end of handle_client, DisconnectNamedPipe and the next pipe.
Release ==
    /\ acc \in {"release", "close"}
    /\ active' = FALSE
    /\ credentials' = IF acc = "release" THEN 0 ELSE credentials
    /\ peer' = 0 /\ toClient' = <<>> /\ toServer' = <<>>
    /\ acc' = IF halt THEN "done" ELSE "listen"
    /\ latest' = 0 /\ sent' = 0
    /\ UNCHANGED <<model, tray, pending, hand, authenticated, stopping, halt, gui, others>>
    /\ UNCHANGED <<jobs, closed, drain, queued, writer, message, joining, joined>>

-----------------------------------------------------------------------------
(* The GUI process *)

GuiOnly == <<model, tray, pending, server, channel, others>>

GuiConnects ==
    /\ gui.state = "connect"
    /\ gui' = [gui EXCEPT !.state = "handshake"]
    /\ Connect(gui.session) /\ UNCHANGED others

\* GuiIpcClient::fail and the dispatcher's handleSessionLost.
Fail == gui' = [gui EXCEPT !.state = "leaving", !.request = 0]

\* scheduleReconnect: the five seconds are over.
ConnectTimeout == gui.state = "connect" /\ Fail /\ UNCHANGED <<GuiOnly, pipe>>

\* handleDisconnected: before the handshake is done the client tries again.
GuiDisconnected ==
    /\ gui.state \in {"handshake", "synced", "ready"} /\ peer # gui.session
    /\ IF gui.state = "handshake" THEN gui' = [gui EXCEPT !.state = "connect"] ELSE Fail
    /\ UNCHANGED <<GuiOnly, pipe>>

Fields(revision) == [revision |-> revision, pending |-> states[revision].pending,
                     sequence |-> states[revision].sequence]

\* (mutant) A delta is applied to whatever state there is.
FollowsAny(m) == gui.view.revision # 0 /\ m.revision > m.from

\* ClientStateTracker::apply_delta accepts the delta.
Follows(m) == ~gui.required /\ gui.view.revision = m.from /\ m.revision > m.from

\* A delta carries the fields in which its two states differ.
ApplyDelta(m) ==
    LET changed(f) == states[m.from][f] # states[m.revision][f] IN
    [gui.view EXCEPT
        !.revision = m.revision,
        !.pending = IF changed("pending") THEN states[m.revision].pending ELSE @,
        !.sequence = IF changed("sequence") THEN states[m.revision].sequence ELSE @]

\* handleHelloResult, accept_snapshot and what the store takes from it.
Greeted == [gui EXCEPT !.state = "synced"]
Shows(revision) ==
    [gui EXCEPT !.state = "ready", !.view = Fields(revision), !.required = FALSE]

\* CommandDispatcher::handleCommandStatus: the pending request is over.
Answered(request) == [gui EXCEPT !.request = IF @ = request THEN 0 ELSE @]

\* sendEnvelope.
ToServer(m) == toServer' = Append(toServer, m)

\* handleFrame; what follows a shutdown is not read any more.
GuiReads ==
    /\ Connected /\ peer = gui.session /\ toClient # <<>>
    /\ toClient' = Tail(toClient)
    /\ LET m == Head(toClient) IN
       \/ /\ m.kind = "hello" /\ gui' = Greeted /\ toServer' = toServer
       \/ /\ m.kind = "snapshot" /\ gui' = Shows(m.revision) /\ toServer' = toServer
       \/ /\ m.kind = "delta" /\ Follows(m)
          /\ gui' = [gui EXCEPT !.view = ApplyDelta(m)] /\ toServer' = toServer
       \/ /\ m.kind = "delta" /\ ~Follows(m)
          /\ gui' = [gui EXCEPT !.required = TRUE]
          /\ ToServer(Msg("request"))
       \/ /\ m.kind = "answer" /\ gui' = Answered(m.request) /\ toServer' = toServer
       \/ /\ m.kind = "activate" /\ UNCHANGED <<gui, toServer>>
       \/ /\ m.kind = "shutdown" /\ Fail /\ toServer' = toServer
    /\ UNCHANGED GuiOnly

\* CommandDispatcher::submit: one command at a time.
SendCommand ==
    /\ gui.state = "ready" /\ Connected /\ gui.request = 0 /\ gui.made < budget.commands
    /\ gui' = [gui EXCEPT !.made = @ + 1, !.request = gui.made + 1]
    /\ ToServer([Msg("command") EXCEPT !.request = gui.made + 1])
    /\ UNCHANGED <<GuiOnly, toClient>>

\* requestClose and performPendingClose in lightweight mode.
CloseWindow ==
    /\ gui.state = "ready" /\ gui.request = 0 /\ ~gui.view.pending
    /\ Fail
    /\ UNCHANGED <<GuiOnly, pipe>>

ProcessExits == gui.state = "leaving" /\ Terminated /\ UNCHANGED <<GuiOnly, pipe>>

GuiCrash ==
    /\ gui.state \notin {"none", "leaving"} /\ Spend("crashes") /\ Terminated
    /\ UNCHANGED <<model, tray, pending, server, channel, pipe, stranger>>

\* Another client: it sends its hello, waits for the answer and leaves.
StrangerConnects ==
    /\ Spend("strangers") /\ stranger' = TRUE
    /\ Connect(Stranger) /\ UNCHANGED gui

StrangerLeaves ==
    /\ stranger /\ stranger' = FALSE
    /\ UNCHANGED <<model, tray, pending, server, channel, pipe, gui, budget>>

-----------------------------------------------------------------------------

\* The tray has started, or the first GUI it launched shows its first state.
Init ==
    /\ budget \in Budgets
    /\ states = <<[pending |-> FALSE, sequence |-> 0]>> /\ owners = <<>>
    /\ late = 0 /\ task = 0 /\ posted = <<>>
    /\ ui = "loop" /\ after = "loop" /\ pending = NoPending /\ hand = NoHand
    /\ jobs = <<>> /\ drain = FALSE /\ queued = FALSE /\ latest = 0
    /\ message = Msg("none") /\ joining = {}
    /\ stopping = FALSE /\ halt = FALSE /\ stranger = FALSE
    /\ toClient = <<>> /\ toServer = <<>>
    /\ LET open == budget.open IN
       /\ acc = IF open THEN "read" ELSE "listen"
       /\ authenticated = open /\ active = open /\ closed = ~open /\ joined = ~open
       /\ peer = (IF open THEN 1 ELSE 0) /\ credentials = peer /\ sent = peer
       /\ writer = IF open THEN "wait" ELSE "exited"
       /\ gui = IF open THEN [NoGui EXCEPT !.session = 1, !.state = "ready",
                                           !.view = Fields(1), !.required = FALSE]
                ELSE NoGui

UiStep == HandleView \/ UiJoined \/ LaunchWaited
          \/ WaitForExit \/ StopServer \/ CancelAccept \/ ServerStopped
AcceptThread == ListenEnds \/ HandleClient \/ ReadFrame \/ ReadBroken
                \/ Greet \/ SendSnapshot \/ Route \/ SubmitRequest \/ Refused \/ Reply
                \/ Leave \/ Drain \/ AcceptJoined \/ Release
WriterStep == TakeJob \/ WriteMessage \/ WriteFails \/ WriterExits
GuiStep == GuiConnects \/ ConnectTimeout \/ GuiDisconnected \/ GuiReads \/ ProcessExits
UserStep == MenuCommand \/ OpenWindow \/ BeginExit \/ SendCommand \/ CloseWindow

Next ==
    \/ UiStep \/ AcceptThread \/ WriterStep \/ GuiStep \/ UserStep
    \/ Tick \/ Complete \/ Notify \/ JoinsTwice
    \/ GuiCrash \/ StrangerConnects \/ StrangerLeaves

\* Threads and event loops run, the status timer never stops, and a client
\* that is turned away leaves.  Users, crashes and new clients owe nothing.
Fairness ==
    /\ WF_guiVars(UiStep) /\ WF_guiVars(AcceptThread) /\ WF_guiVars(WriterStep)
    /\ WF_guiVars(GuiStep) /\ WF_guiVars(Tick) /\ WF_guiVars(Complete)
    /\ WF_guiVars(Notify) /\ WF_guiVars(StrangerLeaves)

Spec == Init /\ [][Next]_guiVars /\ Fairness

-----------------------------------------------------------------------------

\* What the window shows as a revision is what the view model held at that
\* revision, although states merge in the channel, deltas carry only what
\* changed and snapshots overtake them (ClientStateTracker, prepare_job).
StateMatches ==
    gui.view.revision # 0 => gui.view = Fields(gui.view.revision)

InFlight == Range(jobs) \cup Range(toClient) \cup {message}

\* An answer on its way to the GUI tells of the command it asked for, or of
\* the menu's command that ran at that time: never of an earlier request or
\* of a request of an earlier process, whose ids are the same
\* (GuiCommandRouter::observe, submit and disconnect).
AnswersFresh ==
    \A m \in InFlight : m.kind = "answer" /\ m.result # 0 /\ peer = gui.session =>
        owners[m.result] \in {Tray, [session |-> peer, request |-> m.request]}

\* The tray goes on whatever the GUI does: its threads do not join the writer
\* of a connection twice (GuiOutboundChannel::stop).
TraySurvives == ui # "crashed"

Abandoned == stopping \/ ui = "crashed"

\* The window catches up with the view model, although states are lost before
\* the handshake is done, in a full queue and in rejected deltas.
GuiCatchesUp ==
    []<>(gui.state = "ready" /\ ~Abandoned =>
         [pending |-> gui.view.pending, sequence |-> gui.view.sequence] = Current)

\* A command of the GUI is answered or its session ends (handle_gui_command,
\* handle_view_state), unless the tray has given the connection up.
CommandAnswered == gui.request # 0 ~> gui.request = 0 \/ Abandoned

\* The tray's exit gets past the GUI session, whatever state it is in
\* (GuiSessionController::shutdown, GuiIpcServer::stop).  It begins with the wait:
\* the join of a writer by request_shutdown, which finds the queue full, lies
\* before it.
ShutdownCompletes == ui = "wait" ~> ui \in {"ended", "crashed"}
=============================================================================
