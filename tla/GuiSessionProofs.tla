-------------------------- MODULE GuiSessionProofs --------------------------
(***************************************************************************)
(* Proofs about the session between the tray and the Qt window, for every  *)
(* capacity of the queue and of the pipe and for any number of commands,   *)
(* windows, crashes and other clients: what the window shows is a state    *)
(* the view model had, and an answer tells of the request it is for.       *)
(***************************************************************************)
EXTENDS GuiSession, TLAPS

-----------------------------------------------------------------------------
(* The inductive invariant *)

Kind == {"none", "answer", "snapshot", "delta", "state", "hello", "command", "request",
         "activate", "shutdown"}
Message == [kind : Kind, request : Nat, result : Nat, from : Nat, revision : Nat]
Frame == [kind : {"hello", "command", "request"}, request : Nat, result : Nat, from : Nat,
          revision : Nat]
ViewState == [pending : BOOLEAN, sequence : Nat]
Owner == [session : Int, request : Nat]
View == [revision : Nat, pending : BOOLEAN, sequence : Nat]
GuiState == {"none", "connect", "handshake", "synced", "ready", "leaving"}
Process == [session : Nat, state : GuiState, request : Nat, made : Nat, view : View,
            required : BOOLEAN]

ModelType ==
    /\ states \in Seq(ViewState) /\ Revision > 0
    /\ owners \in Seq(Owner)
    /\ late \in 0 .. Revision /\ task \in 0 .. Len(owners)
    /\ posted \in Seq(1 .. Revision)

ServerType ==
    /\ peer \in Int
    /\ pending \in [request : Nat, previous : Nat]
    /\ hand \in [request : Nat, previous : Nat, revision : Nat, answer : Nat]

ChannelType ==
    /\ jobs \in Seq(Message) /\ message \in Message /\ toClient \in Seq(Message)
    /\ closed \in BOOLEAN /\ drain \in BOOLEAN /\ joined \in BOOLEAN
    /\ latest \in 0 .. Revision /\ sent \in 0 .. Revision

GuiType == gui \in Process /\ toServer \in Seq(Frame)

\* Where the accept thread has no connection.
Parked == {"listen", "accepted", "close", "release", "done"}
Joining == {"joinStop", "joinLeave", "joinDrain"}

\* A writer that has ended leaves nothing behind,
Writing ==
    /\ writer = "exited" => closed /\ jobs = <<>>
    /\ writer # "write" => message = Msg("none")
    /\ closed /\ ~drain => jobs = <<>>
    /\ joined => writer = "exited"

\* and the accept thread does not go on to the next client before it has.
Handover ==
    /\ acc \in Parked => writer = "exited"
    /\ acc \in Joining => joined \/ "accept" \in joining

\* Command i is request q of the client, or the menu's.
Owned(i, q) == i <= Len(owners) /\ owners[i] \in {Tray, [session |-> peer, request |-> q]}

\* What a message names is there.
Payload(m) ==
    /\ m.kind = "snapshot" => m.revision \in 1 .. Revision
    /\ m.kind = "delta" => m.from \in 1 .. Revision /\ m.revision \in 1 .. Revision
    /\ m.kind = "answer" /\ m.result # 0 => Owned(m.result, m.request)

Payloads ==
    /\ \A m \in InFlight : Payload(m)
    /\ \A m \in Range(jobs) : m.kind = "state" => latest # 0

ChannelInv == ChannelType /\ Writing /\ Payloads

\* The snapshot that the accept thread is to send was read from the model.
Held ==
    acc \in {"greet", "initial", "snapshot"} => hand.revision \in 1 .. Revision

\* Completed commands are numbered upwards: the one that runs, or the current
\* state, has the largest number of all states without a pending command.
Completed ==
    /\ \A r \in 1 .. Revision : states[r].sequence <= Len(owners)
    /\ task # 0 =>
          /\ Current.pending
          /\ \A r \in 1 .. Revision : ~states[r].pending => states[r].sequence <= task
    /\ ~Current.pending =>
          \A r \in 1 .. Revision : ~states[r].pending => states[r].sequence <= Current.sequence

\* Every result after number prev, and the command that will bring the next
\* one, is request q of the client or the menu's.
Since(prev, q) ==
    /\ \A r \in 1 .. Revision :
          (~states[r].pending \/ r = Revision) /\ states[r].sequence > prev =>
              Owned(states[r].sequence, q)
    /\ task > prev => Owned(task, q)

\* What the accept thread and the router hold of a request.
Requests ==
    /\ acc \in {"route", "submit", "refused"} => Since(hand.previous, hand.request)
    /\ pending.request # 0 /\ ui # "crashed" => Since(pending.previous, pending.request)
    /\ acc \in {"submit", "refused"} => pending.request \in {0, hand.request}
    /\ acc \in {"route", "reply"} /\ hand.answer # 0 => Owned(hand.answer, hand.request)
    /\ acc \in Parked /\ ui # "crashed" => pending.request = 0

\* The window shows a revision there was.
Shown ==
    gui.view.revision # 0 =>
        gui.view.revision \in 1 .. Revision /\ gui.view = Fields(gui.view.revision)

SessionInv ==
    /\ ModelType /\ ServerType /\ GuiType
    /\ ChannelInv /\ Handover /\ Held
    /\ Completed /\ Requests /\ Shown

-----------------------------------------------------------------------------
(* Sequences *)

LEMMA RangeEmpty == Range(<<>>) = {}
BY DEF Range

LEMMA RangeAppend ==
    ASSUME NEW S, NEW s \in Seq(S), NEW e
    PROVE  Range(Append(s, e)) = Range(s) \cup {e}
<1>1. DOMAIN Append(s, e) = DOMAIN s \cup {Len(s) + 1} /\ Len(s) + 1 \notin DOMAIN s
  OBVIOUS
<1>2. Append(s, e)[Len(s) + 1] = e /\ \A i \in DOMAIN s : Append(s, e)[i] = s[i]
  OBVIOUS
<1>3. QED BY <1>1, <1>2, Zenon DEF Range

LEMMA RangeHeadTail ==
    ASSUME NEW S, NEW s \in Seq(S), s # <<>>
    PROVE  /\ Head(s) \in Range(s) /\ Head(s) \in S /\ Range(Tail(s)) \subseteq Range(s)
           /\ Tail(s) \in Seq(S)
<1>1. Head(s) = s[1] /\ 1 \in DOMAIN s /\ Tail(s) \in Seq(S) OBVIOUS
<1>2. \A i \in DOMAIN Tail(s) : i + 1 \in DOMAIN s /\ Tail(s)[i] = s[i + 1] OBVIOUS
<1>3. Head(s) \in Range(s) BY <1>1 DEF Range
<1>4. Range(Tail(s)) \subseteq Range(s) BY <1>2, Zenon DEF Range
<1>5. QED BY <1>1, <1>3, <1>4

LEMMA SeqGrows ==
    ASSUME NEW S, NEW s \in Seq(S), NEW e \in S
    PROVE  /\ Append(s, e) \in Seq(S) /\ Len(Append(s, e)) = Len(s) + 1
           /\ Append(s, e)[Len(s) + 1] = e
           /\ \A i \in 1 .. Len(s) : Append(s, e)[i] = s[i]
OBVIOUS

LEMMA SeqLarger ==
    ASSUME NEW S, NEW T, S \subseteq T, NEW s \in Seq(S)
    PROVE  s \in Seq(T)
OBVIOUS

-----------------------------------------------------------------------------
(* Which actions change what *)

LEMMA ModelChanges ==
    ASSUME Next
    PROVE  \/ Complete \/ Notify \/ Tick \/ MenuCommand \/ SubmitRequest \/ HandleView
           \/ JoinsTwice \/ UNCHANGED model
<1>1. CASE UiStep
  BY <1>1 DEF UiStep, UiJoined, LaunchWaited, WaitForExit, StopServer, CancelAccept,
     ServerStopped
<1>2. CASE AcceptThread
  BY <1>2 DEF AcceptThread, ListenEnds, HandleClient, ReadFrame, ReadBroken, Greet,
     SendSnapshot, Route, Refused, Reply, Leave, Drain, AcceptJoined, Release, AcceptStep
<1>3. CASE WriterStep
  BY <1>3 DEF WriterStep, TakeJob, WriteMessage, WriteFails, WriterExits
<1>4. CASE GuiStep \/ GuiCrash \/ StrangerConnects \/ StrangerLeaves
  BY <1>4 DEF GuiStep, GuiConnects, ConnectTimeout, GuiDisconnected, GuiReads, ProcessExits,
     GuiCrash, StrangerConnects, StrangerLeaves, Connect, GuiOnly
<1>5. CASE UserStep
  BY <1>5 DEF UserStep, OpenWindow, BeginExit, SendCommand, CloseWindow, GuiOnly
<1>6. QED BY <1>1, <1>2, <1>3, <1>4, <1>5 DEF Next

\* pending, hand and peer, and the steps of the threads that matter for them.
LEMMA ServerChanges ==
    ASSUME Next
    PROVE  \/ HandleView \/ GuiConnects \/ StrangerConnects \/ ReadFrame \/ Greet \/ SendSnapshot
           \/ Route \/ Refused \/ Reply \/ AcceptJoined \/ Release \/ JoinsTwice
           \/ UNCHANGED <<pending, hand, peer>>
<1>1. CASE UiStep
  BY <1>1 DEF UiStep, UiJoined, LaunchWaited, WaitForExit, StopServer, CancelAccept,
     ServerStopped, server
<1>2. CASE AcceptThread
  BY <1>2 DEF AcceptThread, ListenEnds, HandleClient, ReadBroken, SubmitRequest,
     Leave, Drain, AcceptStep
<1>3. CASE WriterStep
  BY <1>3 DEF WriterStep, TakeJob, WriteMessage, WriteFails, WriterExits, server
<1>4. CASE GuiStep \/ GuiCrash \/ StrangerLeaves
  BY <1>4 DEF GuiStep, ConnectTimeout, GuiDisconnected, GuiReads, ProcessExits,
     GuiCrash, StrangerLeaves, GuiOnly, server
<1>5. CASE UserStep
  BY <1>5 DEF UserStep, MenuCommand, OpenWindow, BeginExit, SendCommand, CloseWindow, GuiOnly,
     server
<1>6. CASE Tick \/ Complete \/ Notify
  BY <1>6 DEF Tick, Complete, Notify, server
<1>7. QED BY <1>1, <1>2, <1>3, <1>4, <1>5, <1>6 DEF Next

LEMMA ChannelChanges ==
    ASSUME Next
    PROVE  \/ HandleView \/ UiJoined \/ OpenWindow \/ BeginExit \/ StopServer
           \/ TakeJob \/ WriteMessage \/ WriteFails \/ WriterExits
           \/ HandleClient \/ Greet \/ SendSnapshot \/ Reply \/ Leave \/ Drain \/ AcceptJoined
           \/ Release
           \/ UNCHANGED channel
<1>1. CASE UiStep
  BY <1>1 DEF UiStep, LaunchWaited, WaitForExit, CancelAccept, ServerStopped
<1>2. CASE AcceptThread
  BY <1>2 DEF AcceptThread, ListenEnds, ReadFrame, ReadBroken, Route, SubmitRequest, Refused
<1>3. CASE WriterStep
  BY <1>3 DEF WriterStep
<1>4. CASE GuiStep \/ GuiCrash \/ StrangerConnects \/ StrangerLeaves
  BY <1>4 DEF GuiStep, GuiConnects, ConnectTimeout, GuiDisconnected, GuiReads, ProcessExits,
     GuiCrash, StrangerConnects, StrangerLeaves, Connect, GuiOnly
<1>5. CASE UserStep
  BY <1>5 DEF UserStep, MenuCommand, SendCommand, CloseWindow, GuiOnly
<1>6. CASE Tick \/ Complete \/ Notify \/ JoinsTwice
  BY <1>6 DEF Tick, Complete, Notify, JoinsTwice
<1>7. QED BY <1>1, <1>2, <1>3, <1>4, <1>5, <1>6 DEF Next

LEMMA PipeChanges ==
    ASSUME Next
    PROVE  \/ TakeJob \/ WriteMessage \/ ReadFrame \/ Release \/ JoinsTwice
           \/ GuiConnects \/ StrangerConnects \/ GuiReads \/ SendCommand
           \/ UNCHANGED pipe
<1>1. CASE UiStep
  BY <1>1 DEF UiStep, HandleView, UiJoined, LaunchWaited, WaitForExit, StopServer, CancelAccept,
     ServerStopped
<1>2. CASE AcceptThread
  BY <1>2 DEF AcceptThread, ListenEnds, HandleClient, ReadBroken, Greet, SendSnapshot, Route,
     SubmitRequest, Refused, Reply, Leave, Drain, AcceptJoined
<1>3. CASE WriterStep
  BY <1>3 DEF WriterStep, WriteFails, WriterExits
<1>4. CASE GuiStep \/ GuiCrash \/ StrangerConnects \/ StrangerLeaves
  BY <1>4 DEF GuiStep, ConnectTimeout, GuiDisconnected, ProcessExits, GuiCrash, StrangerLeaves
<1>5. CASE UserStep
  BY <1>5 DEF UserStep, MenuCommand, OpenWindow, BeginExit, CloseWindow
<1>6. CASE Tick \/ Complete \/ Notify
  BY <1>6 DEF Tick, Complete, Notify
<1>7. QED BY <1>1, <1>2, <1>3, <1>4, <1>5, <1>6 DEF Next

LEMMA GuiChanges ==
    ASSUME Next
    PROVE  \/ GuiConnects \/ ConnectTimeout \/ GuiDisconnected \/ GuiReads \/ ProcessExits
           \/ GuiCrash \/ SendCommand \/ CloseWindow \/ OpenWindow \/ WaitForExit
           \/ UNCHANGED gui
<1>1. CASE UiStep
  BY <1>1 DEF UiStep, HandleView, UiJoined, LaunchWaited, StopServer, CancelAccept,
     ServerStopped
<1>2. CASE AcceptThread
  BY <1>2 DEF AcceptThread, ListenEnds, HandleClient, ReadFrame, ReadBroken, Greet,
     SendSnapshot, Route, SubmitRequest, Refused, Reply, Leave, Drain, AcceptJoined, Release,
     AcceptStep
<1>3. CASE WriterStep
  BY <1>3 DEF WriterStep, TakeJob, WriteMessage, WriteFails, WriterExits
<1>4. CASE GuiStep \/ StrangerConnects \/ StrangerLeaves
  BY <1>4 DEF GuiStep, StrangerConnects, StrangerLeaves, Connect
<1>5. CASE UserStep
  BY <1>5 DEF UserStep, MenuCommand, BeginExit
<1>6. CASE Tick \/ Complete \/ Notify \/ JoinsTwice
  BY <1>6 DEF Tick, Complete, Notify, JoinsTwice
<1>7. QED BY <1>1, <1>2, <1>3, <1>4, <1>5, <1>6 DEF Next

\* The other actions leave the accept thread where it is, or end its read.
LEMMA AcceptChanges ==
    ASSUME Next
    PROVE  \/ AcceptThread \/ GuiConnects \/ StrangerConnects \/ JoinsTwice
           \/ acc' = acc
           \/ (acc = "read" /\ acc' = "leave")
<1>1. CASE UiStep
  BY <1>1 DEF UiStep, HandleView, UiJoined, LaunchWaited, WaitForExit, StopServer, CancelAccept,
     ServerStopped, CancelRead, server
<1>3. CASE WriterStep
  BY <1>3 DEF WriterStep, TakeJob, WriteMessage, WriteFails, WriterExits, CancelRead, server
<1>4. CASE GuiStep \/ GuiCrash \/ StrangerLeaves
  BY <1>4 DEF GuiStep, ConnectTimeout, GuiDisconnected, GuiReads, ProcessExits,
     GuiCrash, StrangerLeaves, GuiOnly, server
<1>5. CASE UserStep
  BY <1>5 DEF UserStep, MenuCommand, OpenWindow, BeginExit, SendCommand, CloseWindow, GuiOnly,
     server
<1>6. CASE Tick \/ Complete \/ Notify
  BY <1>6 DEF Tick, Complete, Notify, server
<1>7. QED BY <1>1, <1>3, <1>4, <1>5, <1>6 DEF Next

\* A tray that has ended does not go on.
LEMMA CrashStays ==
    ASSUME Next, ui = "crashed"
    PROVE  ui' = "crashed"
<1>1. CASE UiStep
  BY <1>1 DEF UiStep, HandleView, UiJoined, LaunchWaited, WaitForExit, StopServer, CancelAccept,
     ServerStopped
<1>2. CASE AcceptThread
  BY <1>2 DEF AcceptThread, ListenEnds, HandleClient, ReadFrame, ReadBroken, Greet,
     SendSnapshot, Route, SubmitRequest, Refused, Reply, Leave, Drain, AcceptJoined, Release,
     AcceptStep, tray
<1>3. CASE WriterStep
  BY <1>3 DEF WriterStep, TakeJob, WriteMessage, WriteFails, WriterExits, tray
<1>4. CASE GuiStep \/ GuiCrash \/ StrangerConnects \/ StrangerLeaves
  BY <1>4 DEF GuiStep, GuiConnects, ConnectTimeout, GuiDisconnected, GuiReads, ProcessExits,
     GuiCrash, StrangerConnects, StrangerLeaves, Connect, GuiOnly, tray
<1>5. CASE UserStep
  BY <1>5 DEF UserStep, MenuCommand, OpenWindow, BeginExit, SendCommand, CloseWindow, GuiOnly,
     tray
<1>6. CASE Tick \/ Complete \/ Notify \/ JoinsTwice
  BY <1>6 DEF Tick, Complete, Notify, JoinsTwice, tray
<1>7. QED BY <1>1, <1>2, <1>3, <1>4, <1>5, <1>6 DEF Next

-----------------------------------------------------------------------------
(* The view model: states and commands are only added *)

\* What was there stays, and the client is the same.
Grows ==
    /\ Revision <= Len(states') /\ \A r \in 1 .. Revision : states'[r] = states[r]
    /\ Len(owners) <= Len(owners') /\ \A i \in 1 .. Len(owners) : owners'[i] = owners[i]

LEMMA KeepGrows == UNCHANGED <<states, owners>> /\ ModelType => Grows
BY DEF Grows, ModelType, Revision

LEMMA CurrentType == ModelType => Revision \in Nat \ {0} /\ Current \in ViewState
BY DEF ModelType, Revision, Current

\* A submission: its number is new, and the state keeps the rest.
LEMMA SubmitStep ==
    ASSUME ModelType, NEW owner \in Owner, Submit(owner), late' = late
    PROVE  /\ ModelType' /\ Grows
           /\ Len(states') = Revision + 1 /\ Len(owners') = Len(owners) + 1
           /\ owners'[Len(owners) + 1] = owner
           /\ Current.pending =>
                /\ states'[Revision + 1].pending /\ task' = task
                /\ states'[Revision + 1].sequence = Len(owners) + 1
           /\ ~Current.pending =>
                /\ states'[Revision + 1].pending /\ task' = Len(owners) + 1
                /\ states'[Revision + 1].sequence = Current.sequence
<1> DEFINE new == IF Current.pending THEN [Current EXCEPT !.sequence = Len(owners) + 1]
                  ELSE [Current EXCEPT !.pending = TRUE]
<1>1. Current \in ViewState /\ Revision \in Nat \ {0} BY CurrentType
<1>2. Len(owners) \in Nat BY DEF ModelType
<1>3. new \in ViewState
  <2>1. CASE Current.pending BY <2>1, <1>1, <1>2 DEF ViewState
  <2>2. CASE ~Current.pending BY <2>2, <1>1 DEF ViewState
  <2>3. QED BY <2>1, <2>2
<1>4. states' = Append(states, new) /\ owners' = Append(owners, owner)
  BY DEF Submit, Change
<1> HIDE DEF new
<1>5. /\ states' \in Seq(ViewState) /\ Len(states') = Revision + 1
      /\ states'[Revision + 1] = new /\ \A i \in 1 .. Revision : states'[i] = states[i]
  BY <1>3, <1>4, SeqGrows DEF ModelType, Revision
<1>6. /\ owners' \in Seq(Owner) /\ Len(owners') = Len(owners) + 1
      /\ owners'[Len(owners) + 1] = owner
      /\ \A i \in 1 .. Len(owners) : owners'[i] = owners[i]
  BY <1>4, SeqGrows DEF ModelType
<1>7. posted' \in Seq(1 .. Revision + 1)
  <2>1. posted \in Seq(1 .. Revision + 1) BY <1>1, SeqLarger DEF ModelType
  <2>2. posted' = Append(posted, Revision + 1) BY DEF Submit
  <2>3. QED BY <1>1, <2>1, <2>2, SeqGrows
<1>8. task' \in 0 .. Len(owners')
  BY <1>2, <1>6 DEF Submit, ModelType
<1>9. ModelType'
  BY <1>1, <1>5, <1>6, <1>7, <1>8 DEF ModelType, Revision
<1>10. Grows BY <1>1, <1>2, <1>5, <1>6 DEF Grows
<1>11. CASE Current.pending
  <2>1. new.pending /\ new.sequence = Len(owners) + 1 BY <1>1, <1>11 DEF new, ViewState
  <2>2. QED BY <2>1, <1>5, <1>6, <1>9, <1>10, <1>11 DEF Submit
<1>12. CASE ~Current.pending
  <2>1. new.pending /\ new.sequence = Current.sequence BY <1>1, <1>12 DEF new, ViewState
  <2>2. QED BY <2>1, <1>5, <1>6, <1>9, <1>10, <1>12 DEF Submit
<1>13. QED BY <1>11, <1>12

LEMMA CompleteStep ==
    ASSUME ModelType, Complete
    PROVE  /\ ModelType' /\ Grows /\ owners' = owners /\ task' = 0
           /\ Len(states') = Revision + 1
           /\ ~states'[Revision + 1].pending /\ states'[Revision + 1].sequence = task
<1> DEFINE new == [pending |-> FALSE, sequence |-> task]
<1>1. Revision \in Nat \ {0} BY CurrentType
<1>2. new \in ViewState BY DEF ViewState, ModelType
<1>3. states' = Append(states, new) BY DEF Complete, Change
<1>4. new.pending = FALSE /\ new.sequence = task OBVIOUS
<1> HIDE DEF new
<1>5. /\ states' \in Seq(ViewState) /\ Len(states') = Revision + 1
      /\ states'[Revision + 1] = new /\ \A i \in 1 .. Revision : states'[i] = states[i]
  BY <1>2, <1>3, SeqGrows DEF ModelType, Revision
<1>6. UNCHANGED <<owners, posted>> /\ late' = Revision + 1 /\ task' = 0 BY DEF Complete
<1>7. posted' \in Seq(1 .. Revision + 1) BY <1>1, <1>6, SeqLarger DEF ModelType
<1>8. ModelType' BY <1>1, <1>5, <1>6, <1>7 DEF ModelType, Revision
<1>9. QED BY <1>1, <1>4, <1>5, <1>6, <1>8 DEF Grows, ModelType

LEMMA TickStep ==
    ASSUME ModelType, Tick
    PROVE  /\ ModelType' /\ Grows /\ owners' = owners /\ task' = task
           /\ Len(states') \in {Revision, Revision + 1}
           /\ \A r \in 1 .. Len(states') : states'[r] = states[r] \/ states'[r] = Current
           /\ states'[Len(states')] = Current
<1>1. Revision \in Nat \ {0} /\ Current \in ViewState BY CurrentType
<1>2. /\ states' \in Seq(ViewState)
      /\ Len(states') \in {Revision, Revision + 1}
      /\ states'[Len(states')] = Current
      /\ \A i \in 1 .. Revision : states'[i] = states[i]
  <2>1. CASE states' = states BY <2>1, <1>1 DEF ModelType, Revision, Current
  <2>2. CASE Change(Current) BY <2>2, <1>1, SeqGrows DEF Change, ModelType, Revision
  <2>3. QED BY <2>1, <2>2 DEF Tick
<1>3. UNCHANGED <<owners, late, task>> /\ posted' = Append(posted, Len(states'))
  BY DEF Tick
<1>4. posted' \in Seq(1 .. Len(states'))
  <2>1. posted \in Seq(1 .. Len(states')) BY <1>1, <1>2, SeqLarger DEF ModelType
  <2>2. QED BY <1>1, <1>2, <1>3, <2>1, SeqGrows
<1>5. ModelType' BY <1>1, <1>2, <1>3, <1>4 DEF ModelType, Revision
<1>6. QED BY <1>1, <1>2, <1>3, <1>5 DEF Grows, ModelType

LEMMA ModelStep ==
    ASSUME ModelType, ServerType, Next
    PROVE  ModelType' /\ Grows
<1>1. CASE Complete BY <1>1, CompleteStep
<1>2. CASE Tick BY <1>2, TickStep
<1>3. CASE MenuCommand
  <2>1. Submit(Tray) /\ late' = late BY <1>3 DEF MenuCommand
  <2>2. Tray \in Owner BY DEF Tray, Owner
  <2>3. QED BY <2>1, <2>2, SubmitStep
<1>4. CASE SubmitRequest
  <2>1. Submit([session |-> peer, request |-> hand.request]) /\ late' = late
    BY <1>4 DEF SubmitRequest
  <2>2. [session |-> peer, request |-> hand.request] \in Owner BY DEF ServerType, Owner
  <2>3. QED BY <2>1, <2>2, SubmitStep
<1>5. CASE Notify
  <2>1. UNCHANGED <<states, owners, task>> /\ late' = 0 /\ posted' = Append(posted, late)
    BY <1>5 DEF Notify
  <2>2. late \in 1 .. Revision BY <1>5, CurrentType DEF Notify, ModelType
  <2>3. posted' \in Seq(1 .. Revision) BY <2>1, <2>2, SeqGrows DEF ModelType
  <2>4. QED BY <2>1, <2>3, KeepGrows, CurrentType DEF ModelType, Revision
<1>6. CASE HandleView
  <2>1. UNCHANGED <<states, owners, late, task>> BY <1>6 DEF HandleView
  <2>2. posted # <<>> /\ posted' \in {posted, Tail(posted)} BY <1>6 DEF HandleView, PublishView
  <2>3. posted' \in Seq(1 .. Revision) BY <2>2, RangeHeadTail DEF ModelType
  <2>4. QED BY <2>1, <2>3, KeepGrows DEF ModelType, Revision
<1>7. CASE JoinsTwice
  <2>1. UNCHANGED <<states, owners, posted>> /\ task' = 0 /\ late' = 0
    BY <1>7 DEF JoinsTwice
  <2>2. QED BY <2>1, KeepGrows, CurrentType DEF ModelType, Revision
<1>8. CASE UNCHANGED model BY <1>8, KeepGrows DEF ModelType, Revision, model
<1>9. QED BY <1>1, <1>2, <1>3, <1>4, <1>5, <1>6, <1>7, <1>8, ModelChanges

-----------------------------------------------------------------------------
(* Types *)

LEMMA MsgType ==
    ASSUME NEW k \in Kind
    PROVE  Msg(k) \in Message /\ Msg(k).kind = k
BY DEF Msg, Message

LEMMA AnswerType ==
    ASSUME NEW q \in Nat, NEW i \in Nat
    PROVE  /\ Answer(q, i) \in Message /\ Answer(q, i).kind = "answer"
           /\ Answer(q, i).request = q /\ Answer(q, i).result = i
BY DEF Answer, Msg, Message, Kind

LEMMA SnapshotType ==
    ASSUME NEW r \in Nat
    PROVE  /\ SnapshotOf(r) \in Message /\ SnapshotOf(r).kind = "snapshot"
           /\ SnapshotOf(r).revision = r
BY DEF SnapshotOf, Msg, Message, Kind

LEMMA NoHandType ==
    /\ NoHand \in [request : Nat, previous : Nat, revision : Nat, answer : Nat]
    /\ NoHand.answer = 0
    /\ NoPending \in [request : Nat, previous : Nat] /\ NoPending.request = 0
BY DEF NoHand, NoPending

\* What a frame leaves in the accept thread's hand.
LEMMA FrameRead ==
    ASSUME ModelType, GuiType, ReadFrame
    PROVE  /\ hand' \in [request : Nat, previous : Nat, revision : Nat, answer : Nat]
           /\ hand'.answer = 0
           /\ acc' \in {"greet", "snapshot"} => hand'.revision = Revision
           /\ acc' = "route" => hand'.previous = Current.sequence /\ ~Current.pending
           /\ acc' \in {"greet", "snapshot", "route", "reply"}
           /\ toServer' \in Seq(Frame) /\ toClient' = toClient
           /\ UNCHANGED <<states, owners, late, task, posted, ui, pending, peer, gui, channel>>
<1>1. Revision \in Nat /\ Current.sequence \in Nat BY CurrentType DEF ViewState
<1> DEFINE m == Head(toServer)
<1>2. m \in Frame /\ Tail(toServer) \in Seq(Frame)
  BY RangeHeadTail DEF ReadFrame, GuiType
<1>3. m.request \in Nat /\ m.kind \in {"hello", "command", "request"} BY <1>2 DEF Frame
<1>4. /\ \/ /\ acc' \in {"greet", "snapshot"} /\ hand' = [NoHand EXCEPT !.revision = Revision]
         \/ /\ acc' = IF Current.pending THEN "reply" ELSE "route"
            /\ hand' = [NoHand EXCEPT !.request = m.request, !.previous = Current.sequence]
      /\ toServer' = Tail(toServer)
      /\ UNCHANGED <<AcceptStep, pending, channel, toClient>>
  <2>1. CASE m.kind = "hello" BY <2>1 DEF ReadFrame
  <2>2. CASE m.kind = "command" BY <2>2 DEF ReadFrame
  <2>3. CASE m.kind = "request" BY <2>3 DEF ReadFrame
  <2>4. QED BY <1>3, <2>1, <2>2, <2>3
<1> HIDE DEF m
<1>5. UNCHANGED <<states, owners, late, task, posted, ui, pending, peer, gui, channel>>
  BY <1>4 DEF AcceptStep, model, tray
<1>6. CASE acc' \in {"greet", "snapshot"} /\ hand' = [NoHand EXCEPT !.revision = Revision]
  BY <1>1, <1>2, <1>4, <1>5, <1>6 DEF NoHand
<1>7. CASE /\ acc' = IF Current.pending THEN "reply" ELSE "route"
           /\ hand' = [NoHand EXCEPT !.request = m.request, !.previous = Current.sequence]
  BY <1>1, <1>2, <1>3, <1>4, <1>5, <1>7 DEF NoHand
<1>8. QED BY <1>4, <1>6, <1>7

LEMMA ServerStep ==
    ASSUME SessionInv, Next
    PROVE  ServerType'
<1> USE DEF SessionInv
<1>1. CASE HandleView
  BY <1>1, NoHandType DEF HandleView, ServerType
<1>2. CASE GuiConnects
  BY <1>2 DEF GuiConnects, Connect, ServerType, GuiType, Process
<1>3. CASE StrangerConnects
  BY <1>3 DEF StrangerConnects, Connect, ServerType, Stranger
<1>4. CASE ReadFrame
  BY <1>4, FrameRead DEF ServerType
<1>5. CASE Greet \/ SendSnapshot \/ Reply
  BY <1>5, NoHandType DEF Greet, SendSnapshot, Reply, AcceptStep, ServerType
<1>6. CASE Route
  BY <1>6 DEF Route, AcceptStep, ServerType
<1>7. CASE Refused
  <2>1. Current.sequence \in Nat BY CurrentType DEF ViewState
  <2>2. peer' = peer /\ pending' = NoPending
        /\ hand' = [hand EXCEPT !.answer =
                      IF Current.sequence > hand.previous THEN Current.sequence ELSE 0]
    BY <1>7 DEF Refused, AcceptStep
  <2>3. QED BY <2>1, <2>2, NoHandType DEF ServerType
<1>8. CASE AcceptJoined
  BY <1>8, NoHandType DEF AcceptJoined, AcceptStep, ServerType
<1>9. CASE Release \/ JoinsTwice
  BY <1>9 DEF Release, JoinsTwice, ServerType
<1>10. CASE UNCHANGED <<pending, hand, peer>>
  BY <1>10 DEF ServerType
<1>11. QED
  BY <1>1, <1>2, <1>3, <1>4, <1>5, <1>6, <1>7, <1>8, <1>9, <1>10, ServerChanges

LEMMA NoGuiType ==
    ASSUME NEW n \in Nat, NEW st \in GuiState
    PROVE  /\ [NoGui EXCEPT !.session = n] \in Process
           /\ [NoGui EXCEPT !.session = n].view.revision = 0
           /\ [NoGui EXCEPT !.session = n, !.state = st] \in Process
           /\ [NoGui EXCEPT !.session = n, !.state = st].view.revision = 0
BY DEF NoGui, Process, View, GuiState

LEMMA FieldsType ==
    ASSUME ModelType, NEW r \in 1 .. Revision
    PROVE  /\ Fields(r) \in View /\ Fields(r).revision = r /\ r \in Nat
           /\ Fields(r).pending = states[r].pending /\ Fields(r).sequence = states[r].sequence
<1>1. states[r] \in ViewState /\ r \in Nat BY DEF ModelType, Revision
<1>2. QED BY <1>1 DEF Fields, View, ViewState

\* A delta of two revisions leads from the one to the other.
LEMMA DeltaApplies ==
    ASSUME ModelType, GuiType, NEW m \in Message, m.from \in 1 .. Revision,
           m.revision \in 1 .. Revision, gui.view = Fields(m.from)
    PROVE  ApplyDelta(m) = Fields(m.revision)
<1>1. /\ Fields(m.from) \in View /\ Fields(m.revision) \in View
      /\ Fields(m.from).pending = states[m.from].pending
      /\ Fields(m.from).sequence = states[m.from].sequence
      /\ Fields(m.revision).pending = states[m.revision].pending
      /\ Fields(m.revision).sequence = states[m.revision].sequence
      /\ Fields(m.revision).revision = m.revision
  BY FieldsType
<1> DEFINE p == IF states[m.from].pending # states[m.revision].pending
                THEN states[m.revision].pending ELSE gui.view.pending
           q == IF states[m.from].sequence # states[m.revision].sequence
                THEN states[m.revision].sequence ELSE gui.view.sequence
<1>2. ApplyDelta(m) = [gui.view EXCEPT !.revision = m.revision, !.pending = p, !.sequence = q]
  BY DEF ApplyDelta
<1>3. p = states[m.revision].pending /\ q = states[m.revision].sequence
  BY <1>1
<1> HIDE DEF p, q
<1>4. gui.view \in View BY <1>1
<1>5. ApplyDelta(m) = [revision |-> m.revision, pending |-> p, sequence |-> q]
  BY <1>2, <1>4 DEF View
<1>6. QED BY <1>5, <1>3 DEF Fields

\* Revisions keep their fields.
LEMMA ShownKept ==
    ASSUME ModelType, GuiType, Shown, Grows, ModelType', gui'.view = gui.view
    PROVE  Shown'
<1> SUFFICES ASSUME NEW r \in Nat \ {0}, gui.view.revision = r
             PROVE  r \in 1 .. Len(states') /\ gui.view = Fields(r)'
  BY DEF Shown, Revision, GuiType, Process, View, Fields
<1>1. r \in 1 .. Revision /\ gui.view = Fields(r) BY DEF Shown
<1>2. states'[r] = states[r] /\ r \in 1 .. Len(states')
  BY <1>1, CurrentType DEF Grows, ModelType, Revision
<1>3. Fields(r)' = Fields(r) BY <1>2 DEF Fields
<1>4. QED BY <1>1, <1>2, <1>3

\* A window that is opened, lost or closed shows nothing or what it showed.
LEMMA ProcessStep ==
    ASSUME SessionInv, Next, ~GuiReads
    PROVE  gui' \in Process /\ (gui'.view = gui.view \/ gui'.view.revision = 0)
<1> USE DEF SessionInv
<1>1. gui \in Process BY DEF GuiType
<1>2. gui.session + 1 \in Nat /\ gui.session \in Nat /\ gui.made + 1 \in Nat
  BY <1>1 DEF Process
<1>3. CASE Terminated
  BY <1>2, <1>3, NoGuiType DEF Terminated, GuiState
<1>4. CASE Launch
  BY <1>2, <1>4, NoGuiType DEF Launch, GuiState
<1>5. CASE Fail
  BY <1>1, <1>5 DEF Fail, Process, GuiState
<1>6. CASE GuiConnects \/ GuiDisconnected
  <2>1. CASE \E st \in {"handshake", "connect"} : gui' = [gui EXCEPT !.state = st]
    BY <1>1, <2>1 DEF Process, GuiState
  <2>2. QED BY <1>5, <1>6, <2>1 DEF GuiConnects, GuiDisconnected
<1>7. CASE SendCommand
  <2>1. gui' = [gui EXCEPT !.made = gui.made + 1, !.request = gui.made + 1]
    BY <1>7 DEF SendCommand
  <2>2. QED BY <1>1, <1>2, <2>1 DEF Process
<1>8. CASE UNCHANGED gui BY <1>1, <1>8
<1>9. QED
  BY <1>3, <1>4, <1>5, <1>6, <1>7, <1>8, GuiChanges
  DEF ConnectTimeout, ProcessExits, GuiCrash, CloseWindow, OpenWindow, WaitForExit

\* The frame that the window reads.
LEMMA ReadStep ==
    ASSUME SessionInv, GuiReads
    PROVE  /\ gui' \in Process
           /\ gui'.view = gui.view
              \/ \E r \in 1 .. Revision : gui'.view = Fields(r)
<1> USE DEF SessionInv
<1> DEFINE m == Head(toClient)
<1>1. gui \in Process BY DEF GuiType
<1>2. m \in Message /\ m \in InFlight
  BY RangeHeadTail DEF GuiReads, ChannelInv, ChannelType, InFlight
<1>3. Payload(m) BY <1>2 DEF ChannelInv, Payloads
<1>4. CASE m.kind = "hello" /\ gui' = Greeted
  BY <1>1, <1>4 DEF Greeted, Process, GuiState
<1>5. CASE m.kind = "snapshot" /\ gui' = Shows(m.revision)
  <2>1. m.revision \in 1 .. Revision BY <1>3, <1>5 DEF Payload
  <2>2. Fields(m.revision) \in View BY <2>1, FieldsType
  <2>3. gui' = [gui EXCEPT !.state = "ready", !.view = Fields(m.revision), !.required = FALSE]
    BY <1>5 DEF Shows
  <2> HIDE DEF m
  <2>4. gui' \in Process /\ gui'.view = Fields(m.revision)
    BY <1>1, <2>2, <2>3 DEF Process, GuiState
  <2>5. QED BY <2>1, <2>4
<1>6. CASE m.kind = "delta" /\ Follows(m) /\ gui' = [gui EXCEPT !.view = ApplyDelta(m)]
  <2>1. m.from \in 1 .. Revision /\ m.revision \in 1 .. Revision
    BY <1>3, <1>6 DEF Payload
  <2>2. gui.view = Fields(m.from)
    BY <1>6, <2>1 DEF Follows, Shown
  <2>3. ApplyDelta(m) = Fields(m.revision) BY <1>2, <2>1, <2>2, DeltaApplies
  <2>4. Fields(m.revision) \in View BY <2>1, FieldsType
  <2> HIDE DEF m
  <2>5. gui' \in Process /\ gui'.view = Fields(m.revision)
    BY <1>1, <1>6, <2>3, <2>4 DEF Process
  <2>6. QED BY <2>1, <2>5
<1>7. CASE gui' = [gui EXCEPT !.required = TRUE]
  BY <1>1, <1>7 DEF Process
<1>8. CASE m.kind = "answer" /\ gui' = Answered(m.request)
  <2>1. gui' = [gui EXCEPT !.request = IF gui.request = m.request THEN 0 ELSE gui.request]
    BY <1>8 DEF Answered
  <2> HIDE DEF m
  <2>2. QED BY <1>1, <2>1 DEF Process
<1>9. CASE UNCHANGED gui BY <1>1, <1>9
<1>10. CASE Fail BY <1>1, <1>10 DEF Fail, Process, GuiState
<1>11. QED
  BY <1>4, <1>5, <1>6, <1>7, <1>8, <1>9, <1>10 DEF GuiReads

LEMMA ShownStep ==
    ASSUME SessionInv, Next
    PROVE  Shown'
<1> USE DEF SessionInv
<1>1. ModelType' /\ Grows BY ModelStep
<1>2. CASE gui'.view = gui.view BY <1>1, <1>2, ShownKept
<1>3. CASE ~GuiReads /\ gui'.view # gui.view BY <1>3, ProcessStep DEF Shown
<1>4. CASE GuiReads /\ gui'.view # gui.view
  <2>1. PICK r \in 1 .. Revision : gui'.view = Fields(r) BY <1>4, ReadStep
  <2>2. states' = states BY <1>4 DEF GuiReads, GuiOnly, model
  <2>3. Fields(r)' = Fields(r) /\ Len(states') = Revision BY <2>2 DEF Fields, Revision
  <2>4. gui'.view.revision = r BY <2>1, FieldsType
  <2>5. QED BY <2>1, <2>3, <2>4 DEF Shown, Revision
<1>5. QED BY <1>2, <1>3, <1>4

LEMMA GuiTypeStep ==
    ASSUME SessionInv, Next
    PROVE  GuiType'
<1> USE DEF SessionInv
<1>1. gui' \in Process BY ProcessStep, ReadStep
<1>2. toServer' \in Seq(Frame)
  <2>1. toServer \in Seq(Frame) BY DEF GuiType
  <2>2. CASE GuiReads
    <3>1. Msg("request") \in Frame BY DEF Msg, Frame
    <3>2. toServer' = toServer \/ toServer' = Append(toServer, Msg("request"))
      BY <2>2 DEF GuiReads, ToServer
    <3>3. QED BY <2>1, <3>1, <3>2, SeqGrows
  <2>3. CASE SendCommand
    <3>1. gui.made + 1 \in Nat BY DEF GuiType, Process
    <3>2. [Msg("command") EXCEPT !.request = gui.made + 1] \in Frame
      BY <3>1 DEF Msg, Frame
    <3>3. QED BY <2>1, <2>3, <3>2, SeqGrows DEF SendCommand, ToServer
  <2>4. CASE ReadFrame BY <2>4, FrameRead
  <2>5. CASE GuiConnects \/ StrangerConnects
    <3>1. Msg("hello") \in Frame BY DEF Msg, Frame
    <3>2. toServer' = <<Msg("hello")>> BY <2>5 DEF GuiConnects, StrangerConnects, Connect
    <3>3. QED BY <3>1, <3>2
  <2>6. CASE Release \/ JoinsTwice
    <3>1. toServer' = <<>> BY <2>6 DEF Release, JoinsTwice
    <3>2. QED BY <3>1
  <2>7. CASE TakeJob \/ WriteMessage BY <2>1, <2>7 DEF TakeJob, WriteMessage
  <2>8. CASE UNCHANGED pipe BY <2>1, <2>8 DEF pipe
  <2>9. QED BY <2>2, <2>3, <2>4, <2>5, <2>6, <2>7, <2>8, PipeChanges
<1>3. QED BY <1>1, <1>2 DEF GuiType

-----------------------------------------------------------------------------
(* The channel *)

LEMMA InFlightType == ChannelType => InFlight \subseteq Message
<1> SUFFICES ASSUME ChannelType, NEW m \in InFlight PROVE m \in Message
  OBVIOUS
<1>1. \A s \in Seq(Message) : Range(s) \subseteq Message BY DEF Range
<1>2. QED BY <1>1 DEF ChannelType, InFlight

\* What a message names stays there as long as the client does.
LEMMA PayloadKept ==
    ASSUME ModelType, Grows, peer' = peer, NEW m \in Message, Payload(m)
    PROVE  Payload(m)'
<1>1. \A i \in 1 .. Revision : i \in 1 .. Len(states')
  BY CurrentType DEF Grows, ModelType, Revision
<1>2. m.result # 0 => m.result \in Nat \ {0} BY DEF Message
<1>3. Len(owners) \in Nat BY DEF ModelType
<1>4. ASSUME m.result # 0, Owned(m.result, m.request)
      PROVE  Owned(m.result, m.request)'
  <2> DEFINE i == m.result
  <2>1. i \in 1 .. Len(owners) /\ i <= Len(owners') /\ owners'[i] = owners[i]
    BY <1>2, <1>3, <1>4 DEF Owned, Grows
  <2>2. owners[i] \in {Tray, [session |-> peer, request |-> m.request]}
    BY <1>4 DEF Owned
  <2>3. QED BY <2>1, <2>2 DEF Owned, Tray
<1>5. QED BY <1>1, <1>4 DEF Payload, Revision

\* No step of the model disturbs what is on its way.
LEMMA CarriedOn ==
    ASSUME ModelType, ModelType', Grows, peer' = peer, ChannelInv, NEW m \in InFlight
    PROVE  Payload(m)'
BY InFlightType, PayloadKept DEF ChannelInv, Payloads

LEMMA ChannelKept ==
    ASSUME ModelType, ModelType', Grows, peer' = peer, ChannelInv, UNCHANGED <<channel, toClient>>
    PROVE  ChannelInv'
<1>1. UNCHANGED <<jobs, message, toClient, closed, drain, joined, latest, sent, writer>>
  BY DEF channel
<1>2. ChannelType'
  <2>1. 0 .. Revision \subseteq 0 .. Len(states')
    BY CurrentType DEF Grows, ModelType, Revision
  <2>2. QED BY <1>1, <2>1 DEF ChannelInv, ChannelType, Revision
<1>3. Writing' BY <1>1 DEF ChannelInv, Writing, Msg
<1>4. InFlight' = InFlight BY <1>1 DEF InFlight
<1>5. \A m \in InFlight' : Payload(m)' BY <1>4, CarriedOn
<1>6. Payloads' BY <1>1, <1>5 DEF ChannelInv, Payloads
<1>7. QED BY <1>2, <1>3, <1>6 DEF ChannelInv

\* New jobs, of an open channel, name what is there.
LEMMA ChannelPushes ==
    ASSUME ModelType, ChannelInv, UNCHANGED <<states, owners, peer>>,
           UNCHANGED <<message, toClient, closed, drain, joined, sent, writer>>,
           jobs' \in Seq(Message), latest' \in 0 .. Revision, latest # 0 => latest' # 0,
           jobs' = jobs \/ ~closed,
           \A m \in Range(jobs') :
               m \in Range(jobs) \/ (Payload(m) /\ (m.kind = "state" => latest' # 0))
    PROVE  ChannelInv'
<1>1. ChannelType' BY DEF ChannelInv, ChannelType, Revision
<1>2. Writing' BY DEF ChannelInv, Writing, Msg
<1>3. \A m : Payload(m)' <=> Payload(m) BY DEF Payload, Owned, Revision, Tray
<1>4. \A m \in InFlight' : Payload(m)'
  BY <1>3 DEF InFlight, ChannelInv, Payloads
<1>5. Payloads' BY <1>4 DEF ChannelInv, Payloads
<1>6. QED BY <1>1, <1>2, <1>5 DEF ChannelInv

LEMMA ChannelPushesOne ==
    ASSUME ModelType, ChannelInv, UNCHANGED <<states, owners, peer>>,
           UNCHANGED <<message, toClient, closed, drain, joined, latest, sent, writer>>,
           NEW job \in Message, Payload(job), job.kind # "state", CanPush, Push(job)
    PROVE  ChannelInv'
<1>1. jobs \in Seq(Message) /\ latest \in 0 .. Revision BY DEF ChannelInv, ChannelType
<1>2. jobs' = Append(jobs, job) /\ ~closed BY DEF Push, CanPush
<1>3. jobs' \in Seq(Message) /\ Range(jobs') = Range(jobs) \cup {job}
  BY <1>1, <1>2, SeqGrows, RangeAppend
<1>4. QED BY <1>1, <1>2, <1>3, ChannelPushes

\* A channel that is stopped has no jobs.
LEMMA ChannelStops ==
    ASSUME ModelType, ChannelInv, UNCHANGED <<states, owners, peer>>,
           UNCHANGED <<message, toClient, joined, latest, sent, writer>>,
           jobs' = <<>>, closed' = TRUE, drain' = FALSE
    PROVE  ChannelInv'
<1>1. ChannelType'
  <2>1. jobs' \in Seq(Message) OBVIOUS
  <2>2. QED BY <2>1 DEF ChannelInv, ChannelType, Revision
<1>2. Writing' BY DEF ChannelInv, Writing, Msg
<1>3. \A m : Payload(m)' <=> Payload(m) BY DEF Payload, Owned, Revision, Tray
<1>4. Range(jobs') = {} BY RangeEmpty
<1>5. \A m \in InFlight' : Payload(m)'
  BY <1>3, <1>4 DEF InFlight, ChannelInv, Payloads
<1>6. Payloads' BY <1>4, <1>5 DEF ChannelInv, Payloads
<1>7. QED BY <1>1, <1>2, <1>6 DEF ChannelInv

\* Nothing is on its way while there is no client.
LEMMA ChannelEmpty ==
    ASSUME ModelType, ModelType', ChannelInv, writer = "exited", UNCHANGED states,
           UNCHANGED <<jobs, message, closed, drain, joined, writer>>, toClient' = <<>>,
           latest' \in 0 .. Revision, sent' \in 0 .. Revision
    PROVE  ChannelInv'
<1>1. jobs = <<>> /\ message = Msg("none") BY DEF ChannelInv, Writing
<1>2. ChannelType'
  <2>1. toClient' \in Seq(Message) OBVIOUS
  <2>2. QED BY <2>1 DEF ChannelInv, ChannelType, Revision
<1>3. Writing' BY DEF ChannelInv, Writing, Msg
<1>4. Range(jobs') = {} /\ Range(toClient') = {} BY <1>1, RangeEmpty
<1>5. \A m \in InFlight' : m = Msg("none") BY <1>1, <1>4 DEF InFlight
<1>6. Msg("none").kind = "none" BY DEF Msg
<1>7. \A m \in InFlight' : Payload(m)' BY <1>5, <1>6 DEF Payload
<1>8. Payloads' BY <1>4, <1>7 DEF Payloads
<1>9. QED BY <1>2, <1>3, <1>8 DEF ChannelInv

\* The writer writes a message, or keeps it until there is room.
LEMMA ChannelWrites ==
    ASSUME ModelType, ChannelInv, UNCHANGED <<states, owners, peer>>,
           UNCHANGED <<closed, drain, joined, latest>>, writer # "exited",
           jobs' \in Seq(Message), Range(jobs') \subseteq Range(jobs), jobs = <<>> => jobs' = <<>>,
           NEW m \in Message, Payload(m), Write(m)
    PROVE  ChannelInv'
<1>1. Msg("none") \in Message /\ Msg("none").kind = "none" BY MsgType DEF Kind
<1>2. m.kind \in {"snapshot", "delta"} => m.revision \in 1 .. Revision BY DEF Payload
<1>3. sent' \in 0 .. Revision
  BY <1>2, CurrentType DEF Write, ChannelInv, ChannelType
<1>4. message' \in {m, Msg("none")} /\ message' \in Message BY <1>1 DEF Write
<1>5. toClient' \in Seq(Message) /\ Range(toClient') \subseteq Range(toClient) \cup {m}
  <2>1. toClient \in Seq(Message) BY DEF ChannelInv, ChannelType
  <2>2. toClient' = toClient \/ toClient' = Append(toClient, m) BY DEF Write
  <2>3. CASE toClient' = Append(toClient, m)
    <3>1. Range(toClient') = Range(toClient) \cup {m} BY <2>1, <2>3, RangeAppend
    <3>2. toClient' \in Seq(Message) BY <2>1, <2>3
    <3>3. QED BY <3>1, <3>2
  <2>4. QED BY <2>1, <2>2, <2>3
<1>6. ChannelType' BY <1>3, <1>4, <1>5 DEF ChannelInv, ChannelType, Revision
<1>7. writer' \in {"wait", "write"} /\ (writer' = "wait" => message' = Msg("none"))
  BY DEF Write
<1>8. Writing' BY <1>7 DEF ChannelInv, Writing, Msg
<1>9. \A n : Payload(n)' <=> Payload(n) BY DEF Payload, Owned, Revision, Tray
<1>10. Payload(Msg("none")) BY <1>1 DEF Payload
<1>11. InFlight' \subseteq InFlight \cup {m, Msg("none")} BY <1>4, <1>5 DEF InFlight
<1>12. \A n \in InFlight' : Payload(n)'
  BY <1>9, <1>10, <1>11 DEF ChannelInv, Payloads
<1>13. Payloads' BY <1>12 DEF ChannelInv, Payloads
<1>14. QED BY <1>6, <1>8, <1>13 DEF ChannelInv

\* Nothing new is on its way.
LEMMA ChannelShrinks ==
    ASSUME ModelType, ModelType', Grows, peer' = peer, ChannelInv, ChannelType', Writing',
           InFlight' \subseteq InFlight \cup {Msg("none")}, Range(jobs') \subseteq Range(jobs),
           latest' = latest \/ Range(jobs') = {}
    PROVE  ChannelInv'
<1>1. Payload(Msg("none"))' BY DEF Payload, Msg
<1>2. \A m \in InFlight : Payload(m)' BY CarriedOn
<1>3. Payloads' BY <1>1, <1>2 DEF ChannelInv, Payloads
<1>4. QED BY <1>3 DEF ChannelInv

\* The state that the UI thread takes from its queue, and the answer it may
\* complete.
LEMMA HandleViewKeeps ==
    ASSUME SessionInv, HandleView
    PROVE  ChannelInv'
<1> USE DEF SessionInv
<1> DEFINE r == Head(posted)
           result == Answer(pending.request, states[r].sequence)
           done == ui = "loop" /\ Completes(r)
           st == Msg("state")
<1>1. /\ UNCHANGED <<states, owners, peer, message, toClient, joined, sent, writer>>
      /\ posted # <<>> /\ ui # "crashed"
  BY DEF HandleView, pipe
<1>2. r \in 1 .. Revision /\ states[r] \in ViewState
  BY <1>1, RangeHeadTail DEF ModelType, Revision
<1>3. pending.request \in Nat /\ pending.previous \in Nat BY DEF ServerType
<1>4. states[r].sequence \in Nat BY <1>2 DEF ViewState
<1>5. /\ result \in Message /\ result.kind = "answer" /\ result.request = pending.request
      /\ result.result = states[r].sequence
  BY <1>3, <1>4, AnswerType
<1>6. st \in Message /\ st.kind = "state" BY MsgType DEF Kind
<1>7. Completes(r) => Owned(states[r].sequence, pending.request)
  BY <1>1, <1>2 DEF Completes, Requests, Since
<1>8. /\ jobs \in Seq(Message) /\ latest \in 0 .. Revision BY DEF ChannelInv, ChannelType
<1>9. ASSUME NEW queue \in Seq(Message), PublishView(queue)
      PROVE  /\ jobs' \in Seq(Message) /\ Range(jobs') \subseteq Range(queue) \cup {st}
             /\ latest' \in 0 .. Revision /\ (latest # 0 => latest' # 0)
             /\ st \in Range(jobs') \ Range(queue) => latest' # 0
             /\ UNCHANGED <<closed, drain>> /\ (jobs' = queue \/ ~closed)
  <2>1. latest' \in {latest, r} /\ UNCHANGED <<closed, drain>> BY <1>9 DEF PublishView
  <2>2. r # 0 /\ r \in 0 .. Revision BY <1>2, CurrentType
  <2>3. CASE active /\ authenticated /\ ~closed /\ ~queued /\ Len(queue) < QueueCapacity
    <3>1. jobs' = Append(queue, st) /\ latest' = r BY <1>9, <2>3 DEF PublishView
    <3>2. jobs' \in Seq(Message) /\ Range(jobs') = Range(queue) \cup {st}
      BY <1>6, <3>1, SeqGrows, RangeAppend
    <3> HIDE DEF r, st
    <3>3. QED BY <1>8, <2>1, <2>2, <2>3, <3>1, <3>2
  <2>4. CASE ~(active /\ authenticated /\ ~closed /\ ~queued /\ Len(queue) < QueueCapacity)
    <3>1. jobs' = queue BY <1>9, <2>4 DEF PublishView
    <3> HIDE DEF r, st
    <3>2. QED BY <1>8, <2>1, <2>2, <3>1
  <2>5. QED BY <2>3, <2>4
<1>10. Payload(st) BY <1>6 DEF Payload
<1>11. CASE ~done /\ PublishView(jobs)
  <2>1. /\ jobs' \in Seq(Message) /\ Range(jobs') \subseteq Range(jobs) \cup {st}
        /\ latest' \in 0 .. Revision /\ (latest # 0 => latest' # 0)
        /\ st \in Range(jobs') \ Range(jobs) => latest' # 0
        /\ UNCHANGED <<closed, drain>> /\ (jobs' = jobs \/ ~closed)
    BY <1>8, <1>9, <1>11
  <2>2. \A m \in Range(jobs') :
          m \in Range(jobs) \/ (Payload(m) /\ (m.kind = "state" => latest' # 0))
    BY <1>10, <2>1
  <2>3. QED BY <1>1, <2>1, <2>2, ChannelPushes
<1>12. CASE done /\ CanPush /\ PublishView(Append(jobs, result))
  <2>1. Append(jobs, result) \in Seq(Message) /\ Range(Append(jobs,
          result)) = Range(jobs) \cup {result}
    BY <1>5, <1>8, SeqGrows, RangeAppend
  <2>2. /\ jobs' \in Seq(Message) /\ Range(jobs') \subseteq Range(jobs) \cup {result, st}
        /\ latest' \in 0 .. Revision /\ (latest # 0 => latest' # 0)
        /\ st \in Range(jobs') \ (Range(jobs) \cup {result}) => latest' # 0
        /\ UNCHANGED <<closed, drain>> /\ ~closed
    BY <1>9, <1>12, <2>1 DEF CanPush
  <2>3. Payload(result) BY <1>5, <1>7, <1>12 DEF Payload
  <2>4. \A m \in Range(jobs') :
          m \in Range(jobs) \/ (Payload(m) /\ (m.kind = "state" => latest' # 0))
    BY <1>5, <1>6, <1>10, <2>2, <2>3
  <2>5. QED BY <1>1, <2>2, <2>4, ChannelPushes
<1>13. CASE BeginStop("ui") /\ latest' = latest
  <2>1. jobs' = <<>> /\ closed' = TRUE /\ drain' = FALSE BY <1>13 DEF BeginStop, StopChannel
  <2>2. QED BY <1>1, <1>13, <2>1, ChannelStops
<1>14. CASE UNCHANGED <<latest, jobs, closed, drain>>
  <2>1. jobs' \in Seq(Message) /\ latest' \in 0 .. Revision BY <1>8, <1>14
  <2>2. QED BY <1>1, <1>14, <2>1, ChannelPushes
<1>15. QED BY <1>11, <1>12, <1>13, <1>14 DEF HandleView

LEMMA SendFromUiKeeps ==
    ASSUME SessionInv, OpenWindow \/ BeginExit
    PROVE  ChannelInv'
<1> USE DEF SessionInv
<1>1. UNCHANGED <<states, owners, peer, toClient>> BY DEF OpenWindow, BeginExit, model, pipe
<1>2. ASSUME NEW job \in Message, job.kind \in {"activate", "shutdown"}, NEW next,
             SendFromUi(job, next)
      PROVE  ChannelInv'
  <2>1. UNCHANGED <<latest, sent, writer, message, joined>> BY <1>2 DEF SendFromUi
  <2>2. CASE CanPush /\ Push(job) /\ UNCHANGED <<closed, drain>>
    <3>1. Payload(job) BY <1>2 DEF Payload
    <3>2. QED BY <1>1, <1>2, <2>1, <2>2, <3>1, ChannelPushesOne
  <2>3. CASE BeginStop("ui")
    <3>1. jobs' = <<>> /\ closed' = TRUE /\ drain' = FALSE BY <2>3 DEF BeginStop, StopChannel
    <3>2. QED BY <1>1, <2>1, <3>1, ChannelStops
  <2>4. CASE UNCHANGED <<jobs, closed, drain>>
    <3>1. jobs' \in Seq(Message) /\ latest' \in 0 .. Revision
      BY <2>1, <2>4 DEF ChannelInv, ChannelType
    <3>2. QED BY <1>1, <2>1, <2>4, <3>1, ChannelPushes
  <2>5. QED BY <1>2, <2>2, <2>3, <2>4 DEF SendFromUi
<1>3. CASE UNCHANGED channel
  <2>1. Grows /\ ModelType' BY <1>1, KeepGrows DEF OpenWindow, BeginExit, model, ModelType, Revision
  <2>2. QED BY <1>1, <1>3, <2>1, ChannelKept
<1>4. /\ Msg("activate") \in Message /\ Msg("activate").kind = "activate"
      /\ Msg("shutdown") \in Message /\ Msg("shutdown").kind = "shutdown"
  BY MsgType DEF Kind
<1>5. SendFromUi(Msg("activate"), "loop") \/ SendFromUi(Msg("shutdown"), "wait")
      \/ UNCHANGED channel
  BY DEF OpenWindow, BeginExit
<1>6. QED BY <1>2, <1>3, <1>4, <1>5

\* The job that the writer takes: a state becomes a snapshot or a delta of
\* revisions there are.
LEMMA TakeJobKeeps ==
    ASSUME SessionInv, TakeJob
    PROVE  ChannelInv'
<1> USE DEF SessionInv
<1> DEFINE job == Head(jobs)
           delta == [Msg("delta") EXCEPT !.from = sent, !.revision = latest]
<1>1. /\ UNCHANGED <<states, owners, peer, closed, drain, latest, joined>>
      /\ jobs # <<>> /\ writer = "wait" /\ jobs' = Tail(jobs)
  BY DEF TakeJob, model, server
<1>2. jobs \in Seq(Message) BY DEF ChannelInv, ChannelType
<1>3. /\ job \in Range(jobs) /\ job \in Message /\ Range(jobs') \subseteq Range(jobs)
      /\ jobs' \in Seq(Message)
  BY <1>1, <1>2, RangeHeadTail
<1>4. latest \in 0 .. Revision /\ sent \in 0 .. Revision /\ Revision \in Nat
  BY CurrentType DEF ChannelInv, ChannelType
<1>5. job.kind = "state" => latest \in 1 .. Revision
  BY <1>3, <1>4 DEF ChannelInv, Payloads
<1>6. CASE UNCHANGED <<toClient, sent, writer, message>>
  <2>1. ChannelType' BY <1>1, <1>3, <1>6 DEF ChannelInv, ChannelType, Revision
  <2>2. Writing' BY <1>1, <1>6 DEF ChannelInv, Writing, Msg
  <2>3. InFlight' \subseteq InFlight BY <1>3, <1>6 DEF InFlight
  <2>4. ModelType' /\ Grows BY KeepGrows DEF TakeJob, model, ModelType, Revision
  <2>5. QED BY <1>1, <1>3, <2>1, <2>2, <2>3, <2>4, ChannelShrinks
<1>7. CASE \E m \in Message : Payload(m) /\ Write(m)
  <2>1. writer # "exited" /\ jobs # <<>> BY <1>1
  <2>2. PICK m \in Message : Payload(m) /\ Write(m) BY <1>7
  <2>3. UNCHANGED <<states, owners, peer>> /\ UNCHANGED <<closed, drain, joined, latest>> BY <1>1
  <2> HIDE DEF job
  <2>4. QED BY <1>3, <2>1, <2>2, <2>3, ChannelWrites
<1>8. CASE job.kind # "state"
  <2>1. Payload(job) BY <1>3 DEF ChannelInv, Payloads, InFlight
  <2>2. Write(job) \/ UNCHANGED <<toClient, sent, writer, message>> BY <1>8 DEF TakeJob
  <2>3. QED BY <1>3, <1>6, <1>7, <2>1, <2>2
<1>9. CASE job.kind = "state" /\ sent = 0
  <2>1. SnapshotOf(latest) \in Message /\ Payload(SnapshotOf(latest))
    BY <1>4, <1>5, <1>9, SnapshotType DEF Payload
  <2>2. Write(SnapshotOf(latest)) \/ UNCHANGED <<toClient, sent, writer, message>>
    BY <1>9 DEF TakeJob
  <2>3. QED BY <1>6, <1>7, <2>1, <2>2
<1>10. CASE job.kind = "state" /\ sent # 0
  <2>1. delta \in Message /\ delta.kind = "delta" /\ delta.from = sent /\ delta.revision = latest
    <3>1. sent \in Nat /\ latest \in Nat BY <1>4
    <3>2. QED BY <3>1 DEF Msg, Message, Kind
  <2>2. Payload(delta)
    <3>1. sent \in 1 .. Revision /\ latest \in 1 .. Revision BY <1>4, <1>5, <1>10
    <3> HIDE DEF delta
    <3>2. QED BY <2>1, <3>1 DEF Payload
  <2>3. Write(delta) \/ UNCHANGED <<toClient, sent, writer, message>> BY <1>10 DEF TakeJob
  <2> HIDE DEF delta
  <2>4. QED BY <1>6, <1>7, <2>1, <2>2, <2>3
<1>11. QED BY <1>8, <1>9, <1>10

LEMMA WriteMessageKeeps ==
    ASSUME SessionInv, WriteMessage
    PROVE  ChannelInv'
<1> USE DEF SessionInv
<1>1. /\ UNCHANGED <<states, owners, peer, jobs, closed, drain, latest, joined>>
      /\ writer # "exited" /\ Write(message)
  BY DEF WriteMessage, model, server
<1>2. message \in Message /\ jobs' \in Seq(Message) /\ Range(jobs') \subseteq Range(jobs)
  BY <1>1 DEF ChannelInv, ChannelType
<1>3. Payload(message) BY DEF ChannelInv, Payloads, InFlight
<1>4. PICK m \in Message : Payload(m) /\ Write(m) BY <1>1, <1>2, <1>3
<1>5. QED BY <1>1, <1>2, <1>4, ChannelWrites

\* The steps that end the writer, close the channel or take from the pipe.
LEMMA ClosingKeeps ==
    ASSUME SessionInv, Next, WriteFails \/ WriterExits \/ UiJoined \/ AcceptJoined \/ Drain
       \/ GuiReads
    PROVE  ChannelInv'
<1> USE DEF SessionInv
<1>1. ModelType' /\ Grows BY ModelStep
<1>2. UNCHANGED <<states, owners, peer, latest, sent>>
  BY DEF WriteFails, WriterExits, UiJoined, AcceptJoined, Drain, GuiReads, GuiOnly, AcceptStep,
     ChannelBut, model, server, channel
<1>3. /\ jobs' \in {jobs, <<>>} /\ message' \in {message, Msg("none")}
      /\ toClient' = toClient \/ (toClient # <<>> /\ toClient' = Tail(toClient))
  BY DEF WriteFails, WriterExits, UiJoined, AcceptJoined, Drain, GuiReads, GuiOnly,
     ChannelBut, channel, pipe
<1>4. closed' \in BOOLEAN /\ drain' \in BOOLEAN /\ joined' \in BOOLEAN
  <2>1. closed \in BOOLEAN /\ drain \in BOOLEAN /\ joined \in BOOLEAN
    BY DEF ChannelInv, ChannelType
  <2>2. /\ closed' = closed \/ closed' = TRUE
        /\ drain' = drain \/ drain' = TRUE \/ drain' = FALSE
        /\ joined' = joined \/ joined' = (joined \/ "ui" \in joining)
           \/ joined' = (joined \/ "accept" \in joining)
    BY DEF WriteFails, WriterExits, UiJoined, AcceptJoined, Drain, GuiReads, GuiOnly, Joins,
       channel
  <2>3. QED BY <2>1, <2>2, Zenon
<1>5. /\ jobs' \in Seq(Message) /\ message' \in Message
      /\ toClient' \in Seq(Message) /\ Range(toClient') \subseteq Range(toClient)
      /\ Range(jobs') \subseteq Range(jobs)
  <2>1. /\ jobs \in Seq(Message) /\ <<>> \in Seq(Message) /\ message \in Message
        /\ toClient \in Seq(Message) /\ Msg("none") \in Message
    BY MsgType DEF ChannelInv, ChannelType, Kind
  <2>2. QED BY <1>3, <2>1, RangeEmpty, RangeHeadTail
<1>6. ChannelType' BY <1>2, <1>4, <1>5 DEF ChannelInv, ChannelType, Revision
<1>7. Writing'
  <2> USE DEF ChannelInv, Writing, Msg
  <2>1. CASE WriteFails BY <2>1 DEF WriteFails
  <2>2. CASE WriterExits BY <2>2 DEF WriterExits
  <2>3. CASE UiJoined BY <2>3 DEF UiJoined, Joins
  <2>4. CASE AcceptJoined BY <2>4 DEF AcceptJoined, Joins, ChannelBut
  <2>5. CASE Drain BY <2>5 DEF Drain, ChannelBut
  <2>6. CASE GuiReads BY <2>6 DEF GuiReads, GuiOnly, channel
  <2>7. QED BY <2>1, <2>2, <2>3, <2>4, <2>5, <2>6
<1>8. InFlight' \subseteq InFlight \cup {Msg("none")} BY <1>3, <1>5 DEF InFlight
<1>9. QED BY <1>1, <1>2, <1>5, <1>6, <1>7, <1>8, ChannelShrinks

\* A client comes or goes; the pipe is empty.
LEMMA ConnectKeeps ==
    ASSUME SessionInv, Next,
           HandleClient \/ Release \/ GuiConnects \/ StrangerConnects \/ JoinsTwice
    PROVE  ChannelInv'
<1> USE DEF SessionInv
<1>1. ModelType' /\ Grows BY ModelStep
<1>2. states' = states /\ 0 \in 0 .. Revision /\ Revision \in Nat
  BY CurrentType DEF HandleClient, Release, GuiConnects, StrangerConnects, Connect, JoinsTwice,
     model
<1>3. writer = "exited"
  BY DEF Handover, Parked, HandleClient, Release, GuiConnects, StrangerConnects, Connect,
     JoinsTwice
<1>4. latest \in 0 .. Revision /\ sent \in 0 .. Revision BY DEF ChannelInv, ChannelType
<1>5. CASE Release \/ GuiConnects \/ StrangerConnects \/ JoinsTwice
  <2>1. /\ UNCHANGED <<jobs, message, closed, drain, joined, writer>> /\ toClient' = <<>>
        /\ latest' \in {0, latest} /\ sent' \in {0, sent}
    BY <1>5 DEF Release, GuiConnects, StrangerConnects, Connect, JoinsTwice, channel
  <2>2. QED BY <1>1, <1>2, <1>3, <1>4, <2>1, ChannelEmpty
<1>6. CASE HandleClient
  <2>1. UNCHANGED <<owners, peer, toClient>> BY <1>6 DEF HandleClient, model, pipe
  <2>2. CASE UNCHANGED channel BY <1>1, <2>1, <2>2, ChannelKept
  <2>3. CASE /\ jobs' = <<>> /\ closed' = FALSE /\ drain' = FALSE /\ latest' = 0 /\ sent' = 0
             /\ writer' = "wait" /\ message' = Msg("none") /\ joined' = FALSE
    <3>1. <<>> \in Seq(Message) /\ Msg("none") \in Message BY MsgType DEF Kind
    <3>2. ChannelType' BY <1>2, <2>1, <2>3, <3>1 DEF ChannelInv, ChannelType, Revision
    <3>3. Writing' BY <2>3 DEF Writing, Msg
    <3>4. Range(jobs') = {} BY <2>3, RangeEmpty
    <3>5. InFlight' \subseteq InFlight \cup {Msg("none")} BY <2>1, <2>3, <3>4 DEF InFlight
    <3>6. QED BY <1>1, <2>1, <3>2, <3>3, <3>4, <3>5, ChannelShrinks
  <2>4. QED BY <1>6, <2>2, <2>3 DEF HandleClient
<1>7. QED BY <1>5, <1>6

\* What the accept thread sends.
LEMMA AcceptSendKeeps ==
    ASSUME SessionInv, Greet \/ SendSnapshot \/ Reply \/ Leave
    PROVE  ChannelInv'
<1> USE DEF SessionInv
<1>1. UNCHANGED <<states, owners, peer, message, toClient, joined, latest, sent, writer>>
  BY DEF Greet, SendSnapshot, Reply, Leave, AcceptStep, ChannelBut, model, pipe
<1>2. hand \in [request : Nat, previous : Nat, revision : Nat, answer : Nat] BY DEF ServerType
<1>3. CASE UNCHANGED <<jobs, closed, drain>>
  <2>1. jobs' \in Seq(Message) /\ latest' \in 0 .. Revision
    BY <1>1, <1>3 DEF ChannelInv, ChannelType
  <2>2. QED BY <1>1, <1>3, <2>1, ChannelPushes
<1>4. CASE jobs' = <<>> /\ closed' = TRUE /\ drain' = FALSE
  BY <1>1, <1>4, ChannelStops
<1>5. CASE UNCHANGED <<closed, drain>>
           /\ \E job \in Message : Payload(job) /\ job.kind # "state" /\ CanPush /\ Push(job)
  BY <1>1, <1>5, ChannelPushesOne
<1>6. CASE Greet
  <2> DEFINE job == [Msg("hello") EXCEPT !.result = IF HelloAccepted THEN 1 ELSE 0]
  <2>1. job \in Message /\ job.kind = "hello" BY DEF Msg, Message, Kind
  <2>2. UNCHANGED <<closed, drain>> /\ (jobs' = jobs \/ (CanPush /\ Push(job)))
    BY <1>6 DEF Greet, PushOrLeave
  <2> HIDE DEF job
  <2>3. Payload(job) BY <2>1 DEF Payload
  <2>4. QED BY <1>3, <1>5, <2>1, <2>2, <2>3
<1>7. CASE SendSnapshot
  <2>1. hand.revision \in 1 .. Revision /\ hand.revision \in Nat
    BY <1>2, <1>7 DEF SendSnapshot, Held
  <2>2. /\ SnapshotOf(hand.revision) \in Message /\ SnapshotOf(hand.revision).kind = "snapshot"
        /\ SnapshotOf(hand.revision).revision = hand.revision
    BY <2>1, SnapshotType
  <2>3. Payload(SnapshotOf(hand.revision)) BY <2>1, <2>2 DEF Payload
  <2>4. /\ UNCHANGED <<closed, drain>>
        /\ jobs' = jobs \/ (CanPush /\ Push(SnapshotOf(hand.revision)))
    BY <1>7 DEF SendSnapshot, PushOrLeave
  <2>5. QED BY <1>3, <1>5, <2>2, <2>3, <2>4
<1>8. CASE Reply
  <2> DEFINE job == Answer(hand.request, hand.answer)
  <2>1. /\ job \in Message /\ job.kind = "answer" /\ job.request = hand.request
        /\ job.result = hand.answer
    BY <1>2, AnswerType
  <2>2. hand.answer # 0 => Owned(hand.answer, hand.request) BY <1>8 DEF Reply, Requests
  <2>3. \/ UNCHANGED <<jobs, closed, drain>>
        \/ (jobs' = <<>> /\ closed' = TRUE /\ drain' = FALSE)
        \/ (UNCHANGED <<closed, drain>> /\ CanPush /\ Push(job))
    BY <1>8 DEF Reply, BeginStop, StopChannel
  <2> HIDE DEF job
  <2>4. Payload(job) BY <2>1, <2>2 DEF Payload
  <2>5. QED BY <1>3, <1>4, <1>5, <2>1, <2>3, <2>4
<1>9. CASE Leave BY <1>4, <1>9 DEF Leave, StopChannel
<1>10. QED BY <1>6, <1>7, <1>8, <1>9

LEMMA ChannelStep ==
    ASSUME SessionInv, Next
    PROVE  ChannelInv'
<1> USE DEF SessionInv
<1>1. ModelType' /\ Grows BY ModelStep
<1>2. CASE HandleView BY <1>2, HandleViewKeeps
<1>3. CASE OpenWindow \/ BeginExit BY <1>3, SendFromUiKeeps
<1>4. CASE StopServer
  <2>1. UNCHANGED <<states, owners, peer, message, toClient, joined, latest, sent, writer>>
    BY <1>4 DEF StopServer, model, pipe
  <2>2. CASE BeginStop("ui")
    <3>1. jobs' = <<>> /\ closed' = TRUE /\ drain' = FALSE BY <2>2 DEF BeginStop, StopChannel
    <3>2. QED BY <2>1, <3>1, ChannelStops
  <2>3. CASE UNCHANGED <<jobs, closed, drain>>
    <3>1. jobs' \in Seq(Message) /\ latest' \in 0 .. Revision
      BY <2>1, <2>3 DEF ChannelInv, ChannelType
    <3>2. QED BY <2>1, <2>3, <3>1, ChannelPushes
  <2>4. QED BY <1>4, <2>2, <2>3 DEF StopServer
<1>5. CASE TakeJob BY <1>5, TakeJobKeeps
<1>6. CASE WriteMessage BY <1>6, WriteMessageKeeps
<1>7. CASE WriteFails \/ WriterExits \/ UiJoined \/ AcceptJoined \/ Drain \/ GuiReads
  BY <1>7, ClosingKeeps
<1>8. CASE HandleClient \/ Release \/ GuiConnects \/ StrangerConnects \/ JoinsTwice
  BY <1>8, ConnectKeeps
<1>9. CASE Greet \/ SendSnapshot \/ Reply \/ Leave BY <1>9, AcceptSendKeeps
<1>10. CASE UNCHANGED <<channel, toClient>> /\ peer' = peer
  BY <1>1, <1>10, ChannelKept
<1>11. CASE SendCommand \/ ReadFrame
  BY <1>10, <1>11 DEF SendCommand, ReadFrame, GuiOnly, AcceptStep, server
<1>12. CASE Route \/ Refused
  BY <1>10, <1>12 DEF Route, Refused, AcceptStep, pipe
<1>13. CASE UNCHANGED <<channel, pipe, pending, hand, peer>>
  BY <1>10, <1>13 DEF pipe
<1>14. QED
  BY <1>2, <1>3, <1>4, <1>5, <1>6, <1>7, <1>8, <1>9, <1>11, <1>12, <1>13,
     ChannelChanges, PipeChanges, ServerChanges

\* The writer of a connection ends once, and threads that wait for it go on
\* waiting.
LEMMA WriterChanges ==
    ASSUME ChannelInv, Next, ~HandleClient
    PROVE  /\ writer = "exited" => writer' = "exited"
           /\ joined => joined'
           /\ ~AcceptJoined /\ "accept" \in joining => "accept" \in joining'
<1>1. CASE HandleView
  BY <1>1 DEF HandleView, PublishView, BeginStop, StopChannel
<1>2. CASE UiJoined
  BY <1>2 DEF UiJoined, Joins
<1>3. CASE OpenWindow \/ BeginExit
  BY <1>3 DEF OpenWindow, BeginExit, SendFromUi, BeginStop, StopChannel, channel
<1>4. CASE StopServer
  BY <1>4 DEF StopServer, BeginStop, StopChannel
<1>5. CASE TakeJob \/ WriteMessage \/ WriteFails \/ WriterExits
  BY <1>5 DEF TakeJob, WriteMessage, WriteFails, WriterExits
<1>6. CASE Greet \/ SendSnapshot \/ Release
  BY <1>6 DEF Greet, SendSnapshot, Release, ChannelBut
<1>7. CASE Reply \/ Leave \/ Drain
  BY <1>7 DEF Reply, Leave, Drain, BeginStop, StopChannel, ChannelBut
<1>8. CASE AcceptJoined
  BY <1>8 DEF AcceptJoined, Joins, ChannelBut
<1>9. CASE UNCHANGED channel
  BY <1>9 DEF channel
<1>10. QED
  BY <1>1, <1>2, <1>3, <1>4, <1>5, <1>6, <1>7, <1>8, <1>9, ChannelChanges

LEMMA HandoverStep ==
    ASSUME SessionInv, Next
    PROVE  Handover'
<1> USE DEF SessionInv
<1>1. CASE HandleClient
  BY <1>1 DEF HandleClient, Handover, Parked, Joining, channel
<1>2. CASE AcceptJoined
  <2>1. writer = "exited" /\ writer' = writer
    BY <1>2 DEF AcceptJoined, Joins, Handover, Joining, ChannelInv, Writing, ChannelBut
  <2>2. acc' \notin Joining BY <1>2 DEF AcceptJoined, Again, Joining
  <2>3. QED BY <2>1, <2>2 DEF Handover
<1>3. CASE ~HandleClient /\ ~AcceptJoined
  <2>1. /\ writer = "exited" => writer' = "exited"
        /\ joined => joined'
        /\ "accept" \in joining => "accept" \in joining'
    BY <1>3, WriterChanges
  <2>2. CASE Leave \/ Reply \/ Drain
    <3>1. acc' \notin Parked
      BY <2>2 DEF Leave, Reply, Drain, Parked, Again
    <3>2. acc' \in Joining => joined' \/ "accept" \in joining'
      BY <2>2 DEF Leave, Reply, Drain, BeginStop, StopChannel, Again, Joining
    <3>3. QED BY <3>1, <3>2 DEF Handover
  <2>3. CASE (acc' \in Parked => acc \in Parked) /\ (acc' \in Joining => acc \in Joining)
    BY <2>1, <2>3 DEF Handover
  <2>4. CASE ReadFrame
    BY <2>3, <2>4, FrameRead DEF Parked, Joining
  <2>5. CASE \/ ListenEnds \/ ReadBroken \/ Greet \/ SendSnapshot \/ Route \/ SubmitRequest
          \/ Refused
             \/ Release
    BY <2>3, <2>5 DEF ListenEnds, ReadBroken, Greet, SendSnapshot, PushOrLeave, Route,
       SubmitRequest, Refused, Release, Parked, Joining, Again
  <2>6. CASE GuiConnects \/ StrangerConnects
    BY <2>3, <2>6 DEF GuiConnects, StrangerConnects, Connect, Parked, Joining
  <2>7. CASE JoinsTwice
    <3>1. acc' = "done" /\ writer' = "exited" BY <2>1, <2>7 DEF JoinsTwice
    <3>2. QED BY <3>1 DEF Handover, Joining
  <2>8. CASE acc' = acc \/ (acc = "read" /\ acc' = "leave")
    BY <2>3, <2>8 DEF Parked, Joining
  <2>9. QED
    BY <1>3, <2>2, <2>4, <2>5, <2>6, <2>7, <2>8, AcceptChanges DEF AcceptThread
<1>4. QED BY <1>1, <1>2, <1>3

LEMMA HeldStep ==
    ASSUME SessionInv, Next
    PROVE  Held'
<1> USE DEF SessionInv
<1> DEFINE Reading == {"greet", "initial", "snapshot"}
<1>1. ModelType' /\ Grows BY ModelStep
<1>2. \A r \in 1 .. Revision : r \in 1 .. Len(states')
  BY <1>1, CurrentType DEF Grows, ModelType, Revision
<1>3. CASE ReadFrame
  <2>1. /\ acc' \in {"greet", "snapshot"} => hand'.revision = Revision
        /\ acc' \in {"greet", "snapshot", "route", "reply"} /\ states' = states
    BY <1>3, FrameRead
  <2>2. Revision \in 1 .. Revision BY CurrentType
  <2>3. QED BY <2>1, <2>2 DEF Held, Revision
<1>4. CASE (acc' \in Reading => acc \in Reading) /\ (acc' \in Reading => hand' = hand)
  BY <1>2, <1>4 DEF Held, Revision
<1>5. CASE Greet
  BY <1>4, <1>5 DEF Greet
<1>6. CASE \/ ListenEnds \/ HandleClient \/ ReadBroken \/ SendSnapshot \/ Route \/ SubmitRequest
           \/ Refused \/ Reply \/ Leave \/ Drain \/ AcceptJoined \/ Release \/ GuiConnects
           \/ StrangerConnects \/ JoinsTwice
  <2>1. acc' \notin Reading
    <3>1. CASE \/ ListenEnds \/ HandleClient \/ ReadBroken \/ SendSnapshot \/ Route
               \/ SubmitRequest \/ Refused
      <4>1. CASE HandleClient
        BY <4>1 DEF HandleClient
      <4>2. CASE SendSnapshot
        BY <4>2 DEF SendSnapshot, PushOrLeave, Again
      <4>3. QED BY <3>1, <4>1, <4>2
        DEF ListenEnds, ReadBroken, Route, SubmitRequest, Refused, Again
    <3>2. CASE \/ Reply \/ Leave \/ Drain \/ AcceptJoined \/ Release \/ GuiConnects
               \/ StrangerConnects \/ JoinsTwice
      BY <3>2 DEF Reply, Leave, Drain, AcceptJoined, Release, GuiConnects, StrangerConnects,
         Connect, JoinsTwice, Again
    <3>3. QED BY <1>6, <3>1, <3>2
  <2>2. QED BY <1>4, <2>1
<1>7. CASE ~AcceptThread /\ (acc' = acc \/ (acc = "read" /\ acc' = "leave"))
  <2>1. CASE HandleView \/ UNCHANGED <<pending, hand, peer>>
    BY <1>4, <1>7, <2>1 DEF HandleView
  <2>2. QED BY <1>6, <1>7, <2>1, ServerChanges DEF AcceptThread
<1>8. QED BY <1>3, <1>5, <1>6, <1>7, AcceptChanges DEF AcceptThread

-----------------------------------------------------------------------------
(* Commands and their results *)

LEMMA CompletedStep ==
    ASSUME SessionInv, Next
    PROVE  Completed'
<1> USE DEF SessionInv
<1>0. ModelType' /\ Grows BY ModelStep
<1>1. Revision \in Nat \ {0} /\ Len(owners) \in Nat /\ task \in Nat
  BY CurrentType DEF ModelType
<1>2. \A r \in 1 .. Revision : states[r].sequence \in Nat
  <2>1. \A r \in 1 .. Revision : states[r] \in ViewState BY DEF ModelType, Revision
  <2>2. QED BY <2>1 DEF ViewState
<1>3. Current = states[Revision] BY DEF Current
<1>4. CASE Complete
  <2>1. /\ owners' = owners /\ task' = 0 /\ Len(states') = Revision + 1
        /\ ~states'[Revision + 1].pending /\ states'[Revision + 1].sequence = task
        /\ \A r \in 1 .. Revision : states'[r] = states[r]
    BY <1>4, CompleteStep DEF Grows
  <2>2. task # 0 /\ task <= Len(owners) BY <1>4 DEF Complete, ModelType
  <2>3. Current' = states'[Revision + 1] BY <2>1 DEF Current, Revision
  <2>4. \A r \in 1 .. Revision : ~states[r].pending => states[r].sequence <= task
    BY <2>2 DEF Completed
  <2>5. \A r \in 1 .. Revision + 1 :
          /\ ~states'[r].pending => states'[r].sequence <= task
          /\ states'[r].sequence <= Len(owners)
    <3> TAKE r \in 1 .. Revision + 1
    <3>1. CASE r = Revision + 1 BY <1>1, <2>1, <2>2, <3>1
    <3>2. CASE r # Revision + 1
      <4>1. r \in 1 .. Revision BY <1>1, <3>2
      <4>2. states'[r] = states[r] /\ states[r].sequence <= Len(owners)
        BY <2>1, <4>1 DEF Completed
      <4>3. QED BY <2>4, <4>1, <4>2
    <3>3. QED BY <3>1, <3>2
  <2>6. QED BY <2>1, <2>3, <2>5 DEF Completed, Revision
<1>5. ASSUME NEW owner \in Owner, Submit(owner), late' = late
      PROVE  Completed'
  <2>1. /\ Len(states') = Revision + 1 /\ Len(owners') = Len(owners) + 1
        /\ states'[Revision + 1].pending
        /\ \A r \in 1 .. Revision : states'[r] = states[r]
        /\ Current.pending =>
             task' = task /\ states'[Revision + 1].sequence = Len(owners) + 1
        /\ ~Current.pending =>
             task' = Len(owners) + 1 /\ states'[Revision + 1].sequence = Current.sequence
    BY <1>5, SubmitStep DEF Grows
  <2>2. Current' = states'[Revision + 1] BY <2>1 DEF Current, Revision
  <2>3. \A r \in 1 .. Revision : states[r].sequence <= Len(owners) BY DEF Completed
  <2>4. \A r \in 1 .. Revision + 1 : states'[r].sequence <= Len(owners) + 1
    <3> TAKE r \in 1 .. Revision + 1
    <3>1. CASE r = Revision + 1
      <4>1. states[Revision].sequence <= Len(owners) /\ states[Revision].sequence \in Nat
        BY <1>1, <1>2, <2>3
      <4>2. QED BY <1>1, <1>3, <2>1, <3>1, <4>1
    <3>2. CASE r # Revision + 1
      <4>1. r \in 1 .. Revision BY <1>1, <3>2
      <4>2. states'[r] = states[r] /\ states[r].sequence <= Len(owners)
            /\ states[r].sequence \in Nat
        BY <1>2, <2>1, <2>3, <4>1
      <4>3. QED BY <1>1, <4>2
    <3>3. QED BY <3>1, <3>2
  <2>5. ASSUME task' # 0, NEW r \in 1 .. Revision + 1, ~states'[r].pending
        PROVE  states'[r].sequence <= task'
    <3>1. r # Revision + 1 BY <2>1, <2>5
    <3>2. r \in 1 .. Revision BY <1>1, <3>1
    <3>3. states'[r] = states[r] /\ states[r].sequence <= Len(owners) /\ states[r].sequence \in Nat
      BY <1>2, <2>1, <2>3, <3>2
    <3>4. CASE Current.pending
      <4>1. task' = task BY <2>1, <3>4
      <4>2. states[r].sequence <= task BY <2>5, <3>2, <3>3, <4>1 DEF Completed
      <4>3. QED BY <3>3, <4>1, <4>2
    <3>5. CASE ~Current.pending
      <4>1. task' = Len(owners) + 1 BY <2>1, <3>5
      <4>2. QED BY <1>1, <3>3, <4>1
    <3>6. QED BY <3>4, <3>5
  <2>6. QED BY <2>1, <2>2, <2>4, <2>5 DEF Completed, Revision
<1>6. CASE Tick
  <2>1. /\ owners' = owners /\ task' = task
        /\ \A r \in 1 .. Len(states') : states'[r] = states[r] \/ states'[r] = Current
        /\ Len(states') \in {Revision, Revision + 1}
        /\ states'[Len(states')] = Current
    BY <1>6, TickStep
  <2>2. Current' = Current BY <2>1 DEF Current, Revision
  <2>3. \A r \in 1 .. Len(states') : \E x \in 1 .. Revision : states'[r] = states[x]
    <3> TAKE r \in 1 .. Len(states')
    <3>1. CASE r \in 1 .. Revision BY <1>0, <3>1 DEF Grows
    <3>2. CASE r \notin 1 .. Revision
      <4>1. r = Len(states') BY <1>1, <2>1, <3>2
      <4>2. Revision \in 1 .. Revision BY <1>1
      <4>3. QED BY <1>3, <2>1, <4>1, <4>2
    <3>3. QED BY <3>1, <3>2
  <2>4. QED BY <2>1, <2>2, <2>3 DEF Completed, Revision
<1>7. CASE MenuCommand
  <2>1. Submit(Tray) /\ late' = late /\ Tray \in Owner BY <1>7 DEF MenuCommand, Tray, Owner
  <2>2. QED BY <1>5, <2>1
<1>8. CASE SubmitRequest
  <2>1. Submit([session |-> peer, request |-> hand.request]) /\ late' = late
    BY <1>8 DEF SubmitRequest
  <2>2. [session |-> peer, request |-> hand.request] \in Owner BY DEF ServerType, Owner
  <2>3. QED BY <1>5, <2>1, <2>2
<1>9. CASE UNCHANGED <<states, owners>> /\ task' \in {0, task}
  BY <1>9 DEF Completed, Current, Revision
<1>10. QED
  BY <1>4, <1>6, <1>7, <1>8, <1>9, ModelChanges DEF Notify, HandleView, JoinsTwice, model

\* Owned and Since after a step that keeps the client.
OwnedNext(i, q) ==
    i <= Len(owners') /\ owners'[i] \in {Tray, [session |-> peer, request |-> q]}
SinceNext(prev, q) ==
    /\ \A r \in 1 .. Len(states') :
          (~states'[r].pending \/ r = Len(states')) /\ states'[r].sequence > prev =>
              OwnedNext(states'[r].sequence, q)
    /\ task' > prev => OwnedNext(task', q)

LEMMA OwnedKept ==
    ASSUME ModelType, Grows, NEW i \in Nat \ {0}, NEW q, Owned(i, q)
    PROVE  OwnedNext(i, q)
<1>1. Len(owners) \in Nat BY DEF ModelType
<1>2. i \in 1 .. Len(owners) BY <1>1 DEF Owned
<1>3. owners'[i] = owners[i] /\ Len(owners) <= Len(owners') BY <1>2 DEF Grows
<1>4. i <= Len(owners') BY <1>1, <1>2, <1>3 DEF Owned, Grows
<1>5. QED BY <1>3, <1>4 DEF Owned, OwnedNext

\* Results after prev stay those of request q, as long as nobody but the tray
\* and that request submits.
LEMMA SinceStep ==
    ASSUME SessionInv, Next, NEW prev \in Nat, NEW q, Since(prev, q),
           SubmitRequest => q = hand.request
    PROVE  SinceNext(prev, q)
<1> USE DEF SessionInv
<1>1. ModelType' /\ Grows BY ModelStep
<1>2. Revision \in Nat \ {0} /\ Len(owners) \in Nat /\ task \in Nat /\ Len(states') \in Nat \ {0}
  BY CurrentType, <1>1 DEF ModelType, Revision
<1>3. \A r \in 1 .. Revision : states[r].sequence \in Nat
  <2>1. \A r \in 1 .. Revision : states[r] \in ViewState BY DEF ModelType, Revision
  <2>2. QED BY <2>1 DEF ViewState
<1>4. \A i \in Nat : i > prev /\ Owned(i, q) => OwnedNext(i, q)
  <2>1. \A i \in Nat : i > prev => i \in Nat \ {0} OBVIOUS
  <2>2. QED BY <1>1, <2>1, OwnedKept
<1>5. ASSUME NEW r \in 1 .. Revision, ~states[r].pending \/ r = Revision,
             states[r].sequence > prev
      PROVE  OwnedNext(states[r].sequence, q)
  BY <1>3, <1>4, <1>5 DEF Since
<1>6. task > prev => OwnedNext(task, q) BY <1>2, <1>4 DEF Since
<1>7. Current = states[Revision] /\ Revision \in 1 .. Revision BY <1>2 DEF Current
<1>8. CASE Complete
  <2>1. /\ task' = 0 /\ Len(states') = Revision + 1
        /\ states'[Revision + 1].sequence = task
        /\ \A r \in 1 .. Revision : states'[r] = states[r]
    BY <1>8, CompleteStep DEF Grows
  <2>2. ASSUME NEW r \in 1 .. Revision + 1, ~states'[r].pending \/ r = Revision + 1,
               states'[r].sequence > prev
        PROVE  OwnedNext(states'[r].sequence, q)
    <3>1. CASE r = Revision + 1 BY <1>6, <2>1, <2>2, <3>1
    <3>2. CASE r # Revision + 1
      <4>1. r \in 1 .. Revision /\ states'[r] = states[r] BY <1>2, <2>1, <3>2
      <4>2. QED BY <1>5, <2>2, <3>2, <4>1
    <3>3. QED BY <3>1, <3>2
  <2>3. ~(0 > prev) OBVIOUS
  <2>4. QED BY <2>1, <2>2, <2>3 DEF SinceNext
<1>9. ASSUME NEW owner \in Owner, Submit(owner), late' = late,
             owner \in {Tray, [session |-> peer, request |-> q]}
      PROVE  SinceNext(prev, q)
  <2>1. /\ Len(states') = Revision + 1 /\ Len(owners') = Len(owners) + 1
        /\ owners'[Len(owners) + 1] = owner
        /\ states'[Revision + 1].pending
        /\ \A r \in 1 .. Revision : states'[r] = states[r]
        /\ Current.pending =>
             task' = task /\ states'[Revision + 1].sequence = Len(owners) + 1
        /\ ~Current.pending =>
             task' = Len(owners) + 1 /\ states'[Revision + 1].sequence = Current.sequence
    BY <1>9, SubmitStep DEF Grows
  <2>2. OwnedNext(Len(owners) + 1, q)
    <3>1. Len(owners) + 1 <= Len(owners') BY <1>2, <2>1
    <3>2. QED BY <1>9, <2>1, <3>1 DEF OwnedNext
  <2>3. ASSUME NEW r \in 1 .. Revision + 1, ~states'[r].pending \/ r = Revision + 1,
               states'[r].sequence > prev
        PROVE  OwnedNext(states'[r].sequence, q)
    <3>1. CASE r = Revision + 1
      <4>1. CASE Current.pending BY <2>1, <2>2, <3>1, <4>1
      <4>2. CASE ~Current.pending
        <5>1. states'[r].sequence = states[Revision].sequence BY <1>7, <2>1, <3>1, <4>2
        <5>2. QED BY <1>5, <1>7, <2>3, <5>1
      <4>3. QED BY <4>1, <4>2
    <3>2. CASE r # Revision + 1
      <4>1. r \in 1 .. Revision /\ states'[r] = states[r] BY <1>2, <2>1, <3>2
      <4>2. QED BY <1>5, <2>3, <3>2, <4>1
    <3>3. QED BY <3>1, <3>2
  <2>4. task' > prev => OwnedNext(task', q) BY <1>6, <2>1, <2>2
  <2>5. QED BY <2>1, <2>3, <2>4 DEF SinceNext
<1>10. CASE MenuCommand
  <2>1. Submit(Tray) /\ late' = late /\ Tray \in Owner BY <1>10 DEF MenuCommand, Tray, Owner
  <2>2. QED BY <1>9, <2>1
<1>11. CASE SubmitRequest
  <2>1. Submit([session |-> peer, request |-> hand.request]) /\ late' = late
    BY <1>11 DEF SubmitRequest
  <2>2. [session |-> peer, request |-> hand.request] \in Owner BY DEF ServerType, Owner
  <2>3. QED BY <1>9, <1>11, <2>1, <2>2
<1>12. CASE Tick
  <2>1. /\ task' = task /\ states'[Len(states')] = Current
        /\ Len(states') \in {Revision, Revision + 1}
        /\ \A r \in 1 .. Revision : states'[r] = states[r]
    BY <1>12, TickStep DEF Grows
  <2>2. ASSUME NEW r \in 1 .. Len(states'), ~states'[r].pending \/ r = Len(states'),
               states'[r].sequence > prev
        PROVE  OwnedNext(states'[r].sequence, q)
    <3>1. CASE r = Len(states')
      <4>1. states'[r] = states[Revision] BY <1>7, <2>1, <3>1
      <4>2. QED BY <1>5, <1>7, <2>2, <4>1
    <3>2. CASE r # Len(states')
      <4>1. r \in 1 .. Revision /\ states'[r] = states[r] BY <1>2, <2>1, <3>2
      <4>2. QED BY <1>5, <2>2, <3>2, <4>1
    <3>3. QED BY <3>1, <3>2
  <2>3. QED BY <1>6, <2>1, <2>2 DEF SinceNext
<1>13. CASE UNCHANGED states /\ task' \in {0, task}
  <2>1. \A r \in 1 .. Revision :
          (~states[r].pending \/ r = Revision) /\ states[r].sequence > prev =>
              OwnedNext(states[r].sequence, q)
    BY <1>5
  <2>2. task' > prev => OwnedNext(task', q) BY <1>6, <1>13
  <2>3. QED BY <1>13, <2>1, <2>2 DEF SinceNext, Revision
<1>14. QED
  BY <1>8, <1>10, <1>11, <1>12, <1>13, ModelChanges DEF Notify, HandleView, JoinsTwice, model

\* What has to hold of the next step's request.
LEMMA RequestsNext ==
    ASSUME peer' = peer,
           acc' \in {"route", "submit", "refused"} => SinceNext(hand'.previous, hand'.request),
           pending'.request # 0 /\ ui' # "crashed" =>
               SinceNext(pending'.previous, pending'.request),
           acc' \in {"submit", "refused"} => pending'.request \in {0, hand'.request},
           acc' \in {"route", "reply"} /\ hand'.answer # 0 =>
               OwnedNext(hand'.answer, hand'.request),
           acc' \in Parked /\ ui' # "crashed" => pending'.request = 0
    PROVE  Requests'
<1>1. \A i, q : OwnedNext(i, q) <=>
        i <= Len(owners') /\ owners'[i] \in {Tray, [session |-> peer', request |-> q]}
  BY DEF OwnedNext
<1>2. acc' \in {"route", "submit", "refused"} => Since(hand.previous, hand.request)'
  BY <1>1 DEF SinceNext, Since, Owned, Revision, Tray
<1>3. pending'.request # 0 /\ ui' # "crashed" => Since(pending.previous, pending.request)'
  BY <1>1 DEF SinceNext, Since, Owned, Revision, Tray
<1>4. acc' \in {"route", "reply"} /\ hand'.answer # 0 => Owned(hand.answer, hand.request)'
  BY <1>1 DEF Owned, Tray
<1>5. QED BY <1>2, <1>3, <1>4 DEF Requests, Parked

\* The steps in which the accept thread does not work on a request.
LEMMA RequestsKept ==
    ASSUME SessionInv, Next, ~SubmitRequest, peer' = peer, pending' \in {pending, NoPending},
           \/ acc' = acc /\ hand' = hand
           \/ /\ acc' \notin {"route", "submit", "refused", "reply"}
              /\ acc' \in Parked => acc \in Parked \/ pending' = NoPending
    PROVE  Requests'
<1> USE DEF SessionInv
<1>1. /\ hand.previous \in Nat /\ pending.previous \in Nat /\ hand.answer \in Nat
  BY DEF ServerType
<1>2. ui' # "crashed" => ui # "crashed" BY CrashStays
<1>3. NoPending.request = 0 BY NoHandType
<1>4. Grows BY ModelStep
<1>5. acc' \in {"route", "submit", "refused"} => SinceNext(hand'.previous, hand'.request)
  BY <1>1, SinceStep DEF Requests
<1>6. pending'.request # 0 /\ ui' # "crashed" => SinceNext(pending'.previous, pending'.request)
  BY <1>1, <1>2, <1>3, SinceStep DEF Requests
<1>7. acc' \in {"submit", "refused"} => pending'.request \in {0, hand'.request}
  BY <1>3 DEF Requests
<1>8. acc' \in {"route", "reply"} /\ hand'.answer # 0 => OwnedNext(hand'.answer, hand'.request)
  BY <1>1, <1>4, OwnedKept DEF Requests
<1>9. acc' \in Parked /\ ui' # "crashed" => pending'.request = 0
  BY <1>2, <1>3 DEF Requests
<1>10. QED BY <1>5, <1>6, <1>7, <1>8, <1>9, RequestsNext

\* The steps of a request: read, routed, submitted and refused.
LEMMA RequestMoves ==
    ASSUME SessionInv, Next, ReadFrame \/ Route \/ SubmitRequest \/ Refused
    PROVE  Requests'
<1> USE DEF SessionInv
<1>0. peer' = peer /\ ui' = ui
  BY DEF ReadFrame, Route, SubmitRequest, Refused, AcceptStep, tray
<1>1. /\ hand.previous \in Nat /\ pending.previous \in Nat /\ hand.answer \in Nat
      /\ pending.request \in Nat
  BY DEF ServerType
<1>2. NoPending.request = 0 BY NoHandType
<1>3. Grows BY ModelStep
<1>4. CASE ReadFrame
  <2>1. /\ hand'.answer = 0 /\ acc' \in {"greet", "snapshot", "route", "reply"}
        /\ acc' = "route" => hand'.previous = Current.sequence /\ ~Current.pending
        /\ UNCHANGED <<states, owners, task, pending>>
    BY <1>4, FrameRead
  <2>2. ~SubmitRequest BY <1>4 DEF ReadFrame, SubmitRequest
  <2>3. acc' = "route" => SinceNext(hand'.previous, hand'.request)
    <3> SUFFICES ASSUME acc' = "route" PROVE SinceNext(hand'.previous, hand'.request)
      OBVIOUS
    <3>1. Current.sequence \in Nat BY CurrentType DEF ViewState
    <3>2. \A r \in 1 .. Revision : states[r].sequence \in Nat
      <4>1. \A r \in 1 .. Revision : states[r] \in ViewState BY DEF ModelType, Revision
      <4>2. QED BY <4>1 DEF ViewState
    <3>3. \A r \in 1 .. Revision :
            ~states[r].pending \/ r = Revision => ~(states[r].sequence > Current.sequence)
      BY <2>1, <3>1, <3>2 DEF Completed, Current
    <3>4. task = 0 /\ ~(0 > Current.sequence) BY <2>1, <3>1 DEF Completed
    <3>5. QED BY <2>1, <3>3, <3>4 DEF SinceNext, Revision
  <2>4. pending'.request # 0 /\ ui' # "crashed" =>
          SinceNext(pending'.previous, pending'.request)
    BY <1>0, <1>1, <2>1, <2>2, SinceStep DEF Requests
  <2>5. QED BY <1>0, <2>1, <2>3, <2>4, RequestsNext DEF Parked
<1>5. CASE Route
  <2>1. ~SubmitRequest BY <1>5 DEF Route, SubmitRequest
  <2>2. hand' = hand /\ acc = "route" BY <1>5 DEF Route
  <2>3. SinceNext(hand.previous, hand.request) BY <1>1, <2>1, <2>2, SinceStep DEF Requests
  <2>4. hand.answer # 0 => OwnedNext(hand.answer, hand.request)
    BY <1>1, <1>3, <2>2, OwnedKept DEF Requests
  <2>5. CASE acc' = "reply" /\ pending' = pending
    <3>1. pending.request # 0 /\ ui' # "crashed" => SinceNext(pending.previous, pending.request)
      BY <1>0, <1>1, <2>1, SinceStep DEF Requests
    <3>2. QED BY <1>0, <2>2, <2>4, <2>5, <3>1, RequestsNext DEF Parked
  <2>6. CASE acc' = "submit" /\ pending' = [request |-> hand.request, previous |-> hand.previous]
    <3>1. pending'.request = hand.request /\ pending'.previous = hand.previous BY <2>6
    <3>2. QED BY <1>0, <2>2, <2>3, <2>6, <3>1, RequestsNext DEF Parked
  <2>7. QED BY <1>5, <2>5, <2>6 DEF Route
<1>6. CASE SubmitRequest
  <2>1. UNCHANGED <<pending, hand>> /\ acc = "submit" /\ acc' \in {"refused", "leave", "read"}
    BY <1>6 DEF SubmitRequest, Again
  <2>2. SinceNext(hand.previous, hand.request) BY <1>1, <2>1, SinceStep DEF Requests
  <2>3. pending.request # 0 /\ ui' # "crashed" => SinceNext(pending.previous, pending.request)
    BY <1>0, <1>1, <2>1, SinceStep DEF Requests
  <2>4. pending.request \in {0, hand.request} BY <2>1 DEF Requests
  <2>5. QED BY <1>0, <2>1, <2>2, <2>3, <2>4, RequestsNext DEF Parked
<1>7. CASE Refused
  <2>1. /\ acc = "refused" /\ acc' = "reply" /\ pending' = NoPending
        /\ hand' = [hand EXCEPT !.answer =
                      IF Current.sequence > hand.previous THEN Current.sequence ELSE 0]
    BY <1>7 DEF Refused
  <2>2. /\ hand'.request = hand.request
        /\ hand'.answer = IF Current.sequence > hand.previous THEN Current.sequence ELSE 0
    BY <2>1 DEF ServerType
  <2>3. Current.sequence \in Nat /\ Revision \in 1 .. Revision BY CurrentType DEF ViewState
  <2>4. Current.sequence > hand.previous => Owned(Current.sequence, hand.request)
    BY <2>1, <2>3 DEF Requests, Since, Current
  <2>5. hand'.answer # 0 => OwnedNext(hand'.answer, hand'.request)
    BY <1>3, <2>2, <2>3, <2>4, OwnedKept
  <2>6. QED BY <1>0, <1>2, <2>1, <2>5, RequestsNext DEF Parked
<1>8. QED BY <1>4, <1>5, <1>6, <1>7

LEMMA RequestsStep ==
    ASSUME SessionInv, Next
    PROVE  Requests'
<1> USE DEF SessionInv
<1>1. CASE ReadFrame \/ Route \/ SubmitRequest \/ Refused BY <1>1, RequestMoves
<1>2. CASE GuiConnects \/ StrangerConnects \/ Release \/ JoinsTwice
  <2>1. /\ acc' \in Parked /\ pending' = pending
        /\ (acc \in Parked /\ ui' = ui) \/ ui' = "crashed"
    BY <1>2 DEF GuiConnects, StrangerConnects, Connect, Release, JoinsTwice, Parked, tray
  <2>2. ui' # "crashed" => pending'.request = 0 BY <2>1 DEF Requests
  <2>3. QED BY <2>1, <2>2 DEF Requests, Parked
<1>3. CASE AcceptJoined
  <2>1. /\ acc' \in {"leave", "read", "release"} /\ peer' = peer /\ hand' = hand
        /\ acc' = "release" => pending' = NoPending
        /\ pending' \in {pending, NoPending}
    BY <1>3 DEF AcceptJoined, AcceptStep, Again
  <2>2. ~SubmitRequest BY <1>3 DEF AcceptJoined, SubmitRequest
  <2>3. QED BY <2>1, <2>2, RequestsKept DEF Parked
<1>4. CASE Greet \/ SendSnapshot \/ Reply
  <2>1. /\ acc' \notin Parked /\ acc' \notin {"route", "submit", "refused", "reply"}
        /\ peer' = peer /\ pending' \in {pending, NoPending}
    BY <1>4 DEF Greet, SendSnapshot, Reply, PushOrLeave, AcceptStep, Again, Parked
  <2>2. ~SubmitRequest BY <1>4 DEF Greet, SendSnapshot, Reply, SubmitRequest
  <2>3. QED BY <2>1, <2>2, RequestsKept
<1>5. CASE ListenEnds \/ HandleClient \/ ReadBroken \/ Leave \/ Drain
  <2>1. /\ acc' \notin {"route", "submit", "refused", "reply"}
        /\ acc' \in Parked => acc \in Parked
        /\ peer' = peer /\ pending' = pending
    BY <1>5 DEF ListenEnds, HandleClient, ReadBroken, Leave, Drain, AcceptStep, Parked
  <2>2. ~SubmitRequest BY <1>5 DEF ListenEnds, HandleClient, ReadBroken, Leave, Drain, SubmitRequest
  <2>3. QED BY <2>1, <2>2, RequestsKept
<1>6. CASE /\ ~AcceptThread /\ (acc' = acc \/ (acc = "read" /\ acc' = "leave"))
           /\ ~GuiConnects /\ ~StrangerConnects /\ ~JoinsTwice
  <2>1. ~SubmitRequest BY <1>6 DEF AcceptThread
  <2>2. CASE HandleView
    <3>1. peer' = peer /\ hand' = hand /\ pending' \in {pending, NoPending}
      BY <2>2 DEF HandleView
    <3>2. QED BY <1>6, <2>1, <3>1, RequestsKept DEF Parked
  <2>3. CASE UNCHANGED <<pending, hand, peer>>
    BY <1>6, <2>1, <2>3, RequestsKept DEF Parked
  <2>4. QED BY <1>6, <2>2, <2>3, ServerChanges DEF AcceptThread
<1>7. QED
  BY <1>1, <1>2, <1>3, <1>4, <1>5, <1>6, AcceptChanges DEF AcceptThread

-----------------------------------------------------------------------------
(* Theorems *)

LEMMA SessionInit == Init => SessionInv
<1> SUFFICES ASSUME Init PROVE SessionInv
  OBVIOUS
<1>1. states = <<[pending |-> FALSE, sequence |-> 0]>> /\ owners = <<>> /\ posted = <<>>
      /\ late = 0 /\ task = 0
  BY DEF Init
<1>2. /\ states \in Seq(ViewState) /\ Len(states) = 1 /\ ~states[1].pending
      /\ states[1].sequence = 0 /\ states[1] \in ViewState
  BY <1>1 DEF ViewState
<1>3. Revision = 1 /\ Current = states[1] BY <1>2 DEF Revision, Current
<1>4. ModelType BY <1>1, <1>2, <1>3 DEF ModelType
<1>5. jobs = <<>> /\ message = Msg("none") /\ toClient = <<>> /\ toServer = <<>> BY DEF Init
<1>6. pending = NoPending /\ hand = NoHand /\ peer \in {0, 1} /\ acc \in {"read", "listen"}
  BY DEF Init
<1>7. ServerType BY <1>6, NoHandType DEF ServerType
<1>8. Fields(1) \in View /\ Fields(1).revision = 1 BY <1>3, <1>4, FieldsType
<1>9. NoGui \in Process /\ NoGui.view.revision = 0 BY DEF NoGui, Process, View, GuiState
<1>10. gui \in Process /\ (gui.view.revision = 0 \/ gui.view = Fields(1))
  <2>1. CASE budget.open
    <3>1. gui = [NoGui EXCEPT !.session = 1, !.state = "ready", !.view = Fields(1),
                              !.required = FALSE]
      BY <2>1 DEF Init
    <3>2. QED BY <1>8, <1>9, <3>1 DEF Process, GuiState
  <2>2. CASE ~budget.open BY <1>9, <2>2 DEF Init
  <2>3. QED BY <2>1, <2>2
<1>11. GuiType BY <1>5, <1>10 DEF GuiType
<1>12. Shown BY <1>3, <1>8, <1>10 DEF Shown
<1>13. Completed BY <1>1, <1>2, <1>3 DEF Completed
<1>14. Held BY <1>6 DEF Held
<1>15. Requests BY <1>6, NoHandType DEF Requests
<1>16. budget.open \in BOOLEAN BY GuiAssumption DEF Init
<1>17. ChannelType
  <2>1. Msg("none") \in Message BY MsgType DEF Kind
  <2>2. latest = 0 /\ sent \in {0, 1} /\ drain = FALSE BY DEF Init
  <2>3. closed \in BOOLEAN /\ joined \in BOOLEAN BY <1>16, Zenon DEF Init
  <2>4. jobs \in Seq(Message) /\ toClient \in Seq(Message) /\ message \in Message
    BY <1>5, <2>1
  <2>5. latest \in 0 .. Revision /\ sent \in 0 .. Revision BY <1>3, <2>2
  <2>6. drain \in BOOLEAN BY <2>2
  <2>7. QED BY <2>3, <2>4, <2>5, <2>6, Zenon DEF ChannelType
<1>18. Writing /\ Handover
  BY <1>16 DEF Init, Writing, Handover, Parked, Joining
<1>19. Payloads
  <2>1. InFlight = {Msg("none")} /\ Range(jobs) = {} BY <1>5, RangeEmpty DEF InFlight
  <2>2. Payload(Msg("none")) BY DEF Payload, Msg
  <2>3. QED BY <2>1, <2>2 DEF Payloads
<1>20. QED
  BY <1>4, <1>7, <1>11, <1>12, <1>13, <1>14, <1>15, <1>17, <1>18, <1>19
  DEF SessionInv, ChannelInv

LEMMA SessionStep == SessionInv /\ [Next]_guiVars => SessionInv'
<1> SUFFICES ASSUME SessionInv, [Next]_guiVars PROVE SessionInv'
  OBVIOUS
<1>1. CASE Next
  <2>1. ModelType' BY <1>1, ModelStep DEF SessionInv
  <2>2. QED
    BY <1>1, <2>1, ServerStep, GuiTypeStep, ChannelStep, HandoverStep, HeldStep, CompletedStep,
       RequestsStep, ShownStep
    DEF SessionInv
<1>2. CASE UNCHANGED guiVars
  <2>1. /\ UNCHANGED <<states, owners, late, task, posted, ui, pending, acc, hand, peer>>
        /\ UNCHANGED <<channel, toClient, toServer, gui>>
    BY <1>2 DEF guiVars, model, tray, server, pipe
  <2>2. ModelType' /\ ServerType' /\ GuiType' BY <2>1 DEF SessionInv, ModelType, ServerType,
          GuiType, Revision
  <2>3. ChannelInv' BY <2>1, <2>2, KeepGrows, ChannelKept DEF SessionInv
  <2>4. Handover' /\ Held' BY <2>1 DEF SessionInv, Handover, Held, Revision, channel
  <2>5. Completed' /\ Shown' BY <2>1 DEF SessionInv, Completed, Shown, Current, Revision, Fields
  <2>6. Requests' BY <2>1 DEF SessionInv, Requests, Since, Owned, Revision, Tray
  <2>7. QED BY <2>2, <2>3, <2>4, <2>5, <2>6 DEF SessionInv
<1>3. QED BY <1>1, <1>2

\* What is true of the session whatever its threads, the window and other
\* clients do.
THEOREM SessionInvariant == Spec => []SessionInv
<1>1. Spec => Init /\ [][Next]_guiVars BY DEF Spec
<1>2. QED BY <1>1, SessionInit, SessionStep, PTL

\* What the window shows as a revision is what the view model held at that
\* revision (ClientStateTracker, GuiOutboundChannel::prepare_job).
THEOREM StateIsMatched == Spec => []StateMatches
<1>1. SessionInv => StateMatches BY DEF SessionInv, Shown, StateMatches
<1>2. QED BY <1>1, SessionInvariant, PTL

\* An answer on its way tells of the command it was asked for, or of the
\* menu's (GuiCommandRouter::observe, submit and disconnect).
THEOREM AnswersAreFresh == Spec => []AnswersFresh
<1>1. SessionInv => AnswersFresh
  BY DEF SessionInv, ChannelInv, Payloads, Payload, Owned, AnswersFresh
<1>2. QED BY <1>1, SessionInvariant, PTL
=============================================================================
