-------------------------- MODULE QtClientProofs ---------------------------
(***************************************************************************)
(* Proofs about the editing of a configuration in the Qt client, over the  *)
(* main window of the tray and beside the command line: what was typed     *)
(* stays in its editor, a field editor without local edits shows the draft *)
(* of the tray, changes in the draft are given up only by a command that   *)
(* says so, and the window says "saved, not yet running" when it must.     *)
(*                                                                         *)
(* The inductive invariant relates what the client has seen to what the    *)
(* executor has still to publish.  What a configuration holds and what the *)
(* operations of ConfigurationEditor make of it do not matter to it.       *)
(***************************************************************************)
EXTENDS QtClient, TLAPS

-----------------------------------------------------------------------------
(* Shapes *)

ViewFields ==
    {"phase", "pending", "rev", "base", "profiles", "key", "id", "fields", "rules",
     "application", "storage", "busy"}
TaskFields == {"pc", "cmd", "views", "outcome", "was"}
EditorFields == {"active", "rev", "draft", "next"}
DiskFields == {"rev", "conf", "legacy", "nextKey"}
RulesFields == {"key", "server", "text", "dirty", "edit", "await", "sentDraft", "sentEdit"}
BufferFields == {"key", "server", "draft", "edited", "local", "await", "sentDraft", "sentLocal"}
InputFields == {"rules", "fields", "since"}
EntryFields == {"key", "value", "resent"}

IsView(v) == DOMAIN v = ViewFields /\ v.rev \in Nat

\* The elements of a sequence, and a sequence of views.
Elements(q) == {q[i] : i \in DOMAIN q}
Views(q) == q \in Seq(Elements(q)) /\ \A v \in Elements(q) : IsView(v)

\* The view that is shown once the executor has published what it has left.
Final == IF task.views = <<>> THEN view ELSE task.views[Len(task.views)]

-----------------------------------------------------------------------------
(* The invariant of the tray *)

TrayShape ==
    /\ IsView(view) /\ Views(task.views)
    /\ DOMAIN task = TaskFields /\ DOMAIN editor = EditorFields /\ DOMAIN disk = DiskFields
    /\ disk.rev \in Nat /\ saved \in Int /\ saved <= disk.rev /\ runtime.rev \in Int

\* Where the executor is in a command.  An apply has a dirty draft up to the
\* commit and none from there to the new beginning.
ExecutorPlace ==
    /\ task.pc \in {"idle", "queued", "publish", "commit", "reload", "begin"}
    /\ task.pc \in {"idle", "queued", "reload", "begin"} => task.views = <<>>
    /\ task.pc \in {"commit", "reload", "begin"} => task.cmd.op = "apply"
    /\ task.pc = "commit" => editor.active /\ Dirty(Final)
    /\ task.pc \in {"reload", "begin"} => ~editor.active
    /\ task.pc \in {"commit", "reload"} /\ ~task.was => ~runtime.running

\* A draft with changes is shown as dirty.
DraftShown == editor.active /\ editor.draft # begun => Dirty(Final)

\* A service that runs less than was saved last is shown as pending, unless an apply
\* has yet to reload it or knows that the reload failed.
PendingShown ==
    runtime.running /\ runtime.rev < saved =>
        /\ task.pc \notin {"reload", "begin"} => Final.pending
        /\ task.pc = "begin" => ~task.was

TInv == TrayShape /\ ExecutorPlace /\ DraftShown /\ PendingShown

-----------------------------------------------------------------------------
(* The invariant of the pipe *)

\* What the client reads from a view.
Agree(c, v) ==
    /\ c.rev = v.rev /\ c.key = v.key /\ c.fields = v.fields
    /\ c.application = v.application /\ c.rules = v.rules

IsAnswer(a) == a = Answer(a.op, a.ok)

\* One state at most, and one answer at most, are on their way.
WireForm ==
    \/ wire = <<>> \/ wire = <<StateSlot>>
    \/ \E a \in Elements(wire) :
        IsAnswer(a) /\ wire \in {<<a>>, <<a, StateSlot>>, <<StateSlot, a>>}

Answered == \E a \in Elements(wire) : IsAnswer(a)

\* An answer is on its way only when the executor is done with the command the
\* client awaits; with no state before it, the client has seen the view.
WireInv ==
    /\ WireForm
    /\ Answered => task.pc = "idle" /\ busy # Nobody
    /\ task.pc # "idle" /\ task.cmd.op # "load" => busy # Nobody
    /\ wire = <<>> \/ wire[1] # StateSlot => Agree(copy, view)

RulesOps == {"replace", "format"}

\* A rules command carries the revision that its editor remembers, and the view
\* after its success is newer.
RulesSent ==
    /\ task.pc = "queued" /\ task.cmd.op \in RulesOps =>
        task.cmd.rev = rules.sentDraft /\ rules.sentDraft \in Nat
    /\ task.pc = "publish" /\ task.cmd.op \in RulesOps /\ task.outcome \in {"ok", "saved"} =>
        rules.sentDraft \in Nat /\ Final.rev > rules.sentDraft
    /\ \A a \in Elements(wire) : IsAnswer(a) /\ a.ok /\ a.op \in RulesOps =>
        rules.sentDraft \in Nat /\ view.rev > rules.sentDraft

-----------------------------------------------------------------------------
(* The invariant of the editors *)

ClientShape ==
    /\ IsView(copy)
    /\ DOMAIN fields = Editors /\ DOMAIN typed = InputFields /\ DOMAIN typed.fields = Editors

\* The rules editor b over the copy c: it is on the profile of the copy, awaits no
\* snapshot, and holds the input t as its text.
RulesKept(b, t, c) ==
    /\ DOMAIN b = RulesFields
    /\ b.edit \in Nat /\ b.sentEdit \in Nat /\ b.sentEdit <= b.edit
    /\ b.key = c.key /\ ~b.await
    /\ t # NoInput => t.key = b.key /\ t.text = b.text /\ b.dirty

RulesBuffer == RulesKept(rules, typed.rules, copy)

\* The buffer of a field editor.
BufferShape(b) ==
    /\ DOMAIN b = BufferFields
    /\ DOMAIN b.draft = DOMAIN b.server /\ DOMAIN b.edited = DOMAIN b.server
    /\ b.local \in Nat /\ b.sentLocal \in Nat /\ b.sentLocal <= b.local
    /\ \A f \in DOMAIN b.edited : b.edited[f] \in Nat /\ b.edited[f] <= b.local

\* A field that was typed into differs from what the view said, and is newer
\* than the save whose snapshot is awaited.
EntryKept(b, t, f) ==
    /\ t.key = b.key /\ f \in DOMAIN b.server
    /\ b.draft[f] = t.value /\ b.draft[f] # b.server[f]
    /\ b.await => b.edited[f] > b.sentLocal

Inputs(b, t) ==
    \A f \in DOMAIN t :
        DOMAIN t[f] = EntryFields /\ (~t[f].resent => EntryKept(b, t[f], f))

\* The field editor e over the copy c, where since are the editors typed into since
\* that copy came: an editor that is settled shows the copy.
Settled(b, e, since) == ~FieldsDirty(b) /\ ~b.await /\ e \notin since

EditorKept(b, t, e, c, since) ==
    /\ BufferShape(b) /\ b.key = KeyOf(e, c)
    /\ Settled(b, e, since) => b.server = FieldsOf(e, c)
    /\ Inputs(b, t)

FieldEditors ==
    \A e \in Editors : EditorKept(fields[e], typed.fields[e], e, copy, typed.since)

CInv == ClientShape /\ RulesBuffer /\ FieldEditors

IInv == TInv /\ WireInv /\ RulesSent /\ CInv

-----------------------------------------------------------------------------
(* Views *)

\* A rebuilt view keeps the phase, the revision and the pending flag, whether or
\* not it preserves the text of the rules.
SameShown(w, v) == IsView(w) /\ w.phase = v.phase /\ w.pending = v.pending /\ w.rev = v.rev

LEMMA RebuiltView ==
    ASSUME NEW v, IsView(v), NEW c, NEW key, NEW id
    PROVE  /\ SameShown(Rebuilt(v, c, key, id, FALSE), v)
           /\ SameShown(Rebuilt(v, c, key, id, TRUE), v)
<1> DEFINE s == Selected(v, c, key, id)
           listed == [v EXCEPT
             !.profiles = [i \in DOMAIN c.profiles |-> ListItem(c.profiles[i])],
             !.application = c.application]
           none == [listed EXCEPT !.key = NoKey, !.id = None, !.fields = None, !.rules = None]
           some(p, x) == [listed EXCEPT
                !.key = p.key, !.id = p.id, !.fields = ProfileEditor(p), !.rules = x]
           kept(p) == IF v.rules # None /\ v.rules.key = p.key THEN v.rules ELSE RulesEditor(p)
           Same(w) == /\ DOMAIN w = ViewFields /\ w.phase = v.phase /\ w.pending = v.pending
                      /\ w.rev = v.rev
<1>1. Rebuilt(v, c, key, id, FALSE) =
        IF s = 0 THEN none ELSE some(c.profiles[s], RulesEditor(c.profiles[s]))
  BY DEF Rebuilt
<1>2. Rebuilt(v, c, key, id, TRUE) =
        IF s = 0 THEN none ELSE some(c.profiles[s], kept(c.profiles[s]))
  BY DEF Rebuilt
<1>3. Same(listed) BY DEF IsView, ViewFields
<1> HIDE DEF listed
<1>4. Same(none) BY <1>3 DEF ViewFields
<1>5. \A p, x : Same(some(p, x)) BY <1>3 DEF ViewFields
<1> HIDE DEF none, some, s, kept
<1>6. Same(Rebuilt(v, c, key, id, FALSE)) /\ Same(Rebuilt(v, c, key, id, TRUE))
  <2> HIDE DEF Same
  <2> QED BY <1>1, <1>2, <1>4, <1>5
<1> QED BY <1>6 DEF IsView, SameShown

\* A draft that is begun, edited or cleared has a new revision.
LEMMA BegunView ==
    ASSUME NEW v, IsView(v), NEW rev
    PROVE  /\ IsView(Begun(v, rev)) /\ Begun(v, rev).pending = v.pending
           /\ Begun(v, rev).rev = v.rev + 1
BY DEF IsView, ViewFields, Begun

LEMMA EditedView ==
    ASSUME NEW v, IsView(v)
    PROVE  /\ IsView(Edited(v)) /\ Edited(v).phase = "dirty" /\ Edited(v).pending = v.pending
           /\ Edited(v).rev = v.rev + 1
BY DEF IsView, ViewFields, Edited

LEMMA ClearedViewIs ==
    ASSUME NEW v, IsView(v)
    PROVE  IsView(ClearedView(v)) /\ ClearedView(v).pending = v.pending
<1>1. DOMAIN ClearedView(v) = ViewFields BY DEF IsView, ClearedView
<1>2. ClearedView(v).rev = v.rev + 1 BY DEF IsView, ViewFields, ClearedView
<1>3. ClearedView(v).pending = v.pending BY DEF IsView, ViewFields, ClearedView
<1> QED BY <1>1, <1>2, <1>3 DEF IsView

LEMMA EmptyViews == IsView(EmptyView) /\ IsView([EmptyView EXCEPT !.busy = TRUE])
BY DEF IsView, ViewFields, EmptyView

\* The sequences of views that commands publish.
LEMMA ViewSequence ==
    ASSUME NEW S, NEW q \in Seq(S), \A v \in S : IsView(v)
    PROVE  Views(q)
<1>1. DOMAIN q = 1..Len(q) /\ Len(q) \in Nat /\ \A i \in DOMAIN q : q[i] \in S OBVIOUS
<1>2. \A i \in 1..Len(q) : q[i] \in Elements(q) BY <1>1 DEF Elements
<1>3. q \in Seq(Elements(q)) BY <1>1, <1>2
<1> QED BY <1>1, <1>3 DEF Views, Elements

LEMMA ViewSequences ==
    ASSUME NEW a, NEW b, NEW c, NEW d, IsView(a), IsView(b), IsView(c), IsView(d)
    PROVE  /\ Views(<<>>) /\ Views(<<a>>) /\ Views(<<a, b>>) /\ Views(<<a, b, c>>)
           /\ Views(<<a, b, c, d>>)
<1> DEFINE S == {a, b, c, d}
<1>1. \A v \in S : IsView(v) OBVIOUS
<1>2. /\ <<>> \in Seq(S) /\ <<a>> \in Seq(S) /\ <<a, b>> \in Seq(S) /\ <<a, b, c>> \in Seq(S)
      /\ <<a, b, c, d>> \in Seq(S)
  OBVIOUS
<1> HIDE DEF S
<1> QED BY <1>1, <1>2, ViewSequence

\* Short sequences, put together and taken apart.
LEMMA SequenceOf ==
    ASSUME NEW S, NEW q \in Seq(S), NEW a, NEW b, NEW c
    PROVE  /\ Len(q) = 2 /\ q[1] = a /\ q[2] = b => q = <<a, b>>
           /\ Len(q) = 3 /\ q[1] = a /\ q[2] = b /\ q[3] = c => q = <<a, b, c>>
<1>1. q \in [1..Len(q) -> S] /\ Len(q) \in Nat OBVIOUS
<1>2. ASSUME Len(q) = 2, q[1] = a, q[2] = b PROVE q = <<a, b>>
  <2>1. \A i \in 1..2 : i = 1 \/ i = 2 OBVIOUS
  <2>2. DOMAIN q = 1..2 /\ DOMAIN <<a, b>> = 1..2 BY <1>1, <1>2
  <2>3. \A i \in 1..2 : q[i] = <<a, b>>[i] BY <1>2, <2>1
  <2>4. q = [i \in 1..2 |-> q[i]] /\ <<a, b>> = [i \in 1..2 |-> <<a, b>>[i]] BY <1>1, <1>2, <2>2
  <2> QED BY <2>3, <2>4
<1>3. ASSUME Len(q) = 3, q[1] = a, q[2] = b, q[3] = c PROVE q = <<a, b, c>>
  <2>1. \A i \in 1..3 : i = 1 \/ i = 2 \/ i = 3 OBVIOUS
  <2>2. DOMAIN q = 1..3 /\ DOMAIN <<a, b, c>> = 1..3 BY <1>1, <1>3
  <2>3. \A i \in 1..3 : q[i] = <<a, b, c>>[i] BY <1>3, <2>1
  <2>4. q = [i \in 1..3 |-> q[i]] /\ <<a, b, c>> = [i \in 1..3 |-> <<a, b, c>>[i]]
    BY <1>1, <1>3, <2>2
  <2> QED BY <2>3, <2>4
<1> QED BY <1>2, <1>3

LEMMA ShortSequences ==
    ASSUME NEW a, NEW b, NEW c
    PROVE  /\ Append(<<>>, a) = <<a>> /\ Append(<<a>>, b) = <<a, b>>
           /\ Append(<<a, b>>, c) = <<a, b, c>>
           /\ <<>> \o <<a, b>> = <<a, b>> /\ <<a>> \o <<b, c>> = <<a, b, c>>
<1> DEFINE S == {a, b, c}
<1>1. <<>> \in Seq(S) /\ <<a>> \in Seq(S) /\ <<a, b>> \in Seq(S) /\ <<b, c>> \in Seq(S)
  OBVIOUS
<1>2. a \in S /\ b \in S /\ c \in S OBVIOUS
<1> HIDE DEF S
<1>3. Append(<<>>, a) = <<a>> BY <1>1, <1>2
<1>4. Append(<<a>>, b) = <<a, b>>
  <2> DEFINE q == Append(<<a>>, b)
  <2>1. q \in Seq(S) /\ Len(q) = 2 /\ q[1] = a /\ q[2] = b BY <1>1, <1>2
  <2> HIDE DEF q
  <2>2. q = <<a, b>> BY <2>1, SequenceOf
  <2> QED BY <2>2 DEF q
<1>5. Append(<<a, b>>, c) = <<a, b, c>>
  <2> DEFINE q == Append(<<a, b>>, c)
  <2>1. q \in Seq(S) /\ Len(q) = 3 /\ q[1] = a /\ q[2] = b /\ q[3] = c BY <1>1, <1>2
  <2> HIDE DEF q
  <2>2. q = <<a, b, c>> BY <2>1, SequenceOf
  <2> QED BY <2>2 DEF q
<1>6. <<>> \o <<a, b>> = <<a, b>> BY <1>1, <1>2
<1>7. <<a>> \o <<b, c>> = <<a, b, c>>
  <2> DEFINE q == <<a>> \o <<b, c>>
  <2>1. q \in Seq(S) /\ Len(q) = 3 /\ q[1] = a /\ q[2] = b /\ q[3] = c BY <1>1, <1>2
  <2> HIDE DEF q
  <2>2. q = <<a, b, c>> BY <2>1, SequenceOf
  <2> QED BY <2>2 DEF q
<1> QED BY <1>3, <1>4, <1>5, <1>6, <1>7

LEMMA FinalNext ==
    ASSUME NEW a, NEW b, NEW c, NEW d
    PROVE  /\ task'.views = <<>> => Final' = view'
           /\ task'.views = <<a>> => Final' = a
           /\ task'.views = <<a, b>> => Final' = b
           /\ task'.views = <<a, b, c>> => Final' = c
           /\ task'.views = <<a, b, c, d>> => Final' = d
<1>1. task'.views = <<>> => Final' = view' BY DEF Final
<1>2. <<a>> # <<>> /\ Len(<<a>>) = 1 /\ <<a>>[1] = a OBVIOUS
<1>3. <<a, b>> # <<>> /\ Len(<<a, b>>) = 2 /\ <<a, b>>[2] = b OBVIOUS
<1>4. <<a, b, c>> # <<>> /\ Len(<<a, b, c>>) = 3 /\ <<a, b, c>>[3] = c OBVIOUS
<1>5. <<a, b, c, d>> # <<>> /\ Len(<<a, b, c, d>>) = 4 /\ <<a, b, c, d>>[4] = d OBVIOUS
<1>6. task'.views = <<a>> => Final' = a BY <1>2 DEF Final
<1>7. task'.views = <<a, b>> => Final' = b BY <1>3 DEF Final
<1>8. task'.views = <<a, b, c>> => Final' = c BY <1>4 DEF Final
<1>9. task'.views = <<a, b, c, d>> => Final' = d BY <1>5 DEF Final
<1> QED BY <1>1, <1>6, <1>7, <1>8, <1>9

-----------------------------------------------------------------------------
(* The executor runs a command *)

\* What the invariant says while a command waits for the executor.
LEMMA QueuedFacts ==
    ASSUME TInv, task.pc = "queued"
    PROVE  /\ task.views = <<>> /\ Final = view /\ IsView(view)
           /\ DOMAIN task = TaskFields /\ DOMAIN editor = EditorFields
           /\ DOMAIN disk = DiskFields /\ disk.rev \in Nat /\ saved \in Int
           /\ saved <= disk.rev /\ runtime.rev \in Int
           /\ editor.active /\ editor.draft # begun => Dirty(view)
           /\ runtime.running /\ runtime.rev < saved => view.pending
<1>1. task.views = <<>> BY DEF TInv, ExecutorPlace
<1>2. Final = view BY <1>1 DEF Final
<1>3. task.pc # "reload" /\ task.pc # "begin" OBVIOUS
<1> QED BY <1>1, <1>2, <1>3 DEF TInv, TrayShape, DraftShown, PendingShown

\* What every command does when it is executed.
ExecStep ==
    /\ task.pc = "queued" /\ UNCHANGED <<view, wire, clientVars>>
    /\ DOMAIN task' = TaskFields /\ task'.cmd = task.cmd /\ Views(task'.views)
    /\ DOMAIN editor' = EditorFields /\ DOMAIN disk' = DiskFields
    /\ disk'.rev \in Nat /\ disk'.rev >= disk.rev /\ saved' = saved /\ runtime'.rev \in Int
    /\ \/ task'.pc = "publish"
       \/ /\ task'.pc = "commit" /\ task.cmd.op = "apply"
          /\ editor'.active /\ Dirty(Final') /\ (~task'.was => ~runtime'.running)
    /\ editor'.active /\ editor'.draft # begun' => Dirty(Final')
    /\ runtime'.running /\ runtime'.rev < saved' => Final'.pending
    /\ task'.pc = "publish" /\ task.cmd.op \in RulesOps /\ task'.outcome \in {"ok", "saved"} =>
        task.cmd.rev \in {NoRev, view.rev} /\ Final'.rev > view.rev

LEMMA Finished ==
    ASSUME TInv, task.pc = "queued", NEW q, NEW o, Finish(q, o)
    PROVE  /\ DOMAIN task' = TaskFields /\ task'.cmd = task.cmd /\ task'.views = q
           /\ task'.outcome = o /\ task'.pc = "publish"
BY QueuedFacts DEF Finish, TaskFields

\* A command that leaves draft, files and service alone, and the phase it shows.
LEMMA ExecSame ==
    ASSUME TInv, task.pc = "queued", NEW q, NEW o, Finish(q, o), Views(q),
           UNCHANGED <<view, wire, clientVars, disk, editor, runtime, begun, saved>>,
           Final'.phase = view.phase, Final'.pending = view.pending,
           task.cmd.op \in RulesOps => o \notin {"ok", "saved"}
    PROVE  ExecStep
<1>1. /\ DOMAIN task' = TaskFields /\ task'.cmd = task.cmd /\ task'.views = q
      /\ task'.outcome = o /\ task'.pc = "publish"
  BY Finished
<1>2. disk' = disk /\ editor' = editor /\ runtime' = runtime /\ begun' = begun /\ saved' = saved
  OBVIOUS
<1>3. Dirty(view) => Dirty(Final') BY DEF Dirty
<1>4. disk.rev >= disk.rev BY QueuedFacts
<1> QED BY <1>1, <1>2, <1>3, <1>4, QueuedFacts DEF ExecStep

LEMMA ExecReject ==
    ASSUME TInv, task.pc = "queued", Reject,
           UNCHANGED <<view, wire, clientVars, disk, editor, runtime, begun, saved>>
    PROVE  ExecStep
<1>1. Finish(<<>>, "rejected") BY DEF Reject
<1>2. task'.views = <<>> BY <1>1, Finished
<1>3. Final' = view BY <1>2, FinalNext
<1>4. Views(<<>>) BY QueuedFacts, ViewSequences
<1> QED BY <1>1, <1>3, <1>4, ExecSame

LEMMA ExecCheckPrecondition ==
    ASSUME TInv, CheckPrecondition, UNCHANGED clientVars
    PROVE  ExecStep
BY ExecReject DEF CheckPrecondition

LEMMA ExecRefresh ==
    ASSUME TInv, Refresh, UNCHANGED clientVars
    PROVE  ExecStep
<1> DEFINE emptied == [view EXCEPT !.profiles = <<>>, !.application = None, !.key = NoKey,
                                  !.id = None, !.fields = None, !.rules = None]
           r == Rebuilt(view, editor.draft, NoKey, None, TRUE)
           w == IF editor.active THEN r ELSE emptied
<1>1. task.pc = "queued" /\ task.cmd.op = "refresh" /\ Finish(<<w>>, "ok")
  BY DEF Refresh, Executes
<1>2. UNCHANGED <<view, wire, clientVars, disk, editor, runtime, begun, saved>> BY DEF Refresh
<1>3. IsView(view) BY <1>1, QueuedFacts
<1>4. IsView(emptied) /\ emptied.phase = view.phase /\ emptied.pending = view.pending
  <2>1. DOMAIN emptied = ViewFields BY <1>3 DEF IsView
  <2>2. /\ emptied.phase = view.phase /\ emptied.pending = view.pending
        /\ emptied.rev = view.rev
    BY <1>3 DEF IsView, ViewFields
  <2> QED BY <1>3, <2>1, <2>2 DEF IsView
<1>5. SameShown(r, view) BY <1>3, RebuiltView
<1> HIDE DEF emptied, r
<1>6. IsView(w) /\ w.phase = view.phase /\ w.pending = view.pending BY <1>4, <1>5 DEF SameShown
<1> HIDE DEF w
<1>7. Views(<<w>>) BY <1>6, ViewSequences
<1>8. Final' = w BY <1>1, Finished, FinalNext
<1> QED BY <1>1, <1>2, <1>6, <1>7, <1>8, ExecSame DEF RulesOps

LEMMA ExecSelectProfile ==
    ASSUME TInv, SelectProfile, UNCHANGED clientVars
    PROVE  ExecStep
<1> DEFINE found == {i \in DOMAIN view.profiles : view.profiles[i].key = task.cmd.key}
           item == view.profiles[CHOOSE i \in found : TRUE]
           v == [view EXCEPT !.key = item.key, !.id = item.id]
           r == Rebuilt(v, editor.draft, item.key, None, FALSE)
<1>1. task.pc = "queued" /\ task.cmd.op = "select" BY DEF SelectProfile, Executes
<1>2. UNCHANGED <<view, wire, clientVars, disk, editor, runtime, begun, saved>>
  BY DEF SelectProfile
<1>3. Reject \/ Finish(<<v, r>>, "ok") BY DEF SelectProfile
<1>4. IsView(view) BY <1>1, QueuedFacts
<1> HIDE DEF item
<1>5. IsView(v) /\ v.phase = view.phase /\ v.pending = view.pending
  BY <1>4 DEF IsView, ViewFields
<1> HIDE DEF v
<1>6. SameShown(r, v) BY <1>5, RebuiltView
<1> HIDE DEF r
<1>6a. IsView(r) /\ r.phase = view.phase /\ r.pending = view.pending
  BY <1>5, <1>6 DEF SameShown
<1>7. CASE Reject BY <1>1, <1>2, <1>7, ExecReject
<1>8. CASE Finish(<<v, r>>, "ok")
  <2>1. Views(<<v, r>>) BY <1>5, <1>6a, ViewSequences
  <2>2. Final' = r BY <1>1, <1>8, Finished, FinalNext
  <2> QED BY <1>1, <1>2, <1>6a, <1>8, <2>1, <2>2, ExecSame DEF RulesOps
<1> QED BY <1>3, <1>7, <1>8

LEMMA StorageViewIs ==
    ASSUME NEW v, IsView(v), NEW d
    PROVE  /\ IsView(StorageView(v, d)) /\ StorageView(v, d).phase = v.phase
           /\ StorageView(v, d).pending = v.pending /\ StorageView(v, d).rev = v.rev
BY DEF StorageView, IsView, ViewFields

LEMMA ExecStorageStatus ==
    ASSUME TInv, StorageStatus, UNCHANGED clientVars
    PROVE  ExecStep
<1> DEFINE s == StorageView(view, disk)
<1>1. task.pc = "queued" /\ task.cmd.op = "storage_status" /\ Finish(<<s>>, "ok")
  BY DEF StorageStatus, Executes
<1>2. UNCHANGED <<view, wire, clientVars, disk, editor, runtime, begun, saved>>
  BY DEF StorageStatus
<1>3. IsView(view) BY <1>1, QueuedFacts
<1>4. IsView(s) /\ s.phase = view.phase /\ s.pending = view.pending BY <1>3, StorageViewIs
<1> HIDE DEF s
<1>5. Views(<<s>>) BY <1>4, ViewSequences
<1>6. Final' = s BY <1>1, Finished, FinalNext
<1> QED BY <1>1, <1>2, <1>4, <1>5, <1>6, ExecSame DEF RulesOps

\* A load that succeeds: the draft is what the files hold.
LEMMA ExecLoads ==
    ASSUME TInv, task.pc = "queued", task.cmd.op \notin RulesOps, NEW legacy,
           LoadSucceeds(legacy), UNCHANGED <<view, wire, clientVars, runtime, saved>>,
           DOMAIN disk' = DiskFields, disk'.rev \in Nat, disk'.rev >= disk.rev
    PROVE  ExecStep
<1> DEFINE loading == [view EXCEPT !.phase = "loading"]
           loaded == Begun(loading, disk'.rev)
           built == Rebuilt(loaded, disk'.conf, NoKey, None, FALSE)
           ready == [built EXCEPT !.storage = "ready"]
           q == <<loading, loaded, built, ready>>
<1>1. /\ editor' = [active |-> TRUE, rev |-> disk'.rev, draft |-> disk'.conf, next |-> -1]
      /\ begun' = disk'.conf /\ Finish(q, "ok")
  BY DEF LoadSucceeds, BeginEditor
<1>2. IsView(view) BY QueuedFacts
<1>3. IsView(loading) /\ loading.pending = view.pending BY <1>2 DEF IsView, ViewFields
<1> HIDE DEF loading
<1>4. IsView(loaded) /\ loaded.pending = view.pending BY <1>3, BegunView
<1> HIDE DEF loaded
<1>5. SameShown(built, loaded) BY <1>4, RebuiltView
<1> HIDE DEF built
<1>6. IsView(built) /\ built.pending = view.pending BY <1>4, <1>5 DEF SameShown
<1>7. IsView(ready) /\ ready.pending = view.pending BY <1>6 DEF IsView, ViewFields
<1> HIDE DEF ready
<1>8. Views(q) BY <1>3, <1>4, <1>6, <1>7, ViewSequences
<1>9. Final' = ready BY <1>1, Finished, FinalNext
<1>10. /\ DOMAIN task' = TaskFields /\ task'.cmd = task.cmd /\ task'.views = q
       /\ task'.pc = "publish"
  BY <1>1, Finished
<1> HIDE DEF q
<1>11. DOMAIN editor' = EditorFields /\ editor'.draft = begun' BY <1>1 DEF EditorFields
<1>12. runtime' = runtime /\ saved' = saved OBVIOUS
<1> QED BY <1>7, <1>8, <1>9, <1>10, <1>11, <1>12, QueuedFacts DEF ExecStep

\* A load that fails: there is no draft.
LEMMA ExecLoadFails ==
    ASSUME TInv, task.pc = "queued", task.cmd.op \notin RulesOps,
           LoadFails, UNCHANGED <<view, wire, clientVars, runtime, saved>>,
           DOMAIN disk' = DiskFields, disk'.rev \in Nat, disk'.rev >= disk.rev
    PROVE  ExecStep
<1> DEFINE loading == [view EXCEPT !.phase = "loading"]
           cleared == ClearedView(loading)
           stored == StorageView(cleared, disk')
           q == <<loading, cleared, stored>>
<1>1. editor' = [editor EXCEPT !.active = FALSE] /\ Finish(q, "failed") BY DEF LoadFails
<1>2. IsView(view) BY QueuedFacts
<1>3. IsView(loading) /\ loading.pending = view.pending BY <1>2 DEF IsView, ViewFields
<1> HIDE DEF loading
<1>4. IsView(cleared) /\ cleared.pending = view.pending BY <1>3, ClearedViewIs
<1> HIDE DEF cleared
<1>5. IsView(stored) /\ stored.pending = view.pending BY <1>4, StorageViewIs
<1> HIDE DEF stored
<1>6. Views(q) BY <1>3, <1>4, <1>5, ViewSequences
<1>7. Final' = stored BY <1>1, Finished, FinalNext
<1>8. /\ DOMAIN task' = TaskFields /\ task'.cmd = task.cmd /\ task'.views = q
      /\ task'.pc = "publish"
  BY <1>1, Finished
<1> HIDE DEF q
<1>9. DOMAIN editor' = EditorFields /\ ~editor'.active BY <1>1, QueuedFacts DEF EditorFields
<1>10. runtime' = runtime /\ saved' = saved OBVIOUS
<1> QED BY <1>5, <1>6, <1>7, <1>8, <1>9, <1>10, QueuedFacts DEF ExecStep

LEMMA ExecLoadDraft ==
    ASSUME TInv, LoadDraft, UNCHANGED clientVars
    PROVE  ExecStep
<1>1. /\ task.pc = "queued" /\ task.cmd.op \notin RulesOps
      /\ UNCHANGED <<disk, runtime, view, wire, saved>>
  BY DEF LoadDraft, Executes, RulesOps
<1>2. \/ Reject /\ UNCHANGED <<editor, begun>>
      \/ LoadSucceeds(disk.legacy)
      \/ LoadFails
  BY DEF LoadDraft
<1>3. DOMAIN disk' = DiskFields /\ disk'.rev \in Nat /\ disk'.rev >= disk.rev
  BY <1>1, QueuedFacts
<1> QED BY <1>1, <1>2, <1>3, ExecReject, ExecLoads, ExecLoadFails

LEMMA ExecMigrateStorage ==
    ASSUME TInv, MigrateStorage, UNCHANGED clientVars
    PROVE  ExecStep
<1>1. /\ task.pc = "queued" /\ task.cmd.op \notin RulesOps
      /\ UNCHANGED <<runtime, view, wire, saved>>
  BY DEF MigrateStorage, Executes, RulesOps
<1> DEFINE s == StorageView(view, disk)
           d == [disk EXCEPT !.legacy = FALSE, !.rev = @ + 1]
<1>2. \/ Reject /\ UNCHANGED <<disk, editor, begun>>
      \/ (Finish(<<s>>, "ok") \/ Finish(<<s>>, "failed")) /\ UNCHANGED <<disk, editor, begun>>
      \/ disk' = d /\ (LoadSucceeds(FALSE) \/ LoadFails)
  BY DEF MigrateStorage
<1>3. d.rev = disk.rev + 1 /\ DOMAIN d = DiskFields BY <1>1, QueuedFacts DEF DiskFields
<1> HIDE DEF d
<1>4. CASE Reject /\ UNCHANGED <<disk, editor, begun>> BY <1>1, <1>4, ExecReject
<1>5. CASE (Finish(<<s>>, "ok") \/ Finish(<<s>>, "failed")) /\ UNCHANGED <<disk, editor, begun>>
  <2>1. IsView(s) /\ s.phase = view.phase /\ s.pending = view.pending
    BY <1>1, QueuedFacts, StorageViewIs
  <2> HIDE DEF s
  <2>2. Views(<<s>>) BY <2>1, ViewSequences
  <2>3. Final' = s BY <1>1, <1>5, Finished, FinalNext
  <2> QED BY <1>1, <1>5, <2>1, <2>2, <2>3, ExecSame
<1>6. CASE disk' = d /\ (LoadSucceeds(FALSE) \/ LoadFails)
  <2>1. DOMAIN disk' = DiskFields /\ disk'.rev \in Nat /\ disk'.rev >= disk.rev
    BY <1>1, <1>3, <1>6, QueuedFacts
  <2>2. CASE LoadFails BY <1>1, <2>1, <2>2, ExecLoadFails
  <2>3. CASE LoadSucceeds(FALSE)
    BY <1>1, <2>1, <2>3, ExecLoads
  <2> QED BY <1>6, <2>2, <2>3
<1> QED BY <1>2, <1>4, <1>5, <1>6

LEMMA ExecDiscardDraft ==
    ASSUME TInv, DiscardDraft, UNCHANGED clientVars
    PROVE  ExecStep
<1> DEFINE v == Begun(view, repo.rev)
           r == Rebuilt(v, repo.conf, NoKey, None, FALSE)
           q == <<v, r>>
<1>1. /\ task.pc = "queued" /\ task.cmd.op \notin RulesOps
      /\ UNCHANGED <<disk, runtime, view, wire, saved>>
  BY DEF DiscardDraft, Executes, RulesOps
<1>2. \/ Reject /\ UNCHANGED <<editor, begun>>
      \/ BeginEditor(repo.rev, repo.conf) /\ Finish(q, "ok")
  BY DEF DiscardDraft
<1>3. IsView(v) /\ v.pending = view.pending BY <1>1, QueuedFacts, BegunView
<1> HIDE DEF v
<1>4. SameShown(r, v) BY <1>3, RebuiltView
<1> HIDE DEF r
<1>5. IsView(r) /\ r.pending = view.pending BY <1>3, <1>4 DEF SameShown
<1>6. CASE Reject /\ UNCHANGED <<editor, begun>> BY <1>1, <1>6, ExecReject
<1>7. CASE BeginEditor(repo.rev, repo.conf) /\ Finish(q, "ok")
  <2>1. Views(q) BY <1>3, <1>5, ViewSequences
  <2>2. Final' = r BY <1>1, <1>7, Finished, FinalNext
  <2>3. /\ DOMAIN task' = TaskFields /\ task'.cmd = task.cmd /\ task'.views = q
        /\ task'.pc = "publish"
    BY <1>1, <1>7, Finished
  <2> HIDE DEF q
  <2>4. DOMAIN editor' = EditorFields /\ editor'.draft = begun'
    BY <1>7 DEF BeginEditor, EditorFields
  <2>5. runtime' = runtime /\ saved' = saved /\ disk' = disk /\ disk.rev >= disk.rev
    BY <1>1, QueuedFacts
  <2> QED BY <1>1, <1>5, <2>1, <2>2, <2>3, <2>4, <2>5, QueuedFacts DEF ExecStep
<1> QED BY <1>2, <1>6, <1>7

\* A command that edits the draft shows it as dirty, or has not changed it.
LEMMA ExecEdits ==
    ASSUME TInv, task.pc = "queued", NEW q, NEW o, Finish(q, o), Views(q),
           UNCHANGED <<view, wire, clientVars, disk, runtime, saved>>,
           DOMAIN editor' = EditorFields,
           \/ Final'.phase = "dirty"
           \/ /\ Final'.phase = view.phase /\ editor'.active = editor.active
              /\ editor'.draft = editor.draft /\ begun' = begun,
           Final'.pending = view.pending,
           task.cmd.op \in RulesOps /\ o \in {"ok", "saved"} =>
                task.cmd.rev \in {NoRev, view.rev} /\ Final'.rev > view.rev
    PROVE  ExecStep
<1>1. /\ DOMAIN task' = TaskFields /\ task'.cmd = task.cmd /\ task'.views = q
      /\ task'.outcome = o /\ task'.pc = "publish"
  BY Finished
<1>2. disk' = disk /\ runtime' = runtime /\ saved' = saved /\ disk.rev >= disk.rev
  BY QueuedFacts
<1>3. editor'.active /\ editor'.draft # begun' => Dirty(Final') BY QueuedFacts DEF Dirty
<1> QED BY <1>1, <1>2, <1>3, QueuedFacts DEF ExecStep

LEMMA ExecMutateDraft ==
    ASSUME TInv, MutateDraft, UNCHANGED clientVars
    PROVE  ExecStep
<1> DEFINE cmd == task.cmd
           c == IF editor.active THEN MutateCandidate(cmd, editor.draft) ELSE Refused
           v == Edited(view)
           key == CASE cmd.op = "create" -> editor.next
                    [] cmd.op = "remove" -> NoKey
                    [] OTHER -> cmd.key
           id == IF cmd.op = "create" THEN cmd.arg ELSE None
           r == Rebuilt(v, c, key, id, FALSE)
           next == IF cmd.op = "create" THEN editor.next - 1 ELSE editor.next
<1>1. /\ task.pc = "queued" /\ cmd.op \notin RulesOps
      /\ UNCHANGED <<disk, runtime, view, wire, begun, saved>>
  BY DEF MutateDraft, Executes, RulesOps
<1>2. \/ Reject /\ UNCHANGED editor
      \/ /\ editor' = [editor EXCEPT !.draft = c, !.next = next]
         /\ \/ c = editor.draft /\ Finish(<<>>, "ok")
            \/ c # editor.draft /\ Finish(<<v, r>>, "ok")
  BY QueuedFacts, <1>1 DEF MutateDraft, EditorFields
<1> HIDE DEF c, key, id, next
<1>3. IsView(v) /\ v.pending = view.pending /\ v.phase = "dirty"
  BY <1>1, QueuedFacts, EditedView
<1> HIDE DEF v
<1>4. SameShown(r, v) BY <1>3, RebuiltView
<1> HIDE DEF r
<1>5. IsView(r) /\ r.pending = view.pending /\ r.phase = "dirty"
  BY <1>3, <1>4 DEF SameShown
<1>6. CASE Reject /\ UNCHANGED editor BY <1>1, <1>6, ExecReject
<1>7. CASE editor' = [editor EXCEPT !.draft = c, !.next = next]
  <2>1. /\ DOMAIN editor' = EditorFields /\ editor'.active = editor.active
        /\ editor'.draft = c
    BY <1>1, <1>7, QueuedFacts DEF EditorFields
  <2>2. CASE c = editor.draft /\ Finish(<<>>, "ok")
    <3>1. Views(<<>>) BY <1>3, ViewSequences
    <3>2. Final' = view BY <1>1, <2>2, Finished, FinalNext
    <3> QED BY <1>1, <2>1, <2>2, <3>1, <3>2, ExecEdits
  <2>3. CASE Finish(<<v, r>>, "ok")
    <3>1. Views(<<v, r>>) BY <1>3, <1>5, ViewSequences
    <3>2. Final' = r BY <1>1, <2>3, Finished, FinalNext
    <3> QED BY <1>1, <1>5, <2>1, <2>3, <3>1, <3>2, ExecEdits
  <2> QED BY <1>2, <1>6, <2>2, <2>3
<1> QED BY <1>2, <1>6, <1>7

LEMMA ExecUpdateFields ==
    ASSUME TInv, UpdateFields, UNCHANGED clientVars
    PROVE  ExecStep
<1> DEFINE cmd == task.cmd
           c == IF editor.active THEN ApplyBatch(editor.draft, cmd.key, cmd.arg, TRUE)
                ELSE Refused
           v == Edited(view)
           same == Rebuilt(view, c, cmd.key, None, FALSE)
           new == Rebuilt(v, c, cmd.key, None, FALSE)
<1>1. /\ task.pc = "queued" /\ cmd.op \notin RulesOps
      /\ UNCHANGED <<disk, runtime, view, wire, begun, saved>>
  BY DEF UpdateFields, Executes, RulesOps
<1>2. \/ Reject /\ UNCHANGED editor
      \/ /\ editor' = [editor EXCEPT !.draft = c]
         /\ \/ c = editor.draft /\ Finish(Append(<<>>, same), "ok")
            \/ c # editor.draft /\ Finish(Append(<<v>>, new), "ok")
  <2> HIDE DEF c, v, same, new
  <2> DEFINE w == IF c = editor.draft THEN view ELSE v
             edited == IF c = editor.draft THEN <<>> ELSE <<w>>
  <2>1. IF c = Refused THEN Reject /\ UNCHANGED editor
        ELSE /\ editor' = [editor EXCEPT !.draft = c]
             /\ Finish(Append(edited, Rebuilt(w, c, cmd.key, None, FALSE)), "ok")
    BY DEF UpdateFields, c, v
  <2>2. CASE c = editor.draft BY <2>1, <2>2 DEF same
  <2>3. CASE c # editor.draft BY <2>1, <2>3 DEF new
  <2> QED BY <2>2, <2>3
<1> HIDE DEF c
<1>3. IsView(view) /\ IsView(v) /\ v.pending = view.pending /\ v.phase = "dirty"
  BY <1>1, QueuedFacts, EditedView
<1> HIDE DEF v
<1>4. SameShown(same, view) /\ SameShown(new, v) BY <1>3, RebuiltView
<1> HIDE DEF same, new
<1>5. /\ IsView(same) /\ same.pending = view.pending /\ same.phase = view.phase
      /\ IsView(new) /\ new.pending = view.pending /\ new.phase = "dirty"
  BY <1>3, <1>4 DEF SameShown
<1>6. CASE Reject /\ UNCHANGED editor BY <1>1, <1>6, ExecReject
<1>7. CASE editor' = [editor EXCEPT !.draft = c]
  <2>1. /\ DOMAIN editor' = EditorFields /\ editor'.active = editor.active
        /\ editor'.draft = c
    BY <1>1, <1>7, QueuedFacts DEF EditorFields
  <2>2. CASE c = editor.draft /\ Finish(Append(<<>>, same), "ok")
    <3>1. Append(<<>>, same) = <<same>> BY ShortSequences
    <3>2. Views(<<same>>) BY <1>5, ViewSequences
    <3>3. Finish(<<same>>, "ok") BY <2>2, <3>1
    <3>4. Final' = same BY <1>1, <3>3, Finished, FinalNext
    <3> QED BY <1>1, <1>5, <2>1, <2>2, <3>2, <3>3, <3>4, ExecEdits
  <2>3. CASE Finish(Append(<<v>>, new), "ok")
    <3>1. Append(<<v>>, new) = <<v, new>> BY ShortSequences
    <3>2. Views(<<v, new>>) BY <1>3, <1>5, ViewSequences
    <3>3. Finish(<<v, new>>, "ok") BY <2>3, <3>1
    <3>4. Final' = new BY <1>1, <3>3, Finished, FinalNext
    <3> QED BY <1>1, <1>5, <2>1, <3>2, <3>3, <3>4, ExecEdits
  <2> QED BY <1>2, <1>6, <2>2, <2>3
<1> QED BY <1>2, <1>6, <1>7

\* What the rules commands do, case by case.
LEMMA UpdateRulesCases ==
    ASSUME UpdateRules, NEW r0, r0 = [view EXCEPT
                !.rules = [key |-> task.cmd.key, text |-> NormalizeNewlines(task.cmd.arg)],
                !.rev = @ + 1]
    PROVE  \/ Reject /\ UNCHANGED <<editor, begun>>
           \/ Finish(<<r0>>, "rejected") /\ UNCHANGED <<editor, begun>>
           \/ \E c :
                /\ editor.active /\ editor' = [editor EXCEPT !.draft = c]
                /\ \/ begun' = (IF ~Dirty(view) THEN c ELSE begun) /\ Reject
                   \/ \E v, shown : LET b == Rebuilt(v, c, task.cmd.key, None, FALSE)
                                        f == [b EXCEPT !.rev = @ + 1,
                                                !.rules = IF @.key = task.cmd.key
                                                          THEN [@ EXCEPT !.text = shown] ELSE @]
                      IN  /\ begun' = begun
                          /\ \/ c = editor.draft /\ v = view /\ Finish(<<>> \o <<b, f>>, "ok")
                             \/ v = [view EXCEPT !.phase = "dirty"] /\ Finish(<<v>> \o <<b, f>>,
                                "ok")
<1> DEFINE cmd == task.cmd
           t == NormalizeNewlines(cmd.arg)
           c == IF editor.active THEN ReplaceRulesText(editor.draft, cmd.key, t) ELSE Refused
           shown == IF cmd.op = "format" THEN FormatRulesText(t.rules) ELSE t
           unformatted == cmd.op = "format" /\ shown = Refused
           dirty == [view EXCEPT !.phase = "dirty"]
           v == IF c = editor.draft THEN view ELSE dirty
           b == Rebuilt(v, c, cmd.key, None, FALSE)
           f == [b EXCEPT !.rev = @ + 1,
                        !.rules = IF @.key = cmd.key THEN [@ EXCEPT !.text = shown] ELSE @]
<1>1. IF ~editor.active THEN Reject /\ UNCHANGED <<editor, begun>>
      ELSE IF c = Refused
      THEN Finish(<<r0>>, "rejected") /\ UNCHANGED <<editor, begun>>
      ELSE /\ editor' = [editor EXCEPT !.draft = c]
           /\ begun' = IF unformatted /\ ~Dirty(view) THEN c ELSE begun
           /\ IF unformatted THEN Reject
              ELSE Finish((IF c = editor.draft THEN <<>> ELSE <<dirty>>) \o <<b, f>>, "ok")
  BY DEF UpdateRules
<1>2. CASE ~editor.active BY <1>1, <1>2
<1>3. CASE editor.active /\ c = Refused BY <1>1, <1>3
<1>4. CASE editor.active /\ c # Refused /\ unformatted
  <2>1. editor' = [editor EXCEPT !.draft = c] /\ Reject BY <1>1, <1>4
  <2>2. begun' = IF ~Dirty(view) THEN c ELSE begun BY <1>1, <1>4
  <2> HIDE DEF c
  <2> QED BY <1>4, <2>1, <2>2
<1>5. CASE editor.active /\ c # Refused /\ ~unformatted
  <2>1. editor' = [editor EXCEPT !.draft = c] /\ begun' = begun BY <1>1, <1>5
  <2>2. Finish((IF c = editor.draft THEN <<>> ELSE <<dirty>>) \o <<b, f>>, "ok") BY <1>1, <1>5
  <2> HIDE DEF c, shown, unformatted
  <2>3. \/ c = editor.draft /\ v = view /\ Finish(<<>> \o <<b, f>>, "ok")
        \/ v = dirty /\ Finish(<<v>> \o <<b, f>>, "ok")
    <3> HIDE DEF b, f, dirty
    <3>1. CASE c = editor.draft BY <2>2, <3>1
    <3>2. CASE c # editor.draft BY <2>2, <3>2
    <3> QED BY <3>1, <3>2
  <2> HIDE DEF v
  <2> QED BY <1>5, <2>1, <2>3
<1> QED BY <1>2, <1>3, <1>4, <1>5

LEMMA ExecUpdateRules ==
    ASSUME TInv, UpdateRules, UNCHANGED clientVars
    PROVE  ExecStep
<1> DEFINE r0 == [view EXCEPT
                !.rules = [key |-> task.cmd.key, text |-> NormalizeNewlines(task.cmd.arg)],
                !.rev = @ + 1]
<1>1. /\ task.pc = "queued" /\ task.cmd.rev \in {NoRev, view.rev}
      /\ UNCHANGED <<disk, runtime, view, wire, saved>>
  BY DEF UpdateRules, Executes, PreconditionHolds
<1>2. IsView(view) /\ DOMAIN editor = EditorFields BY <1>1, QueuedFacts
<1>3. IsView(r0) /\ r0.phase = view.phase /\ r0.pending = view.pending
  BY <1>2 DEF IsView, ViewFields
<1>4. CASE Reject /\ UNCHANGED <<editor, begun>> BY <1>1, <1>4, ExecReject
<1>5. CASE Finish(<<r0>>, "rejected") /\ UNCHANGED <<editor, begun>>
  <2> HIDE DEF r0
  <2>1. Views(<<r0>>) BY <1>3, ViewSequences
  <2>2. Final' = r0 BY <1>1, <1>5, Finished, FinalNext
  <2> QED BY <1>1, <1>3, <1>5, <2>1, <2>2, ExecSame
<1>6. ASSUME NEW c, editor.active, editor' = [editor EXCEPT !.draft = c],
             begun' = IF ~Dirty(view) THEN c ELSE begun, Reject
      PROVE  ExecStep
  <2>1. Finish(<<>>, "rejected") BY <1>6 DEF Reject
  <2>2. /\ DOMAIN task' = TaskFields /\ task'.cmd = task.cmd /\ task'.views = <<>>
        /\ task'.outcome = "rejected" /\ task'.pc = "publish"
    BY <1>1, <2>1, Finished
  <2>3. Final' = view BY <1>1, <2>2, FinalNext
  <2>4. Views(<<>>) BY <1>2, ViewSequences
  <2>5. DOMAIN editor' = EditorFields /\ editor'.draft = c BY <1>2, <1>6 DEF EditorFields
  <2>6. editor'.draft # begun' => Dirty(Final') BY <1>6, <2>3, <2>5
  <2>7. disk' = disk /\ runtime' = runtime /\ saved' = saved /\ disk.rev >= disk.rev
    BY <1>1, QueuedFacts
  <2> QED BY <1>1, <2>2, <2>3, <2>4, <2>5, <2>6, <2>7, QueuedFacts DEF ExecStep
<1>7. ASSUME NEW c, NEW v, NEW shown, editor.active, editor' = [editor EXCEPT !.draft = c],
             begun' = begun,
             LET b == Rebuilt(v, c, task.cmd.key, None, FALSE)
                 f == [b EXCEPT !.rev = @ + 1,
                        !.rules = IF @.key = task.cmd.key THEN [@ EXCEPT !.text = shown] ELSE @]
             IN  \/ c = editor.draft /\ v = view /\ Finish(<<>> \o <<b, f>>, "ok")
                 \/ v = [view EXCEPT !.phase = "dirty"] /\ Finish(<<v>> \o <<b, f>>, "ok")
      PROVE  ExecStep
  <2> DEFINE b == Rebuilt(v, c, task.cmd.key, None, FALSE)
             x == IF b.rules.key = task.cmd.key THEN [b.rules EXCEPT !.text = shown] ELSE b.rules
             f == [b EXCEPT !.rev = @ + 1, !.rules = x]
  <2>1. \/ c = editor.draft /\ v = view /\ Finish(<<>> \o <<b, f>>, "ok")
        \/ v = [view EXCEPT !.phase = "dirty"] /\ Finish(<<v>> \o <<b, f>>, "ok")
    BY <1>7
  <2>2. /\ IsView(v) /\ v.pending = view.pending /\ v.rev = view.rev
        /\ (v.phase = view.phase /\ c = editor.draft) \/ v.phase = "dirty"
    BY <1>2, <2>1 DEF IsView, ViewFields
  <2>3. SameShown(b, v) BY <2>2, RebuiltView
  <2> HIDE DEF b, x
  <2>4. IsView(b) /\ b.phase = v.phase /\ b.pending = view.pending /\ b.rev = view.rev
    BY <2>2, <2>3 DEF SameShown
  <2>5. IsView(f) /\ f.phase = v.phase /\ f.pending = view.pending /\ f.rev = view.rev + 1
    BY <2>2, <2>4 DEF IsView, ViewFields
  <2> HIDE DEF f
  <2>6. Finish(<<b, f>>, "ok") \/ Finish(<<v, b, f>>, "ok")
    <3>1. <<>> \o <<b, f>> = <<b, f>> /\ <<v>> \o <<b, f>> = <<v, b, f>> BY ShortSequences
    <3> QED BY <2>1, <3>1
  <2>7. Views(<<b, f>>) /\ Views(<<v, b, f>>) BY <2>2, <2>4, <2>5, ViewSequences
  <2>8. Final' = f BY <1>1, <2>6, Finished, FinalNext
  <2>9. /\ DOMAIN editor' = EditorFields /\ editor'.draft = c /\ editor'.active = editor.active
    BY <1>2, <1>7 DEF EditorFields
  <2>10. view.rev + 1 > view.rev BY <1>2 DEF IsView
  <2>11. \/ Final'.phase = "dirty"
         \/ /\ Final'.phase = view.phase /\ editor'.active = editor.active
            /\ editor'.draft = editor.draft /\ begun' = begun
    BY <1>7, <2>2, <2>5, <2>8, <2>9
  <2> QED BY <1>1, <2>5, <2>6, <2>7, <2>8, <2>9, <2>10, <2>11, ExecEdits
<1> QED BY <1>4, <1>5, <1>6, <1>7, UpdateRulesCases

\* What a command of the service makes of it.
LEMMA ServiceCommandIs ==
    ASSUME NEW op, NEW ok \in BOOLEAN, ServiceCommand(op, ok)
    PROVE  \/ runtime' = [running |-> TRUE, rev |-> disk.rev]
           \/ runtime' = Stopped
           \/ runtime' = runtime /\ ~ok
BY DEF ServiceCommand

\* The service runs what it ran, what the files hold, or nothing.
LEMMA ServiceRuns ==
    ASSUME NEW op, NEW ok \in BOOLEAN, ServiceCommand(op, ok),
           runtime.rev \in Int, disk.rev \in Nat, saved \in Int, saved <= disk.rev
    PROVE  /\ runtime'.rev \in Int
           /\ runtime'.running /\ runtime'.rev < saved => runtime' = runtime /\ ~ok
<1>1. [running |-> TRUE, rev |-> disk.rev].rev = disk.rev /\ Stopped.rev = -1 /\ ~Stopped.running
  BY DEF Stopped, NoRev
<1>2. ~(disk.rev < saved) OBVIOUS
<1> QED BY <1>1, <1>2, ServiceCommandIs

LEMMA ExecExecuteServiceCommand ==
    ASSUME TInv, ExecuteServiceCommand, UNCHANGED clientVars
    PROVE  ExecStep
<1> DEFINE w == [view EXCEPT !.pending = FALSE,
                            !.phase = IF @ = "saved_pending" THEN "clean" ELSE @]
<1>1. /\ task.pc = "queued" /\ task.cmd.op \notin RulesOps
      /\ UNCHANGED <<disk, editor, view, wire, begun, saved>>
  BY DEF ExecuteServiceCommand, Executes, RulesOps
<1>2. PICK ok \in BOOLEAN :
        /\ ServiceCommand(task.cmd.op, ok)
        /\ IF ~ok THEN Finish(<<>>, "failed")
           ELSE IF task.cmd.op = "stop" THEN Finish(<<>>, "ok")
           ELSE Finish(<<w>>, "ok")
  BY DEF ExecuteServiceCommand
<1>3. /\ runtime'.rev \in Int
      /\ runtime'.running /\ runtime'.rev < saved => runtime' = runtime /\ ~ok
  BY <1>1, <1>2, QueuedFacts, ServiceRuns
<1>4. IsView(view) BY <1>1, QueuedFacts
<1>5. IsView(w) /\ (Dirty(view) => Dirty(w)) BY <1>4 DEF IsView, ViewFields, Dirty
<1> HIDE DEF w
<1>6. Views(<<>>) /\ Views(<<w>>) BY <1>4, <1>5, ViewSequences
<1>7. PICK q, o : Finish(q, o) /\ (q = <<>> \/ (q = <<w>> /\ ok)) BY <1>2
<1>8. /\ DOMAIN task' = TaskFields /\ task'.cmd = task.cmd /\ task'.views = q
      /\ task'.pc = "publish"
  BY <1>1, <1>7, Finished
<1>9. Final' = view \/ (Final' = w /\ ok) BY <1>1, <1>7, <1>8, FinalNext
<1>10. editor' = editor /\ begun' = begun /\ disk' = disk /\ saved' = saved /\ disk.rev >= disk.rev
  BY <1>1, QueuedFacts
<1>11. editor'.active /\ editor'.draft # begun' => Dirty(Final')
  BY <1>1, <1>5, <1>9, <1>10, QueuedFacts
<1>12. runtime'.running /\ runtime'.rev < saved' => Final'.pending
  BY <1>1, <1>3, <1>9, <1>10, QueuedFacts
<1>13. Views(task'.views) BY <1>6, <1>7, <1>8
<1> QED BY <1>1, <1>3, <1>8, <1>10, <1>11, <1>12, <1>13, QueuedFacts DEF ExecStep

LEMMA ExecApplyCheck ==
    ASSUME TInv, ApplyCheck, UNCHANGED clientVars
    PROVE  ExecStep
<1> DEFINE validating == [view EXCEPT !.phase = "validating"]
           dirty == [view EXCEPT !.phase = "dirty"]
           applying == [view EXCEPT !.phase = "applying"]
           next == [task EXCEPT !.pc = "commit", !.was = runtime.running,
                        !.views = <<validating, applying>>]
<1>1. /\ task.pc = "queued" /\ task.cmd.op = "apply" /\ task.cmd.op \notin RulesOps
      /\ UNCHANGED <<disk, editor, runtime, view, wire, begun, saved>>
  BY DEF ApplyCheck, Executes, RulesOps
<1>2. \/ Reject
      \/ Finish(<<validating, dirty>>, "rejected")
      \/ editor.active /\ task' = next
  BY DEF ApplyCheck
<1>3. IsView(view) /\ DOMAIN task = TaskFields BY <1>1, QueuedFacts
<1>4. /\ IsView(validating)
      /\ IsView(dirty) /\ dirty.pending = view.pending /\ dirty.phase = "dirty"
      /\ IsView(applying) /\ applying.pending = view.pending /\ applying.phase = "applying"
  BY <1>3 DEF IsView, ViewFields
<1> HIDE DEF validating, dirty, applying
<1>5. Views(<<validating, dirty>>) /\ Views(<<validating, applying>>) BY <1>4, ViewSequences
<1>6. CASE Reject BY <1>1, <1>6, ExecReject
<1>7. CASE Finish(<<validating, dirty>>, "rejected")
  <2>1. Final' = dirty BY <1>1, <1>7, Finished, FinalNext
  <2>2. DOMAIN editor' = EditorFields BY <1>1, QueuedFacts
  <2> QED BY <1>1, <1>4, <1>5, <1>7, <2>1, <2>2, ExecEdits
<1>8. CASE editor.active /\ task' = next
  <2>1. /\ DOMAIN task' = TaskFields /\ task'.cmd = task.cmd /\ task'.pc = "commit"
        /\ task'.was = runtime.running /\ task'.views = <<validating, applying>>
    BY <1>3, <1>8 DEF TaskFields
  <2>2. Final' = applying BY <2>1, FinalNext
  <2>3. Dirty(Final') BY <1>4, <2>2 DEF Dirty
  <2>4. /\ editor' = editor /\ runtime' = runtime /\ disk' = disk /\ saved' = saved
        /\ disk.rev >= disk.rev
    BY <1>1, QueuedFacts
  <2>5. Final'.pending = view.pending BY <1>4, <2>2
  <2>6. runtime'.running /\ runtime'.rev < saved' => Final'.pending
    BY <1>1, <2>4, <2>5, QueuedFacts
  <2> QED BY <1>1, <1>5, <1>8, <2>1, <2>3, <2>4, <2>6, QueuedFacts DEF ExecStep
<1> QED BY <1>2, <1>6, <1>7, <1>8

-----------------------------------------------------------------------------
(* The steps of the tray keep the invariant *)

LEMMA ClientUnchanged ==
    ASSUME CInv, UNCHANGED <<copy, rules, fields, typed>>
    PROVE  CInv'
<1>1. ClientShape' BY DEF CInv, ClientShape, IsView
<1>2. RulesBuffer' BY DEF CInv, RulesBuffer
<1>3. FieldEditors' BY DEF CInv, FieldEditors
<1> QED BY <1>1, <1>2, <1>3 DEF CInv

LEMMA NotAnswered ==
    ASSUME WireInv, task.pc # "idle"
    PROVE  wire = <<>> \/ wire = <<StateSlot>>
BY DEF WireInv, WireForm, Answered

LEMMA ExecKeeps ==
    ASSUME IInv, ExecStep
    PROVE  IInv'
<1>1. TInv /\ WireInv /\ RulesSent /\ CInv BY DEF IInv
<1>2. /\ task.pc = "queued" /\ task'.pc \in {"publish", "commit"}
      /\ view' = view /\ wire' = wire /\ copy' = copy /\ busy' = busy /\ rules' = rules
      /\ fields' = fields /\ typed' = typed /\ task'.cmd = task.cmd
  BY DEF ExecStep, clientVars
<1>3. TrayShape'
  <2>1. saved <= disk'.rev BY <1>1, <1>2, QueuedFacts DEF ExecStep
  <2> QED BY <1>1, <1>2, <2>1, QueuedFacts DEF ExecStep, TrayShape
<1>4. ExecutorPlace' BY <1>2 DEF ExecStep, ExecutorPlace
<1>5. DraftShown' BY DEF ExecStep, DraftShown
<1>6. PendingShown' BY DEF ExecStep, PendingShown
<1>7. WireInv'
  <2>1. wire = <<>> \/ wire = <<StateSlot>> BY <1>1, <1>2, NotAnswered
  <2>2. ~Answered' BY <1>1, <1>2 DEF WireInv, Answered
  <2>3. WireForm' BY <1>2, <2>1 DEF WireForm
  <2> QED BY <1>1, <1>2, <2>2, <2>3 DEF WireInv, Agree
<1>8. RulesSent'
  <2>1. ASSUME task'.pc = "publish", task'.cmd.op \in RulesOps, task'.outcome \in {"ok", "saved"}
        PROVE  rules'.sentDraft \in Nat /\ Final'.rev > rules'.sentDraft
    <3>1. task.cmd.rev = rules.sentDraft /\ rules.sentDraft \in Nat
      BY <1>1, <1>2, <2>1 DEF RulesSent
    <3>2. task.cmd.rev \in {NoRev, view.rev} /\ Final'.rev > view.rev
      BY <1>2, <2>1 DEF ExecStep
    <3>3. task.cmd.rev = view.rev BY <3>1, <3>2 DEF NoRev
    <3> QED BY <1>2, <3>1, <3>2, <3>3
  <2>2. ASSUME NEW a \in Elements(wire'), IsAnswer(a), a.ok, a.op \in RulesOps
        PROVE  rules'.sentDraft \in Nat /\ view'.rev > rules'.sentDraft
    BY <1>1, <1>2, <2>2 DEF RulesSent
  <2> QED BY <1>2, <2>1, <2>2 DEF RulesSent
<1>9. CInv' BY <1>1, <1>2, ClientUnchanged
<1> QED BY <1>3, <1>4, <1>5, <1>6, <1>7, <1>8, <1>9 DEF IInv, TInv

\* A step that changes neither task, view nor wire.
LEMMA PipeUnchanged ==
    ASSUME WireInv, RulesSent, UNCHANGED <<task, view, wire, clientVars>>
    PROVE  WireInv' /\ RulesSent'
<1>1. /\ task' = task /\ view' = view /\ wire' = wire /\ copy' = copy /\ busy' = busy
      /\ rules' = rules
  BY DEF clientVars
<1>2. WireInv' BY <1>1 DEF WireInv, WireForm, Answered, Agree
<1>3. RulesSent' BY <1>1 DEF RulesSent, Final
<1> QED BY <1>2, <1>3

\* The service, the files and the command line beside the executor.
LEMMA BesideKeeps ==
    ASSUME IInv, UNCHANGED <<task, view, wire, editor, begun, saved, clientVars>>,
           DOMAIN disk' = DiskFields, disk'.rev \in Nat, disk'.rev >= disk.rev,
           runtime'.rev \in Int,
           \/ runtime' = runtime
           \/ ~runtime'.running
           \/ ~(runtime'.rev < saved) /\ task.pc \in {"idle", "queued"}
    PROVE  IInv'
<1>1. TInv /\ WireInv /\ RulesSent /\ CInv BY DEF IInv
<1>2. /\ task' = task /\ view' = view /\ wire' = wire /\ editor' = editor /\ begun' = begun
      /\ saved' = saved /\ Final' = Final
  BY DEF Final
<1>3. TrayShape'
  <2>1. saved <= disk'.rev BY <1>1 DEF TInv, TrayShape
  <2> QED BY <1>1, <1>2, <2>1 DEF TInv, TrayShape
<1>4. ExecutorPlace' BY <1>1, <1>2 DEF TInv, ExecutorPlace
<1>5. DraftShown' BY <1>1, <1>2 DEF TInv, DraftShown
<1>6. PendingShown' BY <1>1, <1>2 DEF TInv, PendingShown
<1>7. WireInv' /\ RulesSent' BY <1>1, PipeUnchanged
<1>8. CInv' BY <1>1, ClientUnchanged DEF clientVars
<1> QED BY <1>3, <1>4, <1>5, <1>6, <1>7, <1>8 DEF IInv, TInv

LEMMA ServiceKeeps ==
    ASSUME IInv, MenuCommand \/ RuntimeEnds, UNCHANGED clientVars
    PROVE  IInv'
<1>1. /\ DOMAIN disk = DiskFields /\ disk.rev \in Nat /\ runtime.rev \in Int /\ saved \in Int
      /\ saved <= disk.rev /\ disk.rev >= disk.rev
  BY DEF IInv, TInv, TrayShape
<1>2. /\ UNCHANGED <<task, view, wire, editor, begun, saved, clientVars>>
      /\ disk' = disk
  BY DEF MenuCommand, RuntimeEnds
<1>3. CASE MenuCommand
  <2>1. PICK op \in {"start", "stop", "reload_service"}, ok \in BOOLEAN : ServiceCommand(op, ok)
    BY <1>3 DEF MenuCommand
  <2>2. task.pc \in {"idle", "queued"} BY <1>3 DEF MenuCommand
  <2>3. /\ runtime'.rev \in Int
        /\ runtime'.running /\ runtime'.rev < saved => runtime' = runtime
    BY <1>1, <2>1, ServiceRuns
  <2> QED BY <1>1, <1>2, <2>2, <2>3, BesideKeeps
<1>4. CASE RuntimeEnds
  <2>1. runtime'.rev \in Int /\ ~runtime'.running BY <1>4 DEF RuntimeEnds, Stopped, NoRev
  <2> QED BY <1>1, <1>2, <2>1, BesideKeeps
<1> QED BY <1>3, <1>4

LEMMA CliKeeps ==
    ASSUME IInv, CliBegin \/ CliCommit \/ CliMigrate, UNCHANGED clientVars
    PROVE  IInv'
<1>1. DOMAIN disk = DiskFields /\ disk.rev \in Nat /\ runtime.rev \in Int
  BY DEF IInv, TInv, TrayShape
<1>2. UNCHANGED <<task, view, wire, editor, begun, saved, runtime, clientVars>>
  BY DEF CliBegin, CliCommit, CliMigrate
<1>3. \/ disk' = disk
      \/ \E c : disk' = Saved(disk, c)
      \/ disk' = [disk EXCEPT !.legacy = FALSE, !.rev = @ + 1]
  BY DEF CliBegin, CliCommit, CliMigrate
<1>4. \A c : DOMAIN Saved(disk, c) = DiskFields /\ Saved(disk, c).rev = disk.rev + 1
  BY <1>1 DEF Saved, DiskFields
<1>5. ASSUME disk' = [disk EXCEPT !.legacy = FALSE, !.rev = @ + 1]
      PROVE  DOMAIN disk' = DiskFields /\ disk'.rev = disk.rev + 1
  BY <1>1, <1>5 DEF DiskFields
<1>6. DOMAIN disk' = DiskFields /\ (disk'.rev = disk.rev \/ disk'.rev = disk.rev + 1)
  BY <1>1, <1>3, <1>4, <1>5
<1>7. disk'.rev \in Nat /\ disk'.rev >= disk.rev BY <1>1, <1>6
<1> QED BY <1>1, <1>2, <1>6, <1>7, BesideKeeps

-----------------------------------------------------------------------------
(* The executor publishes *)

LEMMA EmptySequence ==
    ASSUME NEW S, NEW q \in Seq(S), Len(q) = 0
    PROVE  q = <<>>
<1>1. q \in [1..0 -> S] /\ 1..0 = {} OBVIOUS
<1>2. DOMAIN q = {} /\ DOMAIN <<>> = {} BY <1>1
<1>3. q = [i \in {} |-> q[i]] /\ <<>> = [i \in {} |-> <<>>[i]] BY <1>1, <1>2
<1> QED BY <1>3

LEMMA ElementsOf ==
    ASSUME NEW a, NEW b
    PROVE  Elements(<<>>) = {} /\ Elements(<<a>>) = {a} /\ Elements(<<a, b>>) = {a, b}
<1>1. DOMAIN <<a>> = {1} /\ <<a>>[1] = a OBVIOUS
<1>2. DOMAIN <<a, b>> = {1, 2} /\ <<a, b>>[1] = a /\ <<a, b>>[2] = b OBVIOUS
<1>3. DOMAIN <<>> = {} OBVIOUS
<1>4. Elements(<<>>) = {} BY <1>3 DEF Elements
<1>5. Elements(<<a>>) = {a} BY <1>1 DEF Elements
<1>6. Elements(<<a, b>>) = {a, b} BY <1>2 DEF Elements
<1> QED BY <1>4, <1>5, <1>6

LEMMA AnswerIs ==
    ASSUME NEW op, NEW ok \in BOOLEAN
    PROVE  /\ IsAnswer(Answer(op, ok)) /\ Answer(op, ok).op = op /\ Answer(op, ok).ok = ok
           /\ Answer(op, ok) # StateSlot
BY DEF IsAnswer, Answer, StateSlot

LEMMA StateIsNoAnswer == ~IsAnswer(StateSlot) /\ StateSlot.kind # "answer"
BY DEF IsAnswer, Answer, StateSlot

LEMMA StateOnly == \A a \in Elements(<<StateSlot>>) : ~IsAnswer(a)
<1>1. Elements(<<StateSlot>>) = {StateSlot} BY ElementsOf
<1> QED BY <1>1, StateIsNoAnswer

LEMMA PushFirst ==
    PushState(<<>>) = <<StateSlot>> /\ PushState(<<StateSlot>>) = <<StateSlot>>
<1> DEFINE S == StateSlot
<1>1. Append(<<>>, S) = <<S>> BY ShortSequences
<1> HIDE DEF S
<1>2. ~Contains(<<>>, S) BY DEF Contains
<1>3. Contains(<<S>>, S)
  <2>1. 1 \in 1..Len(<<S>>) /\ <<S>>[1] = S OBVIOUS
  <2> QED BY <2>1 DEF Contains
<1> QED BY <1>1, <1>2, <1>3 DEF PushState, S

LEMMA PushStates ==
    ASSUME NEW a, a # StateSlot
    PROVE  /\ PushState(Append(<<>>, a)) = <<a, StateSlot>>
           /\ PushState(Append(<<StateSlot>>, a)) = <<StateSlot, a>>
<1> DEFINE S == StateSlot
<1>1. /\ Append(<<>>, a) = <<a>> /\ Append(<<S>>, a) = <<S, a>>
      /\ Append(<<a>>, S) = <<a, S>>
  BY ShortSequences
<1> HIDE DEF S
<1>2. ~Contains(<<a>>, S)
  <2>1. \A i \in 1..Len(<<a>>) : <<a>>[i] = a OBVIOUS
  <2> QED BY <2>1 DEF Contains, S
<1>3. Contains(<<S, a>>, S)
  <2>1. 1 \in 1..Len(<<S, a>>) /\ <<S, a>>[1] = S OBVIOUS
  <2> QED BY <2>1 DEF Contains
<1> QED BY <1>1, <1>2, <1>3 DEF PushState, S

\* Publishing a view leaves what the last one will show.
LEMMA PublishFinal ==
    ASSUME TInv, PublishNext
    PROVE  /\ task.pc \in {"publish", "commit"}
           /\ DOMAIN task' = TaskFields /\ task'.pc = task.pc /\ task'.cmd = task.cmd
           /\ task'.outcome = task.outcome /\ task'.was = task.was
           /\ IsView(view') /\ Views(task'.views) /\ SameShown(Final', Final)
<1> DEFINE q == task.views
           S == Elements(q)
           h == [Head(q) EXCEPT !.busy = TRUE]
<1>1. /\ task.pc # "queued" /\ q # <<>> /\ view' = h
      /\ task' = [task EXCEPT !.views = Tail(q)]
  BY DEF PublishNext, TInv, TrayShape, TaskFields
<1>2. q \in Seq(S) /\ (\A v \in S : IsView(v)) /\ DOMAIN task = TaskFields
  BY DEF TInv, TrayShape, Views
<1>3. task.pc \in {"publish", "commit"} BY <1>1 DEF TInv, ExecutorPlace
<1>4. /\ DOMAIN task' = TaskFields /\ task'.pc = task.pc /\ task'.cmd = task.cmd
      /\ task'.outcome = task.outcome /\ task'.was = task.was /\ task'.views = Tail(q)
  BY <1>1, <1>2 DEF TaskFields
<1>5. Final = q[Len(q)] BY <1>1 DEF Final
<1> HIDE DEF q, S
<1>6. /\ Len(q) \in Nat /\ Len(q) > 0 /\ Head(q) \in S /\ Head(q) = q[1] /\ Tail(q) \in Seq(S)
      /\ Len(Tail(q)) = Len(q) - 1
      /\ \A i \in 1..Len(q) - 1 : Tail(q)[i] = q[i + 1]
  BY <1>1, <1>2
<1>7. Views(Tail(q)) BY <1>2, <1>6, ViewSequence
<1>8. IsView(h) /\ SameShown(h, Head(q))
  BY <1>2, <1>6 DEF IsView, ViewFields, SameShown
<1> HIDE DEF h
<1>9. CASE Len(q) = 1
  <2>1. Len(Tail(q)) = 0 BY <1>6, <1>9
  <2>2. Tail(q) = <<>> BY <1>6, <2>1, EmptySequence
  <2>3. Final' = h BY <1>1, <1>4, <2>2, FinalNext
  <2> QED BY <1>1, <1>3, <1>4, <1>5, <1>6, <1>7, <1>8, <1>9, <2>3
<1>10. CASE Len(q) > 1
  <2>1. Tail(q) # <<>>
    <3>1. Len(<<>>) = 0 OBVIOUS
    <3>2. Len(Tail(q)) # 0 BY <1>6, <1>10
    <3> QED BY <3>1, <3>2
  <2>2. Final' = Tail(q)[Len(Tail(q))] BY <1>4, <2>1 DEF Final
  <2>3. Len(q) - 1 \in 1..Len(q) - 1 /\ (Len(q) - 1) + 1 = Len(q) BY <1>6, <1>10
  <2>4. Final' = q[Len(q)] BY <1>6, <2>2, <2>3
  <2>5. Len(q) \in 1..Len(q) BY <1>6
  <2>6. IsView(q[Len(q)]) BY <1>2, <2>5
  <2> QED BY <1>1, <1>3, <1>4, <1>5, <1>7, <1>8, <2>4, <2>6 DEF SameShown
<1> QED BY <1>6, <1>9, <1>10

LEMMA PublishNextKeeps ==
    ASSUME IInv, PublishNext, UNCHANGED clientVars
    PROVE  IInv'
<1>1. TInv /\ WireInv /\ RulesSent /\ CInv BY DEF IInv
<1>2. /\ task.pc \in {"publish", "commit"}
      /\ DOMAIN task' = TaskFields /\ task'.pc = task.pc /\ task'.cmd = task.cmd
      /\ task'.outcome = task.outcome /\ task'.was = task.was
      /\ IsView(view') /\ Views(task'.views)
      /\ Final'.phase = Final.phase /\ Final'.pending = Final.pending /\ Final'.rev = Final.rev
  BY <1>1, PublishFinal DEF SameShown
<1>3. /\ disk' = disk /\ editor' = editor /\ runtime' = runtime /\ begun' = begun
      /\ saved' = saved /\ wire' = PushState(wire) /\ copy' = copy /\ busy' = busy
      /\ rules' = rules /\ fields' = fields /\ typed' = typed
  BY DEF PublishNext, clientVars
<1>4. TrayShape' BY <1>1, <1>2, <1>3 DEF TInv, TrayShape
<1>5. Dirty(Final') <=> Dirty(Final) BY <1>2 DEF Dirty
<1>6. ExecutorPlace' BY <1>1, <1>2, <1>3, <1>5 DEF TInv, ExecutorPlace
<1>7. DraftShown' BY <1>1, <1>3, <1>5 DEF TInv, DraftShown
<1>8. PendingShown' BY <1>1, <1>2, <1>3 DEF TInv, PendingShown
<1>9. wire' = <<StateSlot>>
  <2>1. wire = <<>> \/ wire = <<StateSlot>> BY <1>1, <1>2, NotAnswered
  <2> QED BY <1>3, <2>1, PushFirst
<1>10. \A a \in Elements(wire') : ~IsAnswer(a) BY <1>9, StateOnly
<1>11. WireInv'
  <2>1. wire' # <<>> /\ wire'[1] = StateSlot BY <1>9
  <2> QED BY <1>1, <1>2, <1>3, <1>9, <1>10, <2>1 DEF WireInv, WireForm, Answered
<1>12. RulesSent' BY <1>1, <1>2, <1>3, <1>10 DEF RulesSent
<1>13. CInv' BY <1>1, <1>3, ClientUnchanged
<1> QED BY <1>4, <1>6, <1>7, <1>8, <1>11, <1>12, <1>13 DEF IInv, TInv

LEMMA IdleIs ==
    /\ DOMAIN Idle = TaskFields /\ Idle.pc = "idle" /\ Idle.views = <<>> /\ Idle.cmd = Nobody
    /\ ~Idle.was
BY DEF Idle, TaskFields

LEMMA PublishOutcomeKeeps ==
    ASSUME IInv, PublishOutcome, UNCHANGED clientVars
    PROVE  IInv'
<1> DEFINE ok == task.outcome \in {"ok", "saved"}
           a == Answer(task.cmd.op, ok)
<1>1. TInv /\ WireInv /\ RulesSent /\ CInv BY DEF IInv
<1>2. task.pc = "publish" /\ task.views = <<>> /\ task' = Idle BY DEF PublishOutcome
<1>3. /\ disk' = disk /\ editor' = editor /\ runtime' = runtime /\ begun' = begun
      /\ saved' = saved /\ copy' = copy /\ busy' = busy /\ rules' = rules /\ fields' = fields
      /\ typed' = typed /\ view' = [view EXCEPT !.busy = FALSE]
  BY DEF PublishOutcome, clientVars
<1>4. wire' = PushState(IF task.cmd.op = "load" THEN wire ELSE Append(wire, a))
  BY DEF PublishOutcome
<1>5. IsView(view) /\ Final = view BY <1>1, <1>2 DEF TInv, TrayShape, Final
<1>6. /\ IsView(view') /\ view'.phase = view.phase /\ view'.pending = view.pending
      /\ Agree(view', view)
  BY <1>3, <1>5 DEF IsView, ViewFields, Agree
<1>7. task'.views = <<>> /\ task'.pc = "idle" /\ DOMAIN task' = TaskFields BY <1>2, IdleIs
<1>8. Final' = view' BY <1>7, FinalNext
<1>9. Views(<<>>) BY <1>5, ViewSequences
<1>10. TrayShape' BY <1>1, <1>3, <1>6, <1>7, <1>9 DEF TInv, TrayShape
<1>11. ExecutorPlace' BY <1>7 DEF ExecutorPlace
<1>12. DraftShown' BY <1>1, <1>3, <1>5, <1>6, <1>8 DEF TInv, DraftShown, Dirty
<1>13. PendingShown'
  <2>1. task.pc \notin {"reload", "begin"} /\ task'.pc \notin {"reload", "begin"} BY <1>2, <1>7
  <2>2. runtime'.running /\ runtime'.rev < saved' => view.pending
    BY <1>1, <1>3, <1>5, <2>1 DEF TInv, PendingShown
  <2>3. Final'.pending = view.pending BY <1>6, <1>8
  <2> QED BY <2>1, <2>2, <2>3 DEF PendingShown
<1>14. wire = <<>> \/ wire = <<StateSlot>> BY <1>1, <1>2, NotAnswered
<1>15. IsAnswer(a) /\ a.op = task.cmd.op /\ a.ok = ok /\ a # StateSlot
  <2>1. ok \in BOOLEAN OBVIOUS
  <2> HIDE DEF ok
  <2> QED BY <2>1, AnswerIs
<1> HIDE DEF a
<1>16. ASSUME task.cmd.op = "load" PROVE WireInv' /\ RulesSent'
  <2>1. wire' = <<StateSlot>> BY <1>4, <1>14, <1>16, PushFirst
  <2>2. \A x \in Elements(wire') : ~IsAnswer(x) BY <2>1, StateOnly
  <2>3. WireInv'
    <3>1. wire' # <<>> /\ wire'[1] = StateSlot BY <2>1
    <3> QED BY <1>7, <2>1, <2>2, <3>1 DEF WireInv, WireForm, Answered
  <2>4. RulesSent' BY <1>7, <2>2 DEF RulesSent
  <2> QED BY <2>3, <2>4
<1>17. ASSUME task.cmd.op # "load" PROVE WireInv' /\ RulesSent'
  <2>1. wire' \in {<<a, StateSlot>>, <<StateSlot, a>>} BY <1>4, <1>14, <1>15, <1>17, PushStates
  <2>2. Elements(wire') = {a, StateSlot}
    <3>1. /\ Elements(<<a, StateSlot>>) = {a, StateSlot}
          /\ Elements(<<StateSlot, a>>) = {StateSlot, a}
      BY ElementsOf
    <3> QED BY <2>1, <3>1
  <2>3. WireForm' BY <1>15, <2>1, <2>2 DEF WireForm
  <2>4. busy' # Nobody BY <1>1, <1>2, <1>3, <1>17 DEF WireInv
  <2>5. wire' = <<>> \/ wire'[1] # StateSlot => Agree(copy', view')
    <3>1. CASE wire = <<>>
      <4>1. Agree(copy, view) BY <1>1, <3>1 DEF WireInv
      <4> QED BY <1>3, <1>6, <4>1 DEF Agree
    <3>2. CASE wire = <<StateSlot>>
      <4>1. wire' = <<StateSlot, a>> BY <1>4, <1>15, <1>17, <3>2, PushStates
      <4> QED BY <4>1
    <3> QED BY <1>14, <3>1, <3>2
  <2>6. WireInv' BY <1>7, <2>3, <2>4, <2>5 DEF WireInv, Agree
  <2>7. ASSUME NEW x \in Elements(wire'), IsAnswer(x), x.ok, x.op \in RulesOps
        PROVE  rules'.sentDraft \in Nat /\ view'.rev > rules'.sentDraft
    <3>1. x = a BY <2>2, <2>7, StateIsNoAnswer
    <3>2. rules.sentDraft \in Nat /\ view.rev > rules.sentDraft
      BY <1>1, <1>2, <1>5, <1>15, <2>7, <3>1 DEF RulesSent
    <3> QED BY <1>3, <1>6, <3>2 DEF Agree
  <2>8. RulesSent' BY <1>7, <2>7 DEF RulesSent
  <2> QED BY <2>6, <2>8
<1>18. CInv' BY <1>1, <1>3, ClientUnchanged
<1> QED BY <1>10, <1>11, <1>12, <1>13, <1>16, <1>17, <1>18 DEF IInv, TInv

-----------------------------------------------------------------------------
(* The steps of an apply *)

LEMMA ApplyPipe ==
    ASSUME IInv, task.pc \in {"commit", "reload", "begin"},
           UNCHANGED <<view, wire, clientVars>>,
           task'.pc \in {"publish", "reload", "begin"}, task'.cmd = task.cmd
    PROVE  WireInv' /\ RulesSent' /\ CInv'
<1>1. TInv /\ WireInv /\ RulesSent /\ CInv BY DEF IInv
<1>2. /\ view' = view /\ wire' = wire /\ copy' = copy /\ busy' = busy /\ rules' = rules
      /\ fields' = fields /\ typed' = typed
  BY DEF clientVars
<1>3. task.cmd.op = "apply" BY <1>1 DEF TInv, ExecutorPlace
<1>4. ~Answered' BY <1>1, <1>2 DEF WireInv, Answered
<1>5. WireInv' BY <1>1, <1>2, <1>3, <1>4 DEF WireInv, WireForm, Agree
<1>6. RulesSent' BY <1>1, <1>2, <1>3 DEF RulesSent, RulesOps
<1>7. CInv' BY <1>1, <1>2, ClientUnchanged
<1> QED BY <1>5, <1>6, <1>7

LEMMA ApplyFails ==
    ASSUME IInv, ApplyStale \/ ApplyFault, UNCHANGED clientVars
    PROVE  IInv'
<1> DEFINE w == [view EXCEPT !.phase = "dirty"]
<1>1. /\ task.pc = "commit" /\ task.views = <<>>
      /\ task' = [task EXCEPT !.pc = "publish", !.views = <<w>>, !.outcome = "failed"]
      /\ UNCHANGED <<disk, editor, runtime, view, wire, begun, saved>>
  BY DEF ApplyStale, ApplyFault, Finish
<1>2. TInv BY DEF IInv
<1>3. IsView(view) /\ Final = view /\ DOMAIN task = TaskFields
  BY <1>1, <1>2 DEF TInv, TrayShape, Final
<1>4. /\ DOMAIN task' = TaskFields /\ task'.pc = "publish" /\ task'.cmd = task.cmd
      /\ task'.views = <<w>>
  BY <1>1, <1>3 DEF TaskFields
<1>5. IsView(w) /\ w.phase = "dirty" /\ w.pending = view.pending BY <1>3 DEF IsView, ViewFields
<1> HIDE DEF w
<1>6. Final' = w BY <1>4, FinalNext
<1>7. Views(<<w>>) BY <1>5, ViewSequences
<1>8. Dirty(Final') BY <1>5, <1>6 DEF Dirty
<1>9. TrayShape' BY <1>1, <1>2, <1>4, <1>7 DEF TInv, TrayShape, IsView
<1>10. ExecutorPlace' BY <1>4 DEF ExecutorPlace
<1>11. DraftShown' BY <1>8 DEF DraftShown
<1>12. PendingShown' BY <1>1, <1>2, <1>3, <1>5, <1>6 DEF TInv, PendingShown
<1>13. WireInv' /\ RulesSent' /\ CInv' BY <1>1, <1>4, ApplyPipe
<1> QED BY <1>9, <1>10, <1>11, <1>12, <1>13 DEF IInv, TInv

LEMMA ApplyCommitKeeps ==
    ASSUME IInv, ApplyCommit, UNCHANGED clientVars
    PROVE  IInv'
<1>1. /\ task.pc = "commit" /\ task.views = <<>> /\ disk' = Saved(disk, editor.draft)
      /\ editor' = [editor EXCEPT !.active = FALSE, !.draft = disk'.conf, !.rev = disk'.rev]
      /\ saved' = disk'.rev /\ task' = [task EXCEPT !.pc = "reload"]
      /\ UNCHANGED <<runtime, view, wire, begun>>
  BY DEF ApplyCommit
<1>2. TInv BY DEF IInv
<1>3. /\ IsView(view) /\ Final = view /\ DOMAIN task = TaskFields /\ DOMAIN editor = EditorFields
      /\ DOMAIN disk = DiskFields /\ disk.rev \in Nat /\ runtime.rev \in Int
  BY <1>1, <1>2 DEF TInv, TrayShape, Final
<1>4. /\ DOMAIN task' = TaskFields /\ task'.pc = "reload" /\ task'.cmd = task.cmd
      /\ task'.views = <<>> /\ task'.was = task.was
  BY <1>1, <1>3 DEF TaskFields
<1>5. DOMAIN Saved(disk, editor.draft) = DiskFields /\ Saved(disk, editor.draft).rev = disk.rev + 1
  BY <1>3 DEF Saved, DiskFields
<1>6. /\ DOMAIN disk' = DiskFields /\ disk'.rev \in Nat /\ saved' \in Int /\ saved' <= disk'.rev
  BY <1>1, <1>3, <1>5
<1>7. DOMAIN editor' = EditorFields /\ ~editor'.active BY <1>1, <1>3 DEF EditorFields
<1>8. Views(<<>>) BY <1>3, ViewSequences
<1>9. TrayShape' BY <1>1, <1>3, <1>4, <1>6, <1>7, <1>8 DEF TrayShape, IsView
<1>10. task.cmd.op = "apply" /\ (~task.was => ~runtime.running)
  BY <1>1, <1>2 DEF TInv, ExecutorPlace
<1>11. ExecutorPlace' BY <1>1, <1>4, <1>7, <1>10 DEF ExecutorPlace
<1>12. DraftShown' BY <1>7 DEF DraftShown
<1>13. PendingShown' BY <1>1, <1>4, <1>10 DEF PendingShown
<1>14. WireInv' /\ RulesSent' /\ CInv' BY <1>1, <1>4, ApplyPipe
<1> QED BY <1>9, <1>11, <1>12, <1>13, <1>14 DEF IInv, TInv

LEMMA ApplyReloadKeeps ==
    ASSUME IInv, ApplyReload, UNCHANGED clientVars
    PROVE  IInv'
<1>1. TInv BY DEF IInv
<1>2. task.pc = "reload" /\ UNCHANGED <<disk, editor, view, wire, begun, saved>>
  BY DEF ApplyReload
<1>3. /\ IsView(view) /\ task.views = <<>> /\ DOMAIN task = TaskFields
      /\ disk.rev \in Nat /\ saved \in Int /\ saved <= disk.rev /\ runtime.rev \in Int
      /\ task.cmd.op = "apply" /\ ~editor.active /\ (~task.was => ~runtime.running)
  BY <1>1, <1>2 DEF TInv, TrayShape, ExecutorPlace
<1>4. PICK ok \in BOOLEAN :
        /\ task' = [task EXCEPT !.pc = "begin", !.was = ok]
        /\ \/ ~task.was /\ ok = TRUE /\ UNCHANGED runtime
           \/ ServiceCommand("reload_service", ok)
  <2>1. CASE ~task.was
    <3>1. task' = [task EXCEPT !.pc = "begin", !.was = TRUE] /\ UNCHANGED runtime
      BY <2>1 DEF ApplyReload
    <3>2. TRUE \in BOOLEAN OBVIOUS
    <3> QED BY <2>1, <3>1, <3>2
  <2>2. CASE task.was BY <2>2 DEF ApplyReload
  <2> QED BY <2>1, <2>2
<1>5. /\ DOMAIN task' = TaskFields /\ task'.pc = "begin" /\ task'.cmd = task.cmd
      /\ task'.views = <<>> /\ task'.was = ok
  BY <1>3, <1>4 DEF TaskFields
<1>6. runtime'.rev \in Int /\ (runtime'.running /\ runtime'.rev < saved => ~ok)
  <2>1. CASE ~task.was /\ ok = TRUE /\ UNCHANGED runtime BY <1>3, <2>1
  <2>2. CASE ServiceCommand("reload_service", ok) BY <1>3, <2>2, ServiceRuns
  <2> QED BY <1>4, <2>1, <2>2
<1>7. Views(<<>>) BY <1>3, ViewSequences
<1>8. TrayShape' BY <1>1, <1>2, <1>5, <1>6, <1>7 DEF TInv, TrayShape, IsView
<1>9. ExecutorPlace' BY <1>2, <1>3, <1>5 DEF ExecutorPlace
<1>10. DraftShown' BY <1>2, <1>3 DEF DraftShown
<1>11. PendingShown' BY <1>2, <1>5, <1>6 DEF PendingShown
<1>12. WireInv' /\ RulesSent' /\ CInv' BY <1>2, <1>5, ApplyPipe
<1> QED BY <1>8, <1>9, <1>10, <1>11, <1>12 DEF IInv, TInv

LEMMA ApplyBeginKeeps ==
    ASSUME IInv, ApplyBegin, UNCHANGED clientVars
    PROVE  IInv'
<1> DEFINE p == [view EXCEPT !.pending = ~task.was]
           v == Begun(p, repo.rev)
           r == Rebuilt(v, repo.conf, NoKey, view.id, FALSE)
<1>1. TInv BY DEF IInv
<1>2. task.pc = "begin" /\ UNCHANGED <<disk, runtime, view, wire, saved>> BY DEF ApplyBegin
<1>3. PICK o : task' = [task EXCEPT !.pc = "publish", !.views = <<v, r>>, !.outcome = o]
  BY DEF ApplyBegin, Finish
<1>4. /\ editor' = [active |-> TRUE, rev |-> repo.rev, draft |-> repo.conf, next |-> -1]
      /\ begun' = repo.conf
  BY DEF ApplyBegin, BeginEditor
<1>5. /\ IsView(view) /\ DOMAIN task = TaskFields /\ task.cmd.op = "apply"
      /\ (runtime.running /\ runtime.rev < saved => ~task.was)
  BY <1>1, <1>2 DEF TInv, TrayShape, ExecutorPlace, PendingShown
<1>6. IsView(p) /\ (p.pending <=> ~task.was) BY <1>5 DEF IsView, ViewFields
<1> HIDE DEF p
<1>7. IsView(v) /\ v.pending = p.pending BY <1>6, BegunView
<1> HIDE DEF v
<1>8. SameShown(r, v) BY <1>7, RebuiltView
<1> HIDE DEF r
<1>9. IsView(r) /\ (r.pending <=> ~task.was) BY <1>6, <1>7, <1>8 DEF SameShown
<1>10. /\ DOMAIN task' = TaskFields /\ task'.pc = "publish" /\ task'.cmd = task.cmd
       /\ task'.views = <<v, r>>
  BY <1>3, <1>5 DEF TaskFields
<1>11. Final' = r BY <1>10, FinalNext
<1>12. Views(<<v, r>>) BY <1>7, <1>9, ViewSequences
<1>13. DOMAIN editor' = EditorFields /\ editor'.draft = begun' BY <1>4 DEF EditorFields
<1>14. TrayShape' BY <1>1, <1>2, <1>10, <1>12, <1>13 DEF TInv, TrayShape, IsView
<1>15. ExecutorPlace' BY <1>10 DEF ExecutorPlace
<1>16. DraftShown' BY <1>13 DEF DraftShown
<1>17. PendingShown'
  <2>1. runtime' = runtime /\ saved' = saved /\ task'.pc # "begin" BY <1>2, <1>10
  <2>2. Final'.pending <=> ~task.was BY <1>9, <1>11
  <2> QED BY <1>5, <2>1, <2>2 DEF PendingShown
<1>18. WireInv' /\ RulesSent' /\ CInv' BY <1>2, <1>10, ApplyPipe
<1> QED BY <1>14, <1>15, <1>16, <1>17, <1>18 DEF IInv, TInv

-----------------------------------------------------------------------------
(* A field editor *)

\* What EditableFieldModel::apply does to a buffer.
LEMMA FieldsApplyIs ==
    ASSUME NEW x, DOMAIN x = BufferFields, NEW server, NEW kept
    PROVE  LET y == FieldsApply(x, server, kept)
           IN  /\ DOMAIN y = BufferFields /\ y.key = x.key /\ y.await = x.await
               /\ y.server = server
               /\ y.draft = [f \in DOMAIN server |-> IF f \in kept THEN x.draft[f] ELSE server[f]]
               /\ y.edited = [f \in DOMAIN server |->
                                IF f \in DOMAIN x.edited THEN x.edited[f] ELSE 0]
               /\ y.local = x.local /\ y.sentLocal = x.sentLocal
BY DEF FieldsApply, BufferFields

\* A buffer that is synced with a view shows it once it is settled, and keeps the
\* input u that the view does not show.
LEMMA SyncKeeps ==
    ASSUME NEW e \in Editors, NEW b, NEW t, NEW v, NEW since, NEW u,
           BufferShape(b), Inputs(b, t),
           \A f \in DOMAIN u :
                /\ f \in DOMAIN t /\ u[f] = t[f] /\ t[f].key = KeyOf(e, v)
                /\ f \in DOMAIN FieldsOf(e, v) /\ t[f].value # FieldsOf(e, v)[f]
    PROVE  EditorKept(Synced(e, b, v), u, e, v, since)
<1> DEFINE key == KeyOf(e, v)
           server == FieldsOf(e, v)
           kept == {f \in DOMAIN b.edited : b.await /\ key = b.key /\ b.edited[f] > b.sentLocal}
           y == FieldsApply([b EXCEPT !.key = key, !.await = FALSE], server, kept)
           z == Synced(e, b, v)
<1> HIDE DEF key, server
<1>1. \/ z = b /\ b.key = key /\ (b.await \/ FieldsDirty(b))
      \/ z = y /\ (key # b.key \/ b.await \/ ~FieldsDirty(b))
  <2> DEFINE c0 == key # b.key
             a0 == b.await /\ ~c0
             k0 == {f \in DOMAIN b.edited : a0 /\ b.edited[f] > b.sentLocal}
             y0 == FieldsApply([b EXCEPT !.key = key, !.await = FALSE], server, k0)
  <2>1. z = IF ~c0 /\ b.await /\ v.rev <= b.sentDraft THEN b
            ELSE IF ~c0 /\ FieldsDirty(b) /\ ~b.await THEN b
            ELSE y0
    BY DEF Synced, FieldsSync, key, server
  <2>2. k0 = kept OBVIOUS
  <2>3. y0 = y BY <2>2
  <2> HIDE DEF y, y0, z, k0, kept
  <2> QED BY <2>1, <2>3
<1>2. \A f \in DOMAIN u :
        /\ f \in DOMAIN t /\ u[f] = t[f] /\ t[f].key = key
        /\ f \in DOMAIN server /\ t[f].value # server[f]
  BY DEF key, server
<1>3. CASE z = b /\ b.key = key /\ (b.await \/ FieldsDirty(b))
  <2>1. ~Settled(b, e, since) BY <1>3 DEF Settled
  <2>2. Inputs(b, u) BY <1>2 DEF Inputs
  <2> QED BY <1>3, <2>1, <2>2 DEF EditorKept, key
<1>4. CASE z = y /\ (key # b.key \/ b.await \/ ~FieldsDirty(b))
  <2>1. /\ DOMAIN y = BufferFields /\ y.key = key /\ y.await = FALSE /\ y.server = server
        /\ y.draft = [f \in DOMAIN server |-> IF f \in kept THEN b.draft[f] ELSE server[f]]
        /\ y.edited = [f \in DOMAIN server |->
                         IF f \in DOMAIN b.edited THEN b.edited[f] ELSE 0]
        /\ y.local = b.local /\ y.sentLocal = b.sentLocal
    <3> DEFINE x == [b EXCEPT !.key = key, !.await = FALSE]
    <3>1. /\ DOMAIN x = BufferFields /\ x.key = key /\ x.await = FALSE /\ x.local = b.local
          /\ x.sentLocal = b.sentLocal /\ x.draft = b.draft /\ x.edited = b.edited
      BY DEF BufferShape, BufferFields
    <3> HIDE DEF kept, x
    <3>2. LET a == FieldsApply(x, server, kept)
          IN  /\ DOMAIN a = BufferFields /\ a.key = x.key /\ a.await = x.await
              /\ a.server = server
              /\ a.draft = [f \in DOMAIN server |-> IF f \in kept THEN x.draft[f] ELSE server[f]]
              /\ a.edited = [f \in DOMAIN server |->
                                IF f \in DOMAIN x.edited THEN x.edited[f] ELSE 0]
              /\ a.local = x.local /\ a.sentLocal = x.sentLocal
      BY <3>1, FieldsApplyIs
    <3> QED BY <3>1, <3>2 DEF x
  <2> HIDE DEF y
  <2>2. BufferShape(y)
    <3>1. /\ b.local \in Nat /\ b.sentLocal \in Nat /\ b.sentLocal <= b.local
          /\ \A f \in DOMAIN b.edited : b.edited[f] \in Nat /\ b.edited[f] <= b.local
      BY DEF BufferShape
    <3>2. \A f \in DOMAIN y.edited : y.edited[f] \in Nat /\ y.edited[f] <= y.local
      BY <2>1, <3>1
    <3> QED BY <2>1, <3>1, <3>2 DEF BufferShape
  <2>3. ASSUME NEW f \in DOMAIN u
        PROVE  DOMAIN u[f] = EntryFields /\ (~u[f].resent => EntryKept(y, u[f], f))
    <3>1. DOMAIN u[f] = EntryFields BY <1>2, <2>3 DEF Inputs
    <3>2. ASSUME ~u[f].resent PROVE EntryKept(y, u[f], f)
      <4>1. EntryKept(b, u[f], f) BY <1>2, <2>3, <3>2 DEF Inputs
      <4>2. b.key = key /\ f \in DOMAIN server /\ u[f].value # server[f]
        BY <1>2, <2>3, <4>1 DEF EntryKept
      <4>3. FieldsDirty(b) BY <4>1 DEF EntryKept, FieldsDirty
      <4>4. b.await BY <1>4, <4>2, <4>3
      <4>5. f \in kept BY <4>1, <4>2, <4>4 DEF EntryKept, BufferShape
      <4>6. y.draft[f] = u[f].value BY <2>1, <4>1, <4>2, <4>5 DEF EntryKept
      <4> QED BY <1>2, <2>1, <2>3, <4>2, <4>6 DEF EntryKept
    <3> QED BY <3>1, <3>2
  <2>4. Inputs(y, u) BY <2>3 DEF Inputs
  <2> QED BY <1>4, <2>1, <2>2, <2>4 DEF EditorKept, key, server
<1> QED BY <1>1, <1>3, <1>4

\* A reset gives the input up and shows the copy, unless a snapshot is awaited.
LEMMA ResetKeeps ==
    ASSUME NEW e \in Editors, NEW b, NEW v, NEW since, NEW u, BufferShape(b), DOMAIN u = {}
    PROVE  EditorKept(FieldsReset(e, b, v), u, e, v, since)
<1> DEFINE x == [b EXCEPT !.draft = b.server, !.local = @ + 1,
                          !.edited = [f \in DOMAIN @ |-> b.local + 1]]
<1>1. /\ DOMAIN x = BufferFields /\ x.draft = b.server /\ x.server = b.server
      /\ x.local = b.local + 1 /\ x.sentLocal = b.sentLocal
      /\ x.edited = [f \in DOMAIN b.edited |-> b.local + 1]
  BY DEF BufferShape, BufferFields
<1> HIDE DEF x
<1>2. BufferShape(x)
  <2>1. b.local \in Nat /\ b.sentLocal \in Nat /\ b.sentLocal <= b.local BY DEF BufferShape
  <2>2. DOMAIN b.edited = DOMAIN b.server BY DEF BufferShape
  <2>3. x.local \in Nat /\ x.sentLocal \in Nat /\ x.sentLocal <= x.local BY <1>1, <2>1
  <2>4. \A f \in DOMAIN x.edited : x.edited[f] \in Nat /\ x.edited[f] <= x.local
    BY <1>1, <2>1
  <2> QED BY <1>1, <2>2, <2>3, <2>4 DEF BufferShape
<1>3. Inputs(x, u) BY DEF Inputs
<1>4. EditorKept(Synced(e, x, v), u, e, v, since) BY <1>2, <1>3, SyncKeeps
<1> QED BY <1>4 DEF FieldsReset, x

-----------------------------------------------------------------------------
(* The rules editor *)

\* A view leaves input in the editor that it does not show itself.
LEMMA RulesSyncKeeps ==
    ASSUME NEW b, NEW t, NEW c, NEW v, NEW u, RulesKept(b, t, c),
           u # NoInput => u = t /\ t.key = v.key /\ t.text # RulesTextOf(v)
    PROVE  RulesKept(RulesSync(b, v), u, v) /\ RulesSync(b, v).sentDraft = b.sentDraft
<1> DEFINE next == RulesTextOf(v)
           z == RulesSync(b, v)
<1>1. DOMAIN b = RulesFields /\ ~b.await BY DEF RulesKept
<1> DEFINE settled == [b EXCEPT !.await = IF v.key # b.key THEN FALSE ELSE @]
           y == [settled EXCEPT !.key = v.key, !.server = next, !.text = next, !.dirty = FALSE]
<1>2. \/ z = b /\ v.key = b.key /\ b.dirty
      \/ z = y /\ (v.key # b.key \/ ~b.dirty)
  BY <1>1 DEF RulesSync
<1>3. CASE z = b /\ v.key = b.key /\ b.dirty BY <1>3 DEF RulesKept
<1>4. CASE z = y /\ (v.key # b.key \/ ~b.dirty)
  <2>1. /\ DOMAIN settled = RulesFields /\ ~settled.await /\ settled.edit = b.edit
        /\ settled.sentEdit = b.sentEdit /\ settled.sentDraft = b.sentDraft
    BY <1>1 DEF RulesFields
  <2> HIDE DEF settled
  <2>2. /\ DOMAIN y = RulesFields /\ ~y.await /\ y.edit = b.edit /\ y.sentEdit = b.sentEdit
        /\ y.sentDraft = b.sentDraft /\ y.key = v.key
    BY <2>1 DEF RulesFields
  <2> HIDE DEF y
  <2>3. u = NoInput BY <1>4 DEF RulesKept
  <2> QED BY <1>4, <2>2, <2>3 DEF RulesKept
<1> QED BY <1>2, <1>3, <1>4

\* The answer to a save finds the copy newer than the save: the editor takes it
\* over at once, and keeps what was typed since.
LEMMA RulesSaveKeeps ==
    ASSUME NEW b, NEW t, NEW c, NEW u, RulesKept(b, t, c),
           c.rev \in Nat, b.sentDraft \in Nat, c.rev > b.sentDraft,
           u # NoInput => u = t /\ t.text # RulesTextOf(c) /\ b.edit # b.sentEdit
    PROVE  RulesKept(RulesSync([b EXCEPT !.await = TRUE], c), u, c)
<1> DEFINE next == RulesTextOf(c)
           x == [b EXCEPT !.await = TRUE]
           z == RulesSync(x, c)
<1>1. /\ DOMAIN x = RulesFields /\ x.await /\ x.key = b.key /\ x.sentDraft = b.sentDraft
      /\ x.edit = b.edit /\ x.sentEdit = b.sentEdit /\ x.text = b.text
  BY DEF RulesKept, RulesFields
<1>2. b.key = c.key /\ b.edit \in Nat /\ b.sentEdit \in Nat /\ b.sentEdit <= b.edit
  BY DEF RulesKept
<1> HIDE DEF x
<1>3. ~(c.rev <= x.sentDraft) BY <1>1
<1> DEFINE settled == [x EXCEPT !.await = FALSE]
           kept == [settled EXCEPT !.server = next, !.dirty = x.text # next]
           taken == [settled EXCEPT !.key = c.key, !.server = next, !.text = next, !.dirty = FALSE]
<1>4. z = IF x.edit > x.sentEdit THEN kept ELSE taken BY <1>1, <1>2, <1>3 DEF RulesSync
<1>5. /\ DOMAIN settled = RulesFields /\ ~settled.await /\ settled.edit = b.edit
      /\ settled.sentEdit = b.sentEdit /\ settled.key = c.key /\ settled.text = b.text
  BY <1>1, <1>2 DEF RulesFields
<1> HIDE DEF settled
<1>6. CASE x.edit > x.sentEdit
  <2>1. /\ DOMAIN kept = RulesFields /\ ~kept.await /\ kept.edit = b.edit
        /\ kept.sentEdit = b.sentEdit /\ kept.key = c.key /\ kept.text = b.text
        /\ (kept.dirty <=> x.text # next)
    BY <1>5 DEF RulesFields
  <2>2. z = kept BY <1>4, <1>6
  <2> HIDE DEF kept
  <2>3. u # NoInput => u.key = c.key /\ u.text = b.text /\ x.text # next
    BY <1>1, <1>2 DEF RulesKept
  <2> QED BY <1>2, <2>1, <2>2, <2>3 DEF RulesKept, x
<1>7. CASE ~(x.edit > x.sentEdit)
  <2>1. /\ DOMAIN taken = RulesFields /\ ~taken.await /\ taken.edit = b.edit
        /\ taken.sentEdit = b.sentEdit /\ taken.key = c.key
    BY <1>5 DEF RulesFields
  <2>2. z = taken BY <1>4, <1>7
  <2> HIDE DEF taken
  <2>3. u = NoInput BY <1>1, <1>2, <1>7
  <2> QED BY <1>2, <2>1, <2>2, <2>3 DEF RulesKept, x
<1> QED BY <1>6, <1>7

LEMMA RulesResetKeeps ==
    ASSUME NEW b, NEW t, NEW c, RulesKept(b, t, c)
    PROVE  /\ RulesKept(RulesReset(b), NoInput, c)
           /\ RulesReset(b).sentDraft = b.sentDraft
<1>1. DOMAIN b = RulesFields /\ b.edit \in Nat /\ b.sentEdit \in Nat /\ b.sentEdit <= b.edit
  BY DEF RulesKept
<1>2. /\ DOMAIN RulesReset(b) = RulesFields /\ RulesReset(b).edit = b.edit + 1
      /\ RulesReset(b).sentEdit = b.sentEdit /\ RulesReset(b).key = b.key
      /\ RulesReset(b).await = b.await /\ RulesReset(b).sentDraft = b.sentDraft
  BY <1>1 DEF RulesReset, RulesFields
<1>3. RulesReset(b).edit \in Nat /\ b.sentEdit <= RulesReset(b).edit BY <1>1, <1>2
<1> QED BY <1>1, <1>2, <1>3 DEF RulesKept

-----------------------------------------------------------------------------
(* What the user does in the editors *)

\* A step of the client that sends nothing.
LEMMA LocalStep ==
    ASSUME IInv, UNCHANGED <<disk, editor, runtime, view, task, wire, begun, saved, copy, busy>>,
           rules'.sentDraft = rules.sentDraft
    PROVE  TInv' /\ WireInv' /\ RulesSent'
<1>1. TInv /\ WireInv /\ RulesSent BY DEF IInv
<1>2. Final' = Final BY DEF Final
<1>3. TInv'
  BY <1>1, <1>2 DEF TInv, TrayShape, ExecutorPlace, DraftShown, PendingShown, IsView
<1>4. WireInv' BY <1>1 DEF WireInv, WireForm, Answered, Agree
<1>5. RulesSent' BY <1>1, <1>2 DEF RulesSent
<1> QED BY <1>3, <1>4, <1>5

LEMMA TypeRulesKeeps ==
    ASSUME IInv, TypeRules
    PROVE  IInv'
<1>1. CInv BY DEF IInv
<1>2. UNCHANGED <<disk, editor, runtime, view, task, wire, begun, saved, copy, busy, fields>>
  BY DEF TypeRules
<1>3. PICK n :
        /\ rules' = [rules EXCEPT !.text = n, !.edit = @ + 1, !.dirty = n # rules.server]
        /\ typed' = [typed EXCEPT !.rules =
                        IF n = rules.server THEN NoInput ELSE [key |-> rules.key, text |-> n]]
  BY DEF TypeRules
<1>4. RulesKept(rules, typed.rules, copy) BY <1>1 DEF CInv, RulesBuffer
<1>5. /\ DOMAIN rules' = RulesFields /\ rules'.text = n /\ rules'.edit = rules.edit + 1
      /\ (rules'.dirty <=> n # rules.server) /\ rules'.key = rules.key
      /\ rules'.await = rules.await /\ rules'.sentDraft = rules.sentDraft
      /\ rules'.sentEdit = rules.sentEdit
  BY <1>3, <1>4 DEF RulesKept, RulesFields
<1>6. DOMAIN typed = InputFields BY <1>1 DEF CInv, ClientShape
<1>7. /\ DOMAIN typed' = InputFields /\ typed'.fields = typed.fields /\ typed'.since = typed.since
      /\ typed'.rules = IF n = rules.server THEN NoInput ELSE [key |-> rules.key, text |-> n]
  BY <1>3, <1>6 DEF InputFields
<1>8. RulesBuffer'
  <2>1. rules.edit + 1 \in Nat /\ rules.sentEdit <= rules.edit + 1 /\ rules.sentEdit \in Nat
    BY <1>4 DEF RulesKept
  <2>2. typed'.rules # NoInput =>
            typed'.rules.key = rules.key /\ typed'.rules.text = n /\ n # rules.server
    BY <1>7
  <2> QED BY <1>2, <1>4, <1>5, <2>1, <2>2 DEF RulesBuffer, RulesKept
<1>9. ClientShape' BY <1>1, <1>2, <1>7 DEF CInv, ClientShape, IsView
<1>10. FieldEditors' BY <1>1, <1>2, <1>7 DEF CInv, FieldEditors
<1>11. TInv' /\ WireInv' /\ RulesSent' BY <1>2, <1>5, LocalStep
<1> QED BY <1>8, <1>9, <1>10, <1>11 DEF IInv, CInv

LEMMA EditFieldKeeps ==
    ASSUME IInv, EditField
    PROVE  IInv'
<1>1. CInv BY DEF IInv
<1>2. UNCHANGED <<disk, editor, runtime, view, task, wire, begun, saved, copy, busy, rules>>
  BY DEF EditField
<1>3. PICK e \in Editors, x \in Edits :
        /\ x.field \in DOMAIN fields[e].server
        /\ fields' = [fields EXCEPT ![e] =
                        [fields[e] EXCEPT !.draft[x.field] = x.value, !.local = @ + 1,
                                          !.edited[x.field] = fields[e].local + 1]]
        /\ typed' = [typed EXCEPT
                        !.since = @ \cup {e},
                        !.fields[e] =
                            [f \in IF x.value = fields[e].server[x.field]
                                   THEN DOMAIN @ \ {x.field} ELSE DOMAIN @ \cup {x.field} |->
                                IF f = x.field
                                THEN [key |-> fields[e].key, value |-> x.value, resent |-> FALSE]
                                ELSE @[f]]]
  BY DEF EditField
<1> DEFINE b == fields[e]
           t == typed.fields[e]
           g == x.field
           nb == [b EXCEPT !.draft[g] = x.value, !.local = @ + 1, !.edited[g] = b.local + 1]
           entry == [key |-> b.key, value |-> x.value, resent |-> FALSE]
           nt == [f \in IF x.value = b.server[g] THEN DOMAIN t \ {g} ELSE DOMAIN t \cup {g} |->
                    IF f = g THEN entry ELSE t[f]]
<1>4. /\ DOMAIN typed = InputFields /\ DOMAIN typed.fields = Editors /\ DOMAIN fields = Editors
      /\ IsView(copy) /\ EditorKept(b, t, e, copy, typed.since)
  BY <1>1 DEF CInv, ClientShape, FieldEditors
<1>5. /\ DOMAIN typed' = InputFields /\ typed'.rules = typed.rules
      /\ typed'.since = typed.since \cup {e} /\ typed'.fields = [typed.fields EXCEPT ![e] = nt]
  BY <1>3, <1>4 DEF InputFields
<1>6. fields' = [fields EXCEPT ![e] = nb] BY <1>3
<1>7. BufferShape(b) /\ b.key = KeyOf(e, copy) /\ Inputs(b, t) BY <1>4 DEF EditorKept
<1>8. g \in DOMAIN b.server BY <1>3
<1> HIDE DEF b, t, g
<1>9. /\ DOMAIN nb = BufferFields /\ nb.key = b.key /\ nb.server = b.server /\ nb.await = b.await
      /\ nb.draft = [b.draft EXCEPT ![g] = x.value] /\ nb.local = b.local + 1
      /\ nb.edited = [b.edited EXCEPT ![g] = b.local + 1] /\ nb.sentLocal = b.sentLocal
  BY <1>7 DEF BufferShape, BufferFields
<1> HIDE DEF nb
<1>10. DOMAIN b.draft = DOMAIN b.server /\ DOMAIN b.edited = DOMAIN b.server
  BY <1>7 DEF BufferShape
<1>11. /\ b.local \in Nat /\ b.sentLocal \in Nat /\ b.sentLocal <= b.local
       /\ \A f \in DOMAIN b.edited : b.edited[f] \in Nat /\ b.edited[f] <= b.local
  BY <1>7 DEF BufferShape
<1>12. BufferShape(nb)
  <2>1. nb.local \in Nat /\ nb.sentLocal \in Nat /\ nb.sentLocal <= nb.local BY <1>9, <1>11
  <2>2. ASSUME NEW f \in DOMAIN nb.edited
        PROVE  nb.edited[f] \in Nat /\ nb.edited[f] <= nb.local
    <3>1. f \in DOMAIN b.edited BY <1>9
    <3>2. nb.edited[f] = IF f = g THEN b.local + 1 ELSE b.edited[f] BY <1>9, <3>1
    <3>3. b.edited[f] \in Nat /\ b.edited[f] <= b.local BY <1>11, <3>1
    <3> QED BY <1>9, <1>11, <3>2, <3>3
  <2>3. DOMAIN nb.draft = DOMAIN nb.server /\ DOMAIN nb.edited = DOMAIN nb.server
    BY <1>9, <1>10
  <2> QED BY <1>9, <2>1, <2>2, <2>3 DEF BufferShape
<1>13. ASSUME NEW f \in DOMAIN nt
       PROVE  DOMAIN nt[f] = EntryFields /\ (~nt[f].resent => EntryKept(nb, nt[f], f))
  <2>1. CASE f = g
    <3>1. nt[f] = entry /\ x.value # b.server[g] BY <1>13, <2>1
    <3>2. /\ DOMAIN entry = EntryFields /\ entry.key = b.key /\ entry.value = x.value
      BY DEF EntryFields
    <3>3. nb.draft[f] = x.value /\ nb.edited[f] = b.local + 1 BY <1>8, <1>9, <1>10, <2>1
    <3>4. nb.edited[f] > nb.sentLocal BY <1>9, <1>11, <3>3
    <3> QED BY <1>8, <1>9, <2>1, <3>1, <3>2, <3>3, <3>4 DEF EntryKept
  <2>2. CASE f # g
    <3>1. f \in DOMAIN t /\ nt[f] = t[f] BY <1>13, <2>2
    <3>2. DOMAIN t[f] = EntryFields /\ (~t[f].resent => EntryKept(b, t[f], f))
      BY <1>7, <3>1 DEF Inputs
    <3>3. ASSUME EntryKept(b, t[f], f) PROVE EntryKept(nb, t[f], f)
      <4>1. f \in DOMAIN b.server BY <3>3 DEF EntryKept
      <4>2. nb.draft[f] = b.draft[f] /\ nb.edited[f] = b.edited[f] BY <1>9, <1>10, <2>2, <4>1
      <4> QED BY <1>9, <3>3, <4>1, <4>2 DEF EntryKept
    <3> QED BY <3>1, <3>2, <3>3
  <2> QED BY <2>1, <2>2
<1> HIDE DEF nt
<1>14. EditorKept(nb, nt, e, copy, typed'.since)
  <2>1. Inputs(nb, nt) BY <1>13 DEF Inputs
  <2>2. ~Settled(nb, e, typed'.since) BY <1>5 DEF Settled
  <2> QED BY <1>7, <1>9, <1>12, <2>1, <2>2 DEF EditorKept
<1>15. FieldEditors'
  <2>1. ASSUME NEW d \in Editors
        PROVE  EditorKept(fields'[d], typed'.fields[d], d, copy, typed'.since)
    <3>1. CASE d = e BY <1>4, <1>5, <1>6, <1>14, <3>1
    <3>2. CASE d # e
      <4>1. fields'[d] = fields[d] /\ typed'.fields[d] = typed.fields[d]
        BY <1>4, <1>5, <1>6, <3>2
      <4>2. EditorKept(fields[d], typed.fields[d], d, copy, typed.since)
        BY <1>1 DEF CInv, FieldEditors
      <4> QED BY <1>5, <3>2, <4>1, <4>2 DEF EditorKept, Settled
    <3> QED BY <3>1, <3>2
  <2> QED BY <1>2, <2>1 DEF FieldEditors
<1>16. ClientShape' BY <1>2, <1>4, <1>5, <1>6 DEF ClientShape, IsView
<1>17. RulesBuffer' BY <1>1, <1>2, <1>5 DEF CInv, RulesBuffer
<1>18. TInv' /\ WireInv' /\ RulesSent' BY <1>2, LocalStep
<1> QED BY <1>15, <1>16, <1>17, <1>18 DEF IInv, CInv

LEMMA ResetRulesKeeps ==
    ASSUME IInv, ResetRules
    PROVE  IInv'
<1>1. CInv BY DEF IInv
<1>2. /\ UNCHANGED <<disk, editor, runtime, view, task, wire, begun, saved, copy, busy, fields>>
      /\ rules' = RulesReset(rules) /\ typed' = [typed EXCEPT !.rules = NoInput]
  BY DEF ResetRules, trayVars
<1>3. DOMAIN typed = InputFields BY <1>1 DEF CInv, ClientShape
<1>4. /\ DOMAIN typed' = InputFields /\ typed'.fields = typed.fields /\ typed'.since = typed.since
      /\ typed'.rules = NoInput
  BY <1>2, <1>3 DEF InputFields
<1>5. RulesKept(rules, typed.rules, copy) BY <1>1 DEF CInv, RulesBuffer
<1>6. RulesBuffer' /\ rules'.sentDraft = rules.sentDraft
  BY <1>2, <1>4, <1>5, RulesResetKeeps DEF RulesBuffer
<1>7. ClientShape' BY <1>1, <1>2, <1>4 DEF CInv, ClientShape, IsView
<1>8. FieldEditors' BY <1>1, <1>2, <1>4 DEF CInv, FieldEditors
<1>9. TInv' /\ WireInv' /\ RulesSent' BY <1>2, <1>6, LocalStep
<1> QED BY <1>6, <1>7, <1>8, <1>9 DEF IInv, CInv

LEMMA ResetFieldsKeeps ==
    ASSUME IInv, ResetFields
    PROVE  IInv'
<1>1. CInv BY DEF IInv
<1>2. UNCHANGED <<disk, editor, runtime, view, task, wire, begun, saved, copy, busy, rules>>
  BY DEF ResetFields, trayVars
<1>3. PICK e \in Editors :
        /\ fields' = [fields EXCEPT ![e] = FieldsReset(e, fields[e], copy)]
        /\ typed' = [typed EXCEPT !.fields[e] = <<>>, !.since = @ \ {e}]
  BY DEF ResetFields
<1>4. /\ DOMAIN typed = InputFields /\ DOMAIN typed.fields = Editors /\ DOMAIN fields = Editors
      /\ IsView(copy)
  BY <1>1 DEF CInv, ClientShape
<1>5. /\ DOMAIN typed' = InputFields /\ typed'.rules = typed.rules
      /\ typed'.since = typed.since \ {e} /\ typed'.fields = [typed.fields EXCEPT ![e] = <<>>]
  BY <1>3, <1>4 DEF InputFields
<1>6. \A d \in Editors : EditorKept(fields[d], typed.fields[d], d, copy, typed.since)
  BY <1>1 DEF CInv, FieldEditors
<1>7. EditorKept(FieldsReset(e, fields[e], copy), <<>>, e, copy, typed'.since)
  <2>1. BufferShape(fields[e]) /\ DOMAIN <<>> = {} BY <1>6 DEF EditorKept
  <2> QED BY <2>1, ResetKeeps
<1>8. FieldEditors'
  <2>1. ASSUME NEW d \in Editors
        PROVE  EditorKept(fields'[d], typed'.fields[d], d, copy, typed'.since)
    <3>1. CASE d = e
      <4>1. fields'[d] = FieldsReset(e, fields[e], copy) /\ typed'.fields[d] = <<>>
        BY <1>3, <1>4, <1>5, <3>1
      <4> QED BY <1>7, <3>1, <4>1
    <3>2. CASE d # e
      <4>1. fields'[d] = fields[d] /\ typed'.fields[d] = typed.fields[d]
        BY <1>3, <1>4, <1>5, <3>2
      <4> QED BY <1>5, <1>6, <3>2, <4>1 DEF EditorKept, Settled
    <3> QED BY <3>1, <3>2
  <2> QED BY <1>2, <2>1 DEF FieldEditors
<1>9. ClientShape' BY <1>2, <1>3, <1>4, <1>5 DEF ClientShape, IsView
<1>10. RulesBuffer' BY <1>1, <1>2, <1>5 DEF CInv, RulesBuffer
<1>11. TInv' /\ WireInv' /\ RulesSent' BY <1>2, LocalStep
<1> QED BY <1>8, <1>9, <1>10, <1>11 DEF IInv, CInv

LEMMA NothingTypedIs ==
    /\ DOMAIN NothingTyped = InputFields /\ NothingTyped.rules = NoInput
    /\ DOMAIN NothingTyped.fields = Editors /\ NothingTyped.since = {}
    /\ \A e \in Editors : DOMAIN NothingTyped.fields[e] = {}
<1>1. DOMAIN <<>> = {} OBVIOUS
<1> QED BY <1>1 DEF NothingTyped, InputFields

\* All editors are reset.
LEMMA ResetAll ==
    ASSUME CInv, copy' = copy, rules' = RulesReset(rules),
           fields' = [e \in Editors |-> FieldsReset(e, fields[e], copy)], typed' = NothingTyped
    PROVE  CInv' /\ rules'.sentDraft = rules.sentDraft
<1>1. RulesKept(rules, typed.rules, copy) BY DEF CInv, RulesBuffer
<1>2. RulesBuffer' /\ rules'.sentDraft = rules.sentDraft
  BY <1>1, NothingTypedIs, RulesResetKeeps DEF RulesBuffer
<1>3. ASSUME NEW d \in Editors
      PROVE  EditorKept(fields'[d], typed'.fields[d], d, copy, typed'.since)
  <2>1. BufferShape(fields[d]) BY DEF CInv, FieldEditors, EditorKept
  <2>2. DOMAIN typed'.fields[d] = {} BY NothingTypedIs
  <2>3. fields'[d] = FieldsReset(d, fields[d], copy) OBVIOUS
  <2> QED BY <2>1, <2>2, <2>3, ResetKeeps
<1>4. FieldEditors' BY <1>3 DEF FieldEditors
<1>5. ClientShape' BY NothingTypedIs DEF CInv, ClientShape, IsView
<1> QED BY <1>2, <1>4, <1>5 DEF CInv

LEMMA DiscardLocalKeeps ==
    ASSUME IInv, DiscardLocal
    PROVE  IInv'
<1>1. CInv BY DEF IInv
<1>2. UNCHANGED <<disk, editor, runtime, view, task, wire, begun, saved, copy, busy>>
  BY DEF DiscardLocal, trayVars
<1>3. CInv' /\ rules'.sentDraft = rules.sentDraft BY <1>1, ResetAll DEF DiscardLocal
<1>4. TInv' /\ WireInv' /\ RulesSent' BY <1>2, <1>3, LocalStep
<1> QED BY <1>3, <1>4 DEF IInv

-----------------------------------------------------------------------------
(* Commands of the client *)

LEMMA SubmitKeeps ==
    ASSUME IInv, NEW op, NEW key, NEW arg, Submit(op, key, arg),
           op \in RulesOps => rules'.sentDraft = copy.rev
    PROVE  TInv' /\ WireInv' /\ RulesSent' /\ copy' = copy
<1> DEFINE cmd == [op |-> op, key |-> key, arg |-> arg, rev |-> copy.rev, base |-> copy.base]
<1>1. TInv /\ WireInv /\ RulesSent /\ IsView(copy) BY DEF IInv, CInv, ClientShape
<1>2. /\ busy = Nobody /\ task = Idle /\ busy' = cmd
      /\ task' = [Idle EXCEPT !.pc = "queued", !.cmd = busy']
      /\ view' = [view EXCEPT !.busy = TRUE] /\ wire' = PushState(wire)
      /\ UNCHANGED <<disk, editor, runtime, begun, saved, copy>>
  BY DEF Submit
<1>3. cmd.op = op /\ cmd.rev = copy.rev OBVIOUS
<1>4. cmd # Nobody
  <2>1. copy.rev \in Nat BY <1>1 DEF IsView
  <2>2. Nobody.rev = -1 BY DEF Nobody, NoRev
  <2>3. copy.rev # -1 BY <2>1
  <2> QED BY <1>3, <2>2, <2>3
<1> HIDE DEF cmd
<1>5. task.pc = "idle" /\ task.views = <<>> BY <1>2, IdleIs
<1>6. /\ DOMAIN task' = TaskFields /\ task'.pc = "queued" /\ task'.cmd = cmd /\ task'.views = <<>>
  BY <1>2, IdleIs DEF TaskFields
<1>7. IsView(view) /\ Final = view BY <1>1, <1>5 DEF TInv, TrayShape, Final
<1>8. IsView(view') /\ view'.phase = view.phase /\ view'.pending = view.pending
  BY <1>2, <1>7 DEF IsView, ViewFields
<1>9. Final' = view' BY <1>6, FinalNext
<1>10. Views(<<>>) BY <1>7, ViewSequences
<1>11. TrayShape' BY <1>1, <1>2, <1>6, <1>8, <1>10 DEF TInv, TrayShape
<1>12. ExecutorPlace' BY <1>6 DEF ExecutorPlace
<1>13. DraftShown' BY <1>1, <1>2, <1>7, <1>8, <1>9 DEF TInv, DraftShown, Dirty
<1>14. PendingShown'
  <2>1. task.pc \notin {"reload", "begin"} /\ task'.pc \notin {"reload", "begin"} BY <1>5, <1>6
  <2>2. runtime'.running /\ runtime'.rev < saved' => view.pending
    BY <1>1, <1>2, <1>7, <2>1 DEF TInv, PendingShown
  <2>3. Final'.pending = view.pending BY <1>8, <1>9
  <2> QED BY <2>1, <2>2, <2>3 DEF PendingShown
<1>15. wire' = <<StateSlot>>
  <2>1. wire = <<>> \/ wire = <<StateSlot>>
    BY <1>1, <1>2 DEF WireInv, WireForm, Answered
  <2> QED BY <1>2, <2>1, PushFirst
<1>16. \A a \in Elements(wire') : ~IsAnswer(a) BY <1>15, StateOnly
<1>17. WireInv'
  <2>1. wire' # <<>> /\ wire'[1] = StateSlot BY <1>15
  <2> QED BY <1>2, <1>4, <1>15, <1>16, <2>1 DEF WireInv, WireForm, Answered
<1>18. RulesSent'
  <2>1. copy.rev \in Nat BY <1>1 DEF IsView
  <2> QED BY <1>3, <1>6, <1>16, <2>1 DEF RulesSent
<1> QED BY <1>2, <1>11, <1>12, <1>13, <1>14, <1>17, <1>18 DEF TInv

\* A command that leaves the editors as they are.
LEMMA PlainCommands ==
    ASSUME IInv, CreateNew \/ MoveSelected \/ ApplyAll \/ OtherCommand
    PROVE  IInv'
<1>1. PICK op, key, arg : Submit(op, key, arg) /\ op \notin RulesOps
  BY DEF CreateNew, MoveSelected, ApplyAll, OtherCommand, Simple, RulesOps
<1>2. UNCHANGED <<rules, fields, typed>>
  BY DEF CreateNew, MoveSelected, ApplyAll, OtherCommand, Simple
<1>3. TInv' /\ WireInv' /\ RulesSent' /\ copy' = copy BY <1>1, SubmitKeeps
<1>4. CInv' BY <1>2, <1>3, ClientUnchanged DEF IInv
<1> QED BY <1>3, <1>4 DEF IInv

\* A command that gives up input.
LEMMA GivingCommands ==
    ASSUME IInv, SelectOther \/ RemoveSelected \/ DiscardAll \/ ReloadAll
    PROVE  IInv'
<1>1. PICK op, key, arg : Submit(op, key, arg) /\ op \notin RulesOps
  BY DEF SelectOther, RemoveSelected, DiscardAll, ReloadAll, RulesOps
<1>2. PICK es : typed' = GivenUp(typed, es)
  BY DEF SelectOther, RemoveSelected, DiscardAll, ReloadAll
<1>3. UNCHANGED <<rules, fields>>
  BY DEF SelectOther, RemoveSelected, DiscardAll, ReloadAll
<1>4. TInv' /\ WireInv' /\ RulesSent' /\ copy' = copy BY <1>1, SubmitKeeps
<1>5. ClientShape /\ RulesBuffer /\ FieldEditors BY DEF IInv, CInv
<1>6. /\ DOMAIN typed' = InputFields /\ typed'.rules = NoInput /\ typed'.since = typed.since
      /\ typed'.fields = [e \in Editors |-> IF e \in es THEN <<>> ELSE typed.fields[e]]
  BY <1>2, <1>5 DEF GivenUp, ClientShape, InputFields
<1>7. ClientShape' BY <1>3, <1>4, <1>5, <1>6 DEF ClientShape, IsView
<1>8. RulesBuffer' BY <1>3, <1>4, <1>5, <1>6 DEF RulesBuffer, RulesKept
<1>9. ASSUME NEW d \in Editors
      PROVE  EditorKept(fields[d], typed'.fields[d], d, copy, typed.since)
  <2>1. EditorKept(fields[d], typed.fields[d], d, copy, typed.since) BY <1>5 DEF FieldEditors
  <2>2. CASE d \in es
    <3>1. DOMAIN typed'.fields[d] = {} BY <1>6, <2>2
    <3> QED BY <2>1, <3>1 DEF EditorKept, Inputs
  <2>3. CASE d \notin es
    <3>1. typed'.fields[d] = typed.fields[d] BY <1>6, <2>3
    <3> QED BY <2>1, <3>1
  <2> QED BY <2>2, <2>3
<1>10. FieldEditors' BY <1>3, <1>4, <1>6, <1>9 DEF FieldEditors
<1> QED BY <1>4, <1>7, <1>8, <1>10 DEF IInv, CInv

LEMMA SaveRulesKeeps ==
    ASSUME IInv, SaveRules
    PROVE  IInv'
<1>1. PICK op \in {"replace", "format"} : Submit(op, rules.key, rules.text)
  BY DEF SaveRules
<1>2. /\ rules' = [rules EXCEPT !.sentDraft = copy.rev, !.sentEdit = rules.edit]
      /\ UNCHANGED <<fields, typed>>
  BY DEF SaveRules
<1>3. ClientShape /\ RulesBuffer /\ FieldEditors BY DEF IInv, CInv
<1>4. RulesKept(rules, typed.rules, copy) BY <1>3 DEF RulesBuffer
<1>5. /\ DOMAIN rules' = RulesFields /\ rules'.sentDraft = copy.rev /\ rules'.sentEdit = rules.edit
      /\ rules'.edit = rules.edit /\ rules'.key = rules.key /\ rules'.await = rules.await
      /\ rules'.text = rules.text /\ rules'.dirty = rules.dirty
  BY <1>2, <1>4 DEF RulesKept, RulesFields
<1>6. TInv' /\ WireInv' /\ RulesSent' /\ copy' = copy BY <1>1, <1>5, SubmitKeeps
<1>7. rules.edit <= rules.edit BY <1>4 DEF RulesKept
<1>8. RulesBuffer' BY <1>2, <1>4, <1>5, <1>6, <1>7 DEF RulesBuffer, RulesKept
<1>9. ClientShape' BY <1>2, <1>3, <1>6 DEF ClientShape, IsView
<1>10. FieldEditors' BY <1>2, <1>3, <1>6 DEF FieldEditors
<1> QED BY <1>6, <1>8, <1>9, <1>10 DEF IInv, CInv

LEMMA SaveFieldsKeeps ==
    ASSUME IInv, SaveFields
    PROVE  IInv'
<1>1. PICK e \in Editors :
        /\ \E arg : Submit(IF e = "profile" THEN "save_profile" ELSE "update_application",
                           fields[e].key, arg)
        /\ fields' = [fields EXCEPT ![e] = [fields[e] EXCEPT !.sentDraft = copy.rev,
                                                             !.sentLocal = fields[e].local]]
        /\ typed' = [typed EXCEPT !.fields[e] = Resent(@, fields[e].await)]
        /\ UNCHANGED rules
  BY DEF SaveFields
<1> DEFINE b == fields[e]
           t == typed.fields[e]
           nb == [b EXCEPT !.sentDraft = copy.rev, !.sentLocal = b.local]
           nt == Resent(t, b.await)
<1>2. PICK op, key, arg : Submit(op, key, arg) /\ op \notin RulesOps BY <1>1 DEF RulesOps
<1>3. TInv' /\ WireInv' /\ RulesSent' /\ copy' = copy BY <1>2, SubmitKeeps
<1>4. ClientShape /\ RulesBuffer /\ FieldEditors BY DEF IInv, CInv
<1>5. /\ DOMAIN typed = InputFields /\ DOMAIN typed.fields = Editors /\ DOMAIN fields = Editors
      /\ EditorKept(b, t, e, copy, typed.since)
  BY <1>4 DEF ClientShape, FieldEditors
<1>6. /\ DOMAIN typed' = InputFields /\ typed'.rules = typed.rules /\ typed'.since = typed.since
      /\ typed'.fields = [typed.fields EXCEPT ![e] = nt]
  <2>1. typed' = [typed EXCEPT !.fields[e] = nt] BY <1>1
  <2> HIDE DEF nt
  <2> QED BY <1>5, <2>1 DEF InputFields
<1>7. fields' = [fields EXCEPT ![e] = nb] BY <1>1
<1>8. BufferShape(b) /\ b.key = KeyOf(e, copy) /\ Inputs(b, t) BY <1>5 DEF EditorKept
<1> HIDE DEF b, t
<1>9. /\ DOMAIN nb = BufferFields /\ nb.key = b.key /\ nb.server = b.server /\ nb.await = b.await
      /\ nb.draft = b.draft /\ nb.local = b.local /\ nb.edited = b.edited
      /\ nb.sentLocal = b.local
  BY <1>8 DEF BufferShape, BufferFields
<1> HIDE DEF nb
<1>10. BufferShape(nb)
  <2>1. b.local \in Nat /\ b.local <= b.local BY <1>8 DEF BufferShape
  <2> QED BY <1>8, <1>9, <2>1 DEF BufferShape
<1>11. ASSUME NEW f \in DOMAIN nt
       PROVE  DOMAIN nt[f] = EntryFields /\ (~nt[f].resent => EntryKept(nb, nt[f], f))
  <2>1. f \in DOMAIN t /\ nt[f] = [t[f] EXCEPT !.resent = @ \/ b.await] BY <1>11 DEF Resent
  <2>2. DOMAIN t[f] = EntryFields /\ (~t[f].resent => EntryKept(b, t[f], f))
    BY <1>8, <2>1 DEF Inputs
  <2>3. /\ DOMAIN nt[f] = EntryFields /\ (nt[f].resent <=> t[f].resent \/ b.await)
        /\ nt[f].key = t[f].key /\ nt[f].value = t[f].value
    BY <2>1, <2>2 DEF EntryFields
  <2> HIDE DEF nt
  <2>4. ASSUME ~nt[f].resent PROVE EntryKept(nb, nt[f], f)
    <3>1. EntryKept(b, t[f], f) /\ ~b.await BY <2>2, <2>3, <2>4
    <3> QED BY <1>9, <2>3, <3>1 DEF EntryKept
  <2> QED BY <2>3, <2>4
<1> HIDE DEF nt
<1>12. EditorKept(nb, nt, e, copy, typed.since)
  <2>1. Inputs(nb, nt) BY <1>11 DEF Inputs
  <2>2. Settled(nb, e, typed.since) => nb.server = FieldsOf(e, copy)
    BY <1>5, <1>9 DEF EditorKept, Settled, FieldsDirty
  <2> QED BY <1>8, <1>9, <1>10, <2>1, <2>2 DEF EditorKept
<1>13. FieldEditors'
  <2>1. ASSUME NEW d \in Editors
        PROVE  EditorKept(fields'[d], typed'.fields[d], d, copy, typed.since)
    <3>1. CASE d = e BY <1>5, <1>6, <1>7, <1>12, <3>1
    <3>2. CASE d # e
      <4>1. fields'[d] = fields[d] /\ typed'.fields[d] = typed.fields[d]
        BY <1>5, <1>6, <1>7, <3>2
      <4> QED BY <1>4, <4>1 DEF FieldEditors
    <3> QED BY <3>1, <3>2
  <2> QED BY <1>3, <1>6, <2>1 DEF FieldEditors
<1>14. ClientShape' BY <1>3, <1>4, <1>5, <1>6, <1>7 DEF ClientShape, IsView
<1>15. RulesBuffer' BY <1>1, <1>3, <1>4, <1>6 DEF RulesBuffer
<1> QED BY <1>3, <1>13, <1>14, <1>15 DEF IInv, CInv

-----------------------------------------------------------------------------
(* What the client is sent *)

\* What is still input is not shown by the view, and is for the profile it selects.
StillInput(w, t, v) ==
    /\ DOMAIN w = InputFields /\ w.since = t.since /\ DOMAIN w.fields = Editors
    /\ w.rules # NoInput =>
        w.rules = t.rules /\ t.rules.key = v.key /\ t.rules.text # RulesTextOf(v)
    /\ \A e \in Editors : \A f \in DOMAIN w.fields[e] :
        /\ f \in DOMAIN t.fields[e] /\ w.fields[e][f] = t.fields[e][f]
        /\ t.fields[e][f].key = KeyOf(e, v) /\ f \in DOMAIN FieldsOf(e, v)
        /\ t.fields[e][f].value # FieldsOf(e, v)[f]

LEMMA StillTypedIs ==
    ASSUME NEW t, DOMAIN t = InputFields, NEW v
    PROVE  StillInput(StillTyped(t, v), t, v)
<1> DEFINE kept(e) == {f \in DOMAIN t.fields[e] :
                            /\ t.fields[e][f].key = KeyOf(e, v)
                            /\ f \in DOMAIN FieldsOf(e, v)
                            /\ t.fields[e][f].value # FieldsOf(e, v)[f]}
           left == IF t.rules # NoInput
                      /\ (t.rules.key # v.key \/ t.rules.text = RulesTextOf(v))
                   THEN NoInput ELSE t.rules
           entries == [e \in Editors |-> [f \in kept(e) |-> t.fields[e][f]]]
           w == StillTyped(t, v)
<1>1. w = [t EXCEPT !.rules = left, !.fields = entries] BY DEF StillTyped
<1> HIDE DEF left, entries, w
<1>2. DOMAIN w = InputFields /\ w.since = t.since /\ w.rules = left /\ w.fields = entries
  BY <1>1 DEF InputFields
<1>3. left # NoInput => left = t.rules /\ t.rules.key = v.key /\ t.rules.text # RulesTextOf(v)
  BY DEF left
<1>4. DOMAIN entries = Editors BY DEF entries
<1>5. ASSUME NEW e \in Editors, NEW f \in DOMAIN entries[e]
      PROVE  /\ f \in DOMAIN t.fields[e] /\ entries[e][f] = t.fields[e][f]
             /\ t.fields[e][f].key = KeyOf(e, v) /\ f \in DOMAIN FieldsOf(e, v)
             /\ t.fields[e][f].value # FieldsOf(e, v)[f]
  <2>1. entries[e] = [g \in kept(e) |-> t.fields[e][g]] BY DEF entries
  <2> HIDE DEF kept
  <2>2. f \in kept(e) /\ entries[e][f] = t.fields[e][f] BY <1>5, <2>1
  <2> QED BY <2>2 DEF kept
<1>6. StillInput(w, t, v) BY <1>2, <1>3, <1>4, <1>5 DEF StillInput
<1> QED BY <1>6 DEF w

LEMMA ReceiveStateKeeps ==
    ASSUME IInv, ReceiveState
    PROVE  IInv'
<1>1. TInv /\ WireInv /\ RulesSent /\ CInv BY DEF IInv
<1>2. /\ wire # <<>> /\ Head(wire) = StateSlot /\ wire' = Tail(wire) /\ copy' = view
      /\ rules' = RulesSync(rules, view)
      /\ fields' = [e \in Editors |-> Synced(e, fields[e], view)]
      /\ typed' = [StillTyped(typed, view) EXCEPT !.since = {}]
      /\ UNCHANGED <<disk, editor, runtime, view, task, begun, saved, busy>>
  BY DEF ReceiveState
<1>3. ClientShape /\ RulesBuffer /\ FieldEditors BY <1>1 DEF CInv
<1>4. IsView(view) BY <1>1 DEF TInv, TrayShape
<1> DEFINE w == StillTyped(typed, view)
<1>5. StillInput(w, typed, view)
  <2>1. DOMAIN typed = InputFields BY <1>3 DEF ClientShape
  <2> QED BY <2>1, StillTypedIs
<1>6. typed' = [w EXCEPT !.since = {}] BY <1>2
<1> HIDE DEF w
<1>7. /\ DOMAIN typed' = InputFields /\ typed'.rules = w.rules /\ typed'.fields = w.fields
      /\ typed'.since = {}
  BY <1>5, <1>6 DEF StillInput, InputFields
<1>8. RulesBuffer' /\ rules'.sentDraft = rules.sentDraft
  <2>1. RulesKept(rules, typed.rules, copy) BY <1>3 DEF RulesBuffer
  <2>2. /\ RulesKept(RulesSync(rules, view), w.rules, view)
        /\ RulesSync(rules, view).sentDraft = rules.sentDraft
    BY <1>5, <2>1, RulesSyncKeeps DEF StillInput
  <2> QED BY <1>2, <1>7, <2>2 DEF RulesBuffer
<1>9. FieldEditors'
  <2>1. ASSUME NEW e \in Editors
        PROVE  EditorKept(fields'[e], typed'.fields[e], e, view, typed'.since)
    <3>1. BufferShape(fields[e]) /\ Inputs(fields[e], typed.fields[e])
      BY <1>3 DEF FieldEditors, EditorKept
    <3>2. EditorKept(Synced(e, fields[e], view), w.fields[e], e, view, {})
      BY <1>5, <3>1, SyncKeeps DEF StillInput
    <3> QED BY <1>2, <1>7, <3>2
  <2> QED BY <1>2, <2>1 DEF FieldEditors
<1>10. ClientShape' BY <1>2, <1>3, <1>4, <1>5, <1>7 DEF ClientShape, IsView, StillInput
<1>11. TInv'
  <2>1. Final' = Final BY <1>2 DEF Final
  <2> QED BY <1>1, <1>2, <2>1
    DEF TInv, TrayShape, ExecutorPlace, DraftShown, PendingShown, IsView
<1>12. \/ wire = <<StateSlot>> /\ wire' = <<>>
       \/ \E a : IsAnswer(a) /\ wire = <<StateSlot, a>> /\ wire' = <<a>>
  <2>1. CASE wire = <<StateSlot>> BY <1>2, <2>1
  <2>2. CASE \E a \in Elements(wire) :
                IsAnswer(a) /\ wire \in {<<a>>, <<a, StateSlot>>, <<StateSlot, a>>}
    <3>1. PICK a : IsAnswer(a) /\ wire \in {<<a>>, <<a, StateSlot>>, <<StateSlot, a>>} BY <2>2
    <3>2. a # StateSlot BY <3>1, StateIsNoAnswer
    <3>3. Head(<<a>>) = a /\ Head(<<a, StateSlot>>) = a OBVIOUS
    <3>4. wire = <<StateSlot, a>> BY <1>2, <3>1, <3>2, <3>3
    <3>5. Tail(<<StateSlot, a>>) = <<a>> OBVIOUS
    <3> QED BY <1>2, <3>1, <3>4, <3>5
  <2> QED BY <1>1, <1>2, <2>1, <2>2 DEF WireInv, WireForm
<1>13. ASSUME NEW x \in Elements(wire') PROVE x \in Elements(wire)
  <2>1. CASE wire' = <<>> BY <1>13, <2>1, ElementsOf
  <2>2. CASE \E a : IsAnswer(a) /\ wire = <<StateSlot, a>> /\ wire' = <<a>>
    <3>1. PICK a : wire = <<StateSlot, a>> /\ wire' = <<a>> BY <2>2
    <3>2. Elements(<<a>>) = {a} /\ Elements(<<StateSlot, a>>) = {StateSlot, a} BY ElementsOf
    <3> QED BY <1>13, <3>1, <3>2
  <2> QED BY <1>12, <2>1, <2>2
<1>14. WireInv'
  <2>1. WireForm'
    <3>1. CASE wire' = <<>> BY <3>1 DEF WireForm
    <3>2. CASE \E a : IsAnswer(a) /\ wire = <<StateSlot, a>> /\ wire' = <<a>>
      <4>1. PICK a : IsAnswer(a) /\ wire' = <<a>> BY <3>2
      <4>2. Elements(<<a>>) = {a} BY ElementsOf
      <4> QED BY <4>1, <4>2 DEF WireForm
    <3> QED BY <1>12, <3>1, <3>2
  <2>2. Answered' => Answered BY <1>13 DEF Answered
  <2>3. Agree(copy', view') BY <1>2 DEF Agree
  <2> QED BY <1>1, <1>2, <2>1, <2>2, <2>3 DEF WireInv, Agree
<1>15. RulesSent'
  <2>1. Final' = Final BY <1>2 DEF Final
  <2> QED BY <1>1, <1>2, <1>8, <1>13, <2>1 DEF RulesSent
<1> QED BY <1>8, <1>9, <1>10, <1>11, <1>14, <1>15 DEF IInv, CInv

\* An editor that saved awaits the snapshot of the save: the input that was typed
\* since the save was sent is kept.
LEMMA AwaitKeeps ==
    ASSUME NEW e \in Editors, NEW b, NEW t, NEW v, NEW since, NEW s, NEW u,
           BufferShape(b), Inputs(b, t),
           \A f \in DOMAIN s :
                /\ f \in DOMAIN t /\ s[f] = t[f]
                /\ ~(f \in DOMAIN b.edited /\ b.edited[f] <= b.sentLocal),
           \A f \in DOMAIN u :
                /\ f \in DOMAIN s /\ u[f] = s[f] /\ s[f].key = KeyOf(e, v)
                /\ f \in DOMAIN FieldsOf(e, v) /\ s[f].value # FieldsOf(e, v)[f]
    PROVE  EditorKept(Synced(e, [b EXCEPT !.await = TRUE], v), u, e, v, since)
<1> DEFINE x == [b EXCEPT !.await = TRUE]
<1>1. /\ DOMAIN x = BufferFields /\ x.key = b.key /\ x.server = b.server /\ x.draft = b.draft
      /\ x.edited = b.edited /\ x.local = b.local /\ x.sentLocal = b.sentLocal
  BY DEF BufferShape, BufferFields
<1> HIDE DEF x
<1>2. BufferShape(x) BY <1>1 DEF BufferShape
<1>3. ASSUME NEW f \in DOMAIN s
      PROVE  DOMAIN s[f] = EntryFields /\ (~s[f].resent => EntryKept(x, s[f], f))
  <2>1. f \in DOMAIN t /\ s[f] = t[f] BY <1>3
  <2>2. DOMAIN s[f] = EntryFields /\ (~s[f].resent => EntryKept(b, s[f], f))
    BY <2>1 DEF Inputs
  <2>3. ASSUME EntryKept(b, s[f], f) PROVE EntryKept(x, s[f], f)
    <3>1. f \in DOMAIN b.edited BY <2>3 DEF EntryKept, BufferShape
    <3>2. b.edited[f] \in Nat /\ b.sentLocal \in Nat BY <3>1 DEF BufferShape
    <3>3. ~(b.edited[f] <= b.sentLocal) BY <1>3, <3>1
    <3>4. b.edited[f] > b.sentLocal BY <3>2, <3>3
    <3> QED BY <1>1, <2>3, <3>4 DEF EntryKept
  <2> QED BY <2>2, <2>3
<1>4. Inputs(x, s) BY <1>3 DEF Inputs
<1>5. EditorKept(Synced(e, x, v), u, e, v, since) BY <1>2, <1>4, SyncKeeps
<1> QED BY <1>5 DEF x

LEMMA ReceiveAnswerKeeps ==
    ASSUME IInv, ReceiveAnswer
    PROVE  IInv'
<1> DEFINE a == Head(wire)
           savedRules == a.ok /\ a.op \in RulesOps
           saver == CASE a.op = "save_profile" -> {"profile"}
                      [] a.op = "update_application" -> {"application"}
                      [] OTHER -> {}
           saves(e) == a.ok /\ e \in saver
           resets == a.ok /\ (a.op = "reload" \/ (a.op = "discard" /\ busy.arg = "local"))
           stored(e) == {f \in DOMAIN typed.fields[e] :
                            f \in DOMAIN fields[e].edited
                            /\ fields[e].edited[f] <= fields[e].sentLocal}
           left == IF savedRules /\ rules.edit = rules.sentEdit THEN NoInput ELSE typed.rules
           entries == [e \in Editors |->
                        IF saves(e)
                        THEN [f \in DOMAIN typed.fields[e] \ stored(e) |-> typed.fields[e][f]]
                        ELSE typed.fields[e]]
           nt == [typed EXCEPT !.rules = left, !.fields = entries]
<1>1. TInv /\ WireInv /\ RulesSent /\ CInv BY DEF IInv
<1>2. /\ wire # <<>> /\ a.kind = "answer" /\ wire' = Tail(wire)
      /\ UNCHANGED <<disk, editor, runtime, view, task, begun, saved, copy>>
  BY DEF ReceiveAnswer
<1>3. /\ rules' = IF resets THEN RulesReset(rules)
                  ELSE IF savedRules THEN RulesSync([rules EXCEPT !.await = TRUE], copy)
                  ELSE rules
      /\ fields' = [e \in Editors |->
                        IF resets THEN FieldsReset(e, fields[e], copy)
                        ELSE IF saves(e) THEN Synced(e, [fields[e] EXCEPT !.await = TRUE], copy)
                        ELSE fields[e]]
      /\ typed' = IF resets THEN NothingTyped ELSE StillTyped(nt, copy)
  BY Zenon DEF ReceiveAnswer, RulesOps
<1>4. ClientShape /\ RulesBuffer /\ FieldEditors BY <1>1 DEF CInv
<1> HIDE DEF a, resets, savedRules, saver, left, entries
<1>5. /\ IsAnswer(a) /\ a \in Elements(wire) /\ wire[1] = a /\ a # StateSlot
      /\ \/ wire = <<a>> /\ wire' = <<>>
         \/ wire = <<a, StateSlot>> /\ wire' = <<StateSlot>>
  <2>1. wire # <<StateSlot>>
    <3>1. Head(<<StateSlot>>) = StateSlot OBVIOUS
    <3> QED BY <1>2, <3>1, StateIsNoAnswer DEF a
  <2>2. PICK x \in Elements(wire) :
            IsAnswer(x) /\ wire \in {<<x>>, <<x, StateSlot>>, <<StateSlot, x>>}
    BY <1>1, <1>2, <2>1 DEF WireInv, WireForm
  <2>3. wire # <<StateSlot, x>>
    <3>1. Head(<<StateSlot, x>>) = StateSlot OBVIOUS
    <3> QED BY <1>2, <3>1, StateIsNoAnswer DEF a
  <2>4. x # StateSlot BY <2>2, StateIsNoAnswer
  <2>5. /\ Head(<<x>>) = x /\ Head(<<x, StateSlot>>) = x
        /\ Tail(<<x>>) = <<>> /\ Tail(<<x, StateSlot>>) = <<StateSlot>>
    BY ShortSequences
  <2>6. <<x>>[1] = x /\ <<x, StateSlot>>[1] = x OBVIOUS
  <2>7. a = x BY <2>2, <2>3, <2>5 DEF a
  <2> QED BY <1>2, <2>2, <2>3, <2>4, <2>5, <2>6, <2>7
<1>6. task.pc = "idle" /\ Agree(copy, view)
  BY <1>1, <1>2, <1>5 DEF WireInv, Answered
<1>7. TInv'
  <2>1. Final' = Final BY <1>2 DEF Final
  <2> QED BY <1>1, <1>2, <2>1
    DEF TInv, TrayShape, ExecutorPlace, DraftShown, PendingShown, IsView
<1>8. \A x \in Elements(wire') : ~IsAnswer(x)
  <2>1. Elements(<<>>) = {} /\ Elements(<<StateSlot>>) = {StateSlot} BY ElementsOf
  <2> QED BY <1>5, <2>1, StateIsNoAnswer
<1>9. WireInv'
  <2>1. WireForm' BY <1>5 DEF WireForm
  <2> QED BY <1>2, <1>6, <1>8, <2>1 DEF WireInv, Answered, Agree
<1>10. RulesSent' BY <1>2, <1>6, <1>8 DEF RulesSent
<1>11. CASE resets
  <2>1. /\ rules' = RulesReset(rules) /\ typed' = NothingTyped
        /\ fields' = [e \in Editors |-> FieldsReset(e, fields[e], copy)]
    BY <1>3, <1>11
  <2>2. CInv' BY <1>1, <1>2, <2>1, ResetAll
  <2> QED BY <1>7, <1>9, <1>10, <2>2 DEF IInv
<1>12. CASE ~resets
  <2>1. StillInput(typed', nt, copy) /\ nt.rules = left /\ nt.fields = entries
        /\ nt.since = typed.since
    <3>1. DOMAIN typed = InputFields BY <1>4 DEF ClientShape
    <3>2. /\ DOMAIN nt = InputFields /\ nt.rules = left /\ nt.fields = entries
          /\ nt.since = typed.since
      BY <3>1 DEF InputFields
    <3>3. typed' = StillTyped(nt, copy) BY <1>3, <1>12
    <3> HIDE DEF nt
    <3> QED BY <3>2, <3>3, StillTypedIs
  <2> HIDE DEF nt
  <2>2. RulesBuffer'
    <3>1. RulesKept(rules, typed.rules, copy) BY <1>4 DEF RulesBuffer
    <3>2. typed'.rules # NoInput => typed'.rules = left /\ left.text # RulesTextOf(copy)
      BY <2>1 DEF StillInput
    <3>3. CASE savedRules
      <4>1. rules.sentDraft \in Nat /\ view.rev > rules.sentDraft
        BY <1>1, <1>5, <3>3 DEF RulesSent, savedRules
      <4>2. copy.rev \in Nat /\ copy.rev = view.rev
        BY <1>4, <1>6 DEF ClientShape, IsView, Agree
      <4>3. copy.rev > rules.sentDraft BY <4>1, <4>2
      <4>4. typed'.rules # NoInput =>
                /\ typed'.rules = typed.rules /\ typed.rules.text # RulesTextOf(copy)
                /\ rules.edit # rules.sentEdit
        BY <3>2, <3>3 DEF left
      <4>5. RulesKept(RulesSync([rules EXCEPT !.await = TRUE], copy), typed'.rules, copy)
        BY <3>1, <4>1, <4>2, <4>3, <4>4, RulesSaveKeeps
      <4> QED BY <1>2, <1>3, <1>12, <3>3, <4>5 DEF RulesBuffer
    <3>4. CASE ~savedRules
      <4>1. rules' = rules /\ left = typed.rules BY <1>3, <1>12, <3>4 DEF left
      <4> QED BY <1>2, <3>1, <3>2, <4>1 DEF RulesBuffer, RulesKept
    <3> QED BY <3>3, <3>4
  <2>3. ASSUME NEW e \in Editors
        PROVE  EditorKept(fields'[e], typed'.fields[e], e, copy, typed'.since)
    <3>1. EditorKept(fields[e], typed.fields[e], e, copy, typed.since) BY <1>4 DEF FieldEditors
    <3>2. \A f \in DOMAIN typed'.fields[e] :
            /\ f \in DOMAIN entries[e] /\ typed'.fields[e][f] = entries[e][f]
            /\ entries[e][f].key = KeyOf(e, copy) /\ f \in DOMAIN FieldsOf(e, copy)
            /\ entries[e][f].value # FieldsOf(e, copy)[f]
      BY <2>1, <2>3 DEF StillInput
    <3>3. CASE saves(e)
      <4>1. entries[e] = [f \in DOMAIN typed.fields[e] \ stored(e) |-> typed.fields[e][f]]
        BY <2>3, <3>3 DEF entries
      <4>2. \A f \in DOMAIN entries[e] :
                /\ f \in DOMAIN typed.fields[e] /\ entries[e][f] = typed.fields[e][f]
                /\ ~(f \in DOMAIN fields[e].edited
                     /\ fields[e].edited[f] <= fields[e].sentLocal)
        BY <4>1
      <4>3. BufferShape(fields[e]) /\ Inputs(fields[e], typed.fields[e])
        BY <3>1 DEF EditorKept
      <4>4. EditorKept(Synced(e, [fields[e] EXCEPT !.await = TRUE], copy), typed'.fields[e], e,
                       copy, typed'.since)
        BY <3>2, <4>2, <4>3, AwaitKeeps
      <4>5. fields'[e] = Synced(e, [fields[e] EXCEPT !.await = TRUE], copy)
        BY <1>3, <1>12, <2>3, <3>3
      <4> QED BY <4>4, <4>5
    <3>4. CASE ~saves(e)
      <4>1. entries[e] = typed.fields[e] BY <2>3, <3>4 DEF entries
      <4>2. fields'[e] = fields[e] BY <1>3, <1>12, <2>3, <3>4
      <4>3. typed'.since = typed.since BY <2>1 DEF StillInput
      <4>4. Inputs(fields[e], typed'.fields[e]) BY <3>1, <3>2, <4>1 DEF EditorKept, Inputs
      <4> QED BY <3>1, <4>2, <4>3, <4>4 DEF EditorKept
    <3> QED BY <3>3, <3>4
  <2>4. FieldEditors' BY <1>2, <2>3 DEF FieldEditors
  <2>5. ClientShape' BY <1>2, <1>3, <1>4, <2>1 DEF ClientShape, IsView, StillInput
  <2> QED BY <1>7, <1>9, <1>10, <2>2, <2>4, <2>5 DEF IInv, CInv
<1> QED BY <1>11, <1>12

-----------------------------------------------------------------------------
(* The invariant *)

LEMMA EmptyBuffers ==
    /\ RulesKept(EmptyRules, NoInput, EmptyView)
    /\ \A e \in Editors : EditorKept(EmptyFields, <<>>, e, EmptyView, {})
<1>1. RulesKept(EmptyRules, NoInput, EmptyView)
  BY DEF RulesKept, EmptyRules, RulesFields, EmptyView
<1>2. ASSUME NEW e \in Editors PROVE EditorKept(EmptyFields, <<>>, e, EmptyView, {})
  <2>1. DOMAIN <<>> = {} OBVIOUS
  <2>2. BufferShape(EmptyFields)
    <3>1. /\ DOMAIN EmptyFields = BufferFields /\ EmptyFields.server = <<>>
          /\ EmptyFields.draft = <<>> /\ EmptyFields.edited = <<>>
          /\ EmptyFields.local = 0 /\ EmptyFields.sentLocal = 0
      BY DEF EmptyFields, BufferFields
    <3> QED BY <2>1, <3>1 DEF BufferShape
  <2>3. EmptyFields.key = NoKey /\ EmptyFields.server = <<>> BY DEF EmptyFields
  <2>4. KeyOf(e, EmptyView) = NoKey /\ FieldsOf(e, EmptyView) = <<>>
    BY DEF KeyOf, FieldsOf, EmptyView
  <2> QED BY <2>1, <2>2, <2>3, <2>4 DEF EditorKept, Inputs
<1> QED BY <1>1, <1>2

LEMMA InitInv ==
    ASSUME Init
    PROVE  IInv
<1>1. /\ DOMAIN disk = DiskFields /\ disk.rev = 1
  BY DEF Init, TrayInit, DiskFields
<1>2. runtime.rev \in {-1, 1} BY <1>1 DEF Init, TrayInit, Stopped, NoRev
<1>3. /\ DOMAIN editor = EditorFields /\ ~editor.active /\ saved = -1 /\ wire = <<>>
      /\ view = [EmptyView EXCEPT !.busy = TRUE] /\ copy = EmptyView
      /\ task = [Idle EXCEPT !.pc = "queued", !.cmd.op = "load"]
  BY DEF Init, TrayInit, EditorFields, NoRev
<1>4. /\ DOMAIN task = TaskFields /\ task.pc = "queued" /\ task.views = <<>>
      /\ task.cmd.op = "load"
  BY <1>3 DEF Idle, TaskFields, Nobody
<1>5. IsView(view) /\ IsView(copy) BY <1>3, EmptyViews
<1>6. Agree(copy, view) BY <1>3 DEF Agree, EmptyView
<1>7. Views(task.views)
  <2>1. Views(<<>>) BY <1>5, ViewSequences
  <2> QED BY <1>4, <2>1
<1>8. TInv
  <2>1. TrayShape BY <1>1, <1>2, <1>3, <1>4, <1>5, <1>7 DEF TrayShape
  <2>2. ExecutorPlace BY <1>4 DEF ExecutorPlace
  <2>3. DraftShown BY <1>3 DEF DraftShown
  <2>4. PendingShown BY <1>2, <1>3 DEF PendingShown
  <2> QED BY <2>1, <2>2, <2>3, <2>4 DEF TInv
<1>9. Elements(wire) = {} BY <1>3, ElementsOf
<1>10. WireInv BY <1>3, <1>4, <1>6, <1>9 DEF WireInv, WireForm, Answered
<1>11. RulesSent BY <1>4, <1>9 DEF RulesSent, RulesOps
<1>12. CInv
  <2>1. /\ fields = [e \in Editors |-> EmptyFields] /\ typed = NothingTyped
        /\ rules = EmptyRules
    BY DEF Init
  <2>2. ClientShape BY <1>5, <2>1, NothingTypedIs DEF ClientShape
  <2>3. RulesBuffer BY <1>3, <2>1, EmptyBuffers, NothingTypedIs DEF RulesBuffer
  <2>4. \A e \in Editors : typed.fields[e] = <<>> BY <2>1 DEF NothingTyped
  <2>5. FieldEditors BY <1>3, <2>1, <2>4, EmptyBuffers, NothingTypedIs DEF FieldEditors
  <2> QED BY <2>2, <2>3, <2>5 DEF CInv
<1> QED BY <1>8, <1>10, <1>11, <1>12 DEF IInv

LEMMA StutterKeeps ==
    ASSUME IInv, UNCHANGED vars
    PROVE  IInv'
<1>1. /\ UNCHANGED <<disk, editor, runtime, view, task, wire, begun, saved, copy, busy>>
      /\ UNCHANGED <<rules, fields, typed>>
  BY DEF vars, trayVars
<1>2. TInv' /\ WireInv' /\ RulesSent' BY <1>1, LocalStep
<1>3. CInv' BY <1>1, ClientUnchanged DEF IInv
<1> QED BY <1>2, <1>3 DEF IInv

\* Every command that the executor runs is an ExecStep.
LEMMA CommandKeeps ==
    ASSUME IInv, UNCHANGED clientVars,
           \/ CheckPrecondition \/ LoadDraft \/ DiscardDraft \/ MutateDraft
           \/ UpdateFields \/ UpdateRules \/ SelectProfile \/ Refresh
           \/ ExecuteServiceCommand \/ ApplyCheck \/ StorageStatus \/ MigrateStorage
    PROVE  IInv'
<1>1. TInv BY DEF IInv
<1>2. ExecStep
  BY <1>1, ExecCheckPrecondition, ExecLoadDraft, ExecDiscardDraft, ExecMutateDraft,
     ExecUpdateFields, ExecUpdateRules, ExecSelectProfile, ExecRefresh,
     ExecExecuteServiceCommand, ExecApplyCheck, ExecStorageStatus, ExecMigrateStorage
<1> QED BY <1>2, ExecKeeps

LEMMA StepKeeps ==
    ASSUME IInv, [Next]_vars
    PROVE  IInv'
<1>1. CASE CheckPrecondition /\ UNCHANGED clientVars BY <1>1, CommandKeeps
<1>2. CASE LoadDraft /\ UNCHANGED clientVars BY <1>2, CommandKeeps
<1>3. CASE DiscardDraft /\ UNCHANGED clientVars BY <1>3, CommandKeeps
<1>4. CASE MutateDraft /\ UNCHANGED clientVars BY <1>4, CommandKeeps
<1>5. CASE UpdateFields /\ UNCHANGED clientVars BY <1>5, CommandKeeps
<1>6. CASE UpdateRules /\ UNCHANGED clientVars BY <1>6, CommandKeeps
<1>7. CASE SelectProfile /\ UNCHANGED clientVars BY <1>7, CommandKeeps
<1>8. CASE Refresh /\ UNCHANGED clientVars BY <1>8, CommandKeeps
<1>9. CASE ExecuteServiceCommand /\ UNCHANGED clientVars BY <1>9, CommandKeeps
<1>10. CASE ApplyCheck /\ UNCHANGED clientVars BY <1>10, CommandKeeps
<1>11. CASE StorageStatus /\ UNCHANGED clientVars BY <1>11, CommandKeeps
<1>12. CASE MigrateStorage /\ UNCHANGED clientVars BY <1>12, CommandKeeps
<1>13. CASE PublishNext /\ UNCHANGED clientVars BY <1>13, PublishNextKeeps
<1>14. CASE PublishOutcome /\ UNCHANGED clientVars BY <1>14, PublishOutcomeKeeps
<1>15. CASE MenuCommand /\ UNCHANGED clientVars BY <1>15, ServiceKeeps
<1>16. CASE RuntimeEnds /\ UNCHANGED clientVars BY <1>16, ServiceKeeps
<1>17. CASE ApplyStale /\ UNCHANGED clientVars BY <1>17, ApplyFails
<1>18. CASE ApplyCommit /\ UNCHANGED clientVars BY <1>18, ApplyCommitKeeps
<1>19. CASE ApplyFault /\ UNCHANGED clientVars BY <1>19, ApplyFails
<1>20. CASE ApplyReload /\ UNCHANGED clientVars BY <1>20, ApplyReloadKeeps
<1>21. CASE ApplyBegin /\ UNCHANGED clientVars BY <1>21, ApplyBeginKeeps
<1>22. CASE CliBegin /\ UNCHANGED clientVars BY <1>22, CliKeeps
<1>23. CASE CliCommit /\ UNCHANGED clientVars BY <1>23, CliKeeps
<1>24. CASE CliMigrate /\ UNCHANGED clientVars BY <1>24, CliKeeps
<1>25. CASE TypeRules BY <1>25, TypeRulesKeeps
<1>26. CASE EditField BY <1>26, EditFieldKeeps
<1>27. CASE ResetRules BY <1>27, ResetRulesKeeps
<1>28. CASE ResetFields BY <1>28, ResetFieldsKeeps
<1>29. CASE SaveRules BY <1>29, SaveRulesKeeps
<1>30. CASE SaveFields BY <1>30, SaveFieldsKeeps
<1>31. CASE DiscardLocal BY <1>31, DiscardLocalKeeps
<1>32. CASE ReceiveState BY <1>32, ReceiveStateKeeps
<1>33. CASE ReceiveAnswer BY <1>33, ReceiveAnswerKeeps
<1>34. CASE SelectOther BY <1>34, GivingCommands
<1>35. CASE RemoveSelected BY <1>35, GivingCommands
<1>36. CASE DiscardAll BY <1>36, GivingCommands
<1>37. CASE ReloadAll BY <1>37, GivingCommands
<1>38. CASE CreateNew BY <1>38, PlainCommands
<1>39. CASE MoveSelected BY <1>39, PlainCommands
<1>40. CASE ApplyAll BY <1>40, PlainCommands
<1>41. CASE OtherCommand BY <1>41, PlainCommands
<1>42. CASE UNCHANGED vars BY <1>42, StutterKeeps
<1> QED
  BY <1>1, <1>2, <1>3, <1>4, <1>5, <1>6, <1>7, <1>8, <1>9, <1>10, <1>11, <1>12, <1>13,
     <1>14, <1>15, <1>16, <1>17, <1>18, <1>19, <1>20, <1>21, <1>22, <1>23, <1>24, <1>25, <1>26,
     <1>27, <1>28, <1>29, <1>30, <1>31, <1>32, <1>33, <1>34, <1>35, <1>36, <1>37, <1>38, <1>39,
     <1>40, <1>41, <1>42
  DEF Next

\* The invariant of the tray, the pipe and the editors holds in every state.
THEOREM EditingInvariant == Spec => []IInv
<1>1. Init => IInv BY InitInv
<1>2. IInv /\ [Next]_vars => IInv' BY StepKeeps
<1> QED BY <1>1, <1>2, PTL DEF Spec

-----------------------------------------------------------------------------
(* What the invariant shows *)

\* What was typed into an editor and is not saved stays in it, whatever snapshots
\* and answers arrive (syncFromState of the three editors).
THEOREM InputIsKept == Spec => []InputKept
<1>1. ASSUME IInv PROVE InputKept
  <2>1. RulesBuffer /\ FieldEditors BY <1>1 DEF IInv, CInv
  <2>2. typed.rules # NoInput => rules.text = typed.rules.text
    BY <2>1 DEF RulesBuffer, RulesKept
  <2>3. ASSUME NEW e \in Editors, NEW f \in DOMAIN typed.fields[e], ~typed.fields[e][f].resent
        PROVE  Kept(e, f)
    <3>1. EntryKept(fields[e], typed.fields[e][f], f) /\ BufferShape(fields[e])
      BY <2>1, <2>3 DEF FieldEditors, EditorKept, Inputs
    <3> QED BY <3>1 DEF EntryKept, BufferShape, Kept
  <2> QED BY <2>2, <2>3 DEF InputKept
<1> QED BY <1>1, EditingInvariant, PTL

\* Once the tray and the pipe are quiet, a field editor without local edits, which
\* awaits no snapshot and was not typed into since the last one, shows what the
\* view of the tray says (syncFromState, resetLocalDraft).
THEOREM EditorsAreCurrent == Spec => []FieldEditorsCurrent
<1>1. ASSUME IInv PROVE FieldEditorsCurrent
  <2>1. SUFFICES ASSUME Quiet, NEW e \in Editors, ~FieldsDirty(fields[e]), ~fields[e].await,
                        e \notin typed.since
                 PROVE  fields[e].key = KeyOf(e, view) /\ Shows(fields[e], FieldsOf(e, view))
    BY DEF FieldEditorsCurrent
  <2>2. Agree(copy, view) BY <1>1, <2>1 DEF Quiet, IInv, WireInv
  <2>3. KeyOf(e, copy) = KeyOf(e, view) /\ FieldsOf(e, copy) = FieldsOf(e, view)
    BY <2>2 DEF Agree, KeyOf, FieldsOf
  <2>4. EditorKept(fields[e], typed.fields[e], e, copy, typed.since)
    BY <1>1 DEF IInv, CInv, FieldEditors
  <2>5. fields[e].key = KeyOf(e, view) /\ fields[e].server = FieldsOf(e, view)
    BY <2>1, <2>3, <2>4 DEF EditorKept, Settled
  <2>6. /\ DOMAIN fields[e].draft = DOMAIN fields[e].server
        /\ \A f \in DOMAIN fields[e].server : fields[e].draft[f] = fields[e].server[f]
    BY <2>1, <2>4 DEF EditorKept, BufferShape, FieldsDirty
  <2> QED BY <2>5, <2>6 DEF Shows
<1> QED BY <1>1, EditingInvariant, PTL

\* Over a running service, a window that does not say "saved, not yet running" means
\* that the service runs what the window saved last, or something newer.
THEOREM PendingIsTruthful == Spec => []PendingTruthful
<1>1. ASSUME IInv PROVE PendingTruthful
  <2>1. SUFFICES ASSUME task = Idle, ~view.pending, runtime.running
                 PROVE  runtime.rev >= saved
    BY DEF PendingTruthful
  <2>2. task.pc = "idle" /\ task.views = <<>> BY <2>1, IdleIs
  <2>3. Final = view BY <2>2 DEF Final
  <2>4. ~(runtime.rev < saved) BY <1>1, <2>1, <2>2, <2>3 DEF IInv, TInv, PendingShown
  <2>5. runtime.rev \in Int /\ saved \in Int BY <1>1 DEF IInv, TInv, TrayShape
  <2> QED BY <2>4, <2>5
<1> QED BY <1>1, EditingInvariant, PTL

\* A command that loads the draft again leaves one with changes alone, unless it
\* says that it discards them.
LEMMA LoadsKeepDraft ==
    ASSUME TInv, LoadDraft \/ MigrateStorage, editor.active, editor.draft # begun
    PROVE  editor' = editor \/ (task.cmd.op = "reload" /\ task.cmd.arg = "discard")
<1>1. Dirty(view)
  <2>1. task.pc = "queued" BY DEF LoadDraft, MigrateStorage, Executes
  <2> QED BY <2>1, QueuedFacts
<1>2. CASE LoadDraft
  <2>1. task.cmd.op \in {"load", "reload"} BY <1>2 DEF LoadDraft, Executes
  <2> QED BY <1>1, <1>2, <2>1 DEF LoadDraft
<1>3. CASE MigrateStorage BY <1>1, <1>3 DEF MigrateStorage
<1> QED BY <1>2, <1>3

\* Changes in the draft of the tray are given up only by a discard or by a reload
\* that says so; else a command edits them or they reach the files (load_draft,
\* migrate_storage, apply_draft).
THEOREM DraftIsNotLost == Spec => DraftNotLost
<1> DEFINE Given == editor.active /\ editor.draft # begun
                    /\ (~editor'.active \/ editor'.draft # editor.draft)
<1>1. ASSUME IInv, [Next]_vars, Given PROVE Explicit
  <2>1. TInv /\ editor' # editor BY <1>1 DEF IInv
  <2>2. CASE LoadDraft \/ MigrateStorage
    BY <1>1, <2>1, <2>2, LoadsKeepDraft DEF Explicit
  <2>3. CASE DiscardDraft BY <2>3 DEF DiscardDraft, Executes, Explicit
  <2>4. CASE MutateDraft BY <2>4 DEF MutateDraft, Executes, Explicit, EditingCommands
  <2>5. CASE UpdateFields BY <2>5 DEF UpdateFields, Executes, Explicit, EditingCommands
  <2>6. CASE UpdateRules BY <2>6 DEF UpdateRules, Executes, Explicit, EditingCommands
  <2>7. CASE ApplyCommit BY <2>7 DEF ApplyCommit, Explicit
  <2>8. CASE ApplyBegin
    <3>1. ~editor.active BY <2>1, <2>8 DEF ApplyBegin, TInv, ExecutorPlace
    <3> QED BY <1>1, <3>1
  <2>9. CASE CheckPrecondition \/ PublishNext \/ PublishOutcome \/ SelectProfile \/ Refresh
    BY <2>1, <2>9 DEF CheckPrecondition, PublishNext, PublishOutcome, SelectProfile, Refresh
  <2>10. CASE ExecuteServiceCommand \/ MenuCommand \/ RuntimeEnds \/ StorageStatus
    BY <2>1, <2>10 DEF ExecuteServiceCommand, MenuCommand, RuntimeEnds, StorageStatus
  <2>11. CASE ApplyCheck \/ ApplyStale \/ ApplyFault \/ ApplyReload
    BY <2>1, <2>11 DEF ApplyCheck, ApplyStale, ApplyFault, ApplyReload
  <2>12. CASE CliBegin \/ CliCommit \/ CliMigrate
    BY <2>1, <2>12 DEF CliBegin, CliCommit, CliMigrate
  <2>13. CASE TypeRules \/ EditField \/ ResetRules \/ ResetFields \/ DiscardLocal
    BY <2>1, <2>13 DEF TypeRules, EditField, ResetRules, ResetFields, DiscardLocal, trayVars
  <2>14. CASE SaveRules \/ SaveFields \/ SelectOther \/ RemoveSelected
    BY <2>1, <2>14 DEF SaveRules, SaveFields, SelectOther, RemoveSelected, Submit
  <2>15. CASE CreateNew \/ MoveSelected \/ ApplyAll \/ OtherCommand
    BY <2>1, <2>15 DEF CreateNew, MoveSelected, ApplyAll, OtherCommand, Simple, Submit
  <2>16. CASE DiscardAll \/ ReloadAll BY <2>1, <2>16 DEF DiscardAll, ReloadAll, Submit
  <2>17. CASE ReceiveState \/ ReceiveAnswer BY <2>1, <2>17 DEF ReceiveState, ReceiveAnswer
  <2>18. CASE UNCHANGED vars BY <2>1, <2>18 DEF vars, trayVars
  <2> QED
    BY <1>1, <2>2, <2>3, <2>4, <2>5, <2>6, <2>7, <2>8, <2>9, <2>10, <2>11, <2>12, <2>13,
       <2>14, <2>15, <2>16, <2>17, <2>18
    DEF Next
<1>2. IInv /\ [Next]_vars => [Given => Explicit]_vars BY <1>1
<1> QED BY <1>2, EditingInvariant, PTL DEF Spec, DraftNotLost
=============================================================================
