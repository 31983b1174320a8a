------------------------------ MODULE QtClient ------------------------------
(***************************************************************************)
(* The editors of the Qt client over the main window of the tray           *)
(* (gui/windows: features/rules, features/profiles, features/settings,     *)
(* models/editable_field_model.cpp, controllers/command_dispatcher.cpp,    *)
(* state/gui_state_store.cpp, and the conditions of the QML pages).  The   *)
(* client holds a copy of the view and, for what the user types, a buffer  *)
(* per editor that it reconciles with every copy it is sent.  The buffers  *)
(* are the text of the rules, the fields of the selected profile and the   *)
(* settings of the application.                                            *)
(*                                                                         *)
(* A command carries the revision of the client's copy and one is under    *)
(* way at a time; the text and the fields stay editable meanwhile.         *)
(* GuiSession models the connection; here it delivers and does not fail.   *)
(***************************************************************************)
EXTENDS MainWindowViewModel

CONSTANTS
    Typed,          \* the texts the user may type into the rules editor
    Edits,          \* the fields, with their values, the user may edit
    Budgets         \* what happens in one behaviour, by kind

VARIABLES
    copy,           \* the last view the client was sent
    busy,           \* the command that awaits its answer, or Nobody
    rules,          \* the buffer of the rules editor
    fields,         \* the buffers of the two field editors
    typed           \* ghost: what the user typed and has not yet saved, and where

vars == <<trayVars, copy, busy, rules, fields, typed>>
clientVars == <<copy, busy, rules, fields, typed>>

Editors == {"profile", "application"}
NoInput == Refused

-----------------------------------------------------------------------------
(* Field editors *)

EmptyFields ==
    [key |-> NoKey, server |-> <<>>, draft |-> <<>>, edited |-> <<>>, local |-> 0,
     await |-> FALSE, sentDraft |-> NoRev, sentLocal |-> 0]

FieldsDirty(b) == \E f \in DOMAIN b.server : b.draft[f] # b.server[f]

\* EditableFieldModel::apply: the fields of the view, with the local values of
\* the fields in kept.  New fields have never been edited.
FieldsApply(b, server, kept) ==
    [b EXCEPT
        !.server = server,
        !.draft = [f \in DOMAIN server |->
                    IF f \in kept THEN b.draft[f] ELSE server[f]],
        !.edited = [f \in DOMAIN server |-> IF f \in DOMAIN b.edited THEN b.edited[f] ELSE 0]]

\* syncFromState of the profile editor and of the settings, which has no selection.
FieldsSync(b, key, v, server) ==
    LET changed == key # b.key
        accept == b.await /\ ~changed
        synced == FieldsApply([b EXCEPT !.key = key, !.await = FALSE], server,
                    {f \in DOMAIN b.edited : accept /\ b.edited[f] > b.sentLocal})
    IN  IF ~changed /\ b.await /\ v.rev <= b.sentDraft THEN b
        ELSE IF ~changed /\ FieldsDirty(b) /\ ~b.await THEN b
        ELSE synced

FieldsOf(e, v) ==
    LET shown == IF e = "profile" THEN v.fields ELSE v.application
    IN  IF shown = None THEN <<>> ELSE shown
KeyOf(e, v) == IF e = "profile" THEN v.key ELSE NoKey

Synced(e, b, v) == FieldsSync(b, KeyOf(e, v), v, FieldsOf(e, v))

\* Mutant: a reset that does not look at the copy again.
FieldsResetOnly(e, b, v) ==
    [b EXCEPT !.draft = b.server, !.local = @ + 1, !.edited = [f \in DOMAIN @ |-> b.local + 1]]

\* discardLocal, then a sync.
FieldsReset(e, b, v) ==
    Synced(e, [b EXCEPT !.draft = b.server, !.local = @ + 1,
                        !.edited = [f \in DOMAIN @ |-> b.local + 1]], v)

-----------------------------------------------------------------------------
(* The rules editor *)

EmptyRules ==
    [key |-> NoKey, server |-> Garbled, text |-> Garbled, dirty |-> FALSE, edit |-> 0,
     await |-> FALSE, sentDraft |-> NoRev, sentEdit |-> 0]

RulesTextOf(v) == IF v.rules = None THEN Garbled ELSE v.rules.text

\* Mutant: the snapshot of a save replaces what was typed since it was sent.
RulesSyncReplaces(b, v) ==
    LET changed == v.key # b.key
        next == RulesTextOf(v)
    IN  IF ~changed /\ b.await /\ v.rev <= b.sentDraft THEN b
        ELSE IF ~changed /\ b.dirty /\ ~b.await THEN b
        ELSE [b EXCEPT !.key = v.key, !.server = next, !.text = next, !.dirty = FALSE,
                       !.await = FALSE]

RulesSync(b, v) ==
    LET changed == v.key # b.key
        accept == b.await /\ ~changed
        preserve == accept /\ b.edit > b.sentEdit
        next == RulesTextOf(v)
        settled == [b EXCEPT !.await = IF changed \/ accept THEN FALSE ELSE @]
    IN  IF ~changed /\ b.await /\ v.rev <= b.sentDraft THEN b
        ELSE IF ~changed /\ b.dirty /\ ~b.await THEN b
        ELSE IF preserve
        THEN [settled EXCEPT !.server = next, !.dirty = b.text # next]
        ELSE [settled EXCEPT !.key = v.key, !.server = next, !.text = next, !.dirty = FALSE]

RulesReset(b) == [b EXCEPT !.edit = @ + 1, !.text = b.server, !.dirty = FALSE]

LocalEdits == rules.dirty \/ \E e \in Editors : FieldsDirty(fields[e])

-----------------------------------------------------------------------------
(* What the user types *)

\* The text, the fields (resent: also sent by a save while its editor awaited the
\* snapshot of an earlier one) and the editors typed into since the last snapshot.
NothingTyped ==
    [rules |-> NoInput, fields |-> [e \in Editors |-> <<>>], since |-> {}]

\* The input of the rules editor and of the editors es is given up.
GivenUp(t, es) ==
    [t EXCEPT !.rules = NoInput,
              !.fields = [e \in Editors |-> IF e \in es THEN <<>> ELSE t.fields[e]]]

\* What was typed stops being input once the view shows it or the selection of
\* its profile is gone.
StillTyped(t, v) ==
    [t EXCEPT
        !.rules = IF t.rules # NoInput
                     /\ (t.rules.key # v.key \/ t.rules.text = RulesTextOf(v))
                  THEN NoInput ELSE t.rules,
        !.fields = [e \in Editors |->
            LET kept == {f \in DOMAIN t.fields[e] :
                            /\ t.fields[e][f].key = KeyOf(e, v)
                            /\ f \in DOMAIN FieldsOf(e, v)
                            /\ t.fields[e][f].value # FieldsOf(e, v)[f]}
            IN  [f \in kept |-> t.fields[e][f]]]]

\* The input of an editor is sent.
Resent(t, awaiting) == [f \in DOMAIN t |-> [t[f] EXCEPT !.resent = @ \/ awaiting]]

TypeRules ==
    /\ Spend("types") /\ copy.id # None
    /\ \E t \in Typed : LET n == NormalizeNewlines(t) IN
        /\ n # rules.text
        /\ rules' = [rules EXCEPT !.text = n, !.edit = @ + 1, !.dirty = n # rules.server]
        /\ typed' = [typed EXCEPT !.rules =
                        IF n = rules.server THEN NoInput ELSE [key |-> rules.key, text |-> n]]
    /\ UNCHANGED <<disk, repo, editor, runtime, view, task, wire, cli, begun, saved,
                   copy, busy, fields>>

\* setValue and resetValue: a value, or none for an optional field.
EditField ==
    /\ Spend("types")
    /\ \E e \in Editors, x \in Edits : LET b == fields[e] IN
        /\ x.field \in DOMAIN b.server
        /\ fields' = [fields EXCEPT ![e] =
                        [b EXCEPT !.draft[x.field] = x.value, !.local = @ + 1,
                                  !.edited[x.field] = b.local + 1]]
        /\ typed' = [typed EXCEPT
                        !.since = @ \cup {e},
                        !.fields[e] =
                            [f \in IF x.value = b.server[x.field] THEN DOMAIN @ \ {x.field}
                                   ELSE DOMAIN @ \cup {x.field} |->
                                IF f = x.field
                                THEN [key |-> b.key, value |-> x.value, resent |-> FALSE]
                                ELSE @[f]]]
    /\ UNCHANGED <<disk, repo, editor, runtime, view, task, wire, cli, begun, saved,
                   copy, busy, rules>>

\* The Reset buttons.
ResetRules ==
    /\ rules.dirty /\ busy = Nobody
    /\ rules' = RulesReset(rules)
    /\ typed' = [typed EXCEPT !.rules = NoInput]
    /\ UNCHANGED <<trayVars, copy, busy, fields>>

ResetFields ==
    /\ busy = Nobody
    /\ \E e \in Editors :
        /\ FieldsDirty(fields[e])
        /\ fields' = [fields EXCEPT ![e] = FieldsReset(e, @, copy)]
        /\ typed' = [typed EXCEPT !.fields[e] = <<>>, !.since = @ \ {e}]
    /\ UNCHANGED <<trayVars, copy, busy, rules>>

-----------------------------------------------------------------------------
(* Commands *)

\* CommandDispatcher::submit, the pipe and the view model's submit: a command
\* carries the draft and base revision of the copy.
Submit(op, key, arg) ==
    /\ busy = Nobody /\ task = Idle
    /\ op \in budget.ops /\ Spend("commands")
    /\ busy' = [op |-> op, key |-> key, arg |-> arg, rev |-> copy.rev, base |-> copy.base]
    /\ task' = [Idle EXCEPT !.pc = "queued", !.cmd = busy']
    /\ view' = [view EXCEPT !.busy = TRUE]
    /\ wire' = PushState(wire)
    /\ UNCHANGED <<disk, repo, editor, runtime, cli, begun, saved, copy>>

Simple(op, arg) == Submit(op, NoKey, arg) /\ UNCHANGED <<rules, fields, typed>>

SaveRules ==
    /\ rules.key > 0
    /\ \E op \in {"replace", "format"} :
        /\ op = "replace" => rules.dirty
        /\ Submit(op, rules.key, rules.text)
    /\ rules' = [rules EXCEPT !.sentDraft = copy.rev, !.sentEdit = rules.edit]
    /\ UNCHANGED <<fields, typed>>

SaveFields ==
    \E e \in Editors : LET b == fields[e]
                           dirty == {f \in DOMAIN b.server : b.draft[f] # b.server[f]}
                       IN
        /\ dirty # {}
        /\ e = "profile" => b.key > 0
        /\ Submit(IF e = "profile" THEN "save_profile" ELSE "update_application",
                  b.key, [f \in dirty |-> b.draft[f]])
        /\ fields' = [fields EXCEPT ![e] = [b EXCEPT !.sentDraft = copy.rev, !.sentLocal = b.local]]
        /\ typed' = [typed EXCEPT !.fields[e] = Resent(@, b.await)]
        /\ UNCHANGED rules

\* Switching away from local input, and removing a profile, are confirmed first:
\* the user gives the input up.
SelectOther ==
    /\ \E i \in DOMAIN copy.profiles :
        /\ copy.profiles[i].key > 0 /\ copy.profiles[i].key # fields["profile"].key
        /\ Submit("select", copy.profiles[i].key, None)
    /\ typed' = GivenUp(typed, {"profile"})
    /\ UNCHANGED <<rules, fields>>

RemoveSelected ==
    /\ fields["profile"].key > 0
    /\ Submit("remove", fields["profile"].key, None)
    /\ typed' = GivenUp(typed, {"profile"})
    /\ UNCHANGED <<rules, fields>>

CreateNew ==
    /\ ~rules.dirty /\ ~FieldsDirty(fields["profile"])
    /\ \E id \in Ids : Simple("create", id)

MoveSelected ==
    /\ fields["profile"].key > 0
    /\ \E i, to \in DOMAIN copy.profiles :
        /\ copy.profiles[i].key = fields["profile"].key /\ to \in {i - 1, i + 1}
        /\ Submit("move", fields["profile"].key, to)
        /\ UNCHANGED <<rules, fields, typed>>

ApplyAll == Dirty(copy) /\ ~LocalEdits /\ Simple("apply", None)

\* Discarding and reloading are confirmed over local input and over a dirty draft.
DiscardAll ==
    /\ Dirty(copy)
    /\ Submit("discard", NoKey, IF LocalEdits THEN "local" ELSE None)
    /\ typed' = GivenUp(typed, Editors)
    /\ UNCHANGED <<rules, fields>>

\* Over a clean draft a discard only resets the editors (resetLocalEditors).
DiscardLocal ==
    /\ LocalEdits /\ ~Dirty(copy) /\ busy = Nobody
    /\ rules' = RulesReset(rules)
    /\ fields' = [e \in Editors |-> FieldsReset(e, fields[e], copy)]
    /\ typed' = NothingTyped
    /\ UNCHANGED <<trayVars, copy, busy>>

ReloadAll ==
    /\ Submit("reload", NoKey, IF LocalEdits \/ Dirty(copy) THEN "discard" ELSE None)
    /\ typed' = GivenUp(typed, Editors)
    /\ UNCHANGED <<rules, fields>>

OtherCommand ==
    \/ \E op \in {"start", "stop", "reload_service", "refresh", "storage_status"} : Simple(op, None)
    \/ copy.storage = "migration_required" /\ Simple("migrate", None)

-----------------------------------------------------------------------------
(* What the client is sent *)

ReceiveState ==
    /\ wire # <<>> /\ Head(wire) = StateSlot
    /\ wire' = Tail(wire)
    /\ copy' = view
    /\ rules' = RulesSync(rules, view)
    /\ fields' = [e \in Editors |-> Synced(e, fields[e], view)]
    /\ typed' = [StillTyped(typed, view) EXCEPT !.since = {}]
    /\ UNCHANGED <<disk, repo, editor, runtime, view, task, cli, budget, begun, saved, busy>>

\* commandFinished: the editor that saved awaits the snapshot of its save and
\* looks at the copy; a reload, and a discard over local input, reset the editors.
\* Input saved as it was typed is input no more.
ReceiveAnswer ==
    /\ wire # <<>> /\ Head(wire).kind = "answer"
    /\ wire' = Tail(wire)
    /\ busy' = Nobody
    /\ LET op == Head(wire).op
           ok == Head(wire).ok
           savedRules == ok /\ op \in {"replace", "format"}
           saver == CASE op = "save_profile" -> {"profile"}
                      [] op = "update_application" -> {"application"}
                      [] OTHER -> {}
           resets == ok /\ (op = "reload" \/ (op = "discard" /\ busy.arg = "local"))
           awaiting(e) == [fields[e] EXCEPT !.await = TRUE]
           stored(e) == {f \in DOMAIN typed.fields[e] :
                            f \in DOMAIN fields[e].edited
                            /\ fields[e].edited[f] <= fields[e].sentLocal}
       IN  /\ rules' = IF resets THEN RulesReset(rules)
                       ELSE IF savedRules THEN RulesSync([rules EXCEPT !.await = TRUE], copy)
                       ELSE rules
           /\ fields' = [e \in Editors |->
                            IF resets THEN FieldsReset(e, fields[e], copy)
                            ELSE IF ok /\ e \in saver THEN Synced(e, awaiting(e), copy)
                            ELSE fields[e]]
           /\ typed' = IF resets THEN NothingTyped
                       ELSE StillTyped(
                            [typed EXCEPT
                                !.rules = IF savedRules /\ rules.edit = rules.sentEdit
                                          THEN NoInput ELSE typed.rules,
                                !.fields = [e \in Editors |->
                                    IF ok /\ e \in saver
                                    THEN [f \in DOMAIN typed.fields[e] \ stored(e) |->
                                            typed.fields[e][f]]
                                    ELSE typed.fields[e]]],
                            copy)
    /\ UNCHANGED <<disk, repo, editor, runtime, view, task, cli, budget, begun, saved, copy>>

-----------------------------------------------------------------------------
Init ==
    /\ budget \in Budgets
    /\ TrayInit
    /\ copy = EmptyView /\ busy = Nobody
    /\ rules = EmptyRules
    /\ fields = [e \in Editors |-> EmptyFields]
    /\ typed = NothingTyped

\* The steps of the tray, of its service and of the command line leave the client
\* as it is.
Next ==
    \/ CheckPrecondition /\ UNCHANGED clientVars
    \/ PublishNext /\ UNCHANGED clientVars
    \/ PublishOutcome /\ UNCHANGED clientVars
    \/ LoadDraft /\ UNCHANGED clientVars
    \/ DiscardDraft /\ UNCHANGED clientVars
    \/ MutateDraft /\ UNCHANGED clientVars
    \/ UpdateFields /\ UNCHANGED clientVars
    \/ UpdateRules /\ UNCHANGED clientVars
    \/ SelectProfile /\ UNCHANGED clientVars
    \/ Refresh /\ UNCHANGED clientVars
    \/ ExecuteServiceCommand /\ UNCHANGED clientVars
    \/ MenuCommand /\ UNCHANGED clientVars
    \/ RuntimeEnds /\ UNCHANGED clientVars
    \/ ApplyCheck /\ UNCHANGED clientVars
    \/ ApplyStale /\ UNCHANGED clientVars
    \/ ApplyCommit /\ UNCHANGED clientVars
    \/ ApplyFault /\ UNCHANGED clientVars
    \/ ApplyReload /\ UNCHANGED clientVars
    \/ ApplyBegin /\ UNCHANGED clientVars
    \/ StorageStatus /\ UNCHANGED clientVars
    \/ MigrateStorage /\ UNCHANGED clientVars
    \/ CliBegin /\ UNCHANGED clientVars
    \/ CliCommit /\ UNCHANGED clientVars
    \/ CliMigrate /\ UNCHANGED clientVars
    \/ TypeRules \/ EditField \/ ResetRules \/ ResetFields
    \/ SaveRules \/ SaveFields \/ SelectOther \/ RemoveSelected \/ CreateNew
    \/ MoveSelected \/ ApplyAll \/ DiscardAll \/ DiscardLocal \/ ReloadAll \/ OtherCommand
    \/ ReceiveState \/ ReceiveAnswer

Spec == Init /\ [][Next]_vars

-----------------------------------------------------------------------------
(* Properties *)

Kept(e, f) ==
    typed.fields[e][f].key = fields[e].key =>
        f \in DOMAIN fields[e].draft /\ fields[e].draft[f] = typed.fields[e][f].value

\* What the user typed into an editor and has not saved stays in it, whatever
\* snapshots and answers arrive: until it is saved as typed, reset, discarded,
\* or another profile is shown (RulesController::syncFromState,
\* ProfilesController::syncFromState, EditableFieldModel::apply).  Input that was
\* sent while its editor awaited the snapshot of an earlier save is excepted, and
\* so is input that a reload of the draft gives up, also if it was typed while the
\* reload was under way: its answer resets the editors.
InputKept ==
    /\ typed.rules # NoInput /\ typed.rules.key = rules.key => rules.text = typed.rules.text
    /\ \A e \in Editors : \A f \in DOMAIN typed.fields[e] :
        ~typed.fields[e][f].resent => Kept(e, f)

Quiet == task = Idle /\ wire = <<>>

\* Without the exception: a save that failed keeps the input it sent, in whatever
\* order snapshots and answers arrived (ProfilesController::syncFromState).
FailedSaveKeepsInput ==
    Quiet /\ busy = Nobody =>
        \A e \in Editors : \A f \in DOMAIN typed.fields[e] : Kept(e, f)

Shows(b, shown) == DOMAIN b.draft = DOMAIN shown /\ \A f \in DOMAIN shown : b.draft[f] = shown[f]

\* Once the tray and the pipe are quiet, a field editor without local edits shows
\* what the draft of the tray holds, also after the editors were reset
\* (ProfilesController::resetLocalDraft, SettingsController::resetLocalDraft):
\* unless it awaits the snapshot of a save or was typed into since the last
\* snapshot, since then a field may be back at a value that is no longer current.
FieldEditorsCurrent ==
    Quiet => \A e \in Editors : LET b == fields[e] IN
        ~FieldsDirty(b) /\ ~b.await /\ e \notin typed.since =>
            b.key = KeyOf(e, view) /\ Shows(b, FieldsOf(e, view))

\* And a rules editor without local edits says the rules that the draft of the tray
\* holds (RulesController::resetLocalDraft).
RulesEditorCurrent ==
    Quiet /\ editor.active /\ ~rules.dirty =>
        \A i \in DOMAIN editor.draft.profiles : LET p == editor.draft.profiles[i] IN
            p.key = rules.key => rules.text # Garbled /\ rules.text.rules = p.rules

\* The fields in a profile editor with local edits are those of the profile whose
\* key a save of them carries (ProfilesController::syncFromState, save).
ProfileEditorOfItsKey ==
    LET b == fields["profile"] IN
    Quiet /\ editor.active /\ FieldsDirty(b) =>
        \A i \in DOMAIN editor.draft.profiles : LET p == editor.draft.profiles[i] IN
            p.key = b.key => b.server.id = p.id

EditingCommands ==
    {"create", "remove", "move", "rename", "enable", "save_profile", "update_application",
     "replace", "format"}
Explicit ==
    \/ task.cmd.op \in EditingCommands \cup {"discard"}
    \/ task.cmd.op = "reload" /\ task.cmd.arg = "discard"
    \/ disk' = Saved(disk, editor.draft)

\* Changes in the draft of the tray are given up only by a discard or by a reload
\* that says so: else a command edits them or they reach the files (load_draft,
\* migrate_storage, apply_draft: they look at the published phase).  Rules that a
\* refused format left in the draft are not published and are excepted.
DraftNotLost ==
    [][editor.active /\ editor.draft # begun
       /\ (~editor'.active \/ editor'.draft # editor.draft) => Explicit]_vars

\* Without the exception: a draft that is not what the files held is not replaced
\* silently (update_rules, load_draft).
ReloadIsExplicit ==
    [][editor.active /\ editor.draft # repo.conf
       /\ (~editor'.active \/ editor'.draft # editor.draft) => Explicit]_vars

\* A window that does not say "saved, not yet running" over a running service
\* means that the service runs what the window saved last, or something newer
\* (apply_draft, execute_service_command).
PendingTruthful ==
    task = Idle /\ ~view.pending /\ runtime.running => runtime.rev >= saved
=============================================================================
