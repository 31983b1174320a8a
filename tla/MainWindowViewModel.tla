------------------------ MODULE MainWindowViewModel ------------------------
(***************************************************************************)
(* The main window of the tray (presentation/main_window_view_model.cpp):  *)
(* one executor runs the commands of the windows over the shared draft     *)
(* (ConfigurationEditor), the repository and the service, and publishes a  *)
(* view after every change.  Beside it the command line edits the same     *)
(* files from another process, the tray menu drives the service on the     *)
(* same executor without the view model, and the service may end.          *)
(*                                                                         *)
(* The files are one atomic pair here: their revision and what they hold   *)
(* (CompositeRepository models how that is kept).  The service is running  *)
(* a revision of them or not (ServiceControl has its threads).             *)
(*                                                                         *)
(* Every publish_state_change is a step of its own, so that the client may *)
(* be shown any prefix of them: a command computes the views it publishes, *)
(* and PublishNext shows them one at a time.                               *)
(***************************************************************************)
EXTENDS ConfigurationEditor

CONSTANTS
    Stored,         \* configurations the files may hold at first
    CliCommands     \* the commands the user gives on the command line

\* The files hold a valid configuration.
ASSUME StoredAssumption == \A c \in Stored : c \in Configuration /\ CandidateValid(c)

VARIABLES
    disk,           \* [rev, conf, nextKey, legacy]: the files
    repo,           \* [loaded, rev, conf]: the tray's repository object
    editor,         \* [active, rev, draft, next]: the tray's ConfigurationEditor
    runtime,        \* [running, rev]: the service and the revision it runs
    view,           \* the published MainWindowState
    task,           \* the executor: its command and what it has left to publish
    wire,           \* the messages to the client
    cli,            \* the editor of a command line process, or None
    budget,         \* how much of each kind of event is left
    begun,          \* ghost: the draft as begun, with what a refused format left in it
    saved           \* ghost: the last revision the view model saved

trayVars == <<disk, repo, editor, runtime, view, task, wire, cli, budget, begun, saved>>

None == Unset
NoRev == -1
Nobody == [op |-> "none", key |-> NoKey, arg |-> None, rev |-> NoRev, base |-> NoRev]
Idle == [pc |-> "idle", cmd |-> Nobody, views |-> <<>>, outcome |-> "none", was |-> FALSE]

Dirty(v) == v.phase \in {"dirty", "validating", "applying"}

StateSlot == [kind |-> "state", op |-> "none", ok |-> TRUE]
Answer(op, ok) == [kind |-> "answer", op |-> op, ok |-> ok]

\* publish_state keeps one slot for the state, read when it is written.
PushState(w) == IF Contains(w, StateSlot) THEN w ELSE Append(w, StateSlot)

Spend(what) == budget[what] > 0 /\ budget' = [budget EXCEPT ![what] = @ - 1]

-----------------------------------------------------------------------------
(* The view of a draft *)

EmptyView ==
    [phase |-> "unloaded", pending |-> FALSE, rev |-> 0, base |-> NoRev,
     profiles |-> <<>>, key |-> NoKey, id |-> None, fields |-> None, rules |-> None,
     application |-> None, storage |-> "unknown", busy |-> FALSE]

ClearedView(v) ==
    [v EXCEPT !.phase = "unloaded", !.rev = @ + 1, !.base = NoRev, !.profiles = <<>>,
              !.application = None, !.key = NoKey, !.id = None, !.fields = None,
              !.rules = None]

ListItem(p) == [key |-> p.key, id |-> p.id, readiness |-> Readiness(p)]

ProfileEditor(p) ==
    [f \in ProfileFields |-> p[f]]

\* The text of a draft's rules; an unformattable one is shown as no text.
RulesEditor(p) ==
    LET t == FormatRulesText(p.rules)
    IN  [key |-> p.key, text |-> IF t = Refused THEN Garbled ELSE t]

FirstOf(s) == LET I == {i \in DOMAIN s : s[i] # 0} IN IF I = {} THEN 0 ELSE s[Min(I)]

\* The profile the window shows next: the preferred key, the preferred id, the
\* one selected before by key, by id, else the first.
Selected(v, c, key, id) ==
    FirstOf(<<IF key = NoKey THEN 0 ELSE IndexOf(c, key),
              IF id = None THEN 0 ELSE IndexOfId(c, id),
              IF v.key = NoKey THEN 0 ELSE IndexOf(c, v.key),
              IF v.id = None THEN 0 ELSE IndexOfId(c, v.id),
              IF c.profiles = <<>> THEN 0 ELSE 1>>)

Rebuilt(v, c, key, id, preserve) ==
    LET s == Selected(v, c, key, id)
        listed == [v EXCEPT
            !.profiles = [i \in DOMAIN c.profiles |-> ListItem(c.profiles[i])],
            !.application = c.application]
    IN  IF s = 0
        THEN [listed EXCEPT !.key = NoKey, !.id = None, !.fields = None, !.rules = None]
        ELSE LET p == c.profiles[s] IN
            [listed EXCEPT
                !.key = p.key, !.id = p.id, !.fields = ProfileEditor(p),
                !.rules = IF preserve /\ v.rules # None /\ v.rules.key = p.key
                          THEN v.rules ELSE RulesEditor(p)]

\* A draft that was just begun is clean, or saved and not yet running.
Begun(v, rev) ==
    [v EXCEPT !.phase = IF v.pending THEN "saved_pending" ELSE "clean",
              !.rev = @ + 1, !.base = rev]
Edited(v) == [v EXCEPT !.phase = "dirty", !.rev = @ + 1]

-----------------------------------------------------------------------------
(* The executor *)

\* The command's views are published in order, then its outcome.
Finish(views, outcome) ==
    task' = [task EXCEPT !.pc = "publish", !.views = views, !.outcome = outcome]
Reject == Finish(<<>>, "rejected")

Executes(ops) == task.pc = "queued" /\ task.cmd.op \in ops

\* A command that names a draft or a base other than the current one.
PreconditionHolds ==
    /\ task.cmd.rev \in {NoRev, view.rev}
    /\ task.cmd.base \in {NoRev, view.base}

CheckPrecondition ==
    /\ task.pc = "queued" /\ ~PreconditionHolds
    /\ Reject
    /\ UNCHANGED <<disk, repo, editor, runtime, view, wire, cli, budget, begun, saved>>

PublishNext ==
    /\ task.pc # "queued" /\ task.views # <<>>
    /\ view' = [Head(task.views) EXCEPT !.busy = TRUE]
    /\ wire' = PushState(wire)
    /\ task' = [task EXCEPT !.views = Tail(@)]
    /\ UNCHANGED <<disk, repo, editor, runtime, cli, budget, begun, saved>>

\* The answer leaves when the final view is published, before its state unless
\* a state waits already.  The load at the start of the tray has no client.
PublishOutcome ==
    /\ task.pc = "publish" /\ task.views = <<>>
    /\ view' = [view EXCEPT !.busy = FALSE]
    /\ wire' = PushState(IF task.cmd.op = "load" THEN wire
                         ELSE Append(wire, Answer(task.cmd.op, task.outcome \in {"ok", "saved"})))
    /\ task' = Idle
    /\ UNCHANGED <<disk, repo, editor, runtime, cli, budget, begun, saved>>

-----------------------------------------------------------------------------
(* Loading *)

StorageView(v, d) ==
    [v EXCEPT !.storage = IF d.legacy THEN "migration_required" ELSE "ready"]

BeginEditor(rev, conf) ==
    /\ editor' = [active |-> TRUE, rev |-> rev, draft |-> conf, next |-> -1]
    /\ begun' = conf

\* load_draft after its checks: the phase, the repository, the editor, the view.
LoadSucceeds(legacy) ==
    LET loading == [view EXCEPT !.phase = "loading"]
        loaded == Begun(loading, disk'.rev)
        built == Rebuilt(loaded, disk'.conf, NoKey, None, FALSE)
    IN  /\ ~legacy
        /\ repo' = [loaded |-> TRUE, rev |-> disk'.rev, conf |-> disk'.conf]
        /\ BeginEditor(disk'.rev, disk'.conf)
        /\ Finish(<<loading, loaded, built, [built EXCEPT !.storage = "ready"]>>, "ok")

LoadFails ==
    LET loading == [view EXCEPT !.phase = "loading"]
        cleared == ClearedView(loading)
    IN  /\ repo' = [repo EXCEPT !.loaded = FALSE]
        /\ editor' = [editor EXCEPT !.active = FALSE]
        /\ Finish(<<loading, cleared, StorageView(cleared, disk')>>, "failed")
        /\ UNCHANGED begun

\* The first load of the tray, and a reload: a dirty draft is given up only by
\* an explicit decision.
LoadDraft ==
    /\ Executes({"load", "reload"}) /\ PreconditionHolds
    /\ UNCHANGED disk
    /\ IF editor.active /\ (task.cmd.op = "load" \/ (Dirty(view) /\ task.cmd.arg # "discard"))
       THEN Reject /\ UNCHANGED <<repo, editor, budget, begun>>
       ELSE \/ LoadSucceeds(disk.legacy) /\ UNCHANGED budget
            \/ disk.legacy /\ LoadFails /\ UNCHANGED budget
            \/ Spend("faults") /\ LoadFails
    /\ UNCHANGED <<runtime, view, wire, cli, saved>>

DiscardDraft ==
    /\ Executes({"discard"}) /\ PreconditionHolds
    /\ IF ~editor.active
       THEN Reject /\ UNCHANGED <<editor, begun>>
       ELSE LET v == Begun(view, repo.rev) IN
            /\ BeginEditor(repo.rev, repo.conf)
            /\ Finish(<<v, Rebuilt(v, repo.conf, NoKey, None, FALSE)>>, "ok")
    /\ UNCHANGED <<disk, repo, runtime, view, wire, cli, budget, saved>>

-----------------------------------------------------------------------------
(* Editing *)

\* What a command on the list of profiles makes of the draft.  The Qt client renames
\* and switches a profile through its fields; the other two are the macOS window's.
MutateCandidate(cmd, c) ==
    CASE cmd.op = "create" -> CreateProfile(c, editor.next, cmd.arg)
      [] cmd.op = "remove" -> RemoveProfile(c, cmd.key)
      [] cmd.op = "move"   -> MoveProfile(c, cmd.key, cmd.arg)
      [] cmd.op = "rename" -> ApplyBatch(c, cmd.key, [id |-> cmd.arg], FALSE)
      [] cmd.op = "enable" -> ApplyBatch(c, cmd.key, [enabled |-> cmd.arg], TRUE)

MutateDraft ==
    /\ Executes({"create", "remove", "move", "rename", "enable"}) /\ PreconditionHolds
    /\ LET cmd == task.cmd
           c == IF editor.active THEN MutateCandidate(cmd, editor.draft) ELSE Refused
           v == Edited(view)
           key == CASE cmd.op = "create" -> editor.next
                    [] cmd.op = "remove" -> NoKey
                    [] OTHER -> cmd.key
           id == IF cmd.op = "create" THEN cmd.arg ELSE None
       IN  IF c = Refused THEN Reject /\ UNCHANGED editor
           ELSE /\ editor' = [editor EXCEPT !.draft = c,
                                !.next = IF cmd.op = "create" THEN @ - 1 ELSE @]
                /\ IF c = editor.draft THEN Finish(<<>>, "ok")
                   ELSE Finish(<<v, Rebuilt(v, c, key, id, FALSE)>>, "ok")
    /\ UNCHANGED <<disk, repo, runtime, view, wire, cli, budget, begun, saved>>

UpdateFields ==
    /\ Executes({"save_profile", "update_application"}) /\ PreconditionHolds
    /\ LET cmd == task.cmd
           c == IF editor.active THEN ApplyBatch(editor.draft, cmd.key, cmd.arg, TRUE)
                ELSE Refused
           v == IF c = editor.draft THEN view ELSE Edited(view)
           edited == IF c = editor.draft THEN <<>> ELSE <<v>>
       IN  IF c = Refused THEN Reject /\ UNCHANGED editor
           ELSE /\ editor' = [editor EXCEPT !.draft = c]
                /\ Finish(Append(edited, Rebuilt(v, c, cmd.key, None, FALSE)), "ok")
    /\ UNCHANGED <<disk, repo, runtime, view, wire, cli, budget, begun, saved>>

\* A rejected text is shown with its diagnostic.  A text is stored before it is
\* formatted, and stays stored, without a word of it, when the format fails.
UpdateRules ==
    /\ Executes({"replace", "format"}) /\ PreconditionHolds
    /\ LET cmd == task.cmd
           t == NormalizeNewlines(cmd.arg)
           c == IF editor.active THEN ReplaceRulesText(editor.draft, cmd.key, t) ELSE Refused
           shown == IF cmd.op = "format" THEN FormatRulesText(t.rules) ELSE t
           unformatted == cmd.op = "format" /\ shown = Refused
           rejected == [view EXCEPT !.rules = [key |-> cmd.key, text |-> t], !.rev = @ + 1]
           dirty == [view EXCEPT !.phase = "dirty"]
           v == IF c = editor.draft THEN view ELSE dirty
           built == Rebuilt(v, c, cmd.key, None, FALSE)
           final == [built EXCEPT !.rev = @ + 1,
                        !.rules = IF @.key = cmd.key THEN [@ EXCEPT !.text = shown] ELSE @]
       IN  IF ~editor.active THEN Reject /\ UNCHANGED <<editor, begun>>
           ELSE IF c = Refused
           THEN Finish(<<rejected>>, "rejected") /\ UNCHANGED <<editor, begun>>
           ELSE /\ editor' = [editor EXCEPT !.draft = c]
                /\ begun' = IF unformatted /\ ~Dirty(view) THEN c ELSE begun
                /\ IF unformatted THEN Reject
                   ELSE Finish((IF c = editor.draft THEN <<>> ELSE <<dirty>>) \o <<built, final>>,
                               "ok")
    /\ UNCHANGED <<disk, repo, runtime, view, wire, cli, budget, saved>>

\* Selecting publishes the new selection before the editors of its profile.
SelectProfile ==
    /\ Executes({"select"}) /\ PreconditionHolds
    /\ LET found == {i \in DOMAIN view.profiles : view.profiles[i].key = task.cmd.key} IN
       IF found = {} THEN Reject
       ELSE LET item == view.profiles[CHOOSE i \in found : TRUE]
                v == [view EXCEPT !.key = item.key, !.id = item.id]
            IN  Finish(<<v, Rebuilt(v, editor.draft, item.key, None, FALSE)>>, "ok")
    /\ UNCHANGED <<disk, repo, editor, runtime, view, wire, cli, budget, begun, saved>>

Refresh ==
    /\ Executes({"refresh"}) /\ PreconditionHolds
    /\ Finish(<<IF editor.active THEN Rebuilt(view, editor.draft, NoKey, None, TRUE)
                ELSE [view EXCEPT !.profiles = <<>>, !.application = None, !.key = NoKey,
                                  !.id = None, !.fields = None, !.rules = None]>>, "ok")
    /\ UNCHANGED <<disk, repo, editor, runtime, view, wire, cli, budget, begun, saved>>

-----------------------------------------------------------------------------
(* The service, as ApplicationController runs it on this executor *)

\* A start or a reload reads the files and compiles what they hold, and may fail
\* in the listener as well.  A failed reload leaves the old runtime or none.
Stopped == [running |-> FALSE, rev |-> NoRev]
CanRun(d) == ~d.legacy /\ Runnable(d.conf)

ServiceCommand(op, ok) ==
    \/ /\ op \in {"start", "reload_service"} /\ ok
       /\ (op = "start") # runtime.running /\ CanRun(disk)
       /\ runtime' = [running |-> TRUE, rev |-> disk.rev]
    \/ op = "stop" /\ ok /\ runtime' = Stopped
    \/ op = "start" /\ ~ok /\ UNCHANGED runtime
    \/ op = "reload_service" /\ ~ok /\ runtime' \in {runtime, Stopped}

ExecuteServiceCommand ==
    /\ Executes({"start", "stop", "reload_service"}) /\ PreconditionHolds
    /\ \E ok \in BOOLEAN :
        /\ ServiceCommand(task.cmd.op, ok)
        /\ IF ~ok THEN Finish(<<>>, "failed")
           ELSE IF task.cmd.op = "stop" THEN Finish(<<>>, "ok")
           ELSE Finish(<<[view EXCEPT !.pending = FALSE,
                            !.phase = IF @ = "saved_pending" THEN "clean" ELSE @]>>, "ok")
    /\ UNCHANGED <<disk, repo, editor, view, wire, cli, budget, begun, saved>>

\* The menu of the tray uses the controller on the same executor and leaves the
\* view model as it is.
MenuCommand ==
    /\ task.pc \in {"idle", "queued"}
    /\ Spend("menu")
    /\ \E op \in {"start", "stop", "reload_service"}, ok \in BOOLEAN : ServiceCommand(op, ok)
    /\ UNCHANGED <<disk, repo, editor, view, task, wire, cli, begun, saved>>

\* The service ends by itself.
RuntimeEnds ==
    /\ runtime.running /\ Spend("faults")
    /\ runtime' = Stopped
    /\ UNCHANGED <<disk, repo, editor, view, task, wire, cli, begun, saved>>

-----------------------------------------------------------------------------
(* Applying: check and validate, commit, reload the service, begin again *)

ApplyCheck ==
    /\ Executes({"apply"}) /\ PreconditionHolds
    /\ LET validating == [view EXCEPT !.phase = "validating"] IN
       IF ~editor.active \/ ~Dirty(view) THEN Reject
       ELSE IF ~CandidateValid(editor.draft)
       THEN Finish(<<validating, [view EXCEPT !.phase = "dirty"]>>, "rejected")
       ELSE task' = [task EXCEPT !.pc = "commit", !.was = runtime.running,
                        !.views = <<validating, [view EXCEPT !.phase = "applying"]>>]
    /\ UNCHANGED <<disk, repo, editor, runtime, view, wire, cli, budget, begun, saved>>

\* What the store makes of a draft: draft keys become new stored keys.
StoredConf(d, c) ==
    LET fresh == SelectSeq(c.profiles, LAMBDA p : p.key < 0)
        newKey(p) == d.nextKey + SelectInSeq(fresh, LAMBDA q : q.key = p.key) - 1
    IN  [c EXCEPT !.profiles = [i \in DOMAIN c.profiles |->
            IF c.profiles[i].key < 0
            THEN [c.profiles[i] EXCEPT !.key = newKey(c.profiles[i])]
            ELSE c.profiles[i]]]
Saved(d, c) ==
    [d EXCEPT !.rev = @ + 1, !.conf = StoredConf(d, c),
        !.nextKey = @ + Len(SelectSeq(c.profiles, LAMBDA p : p.key < 0))]

\* Mutant: a stale save begins again from what is on the disk.
ApplyStaleBegins ==
    /\ task.pc = "commit" /\ task.views = <<>>
    /\ editor.rev # disk.rev
    /\ repo' = [repo EXCEPT !.rev = disk.rev, !.conf = disk.conf]
    /\ BeginEditor(disk.rev, disk.conf)
    /\ Finish(<<Rebuilt(Begun(view, disk.rev), disk.conf, NoKey, None, FALSE)>>, "failed")
    /\ UNCHANGED <<disk, runtime, view, wire, cli, budget, saved>>

\* save_snapshot reads the files again before it compares the revisions, so a
\* stale save leaves the repository with what is on the disk.
ApplyStale ==
    /\ task.pc = "commit" /\ task.views = <<>>
    /\ editor.rev # disk.rev
    /\ repo' = [repo EXCEPT !.rev = disk.rev, !.conf = disk.conf]
    /\ Finish(<<[view EXCEPT !.phase = "dirty"]>>, "failed")
    /\ UNCHANGED <<disk, editor, runtime, view, wire, cli, budget, begun, saved>>

ApplyCommit ==
    /\ task.pc = "commit" /\ task.views = <<>>
    /\ editor.rev = disk.rev
    /\ disk' = Saved(disk, editor.draft)
    /\ repo' = [repo EXCEPT !.rev = disk'.rev, !.conf = disk'.conf]
    /\ editor' = [editor EXCEPT !.active = FALSE, !.draft = disk'.conf, !.rev = disk'.rev]
    /\ saved' = disk'.rev
    /\ task' = [task EXCEPT !.pc = "reload"]
    /\ UNCHANGED <<runtime, view, wire, cli, budget, begun>>

ApplyFault ==
    /\ task.pc = "commit" /\ task.views = <<>>
    /\ Spend("faults")
    /\ Finish(<<[view EXCEPT !.phase = "dirty"]>>, "failed")
    /\ UNCHANGED <<disk, repo, editor, runtime, view, wire, cli, begun, saved>>

\* Mutant: the result of the reload is not looked at.
ApplyReloadUnchecked ==
    /\ task.pc = "reload"
    /\ IF ~task.was THEN UNCHANGED runtime
       ELSE \E ok \in BOOLEAN : ServiceCommand("reload_service", ok)
    /\ task' = [task EXCEPT !.pc = "begin", !.was = TRUE]
    /\ UNCHANGED <<disk, repo, editor, view, wire, cli, budget, begun, saved>>

\* The status was read before the commit: a service that ended since fails here.
ApplyReload ==
    /\ task.pc = "reload"
    /\ IF ~task.was
       THEN task' = [task EXCEPT !.pc = "begin", !.was = TRUE] /\ UNCHANGED runtime
       ELSE \E ok \in BOOLEAN :
            /\ ServiceCommand("reload_service", ok)
            /\ task' = [task EXCEPT !.pc = "begin", !.was = ok]
    /\ UNCHANGED <<disk, repo, editor, view, wire, cli, budget, begun, saved>>

\* task.was says here whether the runtime has the saved configuration.
ApplyBegin ==
    /\ task.pc = "begin"
    /\ BeginEditor(repo.rev, repo.conf)
    /\ LET v == Begun([view EXCEPT !.pending = ~task.was], repo.rev)
       IN  Finish(<<v, Rebuilt(v, repo.conf, NoKey, view.id, FALSE)>>,
                  IF task.was THEN "ok" ELSE "saved")
    /\ UNCHANGED <<disk, repo, runtime, view, wire, cli, budget, saved>>

-----------------------------------------------------------------------------
(* Storage *)

StorageStatus ==
    /\ Executes({"storage_status"}) /\ PreconditionHolds
    /\ Finish(<<StorageView(view, disk)>>, "ok")
    /\ UNCHANGED <<disk, repo, editor, runtime, view, wire, cli, budget, begun, saved>>

\* A migration is refused over a dirty draft, does nothing to migrated files,
\* and loads the draft of the files it wrote.
MigrateStorage ==
    /\ Executes({"migrate"}) /\ PreconditionHolds
    /\ IF Dirty(view)
       THEN Reject /\ UNCHANGED <<disk, repo, editor, budget, begun>>
       ELSE \/ /\ ~disk.legacy /\ Finish(<<StorageView(view, disk)>>, "ok")
               /\ UNCHANGED <<disk, repo, editor, budget, begun>>
            \/ /\ disk.legacy
               /\ disk' = [disk EXCEPT !.legacy = FALSE, !.rev = @ + 1]
               /\ \/ LoadSucceeds(FALSE) /\ UNCHANGED budget
                  \/ Spend("faults") /\ LoadFails
            \/ /\ disk.legacy
               /\ Spend("faults") /\ Finish(<<StorageView(view, disk)>>, "failed")
               /\ UNCHANGED <<disk, repo, editor, begun>>
    /\ UNCHANGED <<runtime, view, wire, cli, saved>>

-----------------------------------------------------------------------------
(* The command line: another process with its own repository and editor *)

\* One command is one operation on the draft; the profile is named by its id.
CliCandidate(cmd, c) ==
    LET i == IndexOfId(c, cmd.id)
        key == IF i = 0 THEN NoKey ELSE c.profiles[i].key
    IN  CASE cmd.op = "config set"     -> SetField(c, NoKey, cmd.field, cmd.value)
          [] cmd.op = "config unset"   -> ResetField(c, NoKey, cmd.field)
          [] cmd.op = "profile create" -> CreateProfile(c, -1, cmd.id)
          [] OTHER ->
             IF i = 0 THEN Refused ELSE
             CASE cmd.op = "profile remove" -> RemoveProfile(c, key)
               [] cmd.op = "profile rename" -> SetField(c, key, "id", cmd.value)
               [] cmd.op = "profile move"   -> MoveProfile(c, key, cmd.value)
               [] cmd.op \in {"profile enable", "profile disable"} ->
                  SetField(c, key, "enabled", cmd.op = "profile enable")
               [] cmd.op = "profile set"    -> SetField(c, key, cmd.field, cmd.value)
               [] cmd.op = "profile unset"  -> ResetField(c, key, cmd.field)
               [] cmd.op = "rule add"       -> AddRule(c, key, cmd.field)
               [] cmd.op = "rule remove"    -> RemoveRule(c, key, cmd.field)
               [] cmd.op \in {"rule enable", "rule disable"} ->
                  SetRuleEnabled(c, key, cmd.field, cmd.op = "rule enable")
               [] cmd.op = "rule set"       -> SetRuleOption(c, key, cmd.field, cmd.value)
               [] cmd.op = "rule unset"     -> UnsetRuleOption(c, key, cmd.field)
               [] cmd.op = "rule move"      -> MoveRule(c, key, cmd.field, cmd.value)

CliBegin ==
    /\ cli = None /\ ~disk.legacy /\ Spend("cli")
    /\ \E cmd \in CliCommands : cli' = [rev |-> disk.rev, conf |-> CliCandidate(cmd, disk.conf)]
    /\ UNCHANGED <<disk, repo, editor, runtime, view, task, wire, begun, saved>>

CliCommit ==
    /\ cli # None
    /\ disk' = IF cli.conf # Refused /\ CandidateValid(cli.conf) /\ cli.rev = disk.rev
               THEN Saved(disk, cli.conf) ELSE disk
    /\ cli' = None
    /\ UNCHANGED <<repo, editor, runtime, view, task, wire, budget, begun, saved>>

\* "storage migrate" from the command line.
CliMigrate ==
    /\ cli = None /\ disk.legacy /\ Spend("cli")
    /\ disk' = [disk EXCEPT !.legacy = FALSE, !.rev = @ + 1]
    /\ UNCHANGED <<repo, editor, runtime, view, task, wire, cli, begun, saved>>

-----------------------------------------------------------------------------
\* The tray starts with its service on or off and loads the draft.
TrayInit ==
    /\ \E c \in Stored :
        disk = [rev |-> 1, conf |-> c, legacy |-> budget.legacy,
                nextKey |-> 1 + Max({0} \cup {c.profiles[i].key : i \in DOMAIN c.profiles})]
    /\ runtime \in {Stopped} \cup
                    (IF CanRun(disk) THEN {[running |-> TRUE, rev |-> disk.rev]} ELSE {})
    /\ repo = [loaded |-> FALSE, rev |-> NoRev, conf |-> None]
    /\ editor = [active |-> FALSE, rev |-> NoRev, draft |-> None, next |-> -1]
    /\ view = [EmptyView EXCEPT !.busy = TRUE]
    /\ task = [Idle EXCEPT !.pc = "queued", !.cmd.op = "load"]
    /\ wire = <<>> /\ cli = None /\ begun = None /\ saved = NoRev
=============================================================================
