----------------------------- MODULE MCQtClient -----------------------------
(* A small instance of the editing of a configuration for TLC.             *)
EXTENDS QtClient

\* One rule, one option, one enabled profile beside a new one.
ARule == [id |-> "r", enabled |-> TRUE, option |-> "o"]
MCStored ==
    {[application |-> DefaultApplication,
      profiles |-> <<[key |-> 1, id |-> "a", enabled |-> TRUE, protocol |-> "openai",
                      path |-> "/x", rules |-> <<>>],
                     [key |-> 2, id |-> "b", enabled |-> FALSE, protocol |-> "openai",
                      path |-> Unset, rules |-> <<>>]>>]}
MCTyped == {Text(<<ARule>>, "crlf"), Text(<<[ARule EXCEPT !.option = NoOption]>>, "typed"),
            Text(<<[ARule EXCEPT !.option = LongOption]>>, "typed")}
MCEdits == {[field |-> "path", value |-> "/y"], [field |-> "path", value |-> Unset],
            [field |-> "threads", value |-> 1], [field |-> "threads", value |-> 2],
            [field |-> "connections", value |-> 1]}
Cli(op, id, field, value) == [op |-> op, id |-> id, field |-> field, value |-> value]
MCCli == {Cli("profile rename", "a", "id", "c"), Cli("rule add", "a", "r", None)}

Scenario(ops, types, commands, cl, menu, faults, legacy) ==
    [ops |-> ops, types |-> types, commands |-> commands, cli |-> cl, menu |-> menu,
     faults |-> faults, legacy |-> legacy]
MCBudgets ==
    {Scenario({"replace", "format", "apply", "discard"}, 2, 2, 0, 0, 0, FALSE),
     Scenario({"replace", "apply", "reload"}, 1, 3, 1, 0, 0, FALSE),
     Scenario({"save_profile", "update_application", "discard", "reload"}, 2, 2, 0, 0, 1, FALSE),
     Scenario({"update_application", "discard"}, 3, 4, 0, 0, 0, FALSE),
     Scenario({"create", "remove", "move", "select", "apply"}, 1, 3, 0, 0, 0, FALSE),
     Scenario({"update_application", "apply", "start", "stop", "reload_service", "refresh"}, 1, 3, 0, 1, 1, FALSE),
     Scenario({"storage_status", "migrate", "reload", "create"}, 0, 3, 1, 0, 1, TRUE)}

\* Rules whose format is refused, then a reset of the editor and a reload.
MCFormat == {Scenario({"format", "reload"}, 1, 2, 0, 0, 0, FALSE)}

\* A save that changes nothing, one that is refused, and a format of the rules.
MCResend == {Scenario({"save_profile", "discard", "format"}, 3, 5, 0, 0, 0, FALSE)}
MCNoText == {}
MCRename == {[field |-> "path", value |-> "/x"], [field |-> "path", value |-> "/y"],
             [field |-> "id", value |-> "b"]}

\* One valid text, saved and then given up by a reload while another is typed.
MCValid == {Text(<<ARule>>, "crlf"), Text(<<>>, "typed")}
MCReload == {Scenario({"replace", "reload"}, 2, 2, 0, 0, 0, FALSE)}

\* Another profile is selected while a field is edited.
MCSelect == {Scenario({"select", "save_profile"}, 1, 2, 0, 0, 0, FALSE)}
=============================================================================
