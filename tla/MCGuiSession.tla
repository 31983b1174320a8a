--------------------------- MODULE MCGuiSession ---------------------------
EXTENDS GuiSession

Bound(w, t, o, c, m, e, x, s) ==
    [open |-> w, ticks |-> t, opens |-> o, commands |-> c, menu |-> m, exits |-> e,
     crashes |-> x, strangers |-> s]

\* The GUI runs: its command against the menu's, two commands, a crash and
\* the next process.  It is launched: two processes in turn, a crash and the
\* exit of the tray, a stranger on the pipe.
MCBudgets == {Bound(TRUE, 0, 0, 1, 1, 0, 0, 0), Bound(TRUE, 1, 0, 2, 0, 0, 0, 0),
              Bound(TRUE, 1, 1, 0, 0, 0, 1, 0), Bound(FALSE, 0, 2, 1, 0, 0, 0, 0),
              Bound(FALSE, 0, 1, 1, 0, 1, 1, 0), Bound(FALSE, 1, 1, 0, 0, 1, 0, 1)}

\* A GUI that crashes while it runs a command and the user opens its window;
\* the tray does not exit.
CrashBudgets == {Bound(TRUE, 1, 2, 1, 0, 0, 1, 0)}
=============================================================================
