------------------------- MODULE SystemProxyWatcher -------------------------
(***************************************************************************)
(* WinHttpTransport::Impl: the constructor reads the system proxy settings *)
(* of the user and publishes a session for them, and a thread republishes  *)
(* when a registry notification says that they have changed.  A setting is *)
(* the number of changes so far.                                           *)
(***************************************************************************)
EXTENDS Naturals

CONSTANT MaxChanges    \* bound: changes of the settings

ASSUME WatcherAssumption == MaxChanges \in Nat

VARIABLES
    settings,   \* the user's settings
    armed,      \* a registry notification is armed
    signalled,  \* change_event
    watcher,    \* the watcher's next step
    latest,     \* the settings it has read
    published,  \* SessionPublication
    missed      \* the last change came before the watcher's first notification

proxyVars == <<settings, armed, signalled, watcher, latest, published, missed>>

Watching(l) == watcher' = l

\* The user changes the settings; a notification that is armed signals once.
SettingsChange ==
    /\ settings < MaxChanges
    /\ settings' = settings + 1
    /\ signalled' = (signalled \/ armed) /\ armed' = FALSE
    /\ missed' = (watcher = "start")
    /\ Watching(watcher)
    /\ UNCHANGED <<latest, published>>

WatcherArms ==
    /\ watcher = "start"
    /\ armed' = TRUE
    /\ Watching("wait")
    /\ UNCHANGED <<settings, signalled, latest, published, missed>>

\* (mutant) A change that is noticed is not watched for again.
WatcherWakesUnarmed ==
    /\ watcher = "wait" /\ signalled
    /\ signalled' = FALSE /\ armed' = armed
    /\ Watching("query")
    /\ UNCHANGED <<settings, latest, published, missed>>

\* The notification is armed again before the settings are read.
WatcherWakes ==
    /\ watcher = "wait" /\ signalled
    /\ signalled' = FALSE /\ armed' = TRUE
    /\ Watching("query")
    /\ UNCHANGED <<settings, latest, published, missed>>

\* refresh_session reads the settings,
RefreshQueries ==
    /\ watcher = "query"
    /\ latest' = settings
    /\ Watching("publish")
    /\ UNCHANGED <<settings, armed, signalled, published, missed>>

\* and publishes a session for them; unchanged ones only clear the error.
RefreshPublishes ==
    /\ watcher = "publish"
    /\ published' = [session |-> latest, error |-> FALSE]
    /\ Watching("wait")
    /\ UNCHANGED <<settings, armed, signalled, latest, missed>>

\* The settings cannot be read, the session cannot be opened: the error is
\* published, the watcher goes on.
RefreshFails ==
    /\ watcher \in {"query", "publish"}
    /\ published' = [published EXCEPT !.error = TRUE]
    /\ Watching("wait")
    /\ UNCHANGED <<settings, armed, signalled, latest, missed>>

\* A notification cannot be armed: the error stays.
WatcherFails ==
    /\ watcher = "start" \/ (watcher = "wait" /\ signalled)
    /\ published' = [published EXCEPT !.error = TRUE]
    /\ Watching("exited")
    /\ UNCHANGED <<settings, armed, signalled, latest, missed>>

\* The transport of a retired generation is destroyed.
WatcherStops ==
    /\ watcher = "wait"
    /\ Watching("exited")
    /\ UNCHANGED <<settings, armed, signalled, latest, published, missed>>

-----------------------------------------------------------------------------
ProxyInit ==
    /\ settings = 0 /\ armed = FALSE /\ signalled = FALSE /\ watcher = "start"
    /\ latest = 0 /\ published = [session |-> 0, error |-> FALSE] /\ missed = FALSE

WatcherStep ==
    \/ WatcherArms \/ WatcherWakes \/ RefreshQueries \/ RefreshPublishes
    \/ RefreshFails \/ WatcherFails

ProxyNext == SettingsChange \/ WatcherStep \/ WatcherStops

\* The watcher's thread runs.
ProxyFairness == WF_proxyVars(WatcherStep)

ProxySpec == ProxyInit /\ [][ProxyNext]_proxyVars /\ ProxyFairness

-----------------------------------------------------------------------------
\* The session for new requests is the one for the present settings, or an
\* error is published, once the watcher has armed its first notification
\* (watcher_loop, refresh_session).
ProxyFollowed ==
    <>[](\/ published.error \/ published.session = settings
         \/ watcher = "exited" \/ missed)

\* The same without the exception, as the README has it: "A registry watcher
\* publishes a new session for new requests when settings change".
SettingsPublished ==
    <>[](published.error \/ published.session = settings \/ watcher = "exited")
=============================================================================
