------------------------------- MODULE Surface -------------------------------
(***************************************************************************)
(* What a launch of `lwa` brings up and what it takes down again:          *)
(* launch.py and terminal_launchers.py (the launcher), codex_bridge.py     *)
(* (the process that owns Codex in a second window), the session classes   *)
(* of codex_session.py and the beginning and end of terminal_frame.py.     *)
(* A launch is native (Codex in a pane of the same tmux server), bridged,  *)
(* or embedded (the compatibility frame, Codex a child of the frame).      *)
(* Launches share the key bindings of one tmux server and nothing else.    *)
(***************************************************************************)
EXTENDS Naturals

CONSTANTS
    Launch,              \* processes started with `lwa`
    NoLaunch,            \* the owner of an unbound key
    Modes,               \* the modes the host offers
    WaitsForConnections  \* Server.wait_closed waits for open connections (Python 3.12 and later)

ASSUME SurfaceAssumption ==
    /\ NoLaunch \notin Launch
    /\ Modes \subseteq {"native", "bridged", "embedded"}
    /\ WaitsForConnections \in BOOLEAN

Keys == {"focus", "quit", "copy"}
Causes == {"process", "stdin", "client", "timeout", "close"}

VARIABLES
    frame,    \* "idle", the key to bind next, "joining", "running", "closing", "closed", "ended"
              \* or "killed"
    mode,     \* how a launch shows Codex
    believed,   \* session_active: what the frame believes of its session
    codex,    \* the Codex process: "none", "alive" or "over"
    keys,     \* tmux's root table: the launch that bound each key last
    bridge,   \* run of the bridge: "none", "started", "listening", "serving", "stopping", "ended"
    link,     \* the frame's connection to the bridge: "none", "open" or "lost"
    asked,    \* _shutdown_event of the bridge
    claimed,  \* _client_connected of the bridge
    socket,   \* the socket file exists
    crashed   \* history: launches whose bridge died, or could not spawn Codex

processes == <<frame, mode, believed, codex>>
bridgeVars == <<bridge, link, asked, claimed, socket, crashed>>
surfaceVars == <<processes, keys, bridgeVars>>

Phase == Keys \cup {"idle", "joining", "running", "closing", "closed", "ended", "killed"}

SurfaceTypeOK ==
    /\ frame \in [Launch -> Phase]
    /\ mode \in [Launch -> Modes]
    /\ believed \in [Launch -> BOOLEAN]
    /\ codex \in [Launch -> {"none", "alive", "over"}]
    /\ keys \in [Keys -> Launch \cup {NoLaunch}]
    /\ bridge \in [Launch -> {"none", "started", "listening", "serving", "stopping", "ended"}]
    /\ link \in [Launch -> {"none", "open", "lost"}]
    /\ asked \in [Launch -> BOOLEAN] /\ claimed \in [Launch -> BOOLEAN]
    /\ socket \in [Launch -> BOOLEAN]
    /\ crashed \subseteq Launch

SurfaceInit ==
    /\ frame = [l \in Launch |-> "idle"]
    /\ mode \in [Launch -> Modes]
    /\ believed = [l \in Launch |-> TRUE]
    /\ codex = [l \in Launch |-> "none"]
    /\ keys = [k \in Keys |-> NoLaunch]
    /\ bridge = [l \in Launch |-> "none"]
    /\ link = [l \in Launch |-> "none"]
    /\ asked = [l \in Launch |-> FALSE] /\ claimed = [l \in Launch |-> FALSE]
    /\ socket = [l \in Launch |-> FALSE]
    /\ crashed = {}

To(v, l, x) == [v EXCEPT ![l] = x]

\* A connection between a frame and its bridge is lost when either of them closes it.
Cut(l) == To(link, l, IF link[l] = "open" THEN "lost" ELSE link[l])
Over(l) == IF codex[l] = "alive" THEN "over" ELSE codex[l]

------------------------------------------------------------------------------
(* The launcher *)

\* Nothing could be opened: no executable, no tmux split, no terminal, or a failed bootstrap.
LaunchFails(l) ==
    /\ frame[l] = "idle"
    /\ frame' = To(frame, l, "ended")
    /\ UNCHANGED <<mode, believed, codex, keys, bridgeVars>>

\* Codex's pane is split off; its keys are still to be bound.
LaunchNative(l) ==
    /\ frame[l] = "idle" /\ mode[l] = "native"
    /\ frame' = To(frame, l, "focus")
    /\ codex' = To(codex, l, "alive")
    /\ UNCHANGED <<mode, believed, keys, bridgeVars>>

AfterKey(k) == CASE k = "focus" -> "quit" [] k = "quit" -> "copy" [] k = "copy" -> "joining"

\* Whose a key is when tmux was asked to bind it, which may fail unnoticed: the focus keys are
\* cleared first, of whichever launch they are.
Bound(l, k) == {l, keys[k]} \cup (IF k = "focus" THEN {NoLaunch} ELSE {})

\* The root table's next key is bound to this launch, whoever had it.
BindKey(l) ==
    /\ frame[l] \in Keys
    /\ \E owner \in Bound(l, frame[l]) : keys' = [keys EXCEPT ![frame[l]] = owner]
    /\ frame' = To(frame, l, AfterKey(frame[l]))
    /\ UNCHANGED <<mode, believed, codex, bridgeVars>>

\* A terminal is told to run the bridge, in a split or a window; nobody waits for it to come up.
LaunchBridge(l) ==
    /\ frame[l] = "idle" /\ mode[l] = "bridged"
    /\ frame' = To(frame, l, "joining")
    /\ bridge' = To(bridge, l, "started")
    /\ UNCHANGED <<mode, believed, codex, keys, link, asked, claimed, socket, crashed>>

LaunchEmbedded(l) ==
    /\ frame[l] = "idle" /\ mode[l] = "embedded"
    /\ frame' = To(frame, l, "joining")
    /\ UNCHANGED <<mode, believed, codex, keys, bridgeVars>>

\* Mutant of Unbind: the key that closes the window is forgotten.
UnbindFocus(l) == [k \in Keys |-> IF k = "quit" THEN keys[k] ELSE NoLaunch]

\* _cleanup_native_focus_bindings unbinds every key, whichever launch bound it.
Unbind(l) == [k \in Keys |-> NoLaunch]

\* launch_frame after run has returned: a native launch unbinds the keys and kills its pane, a
\* bridged one removes the socket file.
Finish(l) ==
    /\ frame' = To(frame, l, "ended")
    /\ keys' = IF mode[l] = "native" THEN Unbind(l) ELSE keys
    /\ codex' = IF mode[l] = "native" THEN To(codex, l, Over(l)) ELSE codex
    /\ socket' = To(socket, l, FALSE)

------------------------------------------------------------------------------
(* The frame and its session *)

\* start: the native session is there, the embedded one spawns Codex, the bridged one connects.
StartSession(l) ==
    /\ frame[l] = "joining"
    /\ frame' = To(frame, l, "running")
    /\ \/ /\ mode[l] = "native"
          /\ UNCHANGED <<codex, link, claimed>>
       \/ /\ mode[l] = "embedded"
          /\ codex' = To(codex, l, "alive")
          /\ UNCHANGED <<link, claimed>>
       \/ /\ mode[l] = "bridged" /\ bridge[l] \in {"listening", "serving"}
          /\ link' = To(link, l, "open")
          /\ claimed' = To(claimed, l, TRUE)
          /\ UNCHANGED codex
    /\ UNCHANGED <<mode, believed, keys, bridge, asked, socket, crashed>>

\* The child cannot be spawned, or the bridge is not reachable in time: run reports it and
\* returns, so the launcher cleans up but does not see the exception that would end the bridge.
JoinFails(l) ==
    /\ frame[l] = "joining" /\ mode[l] # "native"
    /\ mode[l] = "bridged" => bridge[l] \notin {"listening", "serving"}
    /\ Finish(l)
    /\ UNCHANGED <<mode, believed, bridge, link, asked, claimed, crashed>>

\* The frame reads the end of its connection; an embedded or native session never says so.
HearEnd(l) ==
    /\ frame[l] = "running" /\ believed[l] /\ link[l] = "lost"
    /\ believed' = To(believed, l, FALSE)
    /\ UNCHANGED <<frame, mode, codex, keys, bridgeVars>>

\* A prompt or a new size for a session that is gone: a dead child or pane makes the session
\* inactive, a lost connection raises an exception the frame does not expect and ends it.
WriteFails(l) ==
    /\ frame[l] = "running" /\ believed[l]
    /\ IF mode[l] = "bridged"
       THEN link[l] = "lost" /\ frame' = To(frame, l, "closing") /\ UNCHANGED believed
       ELSE codex[l] = "over" /\ believed' = To(believed, l, FALSE) /\ UNCHANGED frame
    /\ UNCHANGED <<mode, codex, keys, bridgeVars>>

\* Escape, Ctrl+Q, or an exception of the frame.
Exit(l) ==
    /\ frame[l] = "running"
    /\ frame' = To(frame, l, "closing")
    /\ UNCHANGED <<mode, believed, codex, keys, bridgeVars>>

\* BridgeCodexSession.close tells a bridge it is connected to that it should close.
Hangup(l) == asked[l] \/ link[l] = "open"

\* close_once: the child or pane is ended; a bridge is told to close and the connection with it.
\* A native session that found its pane gone does nothing.
CloseFrame(l) ==
    /\ frame[l] = "closing"
    /\ frame' = To(frame, l, "closed")
    /\ codex' = IF mode[l] = "bridged" THEN codex ELSE To(codex, l, Over(l))
    /\ asked' = To(asked, l, Hangup(l))
    /\ link' = Cut(l)
    /\ UNCHANGED <<mode, believed, keys, bridge, claimed, socket, crashed>>

FrameReturns(l) ==
    /\ frame[l] = "closed"
    /\ Finish(l)
    /\ UNCHANGED <<mode, believed, bridge, link, asked, claimed, crashed>>

\* The frame dies with its terminal, or a native launch ends by an exception or an interrupt
\* while it binds its keys: none of the above is done, only its connection is lost.
Killed(l) ==
    /\ frame[l] \in Phase \ {"idle", "ended", "killed"}
    /\ frame' = To(frame, l, "killed")
    /\ link' = Cut(l)
    /\ UNCHANGED <<mode, believed, codex, keys, bridge, asked, claimed, socket, crashed>>

\* The quit key, pressed in the window of a native launch, kills frame and pane at once.
KillWindow(l) ==
    /\ keys["quit"] # NoLaunch
    /\ mode[l] = "native" /\ frame[l] \in Phase \ {"idle", "ended", "killed"}
    /\ frame' = To(frame, l, "killed")
    /\ codex' = To(codex, l, Over(l))
    /\ UNCHANGED <<mode, believed, keys, bridgeVars>>

CodexExits(l) ==
    /\ codex[l] = "alive"
    /\ codex' = To(codex, l, "over")
    /\ UNCHANGED <<frame, mode, believed, keys, bridgeVars>>

------------------------------------------------------------------------------
(* The bridge *)

\* run, up to the server: there is a socket file from here on.
Listen(l) ==
    /\ bridge[l] = "started"
    /\ bridge' = To(bridge, l, "listening")
    /\ socket' = To(socket, l, TRUE)
    /\ UNCHANGED <<processes, keys, link, asked, claimed, crashed>>

\* The child is spawned in a thread while the server already accepts; if that fails run raises
\* before anything would close the server or remove the file.
Serve(l) ==
    /\ bridge[l] = "listening"
    /\ bridge' = To(bridge, l, "serving")
    /\ codex' = To(codex, l, "alive")
    /\ UNCHANGED <<frame, mode, believed, keys, link, asked, claimed, socket, crashed>>

ServeFails(l) ==
    /\ bridge[l] \in {"started", "listening"}
    /\ bridge' = To(bridge, l, "ended")
    /\ link' = Cut(l)
    /\ crashed' = crashed \cup {l}
    /\ UNCHANGED <<processes, keys, asked, claimed, socket>>

\* The bridge is hung up with its window, terminated or killed: it handles no signal, and its
\* child, which has a session of its own, and the socket file stay.
BridgeDies(l) ==
    /\ bridge[l] \in {"started", "listening", "serving", "stopping"}
    /\ bridge' = To(bridge, l, "ended")
    /\ link' = Cut(l)
    /\ crashed' = crashed \cup {l}
    /\ UNCHANGED <<processes, keys, asked, claimed, socket>>

\* The tasks of the bridge that may end: the child's waiter and its output's reader, the standard
\* input's, the wait for a first client, and the handler of a client that says "close".
Fires(l, cause) ==
    CASE cause = "process" -> codex[l] # "alive"
      [] cause = "stdin"   -> TRUE
      [] cause = "client"  -> claimed[l]
      [] cause = "timeout" -> ~claimed[l]
      [] cause = "close"   -> asked[l]

\* Mutant of Stop: a bridge nobody claims is not given up.
StopOnlyServed(l, cause) ==
    /\ bridge[l] = "serving" /\ cause \notin {"timeout", "stdin"}
    /\ Fires(l, cause)
    /\ bridge' = To(bridge, l, "stopping")
    /\ UNCHANGED <<processes, keys, link, asked, claimed, socket, crashed>>

\* run waits for the first of its tasks; the others are cancelled, the PTY's reader among them,
\* and close begins.
Stop(l, cause) ==
    /\ bridge[l] = "serving"
    /\ Fires(l, cause)
    /\ bridge' = To(bridge, l, "stopping")
    /\ UNCHANGED <<processes, keys, link, asked, claimed, socket, crashed>>

\* Mutant of BridgeEnds: close ends when the server does.
BridgeEndsEarly(l) ==
    /\ bridge[l] = "stopping"
    /\ WaitsForConnections => link[l] # "open"
    /\ bridge' = To(bridge, l, "ended")
    /\ link' = Cut(l)
    /\ UNCHANGED <<processes, keys, asked, claimed, socket, crashed>>

\* The rest of close: the server waits for its connections (or not), the child is terminated,
\* then killed, and the socket file is removed.
BridgeEnds(l) ==
    /\ bridge[l] = "stopping"
    /\ WaitsForConnections => link[l] # "open"
    /\ bridge' = To(bridge, l, "ended")
    /\ codex' = To(codex, l, Over(l))
    /\ link' = Cut(l)
    /\ socket' = To(socket, l, FALSE)
    /\ UNCHANGED <<frame, mode, believed, keys, asked, claimed, crashed>>

SurfaceQuiet ==
    /\ \A l \in Launch : frame[l] \in {"ended", "killed"} /\ bridge[l] \in {"none", "ended"}
    /\ UNCHANGED surfaceVars

SurfaceNext ==
    \/ \E l \in Launch :
        \/ LaunchFails(l) \/ LaunchNative(l) \/ BindKey(l) \/ LaunchBridge(l)
        \/ LaunchEmbedded(l)
        \/ StartSession(l) \/ JoinFails(l) \/ HearEnd(l) \/ WriteFails(l)
        \/ Exit(l) \/ CloseFrame(l) \/ FrameReturns(l) \/ Killed(l) \/ KillWindow(l) \/ CodexExits(l)
        \/ Listen(l) \/ Serve(l) \/ ServeFails(l) \/ BridgeEnds(l) \/ BridgeDies(l)
        \/ \E cause \in Causes : Stop(l, cause)
    \/ SurfaceQuiet

\* Processes run on, timers fire and connections that are lost are noticed; nobody need exit.
SurfaceFairness ==
    \A l \in Launch :
        /\ WF_surfaceVars(CloseFrame(l)) /\ WF_surfaceVars(FrameReturns(l))
        /\ WF_surfaceVars(Listen(l)) /\ WF_surfaceVars(Serve(l) \/ ServeFails(l))
        /\ WF_surfaceVars(\E cause \in Causes : Stop(l, cause)) /\ WF_surfaceVars(BridgeEnds(l))

SurfaceSpec == SurfaceInit /\ [][SurfaceNext]_surfaceVars /\ SurfaceFairness

------------------------------------------------------------------------------
(* Properties *)

FrameIsOver(l) == frame[l] \in {"ended", "killed"}
BridgeIsOver(l) == bridge[l] \in {"none", "ended"}

\* A Codex process is always somebody's: of a frame that will end it, or of a bridge that will,
\* unless its bridge has died.
CodexIsOwned ==
    \A l \in Launch : codex[l] = "alive" =>
        \/ frame[l] # "ended" /\ mode[l] # "bridged"
        \/ bridge[l] \in {"serving", "stopping"}
        \/ l \in crashed

\* When frame and bridge are both over their socket file is gone, however the frame ended, unless
\* the bridge died.
SocketsAreSwept ==
    \A l \in Launch : FrameIsOver(l) /\ BridgeIsOver(l) /\ socket[l] => l \in crashed

\* Nothing is left behind that nobody will take down, in any order of exits, failed starts and
\* deaths of frames (launch.py:346-401, codex_bridge.py:305-342), except by the process that had
\* to take it down and died: a killed frame leaves its Codex pane, a bridge that died its Codex
\* and its socket file.
NothingIsLeft == CodexIsOwned /\ SocketsAreSwept

\* Keys of the shared tmux server never outlast the launch that bound them, unless it was killed
\* (launch.py:178-186, 351): with another launch's keys in the same table, and in either order.
KeysNameLaunches ==
    \A k \in Keys : keys[k] # NoLaunch => frame[keys[k]] \notin {"idle", "ended"}

\* A launch that begins to close, or is killed, is followed by the end of its frame and of its
\* bridge, though the one waits for the other's connection (codex_bridge.py:316-318).
SurfacesEnd ==
    \A l \in Launch :
        (frame[l] = "closing" \/ FrameIsOver(l)) ~> (FrameIsOver(l) /\ BridgeIsOver(l))

\* _cleanup_native_focus_bindings: "Remove only the root bindings owned by the current LWA
\* launch." (launch.py:179): what a launch unbinds as it ends was its own.
OthersKeysStay ==
    [][\A l \in Launch, k \in Keys :
           frame[l] # "ended" /\ frame'[l] = "ended" /\ keys[k] # NoLaunch /\ keys'[k] = NoLaunch
               => keys[k] = l]_surfaceVars
==============================================================================
