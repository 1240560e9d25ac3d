--------------------------- MODULE TerminalProofs ----------------------------
(***************************************************************************)
(* Proofs about what a terminal shows and leaves behind: the launches in   *)
(* one tmux server (Surface.tla), the inside of a frame                    *)
(* (TerminalFrame.tla), its pet (Pets.tla), the sessions that several      *)
(* browsers share (CodexBroker.tla), and the keys that a frame reads       *)
(* (KeyReader.tla).  The modules have no variable in common, and each part *)
(* speaks of one of them.                                                  *)
(***************************************************************************)
EXTENDS Surface, TerminalFrame, Pets, CodexBroker, KeyReader, RecursionLemmas, FiniteSetTheorems,
        SequenceTheorems, TLAPS

(***************************************************************************)
(* Proofs about Surface.tla, for any number of launches in one tmux        *)
(* server, any of the modes and either behaviour of wait_closed: what is   *)
(* never left behind, and whom a bound key names.                          *)
(*                                                                         *)
(* That an alive Codex is somebody's is not inductive: a frame that ends   *)
(* must know that it had none, or has ended it.  So the invariant tells,   *)
(* for each mode, in which phases of a frame and of a bridge its Codex may *)
(* be alive and its socket be there, and that only a native launch binds   *)
(* keys.                                                                   *)
(***************************************************************************)

\* Only a bridged launch that has begun has a bridge, which is at work while its Codex is alive,
\* unless it has died.
BridgedCodex(l) ==
    /\ frame[l] = "idle" => bridge[l] = "none"
    /\ bridge[l] # "none" => mode[l] = "bridged"
    /\ codex[l] = "alive" /\ mode[l] = "bridged" =>
          bridge[l] \in {"serving", "stopping"} \/ l \in crashed

\* A native Codex is there before its frame runs, an embedded one only then; neither outlives it.
\* Only a native launch binds keys.
FramedCodex(l) ==
    /\ frame[l] \in Keys => mode[l] = "native"
    /\ codex[l] = "alive" /\ mode[l] = "native" => frame[l] \notin {"idle", "ended"}
    /\ codex[l] = "alive" /\ mode[l] = "embedded" => frame[l] \in {"running", "closing", "killed"}

\* A socket file is that of a bridge at work, or of one that died.
ServedSocket(l) == socket[l] => bridge[l] \in {"listening", "serving", "stopping"} \/ l \in crashed

\* A key is bound to a native launch that has begun and not ended.
BoundKey(k) == keys[k] # NoLaunch => mode[keys[k]] = "native" /\ frame[keys[k]] \notin {"idle", "ended"}

SurfaceInv ==
    /\ SurfaceTypeOK
    /\ \A l \in Launch : BridgedCodex(l) /\ FramedCodex(l) /\ ServedSocket(l)
    /\ \A k \in Keys : BoundKey(k)

------------------------------------------------------------------------------
(* What the invariant says of one launch *)

\* Everything is off before the first launch.
LEMMA SurfaceInvInit == SurfaceInit => SurfaceInv
BY SurfaceAssumption
   DEF SurfaceInit, SurfaceInv, SurfaceTypeOK, BridgedCodex, FramedCodex, ServedSocket, BoundKey,
       Keys, Phase

\* The state of one launch changes in a step, that of the others does not.
Alone(l) ==
    \A m \in Launch \ {l} :
        /\ frame'[m] = frame[m] /\ codex'[m] = codex[m] /\ bridge'[m] = bridge[m]
        /\ socket'[m] = socket[m] /\ (m \in crashed => m \in crashed')

\* If the keys are kept or all unbound, and a launch that has a key does not end, a step of one
\* launch is right when it is right of that launch.
LEMMA StepOfOne ==
    ASSUME SurfaceInv, NEW l \in Launch, Alone(l), SurfaceTypeOK', mode' = mode,
           BridgedCodex(l)', FramedCodex(l)', ServedSocket(l)',
           \/ keys' = [k \in Keys |-> NoLaunch]
           \/ /\ \A k \in Keys : keys'[k] \in {keys[k], l, NoLaunch}
              /\ mode[l] = "native" /\ frame'[l] \notin {"idle", "ended"}
           \/ keys' = keys /\ (mode[l] = "native" /\ frame[l] \notin {"idle", "ended"}
                                  => frame'[l] \notin {"idle", "ended"})
    PROVE  SurfaceInv'
<1>1. ASSUME NEW m \in Launch PROVE (BridgedCodex(m) /\ FramedCodex(m) /\ ServedSocket(m))'
  <2>1. CASE m = l
    BY <2>1
  <2>2. CASE m # l
    BY <2>2 DEF SurfaceInv, Alone, BridgedCodex, FramedCodex, ServedSocket
  <2> QED BY <2>1, <2>2
<1>2. ASSUME NEW k \in Keys PROVE BoundKey(k)'
  <2>1. CASE keys' = [x \in Keys |-> NoLaunch]
    BY <2>1 DEF BoundKey
  <2>2. CASE /\ \A x \in Keys : keys'[x] \in {keys[x], l, NoLaunch}
             /\ mode[l] = "native" /\ frame'[l] \notin {"idle", "ended"}
    <3>1. CASE keys'[k] = l \/ keys'[k] = NoLaunch
      BY <2>2, <3>1 DEF BoundKey
    <3>2. CASE keys'[k] = keys[k]
      <4>1. CASE keys[k] = l \/ keys[k] = NoLaunch
        BY <2>2, <3>2, <4>1 DEF BoundKey
      <4>2. CASE keys[k] # l /\ keys[k] # NoLaunch
        BY <2>2, <3>2, <4>2 DEF SurfaceInv, SurfaceTypeOK, BoundKey, Alone
      <4> QED BY <4>1, <4>2
    <3> QED BY <2>2, <3>1, <3>2
  <2>3. CASE keys' = keys /\ (mode[l] = "native" /\ frame[l] \notin {"idle", "ended"}
                                 => frame'[l] \notin {"idle", "ended"})
    <3>1. CASE keys[k] = l
      BY <2>3, <3>1 DEF SurfaceInv, BoundKey
    <3>2. CASE keys[k] # l
      BY <2>3, <3>2 DEF SurfaceInv, SurfaceTypeOK, BoundKey, Alone
    <3> QED BY <3>1, <3>2
  <2> QED BY <2>1, <2>2, <2>3
<1> QED BY <1>1, <1>2 DEF SurfaceInv

------------------------------------------------------------------------------
(* The steps *)

\* The launcher: what it brings up is there before the frame.
LEMMA LauncherKeeps ==
    ASSUME SurfaceInv, NEW l \in Launch,
           LaunchFails(l) \/ LaunchNative(l) \/ LaunchBridge(l) \/ LaunchEmbedded(l)
    PROVE  SurfaceInv'
<1> USE DEF To, bridgeVars, processes, Phase, Keys
<1>1. SurfaceTypeOK' /\ Alone(l) /\ mode' = mode
  BY DEF LaunchFails, LaunchNative, LaunchBridge, LaunchEmbedded, SurfaceInv, SurfaceTypeOK, Alone
<1>2. BridgedCodex(l) /\ FramedCodex(l) /\ ServedSocket(l)
  BY DEF SurfaceInv
<1>3. BridgedCodex(l)' /\ FramedCodex(l)' /\ ServedSocket(l)'
  BY <1>2 DEF LaunchFails, LaunchNative, LaunchBridge, LaunchEmbedded, SurfaceInv, SurfaceTypeOK,
     BridgedCodex, FramedCodex, ServedSocket
<1>4. keys' = keys /\ frame[l] = "idle"
  BY DEF LaunchFails, LaunchNative, LaunchBridge, LaunchEmbedded
<1> QED BY <1>1, <1>3, <1>4, StepOfOne

\* A native launch that binds its keys takes them from whoever had them.
LEMMA BindKeyKeeps ==
    ASSUME SurfaceInv, NEW l \in Launch, BindKey(l)
    PROVE  SurfaceInv'
<1>1. PICK owner \in Bound(l, frame[l]) : keys' = [keys EXCEPT ![frame[l]] = owner]
  BY DEF BindKey
<1>2. /\ frame[l] \in Keys /\ frame' = [frame EXCEPT ![l] = AfterKey(frame[l])]
      /\ UNCHANGED <<mode, believed, codex, bridge, link, asked, claimed, socket, crashed>>
  BY DEF BindKey, To, bridgeVars
<1>3. AfterKey(frame[l]) \in Phase \ {"idle", "ended", "killed", "running", "closing"}
  BY <1>2 DEF AfterKey, Phase, Keys
<1>4. keys \in [Keys -> Launch \cup {NoLaunch}] /\ owner \in {l, NoLaunch, keys[frame[l]]}
  BY <1>1, <1>2 DEF SurfaceInv, SurfaceTypeOK, Bound
<1>5. keys' \in [Keys -> Launch \cup {NoLaunch}] /\ \A k \in Keys : keys'[k] \in {keys[k], l, NoLaunch}
  BY <1>1, <1>2, <1>4
<1>6. SurfaceTypeOK' /\ Alone(l)
  BY <1>2, <1>3, <1>5 DEF SurfaceInv, SurfaceTypeOK, Alone
<1>7. /\ frame'[l] \notin {"idle", "ended"} /\ frame[l] \notin {"idle", "running", "closing", "killed"}
      /\ mode[l] = "native"
  BY <1>2, <1>3 DEF SurfaceInv, SurfaceTypeOK, FramedCodex, Keys
<1>8. BridgedCodex(l) /\ FramedCodex(l) /\ ServedSocket(l)
  BY DEF SurfaceInv
<1>9. BridgedCodex(l)' /\ FramedCodex(l)' /\ ServedSocket(l)'
  BY <1>2, <1>7, <1>8 DEF BridgedCodex, FramedCodex, ServedSocket
<1> QED BY <1>2, <1>5, <1>6, <1>7, <1>9, StepOfOne

\* A frame that ends has unbound the keys, if it is native, and taken its own down.
LEMMA EndKeeps ==
    ASSUME SurfaceInv, NEW l \in Launch, JoinFails(l) \/ FrameReturns(l)
    PROVE  SurfaceInv'
<1> USE DEF To, Phase, Keys
<1>1. SurfaceTypeOK' /\ Alone(l) /\ mode' = mode
  <2>1. Over(l) \in {"none", "alive", "over"}
    BY DEF Over, SurfaceInv, SurfaceTypeOK
  <2>2. /\ frame' \in [Launch -> Phase]
        /\ socket' \in [Launch -> BOOLEAN] /\ codex' \in [Launch -> {"none", "alive", "over"}]
    <3>1. /\ frame' = [frame EXCEPT ![l] = "ended"] /\ socket' = [socket EXCEPT ![l] = FALSE]
          /\ codex' = codex \/ codex' = [codex EXCEPT ![l] = Over(l)]
      BY DEF JoinFails, FrameReturns, Finish
    <3> QED
      BY <2>1, <3>1 DEF SurfaceInv, SurfaceTypeOK
  <2>3. keys' \in [Keys -> Launch \cup {NoLaunch}]
    BY DEF JoinFails, FrameReturns, Finish, Unbind, SurfaceInv, SurfaceTypeOK
  <2>4. Alone(l)
    BY DEF JoinFails, FrameReturns, Finish, Alone, SurfaceInv, SurfaceTypeOK
  <2> QED
    BY <2>2, <2>3, <2>4 DEF JoinFails, FrameReturns, SurfaceInv, SurfaceTypeOK
<1>2. BridgedCodex(l) /\ FramedCodex(l) /\ ServedSocket(l)
  BY DEF SurfaceInv
<1>3. BridgedCodex(l)' /\ FramedCodex(l)' /\ ServedSocket(l)'
  BY <1>2 DEF JoinFails, FrameReturns, Finish, Over, SurfaceInv, SurfaceTypeOK,
     BridgedCodex, FramedCodex, ServedSocket
<1>4. keys' = [k \in Keys |-> NoLaunch] \/ (keys' = keys /\ mode[l] # "native")
  BY DEF JoinFails, FrameReturns, Finish, Unbind
<1> QED BY <1>1, <1>3, <1>4, StepOfOne

\* A frame that is there joins, writes, closes or is killed; its keys stay.
LEMMA FrameKeeps ==
    ASSUME SurfaceInv, NEW l \in Launch,
           \/ StartSession(l) \/ HearEnd(l) \/ WriteFails(l) \/ Exit(l) \/ CloseFrame(l) \/ Killed(l)
           \/ KillWindow(l) \/ CodexExits(l)
    PROVE  SurfaceInv'
<1> USE DEF To, bridgeVars, Phase, Keys
<1>1. SurfaceTypeOK' /\ Alone(l) /\ mode' = mode
  <2>1. Over(l) \in {"none", "alive", "over"}
    BY DEF Over, SurfaceInv, SurfaceTypeOK
  <2>2. SurfaceTypeOK' /\ Alone(l) /\ mode' = mode
    <3>1. CASE StartSession(l) \/ HearEnd(l) \/ WriteFails(l)
      BY <3>1 DEF StartSession, HearEnd, WriteFails, SurfaceInv, SurfaceTypeOK, Alone
    <3>2. CASE Exit(l) \/ CloseFrame(l)
      <4>1. CASE Exit(l)
        BY <4>1 DEF Exit, SurfaceInv, SurfaceTypeOK, Alone
      <4>2. CASE CloseFrame(l)
        <5>1. Hangup(l) \in BOOLEAN
          BY DEF Hangup, SurfaceInv, SurfaceTypeOK
        <5>2. /\ frame' = [frame EXCEPT ![l] = "closed"] /\ asked' = [asked EXCEPT ![l] = Hangup(l)]
              /\ codex' = codex \/ codex' = [codex EXCEPT ![l] = Over(l)]
              /\ UNCHANGED <<mode, believed, keys, bridge, claimed, socket, crashed>>
          BY <4>2 DEF CloseFrame
        <5>3. link' \in [Launch -> {"none", "open", "lost"}]
          BY <4>2 DEF CloseFrame, Cut, SurfaceInv, SurfaceTypeOK
        <5>4. SurfaceTypeOK'
          BY <2>1, <5>1, <5>2, <5>3 DEF SurfaceInv, SurfaceTypeOK
        <5> QED
          BY <2>1, <5>2, <5>4 DEF Alone, SurfaceInv, SurfaceTypeOK
      <4> QED
        BY <3>2, <4>1, <4>2
    <3>3. CASE Killed(l) \/ KillWindow(l) \/ CodexExits(l)
      BY <2>1, <3>3 DEF Killed, KillWindow, CodexExits, Cut, SurfaceInv, SurfaceTypeOK, Alone
    <3> QED
      BY <3>1, <3>2, <3>3
  <2> QED
    BY <2>2
<1>2. BridgedCodex(l) /\ FramedCodex(l) /\ ServedSocket(l)
  BY DEF SurfaceInv
<1>3. BridgedCodex(l)' /\ FramedCodex(l)' /\ ServedSocket(l)'
  BY <1>2 DEF StartSession, HearEnd, WriteFails, Exit, CloseFrame, Killed, KillWindow, CodexExits, Over,
     SurfaceInv, SurfaceTypeOK, BridgedCodex, FramedCodex, ServedSocket
<1>4. keys' = keys /\ (frame[l] \notin {"idle", "ended"} => frame'[l] \notin {"idle", "ended"})
  BY DEF StartSession, HearEnd, WriteFails, Exit, CloseFrame, Killed, KillWindow, CodexExits,
         SurfaceInv, SurfaceTypeOK
<1> QED BY <1>1, <1>3, <1>4, StepOfOne

\* A bridge keeps its Codex alive while it is at work, and takes it down with the socket file.
LEMMA BridgeKeeps ==
    ASSUME SurfaceInv, NEW l \in Launch,
           \/ Listen(l) \/ Serve(l) \/ ServeFails(l) \/ BridgeEnds(l) \/ BridgeDies(l)
           \/ \E cause \in Causes : Stop(l, cause)
    PROVE  SurfaceInv'
<1> USE DEF To, processes
<1>1. SurfaceTypeOK' /\ Alone(l) /\ mode' = mode
  <2>1. Over(l) \in {"none", "alive", "over"} /\ Cut(l) = [link EXCEPT ![l] = IF link[l] = "open" THEN "lost" ELSE link[l]]
    BY DEF Over, Cut, SurfaceInv, SurfaceTypeOK
  <2>2. CASE Listen(l) \/ Serve(l) \/ \E cause \in Causes : Stop(l, cause)
    <3>1. CASE Listen(l) \/ Serve(l)
      <4>1. CASE Listen(l)
        <5>1. /\ bridge' = [bridge EXCEPT ![l] = "listening"] /\ socket' = [socket EXCEPT ![l] = TRUE]
              /\ UNCHANGED <<frame, mode, believed, codex, keys, link, asked, claimed, crashed>>
          BY <4>1 DEF Listen
        <5> QED
          BY <5>1 DEF SurfaceInv, SurfaceTypeOK, Alone
      <4>2. CASE Serve(l)
        <5>1. /\ bridge' = [bridge EXCEPT ![l] = "serving"] /\ codex' = [codex EXCEPT ![l] = "alive"]
              /\ UNCHANGED <<frame, mode, believed, keys, link, asked, claimed, socket, crashed>>
          BY <4>2 DEF Serve
        <5> QED
          BY <5>1 DEF SurfaceInv, SurfaceTypeOK, Alone
      <4> QED
        BY <3>1, <4>1, <4>2
    <3>2. CASE \E cause \in Causes : Stop(l, cause)
      <4>1. bridge' = [bridge EXCEPT ![l] = "stopping"]
            /\ UNCHANGED <<frame, mode, believed, codex, keys, link, asked, claimed, socket, crashed>>
        BY <3>2 DEF Stop
      <4> QED
        BY <4>1 DEF SurfaceInv, SurfaceTypeOK, Alone
    <3> QED
      BY <2>2, <3>1, <3>2
  <2>3. CASE ServeFails(l) \/ BridgeDies(l)
    BY <2>1, <2>3 DEF ServeFails, BridgeDies, SurfaceInv, SurfaceTypeOK, Alone
  <2>4. CASE BridgeEnds(l)
    BY <2>1, <2>4 DEF BridgeEnds, SurfaceInv, SurfaceTypeOK, Alone
  <2> QED
    BY <2>2, <2>3, <2>4
<1>2. BridgedCodex(l) /\ FramedCodex(l) /\ ServedSocket(l)
  BY DEF SurfaceInv
<1>3. BridgedCodex(l)' /\ FramedCodex(l)' /\ ServedSocket(l)'
  BY <1>2 DEF Listen, Serve, ServeFails, BridgeEnds, BridgeDies, Stop, Over, SurfaceInv, SurfaceTypeOK,
     BridgedCodex, FramedCodex, ServedSocket
<1>4. keys' = keys /\ frame' = frame
  BY DEF Listen, Serve, ServeFails, BridgeEnds, BridgeDies, Stop
<1> QED BY <1>1, <1>3, <1>4, StepOfOne

------------------------------------------------------------------------------
(* What holds of every set of launches *)

\* The invariant holds in every state of every set of launches.
THEOREM SurfaceInvariant == SurfaceSpec => []SurfaceInv
<1>1. SurfaceInv /\ [SurfaceNext]_surfaceVars => SurfaceInv'
  <2> SUFFICES ASSUME SurfaceInv, [SurfaceNext]_surfaceVars PROVE SurfaceInv'
    OBVIOUS
  <2>1. CASE UNCHANGED surfaceVars
    BY <2>1 DEF surfaceVars, processes, bridgeVars, SurfaceInv, SurfaceTypeOK, BridgedCodex,
       FramedCodex, ServedSocket, BoundKey
  <2>2. CASE SurfaceNext
    BY <2>1, <2>2, LauncherKeeps, BindKeyKeeps, EndKeeps, FrameKeeps, BridgeKeeps DEF SurfaceNext, SurfaceQuiet
  <2> QED BY <2>1, <2>2
<1> QED BY <1>1, SurfaceInvInit, PTL DEF SurfaceSpec

\* Every variable of the launches keeps its type.
THEOREM SurfaceTypeCorrect == SurfaceSpec => []SurfaceTypeOK
BY SurfaceInvariant, PTL DEF SurfaceInv

\* In any order of exits, failed starts and deaths, every Codex that is alive is its frame's or
\* its bridge's, and no socket file is left when both are over, unless the bridge died.
THEOREM NothingIsEverLeft == SurfaceSpec => []NothingIsLeft
<1>1. SurfaceInv => NothingIsLeft
  <2> SUFFICES ASSUME SurfaceInv, NEW l \in Launch
               PROVE  /\ codex[l] = "alive" => \/ frame[l] # "ended" /\ mode[l] # "bridged"
                                               \/ bridge[l] \in {"serving", "stopping"}
                                               \/ l \in crashed
                      /\ FrameIsOver(l) /\ BridgeIsOver(l) /\ socket[l] => l \in crashed
    BY DEF NothingIsLeft, CodexIsOwned, SocketsAreSwept
  <2>1. mode[l] \in {"native", "bridged", "embedded"}
    BY SurfaceAssumption DEF SurfaceInv, SurfaceTypeOK
  <2> QED
    BY <2>1 DEF SurfaceInv, BridgedCodex, FramedCodex, ServedSocket, BridgeIsOver
<1> QED BY <1>1, SurfaceInvariant, PTL

\* However many launches share the key table, a bound key names one that has begun and not ended.
THEOREM KeysAlwaysNameLaunches == SurfaceSpec => []KeysNameLaunches
<1>1. SurfaceInv => KeysNameLaunches
  BY DEF SurfaceInv, BoundKey, KeysNameLaunches
<1> QED BY <1>1, SurfaceInvariant, PTL

(***************************************************************************)
(* Proofs about TerminalFrame.tla, for any number of tasks and any limit   *)
(* of the feed: what the busy flag and a selection mean, though keys,      *)
(* tasks, a copy and the session's events share them without a lock.       *)
(*                                                                         *)
(* That a selection stays in the feed is not inductive: an event of the    *)
(* session cuts the feed below its limit.  It is, with the fact that only  *)
(* a native frame has a selection, whose session says nothing.             *)
(***************************************************************************)

SelectionIsNative == sel # <<>> => kind = "native"

FrameInv == FrameTypeOK /\ BusyTellsTheTruth /\ SelectionsNameText /\ SelectionIsNative

\* What a step that leaves the tasks, the selection and the session's kind alone must keep.
ScreenTypeOK ==
    /\ phase \in Phases /\ focus \in Panel /\ draft \in [Panel -> BOOLEAN]
    /\ active \in BOOLEAN /\ alive \in BOOLEAN /\ copying \in BOOLEAN

------------------------------------------------------------------------------
(* The feed *)

\* A feed that is told something stays within its limit and gets no shorter.
LEMMA SayKeeps ==
    ASSUME FrameTypeOK, NEW n \in Nat
    PROVE  Say(n) \in 0..FeedMax /\ feed <= Say(n) /\ Least(Say(n), StatusKeep) \in 0..FeedMax
BY FrameAssumption DEF FrameTypeOK, Say, Least

\* Rows that a feed has, a longer one has too.
LEMMA LongerFeed ==
    ASSUME FrameTypeOK, SelectionsNameText, feed' \in 0..FeedMax, feed <= feed', sel' = sel
    PROVE  SelectionsNameText'
<1> SUFFICES ASSUME NEW i \in DOMAIN sel PROVE sel[i] < feed'
  BY DEF SelectionsNameText, InFeed
<1>1. CASE sel = <<>>
  BY <1>1
<1>2. CASE sel \in Row \X Row
  <2>1. sel[i] \in Nat
    BY <1>2, FrameAssumption DEF Row
  <2>2. sel[i] < feed
    BY DEF SelectionsNameText, InFeed
  <2> QED BY <2>1, <2>2 DEF FrameTypeOK
<1> QED BY <1>1, <1>2 DEF FrameTypeOK

------------------------------------------------------------------------------
(* The invariant *)

\* A step that touches neither tasks nor selection keeps the invariant if the feed does not shrink.
LEMMA QuietStep ==
    ASSUME FrameInv, UNCHANGED <<kind, tasks, sel>>, ScreenTypeOK',
           feed' \in 0..FeedMax, feed <= feed'
    PROVE  FrameInv'
<1>1. SelectionsNameText'
  BY LongerFeed DEF FrameInv
<1>2. BusyTellsTheTruth'
  BY DEF FrameInv, BusyTellsTheTruth, AtWork, tasks
<1>3. FrameTypeOK' /\ SelectionIsNative'
  BY DEF FrameInv, FrameTypeOK, ScreenTypeOK, tasks, SelectionIsNative
<1> QED BY <1>1, <1>2, <1>3 DEF FrameInv

\* A step of the tasks keeps the invariant if it keeps what the busy flag means.
LEMMA TaskStep ==
    ASSUME FrameInv, UNCHANGED <<kind, sel>>, ScreenTypeOK', feed' \in 0..FeedMax, feed <= feed',
           busy' \in BOOLEAN, hand' \in Task \cup {NoTask}, meddled' \in BOOLEAN,
           work' \in [Task -> {"idle", "debug", "preparing", "voting"}], BusyTellsTheTruth'
    PROVE  FrameInv'
<1>1. SelectionsNameText'
  BY LongerFeed DEF FrameInv
<1>2. FrameTypeOK' /\ SelectionIsNative'
  BY DEF FrameInv, FrameTypeOK, ScreenTypeOK, SelectionIsNative
<1> QED BY <1>1, <1>2 DEF FrameInv

\* Whatever is selected now, the frame's other state is kept.
LEMMA SelectStep ==
    ASSUME FrameInv, UNCHANGED <<kind, tasks, feed>>, ScreenTypeOK', kind = "native",
           sel' \in Row \X Row, InFeed(sel')
    PROVE  FrameInv'
<1>1. BusyTellsTheTruth'
  BY DEF FrameInv, BusyTellsTheTruth, AtWork, tasks
<1>2. FrameTypeOK' /\ SelectionIsNative'
  BY DEF FrameInv, FrameTypeOK, ScreenTypeOK, tasks, SelectionIsNative
<1>3. SelectionsNameText'
  BY DEF SelectionsNameText, InFeed
<1> QED BY <1>1, <1>2, <1>3 DEF FrameInv

\* The frame starts idle, with nothing selected.
LEMMA FrameInvInit == FrameInit => FrameInv
<1> SUFFICES ASSUME FrameInit PROVE FrameInv
  OBVIOUS
<1>1. FrameTypeOK
  <2>1. feed \in 0..FeedMax
    BY FrameAssumption DEF FrameInit
  <2>2. sel \in {<<>>} \cup (Row \X Row)
    BY DEF FrameInit
  <2> QED BY <2>1, <2>2 DEF FrameInit, FrameTypeOK, Panel, Phases
<1>2. AtWork = {}
  BY DEF FrameInit, AtWork
<1> QED
  BY <1>1, <1>2 DEF FrameInv, FrameInit, BusyTellsTheTruth, SelectionsNameText, InFeed,
     SelectionIsNative

\* Keys that edit, move and send, and what the session says, leave tasks and selection alone.
LEMMA KeysKeep ==
    ASSUME FrameInv,
           \/ Type \/ Erase \/ Tab \/ Transfer \/ (\E s \in Panel : Click(s))
           \/ CopyEnds \/ SessionDies \/ Resize \/ AltEnter \/ EnterCodex \/ Command
           \/ PromptLost \/ LeaveFrame \/ CancelCopy \/ CloseSession
    PROVE  FrameInv'
<1> USE DEF prompts, session, FrameInv
<1>1. /\ \A n \in Nat : Say(n) \in 0..FeedMax /\ feed <= Say(n)
      /\ feed \in 0..FeedMax /\ feed <= feed
  BY SayKeeps, FrameAssumption DEF FrameTypeOK
<1>2. /\ ScreenTypeOK
      /\ \A s \in Panel : Other(s) \in Panel
  BY DEF FrameTypeOK, ScreenTypeOK, Panel, Other
<1>3. CASE Type \/ Erase \/ Command \/ PromptLost
  <2>1. ScreenTypeOK' /\ UNCHANGED <<kind, tasks, sel>>
    BY <1>2, <1>3 DEF Type, Erase, Command, PromptLost, Enter, ScreenTypeOK, Panel
  <2>2. feed' \in 0..FeedMax /\ feed <= feed'
    BY <1>1, <1>3 DEF Type, Erase, Command, PromptLost
  <2> QED BY <2>1, <2>2, QuietStep
<1>4. CASE Tab \/ Transfer \/ (\E s \in Panel : Click(s))
  <2>1. ScreenTypeOK' /\ UNCHANGED <<kind, tasks, sel>>
    BY <1>2, <1>4 DEF Tab, Transfer, Click, FocusTo, ScreenTypeOK, Panel
  <2>2. feed' \in 0..FeedMax /\ feed <= feed'
    BY <1>1, <1>4 DEF Tab, Transfer, Click
  <2> QED BY <2>1, <2>2, QuietStep
<1>5. CASE Resize \/ AltEnter \/ EnterCodex
  <2>1. ScreenTypeOK' /\ UNCHANGED <<kind, tasks, sel>>
    BY <1>2, <1>5 DEF Resize, AltEnter, EnterCodex, Enter, Sent, ScreenTypeOK, Panel, Phases
  <2>2. feed' \in 0..FeedMax /\ feed <= feed'
    BY <1>1, <1>5 DEF Resize, AltEnter, EnterCodex
  <2> QED BY <2>1, <2>2, QuietStep
<1>6. CASE CopyEnds \/ SessionDies \/ LeaveFrame \/ CancelCopy \/ CloseSession
  <2>1. ScreenTypeOK' /\ UNCHANGED <<kind, tasks, sel>>
    BY <1>2, <1>6 DEF CopyEnds, SessionDies, LeaveFrame, CancelCopy, CloseSession, ScreenTypeOK, Phases
  <2>2. feed' \in 0..FeedMax /\ feed <= feed'
    BY <1>1, <1>6 DEF CopyEnds, SessionDies, LeaveFrame, CancelCopy, CloseSession
  <2> QED BY <2>1, <2>2, QuietStep
<1> QED BY <1>3, <1>4, <1>5, <1>6

\* A selection made with the button or copied names rows of the feed as it is.
LEMMA SelectionsKeep ==
    ASSUME FrameInv, Press \/ Release \/ Copy
    PROVE  FrameInv'
<1> USE DEF prompts, session
<1>1. Rows \subseteq Row /\ \A row \in Rows : row < feed
  BY FrameAssumption DEF FrameInv, FrameTypeOK, Rows, Row
<1>2. sel # <<>> => sel \in Row \X Row /\ sel[1] < feed /\ sel[2] < feed
  BY DEF FrameInv, FrameTypeOK, SelectionsNameText, InFeed
<1>3. ScreenTypeOK
  BY DEF FrameInv, FrameTypeOK, ScreenTypeOK
<1>4. ASSUME NEW a \in Row, NEW b \in Row, a < feed, b < feed
      PROVE  <<a, b>> \in Row \X Row /\ InFeed(<<a, b>>)
  BY <1>4 DEF InFeed
<1>5. CASE Press
  <2>1. ScreenTypeOK' /\ UNCHANGED <<kind, tasks, feed>> /\ kind = "native"
    BY <1>3, <1>5 DEF Press, ScreenTypeOK
  <2>2. PICK row \in Rows : sel' = <<row, row>> \/ (sel # <<>> /\ sel' = <<sel[1], row>>)
    BY <1>5 DEF Press
  <2>3. row \in Row /\ row < feed
    BY <1>1
  <2>4. sel' \in Row \X Row /\ InFeed(sel')
    <3>1. CASE sel' = <<row, row>>
      BY <1>4, <2>3, <3>1
    <3>2. CASE sel # <<>> /\ sel' = <<sel[1], row>>
      <4>1. sel[1] \in Row /\ sel[1] < feed
        BY <1>2, <3>2
      <4> QED BY <1>4, <2>3, <3>2, <4>1
    <3> QED BY <2>2, <3>1, <3>2
  <2> QED BY <2>1, <2>4, SelectStep
<1>6. CASE Release
  <2>1. PICK row \in Rows \cup {sel[2]} : sel' = <<sel[1], row>> /\ CopyRows(<<sel[1], row>>)
    BY <1>6 DEF Release
  <2>2. sel # <<>> /\ sel[1] \in Row /\ sel[1] < feed /\ row \in Row /\ row < feed
    BY <1>1, <1>2, <1>6 DEF Release
  <2>3. sel' \in Row \X Row /\ InFeed(sel')
    BY <1>4, <2>1, <2>2
  <2>4. ScreenTypeOK' /\ UNCHANGED <<kind, tasks, feed>> /\ kind = "native"
    BY <1>3, <1>6, <2>1, <2>2 DEF Release, CopyRows, ScreenTypeOK, Phases, FrameInv, SelectionIsNative
  <2> QED BY <2>3, <2>4, SelectStep
<1>7. CASE Copy
  <2>1. ScreenTypeOK' /\ UNCHANGED <<kind, tasks, sel>>
    BY <1>3, <1>7 DEF Copy, CopyRows, ScreenTypeOK, Phases
  <2>2. feed' \in 0..FeedMax /\ feed <= feed'
    <3>1. feed' = feed \/ feed' = Say(1)
      BY <1>7 DEF Copy
    <3>2. feed \in 0..FeedMax /\ FeedMax \in Nat
      BY FrameAssumption DEF FrameInv, FrameTypeOK
    <3>3. Say(1) \in 0..FeedMax /\ feed <= Say(1)
      BY SayKeeps DEF FrameInv
    <3> QED BY <3>1, <3>2, <3>3
  <2> QED BY <2>1, <2>2, QuietStep
<1> QED BY <1>5, <1>6, <1>7

\* An event may cut the feed, but not of a frame with a selection.
LEMMA EventKeeps ==
    ASSUME FrameInv, NEW last \in BOOLEAN, Event(last)
    PROVE  FrameInv'
<1> USE DEF prompts, session
<1>1. sel = <<>> /\ UNCHANGED <<kind, tasks, sel>>
  BY DEF Event, FrameInv, SelectionIsNative
<1>2. BusyTellsTheTruth'
  BY <1>1 DEF FrameInv, BusyTellsTheTruth, AtWork, tasks
<1>3. feed' \in 0..FeedMax
  BY SayKeeps DEF Event, FrameInv
<1>4. FrameTypeOK'
  BY <1>1, <1>3 DEF Event, FrameInv, FrameTypeOK, tasks
<1>5. SelectionsNameText' /\ SelectionIsNative'
  BY <1>1 DEF SelectionsNameText, InFeed, SelectionIsNative
<1> QED BY <1>2, <1>4, <1>5 DEF FrameInv

\* A task that starts is the one in hand; another that is at work makes the frame meddled.
LEMMA StartKeeps ==
    ASSUME FrameInv, NEW t \in Task, Debug(t) \/ Prompt(t)
    PROVE  FrameInv'
<1> USE DEF prompts, session
<1>1. /\ UNCHANGED <<kind, sel, phase, focus, session, copying>> /\ busy' = TRUE /\ hand' = t
      /\ \E what \in {"debug", "preparing"} : work' = [work EXCEPT ![t] = what]
      /\ draft' = [draft EXCEPT ![focus] = FALSE]
      /\ feed' \in {feed, Say(1)}
  BY DEF Debug, Prompt, Enter
<1>2. meddled' \in BOOLEAN /\ (~meddled' => ~meddled /\ AtWork = {})
  BY DEF Debug, Prompt, FrameInv, FrameTypeOK, BusyTellsTheTruth
<1>3. work' \in [Task -> {"idle", "debug", "preparing", "voting"}] /\ work'[t] # "idle"
  BY <1>1 DEF FrameInv, FrameTypeOK
<1>4. BusyTellsTheTruth'
  <2>1. AtWork = {} => AtWork' = {t}
    BY <1>1, <1>3 DEF AtWork, FrameInv, FrameTypeOK
  <2> QED BY <1>1, <1>2, <2>1 DEF BusyTellsTheTruth
<1>5. feed' \in 0..FeedMax /\ feed <= feed'
  BY <1>1, SayKeeps, FrameAssumption DEF FrameInv, FrameTypeOK
<1>6. ScreenTypeOK'
  BY <1>1 DEF FrameInv, FrameTypeOK, ScreenTypeOK, Panel
<1> QED BY <1>1, <1>2, <1>3, <1>4, <1>5, <1>6, TaskStep

\* A task that goes on stays at work, and one that rests was the one in hand.
LEMMA WorkKeeps ==
    ASSUME FrameInv, NEW t \in Task, Prepared(t) \/ Loaded(t) \/ Stopped(t)
    PROVE  FrameInv'
<1> USE DEF prompts, session
<1>1. /\ UNCHANGED <<kind, sel, phase, active, alive, copying, hand, meddled>>
      /\ t \in AtWork /\ feed' = Say(1)
      /\ \/ Rest(t)
         \/ work' = [work EXCEPT ![t] = "voting"] /\ busy' = busy
  BY DEF Prepared, Loaded, Stopped, AtWork
<1>2. /\ work' \in [Task -> {"idle", "debug", "preparing", "voting"}] /\ busy' \in BOOLEAN
      /\ hand' \in Task \cup {NoTask} /\ meddled' \in BOOLEAN
  BY <1>1 DEF FrameInv, FrameTypeOK, Rest
<1>3. BusyTellsTheTruth'
  <2>1. CASE Rest(t)
    <3>1. AtWork' = AtWork \ {t} /\ busy' = FALSE
      BY <2>1 DEF Rest, AtWork, FrameInv, FrameTypeOK
    <3> QED BY <1>1, <3>1 DEF FrameInv, BusyTellsTheTruth
  <2>2. CASE work' = [work EXCEPT ![t] = "voting"] /\ busy' = busy
    <3>1. AtWork' = AtWork
      BY <1>1, <2>2 DEF AtWork, FrameInv, FrameTypeOK
    <3> QED BY <1>1, <2>2, <3>1 DEF FrameInv, BusyTellsTheTruth
  <2> QED BY <1>1, <2>1, <2>2
<1>4. feed' \in 0..FeedMax /\ feed <= feed'
  BY <1>1, SayKeeps DEF FrameInv
<1>5. ScreenTypeOK'
  BY <1>1 DEF Prepared, Loaded, Stopped, FocusTo, FrameInv, FrameTypeOK, ScreenTypeOK, Panel
<1> QED BY <1>1, <1>2, <1>3, <1>4, <1>5, TaskStep

\* Leaving rests the task in hand, and the loop's end all the others.
LEMMA LeavingKeeps ==
    ASSUME FrameInv, CancelHand \/ EndLoop
    PROVE  FrameInv'
<1> USE DEF prompts, session
<1>1. /\ UNCHANGED <<kind, sel, focus, draft, active, alive, copying, hand, meddled, feed>>
      /\ phase' \in Phases
  BY DEF CancelHand, EndLoop, Phases
<1>2. /\ work' \in [Task -> {"idle", "debug", "preparing", "voting"}] /\ busy' \in BOOLEAN
      /\ hand' \in Task \cup {NoTask} /\ meddled' \in BOOLEAN
  BY <1>1 DEF CancelHand, EndLoop, Rest, FrameInv, FrameTypeOK
<1>3. BusyTellsTheTruth'
  <2>1. CASE CancelHand /\ hand \in AtWork
    <3>1. AtWork' = AtWork \ {hand} /\ busy' = FALSE
      BY <2>1 DEF CancelHand, Rest, AtWork, FrameInv, FrameTypeOK
    <3> QED BY <1>1, <3>1 DEF FrameInv, BusyTellsTheTruth
  <2>2. CASE CancelHand /\ hand \notin AtWork
    BY <1>1, <2>2 DEF CancelHand, AtWork, FrameInv, BusyTellsTheTruth
  <2>3. CASE EndLoop
    <3>1. AtWork' = {}
      BY <2>3 DEF EndLoop, AtWork
    <3>2. ~meddled => ~busy'
      <4>1. (~meddled => (busy <=> AtWork # {})) /\ busy' = (busy /\ AtWork = {})
        BY <2>3 DEF EndLoop, FrameInv, BusyTellsTheTruth
      <4> QED BY <4>1, Zenon
    <3>3. meddled' = meddled
      BY <1>1
    <3> QED BY <3>1, <3>2, <3>3, Zenon DEF BusyTellsTheTruth
  <2> QED BY <2>1, <2>2, <2>3
<1>4. feed' \in 0..FeedMax /\ feed <= feed' /\ ScreenTypeOK'
  BY <1>1, FrameAssumption DEF FrameInv, FrameTypeOK, ScreenTypeOK
<1> QED BY <1>1, <1>2, <1>3, <1>4, TaskStep

------------------------------------------------------------------------------
(* What holds of every frame *)

\* The invariant holds in every state of every frame.
THEOREM FrameInvariant == FrameSpec => []FrameInv
<1>1. FrameInv /\ [FrameNext]_frameVars => FrameInv'
  <2> SUFFICES ASSUME FrameInv, [FrameNext]_frameVars PROVE FrameInv'
    OBVIOUS
  <2>1. CASE UNCHANGED frameVars
    <3>1. /\ ScreenTypeOK' /\ feed' \in 0..FeedMax /\ feed <= feed'
          /\ UNCHANGED <<kind, tasks, sel>>
      BY <2>1, FrameAssumption
         DEF frameVars, prompts, session, FrameInv, FrameTypeOK, ScreenTypeOK
    <3> QED BY <3>1, QuietStep
  <2>2. CASE FrameNext
    BY <2>1, <2>2, KeysKeep, SelectionsKeep, EventKeeps, StartKeeps, WorkKeeps, LeavingKeeps
       DEF FrameNext, FrameQuiet
  <2> QED BY <2>1, <2>2
<1> QED BY <1>1, FrameInvInit, PTL DEF FrameSpec

\* Every variable of a frame keeps its type: the feed stays within its limit.
THEOREM FrameTypeCorrect == FrameSpec => []FrameTypeOK
BY FrameInvariant, PTL DEF FrameInv

\* However keys, tasks and events interleave, the busy flag is set exactly while a task is at
\* work and leaving cancels all there is, unless a snapshot was asked for meanwhile.
THEOREM BusyIsTheTruth == FrameSpec => []BusyTellsTheTruth
BY FrameInvariant, PTL DEF FrameInv

\* Looking up a selection never fails: its rows are rows of the feed, whatever was dropped.
THEOREM SelectionsAreText == FrameSpec => []SelectionsNameText
BY FrameInvariant, PTL DEF FrameInv

------------------------------------------------------------------------------
(***************************************************************************)
(* The pet (Pets.tla), for any pets, lengths of their parts and number of  *)
(* loads.  The track is not always the mood's: a welcome or an action      *)
(* plays on.  The invariant says which tracks go with which mood, and that *)
(* a frame which believes a picture to be painted has painted the one it   *)
(* would paint now.                                                        *)
(***************************************************************************)

\* The track is the loaded pet's, and is what its mood calls for.
Playing ==
    /\ play.of = pet.generation
    /\ play.index < LengthOf[play.part]
    /\ \/ play.name = "welcome" /\ play.part = "welcome"
       \/ play.name \in {"first action", "second action"} /\ mood = "running"
       \/ play.name = mood /\ play.part = PartFor(pet.kind, mood)

\* What the frame believes it has painted is what the terminal shows.
Believed == placed # <<>> => placed = Signature /\ shown = Picture

\* Pictures are drawn of a pet that is there, on a terminal that can show them.
PetsInv ==
    /\ PetsTypeOK
    /\ ~started => pet.generation = 0
    /\ drawn => host.graphics /\ pet.kind # "none" /\ Playing
    /\ Believed

\* What a mood is played with is a part of the pet's animation.
LEMMA PartIsPart ==
    ASSUME NEW look, NEW state
    PROVE  PartFor(look, state) \in Part
BY DEF PartFor, Part

\* A pet is drawn in one of three ways.
LEMMA RenderedKind ==
    ASSUME NEW name, NEW chosen \in BOOLEAN, NEW cached
    PROVE  Rendered(name, chosen, cached) \in {"none", "plain", "rich"}
BY DEF Rendered, Visible

\* A track begins inside its part, whoever starts it.
LEMMA TrackBegins ==
    ASSUME NEW of \in 0..MaxLoads, NEW part \in Part, NEW name \in Mood \cup Oneshot
    PROVE  /\ Track(of, part, name) \in [of : 0..MaxLoads, part : Part, name : Mood \cup Oneshot, index : Nat]
           /\ Track(of, part, name).index < LengthOf[part]
           /\ Track(of, part, name).of = of /\ Track(of, part, name).part = part
           /\ Track(of, part, name).name = name
BY LengthAssumption DEF Track

\* At the start no pet is loaded and nothing is painted.
LEMMA PetsInitially ==
    ASSUME PetsInit
    PROVE  PetsInv
<1>1. play \in [of : 0..MaxLoads, part : Part, name : Mood \cup Oneshot, index : Nat]
  BY PetsAssumption, TrackBegins DEF PetsInit, Part, Mood
<1>2. pet \in [generation : 0..MaxLoads, kind : {"none", "plain", "rich"}] /\ pet.generation = 0
  BY PetsAssumption DEF PetsInit
<1> QED
  BY <1>1, <1>2 DEF PetsInit, PetsInv, PetsTypeOK, Believed, Mood

\* What a step on the mood and its track must leave: the types, and a track that fits.
FitsMood ==
    /\ mood' \in Mood
    /\ play' \in [of : 0..MaxLoads, part : Part, name : Mood \cup Oneshot, index : Nat]
    /\ placed' \in {<<>>} \cup ((Mood \cup Oneshot) \X Nat \X Nat)
    /\ placed' = <<>> \/ (placed' = placed /\ play' = play)
    /\ drawn => Playing'

\* A mood that is set, or set again, brings a track that fits it.
LEMMA SetMoodFits ==
    ASSUME PetsInv, NEW state \in Mood, SetMood(state), pet' = pet \/ ~host.graphics
    PROVE  FitsMood
<1> USE DEF PetsInv
<1>1. mood' = state
  BY DEF SetMood
<1>2. CASE pet.kind = "none"
  BY <1>1, <1>2 DEF SetMood, FitsMood, PetsTypeOK
<1>3. CASE pet.kind # "none"
  <2>1. play' = Track(pet.generation, PartFor(pet.kind, state), state) /\ placed' = <<>>
    BY <1>3 DEF SetMood
  <2>2. /\ play' \in [of : 0..MaxLoads, part : Part, name : Mood \cup Oneshot, index : Nat]
        /\ play'.index < LengthOf[play'.part] /\ play'.of = pet.generation
        /\ play'.part = PartFor(pet.kind, state) /\ play'.name = state
    BY <2>1, PartIsPart, TrackBegins DEF PetsTypeOK
  <2>3. drawn => Playing'
    BY <2>2, <1>1 DEF Playing, PartFor
  <2> QED
    BY <2>1, <2>2, <2>3, <1>1 DEF FitsMood
<1> QED
  BY <1>2, <1>3

\* A running pet takes its turn with one of its actions, and a pet without actions just runs.
LEMMA StirFits ==
    ASSUME PetsInv, Stir, host' = host, pet' = pet \/ ~host.graphics
    PROVE  FitsMood /\ acting' \in BOOLEAN /\ turn' \in {1, 2}
<1> USE DEF PetsInv
<1>1. CASE ~HasActions
  <2>1. SetMood("running") /\ UNCHANGED <<acting, turn>>
    BY <1>1 DEF Stir, Busy
  <2> QED
    BY <2>1, SetMoodFits DEF Mood, PetsTypeOK
<1>2. CASE HasActions /\ acting
  <2>1. UNCHANGED <<mood, play, placed, acting, turn>> /\ pet' = pet
    BY <1>2 DEF Stir, Busy, HasActions
  <2> QED
    BY <2>1 DEF FitsMood, PetsTypeOK, Playing, PartFor
<1>3. CASE HasActions /\ ~acting
  <2> DEFINE part == IF turn = 1 THEN "action-1" ELSE "action-2"
         name == ActionName(turn)
  <2>1. /\ mood' = "running" /\ play' = Track(pet.generation, part, name)
        /\ placed' = <<>> /\ acting' = TRUE /\ turn' = 3 - turn /\ pet' = pet
    BY <1>3 DEF Stir, Busy, HasActions
  <2>2. /\ part \in Part /\ name \in Oneshot
        /\ name \in {"first action", "second action"}
    BY DEF Part, Oneshot, ActionName
  <2> HIDE DEF part, name
  <2>3. /\ play' \in [of : 0..MaxLoads, part : Part, name : Mood \cup Oneshot, index : Nat]
        /\ play'.index < LengthOf[play'.part] /\ play'.of = pet.generation
        /\ play'.part = part /\ play'.name = name
    <3>1. pet.generation \in 0..MaxLoads /\ name \in Mood \cup Oneshot
      BY <2>2 DEF PetsTypeOK
    <3>2. /\ Track(pet.generation, part, name)
                \in [of : 0..MaxLoads, part : Part, name : Mood \cup Oneshot, index : Nat]
          /\ Track(pet.generation, part, name).index < LengthOf[part]
      BY <2>2, <3>1, TrackBegins
    <3>3. /\ Track(pet.generation, part, name).of = pet.generation
          /\ Track(pet.generation, part, name).part = part
          /\ Track(pet.generation, part, name).name = name
      BY DEF Track
    <3> QED
      BY <2>1, <3>2, <3>3
  <2>4. Playing'
    BY <2>1, <2>2, <2>3 DEF Playing
  <2> QED
    BY <2>1, <2>3, <2>4 DEF FitsMood, Mood, PetsTypeOK
<1> QED
  BY <1>1, <1>2, <1>3 DEF HasActions, PetsTypeOK

\* Nothing but the mood and its track has changed.
LEMMA MoodKeeps ==
    ASSUME PetsInv, FitsMood, UNCHANGED <<host, drawn, shown>>,
           pet' \in [generation : 0..MaxLoads, kind : {"none", "plain", "rich"}],
           drawn => pet' = pet, ~started' => pet'.generation = 0,
           started' \in BOOLEAN, acting' \in BOOLEAN, pending' \in BOOLEAN, turn' \in {1, 2}
    PROVE  PetsInv'
<1>1. PetsTypeOK'
  BY DEF PetsInv, PetsTypeOK, FitsMood
<1>2. Believed'
  BY DEF PetsInv, Believed, FitsMood, Signature, Picture
<1> QED
  BY <1>1, <1>2 DEF PetsInv, FitsMood

\* A pet is loaded: it is drawn from the beginning of its welcome, or of its mood.
LEMMA InstallKeeps ==
    ASSUME PetsInv, NEW look \in {"plain", "rich"}, NEW state \in Mood, Install(look, state),
           host.graphics, started', UNCHANGED <<host, shown, pending>>, started' \in BOOLEAN
    PROVE  PetsInv'
<1> USE DEF PetsInv
<1> DEFINE part == IF look = "rich" THEN "welcome" ELSE PartFor(look, state)
           name == IF look = "rich" THEN "welcome" ELSE state
<1>1. /\ pet' = [generation |-> pet.generation + 1, kind |-> look]
      /\ play' = Track(pet.generation + 1, part, name)
      /\ drawn' = TRUE /\ placed' = <<>> /\ acting' = FALSE /\ turn' = 1 /\ mood' = state
      /\ pet.generation < MaxLoads
  BY DEF Install
<1>2. part \in Part /\ name \in Mood \cup Oneshot
  BY PartIsPart DEF Part, Oneshot
<1>3. pet.generation + 1 \in 0..MaxLoads
  BY <1>1, PetsAssumption DEF PetsTypeOK
<1>4. /\ play' \in [of : 0..MaxLoads, part : Part, name : Mood \cup Oneshot, index : Nat]
      /\ play'.index < LengthOf[play'.part] /\ play'.of = pet.generation + 1
      /\ play'.part = part /\ play'.name = name
  <2> HIDE DEF part, name
  <2> QED
    BY <1>1, <1>2, <1>3, TrackBegins
<1>5. Playing'
  BY <1>1, <1>4 DEF Playing, PartFor
<1>6. pet' \in [generation : 0..MaxLoads, kind : {"none", "plain", "rich"}]
  BY <1>1, <1>3
<1>7. PetsTypeOK'
  <2> HIDE DEF part, name
  <2> QED
    BY <1>1, <1>4, <1>6 DEF PetsTypeOK
<1> QED
  BY <1>1, <1>5, <1>7 DEF Believed

\* The frame starts with the pet of the settings, or with none.
LEMMA PetStartKeeps ==
    ASSUME PetsInv, NEW name, NEW cached, Start(name, cached)
    PROVE  PetsInv'
<1> USE DEF PetsInv
<1> DEFINE look == Rendered(name, FALSE, cached)
<1>1. look \in {"none", "plain", "rich"}
  BY RenderedKind
<1>2. ~started /\ started' = TRUE /\ UNCHANGED <<host, shown, pending>>
  BY DEF Start
<1> HIDE DEF look
<1>3. CASE UNCHANGED <<pet, mood, play, drawn, placed, acting, turn>>
  <2>1. UNCHANGED <<host, shown, pending, pet, mood, play, drawn, placed, acting, turn>> /\ started' \in BOOLEAN
    BY <1>2, <1>3
  <2>2. PetsTypeOK'
    BY <2>1 DEF PetsTypeOK
  <2>3. Believed'
    BY <2>1 DEF Believed, Signature, Picture
  <2> QED
    BY <1>2, <2>1, <2>2, <2>3 DEF Playing, PartFor
<1>4. CASE look # "none" /\ host.graphics /\ Install(look, mood)
  BY <1>1, <1>2, <1>4, InstallKeeps DEF PetsTypeOK
<1>5. CASE /\ look # "none" /\ ~host.graphics
           /\ pet' = [generation |-> 1, kind |-> look]
           /\ UNCHANGED <<mood, play, drawn, placed, acting, turn>>
  <2>1. pet' \in [generation : 0..MaxLoads, kind : {"none", "plain", "rich"}]
    BY <1>1, <1>5, PetsAssumption
  <2> QED
    BY <2>1, <1>2, <1>5 DEF PetsTypeOK, Believed, Signature, Picture
<1> QED
  BY <1>3, <1>4, <1>5 DEF Start, look

\* Another pet is loaded, or the one that is there is let go.
LEMMA SelectKeeps ==
    ASSUME PetsInv, NEW name, NEW cached, Select(name, cached)
    PROVE  PetsInv'
<1> USE DEF PetsInv
<1> DEFINE look == Rendered(name, TRUE, cached)
<1>1. look \in {"none", "plain", "rich"}
  BY RenderedKind
<1>2. started /\ UNCHANGED <<host, started, shown, pending>>
  BY DEF Select
<1> HIDE DEF look
<1>3. CASE Stir /\ UNCHANGED <<pet, drawn>>
  BY <1>2, <1>3, StirFits, MoodKeeps DEF PetsTypeOK
<1>4. CASE look # "none" /\ host.graphics /\ Install(look, IF Busy THEN mood ELSE "running")
  <2>1. (IF Busy THEN mood ELSE "running") \in Mood
    BY DEF PetsTypeOK, Mood
  <2> QED
    BY <2>1, <1>1, <1>2, <1>4, InstallKeeps DEF PetsTypeOK
<1>5. CASE /\ look # "none" /\ ~host.graphics /\ pet.generation < MaxLoads
           /\ Stir /\ pet' = [generation |-> pet.generation + 1, kind |-> look]
           /\ UNCHANGED drawn
  <2>1. pet' \in [generation : 0..MaxLoads, kind : {"none", "plain", "rich"}]
    BY <1>1, <1>5, PetsAssumption DEF PetsTypeOK
  <2>2. FitsMood /\ acting' \in BOOLEAN /\ turn' \in {1, 2}
    BY <1>2, <1>5, StirFits
  <2> QED
    BY <2>1, <2>2, <1>2, <1>5, MoodKeeps DEF PetsTypeOK
<1> QED
  BY <1>3, <1>4, <1>5 DEF Select, look

\* Keys, events of the session, and the end of the pipeline.
LEMMA MoodStepKeeps ==
    ASSUME PetsInv,
           \/ EnterLwa \/ Submit \/ Answer \/ Improved \/ NotImproved
           \/ \E state \in Mood \ {"idle"} : Status(state)
    PROVE  PetsInv'
<1> USE DEF PetsInv
<1>1. CASE EnterLwa \/ Submit
  <2>1. Stir /\ UNCHANGED <<host, started, pet, drawn, shown>> /\ pending' \in BOOLEAN
    BY <1>1 DEF EnterLwa, Submit, PetsTypeOK
  <2> QED
    BY <2>1, StirFits, MoodKeeps DEF PetsTypeOK
<1>2. ASSUME NEW state \in Mood, SetMood(state),
             UNCHANGED <<host, started, pet, drawn, shown, turn>>,
             pending' \in BOOLEAN, acting' \in BOOLEAN
      PROVE  PetsInv'
  BY <1>2, SetMoodFits, MoodKeeps DEF PetsTypeOK
<1>3. CASE Answer \/ Improved \/ NotImproved \/ \E state \in Mood \ {"idle"} : Status(state)
  BY <1>2, <1>3 DEF Answer, Improved, NotImproved, Status, Mood, PetsTypeOK
<1> QED
  BY <1>1, <1>3

\* The drawing loop goes to the next picture, and back to the mood when an action ends.
LEMMA AdvanceKeeps ==
    ASSUME PetsInv, Advance
    PROVE  PetsInv'
<1> USE DEF PetsInv
<1>1. drawn /\ UNCHANGED <<host, started, pet, drawn, shown, acting, turn, pending>>
  BY DEF Advance
<1>2. CASE /\ play.index + 1 < LengthOf[play.part]
           /\ play' = [play EXCEPT !.index = @ + 1] /\ placed' = <<>> /\ mood' = mood
  <2>1. /\ play' \in [of : 0..MaxLoads, part : Part, name : Mood \cup Oneshot, index : Nat]
        /\ play'.index = play.index + 1 /\ play'.of = play.of /\ play'.part = play.part
        /\ play'.name = play.name
    BY <1>2 DEF PetsTypeOK
  <2>2. Playing'
    BY <2>1, <1>1, <1>2 DEF Playing, PartFor
  <2> QED
    BY <2>1, <2>2, <1>1, <1>2, MoodKeeps DEF FitsMood, PetsTypeOK
<1>3. ASSUME NEW state \in Mood, SetMood(state)
      PROVE  PetsInv'
  BY <1>1, <1>3, SetMoodFits, MoodKeeps DEF PetsTypeOK
<1> QED
  BY <1>2, <1>3 DEF Advance, Mood, PetsTypeOK

\* A painting that is made, or that fails, is remembered as what it is.
LEMMA PaintKeeps ==
    ASSUME PetsInv, Paint \/ PaintFails
    PROVE  PetsInv'
<1> USE DEF PetsInv
<1>1. UNCHANGED <<host, started, pet, mood, play, acting, turn, pending>>
  BY DEF Paint, PaintFails
<1>2. CASE Paint
  <2>1. placed' = Signature /\ shown' = Picture /\ UNCHANGED drawn
    BY <1>2 DEF Paint
  <2>2. /\ Signature \in (Mood \cup Oneshot) \X Nat \X Nat
        /\ Picture \in Nat \X Part \X Nat
    BY DEF Signature, Picture, PetsTypeOK
  <2>3. PetsTypeOK'
    BY <2>1, <2>2, <1>1 DEF PetsTypeOK
  <2>4. Believed' /\ (Playing => Playing')
    BY <2>1, <1>1 DEF Believed, Signature, Picture, Playing, PartFor
  <2> QED
    BY <2>1, <2>3, <2>4, <1>1
<1>3. CASE PaintFails
  <2>1. drawn' = FALSE /\ placed' = <<>> /\ shown' = shown
    BY <1>3 DEF PaintFails
  <2>2. PetsTypeOK'
    BY <2>1, <1>1 DEF PetsTypeOK
  <2> QED
    BY <2>1, <2>2, <1>1 DEF Believed
<1> QED
  BY <1>2, <1>3

\* Every step keeps the invariant.
LEMMA PetsKeeps ==
    ASSUME PetsInv, [PetsNext]_petVars
    PROVE  PetsInv'
<1>1. CASE UNCHANGED petVars \/ ActionTimeEnds
  <2>1. UNCHANGED <<host, started, pet, mood, play, drawn, placed, shown, turn, pending>>
        /\ acting' \in BOOLEAN
    BY <1>1 DEF petVars, looks, ActionTimeEnds, PetsInv, PetsTypeOK
  <2> QED
    <3>1. PetsTypeOK'
      BY <2>1 DEF PetsInv, PetsTypeOK
    <3>2. Believed'
      BY <2>1 DEF PetsInv, Believed, Signature, Picture
    <3> QED
      BY <2>1, <3>1, <3>2 DEF PetsInv, Playing, PartFor
<1> QED
  BY <1>1, PetStartKeeps, SelectKeeps, MoodStepKeeps, AdvanceKeeps, PaintKeeps DEF PetsNext

\* The invariant holds in every state, for any pets, lengths and number of loads.
THEOREM PetsInvariant == PetsSpec => []PetsInv
<1> QED
  BY PetsInitially, PetsKeeps, PTL DEF PetsSpec

\* What is drawn is the loaded pet's, inside its track, and is what its mood calls for; no
\* painting is skipped (terminal_frame.py:1026-1096, 1424-1482).
THEOREM PetAlwaysShowsItsState == PetsSpec => []PetShowsItsState
<1>1. ASSUME PetsInv
      PROVE  PetShowsItsState
  <2>1. Signature # <<>>
    BY DEF Signature
  <2> QED
    BY <1>1, <2>1 DEF PetsInv, Playing, Believed, PetShowsItsState
<1> QED
  BY <1>1, PetsInvariant, PTL

------------------------------------------------------------------------------
(***************************************************************************)
(* Proofs about CodexBroker.tla, for any sockets, sessions and limit: no   *)
(* slot is lost, every client is reached and no child runs on unseen,      *)
(* unless a sink raised or a client joined a session's start.              *)
(*                                                                         *)
(* The promises say nothing of a handler that is halfway: that a client    *)
(* which has been attached is among the sinks is known from the moment its *)
(* sink was added, and that a child is not spawned for a session that was  *)
(* taken away depends on who else has had that session in hand.            *)
(***************************************************************************)

\* A handler that is under way has a session in hand.
HasSession(c) == IF at[c] = "away" THEN on[c] = NoSession ELSE on[c] \in Session

\* A client's sink is there from the attachment on.
IsReached(c) == at[c] \in {"attaching", "attached"} /\ on[c] \in sessions => c \in sinks[on[c]]

\* A session that is being started has neither child nor reader, and is registered and in one
\* hand unless it was joined.
StartsAlone(c) ==
    at[c] = "starting" =>
        /\ child[on[c]] = "none" /\ reader[on[c]] = "none"
        /\ on[c] \in sessions \cup disturbed
        /\ \A d \in Client \ {c} : on[d] = on[c] => on[c] \in disturbed /\ at[d] # "starting"

ClientInv(c) == HasSession(c) /\ IsReached(c) /\ StartsAlone(c)

SessionInv(s) ==
    /\ s \in sessions \ disturbed => SlotIsHeld(s)
    /\ child[s] = "alive" => s \in sessions \cup disturbed
    /\ reader[s] = "failed" => s \in disturbed

WithinLimit == IsFiniteSet(sessions) /\ Cardinality(sessions) <= MaxSessions

BrokerInv ==
    /\ TypeOK
    /\ WithinLimit
    /\ \A c \in Client : ClientInv(c)
    /\ \A s \in Session : SessionInv(s)

------------------------------------------------------------------------------
(* The limit *)

\* No action but create registers a session, so none other can exceed the limit.
LEMMA FewerIsWithin ==
    ASSUME BrokerInv, sessions' \subseteq sessions
    PROVE  WithinLimit'
<1>1. IsFiniteSet(sessions') /\ Cardinality(sessions') <= Cardinality(sessions)
  BY FS_Subset DEF BrokerInv, WithinLimit
<1>2. Cardinality(sessions) \in Nat /\ Cardinality(sessions') \in Nat
  BY <1>1, FS_CardinalityType DEF BrokerInv, WithinLimit
<1> QED BY <1>1, <1>2, BrokerAssumption DEF BrokerInv, WithinLimit

------------------------------------------------------------------------------
(* Steps *)

\* create registers a session that nobody has in hand.
LEMMA CreateKeeps ==
    ASSUME BrokerInv, NEW c \in Client, NEW s \in Session, Create(c, s)
    PROVE  BrokerInv'
<1> USE DEF Create, Unused, Handler, childVars, BrokerInv, TypeOK
<1>1. TypeOK'
  <2>1. HasSession(c)
    BY DEF ClientInv
  <2> QED BY <2>1 DEF HasSession
<1>2. ASSUME NEW d \in Client PROVE ClientInv(d)'
  <2>1. ClientInv(d) /\ ClientInv(c)
    OBVIOUS
  <2>2. HasSession(d)'
    BY <2>1 DEF ClientInv, HasSession
  <2>3. IsReached(d)'
    BY <2>1 DEF ClientInv, HasSession, IsReached
  <2>4. StartsAlone(d)'
    BY <2>1, BrokerAssumption DEF ClientInv, HasSession, StartsAlone
  <2> QED BY <2>2, <2>3, <2>4 DEF ClientInv
<1>3. ASSUME NEW r \in Session PROVE SessionInv(r)'
  <2>1. SessionInv(r) /\ ClientInv(c)
    OBVIOUS
  <2> QED BY <2>1 DEF SessionInv, ClientInv, HasSession, StartsAlone, SlotIsHeld, Holds
<1>4. WithinLimit'
  <2>1. IsFiniteSet(sessions) /\ Cardinality(sessions) \in Nat /\ s \notin sessions
    BY FS_CardinalityType DEF WithinLimit
  <2>2. IsFiniteSet(sessions') /\ Cardinality(sessions') = Cardinality(sessions) + 1
    BY <2>1, FS_AddElement
  <2> QED BY <2>1, <2>2, BrokerAssumption DEF WithinLimit
<1> QED BY <1>1, <1>2, <1>3, <1>4

\* A spawn that fails takes its session away before it has a child.
LEMMA SpawnFailsKeeps ==
    ASSUME BrokerInv, NEW c \in Client, SpawnFails(c)
    PROVE  BrokerInv'
<1> USE DEF SpawnFails, Return, Handler, childVars, BrokerInv, TypeOK
<1>1. TypeOK'
  <2>1. HasSession(c)
    BY DEF ClientInv
  <2> QED BY <2>1 DEF HasSession
<1>2. ASSUME NEW d \in Client PROVE ClientInv(d)'
  <2>1. ClientInv(d) /\ ClientInv(c)
    OBVIOUS
  <2>2. HasSession(d)'
    BY <2>1 DEF ClientInv, HasSession
  <2>3. IsReached(d)'
    BY <2>1 DEF ClientInv, HasSession, IsReached
  <2>4. StartsAlone(d)'
    BY <2>1, BrokerAssumption DEF ClientInv, HasSession, StartsAlone
  <2> QED BY <2>2, <2>3, <2>4 DEF ClientInv
<1>3. ASSUME NEW r \in Session PROVE SessionInv(r)'
  <2>1. SessionInv(r) /\ ClientInv(c)
    OBVIOUS
  <2> QED BY <2>1 DEF SessionInv, ClientInv, HasSession, StartsAlone, SlotIsHeld, Holds
<1>4. WithinLimit'
  BY FewerIsWithin DEF SpawnFails, Return, Handler
<1> QED BY <1>1, <1>2, <1>3, <1>4

\* So does an announcement, of a session that was joined.
LEMMA AnnounceFailsKeeps ==
    ASSUME BrokerInv, NEW c \in Client, AnnounceFails(c)
    PROVE  BrokerInv'
<1> USE DEF AnnounceFails, Handler, childVars, BrokerInv, TypeOK
<1>1. TypeOK'
  <2>1. HasSession(c)
    BY DEF ClientInv
  <2> QED BY <2>1 DEF HasSession
<1>2. ASSUME NEW d \in Client PROVE ClientInv(d)'
  <2>1. ClientInv(d) /\ ClientInv(c)
    OBVIOUS
  <2>2. HasSession(d)'
    BY <2>1 DEF ClientInv, HasSession
  <2>3. IsReached(d)'
    BY <2>1 DEF ClientInv, HasSession, IsReached
  <2>4. StartsAlone(d)'
    BY <2>1, BrokerAssumption DEF ClientInv, HasSession, StartsAlone
  <2> QED BY <2>2, <2>3, <2>4 DEF ClientInv
<1>3. ASSUME NEW r \in Session PROVE SessionInv(r)'
  <2>1. SessionInv(r) /\ ClientInv(c)
    OBVIOUS
  <2> QED BY <2>1 DEF SessionInv, ClientInv, HasSession, StartsAlone, SlotIsHeld, Holds
<1>4. WithinLimit'
  BY FewerIsWithin DEF AnnounceFails, Handler
<1> QED BY <1>1, <1>2, <1>3, <1>4

\* A started session is attached to, or was taken away from the handler that started it.
LEMMA StartedKeeps ==
    ASSUME BrokerInv, NEW c \in Client, NEW found \in BOOLEAN, Started(c, found)
    PROVE  BrokerInv'
<1> USE DEF Started, Attach, Return, Handler, childVars, BrokerInv, TypeOK
<1>1. TypeOK'
  <2>1. HasSession(c)
    BY DEF ClientInv
  <2> QED BY <2>1 DEF HasSession
<1>2. ASSUME NEW d \in Client PROVE ClientInv(d)'
  <2>1. ClientInv(d) /\ ClientInv(c)
    OBVIOUS
  <2>2. HasSession(d)'
    BY <2>1 DEF ClientInv, HasSession
  <2>3. IsReached(d)'
    BY <2>1 DEF ClientInv, HasSession, IsReached
  <2>4. at'[d] = "starting" =>
            child'[on'[d]] = "none" /\ reader'[on'[d]] = "none" /\ on'[d] \in sessions' \cup disturbed'
    BY <2>1 DEF ClientInv, HasSession, StartsAlone
  <2>5. ASSUME at'[d] = "starting", NEW e \in Client \ {d}, on'[e] = on'[d]
        PROVE  on'[d] \in disturbed' /\ at'[e] # "starting"
    <3>1. ClientInv(e)
      OBVIOUS
    <3> QED BY <2>1, <2>5, <3>1, BrokerAssumption DEF ClientInv, HasSession, StartsAlone
  <2> QED BY <2>2, <2>3, <2>4, <2>5 DEF ClientInv, StartsAlone
<1>3. ASSUME NEW r \in Session PROVE SessionInv(r)'
  <2>1. SessionInv(r) /\ ClientInv(c)
    OBVIOUS
  <2>2. r \in sessions' \ disturbed' => SlotIsHeld(r)'
    <3>1. r \in sessions \ disturbed => SlotIsHeld(r)
      BY <2>1 DEF SessionInv
    <3> QED
      BY <2>1, <3>1 DEF ClientInv, HasSession, SlotIsHeld, Holds
  <2>3. child'[r] = "alive" => r \in sessions' \cup disturbed'
    BY <2>1 DEF SessionInv, ClientInv, HasSession, StartsAlone
  <2>4. reader'[r] = "failed" => r \in disturbed'
    BY <2>1 DEF SessionInv
  <2> QED BY <2>2, <2>3, <2>4 DEF SessionInv
<1>4. WithinLimit'
  BY FewerIsWithin DEF Started, Attach, Return, Handler
<1> QED BY <1>1, <1>2, <1>3, <1>4

\* A client that joins adds its sink, and disturbs a start.
LEMMA JoinKeeps ==
    ASSUME BrokerInv, NEW c \in Client, NEW s \in Session, Join(c, s)
    PROVE  BrokerInv'
<1> USE DEF Join, Attach, Return, Handler, childVars, BrokerInv, TypeOK
<1>1. TypeOK'
  <2>1. HasSession(c)
    BY DEF ClientInv
  <2> QED BY <2>1 DEF HasSession
<1>2. ASSUME NEW d \in Client PROVE ClientInv(d)'
  <2>1. ClientInv(d) /\ ClientInv(c)
    OBVIOUS
  <2>2. HasSession(d)'
    BY <2>1 DEF ClientInv, HasSession
  <2>3. IsReached(d)'
    BY <2>1 DEF ClientInv, HasSession, IsReached
  <2>4. at'[d] = "starting" =>
            child'[on'[d]] = "none" /\ reader'[on'[d]] = "none" /\ on'[d] \in sessions' \cup disturbed'
    BY <2>1 DEF ClientInv, HasSession, StartsAlone
  <2>5. ASSUME at'[d] = "starting", NEW e \in Client \ {d}, on'[e] = on'[d]
        PROVE  on'[d] \in disturbed' /\ at'[e] # "starting"
    <3>1. ClientInv(e)
      OBVIOUS
    <3> QED BY <2>1, <2>5, <3>1, BrokerAssumption DEF ClientInv, HasSession, StartsAlone
  <2> QED BY <2>2, <2>3, <2>4, <2>5 DEF ClientInv, StartsAlone
<1>3. ASSUME NEW r \in Session PROVE SessionInv(r)'
  <2>1. SessionInv(r) /\ ClientInv(c)
    OBVIOUS
  <2> QED BY <2>1 DEF SessionInv, ClientInv, HasSession, StartsAlone, SlotIsHeld, Holds
<1>4. WithinLimit'
  BY FewerIsWithin DEF Join, Attach, Return, Handler
<1> QED BY <1>1, <1>2, <1>3, <1>4

\* attach returns with the sink it added.
LEMMA AttachedKeeps ==
    ASSUME BrokerInv, NEW c \in Client, Attached(c)
    PROVE  BrokerInv'
<1> USE DEF Attached, Handler, childVars, BrokerInv, TypeOK
<1>1. TypeOK'
  <2>1. HasSession(c)
    BY DEF ClientInv
  <2> QED BY <2>1 DEF HasSession
<1>2. ASSUME NEW d \in Client PROVE ClientInv(d)'
  <2>1. ClientInv(d) /\ ClientInv(c)
    OBVIOUS
  <2>2. HasSession(d)'
    BY <2>1 DEF ClientInv, HasSession
  <2>3. IsReached(d)'
    BY <2>1 DEF ClientInv, HasSession, IsReached
  <2>4. StartsAlone(d)'
    BY <2>1, BrokerAssumption DEF ClientInv, HasSession, StartsAlone
  <2> QED BY <2>2, <2>3, <2>4 DEF ClientInv
<1>3. ASSUME NEW r \in Session PROVE SessionInv(r)'
  <2>1. SessionInv(r) /\ ClientInv(c)
    OBVIOUS
  <2> QED BY <2>1 DEF SessionInv, ClientInv, HasSession, StartsAlone, SlotIsHeld, Holds
<1>4. WithinLimit'
  BY FewerIsWithin DEF Attached, Handler
<1> QED BY <1>1, <1>2, <1>3, <1>4

\* Once the cancelled reader has ended the child is stopped.
LEMMA CloseEndsKeeps ==
    ASSUME BrokerInv, NEW c \in Client, CloseEnds(c)
    PROVE  BrokerInv'
<1> USE DEF CloseEnds, Return, Handler, childVars, BrokerInv, TypeOK
<1>1. TypeOK'
  <2>1. HasSession(c)
    BY DEF ClientInv
  <2> QED BY <2>1 DEF HasSession
<1>2. ASSUME NEW d \in Client PROVE ClientInv(d)'
  <2>1. ClientInv(d) /\ ClientInv(c)
    OBVIOUS
  <2>2. HasSession(d)'
    BY <2>1 DEF ClientInv, HasSession
  <2>3. IsReached(d)'
    BY <2>1 DEF ClientInv, HasSession, IsReached
  <2>4. StartsAlone(d)'
    BY <2>1, BrokerAssumption DEF ClientInv, HasSession, StartsAlone
  <2> QED BY <2>2, <2>3, <2>4 DEF ClientInv
<1>3. ASSUME NEW r \in Session PROVE SessionInv(r)'
  <2>1. SessionInv(r) /\ ClientInv(c)
    OBVIOUS
  <2> QED BY <2>1 DEF SessionInv, ClientInv, HasSession, StartsAlone, SlotIsHeld, Holds
<1>4. WithinLimit'
  BY FewerIsWithin DEF CloseEnds, Return, Handler
<1> QED BY <1>1, <1>2, <1>3, <1>4

\* A session is discarded with its slot.
LEMMA AttachFailsKeeps ==
    ASSUME BrokerInv, NEW c \in Client, AttachFails(c)
    PROVE  BrokerInv'
<1> USE DEF AttachFails, Close, Return, Handler, childVars, BrokerInv, TypeOK
<1>1. TypeOK'
  <2>1. HasSession(c)
    BY DEF ClientInv
  <2> QED BY <2>1 DEF HasSession
<1>2. ASSUME NEW d \in Client PROVE ClientInv(d)'
  <2>1. ClientInv(d) /\ ClientInv(c)
    OBVIOUS
  <2>2. HasSession(d)'
    BY <2>1 DEF ClientInv, HasSession
  <2>3. IsReached(d)'
    BY <2>1 DEF ClientInv, HasSession, IsReached
  <2>4. at'[d] = "starting" =>
            child'[on'[d]] = "none" /\ reader'[on'[d]] = "none" /\ on'[d] \in sessions' \cup disturbed'
    BY <2>1 DEF ClientInv, HasSession, StartsAlone
  <2>5. ASSUME at'[d] = "starting", NEW e \in Client \ {d}, on'[e] = on'[d]
        PROVE  on'[d] \in disturbed' /\ at'[e] # "starting"
    <3>1. ClientInv(e)
      OBVIOUS
    <3> QED BY <2>1, <2>5, <3>1, BrokerAssumption DEF ClientInv, HasSession, StartsAlone
  <2> QED BY <2>2, <2>3, <2>4, <2>5 DEF ClientInv, StartsAlone
<1>3. ASSUME NEW r \in Session PROVE SessionInv(r)'
  <2>1. SessionInv(r) /\ ClientInv(c)
    OBVIOUS
  <2>2. r \in sessions' \ disturbed' => SlotIsHeld(r)'
    BY <2>1 DEF SessionInv, ClientInv, HasSession, SlotIsHeld, Holds
  <2>3. child'[r] = "alive" => r \in sessions' \cup disturbed'
    BY <2>1 DEF SessionInv, ClientInv, HasSession, StartsAlone
  <2>4. reader'[r] = "failed" => r \in disturbed'
    BY <2>1 DEF SessionInv
  <2> QED BY <2>2, <2>3, <2>4 DEF SessionInv
<1>4. WithinLimit'
  BY FewerIsWithin DEF AttachFails, Close, Return, Handler
<1> QED BY <1>1, <1>2, <1>3, <1>4

\* The last client to leave closes its session or is about to.
LEMMA LeaveKeeps ==
    ASSUME BrokerInv, NEW c \in Client, Leave(c)
    PROVE  BrokerInv'
<1> USE DEF Leave, Close, Return, Handler, childVars, BrokerInv, TypeOK
<1>1. TypeOK'
  <2>1. HasSession(c)
    BY DEF ClientInv
  <2> QED BY <2>1 DEF HasSession
<1>2. ASSUME NEW d \in Client PROVE ClientInv(d)'
  <2>1. ClientInv(d) /\ ClientInv(c)
    OBVIOUS
  <2>2. HasSession(d)'
    BY <2>1 DEF ClientInv, HasSession
  <2>3. IsReached(d)'
    BY <2>1 DEF ClientInv, HasSession, IsReached
  <2>4. at'[d] = "starting" =>
            child'[on'[d]] = "none" /\ reader'[on'[d]] = "none" /\ on'[d] \in sessions' \cup disturbed'
    BY <2>1 DEF ClientInv, HasSession, StartsAlone
  <2>5. ASSUME at'[d] = "starting", NEW e \in Client \ {d}, on'[e] = on'[d]
        PROVE  on'[d] \in disturbed' /\ at'[e] # "starting"
    <3>1. ClientInv(e)
      OBVIOUS
    <3> QED BY <2>1, <2>5, <3>1, BrokerAssumption DEF ClientInv, HasSession, StartsAlone
  <2> QED BY <2>2, <2>3, <2>4, <2>5 DEF ClientInv, StartsAlone
<1>3. ASSUME NEW r \in Session PROVE SessionInv(r)'
  <2>1. SessionInv(r) /\ ClientInv(c)
    OBVIOUS
  <2>2. r \in sessions' \ disturbed' => SlotIsHeld(r)'
    BY <2>1 DEF SessionInv, ClientInv, HasSession, SlotIsHeld, Holds
  <2>3. child'[r] = "alive" => r \in sessions' \cup disturbed'
    BY <2>1 DEF SessionInv, ClientInv, HasSession, StartsAlone
  <2>4. reader'[r] = "failed" => r \in disturbed'
    BY <2>1 DEF SessionInv
  <2> QED BY <2>2, <2>3, <2>4 DEF SessionInv
<1>4. WithinLimit'
  BY FewerIsWithin DEF Leave, Close, Return, Handler
<1> QED BY <1>1, <1>2, <1>3, <1>4

\* Children and readers come and go by themselves.
LEMMA ChildrenKeep ==
    ASSUME BrokerInv, NEW s \in Session, BroadcastFails(s) \/ ChildExits(s) \/ ReaderEnds(s)
    PROVE  BrokerInv'
<1> USE DEF BroadcastFails, ChildExits, ReaderEnds, BrokerInv, TypeOK
<1>1. TypeOK'
  OBVIOUS
<1>2. ASSUME NEW d \in Client PROVE ClientInv(d)'
  <2>1. ClientInv(d)
    OBVIOUS
  <2> QED BY <2>1 DEF ClientInv, HasSession, IsReached, StartsAlone
<1>3. ASSUME NEW r \in Session PROVE SessionInv(r)'
  <2>1. SessionInv(r)
    OBVIOUS
  <2> QED BY <2>1 DEF SessionInv, SlotIsHeld, Holds
<1>4. WithinLimit'
  BY FewerIsWithin
<1> QED BY <1>1, <1>2, <1>3, <1>4

------------------------------------------------------------------------------
(* The theorems *)

\* The inductive invariant of the broker, its sessions and its handlers.
THEOREM BrokerInvariant == Spec => []BrokerInv
<1>1. Init => BrokerInv
  <2> SUFFICES ASSUME Init PROVE BrokerInv
    OBVIOUS
  <2>1. WithinLimit
    BY FS_EmptySet, BrokerAssumption DEF Init, WithinLimit
  <2> QED
    BY <2>1 DEF Init, BrokerInv, TypeOK, ClientInv, HasSession, IsReached, StartsAlone, SessionInv
<1>2. BrokerInv /\ [Next]_vars => BrokerInv'
  <2> SUFFICES ASSUME BrokerInv, [Next]_vars PROVE BrokerInv'
    OBVIOUS
  <2>1. CASE UNCHANGED vars
    BY <2>1 DEF vars, childVars, BrokerInv, TypeOK, WithinLimit, ClientInv, HasSession, IsReached,
       StartsAlone, SessionInv, SlotIsHeld, Holds
  <2>2. CASE Next
    BY <2>2, CreateKeeps, SpawnFailsKeeps, AnnounceFailsKeeps, StartedKeeps, JoinKeeps, AttachedKeeps,
       CloseEndsKeeps, AttachFailsKeeps, LeaveKeeps, ChildrenKeep DEF Next
  <2> QED BY <2>1, <2>2
<1> QED BY <1>1, <1>2, PTL DEF Spec

\* Sessions and clients keep hold of one another however many sockets create, join, fail and leave
\* (codex_session.py:399-472).
THEOREM ClientsAlwaysHaveTheirSlot == Spec => []ClientsHaveTheirSlot
<1>1. BrokerInv => ClientsHaveTheirSlot
  BY DEF BrokerInv, TypeOK, ClientsHaveTheirSlot, SessionInv, ClientInv, IsReached, ClientIsReached
<1> QED BY <1>1, BrokerInvariant, PTL

\* No child runs on unseen, and no more of them than the limit (codex_session.py:410-436).
THEOREM ChildrenAlwaysRegistered == Spec => []ChildrenAreRegistered
<1>1. BrokerInv => ChildrenAreRegistered
  <2> SUFFICES ASSUME BrokerInv PROVE ChildrenAreRegistered
    OBVIOUS
  <2> DEFINE orderly == {s \in Session \ disturbed : child[s] = "alive"}
  <2>1. orderly \subseteq sessions
    BY DEF BrokerInv, SessionInv
  <2>2. IsFiniteSet(orderly) /\ Cardinality(orderly) <= Cardinality(sessions)
    BY <2>1, FS_Subset DEF BrokerInv, WithinLimit
  <2>3. Cardinality(orderly) \in Nat /\ Cardinality(sessions) \in Nat
    BY <2>2, FS_CardinalityType DEF BrokerInv, WithinLimit
  <2>4. Cardinality(orderly) <= MaxSessions
    BY <2>2, <2>3, BrokerAssumption DEF BrokerInv, WithinLimit
  <2> QED BY <2>1, <2>4 DEF ChildrenAreRegistered
<1> QED BY <1>1, BrokerInvariant, PTL

(***************************************************************************)
(* Proofs about KeyReader.tla, for any texts that are pasted and any       *)
(* number of keys, pastes and answers.                                     *)
(*                                                                         *)
(* Two laws: an item at the front of what arrived is read as the event it  *)
(* should be, and what is behind it stays as it is (ItemIsRead); and what  *)
(* has not been read is a queue of whole items, which grows at its end and *)
(* shrinks at its front (Queue).  The first is a matter of where the       *)
(* reader stops behind an Escape (EscapeIs) and, for a paste, of a         *)
(* function from the end of the characters to their front, so that it is   *)
(* proved place by place in that order (PasteStep, by UpTo).               *)
(***************************************************************************)

\* The characters there are.
Typed == UNION {ToSet(t) : t \in PasteText}
Char == Typed \cup {"E", "[", "2", "0", "1", "~", "<", "_", "b", "A", "M", "x", "r", "t"}

------------------------------------------------------------------------------
\* What two sequences are, one behind the other.
LEMMA Put ==
    ASSUME NEW T, NEW a \in Seq(T), NEW b \in Seq(T)
    PROVE  /\ a \o b \in Seq(T) /\ Len(a \o b) = Len(a) + Len(b)
           /\ \A i \in 1..Len(a) : (a \o b)[i] = a[i]
           /\ \A i \in 1..Len(b) : (a \o b)[Len(a) + i] = b[i]
           /\ SubSeq(a \o b, 1, Len(a)) = a
           /\ From(a \o b, Len(a) + 1) = b
<1> DEFINE w == a \o b
           m == Len(a)
           n == Len(b)
<1>0. m \in Nat /\ n \in Nat
  BY LenProperties
<1>1. /\ w \in Seq(T) /\ Len(w) = m + n
      /\ \A i \in 1..(m + n) : w[i] = IF i <= m THEN a[i] ELSE b[i - m]
  BY ConcatProperties
<1>2. \A i \in 1..m : w[i] = a[i]
  BY <1>0, <1>1
<1>3. ASSUME NEW i \in 1..n PROVE w[m + i] = b[i]
  <2>1. m + i \in 1..(m + n) /\ ~(m + i <= m) /\ (m + i) - m = i
    BY <1>0
  <2> QED
    BY <1>1, <2>1
<1> HIDE DEF w
<1>4. SubSeq(w, 1, m) = a
  <2>1. \A i \in 1..m : w[i] \in T
    BY <1>2, ElementOfSeq
  <2>2. /\ SubSeq(w, 1, m) \in Seq(T) /\ Len(SubSeq(w, 1, m)) = m
        /\ \A i \in 1..m : SubSeq(w, 1, m)[i] = w[1 + i - 1]
    <3>1. /\ SubSeq(w, 1, m) \in Seq(T)
          /\ Len(SubSeq(w, 1, m)) = IF 1 <= m THEN m - 1 + 1 ELSE 0
          /\ \A i \in 1..(m - 1 + 1) : SubSeq(w, 1, m)[i] = w[1 + i - 1]
      BY <1>0, <2>1, SubSeqProperties
    <3> QED
      BY <1>0, <3>1
  <2>3. \A i \in 1..m : SubSeq(w, 1, m)[i] = a[i]
    BY <1>2, <2>2
  <2> QED
    BY <2>2, <2>3, SeqEqual
<1>5. From(w, m + 1) = b
  <2> DEFINE u == SubSeq(w, m + 1, m + n)
  <2>1. ASSUME NEW i \in (m + 1)..(m + n) PROVE w[i] \in T
    <3>1. i - m \in 1..n /\ m + (i - m) = i
      BY <1>0
    <3> QED
      BY <1>3, <3>1, ElementOfSeq
  <2>2. /\ u \in Seq(T) /\ Len(u) = n /\ \A i \in 1..n : u[i] = w[m + i]
    <3>1. /\ u \in Seq(T)
          /\ Len(u) = IF m + 1 <= m + n THEN (m + n) - (m + 1) + 1 ELSE 0
          /\ \A i \in 1..((m + n) - (m + 1) + 1) : u[i] = w[(m + 1) + i - 1]
      BY <1>0, <2>1, SubSeqProperties
    <3>2. (m + n) - (m + 1) + 1 = n /\ \A i \in 1..n : (m + 1) + i - 1 = m + i
      BY <1>0
    <3> QED
      BY <1>0, <3>1, <3>2
  <2>3. \A i \in 1..n : u[i] = b[i]
    BY <1>3, <2>2
  <2> HIDE DEF u
  <2>4. u = b
    BY <2>2, <2>3, SeqEqual
  <2> QED
    BY <1>1, <2>4 DEF From, u
<1> QED
  BY <1>1, <1>2, <1>3, <1>4, <1>5 DEF w

\* The same, of characters.
Regroups(a, b, c) == (a \o b) \o c = a \o (b \o c)

LEMMA Regrouped == \A a, b, c \in Seq(Char) : Regroups(a, b, c)
BY ConcatAssociative DEF Regroups

\* A text between two pieces in front and two behind.
WrapRegroups(o, t, e, k, r) == (((o \o t) \o e) \o k) \o r = o \o (((t \o e) \o k) \o r)

LEMMA WrapRegrouped == \A o, t, e, k, r \in Seq(Char) : WrapRegroups(o, t, e, k, r)
<1> SUFFICES ASSUME NEW o \in Seq(Char), NEW t \in Seq(Char), NEW e \in Seq(Char),
                    NEW k \in Seq(Char), NEW r \in Seq(Char)
             PROVE  WrapRegroups(o, t, e, k, r)
  OBVIOUS
<1>1. t \o e \in Seq(Char) /\ (t \o e) \o k \in Seq(Char)
  BY ConcatProperties
<1>2. Regroups(o, t, e) /\ Regroups(o, t \o e, k) /\ Regroups(o, (t \o e) \o k, r)
  BY <1>1, Regrouped
<1> QED
  BY <1>2 DEF Regroups, WrapRegroups

\* The first of a sequence is taken away.
LEMMA PutTail ==
    ASSUME NEW T, NEW c \in T, NEW a \in Seq(T), NEW b \in Seq(T)
    PROVE  LET w == (<<c>> \o a) \o b IN w # <<>> /\ w[1] = c /\ Tail(w) = a \o b
<1>1. <<c>> \in Seq(T) /\ Len(<<c>>) = 1 /\ <<c>>[1] = c
  OBVIOUS
<1>2. a \o b \in Seq(T) /\ (<<c>> \o a) \o b = <<c>> \o (a \o b)
  BY <1>1, ConcatAssociative, ConcatProperties
<1> DEFINE d == a \o b
           w == <<c>> \o d
<1> HIDE DEF d
<1>3. w \in Seq(T) /\ Len(w) = 1 + Len(d) /\ w[1] = c /\ From(w, 1 + 1) = d
  <2>1. d \in Seq(T) /\ 1 \in 1..1
    BY <1>2 DEF d
  <2> DEFINE e == <<c>>
  <2>2. e \in Seq(T) /\ Len(e) = 1 /\ e[1] = c /\ w = e \o d
    BY <1>1
  <2> HIDE DEF w, e
  <2>3. /\ w \in Seq(T) /\ Len(w) = Len(e) + Len(d)
        /\ \A i \in 1..Len(e) : w[i] = e[i]
        /\ From(w, Len(e) + 1) = d
    <3>1. /\ e \o d \in Seq(T) /\ Len(e \o d) = Len(e) + Len(d)
          /\ \A i \in 1..Len(e) : (e \o d)[i] = e[i]
          /\ From(e \o d, Len(e) + 1) = d
      <4>1. \A x, y \in Seq(T) :
                /\ x \o y \in Seq(T) /\ Len(x \o y) = Len(x) + Len(y)
                /\ \A i \in 1..Len(x) : (x \o y)[i] = x[i]
                /\ From(x \o y, Len(x) + 1) = y
        BY Put
      <4> QED
        BY <2>1, <2>2, <4>1
    <3> QED
      BY <2>2, <3>1
  <2> QED
    BY <2>1, <2>2, <2>3
<1>4. w # <<>>
  <2>1. Len(d) \in Nat /\ Len(w) # 0
    BY <1>2, <1>3, LenProperties DEF d
  <2> QED
    BY <2>1, EmptySeq
<1>5. Tail(w) = d
  <2> HIDE DEF w
  <2>1. Tail(w) = SubSeq(w, 2, Len(w))
    BY <1>3, <1>4, TailIsSubSeq
  <2> QED
    BY <1>3, <2>1 DEF From
<1> QED
  BY <1>2, <1>3, <1>4, <1>5 DEF d

------------------------------------------------------------------------------
\* A literal sequence with one more in front of it.
LEMMA InFront ==
    ASSUME NEW T, NEW u \in Seq(T), NEW v \in Seq(T), NEW w \in Seq(T), Len(u) = 1,
           Len(w) = Len(v) + 1, w[1] = u[1], \A i \in 1..Len(v) : w[i + 1] = v[i]
    PROVE  u \o v = w
<1> DEFINE n == Len(v)
<1>1. n \in Nat
  BY LenProperties
<1>2. /\ u \o v \in Seq(T) /\ Len(u \o v) = 1 + n
      /\ \A i \in 1..(1 + n) : (u \o v)[i] = IF i <= 1 THEN u[i] ELSE v[i - 1]
  <2>1. /\ u \o v \in Seq(T) /\ Len(u \o v) = Len(u) + Len(v)
        /\ \A i \in 1..(Len(u) + Len(v)) : (u \o v)[i] = IF i <= Len(u) THEN u[i] ELSE v[i - Len(u)]
    BY <1>1, ConcatProperties
  <2> QED
    BY <1>1, <2>1
<1>3. ASSUME NEW i \in 1..(1 + n) PROVE (u \o v)[i] = w[i]
  <2>1. CASE i = 1
    BY <1>1, <1>2, <2>1
  <2>2. CASE i # 1
    <3>1. i - 1 \in 1..n /\ ~(i <= 1) /\ (i - 1) + 1 = i
      BY <1>1, <2>2
    <3> QED
      BY <1>2, <3>1
  <2> QED
    BY <2>1, <2>2
<1>4. Len(u \o v) = Len(w)
  BY <1>1, <1>2
<1>5. u \o v = w
  <2> DEFINE z == u \o v
  <2>1. z \in Seq(T) /\ Len(z) = Len(w) /\ \A i \in 1..Len(z) : z[i] = w[i]
    BY <1>2, <1>3, <1>4
  <2> HIDE DEF z
  <2>2. z = w
    BY <2>1, SeqEqual
  <2> QED
    BY <2>2 DEF z
<1> QED
  BY <1>5

LEMMA One ==
    ASSUME NEW T, NEW e \in T, NEW a \in T
    PROVE  <<a>> \in Seq(T) /\ <<e>> \o <<a>> = <<e, a>>
<1> DEFINE u == <<e>>
           v == <<a>>
           w == <<e, a>>
<1>1. u \in Seq(T) /\ Len(u) = 1 /\ u[1] = e /\ v \in Seq(T) /\ Len(v) = 1 /\ w \in Seq(T) /\ Len(w) = 2 /\ w[1] = e /\ v[1] = a /\ w[2] = a
  OBVIOUS
<1> HIDE DEF u, v, w
<1>2. \A i \in 1..Len(v) : w[i + 1] = v[i]
  BY <1>1
<1>3. u \o v = w
  <2>1. Len(w) = Len(v) + 1 /\ w[1] = u[1] /\ Len(u) = 1
    BY <1>1
  <2> QED
    BY <1>1, <1>2, <2>1, InFront
<1> QED
  BY <1>1, <1>3 DEF u, v, w

LEMMA Two ==
    ASSUME NEW T, NEW e \in T, NEW a \in T, NEW b \in T
    PROVE  <<a, b>> \in Seq(T) /\ <<e>> \o <<a, b>> = <<e, a, b>>
<1> DEFINE u == <<e>>
           v == <<a, b>>
           w == <<e, a, b>>
<1>1. /\ u \in Seq(T) /\ Len(u) = 1 /\ u[1] = e /\ v \in Seq(T) /\ Len(v) = 2 /\ w \in Seq(T) /\ Len(w) = 3
      /\ w[1] = e /\ v[1] = a /\ w[2] = a /\ v[2] = b /\ w[3] = b
  OBVIOUS
<1> HIDE DEF u, v, w
<1>2. \A i \in 1..Len(v) : w[i + 1] = v[i]
  <2>1. \A i \in 1..2 : i = 1 \/ i = 2
    OBVIOUS
  <2> QED
    BY <1>1, <2>1
<1>3. u \o v = w
  <2>1. Len(w) = Len(v) + 1 /\ w[1] = u[1] /\ Len(u) = 1
    BY <1>1
  <2> QED
    BY <1>1, <1>2, <2>1, InFront
<1> QED
  BY <1>1, <1>3 DEF u, v, w

LEMMA Three ==
    ASSUME NEW T, NEW e \in T, NEW a \in T, NEW b \in T, NEW c \in T
    PROVE  <<a, b, c>> \in Seq(T) /\ <<e>> \o <<a, b, c>> = <<e, a, b, c>>
<1> DEFINE u == <<e>>
           v == <<a, b, c>>
           w == <<e, a, b, c>>
<1>1. /\ u \in Seq(T) /\ Len(u) = 1 /\ u[1] = e /\ v \in Seq(T) /\ Len(v) = 3 /\ w \in Seq(T) /\ Len(w) = 4
      /\ w[1] = e /\ v[1] = a /\ w[2] = a /\ v[2] = b /\ w[3] = b /\ v[3] = c /\ w[4] = c
  OBVIOUS
<1> HIDE DEF u, v, w
<1>2. \A i \in 1..Len(v) : w[i + 1] = v[i]
  <2>1. \A i \in 1..3 : i = 1 \/ i = 2 \/ i = 3
    OBVIOUS
  <2> QED
    BY <1>1, <2>1
<1>3. u \o v = w
  <2>1. Len(w) = Len(v) + 1 /\ w[1] = u[1] /\ Len(u) = 1
    BY <1>1
  <2> QED
    BY <1>1, <1>2, <2>1, InFront
<1> QED
  BY <1>1, <1>3 DEF u, v, w

LEMMA Four ==
    ASSUME NEW T, NEW e \in T, NEW a \in T, NEW b \in T, NEW c \in T, NEW d \in T
    PROVE  /\ <<a, b, c, d>> \in Seq(T) /\ <<e, a, b, c, d>> \in Seq(T)
           /\ <<e>> \o <<a, b, c, d>> = <<e, a, b, c, d>>
<1> DEFINE u == <<e>>
           v == <<a, b, c, d>>
           w == <<e, a, b, c, d>>
<1>1. /\ u \in Seq(T) /\ Len(u) = 1 /\ u[1] = e /\ v \in Seq(T) /\ Len(v) = 4 /\ w \in Seq(T) /\ Len(w) = 5
      /\ w[1] = e /\ v[1] = a /\ w[2] = a /\ v[2] = b /\ w[3] = b /\ v[3] = c /\ w[4] = c
      /\ v[4] = d /\ w[5] = d
  OBVIOUS
<1> HIDE DEF u, v, w
<1>2. \A i \in 1..Len(v) : w[i + 1] = v[i]
  <2>1. \A i \in 1..4 : i = 1 \/ i = 2 \/ i = 3 \/ i = 4
    OBVIOUS
  <2> QED
    BY <1>1, <2>1
<1>3. u \o v = w
  <2>1. Len(w) = Len(v) + 1 /\ w[1] = u[1] /\ Len(u) = 1
    BY <1>1
  <2> QED
    BY <1>1, <1>2, <2>1, InFront
<1> QED
  BY <1>1, <1>3 DEF u, v, w

LEMMA OneAndThree ==
    ASSUME NEW T, NEW e \in T, NEW a \in T, NEW b \in T, NEW c \in T
    PROVE  (<<e>> \o <<a>>) \o <<b, e, c>> = <<e, a, b, e, c>>
<1> DEFINE u == <<e>>
           v == <<a>>
           w == <<b, e, c>>
<1>1. u \in Seq(T) /\ v \in Seq(T) /\ w \in Seq(T)
  OBVIOUS
<1>2. v \o w = <<a, b, e, c>>
  BY Three
<1>3. u \o <<a, b, e, c>> = <<e, a, b, e, c>>
  BY Four
<1>4. (u \o v) \o w = u \o (v \o w)
  <2> HIDE DEF u, v, w
  <2> QED
    BY <1>1, ConcatAssociative
<1> QED
  BY <1>2, <1>3, <1>4

------------------------------------------------------------------------------
\* A character at which the reading behind an Escape stops.
StopsAt(s, i) == s[i] \in {"t", "r", "_"} \/ (i > 1 /\ s[i] \in Finals)

\* What is read of s, the characters up to there, and what is behind it.
Told(s, rest) ==
    IF s[Len(s)] = "t" THEN <<<<"key", "t">>, rest>>
    ELSE IF s[Len(s)] = "r" THEN <<<<"alt-enter">>, rest>>
    ELSE IF s[Len(s)] = "_" THEN ReadAnswer(rest)
    ELSE IF s[1] # "[" THEN <<<<"escape">>, rest>>
    ELSE IF s = Opener THEN ReadPaste(rest)
    ELSE <<Sequence(s), rest>>

\* An Escape with s behind it.
LEMMA EscapeIs ==
    ASSUME NEW s \in Seq(Char), NEW rest \in Seq(Char), Len(s) > 0,
           StopsAt(s, Len(s)), \A i \in 1..(Len(s) - 1) : ~StopsAt(s, i)
    PROVE  ReadKey((<<"E">> \o s) \o rest) = Told(s, rest)
<1> DEFINE c == s \o rest
           n == Len(s)
           w == (<<"E">> \o s) \o rest
<1>0. n \in Nat \ {0}
  <2>1. n \in Nat
    BY LenProperties
  <2> QED
    BY <2>1
<1>1. w[1] = "E" /\ Tail(w) = c
  <2>1. "E" \in Char
    BY DEF Char
  <2> QED
    BY <2>1, PutTail
<1>2. /\ Len(c) = n + Len(rest) /\ Len(rest) \in Nat /\ \A i \in 1..n : c[i] = s[i]
      /\ SubSeq(c, 1, n) = s /\ From(c, n + 1) = rest
  BY Put, LenProperties
<1> HIDE DEF c, w
<1>3. ReadKey(w) = ReadEscape(c)
  BY <1>1 DEF ReadKey
<1>4. n \in Stops(c) /\ \A i \in Stops(c) : n <= i
  <2>1. n \in 1..Len(c) /\ n \in 1..n
    BY <1>0, <1>2
  <2>2. n \in Stops(c)
    BY <1>2, <2>1 DEF Stops, StopsAt
  <2>3. ASSUME NEW i \in Stops(c), ~(n <= i) PROVE FALSE
    <3>1. i \in 1..Len(c) /\ (c[i] \in {"t", "r", "_"} \/ (i > 1 /\ c[i] \in Finals))
      BY DEF Stops
    <3>2. i \in 1..(n - 1) /\ i \in 1..n
      <4>1. i \in Nat /\ i >= 1 /\ i < n
        <5>1. i \in Int /\ i >= 1
          <6>1. Len(c) \in Nat
            BY <1>0, <1>2
          <6>2. i \in 1..Len(c)
            BY <3>1
          <6> QED
            BY <6>1, <6>2
        <5> QED
          BY <1>0, <2>3, <5>1
      <4> HIDE DEF n
      <4> QED
        BY <1>0, <4>1
    <3> QED
      BY <1>2, <3>1, <3>2 DEF StopsAt
  <2> QED
    BY <2>2, <2>3
<1> DEFINE m == CHOOSE i \in Stops(c) : \A j \in Stops(c) : i <= j
<1>5. m = n
  <2>1. m \in Stops(c) /\ \A j \in Stops(c) : m <= j
    BY <1>4
  <2>2. m \in 1..Len(c) /\ m <= n /\ n <= m
    BY <1>4, <2>1 DEF Stops
  <2> HIDE DEF m
  <2> QED
    BY <1>0, <2>2
<1> HIDE DEF m
<1>6. ReadEscape(c) =
        LET seen == SubSeq(c, 1, m)
            behind == From(c, m + 1)
        IN IF c[m] = "t" THEN <<<<"key", "t">>, behind>>
           ELSE IF c[m] = "r" THEN <<<<"alt-enter">>, behind>>
           ELSE IF c[m] = "_" THEN ReadAnswer(behind)
           ELSE IF c[1] # "[" THEN <<<<"escape">>, behind>>
           ELSE IF seen = Opener THEN ReadPaste(behind)
           ELSE <<Sequence(seen), behind>>
  BY <1>4 DEF ReadEscape, m
<1>7. c[m] = s[n] /\ c[1] = s[1] /\ SubSeq(c, 1, m) = s /\ From(c, m + 1) = rest
  <2>1. n \in 1..n /\ 1 \in 1..n
    BY <1>0
  <2> QED
    BY <1>2, <1>5, <2>1
<1>8. ReadEscape(c) = Told(s, rest)
  BY <1>6, <1>7 DEF Told
<1> QED
  BY <1>3, <1>8 DEF w

\* The short items, each read as the event it should be.
LEMMA KeysAreRead ==
    ASSUME NEW rest \in Seq(Char)
    PROVE  /\ ReadKey(<<"x">> \o rest) = <<<<"key", "x">>, rest>>
           /\ ReadKey(<<"r">> \o rest) = <<<<"key", "r">>, rest>>
           /\ ReadKey(<<"E">>) = <<<<"escape">>, <<>>>>
<1>1. ASSUME NEW c \in Char, c # "E" PROVE ReadKey(<<c>> \o rest) = <<<<"key", c>>, rest>>
  <2>1. <<>> \in Seq(Char) /\ <<c>> \o <<>> = <<c>> /\ <<>> \o rest = rest
    BY EmptySeq, ConcatEmptySeq
  <2> DEFINE w == (<<c>> \o <<>>) \o rest
  <2>2. w[1] = c /\ Tail(w) = rest
    BY <2>1, PutTail
  <2> HIDE DEF w
  <2>3. ReadKey(w) = <<<<"key", c>>, rest>>
    BY <1>1, <2>2 DEF ReadKey
  <2> QED
    BY <2>1, <2>3 DEF w
<1>2. "x" \in Char /\ "r" \in Char
  BY DEF Char
<1>3. ReadKey(<<"E">>) = <<<<"escape">>, <<>>>>
  <2>1. <<"E">>[1] = "E" /\ Tail(<<"E">>) = <<>>
    OBVIOUS
  <2>2. Stops(<<>>) = {}
    BY EmptySeq DEF Stops
  <2> QED
    BY <2>1, <2>2 DEF ReadKey, ReadEscape
<1> QED
  BY <1>1, <1>2, <1>3

LEMMA CharsAre ==
    /\ "E" \in Char /\ "[" \in Char /\ "2" \in Char /\ "0" \in Char /\ "1" \in Char /\ "~" \in Char
    /\ "<" \in Char /\ "b" \in Char /\ "A" \in Char /\ "M" \in Char /\ "x" \in Char /\ "r" \in Char
    /\ "t" \in Char
BY DEF Char

LEMMA AnswerIsChar == "_" \in Char
BY DEF Char

LEMMA SequencesAreRead ==
    ASSUME NEW rest \in Seq(Char)
    PROVE  /\ ReadKey(<<"E", "[", "A">> \o rest) = <<<<"up">>, rest>>
           /\ ReadKey(<<"E", "r">> \o rest) = <<<<"alt-enter">>, rest>>
           /\ ReadKey(<<"E", "[", "<", "2", "M">> \o rest) = <<<<"mouse">>, rest>>
<1>1. ReadKey(<<"E", "[", "A">> \o rest) = <<<<"up">>, rest>>
  <2> DEFINE s == <<"[", "A">>
  <2>1. s \in Seq(Char) /\ Len(s) = 2 /\ s[1] = "[" /\ s[2] = "A" /\ <<"E">> \o s = <<"E", "[", "A">>
    <3>1. "E" \in Char /\ "[" \in Char /\ "A" \in Char
      BY CharsAre
    <3>2. s \in Seq(Char) /\ <<"E">> \o s = <<"E", "[", "A">>
      BY <3>1, Two
    <3> QED
      BY <3>2
  <2>2. StopsAt(s, 2) /\ ~StopsAt(s, 1)
    BY <2>1 DEF StopsAt, Finals
  <2>3. Told(s, rest) = <<<<"up">>, rest>>
    <3>1. s # Opener
      BY <2>1 DEF Opener
    <3> QED
      BY <2>1, <3>1 DEF Told, Sequence
  <2> HIDE DEF s
  <2>4. ReadKey((<<"E">> \o s) \o rest) = Told(s, rest)
    <3>1. Len(s) > 0 /\ StopsAt(s, Len(s)) /\ \A i \in 1..(Len(s) - 1) : ~StopsAt(s, i)
      <4>1. \A i \in 1..(2 - 1) : i = 1
        OBVIOUS
      <4> QED
        BY <2>1, <2>2, <4>1
    <3> QED
      BY <2>1, <3>1, EscapeIs
  <2> QED
    BY <2>1, <2>3, <2>4
<1>2. ReadKey(<<"E", "r">> \o rest) = <<<<"alt-enter">>, rest>>
  <2> DEFINE s == <<"r">>
  <2>1. s \in Seq(Char) /\ Len(s) = 1 /\ s[1] = "r" /\ <<"E">> \o s = <<"E", "r">>
    <3>1. "E" \in Char /\ "r" \in Char
      BY CharsAre
    <3>2. s \in Seq(Char) /\ <<"E">> \o s = <<"E", "r">>
      BY <3>1, One
    <3> QED
      BY <3>2
  <2>2. StopsAt(s, 1)
    BY <2>1 DEF StopsAt
  <2>3. Told(s, rest) = <<<<"alt-enter">>, rest>>
    <3> HIDE DEF s
    <3>1. s[Len(s)] = "r"
      BY <2>1
    <3> QED
      BY <3>1 DEF Told
  <2> HIDE DEF s
  <2>4. ReadKey((<<"E">> \o s) \o rest) = Told(s, rest)
    <3>1. Len(s) > 0 /\ StopsAt(s, Len(s)) /\ \A i \in 1..(Len(s) - 1) : ~StopsAt(s, i)
      <4>1. \A i \in 1..(1 - 1) : FALSE
        OBVIOUS
      <4> QED
        BY <2>1, <2>2, <4>1
    <3> QED
      BY <2>1, <3>1, EscapeIs
  <2> QED
    BY <2>1, <2>3, <2>4
<1>3. ReadKey(<<"E", "[", "<", "2", "M">> \o rest) = <<<<"mouse">>, rest>>
  <2> DEFINE s == <<"[", "<", "2", "M">>
  <2>1. /\ s \in Seq(Char) /\ Len(s) = 4 /\ s[1] = "[" /\ s[2] = "<" /\ s[3] = "2" /\ s[4] = "M"
        /\ <<"E">> \o s = <<"E", "[", "<", "2", "M">>
    <3>1. "E" \in Char /\ "[" \in Char /\ "<" \in Char /\ "2" \in Char /\ "M" \in Char
      BY CharsAre
    <3>2. s \in Seq(Char) /\ <<"E">> \o s = <<"E", "[", "<", "2", "M">>
      BY <3>1, Four
    <3> QED
      BY <3>2
  <2>2. StopsAt(s, 4) /\ ~StopsAt(s, 1) /\ ~StopsAt(s, 2) /\ ~StopsAt(s, 3)
    BY <2>1 DEF StopsAt, Finals
  <2>3. Told(s, rest) = <<<<"mouse">>, rest>>
    <3>1. s # Opener /\ s # <<"[", "A">>
      BY <2>1 DEF Opener
    <3> QED
      BY <2>1, <3>1 DEF Told, Sequence
  <2> HIDE DEF s
  <2>4. ReadKey((<<"E">> \o s) \o rest) = Told(s, rest)
    <3>1. Len(s) > 0 /\ StopsAt(s, Len(s)) /\ \A i \in 1..(Len(s) - 1) : ~StopsAt(s, i)
      <4>1. \A i \in 1..(4 - 1) : i = 1 \/ i = 2 \/ i = 3
        OBVIOUS
      <4> QED
        BY <2>1, <2>2, <4>1
    <3> QED
      BY <2>1, <3>1, EscapeIs
  <2> QED
    BY <2>1, <2>3, <2>4
<1> QED
  BY <1>1, <1>2, <1>3

\* An answer of the terminal is swallowed, up to its end.
LEMMA AnswersAreRead ==
    ASSUME NEW rest \in Seq(Char)
    PROVE  ReadKey(<<"E", "_", "x", "E", "b">> \o rest) = <<<<"answer">>, rest>>
<1> DEFINE s == <<"_">>
           a == <<"x", "E", "b">>
           c == a \o rest
           ends == {i \in 2..Len(c) : SubSeq(c, i - 1, i) = <<"E", "b">>}
<1>1. /\ s \in Seq(Char) /\ Len(s) = 1 /\ s[1] = "_" /\ a \in Seq(Char) /\ Len(a) = 3
      /\ a[1] = "x" /\ a[2] = "E" /\ a[3] = "b"
  <2>1. "x" \in Char /\ "E" \in Char /\ "b" \in Char
    BY CharsAre
  <2>2. a \in Seq(Char)
    BY <2>1
  <2>3. s \in Seq(Char)
    BY <2>1, AnswerIsChar, One, Zenon
  <2>4. Len(s) = 1 /\ s[1] = "_" /\ Len(a) = 3 /\ a[1] = "x" /\ a[2] = "E" /\ a[3] = "b"
    OBVIOUS
  <2> QED
    BY <2>2, <2>3, <2>4
<1>11. <<"E">> \in Seq(Char) /\ <<"E">> \o s \in Seq(Char)
  <2>1. "E" \in Char
    BY CharsAre
  <2>2. <<"E">> \in Seq(Char)
    BY <2>1
  <2> QED
    BY <1>1, <2>2, ConcatProperties
<1>12. (<<"E">> \o s) \o a = <<"E", "_", "x", "E", "b">>
  <2>1. \A e, p, q, y \in Char : (<<e>> \o <<p>>) \o <<q, e, y>> = <<e, p, q, e, y>>
    BY OneAndThree
  <2>2. "x" \in Char /\ "E" \in Char /\ "b" \in Char
    BY CharsAre
  <2> QED
    BY <2>1, <2>2, AnswerIsChar, Zenon
<1>2. StopsAt(s, 1)
  BY <1>1 DEF StopsAt
<1> HIDE DEF s, a
<1>3. /\ c \in Seq(Char) /\ Len(c) = 3 + Len(rest) /\ Len(rest) \in Nat
      /\ c[1] = "x" /\ c[2] = "E" /\ c[3] = "b" /\ From(c, 4) = rest
  <2>1. /\ c \in Seq(Char) /\ Len(c) = Len(a) + Len(rest) /\ Len(rest) \in Nat
        /\ \A i \in 1..Len(a) : c[i] = a[i]
        /\ From(c, Len(a) + 1) = rest
    <3>1. a \in Seq(Char)
      BY <1>1
    <3> QED
      BY <3>1, Put, LenProperties
  <2>2. 1 \in 1..3 /\ 2 \in 1..3 /\ 3 \in 1..3
    OBVIOUS
  <2> HIDE DEF c
  <2>3. c[1] = a[1] /\ c[2] = a[2] /\ c[3] = a[3] /\ Len(a) = 3
    BY <1>1, <2>1, <2>2
  <2>4. Len(a) + 1 = 4
    BY <2>3
  <2> QED
    BY <1>1, <2>1, <2>3, <2>4
<1>4. ReadKey((<<"E">> \o s) \o c) = Told(s, c)
  <2> HIDE DEF c, ends
  <2>1. Len(s) > 0 /\ StopsAt(s, Len(s)) /\ \A i \in 1..(Len(s) - 1) : ~StopsAt(s, i)
    <3>1. \A i \in 1..(1 - 1) : FALSE
      OBVIOUS
    <3>2. Len(s) = 1
      BY <1>1
    <3>3. Len(s) > 0
      BY <3>2
    <3> QED
      BY <1>2, <3>1, <3>2, <3>3
  <2> QED
    BY <1>1, <1>3, <2>1, EscapeIs
<1>5. Told(s, c) = ReadAnswer(c)
  <2>1. s[Len(s)] = "_"
    BY <1>1
  <2> HIDE DEF c
  <2> QED
    BY <2>1 DEF Told
<1>6. (<<"E">> \o s) \o c = <<"E", "_", "x", "E", "b">> \o rest
  <2> DEFINE t == <<"E">> \o s
  <2>1. t \in Seq(Char) /\ a \in Seq(Char)
    BY <1>1, <1>11
  <2> HIDE DEF t
  <2>2. (t \o a) \o rest = t \o (a \o rest)
    <3>1. Regroups(t, a, rest)
      BY <2>1, Regrouped
    <3> QED
      BY <3>1 DEF Regroups
  <2> QED
    BY <1>12, <2>2 DEF t
<1> HIDE DEF c
<1>7. ASSUME NEW i \in 2..Len(c)
      PROVE  SubSeq(c, i - 1, i) = <<c[i - 1], c[i]>>
  <2> DEFINE u == SubSeq(c, i - 1, i)
             h == <<c[i - 1], c[i]>>
  <2>1. /\ Len(c) \in Nat /\ i - 1 \in Int /\ i \in Int
        /\ c[i - 1] \in Char /\ c[i] \in Char /\ \A j \in (i - 1)..i : c[j] \in Char
    <3>1. Len(c) \in Nat
      BY <1>3
    <3>2. i \in Nat /\ i - 1 \in 1..Len(c) /\ i \in 1..Len(c) /\ \A j \in (i - 1)..i : j \in 1..Len(c)
      BY <3>1
    <3> QED
      BY <1>3, <3>1, <3>2, ElementOfSeq
  <2>2. /\ u \in Seq(Char) /\ Len(u) = i - (i - 1) + 1
        /\ \A j \in 1..(i - (i - 1) + 1) : u[j] = c[(i - 1) + j - 1]
    BY <2>1, SubSeqProperties
  <2>3. i - (i - 1) + 1 = 2 /\ (i - 1) + 1 - 1 = i - 1 /\ (i - 1) + 2 - 1 = i /\ 1 \in 1..2 /\ 2 \in 1..2
    BY <2>1
  <2>4. Len(u) = 2 /\ u[1] = c[i - 1] /\ u[2] = c[i]
    BY <2>2, <2>3
  <2>5. h \in Seq(Char) /\ Len(h) = 2 /\ h[1] = c[i - 1] /\ h[2] = c[i]
    BY <2>1
  <2>6. \A j \in 1..2 : j = 1 \/ j = 2
    OBVIOUS
  <2> HIDE DEF u, h
  <2>7. \A j \in 1..Len(u) : u[j] = h[j]
    BY <2>4, <2>5, <2>6
  <2>8. u = h
    BY <2>2, <2>4, <2>5, <2>7, SeqEqual
  <2> QED
    BY <2>8 DEF u, h
<1>8. 3 \in ends /\ \A i \in ends : 3 <= i
  <2>1. SubSeq(c, 2, 3) = <<"E", "b">>
    BY <1>3, <1>7
  <2>2. SubSeq(c, 1, 2) # <<"E", "b">>
    BY <1>3, <1>7
  <2>3. \A i \in ends : i \in Nat /\ i >= 2 /\ i # 2
    BY <2>2
  <2>4. 3 \in 2..Len(c)
    BY <1>3
  <2> QED
    BY <2>1, <2>3, <2>4
<1> DEFINE n == CHOOSE i \in ends : \A j \in ends : i <= j
<1>9. n = 3
  <2>1. n \in ends /\ \A j \in ends : n <= j
    BY <1>8
  <2>2. n <= 3 /\ 3 <= n /\ n \in 2..Len(c)
    BY <1>8, <2>1
  <2> HIDE DEF n, ends
  <2> QED
    BY <1>3, <2>2
<1>10. ReadAnswer(c) = <<<<"answer">>, From(c, 1 + n)>>
  BY <1>8 DEF ReadAnswer
<1> HIDE DEF n, ends
<1>13. 1 + n = 4
  BY <1>9
<1> QED
  BY <1>3, <1>4, <1>5, <1>6, <1>10, <1>13

------------------------------------------------------------------------------
\* A sequence in two parts.
LEMMA PartsMeet ==
    ASSUME NEW T, NEW t \in Seq(T), NEW i \in Nat, NEW k \in Nat, 1 <= i, i <= k, k <= Len(t)
    PROVE  SubSeq(t, i, k) \o SubSeq(t, k + 1, Len(t)) = SubSeq(t, i, Len(t))
<1>1. Len(t) \in Nat
  BY LenProperties
<1>2. i \in 1..(Len(t) + 1) /\ k \in (i - 1)..Len(t) /\ Len(t) \in k..Len(t)
  BY <1>1
<1> QED
  BY <1>2, ConcatAdjacentSubSeq

\* A last part that begins with one element, and one of nothing.
LEMMA SmallParts ==
    ASSUME NEW T, NEW t \in Seq(T)
    PROVE  /\ \A i \in 1..Len(t) : SubSeq(t, i, Len(t)) = <<t[i]>> \o SubSeq(t, i + 1, Len(t))
           /\ SubSeq(t, Len(t) + 1, Len(t)) = <<>>
<1>1. Len(t) \in Nat
  BY LenProperties
<1>2. ASSUME NEW i \in 1..Len(t)
      PROVE  SubSeq(t, i, Len(t)) = <<t[i]>> \o SubSeq(t, i + 1, Len(t))
  <2>1. Len(t) \in i..Len(t)
    BY <1>1
  <2> QED
    BY <2>1, SubSeqRecursiveFirst
<1>3. SubSeq(t, Len(t) + 1, Len(t)) = <<>>
  <2>1. Len(t) \in Int /\ Len(t) + 1 \in Int /\ Len(t) < Len(t) + 1
    BY <1>1
  <2> QED
    BY <2>1, SubSeqEmpty
<1> QED
  BY <1>2, <1>3

------------------------------------------------------------------------------
(* A paste is read *)

\* One step of ReadPaste: the text from the i-th character on, and what is left, by the ones behind.
PasteAt(c, f, i) ==
    IF i > Len(c) THEN <<<<>>, <<>>>>
    ELSE IF c[i] # "E" THEN <<<<c[i]>> \o f[i + 1][1], f[i + 1][2]>>
    ELSE IF Behind(c, i, 5) = Closer THEN <<<<>>, From(c, i + 6)>>
    ELSE IF i + 5 > Len(c) THEN <<<<>>, <<>>>>
    ELSE <<SubSeq(c, i, i + 5) \o f[i + 6][1], f[i + 6][2]>>

Pastes(c, f) == f = [i \in 1..(Len(c) + 1) |-> PasteAt(c, f, i)]

LEMMA PasteAtLooksBehind ==
    ASSUME NEW T, NEW c \in Seq(T), NEW f, NEW g, NEW i \in 1..(Len(c) + 1),
           \A j \in 1..(Len(c) + 1) : j > i => f[j] = g[j]
    PROVE  PasteAt(c, f, i) = PasteAt(c, g, i)
<1>0. Len(c) \in Nat /\ i \in Nat /\ i >= 1
  BY LenProperties
<1>1. ~(i > Len(c)) => f[i + 1] = g[i + 1]
  <2> SUFFICES ASSUME ~(i > Len(c)) PROVE f[i + 1] = g[i + 1]
    OBVIOUS
  <2>1. i + 1 \in 1..(Len(c) + 1) /\ i + 1 > i
    BY <1>0
  <2> QED
    BY <2>1
<1>2. ~(i + 5 > Len(c)) => f[i + 6] = g[i + 6]
  <2> SUFFICES ASSUME ~(i + 5 > Len(c)) PROVE f[i + 6] = g[i + 6]
    OBVIOUS
  <2>1. i + 6 \in 1..(Len(c) + 1) /\ i + 6 > i
    BY <1>0
  <2> QED
    BY <2>1
<1> QED
  BY <1>1, <1>2 DEF PasteAt

LEMMA PasteExists ==
    ASSUME NEW T, NEW c \in Seq(T)
    PROVE  \E f : Pastes(c, f)
<1> DEFINE N == Len(c) + 1
           Is(k, f) == \A i \in 1..N : i > N - k => f[i] = PasteAt(c, f, i)
           S == {k \in 0..N : \E f : Is(k, f)}
<1>1. N \in Nat /\ Len(c) \in Nat
  BY LenProperties
<1>2. 0 \in S
  <2>1. Is(0, <<>>)
    BY <1>1
  <2> HIDE DEF Is, N
  <2> QED
    BY <1>1, <2>1
<1>3. ASSUME NEW k \in 1..N, k - 1 \in S
      PROVE  k \in S
  <2> DEFINE m == N - k + 1
  <2>1. PICK f : Is(k - 1, f)
    BY <1>3
  <2>2. m \in 1..N /\ N - (k - 1) = m
    BY <1>1
  <2> DEFINE a == PasteAt(c, f, m)
             g == [i \in 1..N |-> IF i = m THEN a ELSE f[i]]
  <2> HIDE DEF a
  <2>4. g[m] = a /\ \A j \in 1..N : j # m => g[j] = f[j]
    BY <2>2
  <2> HIDE DEF g
  <2>5. ASSUME NEW i \in 1..N, i > N - k
        PROVE  g[i] = PasteAt(c, g, i)
    <3>1. i >= m
      BY <1>1, <2>5
    <3>2. \A j \in 1..N : j > i => f[j] = g[j]
      BY <2>2, <2>4, <3>1
    <3>3. PasteAt(c, f, i) = PasteAt(c, g, i)
      BY <3>2, PasteAtLooksBehind
    <3>4. CASE i = m
      BY <2>4, <3>3, <3>4 DEF a
    <3>5. CASE i # m
      <4>1. i > N - (k - 1)
        BY <2>2, <3>1, <3>5
      <4> QED
        BY <2>1, <2>4, <3>3, <3>5, <4>1
    <3> QED
      BY <3>4, <3>5
  <2>6. Is(k, g)
    BY <2>5
  <2> HIDE DEF Is
  <2> QED
    BY <1>1, <2>6
<1>4. 0..N \subseteq S
  <2> HIDE DEF S, N
  <2> QED
    BY <1>1, <1>2, <1>3, UpTo
<1>5. PICK f : Is(N, f)
  <2>1. N \in 0..N
    BY <1>1
  <2> QED
    BY <1>4, <2>1
<1> DEFINE g == [i \in 1..N |-> f[i]]
<1>6. ASSUME NEW i \in 1..N PROVE f[i] = PasteAt(c, g, i)
  <2>1. f[i] = PasteAt(c, f, i)
    <3>1. i > N - N
      BY <1>1
    <3> QED
      BY <1>5, <3>1
  <2>2. \A j \in 1..N : j > i => f[j] = g[j]
    OBVIOUS
  <2> HIDE DEF g
  <2>3. PasteAt(c, f, i) = PasteAt(c, g, i)
    BY <2>2, PasteAtLooksBehind
  <2> QED
    BY <2>1, <2>3
<1>7. g = [i \in 1..N |-> PasteAt(c, g, i)]
  <2> DEFINE h == [i \in 1..N |-> PasteAt(c, g, i)]
  <2>1. \A i \in 1..N : g[i] = h[i]
    BY <1>6
  <2> QED
    BY <2>1
<1> QED
  BY <1>7 DEF Pastes

LEMMA ReadPasteIs ==
    ASSUME NEW T, NEW c \in Seq(T)
    PROVE  \E f : Pastes(c, f) /\ ReadPaste(c) = <<<<"paste", f[1][1]>>, f[1][2]>>
<1> DEFINE f == CHOOSE g : Pastes(c, g)
           h == CHOOSE g : g = [i \in 1..(Len(c) + 1) |-> PasteAt(c, g, i)]
<1>1. Pastes(c, f)
  BY PasteExists
<1>2. f = h
  BY DEF Pastes
<1>3. ReadPaste(c) = <<<<"paste", h[1][1]>>, h[1][2]>>
  BY DEF ReadPaste, PasteAt
<1> QED
  BY <1>1, <1>2, <1>3

\* What may be pasted: characters, no closer among them, and no Escape near another one or the end.
Pasteable(text) ==
    /\ text \in Seq(Char)
    /\ \A i \in 1..(Len(text) - 5) : text[i] = "E" => SubSeq(text, i + 1, i + 5) # Closer
    /\ \A i \in 1..Len(text) : text[i] = "E" => i + 5 <= Len(text)

\* c is the text, the closer and rest.
Encloses(c, text, rest) ==
    /\ c \in Seq(Char) /\ Len(c) = Len(text) + 6 + Len(rest)
    /\ \A i \in 1..Len(text) : c[i] = text[i]
    /\ c[Len(text) + 1] = "E"
    /\ SubSeq(c, Len(text) + 2, Len(text) + 6) = Closer
    /\ From(c, Len(text) + 7) = rest

\* The parts of c within the text.
LEMMA WithinText ==
    ASSUME NEW text \in Seq(Char), NEW rest \in Seq(Char), NEW c, Encloses(c, text, rest),
           NEW i \in Nat, NEW k \in Nat, 1 <= i, k <= Len(text)
    PROVE  SubSeq(c, i, k) = SubSeq(text, i, k)
<1> DEFINE a == SubSeq(c, i, k)
           b == SubSeq(text, i, k)
<1>0. Len(text) \in Nat /\ i \in Int /\ k \in Int /\ \A j \in i..k : j \in 1..Len(text)
  BY LenProperties
<1>1. \A j \in i..k : c[j] = text[j] /\ c[j] \in Char /\ text[j] \in Char
  BY <1>0, ElementOfSeq DEF Encloses
<1>2. /\ a \in Seq(Char) /\ Len(a) = (IF i <= k THEN k - i + 1 ELSE 0)
      /\ \A j \in 1..(k - i + 1) : a[j] = c[i + j - 1]
  BY <1>0, <1>1, SubSeqProperties
<1>3. /\ b \in Seq(Char) /\ Len(b) = (IF i <= k THEN k - i + 1 ELSE 0)
      /\ \A j \in 1..(k - i + 1) : b[j] = text[i + j - 1]
  BY <1>0, <1>1, SubSeqProperties
<1> HIDE DEF a, b
<1>4. \A j \in 1..Len(a) : a[j] = b[j]
  <2> SUFFICES ASSUME NEW j \in 1..Len(a) PROVE a[j] = b[j]
    OBVIOUS
  <2>1. j \in 1..(k - i + 1) /\ i + j - 1 \in i..k
    BY <1>0, <1>2
  <2> QED
    BY <1>1, <1>2, <1>3, <2>1
<1>5. a = b
  BY <1>2, <1>3, <1>4, SeqEqual
<1> QED
  BY <1>5 DEF a, b

\* From the i-th character on, f is what is left of the text.
Rests(f, text, rest, i) == f[i] = <<SubSeq(text, i, Len(text)), rest>>

\* What one step of the reading yields, at the closer and at a character of the text.
LEMMA PasteStep ==
    ASSUME NEW text, Pasteable(text), NEW rest \in Seq(Char), NEW c, Encloses(c, text, rest),
           NEW f, Pastes(c, f)
    PROVE  /\ f[Len(text) + 1] = <<<<>>, rest>>
           /\ \A i \in 1..Len(text) :
                (\A j \in 1..(Len(text) + 1) : j > i => Rests(f, text, rest, j)) => Rests(f, text, rest, i)
<1> DEFINE m == Len(text)
           n == Len(rest)
<1>0. m \in Nat /\ n \in Nat /\ Len(c) = m + 6 + n /\ text \in Seq(Char)
  BY LenProperties DEF Pasteable, Encloses
<1> HIDE DEF m, n
<1>1. \A i \in 1..(m + 6 + n + 1) : f[i] = PasteAt(c, f, i)
  BY <1>0 DEF Pastes
<1>2. f[m + 1] = <<<<>>, rest>>
  <2>1. m + 1 \in 1..(m + 6 + n + 1) /\ ~(m + 1 > Len(c))
    BY <1>0
  <2>2. c[m + 1] = "E" /\ Behind(c, m + 1, 5) = Closer /\ From(c, (m + 1) + 6) = rest
    <3>1. /\ (m + 1) + 1 = m + 2 /\ (m + 1) + 6 = m + 7
          /\ (IF (m + 1) + 5 < Len(c) THEN (m + 1) + 5 ELSE Len(c)) = m + 6
      BY <1>0
    <3>2. c[m + 1] = "E" /\ SubSeq(c, m + 2, m + 6) = Closer /\ From(c, m + 7) = rest
      BY DEF Encloses, m
    <3> QED
      BY <3>1, <3>2 DEF Behind
  <2>3. PasteAt(c, f, m + 1) = <<<<>>, rest>>
    BY <2>1, <2>2 DEF PasteAt
  <2> QED
    BY <1>1, <2>1, <2>3
<1>3. ASSUME NEW i \in 1..m, \A j \in 1..(m + 1) : j > i => f[j] = <<SubSeq(text, j, m), rest>>
      PROVE  f[i] = <<SubSeq(text, i, m), rest>>
  <2>1. i \in Nat /\ 1 <= i /\ i <= m /\ i \in 1..(m + 6 + n + 1) /\ ~(i > Len(c))
    BY <1>0
  <2>2. c[i] = text[i] /\ f[i] = PasteAt(c, f, i)
    BY <1>1, <2>1 DEF Encloses, m
  <2>3. CASE c[i] # "E"
    <3>1. i + 1 \in 1..(m + 1) /\ i + 1 > i
      BY <1>0, <2>1
    <3>2. f[i + 1] = <<SubSeq(text, i + 1, m), rest>>
      BY <1>3, <3>1
    <3>3. f[i] = <<<<text[i]>> \o SubSeq(text, i + 1, m), rest>>
      <4>1. PasteAt(c, f, i) = <<<<c[i]>> \o f[i + 1][1], f[i + 1][2]>>
        BY <2>1, <2>3 DEF PasteAt
      <4> DEFINE p == SubSeq(text, i + 1, m)
      <4> HIDE DEF p
      <4>2. f[i + 1] = <<p, rest>>
        BY <3>2 DEF p
      <4>3. f[i + 1][1] = p /\ f[i + 1][2] = rest
        BY <4>2
      <4> QED
        BY <2>2, <4>1, <4>3 DEF p
    <3>4. SubSeq(text, i, m) = <<text[i]>> \o SubSeq(text, i + 1, m)
      BY <1>0, SmallParts DEF m
    <3> QED
      BY <3>3, <3>4
  <2>4. CASE c[i] = "E"
    <3>1. i + 5 <= m
      BY <2>2, <2>4 DEF Pasteable, m
    <3>2. i \in 1..(m - 5) /\ i + 5 \in Nat /\ i + 1 \in Nat /\ 1 <= i + 1 /\ 1 <= i
      BY <1>0, <2>1, <3>1
    <3>3. Behind(c, i, 5) # Closer
      <4>1. (IF i + 5 < Len(c) THEN i + 5 ELSE Len(c)) = i + 5
        BY <1>0, <2>1, <3>1
      <4>2. SubSeq(c, i + 1, i + 5) = SubSeq(text, i + 1, i + 5)
        <5>1. i + 5 <= Len(text)
          BY <3>1 DEF m
        <5> QED
          BY <1>0, <3>2, <5>1, WithinText
      <4>3. SubSeq(text, i + 1, i + 5) # Closer
        BY <2>2, <2>4, <3>2 DEF Pasteable, m
      <4> QED
        BY <4>1, <4>2, <4>3 DEF Behind
    <3>4. ~(i + 5 > Len(c))
      BY <1>0, <2>1, <3>1
    <3>5. SubSeq(c, i, i + 5) = SubSeq(text, i, i + 5)
      <4>1. i + 5 <= Len(text)
        BY <3>1 DEF m
      <4>2. \A x, k \in Nat : 1 <= x /\ k <= Len(text) => SubSeq(c, x, k) = SubSeq(text, x, k)
        BY <1>0, WithinText
      <4> QED
        BY <3>2, <4>1, <4>2
    <3>6. f[i + 6] = <<SubSeq(text, i + 6, m), rest>>
      <4>1. i + 6 \in 1..(m + 1) /\ i + 6 > i
        BY <1>0, <2>1, <3>1
      <4> QED
        BY <1>3, <4>1
    <3>7. f[i] = <<SubSeq(text, i, i + 5) \o SubSeq(text, i + 6, m), rest>>
      <4>1. PasteAt(c, f, i) = <<SubSeq(c, i, i + 5) \o f[i + 6][1], f[i + 6][2]>>
        BY <2>1, <2>4, <3>3, <3>4 DEF PasteAt
      <4> DEFINE p == SubSeq(text, i + 6, m)
      <4> HIDE DEF p
      <4>2. f[i + 6] = <<p, rest>>
        BY <3>6 DEF p
      <4>3. f[i + 6][1] = p /\ f[i + 6][2] = rest
        BY <4>2
      <4> QED
        BY <2>2, <3>5, <4>1, <4>3 DEF p
    <3>8. SubSeq(text, i, i + 5) \o SubSeq(text, i + 6, m) = SubSeq(text, i, m)
      <4>1. i <= i + 5 /\ (i + 5) + 1 = i + 6
        BY <2>1
      <4>2. SubSeq(text, i, i + 5) \o SubSeq(text, (i + 5) + 1, m) = SubSeq(text, i, m)
        BY <1>0, <2>1, <3>1, <3>2, <4>1, PartsMeet DEF m
      <4> QED
        BY <4>1, <4>2
    <3> QED
      BY <3>7, <3>8
  <2> QED
    BY <2>3, <2>4
<1> QED
  BY <1>2, <1>3 DEF m, Rests

\* A paste is one event, with all of its text.
LEMMA TextIsRead ==
    ASSUME NEW text, Pasteable(text), NEW rest \in Seq(Char), NEW c, Encloses(c, text, rest)
    PROVE  ReadPaste(c) = <<<<"paste", text>>, rest>>
<1> DEFINE m == Len(text)
<1>0. m \in Nat /\ text \in Seq(Char) /\ c \in Seq(Char)
  BY LenProperties DEF Pasteable, Encloses
<1>1. PICK f : Pastes(c, f) /\ ReadPaste(c) = <<<<"paste", f[1][1]>>, f[1][2]>>
  BY <1>0, ReadPasteIs
<1>7. \A i \in 1..m : (\A j \in 1..(m + 1) : j > i => Rests(f, text, rest, j)) => Rests(f, text, rest, i)
  BY <1>1, PasteStep
<1> HIDE DEF m
<1> DEFINE S == {k \in 0..m : \A i \in 1..(m + 1) : i > m - k => Rests(f, text, rest, i)}
<1>2. 0 \in S
  <2>1. f[m + 1] = <<SubSeq(text, m + 1, m), rest>>
    <3>1. f[m + 1] = <<<<>>, rest>>
      BY <1>1, PasteStep DEF m
    <3>2. SubSeq(text, m + 1, m) = <<>>
      BY <1>0, SmallParts DEF m
    <3> QED
      BY <3>1, <3>2
  <2>2. \A i \in 1..(m + 1) : i > m - 0 => i = m + 1
    BY <1>0
  <2>3. 0 \in 0..m
    BY <1>0
  <2>4. Rests(f, text, rest, m + 1)
    BY <2>1 DEF Rests, m
  <2> QED
    BY <2>2, <2>3, <2>4
<1>3. ASSUME NEW k \in 1..m, k - 1 \in S PROVE k \in S
  <2> SUFFICES ASSUME NEW i \in 1..(m + 1), i > m - k PROVE Rests(f, text, rest, i)
    BY <1>0
  <2>1. CASE i > m - (k - 1)
    BY <1>3, <2>1
  <2>2. CASE ~(i > m - (k - 1))
    <3>1. i \in 1..m /\ \A j \in 1..(m + 1) : j > i => j > m - (k - 1)
      BY <1>0, <2>2
    <3>2. \A j \in 1..(m + 1) : j > i => Rests(f, text, rest, j)
      <4> SUFFICES ASSUME NEW j \in 1..(m + 1), j > i PROVE Rests(f, text, rest, j)
        OBVIOUS
      <4>1. j > m - (k - 1)
        BY <3>1
      <4> QED
        BY <1>3, <4>1
    <3> QED
      BY <1>7, <3>1, <3>2
  <2> QED
    BY <2>1, <2>2
<1>4. m \in S
  <2> HIDE DEF S
  <2>1. 0..m \subseteq S
    BY <1>0, <1>2, <1>3, UpTo
  <2> QED
    BY <1>0, <2>1
<1>5. f[1] = <<text, rest>>
  <2>1. 1 \in 1..(m + 1) /\ 1 > m - m
    BY <1>0
  <2>2. f[1] = <<SubSeq(text, 1, m), rest>>
    BY <1>4, <2>1 DEF Rests, m
  <2>3. SubSeq(text, 1, m) = text
    BY <1>0, SubSeqFull DEF m
  <2> QED
    BY <2>2, <2>3
<1>6. f[1][1] = text /\ f[1][2] = rest
  BY <1>5
<1> QED
  BY <1>1, <1>6

\* The characters of a paste.
Wrapped(text) == <<"E">> \o Opener \o text \o <<"E">> \o Closer

LEMMA FrameOfPaste ==
    /\ <<"E">> \in Seq(Char) /\ Opener \in Seq(Char) /\ Closer \in Seq(Char)
    /\ Len(<<"E">>) = 1 /\ Len(Opener) = 5 /\ Len(Closer) = 5
    /\ <<"E">>[1] = "E"
    /\ Opener[1] = "[" /\ Opener[2] = "2" /\ Opener[3] = "0" /\ Opener[4] = "0" /\ Opener[5] = "~"
<1>1. "E" \in Char /\ "[" \in Char /\ "2" \in Char /\ "0" \in Char /\ "1" \in Char /\ "~" \in Char
  BY CharsAre
<1>2. <<"E">> \in Seq(Char)
  BY <1>1, One
<1>4. Opener \in Seq(Char) /\ Closer \in Seq(Char)
  BY <1>1 DEF Opener, Closer
<1> QED
  BY <1>2, <1>4 DEF Opener, Closer

\* A paste with more behind it is the Escape, the opener, and a text with the closer behind it.
LEMMA WrappedIs ==
    ASSUME NEW text \in Seq(Char), NEW rest \in Seq(Char)
    PROVE  \E c : /\ Wrapped(text) \o rest = (<<"E">> \o Opener) \o c
                  /\ Encloses(c, text, rest)
                  /\ Wrapped(text) \in Seq(Char) /\ Len(Wrapped(text)) = Len(text) + 12
                  /\ \A i \in 1..Len(text) : Wrapped(text)[i + 6] = text[i]
                  /\ Wrapped(text)[Len(text) + 7] = "E"
<1> DEFINE e == <<"E">>
           m == Len(text)
           n == Len(rest)
           o == e \o Opener
           a == text \o e
           b == a \o Closer
           c == b \o rest
           w1 == o \o text
           w2 == w1 \o e
           w == w2 \o Closer
<1>1. /\ e \in Seq(Char) /\ Len(e) = 1 /\ e[1] = "E"
      /\ Opener \in Seq(Char) /\ Len(Opener) = 5 /\ Closer \in Seq(Char) /\ Len(Closer) = 5
  BY FrameOfPaste
<1>2. m \in Nat /\ n \in Nat
  BY LenProperties
<1>0. \A x, y \in Seq(Char) :
        /\ x \o y \in Seq(Char) /\ Len(x \o y) = Len(x) + Len(y)
        /\ \A i \in 1..Len(x) : (x \o y)[i] = x[i]
        /\ \A i \in 1..Len(y) : (x \o y)[Len(x) + i] = y[i]
        /\ SubSeq(x \o y, 1, Len(x)) = x
        /\ From(x \o y, Len(x) + 1) = y
  BY Put
<1>3. Wrapped(text) = w
  BY DEF Wrapped
<1> HIDE DEF e
<1>4. o \in Seq(Char) /\ Len(o) = 6
  <2>1. o \in Seq(Char) /\ Len(o) = Len(e) + Len(Opener)
    BY <1>1, <1>0
  <2> QED
    BY <1>1, <2>1
<1>5. /\ a \in Seq(Char) /\ Len(a) = m + 1 /\ (\A i \in 1..m : a[i] = text[i]) /\ a[m + 1] = "E"
  <2>1. /\ a \in Seq(Char) /\ Len(a) = m + Len(e) /\ (\A i \in 1..m : a[i] = text[i])
        /\ \A i \in 1..Len(e) : a[m + i] = e[i]
    BY <1>1, <1>0
  <2>2. 1 \in 1..1
    OBVIOUS
  <2> HIDE DEF a
  <2> QED
    BY <1>1, <2>1, <2>2
<1> HIDE DEF a, o, m, n
<1>6. /\ b \in Seq(Char) /\ Len(b) = m + 6 /\ (\A i \in 1..(m + 1) : b[i] = a[i])
      /\ From(b, m + 2) = Closer
  <2>1. /\ b \in Seq(Char) /\ Len(b) = Len(a) + Len(Closer) /\ (\A i \in 1..Len(a) : b[i] = a[i])
        /\ From(b, Len(a) + 1) = Closer
    BY <1>1, <1>5, <1>0
  <2>2. Len(a) + 1 = m + 2 /\ Len(a) + Len(Closer) = m + 6
    BY <1>1, <1>2, <1>5
  <2> QED
    BY <1>5, <2>1, <2>2
<1> HIDE DEF b
<1>7. /\ c \in Seq(Char) /\ Len(c) = m + 6 + n /\ (\A i \in 1..(m + 6) : c[i] = b[i])
      /\ SubSeq(c, 1, m + 6) = b /\ From(c, m + 7) = rest
  <2>1. /\ c \in Seq(Char) /\ Len(c) = Len(b) + n /\ (\A i \in 1..Len(b) : c[i] = b[i])
        /\ SubSeq(c, 1, Len(b)) = b /\ From(c, Len(b) + 1) = rest
    BY <1>6, <1>0 DEF n
  <2>2. Len(b) + 1 = m + 7
    BY <1>2, <1>6
  <2> HIDE DEF c
  <2> QED
    BY <1>6, <2>1, <2>2
<1> HIDE DEF c
<1>8. SubSeq(c, m + 2, m + 6) = Closer
  <2> DEFINE u == SubSeq(c, m + 2, m + 6)
             v == SubSeq(b, m + 2, m + 6)
  <2>1. v = Closer
    BY <1>6 DEF From
  <2>2. /\ m + 2 \in Int /\ m + 6 \in Int /\ m + 2 <= m + 6
        /\ \A j \in (m + 2)..(m + 6) : j \in 1..(m + 6)
    BY <1>2
  <2>3. \A j \in (m + 2)..(m + 6) : c[j] = b[j] /\ b[j] \in Char
    BY <1>6, <1>7, <2>2, ElementOfSeq
  <2>4. /\ u \in Seq(Char) /\ Len(u) = IF m + 2 <= m + 6 THEN (m + 6) - (m + 2) + 1 ELSE 0
        /\ \A j \in 1..((m + 6) - (m + 2) + 1) : u[j] = c[(m + 2) + j - 1]
    BY <2>2, <2>3, SubSeqProperties
  <2>5. /\ v \in Seq(Char) /\ Len(v) = IF m + 2 <= m + 6 THEN (m + 6) - (m + 2) + 1 ELSE 0
        /\ \A j \in 1..((m + 6) - (m + 2) + 1) : v[j] = b[(m + 2) + j - 1]
    BY <2>2, <2>3, SubSeqProperties
  <2>6. (m + 6) - (m + 2) + 1 = 5 /\ \A j \in 1..5 : (m + 2) + j - 1 \in (m + 2)..(m + 6)
    BY <1>2
  <2> HIDE DEF u, v
  <2>7. Len(u) = 5 /\ Len(v) = 5 /\ \A j \in 1..5 : u[j] = v[j]
    BY <2>2, <2>3, <2>4, <2>5, <2>6
  <2>8. u = v
    BY <2>4, <2>5, <2>7, SeqEqual
  <2> QED
    BY <2>1, <2>8 DEF u
<1>9. Encloses(c, text, rest)
  <2>1. Len(c) = Len(text) + 6 + Len(rest)
    BY <1>7 DEF m, n
  <2>2. \A i \in 1..m : c[i] = text[i]
    <3>1. \A i \in 1..m : i \in 1..(m + 1) /\ i \in 1..(m + 6)
      BY <1>2
    <3> QED
      BY <1>5, <1>6, <1>7, <3>1
  <2>3. c[m + 1] = "E"
    <3>1. m + 1 \in 1..(m + 1) /\ m + 1 \in 1..(m + 6)
      BY <1>2
    <3> QED
      BY <1>5, <1>6, <1>7, <3>1
  <2> QED
    BY <1>7, <1>8, <2>1, <2>2, <2>3 DEF Encloses, m
<1>10. /\ w1 \in Seq(Char) /\ Len(w1) = m + 6
       /\ \A i \in 1..m : w1[6 + i] = text[i]
  <2>1. /\ w1 \in Seq(Char) /\ Len(w1) = Len(o) + Len(text)
        /\ \A i \in 1..Len(text) : w1[Len(o) + i] = text[i]
    BY <1>4, <1>0
  <2> HIDE DEF w1
  <2>2. Len(o) + Len(text) = m + 6
    BY <1>2, <1>4 DEF m
  <2> QED
    BY <1>4, <2>1, <2>2 DEF m
<1> HIDE DEF w1
<1>11. /\ w2 \in Seq(Char) /\ Len(w2) = m + 7
       /\ (\A i \in 1..(m + 6) : w2[i] = w1[i]) /\ w2[m + 7] = "E"
  <2>1. /\ w2 \in Seq(Char) /\ Len(w2) = Len(w1) + Len(e)
        /\ (\A i \in 1..Len(w1) : w2[i] = w1[i])
        /\ \A i \in 1..Len(e) : w2[Len(w1) + i] = e[i]
    BY <1>1, <1>10, <1>0
  <2> HIDE DEF w2
  <2>2. Len(w1) + Len(e) = m + 7 /\ 1 \in 1..Len(e) /\ Len(w1) + 1 = m + 7
    BY <1>1, <1>2, <1>10
  <2>3. w2[Len(w1) + 1] = e[1]
    BY <2>1, <2>2
  <2> QED
    BY <1>1, <1>10, <2>1, <2>2, <2>3
<1> HIDE DEF w2
<1>12. /\ w \in Seq(Char) /\ Len(w) = m + 12
       /\ \A i \in 1..(m + 7) : w[i] = w2[i]
  <2>1. /\ w \in Seq(Char) /\ Len(w) = Len(w2) + Len(Closer)
        /\ \A i \in 1..Len(w2) : w[i] = w2[i]
    BY <1>1, <1>11, <1>0
  <2> HIDE DEF w
  <2> QED
    BY <1>1, <1>2, <1>11, <2>1
<1>13. w \o rest = o \o c
  <2>1. o \in Seq(Char) /\ text \in Seq(Char) /\ e \in Seq(Char) /\ Closer \in Seq(Char)
    BY <1>1, <1>4
  <2> HIDE DEF o, e
  <2>2. WrapRegroups(o, text, e, Closer, rest)
    BY <2>1, WrapRegrouped
  <2>3. w \o rest = (((o \o text) \o e) \o Closer) \o rest
    BY DEF w, w2, w1
  <2>4. c = ((text \o e) \o Closer) \o rest
    BY DEF a, b, c
  <2> HIDE DEF w, c
  <2> QED
    BY <2>2, <2>3, <2>4 DEF WrapRegroups
<1> HIDE DEF w
<1>14. \A i \in 1..m : w[i + 6] = text[i]
  <2> SUFFICES ASSUME NEW i \in 1..m PROVE w[i + 6] = text[i]
    OBVIOUS
  <2>1. i + 6 \in 1..(m + 6) /\ i + 6 \in 1..(m + 7) /\ 6 + i = i + 6
    BY <1>2
  <2>2. w[i + 6] = w2[i + 6] /\ w2[i + 6] = w1[i + 6] /\ w1[6 + i] = text[i]
    BY <1>10, <1>11, <1>12, <2>1
  <2> QED
    BY <2>1, <2>2
<1>15. w[m + 7] = "E"
  <2>1. m + 7 \in 1..(m + 7)
    BY <1>2
  <2> QED
    BY <1>11, <1>12, <2>1
<1> QED
  BY <1>3, <1>9, <1>12, <1>13, <1>14, <1>15 DEF m, o, e

LEMMA PasteIsText ==
    ASSUME NEW text \in PasteText
    PROVE  text \in Seq(Char)
<1>1. text \in Seq(Typed)
  BY KeyAssumption DEF Typed
<1>2. Typed \subseteq Char
  BY DEF Char
<1> QED
  BY <1>1, <1>2, SeqMonotonic

\* A pasted text that hides no closer can be read.
LEMMA ReadablePaste ==
    ASSUME NEW text \in PasteText, ~HidesCloser(Wrapped(text))
    PROVE  Pasteable(text)
<1>1. \A i \in 1..(Len(text) - 5) : text[i] = "E" => SubSeq(text, i + 1, i + 5) # Closer
  BY KeyAssumption
<1>2. text \in Seq(Char)
  BY PasteIsText
<1> DEFINE w == Wrapped(text)
           m == Len(text)
<1>3. /\ w \in Seq(Char) /\ Len(w) = m + 12 /\ (\A i \in 1..m : w[i + 6] = text[i])
      /\ w[m + 7] = "E" /\ m \in Nat
  <2>1. <<>> \in Seq(Char)
    BY EmptySeq
  <2>2. PICK c : /\ Wrapped(text) \in Seq(Char) /\ Len(Wrapped(text)) = Len(text) + 12
                 /\ \A i \in 1..Len(text) : Wrapped(text)[i + 6] = text[i]
                 /\ Wrapped(text)[Len(text) + 7] = "E"
    BY <1>2, <2>1, WrappedIs
  <2> QED
    BY <1>2, <2>2, LenProperties
<1> HIDE DEF w, m
<1>4. ASSUME NEW i \in 1..m, text[i] = "E" PROVE i + 5 <= m
  <2> SUFFICES ASSUME ~(i + 5 <= m) PROVE FALSE
    OBVIOUS
  <2>1. i + 6 \in 2..Len(w) /\ m + 7 \in ((i + 6) + 1)..((i + 6) + 5) /\ m + 7 <= Len(w)
    BY <1>3
  <2>2. w[i + 6] = "E"
    BY <1>3, <1>4
  <2>3. HidesCloser(w)
    BY <1>3, <2>1, <2>2 DEF HidesCloser
  <2> QED
    BY <2>3 DEF w
<1> QED
  BY <1>1, <1>2, <1>4 DEF Pasteable, m

\* A paste is read as one event, and nothing behind it is touched.
LEMMA PastesAreRead ==
    ASSUME NEW text \in PasteText, ~HidesCloser(Wrapped(text)), NEW rest \in Seq(Char)
    PROVE  ReadKey(Wrapped(text) \o rest) = <<<<"paste", text>>, rest>>
<1>1. Pasteable(text) /\ text \in Seq(Char)
  BY ReadablePaste DEF Pasteable
<1>2. PICK c : Wrapped(text) \o rest = (<<"E">> \o Opener) \o c /\ Encloses(c, text, rest)
  BY <1>1, WrappedIs
<1>3. c \in Seq(Char)
  BY <1>2 DEF Encloses
<1>4. ReadKey((<<"E">> \o Opener) \o c) = Told(Opener, c)
  <2>1. Opener \in Seq(Char) /\ Len(Opener) = 5
    BY FrameOfPaste
  <2>2. StopsAt(Opener, 5) /\ ~StopsAt(Opener, 1) /\ ~StopsAt(Opener, 2) /\ ~StopsAt(Opener, 3) /\ ~StopsAt(Opener, 4)
    BY FrameOfPaste DEF StopsAt, Finals
  <2>3. \A i \in 1..(5 - 1) : i = 1 \/ i = 2 \/ i = 3 \/ i = 4
    OBVIOUS
  <2>4. Len(Opener) > 0 /\ StopsAt(Opener, Len(Opener)) /\ \A i \in 1..(Len(Opener) - 1) : ~StopsAt(Opener, i)
    BY <2>1, <2>2, <2>3
  <2> QED
    BY <1>3, <2>1, <2>4, EscapeIs
<1>5. Told(Opener, c) = ReadPaste(c)
  <2>1. Opener[Len(Opener)] = "~" /\ Opener[1] = "["
    BY FrameOfPaste
  <2> QED
    BY <2>1 DEF Told
<1>6. ReadPaste(c) = <<<<"paste", text>>, rest>>
  BY <1>1, <1>2, TextIsRead
<1> QED
  BY <1>2, <1>4, <1>5, <1>6

Meaning == {item[2] : item \in Items}

\* What two sequences of events are, one behind the other.
LEMMA EventsRegrouped == \A a, b, c \in Seq(Meaning) : Regroups(a, b, c)
BY ConcatAssociative DEF Regroups

LEMMA MeaningsPut ==
    \A a, b \in Seq(Meaning) :
        /\ a \o b \in Seq(Meaning) /\ Len(a \o b) = Len(a) + Len(b)
        /\ \A i \in 1..Len(a) : (a \o b)[i] = a[i]
        /\ \A i \in 1..Len(b) : (a \o b)[Len(a) + i] = b[i]
BY Put

LEMMA ShortItems ==
    /\ <<"x">> \in Seq(Char)
    /\ <<"r">> \in Seq(Char)
    /\ <<"E">> \in Seq(Char)
    /\ <<"E", "[", "A">> \in Seq(Char)
    /\ <<"E", "r">> \in Seq(Char)
    /\ <<"E", "[", "<", "2", "M">> \in Seq(Char)
    /\ <<"E", "_", "x", "E", "b">> \in Seq(Char)
<1>1. /\ "E" \in Char /\ "[" \in Char /\ "<" \in Char /\ "2" \in Char /\ "M" \in Char /\ "A" \in Char
      /\ "x" \in Char /\ "b" \in Char /\ "r" \in Char
  BY CharsAre
<1>2. <<"x">> \in Seq(Char)
  BY <1>1
<1>3. <<"r">> \in Seq(Char)
  BY <1>1
<1>4. <<"E">> \in Seq(Char)
  BY <1>1
<1>5. <<"E", "[", "A">> \in Seq(Char)
  BY <1>1
<1>6. <<"E", "r">> \in Seq(Char)
  BY <1>1
<1>7. <<"E", "[", "<", "2", "M">> \in Seq(Char)
  BY <1>1
<1>8. <<"E", "_", "x", "E", "b">> \in Seq(Char)
  BY CharsAre, AnswerIsChar, Four, Zenon
<1> QED
  BY <1>2, <1>3, <1>4, <1>5, <1>6, <1>7, <1>8

\* What an item is made of.
LEMMA ItemIs ==
    ASSUME NEW item \in Items
    PROVE  /\ item[1] \in Seq(Char) /\ item[1] # <<>> /\ item[2] \in Meaning
           /\ item[2] # <<"none">>
<1>2. item[1] \in Seq(Char) /\ item[1] # <<>> /\ item[2] # <<"none">>
  <2>1. CASE item = <<<<"x">>, <<"key", "x">>>>
    <3>1. <<"x">> \in Seq(Char)
      BY ShortItems
    <3>2. <<"x">> # <<>> /\ <<"key", "x">> # <<"none">>
      OBVIOUS
    <3> QED
      BY <2>1, <3>1, <3>2
  <2>2. CASE item = <<<<"r">>, <<"key", "r">>>>
    <3>1. <<"r">> \in Seq(Char)
      BY ShortItems
    <3>2. <<"r">> # <<>> /\ <<"key", "r">> # <<"none">>
      OBVIOUS
    <3> QED
      BY <2>2, <3>1, <3>2
  <2>3. CASE item = <<<<"E">>, <<"escape">>>>
    <3>1. <<"E">> \in Seq(Char)
      BY ShortItems
    <3>2. <<"E">> # <<>> /\ <<"escape">> # <<"none">>
      OBVIOUS
    <3> QED
      BY <2>3, <3>1, <3>2
  <2>4. CASE item = <<<<"E", "[", "A">>, <<"up">>>>
    <3>1. <<"E", "[", "A">> \in Seq(Char)
      BY ShortItems
    <3>2. <<"E", "[", "A">> # <<>> /\ <<"up">> # <<"none">>
      OBVIOUS
    <3> QED
      BY <2>4, <3>1, <3>2
  <2>5. CASE item = <<<<"E", "r">>, <<"alt-enter">>>>
    <3>1. <<"E", "r">> \in Seq(Char)
      BY ShortItems
    <3>2. <<"E", "r">> # <<>> /\ <<"alt-enter">> # <<"none">>
      OBVIOUS
    <3> QED
      BY <2>5, <3>1, <3>2
  <2>6. CASE item = <<<<"E", "[", "<", "2", "M">>, <<"mouse">>>>
    <3>1. <<"E", "[", "<", "2", "M">> \in Seq(Char)
      BY ShortItems
    <3>2. <<"E", "[", "<", "2", "M">> # <<>> /\ <<"mouse">> # <<"none">>
      OBVIOUS
    <3> QED
      BY <2>6, <3>1, <3>2
  <2>7. CASE item = <<<<"E", "_", "x", "E", "b">>, <<"answer">>>>
    <3>1. <<"E", "_", "x", "E", "b">> \in Seq(Char)
      BY ShortItems
    <3>2. <<"E", "_", "x", "E", "b">> # <<>> /\ <<"answer">> # <<"none">>
      OBVIOUS
    <3> QED
      BY <2>7, <3>1, <3>2
  <2>8. CASE \E text \in PasteText : item = <<Wrapped(text), <<"paste", text>>>>
    <3>1. PICK text \in PasteText : item = <<Wrapped(text), <<"paste", text>>>>
      BY <2>8
    <3>2. text \in Seq(Char)
      BY PasteIsText
    <3>3. <<>> \in Seq(Char)
      BY EmptySeq
    <3>4. Wrapped(text) \in Seq(Char) /\ Len(Wrapped(text)) = Len(text) + 12 /\ Len(text) \in Nat
      BY <3>2, <3>3, WrappedIs, LenProperties
    <3>5. Wrapped(text) # <<>>
      BY <3>4, EmptySeq
    <3>6. <<"paste", text>> # <<"none">>
      OBVIOUS
    <3> QED
      BY <3>1, <3>4, <3>5, <3>6
  <2> QED
    BY <2>1, <2>2, <2>3, <2>4, <2>5, <2>6, <2>7, <2>8 DEF Items, Wrapped
<1> QED
  BY <1>2 DEF Meaning

\* Every item is read as the event it should be, whatever is behind it; only a lone Escape needs
\* that nothing is.
LEMMA ItemIsRead ==
    ASSUME NEW item \in Items, ~HidesCloser(item[1]), NEW rest \in Seq(Char),
           item[2] = <<"escape">> => rest = <<>>
    PROVE  ReadKey(item[1] \o rest) = <<item[2], rest>>
<1>1. CASE item = <<<<"x">>, <<"key", "x">>>>
  BY <1>1, KeysAreRead
<1>2. CASE item = <<<<"r">>, <<"key", "r">>>>
  BY <1>2, KeysAreRead
<1>3. CASE item = <<<<"E">>, <<"escape">>>>
  <2>1. rest = <<>> /\ item[1] = <<"E">> /\ item[2] = <<"escape">>
    BY <1>3
  <2>2. <<"E">> \o <<>> = <<"E">>
    BY FrameOfPaste, ConcatEmptySeq
  <2>3. ReadKey(<<"E">>) = <<<<"escape">>, <<>>>>
    BY KeysAreRead
  <2> QED
    BY <2>1, <2>2, <2>3
<1>4. CASE item = <<<<"E", "[", "A">>, <<"up">>>>
  BY <1>4, SequencesAreRead
<1>5. CASE item = <<<<"E", "r">>, <<"alt-enter">>>>
  BY <1>5, SequencesAreRead
<1>6. CASE item = <<<<"E", "[", "<", "2", "M">>, <<"mouse">>>>
  BY <1>6, SequencesAreRead
<1>7. CASE item = <<<<"E", "_", "x", "E", "b">>, <<"answer">>>>
  BY <1>7, AnswersAreRead
<1>8. CASE \E text \in PasteText : item = <<Wrapped(text), <<"paste", text>>>>
  <2>1. PICK text \in PasteText : item = <<Wrapped(text), <<"paste", text>>>>
    BY <1>8
  <2>2. item[1] = Wrapped(text) /\ item[2] = <<"paste", text>>
    BY <2>1
  <2>3. ReadKey(Wrapped(text) \o rest) = <<<<"paste", text>>, rest>>
    BY <2>2, PastesAreRead
  <2> QED
    BY <2>2, <2>3
<1> QED
  BY <1>1, <1>2, <1>3, <1>4, <1>5, <1>6, <1>7, <1>8 DEF Items, Wrapped

------------------------------------------------------------------------------
(* What is on its way is a queue of items that are not yet read *)

\* q is the items, and f[i] the characters behind the i-th of them.
Queue(q, f) ==
    /\ q \in Seq(Items)
    /\ f \in [0..Len(q) -> Seq(Char)]
    /\ f[Len(q)] = <<>>
    /\ \A i \in 1..Len(q) :
        /\ f[i - 1] = q[i][1] \o f[i]
        /\ ~HidesCloser(q[i][1])
        /\ q[i][2] = <<"escape">> => i = Len(q)

Announced(q) == [i \in 1..Len(q) |-> q[i][2]]

\* The characters are those of a queue, and what was meant is what was read and then the queue.
Pending(chars, done, sent) ==
    \E q, f : Queue(q, f) /\ f[0] = chars /\ sent = done \o Announced(q)

LEMMA AnnouncedIs ==
    ASSUME NEW q \in Seq(Items)
    PROVE  Announced(q) \in Seq(Meaning) /\ Len(Announced(q)) = Len(q)
<1>1. Len(q) \in Nat /\ \A i \in 1..Len(q) : q[i][2] \in Meaning
  BY LenProperties, ElementOfSeq DEF Meaning
<1> DEFINE a == [i \in 1..Len(q) |-> q[i][2]]
<1>2. a \in [1..Len(q) -> Meaning]
  BY <1>1
<1> HIDE DEF a
<1>3. a \in Seq(Meaning) /\ Len(a) = Len(q)
  BY <1>1, <1>2
<1> QED
  BY <1>3 DEF Announced, a

\* The characters of a queue begin with its first item, so that there are none without items.
LEMMA QueueBegins ==
    ASSUME NEW q, NEW f, Queue(q, f)
    PROVE  /\ f[0] \in Seq(Char) /\ Len(q) \in Nat
           /\ f[0] = <<>> <=> Len(q) = 0
<1>1. Len(q) \in Nat /\ 0 \in 0..Len(q)
  BY LenProperties DEF Queue
<1>2. f[0] \in Seq(Char)
  BY <1>1 DEF Queue
<1>3. CASE Len(q) = 0
  BY <1>1, <1>2, <1>3 DEF Queue
<1>4. CASE Len(q) # 0
  <2>1. 1 \in 1..Len(q) /\ 1 - 1 = 0 /\ 1 \in 0..Len(q)
    BY <1>1, <1>4
  <2>2. q[1] \in Items /\ f[1] \in Seq(Char) /\ f[0] = q[1][1] \o f[1]
    BY <2>1, ElementOfSeq DEF Queue
  <2>3. q[1][1] \in Seq(Char) /\ q[1][1] # <<>>
    BY <2>2, ItemIs
  <2>4. f[0] # <<>>
    BY <2>2, <2>3, ConcatEqualIffEmpty
  <2> QED
    BY <1>2, <1>1, <1>4, <2>4
<1> QED
  BY <1>3, <1>4

\* Another item joins.
LEMMA QueueGrows ==
    ASSUME NEW chars \in Seq(Char), NEW done \in Seq(Meaning), NEW sent \in Seq(Meaning),
           Pending(chars, done, sent), NEW item \in Items, ~HidesCloser(item[1]),
           ~(chars # <<>> /\ Last(sent) = <<"escape">>)
    PROVE  Pending(chars \o item[1], done, Append(sent, item[2]))
<1>1. PICK q, f : Queue(q, f) /\ f[0] = chars /\ sent = done \o Announced(q)
  BY DEF Pending
<1> DEFINE n == Len(q)
           c == item[1]
           p == Append(q, item)
           g == [i \in 0..(n + 1) |-> IF i = n + 1 THEN <<>> ELSE f[i] \o c]
<1>2. n \in Nat /\ q \in Seq(Items) /\ f \in [0..n -> Seq(Char)] /\ f[n] = <<>>
  BY <1>1, LenProperties DEF Queue
<1>3. c \in Seq(Char) /\ item[2] \in Meaning
  BY ItemIs
<1>4. /\ p \in Seq(Items) /\ Len(p) = n + 1 /\ (\A i \in 1..n : p[i] = q[i]) /\ p[n + 1] = item
  BY <1>2, AppendProperties
<1> HIDE DEF p, c
<1>5. g[n + 1] = <<>> /\ \A i \in 0..n : g[i] = f[i] \o c
  BY <1>2
<1>6. g \in [0..(n + 1) -> Seq(Char)]
  <2>1. ASSUME NEW i \in 0..(n + 1) PROVE (IF i = n + 1 THEN <<>> ELSE f[i] \o c) \in Seq(Char)
    <3>1. CASE i = n + 1
      BY <3>1, EmptySeq
    <3>2. CASE i # n + 1
      <4>1. i \in 0..n
        BY <1>2, <3>2
      <4>2. f[i] \in Seq(Char)
        BY <1>2, <4>1
      <4> QED
        BY <1>3, <3>2, <4>2, ConcatProperties
    <3> QED
      BY <3>1, <3>2
  <2> QED
    BY <2>1
<1> HIDE DEF g, n
<1>7. ASSUME NEW i \in 1..(n + 1)
      PROVE  /\ g[i - 1] = p[i][1] \o g[i]
             /\ ~HidesCloser(p[i][1])
             /\ p[i][2] = <<"escape">> => i = n + 1
  <2>1. CASE i = n + 1
    <3>1. i - 1 = n /\ n \in 0..n
      BY <1>2, <2>1
    <3>2. g[n] = <<>> \o c
      BY <1>2, <1>5, <3>1
    <3>3. <<>> \o c = c /\ c \o <<>> = c
      BY <1>3, ConcatEmptySeq
    <3>4. g[i - 1] = p[i][1] \o g[i]
      BY <1>4, <1>5, <2>1, <3>1, <3>2, <3>3 DEF c
    <3> QED
      BY <1>4, <2>1, <3>4
  <2>2. CASE i # n + 1
    <3>1. i \in 1..n /\ i - 1 \in 0..n /\ i \in 0..n
      BY <1>2, <2>2
    <3>2. /\ f[i - 1] = q[i][1] \o f[i] /\ ~HidesCloser(q[i][1])
          /\ q[i][2] = <<"escape">> => i = n
      BY <1>1, <3>1 DEF Queue, n
    <3>3. q[i] \in Items /\ q[i][1] \in Seq(Char) /\ f[i] \in Seq(Char)
      BY <1>2, <3>1, ElementOfSeq, ItemIs DEF n
    <3>4. (q[i][1] \o f[i]) \o c = q[i][1] \o (f[i] \o c)
      <4> DEFINE r == q[i][1]
                 h == f[i]
      <4>1. r \in Seq(Char) /\ h \in Seq(Char)
        BY <3>3
      <4> HIDE DEF r, h
      <4>2. (r \o h) \o c = r \o (h \o c)
        <5>1. Regroups(r, h, c)
          BY <1>3, <4>1, Regrouped
        <5> QED
          BY <5>1 DEF Regroups
      <4> QED
        BY <4>2 DEF r, h
    <3>5. g[i - 1] = p[i][1] \o g[i]
      BY <1>4, <1>5, <3>1, <3>2, <3>4
    <3>6. q[i][2] # <<"escape">>
      <4> SUFFICES ASSUME q[i][2] = <<"escape">> PROVE FALSE
        OBVIOUS
      <4>1. i = n
        BY <3>2
      <4> DEFINE a == Announced(q)
      <4>2. a \in Seq(Meaning) /\ Len(a) = n
        BY <1>2, AnnouncedIs DEF n
      <4>3. a[n] = <<"escape">>
        BY <3>1, <4>1 DEF Announced, n
      <4> HIDE DEF a
      <4>4. /\ Len(done \o a) = Len(done) + n /\ Len(done) \in Nat
            /\ (done \o a)[Len(done) + n] = a[n]
        <5>1. n \in 1..Len(a) /\ n \in Nat
          BY <1>2, <3>1, <4>1, <4>2
        <5>2. /\ Len(done \o a) = Len(done) + Len(a) /\ Len(done) \in Nat
              /\ \A j \in 1..Len(a) : (done \o a)[Len(done) + j] = a[j]
          <6>1. \A x, y \in Seq(Meaning) : /\ Len(x \o y) = Len(x) + Len(y)
                                         /\ \A j \in 1..Len(y) : (x \o y)[Len(x) + j] = y[j]
            BY Put
          <6> QED
            BY <4>2, <6>1, LenProperties
        <5> QED
          BY <4>2, <5>1, <5>2
      <4>5. Last(sent) = <<"escape">>
        BY <1>1, <4>3, <4>4 DEF Last, a
      <4>6. n # 0
        BY <1>2, <3>1, <4>1
      <4>7. chars # <<>>
        BY <1>1, <4>6, QueueBegins DEF n
      <4> QED
        BY <4>5, <4>7
    <3> QED
      BY <1>4, <3>1, <3>2, <3>5, <3>6
  <2> QED
    BY <2>1, <2>2
<1>8. Queue(p, g)
  BY <1>4, <1>5, <1>6, <1>7 DEF Queue
<1>9. g[0] = chars \o c
  <2>1. 0 \in 0..n
    BY <1>2
  <2> QED
    BY <1>1, <1>5, <2>1
<1>10. Append(sent, item[2]) = done \o Announced(p)
  <2> DEFINE a == Announced(q)
             e == <<item[2]>>
  <2>1. a \in Seq(Meaning) /\ Len(a) = n /\ e \in Seq(Meaning)
    BY <1>2, <1>3, AnnouncedIs DEF n
  <2>2. Announced(p) = a \o e
    <3> DEFINE b == Announced(p)
    <3>1. b \in Seq(Meaning) /\ Len(b) = n + 1
      BY <1>4, AnnouncedIs
    <3>2. \A j \in 1..(n + 1) : b[j] = p[j][2]
      BY <1>4 DEF Announced
    <3>3. \A j \in 1..n : a[j] = q[j][2]
      BY DEF Announced, n
    <3>4. Len(e) = 1 /\ e[1] = item[2]
      OBVIOUS
    <3> HIDE DEF a, b, e
    <3>5. /\ a \o e \in Seq(Meaning) /\ Len(a \o e) = Len(a) + Len(e)
          /\ (\A j \in 1..Len(a) : (a \o e)[j] = a[j])
          /\ \A j \in 1..Len(e) : (a \o e)[Len(a) + j] = e[j]
      BY <2>1, MeaningsPut
    <3>6. 1 \in 1..Len(e)
      BY <3>4
    <3>7. (a \o e)[n + 1] = item[2]
      BY <2>1, <3>4, <3>5, <3>6
    <3>8. ASSUME NEW j \in 1..(n + 1) PROVE b[j] = (a \o e)[j]
      <4>1. CASE j = n + 1
        BY <1>4, <3>2, <3>7, <4>1
      <4>2. CASE j # n + 1
        <5>1. j \in 1..n
          BY <1>2, <4>2
        <5> QED
          <6>1. (a \o e)[j] = a[j]
            BY <2>1, <3>5, <5>1
          <6>2. a[j] = q[j][2] /\ p[j] = q[j] /\ b[j] = p[j][2]
            BY <1>4, <3>2, <3>3, <5>1
          <6> QED
            BY <6>1, <6>2
      <4> QED
        BY <4>1, <4>2
    <3> DEFINE w == a \o e
    <3>9. w \in Seq(Meaning) /\ Len(w) = Len(b) /\ \A j \in 1..Len(b) : b[j] = w[j]
      BY <1>2, <2>1, <3>1, <3>4, <3>5, <3>8
    <3> HIDE DEF w
    <3>10. b = w
      BY <3>1, <3>9, SeqEqual
    <3> QED
      BY <3>10 DEF b, w
  <2> HIDE DEF a, e
  <2>3. Append(sent, item[2]) = sent \o e
    BY <1>3, AppendIsConcat DEF e
  <2>4. sent = done \o a
    BY <1>1 DEF a
  <2>5. (done \o a) \o e = done \o (a \o e)
    <3>1. Regroups(done, a, e)
      BY <2>1, EventsRegrouped
    <3> QED
      BY <3>1 DEF Regroups
  <2> QED
    BY <2>2, <2>3, <2>4, <2>5
<1> QED
  BY <1>8, <1>9, <1>10 DEF Pending, c

\* The first item is read and leaves the queue.
LEMMA QueueShrinks ==
    ASSUME NEW chars, NEW done \in Seq(Meaning), NEW sent,
           Pending(chars, done, sent), chars # <<>>
    PROVE  /\ ReadKey(chars)[1] # <<"none">>
           /\ ReadKey(chars)[1] \in Meaning /\ ReadKey(chars)[2] \in Seq(Char)
           /\ Pending(ReadKey(chars)[2], Append(done, ReadKey(chars)[1]), sent)
<1>1. PICK q, f : Queue(q, f) /\ f[0] = chars /\ sent = done \o Announced(q)
  BY DEF Pending
<1> DEFINE n == Len(q)
           p == Tail(q)
           g == [i \in 0..(n - 1) |-> f[i + 1]]
           e == q[1][2]
<1>2. n \in Nat /\ n # 0 /\ q \in Seq(Items) /\ f \in [0..n -> Seq(Char)] /\ f[n] = <<>>
  BY <1>1, LenProperties, QueueBegins DEF Queue
<1>3. 1 \in 1..n /\ 1 \in 0..n /\ 1 - 1 = 0 /\ 0 \in 0..(n - 1) /\ n - 1 \in 0..(n - 1)
  BY <1>2
<1>4. /\ chars = q[1][1] \o f[1] /\ q[1] \in Items /\ ~HidesCloser(q[1][1]) /\ f[1] \in Seq(Char)
      /\ q[1][2] = <<"escape">> => 1 = n
  BY <1>1, <1>2, <1>3, ElementOfSeq DEF Queue
<1>5. ReadKey(chars) = <<e, f[1]>>
  <2>1. q[1][2] = <<"escape">> => f[1] = <<>>
    BY <1>2, <1>4
  <2> QED
    BY <1>4, <2>1, ItemIsRead
<1>6. e \in Meaning /\ e # <<"none">>
  BY <1>4, ItemIs
<1>7. p \in Seq(Items) /\ Len(p) = n - 1 /\ \A i \in 1..(n - 1) : p[i] = q[i + 1]
  <2>1. q # <<>>
    BY <1>2, EmptySeq
  <2> QED
    BY <1>2, <2>1, HeadTailProperties
<1> HIDE DEF p, e, n
<1>8. g[n - 1] = <<>> /\ g[0] = f[1] /\ \A i \in 0..(n - 1) : g[i] = f[i + 1]
  BY <1>2, <1>3
<1>9. g \in [0..(n - 1) -> Seq(Char)]
  <2>1. \A i \in 0..(n - 1) : f[i + 1] \in Seq(Char)
    <3>1. \A i \in 0..(n - 1) : i + 1 \in 0..n
      BY <1>2
    <3> QED
      BY <1>2, <3>1
  <2> QED
    BY <2>1
<1> HIDE DEF g
<1>10. ASSUME NEW i \in 1..(n - 1)
       PROVE  /\ g[i - 1] = p[i][1] \o g[i]
              /\ ~HidesCloser(p[i][1])
              /\ p[i][2] = <<"escape">> => i = n - 1
  <2>1. /\ i + 1 \in 1..n /\ (i + 1) - 1 = i /\ i - 1 \in 0..(n - 1) /\ (i - 1) + 1 = i
        /\ i \in 0..(n - 1) /\ (i + 1 = n => i = n - 1)
    BY <1>2
  <2>2. /\ f[(i + 1) - 1] = q[i + 1][1] \o f[i + 1]
        /\ ~HidesCloser(q[i + 1][1])
        /\ q[i + 1][2] = <<"escape">> => i + 1 = n
    BY <1>1, <2>1 DEF Queue, n
  <2>3. g[i - 1] = f[i] /\ g[i] = f[i + 1] /\ p[i] = q[i + 1]
    BY <1>7, <1>8, <2>1
  <2> QED
    BY <2>1, <2>2, <2>3
<1>11. Queue(p, g)
  BY <1>7, <1>8, <1>9, <1>10 DEF Queue
<1>12. sent = Append(done, e) \o Announced(p)
  <2> DEFINE a == Announced(q)
             b == Announced(p)
             h == <<e>>
  <2>1. a \in Seq(Meaning) /\ Len(a) = n /\ b \in Seq(Meaning) /\ Len(b) = n - 1
    BY <1>2, <1>7, AnnouncedIs DEF n
  <2>2. (\A j \in 1..n : a[j] = q[j][2]) /\ \A j \in 1..(n - 1) : b[j] = p[j][2]
    BY <1>7 DEF Announced, n
  <2>3. h \in Seq(Meaning) /\ Len(h) = 1 /\ h[1] = e
    BY <1>6
  <2> HIDE DEF a, b, h
  <2>4. a[1] = h[1]
    BY <1>3, <2>2, <2>3 DEF e
  <2>5. \A j \in 1..Len(b) : a[j + 1] = b[j]
    <3> SUFFICES ASSUME NEW j \in 1..(n - 1) PROVE a[j + 1] = b[j]
      BY <2>1
    <3>1. j + 1 \in 1..n
      BY <1>2
    <3> QED
      BY <1>7, <2>2, <3>1
  <2>6. h \o b = a
    <3>1. Len(a) = Len(b) + 1
      BY <1>2, <2>1
    <3> QED
      BY <2>1, <2>3, <2>4, <2>5, <3>1, InFront
  <2>7. Append(done, e) = done \o h
    BY <1>6, AppendIsConcat DEF h
  <2>8. (done \o h) \o b = done \o (h \o b)
    <3>1. Regroups(done, h, b)
      BY <2>1, <2>3, EventsRegrouped
    <3> QED
      BY <3>1 DEF Regroups
  <2> QED
    BY <1>1, <2>6, <2>7, <2>8 DEF a, b
<1>13. Pending(f[1], Append(done, e), sent)
  BY <1>8, <1>11, <1>12 DEF Pending
<1>14. ReadKey(chars)[1] = e /\ ReadKey(chars)[2] = f[1]
  BY <1>5
<1> QED
  BY <1>4, <1>6, <1>13, <1>14

------------------------------------------------------------------------------
\* While nothing is blurred, what arrived and is coming is a queue of whole items.
KeyInv ==
    ~blurred => /\ arrived \in Seq(Char) /\ coming \in Seq(Char)
                /\ events \in Seq(Meaning) /\ meant \in Seq(Meaning)
                /\ Pending(arrived \o coming, events, meant)

LEMMA KeyInvInit == KeyInit => KeyInv
<1> SUFFICES ASSUME KeyInit PROVE KeyInv
  OBVIOUS
<1> DEFINE f == [i \in 0..0 |-> <<>>]
<1>1. <<>> \in Seq(Char) /\ <<>> \in Seq(Meaning) /\ <<>> \in Seq(Items) /\ Len(<<>>) = 0
  BY EmptySeq
<1>2. f \in [0..0 -> Seq(Char)] /\ f[0] = <<>>
  BY <1>1
<1> HIDE DEF f
<1>3. Queue(<<>>, f)
  <2>1. \A i \in 1..0 : FALSE
    OBVIOUS
  <2> QED
    BY <1>1, <1>2, <2>1 DEF Queue
<1>4. Announced(<<>>) = <<>>
  <2>1. Announced(<<>>) \in Seq(Meaning) /\ Len(Announced(<<>>)) = 0
    BY <1>1, AnnouncedIs
  <2> QED
    BY <2>1, EmptySeq
<1>5. Pending(<<>>, <<>>, <<>>)
  <2>1. <<>> = <<>> \o Announced(<<>>)
    BY <1>1, <1>4, ConcatEmptySeq
  <2> QED
    BY <1>2, <1>3, <2>1 DEF Pending
<1>6. <<>> \o <<>> = <<>>
  BY <1>1, ConcatEmptySeq
<1> QED
  BY <1>1, <1>5, <1>6 DEF KeyInit, KeyInv

LEMMA SendKeepsKeys ==
    ASSUME KeyInv, NEW item \in Items, Send(item)
    PROVE  KeyInv'
<1> SUFFICES ASSUME ~blurred' PROVE KeyInv'
  BY DEF KeyInv
<1>1. /\ ~blurred /\ ~HidesCloser(item[1]) /\ ~(arrived # <<>> /\ Last(meant) = <<"escape">>)
      /\ coming = <<>> /\ meant' = Append(meant, item[2]) /\ events' = events
  BY DEF Send
<1>2. /\ arrived \in Seq(Char) /\ events \in Seq(Meaning) /\ meant \in Seq(Meaning)
      /\ Pending(arrived \o coming, events, meant)
  BY <1>1 DEF KeyInv
<1> DEFINE c == item[1]
<1>3. c \in Seq(Char) /\ item[2] \in Meaning
  BY ItemIs
<1>4. PICK n \in 1..Len(c) : arrived' = arrived \o SubSeq(c, 1, n) /\ coming' = From(c, n + 1)
  BY DEF Send
<1> DEFINE a == SubSeq(c, 1, n)
           b == From(c, n + 1)
<1>5. Len(c) \in Nat /\ n \in Nat /\ 1 <= n /\ n <= Len(c)
  BY <1>3, LenProperties
<1>6. a \o b = c
  <2>1. SubSeq(c, 1, n) \o SubSeq(c, n + 1, Len(c)) = SubSeq(c, 1, Len(c))
    BY <1>3, <1>5, PartsMeet
  <2> QED
    BY <1>3, <2>1, SubSeqFull DEF From
<1>7. a \in Seq(Char) /\ b \in Seq(Char)
  <2>1. \A i \in 1..Len(c) : c[i] \in Char
    BY <1>3, ElementOfSeq
  <2>2. \A i \in 1..n : c[i] \in Char
    BY <1>5, <2>1
  <2>3. \A i \in (n + 1)..Len(c) : c[i] \in Char
    BY <1>5, <2>1
  <2>4. n \in Int /\ 1 \in Int /\ n + 1 \in Int /\ Len(c) \in Int
    BY <1>5
  <2> QED
    BY <2>2, <2>3, <2>4, SubSeqProperties DEF From
<1> HIDE DEF a, b, c
<1>8. arrived' \in Seq(Char) /\ coming' \in Seq(Char)
  BY <1>2, <1>4, <1>7, ConcatProperties DEF a, b
<1>9. arrived' \o coming' = arrived \o c
  <2>1. (arrived \o a) \o b = arrived \o (a \o b)
    <3>1. Regroups(arrived, a, b)
      BY <1>2, <1>7, Regrouped
    <3> QED
      BY <3>1 DEF Regroups
  <2> QED
    BY <1>4, <1>6, <2>1 DEF a, b
<1>10. Pending(arrived, events, meant)
  BY <1>1, <1>2, ConcatEmptySeq
<1>11. Pending(arrived \o c, events, meant')
  BY <1>1, <1>2, <1>10, QueueGrows DEF c
<1>12. meant' \in Seq(Meaning)
  BY <1>1, <1>2, <1>3, AppendProperties
<1> QED
  BY <1>1, <1>2, <1>8, <1>9, <1>11, <1>12 DEF KeyInv

LEMMA TakeKeepsKeys ==
    ASSUME KeyInv, Take
    PROVE  KeyInv'
<1> SUFFICES ASSUME ~blurred' PROVE KeyInv'
  BY DEF KeyInv
<1> DEFINE r == ReadKey(arrived)
<1>1. /\ ~blurred /\ coming = <<>> /\ arrived # <<>> /\ arrived' = r[2]
      /\ events' = (IF r[1] = <<"none">> THEN events ELSE Append(events, r[1]))
      /\ coming' = coming /\ meant' = meant
  BY DEF Take
<1> HIDE DEF r
<1>2. /\ arrived \in Seq(Char) /\ coming \in Seq(Char) /\ events \in Seq(Meaning) /\ meant \in Seq(Meaning)
      /\ Pending(arrived \o coming, events, meant)
  BY <1>1 DEF KeyInv
<1>3. Pending(arrived, events, meant)
  BY <1>1, <1>2, ConcatEmptySeq
<1>4. /\ r[1] # <<"none">> /\ r[1] \in Meaning /\ r[2] \in Seq(Char)
      /\ Pending(r[2], Append(events, r[1]), meant)
  BY <1>1, <1>2, <1>3, QueueShrinks DEF r
<1>5. events' = Append(events, r[1]) /\ events' \in Seq(Meaning)
  BY <1>1, <1>2, <1>4, AppendProperties
<1>6. arrived' \o coming' = r[2]
  BY <1>1, <1>4, ConcatEmptySeq
<1> QED
  BY <1>1, <1>2, <1>4, <1>5, <1>6 DEF KeyInv

LEMMA KeyInvNext == KeyInv /\ [KeyNext]_keyVars => KeyInv'
<1> SUFFICES ASSUME KeyInv, [KeyNext]_keyVars PROVE KeyInv'
  OBVIOUS
<1>1. ASSUME NEW item \in Items, Send(item) PROVE KeyInv'
  BY <1>1, SendKeepsKeys
<1>2. CASE Deliver
  <2> SUFFICES ASSUME ~blurred' PROVE KeyInv'
    BY DEF KeyInv
  <2>1. /\ ~blurred /\ arrived' = arrived \o coming /\ coming' = <<>>
        /\ events' = events /\ meant' = meant
    BY <1>2 DEF Deliver
  <2>2. /\ arrived \in Seq(Char) /\ coming \in Seq(Char) /\ events \in Seq(Meaning) /\ meant \in Seq(Meaning)
        /\ Pending(arrived \o coming, events, meant)
    BY <2>1 DEF KeyInv
  <2>3. arrived' \in Seq(Char) /\ coming' \in Seq(Char) /\ arrived' \o coming' = arrived \o coming
    BY <2>1, <2>2, ConcatProperties, ConcatEmptySeq, EmptySeq
  <2> QED
    BY <2>1, <2>2, <2>3 DEF KeyInv
<1>3. CASE Take
  BY <1>3, TakeKeepsKeys
<1>4. CASE UNCHANGED keyVars
  BY <1>4 DEF keyVars, KeyInv
<1> QED
  BY <1>1, <1>2, <1>3, <1>4 DEF KeyNext, KeyQuiet

\* What is on its way is whole, unless it was read in pieces.
THEOREM KeyInvariant == KeySpec => []KeyInv
<1> QED
  BY KeyInvInit, KeyInvNext, PTL DEF KeySpec

LEMMA QueueIsMeant == KeyInv => KeysAreWhatWasMeant
<1> SUFFICES ASSUME KeyInv, ~blurred
             PROVE  IsPrefix(events, meant) /\ (arrived \o coming = <<>> => events = meant)
  BY DEF KeysAreWhatWasMeant
<1>1. PICK q, f : Queue(q, f) /\ f[0] = arrived \o coming /\ meant = events \o Announced(q)
  BY DEF KeyInv, Pending
<1> DEFINE a == Announced(q)
<1>2. events \in Seq(Meaning) /\ a \in Seq(Meaning) /\ Len(a) = Len(q)
  BY <1>1, AnnouncedIs DEF KeyInv, Queue
<1> HIDE DEF a
<1>3. IsPrefix(events, meant)
  <2>1. /\ Len(meant) = Len(events) + Len(a) /\ Len(events) \in Nat /\ Len(a) \in Nat
        /\ SubSeq(meant, 1, Len(events)) = events
    <3>1. /\ Len(events \o a) = Len(events) + Len(a)
          /\ SubSeq(events \o a, 1, Len(events)) = events
      BY <1>2, Put
    <3> QED
      BY <1>1, <1>2, <3>1, LenProperties DEF a
  <2>2. SubSeq(events, 1, Len(events)) = events
    BY <1>2, SubSeqFull
  <2>3. Len(events) <= Len(meant)
    BY <2>1
  <2> QED
    BY <2>1, <2>2, <2>3 DEF IsPrefix
<1>4. ASSUME arrived \o coming = <<>> PROVE events = meant
  <2>1. Len(q) = 0
    BY <1>1, <1>4, QueueBegins
  <2>2. a = <<>>
    BY <1>2, <2>1, EmptySeq
  <2>3. events \o <<>> = events
    BY <1>2, ConcatEmptySeq
  <2> QED
    BY <1>1, <2>2, <2>3 DEF a
<1> QED
  BY <1>3, <1>4

\* Every key, paste, report and answer is read as what was meant, in the order they came, and nothing
\* is left when all is read (terminal_frame.py's _read_key and _read_bracketed_paste): for any texts
\* that are pasted, and any number of items.
THEOREM KeysAreMeant == KeySpec => []KeysAreWhatWasMeant
<1> QED
  BY KeyInvariant, QueueIsMeant, PTL
==============================================================================
