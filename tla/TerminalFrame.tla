---------------------------- MODULE TerminalFrame ----------------------------
(***************************************************************************)
(* The frame `lwa` runs in: terminal_frame.py's _interactive, from its     *)
(* first key to the end of its process.  One coroutine reads the keys;     *)
(* beside it run the task it holds in `hand` (a prompt pipeline or a debug *)
(* snapshot), a clipboard copy, and the session, whose events it hears.    *)
(* All share the prompts, the feed and the busy flag without a lock, and   *)
(* interleave at every await.                                              *)
(*                                                                         *)
(* A prompt's text is empty or not (PromptEditor.tla has the editor), a    *)
(* feed is the number of its lines.                                        *)
(***************************************************************************)
EXTENDS Naturals

CONSTANTS
    Kinds,       \* the sessions a frame may have: "native", "bridged", "embedded"
    Task,        \* the tasks a frame may start (a bound)
    NoTask,
    FeedMax,     \* LWA_MAX_FEED_LINES
    StatusKeep   \* what a status event leaves of the feed

ASSUME FrameAssumption ==
    /\ Kinds \subseteq {"native", "bridged", "embedded"}
    /\ NoTask \notin Task
    /\ FeedMax \in Nat /\ StatusKeep \in 1..FeedMax

Panel == {"lwa", "codex"}

VARIABLES
    phase,    \* "running", then the steps of leaving: "clip", "hand", "session", "loop", "gone"
    kind,     \* the session's kind
    focus,    \* active_surface
    draft,    \* prompts with text
    active,   \* session_active
    alive,    \* the session's Codex is there
    busy,     \* pipeline_busy
    hand,     \* pipeline_task
    work,     \* what each task does: "idle", "debug", "preparing" or "voting"
    copying,  \* clipboard_task is not done
    feed,     \* number of LWA feed lines
    sel,      \* rows of the LWA feed selection: <<anchor, focus>>, or << >>
    meddled   \* history: a debug snapshot was asked for while a task was at work

prompts == <<focus, draft>>
session == <<kind, active, alive>>
tasks == <<busy, hand, work, meddled>>
frameVars == <<phase, prompts, session, tasks, copying, feed, sel>>

Phases == {"running", "clip", "hand", "session", "loop", "gone"}
Row == 0..(FeedMax - 1)

FrameTypeOK ==
    /\ phase \in Phases /\ kind \in Kinds
    /\ focus \in Panel /\ draft \in [Panel -> BOOLEAN]
    /\ active \in BOOLEAN /\ alive \in BOOLEAN
    /\ busy \in BOOLEAN /\ hand \in Task \cup {NoTask}
    /\ work \in [Task -> {"idle", "debug", "preparing", "voting"}]
    /\ copying \in BOOLEAN
    /\ feed \in 0..FeedMax
    /\ sel \in {<<>>} \cup (Row \X Row)
    /\ meddled \in BOOLEAN

FrameInit ==
    /\ phase = "running" /\ kind \in Kinds
    /\ focus = "lwa" /\ draft = [s \in Panel |-> FALSE]
    /\ active = TRUE /\ alive = TRUE
    /\ busy = FALSE /\ hand = NoTask /\ work = [t \in Task |-> "idle"]
    /\ copying = FALSE
    /\ feed = 1
    /\ sel = <<>>
    /\ meddled = FALSE

Least(a, b) == IF a < b THEN a ELSE b
AtWork == {t \in Task : work[t] # "idle"}
Run == phase = "running"

\* BoundedLines: the oldest lines go when there are more than the limit.
Say(n) == Least(feed + n, FeedMax)

------------------------------------------------------------------------------
(* Keys that edit and move *)

\* reduce_panel: of two panels, the next and the previous are the other one.
Other(s) == CHOOSE t \in Panel : t # s

\* focus_to and focus_next: the broker's panel and active_surface move together.
FocusTo(s) == focus' = s

Type ==
    /\ Run
    /\ draft' = [draft EXCEPT ![focus] = TRUE]
    /\ feed' \in {feed, Say(1)}   \* a paste is told in the feed
    /\ UNCHANGED <<phase, focus, session, tasks, copying, sel>>

Erase ==
    /\ Run /\ draft[focus]
    /\ draft' = [draft EXCEPT ![focus] = FALSE]
    /\ UNCHANGED <<phase, focus, session, tasks, copying, feed, sel>>

\* Tab and Shift+Tab: five spaces in a native frame, the other prompt in any other.
Tab ==
    /\ Run
    /\ IF kind = "native"
       THEN draft' = [draft EXCEPT ![focus] = TRUE] /\ UNCHANGED focus
       ELSE FocusTo(Other(focus)) /\ UNCHANGED draft
    /\ UNCHANGED <<phase, session, tasks, copying, feed, sel>>

\* A click into a prompt; a native frame shows only its own.
Click(s) ==
    /\ Run
    /\ kind = "native" => s = "lwa"
    /\ FocusTo(s)
    /\ UNCHANGED <<phase, draft, session, tasks, copying, feed, sel>>

\* Codex's last response is put into the LWA prompt, if there is one.
Transfer ==
    /\ Run
    /\ feed' = Say(1)
    /\ \/ UNCHANGED <<focus, draft>>
       \/ draft' = [draft EXCEPT !["lwa"] = TRUE] /\ FocusTo("lwa")
    /\ UNCHANGED <<phase, session, tasks, copying, sel>>

------------------------------------------------------------------------------
(* Selecting and copying *)

\* lwa_selection_point: what a click in the feed may name, whatever is scrolled or wrapped.
Rows == 0..(feed - 1)

\* The left button goes down on a row of the feed, or is dragged to one: native frames only.
Press ==
    /\ Run /\ kind = "native"
    /\ \E row \in Rows :
        \/ sel' = <<row, row>>
        \/ sel # <<>> /\ sel' = <<sel[1], row>>
    /\ UNCHANGED <<phase, prompts, session, tasks, copying, feed>>

InFeed(selection) == \A i \in DOMAIN selection : selection[i] < feed

\* lwa_selected_text: the selection is looked up by its rows, and a row the feed no longer has is
\* an IndexError that ends the frame.  A copy that runs is left to run, and no other is started.
CopyRows(selection) ==
    IF InFeed(selection) THEN copying' = TRUE /\ UNCHANGED phase
    ELSE phase' = "clip" /\ UNCHANGED copying

\* The button is released, over a row of the feed or elsewhere.
Release ==
    /\ Run /\ sel # <<>>
    /\ \E row \in Rows \cup {sel[2]} : sel' = <<sel[1], row>> /\ CopyRows(<<sel[1], row>>)
    /\ UNCHANGED <<prompts, session, tasks, feed>>

\* Ctrl+C copies a selection or the prompt, or says that there is nothing to copy.
Copy ==
    /\ Run
    /\ \/ CopyRows(sel) /\ UNCHANGED feed
       \/ feed' = Say(1) /\ UNCHANGED <<phase, copying>>
    /\ UNCHANGED <<prompts, session, tasks, sel>>

CopyEnds ==
    /\ copying /\ phase # "gone"
    /\ copying' = FALSE
    /\ feed' = Say(1)
    /\ UNCHANGED <<phase, prompts, session, tasks, sel>>

------------------------------------------------------------------------------
(* The session *)

SessionDies ==
    /\ alive
    /\ alive' = FALSE
    /\ UNCHANGED <<phase, prompts, kind, active, tasks, copying, feed, sel>>

\* Mutant of Event: a native session is heard from too.
EventOfAnySession(last) ==
    /\ phase \notin {"loop", "gone"} /\ last => ~alive
    /\ active' = (active /\ ~last)
    /\ feed' = Least(Say(1), StatusKeep)
    /\ UNCHANGED <<phase, prompts, kind, alive, tasks, copying, sel>>

\* emit: a status line cuts the feed to its last lines; the last one, of a session that is gone,
\* makes it inactive.  A native session says nothing after its start, an embedded one not that
\* it is gone.
Event(last) ==
    /\ phase \notin {"loop", "gone"} /\ kind # "native"
    /\ last => ~alive /\ kind = "bridged"
    /\ active' = (active /\ ~last)
    /\ feed' = Least(Say(1), StatusKeep)
    /\ UNCHANGED <<phase, prompts, kind, alive, tasks, copying, sel>>

\* session.write and session.resize as the frame sees them: to a session that is gone a write may
\* be lost unseen, raise the RuntimeError the frame expects, or (bridged) one it does not.
Sent ==
    \/ UNCHANGED <<phase, active>>
    \/ ~alive /\ kind # "bridged" /\ active' = FALSE /\ UNCHANGED phase
    \/ ~alive /\ kind = "bridged" /\ phase' = "clip" /\ UNCHANGED active

\* A new geometry, or Shift+Up and Shift+Down for Codex's prompt.
Resize ==
    /\ Run /\ active /\ kind # "native"
    /\ Sent
    /\ feed' \in {feed, Say(1)}
    /\ UNCHANGED <<prompts, kind, alive, tasks, copying, sel>>

\* Alt+Enter: what Codex's prompt holds is cleared and sent, if the session is active.
AltEnter ==
    /\ Run
    /\ draft' = [draft EXCEPT !["codex"] = FALSE]
    /\ IF draft["codex"] /\ active
       THEN Sent /\ feed' = Say(2)
       ELSE UNCHANGED <<phase, active, feed>>
    /\ UNCHANGED <<focus, kind, alive, tasks, copying, sel>>

------------------------------------------------------------------------------
(* Enter *)

Enter(s) == Run /\ focus = s /\ draft[s] /\ draft' = [draft EXCEPT ![s] = FALSE]

EnterCodex ==
    /\ Enter("codex")
    /\ IF active THEN Sent ELSE UNCHANGED <<phase, active>>
    /\ feed' = Say(1)
    /\ UNCHANGED <<focus, kind, alive, tasks, copying, sel>>

\* /lwa and /pets, in either prompt.
Command ==
    /\ Enter(focus)
    /\ feed' \in {feed, Say(1)}
    /\ UNCHANGED <<phase, focus, session, tasks, copying, sel>>

\* "debug" is taken whatever runs, and its task replaces the one in hand.
Debug(t) ==
    /\ Enter("lwa") /\ t \notin AtWork
    /\ busy' = TRUE
    /\ hand' = t
    /\ work' = [work EXCEPT ![t] = "debug"]
    /\ meddled' = (meddled \/ AtWork # {})
    /\ UNCHANGED <<phase, focus, session, copying, feed, sel>>

\* Mutant of Prompt: the busy flag is not looked at.
PromptAnyway(t) ==
    /\ Enter("lwa") /\ t \notin AtWork
    /\ busy' = TRUE
    /\ hand' = t
    /\ work' = [work EXCEPT ![t] = "preparing"]
    /\ feed' = Say(1)
    /\ UNCHANGED <<phase, focus, session, copying, sel, meddled>>

\* Any other text is a prompt to improve, if nothing is at work and the session is active.
Prompt(t) ==
    /\ Enter("lwa") /\ t \notin AtWork
    /\ ~busy /\ active
    /\ busy' = TRUE
    /\ hand' = t
    /\ work' = [work EXCEPT ![t] = "preparing"]
    /\ feed' = Say(1)
    /\ UNCHANGED <<phase, focus, session, copying, sel, meddled>>

\* Otherwise it is dropped, with a word if the frame is busy and without one if it is not.
PromptLost ==
    /\ Enter("lwa")
    /\ busy \/ ~active
    /\ feed' = IF busy THEN Say(1) ELSE feed
    /\ UNCHANGED <<phase, focus, session, tasks, copying, sel>>

------------------------------------------------------------------------------
(* The tasks *)

Rest(t) == work' = [work EXCEPT ![t] = "idle"] /\ busy' = FALSE

\* prepare_consensus, and the approval the pipeline gives itself.
Prepared(t) ==
    /\ work[t] = "preparing" /\ phase # "gone"
    /\ work' = [work EXCEPT ![t] = "voting"]
    /\ feed' = Say(1)
    /\ UNCHANGED <<phase, prompts, session, busy, hand, meddled, copying, sel>>

\* The improved prompt replaces whatever Codex's prompt held meanwhile.
Loaded(t) ==
    /\ work[t] = "voting" /\ phase # "gone" /\ active
    /\ Rest(t)
    /\ draft' = [draft EXCEPT !["codex"] = TRUE]
    /\ FocusTo(IF kind = "native" THEN "lwa" ELSE "codex")
    /\ feed' = Say(1)
    /\ UNCHANGED <<phase, session, hand, meddled, copying, sel>>

\* Any failure of a pipeline, the session's end among them, and the end of a snapshot.
Stopped(t) ==
    /\ work[t] # "idle" /\ phase # "gone"
    /\ Rest(t)
    /\ feed' = Say(1)
    /\ UNCHANGED <<phase, prompts, session, hand, meddled, copying, sel>>

------------------------------------------------------------------------------
(* Leaving *)

\* Escape without suggestions, Ctrl+Q, or an exception.
LeaveFrame ==
    /\ Run
    /\ phase' = "clip"
    /\ UNCHANGED <<prompts, session, tasks, copying, feed, sel>>

CancelCopy ==
    /\ phase = "clip"
    /\ phase' = "hand"
    /\ copying' = FALSE
    /\ UNCHANGED <<prompts, session, tasks, feed, sel>>

\* Mutant of CancelHand: the task in hand is awaited and not cancelled.
AwaitHand ==
    /\ phase = "hand"
    /\ hand \notin AtWork
    /\ phase' = "session"
    /\ UNCHANGED <<prompts, session, tasks, copying, feed, sel>>

\* Only the task in hand is cancelled.
CancelHand ==
    /\ phase = "hand"
    /\ phase' = "session"
    /\ IF hand \in AtWork THEN Rest(hand) ELSE UNCHANGED <<work, busy>>
    /\ UNCHANGED <<prompts, session, hand, meddled, copying, feed, sel>>

CloseSession ==
    /\ phase = "session"
    /\ phase' = "loop"
    /\ alive' = FALSE
    /\ UNCHANGED <<prompts, kind, active, tasks, copying, feed, sel>>

\* asyncio.run cancels whatever is left.
EndLoop ==
    /\ phase = "loop"
    /\ phase' = "gone"
    /\ work' = [t \in Task |-> "idle"]
    /\ busy' = (busy /\ AtWork = {})
    /\ UNCHANGED <<prompts, session, hand, meddled, copying, feed, sel>>

FrameQuiet == phase = "gone" /\ UNCHANGED frameVars

FrameNext ==
    \/ Type \/ Erase \/ Tab \/ Transfer \/ \E s \in Panel : Click(s)
    \/ Press \/ Release \/ Copy \/ CopyEnds
    \/ SessionDies \/ Resize \/ AltEnter \/ \E last \in BOOLEAN : Event(last)
    \/ EnterCodex \/ Command \/ PromptLost \/ \E t \in Task : Debug(t) \/ Prompt(t)
    \/ \E t \in Task : Prepared(t) \/ Loaded(t) \/ Stopped(t)
    \/ LeaveFrame \/ CancelCopy \/ CancelHand \/ CloseSession \/ EndLoop
    \/ FrameQuiet

\* The closing steps wait for nothing the frame does not cancel; the tasks owe it nothing.
FrameFairness ==
    /\ WF_frameVars(CancelCopy) /\ WF_frameVars(CancelHand)
    /\ WF_frameVars(CloseSession) /\ WF_frameVars(EndLoop)

FrameSpec == FrameInit /\ [][FrameNext]_frameVars /\ FrameFairness

------------------------------------------------------------------------------
(* Properties *)

\* The busy flag, the task in hand and the tasks at work agree: a prompt is refused exactly while
\* one is worked on and what leaving cancels is all there is (terminal_frame.py:1250-1264,
\* 1859-1890).  A snapshot asked for meanwhile breaks all three: it is not looked at the flag.
BusyTellsTheTruth ==
    ~meddled => /\ busy <=> AtWork # {}
                /\ AtWork \subseteq {hand}

\* The rows of a selection are rows of the feed, though lines are dropped from it and the
\* selection is never cleared: only native frames select and only the others' sessions cut the
\* feed below its limit (terminal_frame.py:1098-1107, 1161-1163).
SelectionsNameText == InFeed(sel)

\* Leaving ends: it waits neither for the providers of a pipeline nor for a copy, whatever the
\* tasks and the session do meanwhile (terminal_frame.py:1920-1938).
ExitCompletes == phase # "running" ~> phase = "gone"
==============================================================================
