------------------------------ MODULE AppServer ------------------------------
(***************************************************************************)
(* A call of the Codex app-server over stdio (codex_app_server.py): a      *)
(* child per call, one JSON line per message.  `request` asks for one      *)
(* response, `complete` starts a thread and a turn and collects the turn's *)
(* text.                                                                   *)
(*                                                                         *)
(* The child answers in its own order, and may write for ever.  What its   *)
(* notices say, and so the text of a turn, is left out; its input may be   *)
(* full, and then a message is sent when the child reads.                  *)
(***************************************************************************)
EXTENDS Naturals, Sequences, SequencesExt

CONSTANT PipeHolds      \* lines between the child and the reader: a full pipe holds the child up

VARIABLES
    kind,       \* "request" or "complete"
    at,         \* "idle", "send", "respond", "notify", "stream", "closing" or "ended"
    id,         \* the last request written, 1, 2 or 3
    child,      \* "none", "runs", "terminated" (signalled, still there) or "gone"
    pipe,       \* lines written and not read
    answered,   \* requests the child has answered
    over,       \* the child has written that the turn is completed
    result      \* "none", "text", "object" or "error"

appVars == <<kind, at, id, child, pipe, answered, over, result>>

Response(i, ok) == [line |-> "response", id |-> i, ok |-> ok]
Notice == [line |-> "notice"]
Completed(ok) == [line |-> "completed", ok |-> ok]
LastId(k) == IF k = "request" THEN 2 ELSE 3

AppInit ==
    /\ kind \in {"request", "complete"}
    /\ at = "idle" /\ id = 1
    /\ child = "none"
    /\ pipe = <<>> /\ answered = {} /\ over = FALSE
    /\ result = "none"

\* The child is spawned and the first request, initialize, written to it.
Start ==
    /\ at = "idle" /\ at' = "send"
    /\ child' = "runs"
    /\ UNCHANGED <<kind, id, pipe, answered, over, result>>

\* The child answers a request it was sent, completes a turn it was asked for,
\* or writes a notice: a delta of the turn, or one nobody waits for.
ServerWrites ==
    /\ child = "runs" /\ at # "ended" /\ Len(pipe) < PipeHolds
    /\ \/ \E i \in (1..id) \ answered, ok \in BOOLEAN :
              /\ pipe' = Append(pipe, Response(i, ok)) /\ answered' = answered \cup {i}
              /\ UNCHANGED over
       \/ pipe' = Append(pipe, Notice) /\ UNCHANGED <<answered, over>>
       \/ /\ kind = "complete" /\ id = 3 /\ ~over
          /\ \E ok \in BOOLEAN : pipe' = Append(pipe, Completed(ok))
          /\ over' = TRUE /\ UNCHANGED answered
    /\ UNCHANGED <<kind, at, id, child, result>>

\* The child ends by itself, or after it was told to.
ServerExits ==
    /\ child \in {"runs", "terminated"} /\ child' = "gone"
    /\ UNCHANGED <<kind, at, id, pipe, answered, over, result>>

\* Mutant of Finally: the child is left to end by itself.
FinallyWaits(outcome) ==
    at' = "closing" /\ result' = outcome /\ UNCHANGED child

\* The finally around a call: a child that still runs is told to end, and waited for.
Finally(outcome) ==
    /\ at' = "closing" /\ result' = outcome
    /\ child' = IF child = "runs" THEN "terminated" ELSE child

\* drain has returned: the request is on its way; or the notification
\* "initialized" is, and the second request is written.
Drained ==
    /\ \/ at = "send" /\ at' = "respond" /\ UNCHANGED id
       \/ at = "notify" /\ at' = "send" /\ id' = id + 1
    /\ UNCHANGED <<kind, child, pipe, answered, over, result>>

\* _response: lines that do not answer the request are read and dropped; an
\* answer leads to the next message, or to the turn.
AwaitResponse ==
    /\ at = "respond" /\ pipe # <<>> /\ pipe' = Tail(pipe)
    /\ LET m == Head(pipe)
           awaited == m.line = "response" /\ m.id = id
       IN CASE ~awaited -> UNCHANGED <<at, id, child, result>>
            [] awaited /\ ~m.ok -> Finally("error") /\ UNCHANGED id
            [] awaited /\ m.ok /\ id = 1 -> at' = "notify" /\ UNCHANGED <<id, child, result>>
            [] awaited /\ m.ok /\ id = 2 /\ kind = "complete" ->
                   at' = "send" /\ id' = 3 /\ UNCHANGED <<child, result>>
            [] awaited /\ m.ok /\ id = LastId(kind) ->
                   /\ UNCHANGED id
                   /\ IF kind = "request" THEN Finally("object")
                      ELSE at' = "stream" /\ UNCHANGED <<child, result>>
    /\ UNCHANGED <<kind, answered, over>>

\* The turn: lines are collected or dropped until it is completed.
Stream ==
    /\ at = "stream" /\ pipe # <<>> /\ pipe' = Tail(pipe)
    /\ LET m == Head(pipe) IN
       IF m.line = "completed" THEN Finally(IF m.ok THEN "text" ELSE "error")
       ELSE UNCHANGED <<at, child, result>>
    /\ UNCHANGED <<kind, id, answered, over>>

\* No line comes within timeout_seconds of the last one, the output has ended, a
\* line is not JSON or has no result or thread, or the caller is cancelled.
GiveUp ==
    /\ at \in {"respond", "stream"}
    /\ Finally("error")
    /\ UNCHANGED <<kind, id, pipe, answered, over>>

\* A message cannot be sent, for the child has gone or closed its input, or the
\* caller is cancelled meanwhile; there is no timeout.
SendFails ==
    /\ at \in {"send", "notify"}
    /\ Finally("error")
    /\ UNCHANGED <<kind, id, pipe, answered, over>>

\* process.wait has returned, or was cancelled.
Reaped ==
    /\ at = "closing" /\ at' = "ended"
    /\ UNCHANGED <<kind, id, child, pipe, answered, over, result>>

AppNext ==
    \/ Start \/ ServerWrites \/ ServerExits \/ Drained
    \/ AwaitResponse \/ Stream \/ GiveUp \/ SendFails \/ Reaped

\* A line is read, or else readline ends or times out; the pipe of a child that
\* is gone is broken; a child that was told to end does so.  Nothing makes a
\* child that runs read, stop writing or end.
AppFairness ==
    /\ WF_appVars(AwaitResponse) /\ WF_appVars(Stream)
    /\ WF_appVars(pipe = <<>> /\ GiveUp) /\ WF_appVars(child = "gone" /\ SendFails)
    /\ WF_appVars(child = "gone" /\ Reaped)
    /\ WF_appVars(child = "terminated" /\ ServerExits)

-----------------------------------------------------------------------------
ChildReads == WF_appVars(Drained)
ChildFallsSilent == <>[][~ServerWrites]_appVars

\* A call whose child reads what it is sent, and does not write for ever, ends with the
\* child gone, whatever the child wrote, in whatever order, and even if nothing answers
\* (_send_raw, _response and the finally of request and complete,
\* codex_app_server.py:52-55, 93-111, 120-140).
CallsEnd ==
    ChildReads /\ ChildFallsSilent =>
        (at \notin {"idle", "ended"} ~> at = "ended" /\ child = "gone")
==============================================================================
