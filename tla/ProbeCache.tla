----------------------------- MODULE ProbeCache -----------------------------
(***************************************************************************)
(* pipeline_manager.py: the cached, coalesced health probe of one provider *)
(* (everything is kept by provider name).  Callers of check(probe=True)    *)
(* that find no fresh row share one task; the caller that created it and   *)
(* those that joined it wait behind asyncio.shield, so each can be         *)
(* cancelled without the task.  Between two awaits nothing else runs.      *)
(* Callers are those whose _base_status was ready.                         *)
(***************************************************************************)
EXTENDS Clock, FiniteSets

CONSTANTS
    Caller,       \* concurrent callers of check
    Probe,        \* names for the _perform_probe tasks alive at a time
    Setting,      \* what a provider's fingerprint tells apart
    SuccessTtl,   \* _SUCCESS_TTL_SECONDS
    FailureTtl,   \* _FAILURE_TTL_SECONDS
    NoProbe,      \* no task
    NoRow,        \* no row
    MaxChanges    \* bound on reconfigurations, invalidations and cancellations

ASSUME ProbeAssumption ==
    /\ MaxTime \in Nat /\ SuccessTtl \in Nat /\ FailureTtl \in Nat
    /\ NoProbe \notin Probe /\ Setting # {}
    /\ MaxChanges \in Nat

VARIABLES
    setting,      \* what _fingerprint would compute now
    cache,        \* _probe_cache[name], or NoRow
    inflight,     \* _inflight[name], or NoProbe
    task,         \* where each task is, the fingerprint it was created with, what it has
                  \* found, and (history) whether the settings moved in its lifetime
    waits,        \* the task each caller waits for, or NoProbe
    asked,        \* when and under which settings each caller last asked
    answer,       \* the row each caller's last call got, or NoRow
    cancelled,    \* history: callers cancelled while they waited
    changes       \* how many bounded changes have happened

callerVars == <<waits, asked, answer>>
vars == <<now, setting, cache, inflight, task, callerVars, cancelled, changes>>

Row == [at : 0..MaxTime, success : BOOLEAN, measured : Setting, moved : BOOLEAN]

Free == [stage |-> "free"]
Created == [stage : {"created"}, fingerprint : Setting, moved : BOOLEAN]
Running == [stage : {"running"}, fingerprint : Setting, moved : BOOLEAN, measured : Setting]
Done == [stage : {"done"}, moved : BOOLEAN, row : Row]

TypeOK ==
    /\ now \in 0..MaxTime
    /\ setting \in Setting
    /\ cache \in [fingerprint : Setting, row : Row] \cup {NoRow}
    /\ inflight \in Probe \cup {NoProbe}
    /\ task \in [Probe -> {Free} \cup Created \cup Running \cup Done]
    /\ waits \in [Caller -> Probe \cup {NoProbe}]
    /\ asked \in [Caller -> [at : 0..MaxTime, setting : Setting]]
    /\ answer \in [Caller -> Row \cup {NoRow}]
    /\ cancelled \in 0..MaxChanges /\ changes \in 0..MaxChanges

Init ==
    /\ now = 0
    /\ setting = CHOOSE s \in Setting : TRUE
    /\ cache = NoRow
    /\ inflight = NoProbe
    /\ task = [t \in Probe |-> Free]
    /\ waits = [c \in Caller |-> NoProbe]
    /\ asked = [c \in Caller |-> [at |-> 0, setting |-> setting]]
    /\ answer = [c \in Caller |-> NoRow]
    /\ cancelled = 0
    /\ changes = 0

------------------------------------------------------------------------------
(* _cached_probe and _perform_probe *)

\* Mutant of Hit: the fingerprint is not compared.
HitOfAnySetting ==
    /\ cache # NoRow
    /\ now - cache.row.at < (IF cache.row.success THEN SuccessTtl ELSE FailureTtl)

\* The cached row may be served.
Hit ==
    /\ cache # NoRow
    /\ cache.fingerprint = setting
    /\ now - cache.row.at < (IF cache.row.success THEN SuccessTtl ELSE FailureTtl)

Ask(c, found) ==
    /\ asked' = [asked EXCEPT ![c] = [at |-> now, setting |-> setting]]
    /\ answer' = [answer EXCEPT ![c] = found]

\* A fresh row of these settings is served at once.
Serve(c) ==
    /\ waits[c] = NoProbe
    /\ Hit
    /\ Ask(c, cache.row)
    /\ UNCHANGED <<now, setting, cache, inflight, task, waits, cancelled, changes>>

\* The registered task is joined, whatever settings it was created for.
Join(c) ==
    /\ waits[c] = NoProbe
    /\ ~Hit
    /\ inflight # NoProbe
    /\ Ask(c, NoRow)
    /\ waits' = [waits EXCEPT ![c] = inflight]
    /\ UNCHANGED <<now, setting, cache, inflight, task, cancelled, changes>>

\* Tasks are named in any way that keeps those alive apart.
NewTask(t) ==
    /\ \E u \in Probe : task[u] = Free
    /\ t = CHOOSE u \in Probe : task[u] = Free
    /\ task' = [task EXCEPT ![t] = [stage |-> "created", fingerprint |-> setting, moved |-> FALSE]]

\* Mutant of Create: the new task is not registered.
CreateUnregistered(c, t) ==
    /\ waits[c] = NoProbe
    /\ ~Hit
    /\ inflight = NoProbe
    /\ NewTask(t)
    /\ Ask(c, NoRow)
    /\ waits' = [waits EXCEPT ![c] = t]
    /\ UNCHANGED <<now, setting, cache, inflight, cancelled, changes>>

\* No task is registered: create one under this caller's fingerprint and wait for it.
Create(c, t) ==
    /\ waits[c] = NoProbe
    /\ ~Hit
    /\ inflight = NoProbe
    /\ NewTask(t)
    /\ Ask(c, NoRow)
    /\ waits' = [waits EXCEPT ![c] = t]
    /\ inflight' = t
    /\ UNCHANGED <<now, setting, cache, cancelled, changes>>

\* The task reads the provider's settings when it first runs, and calls health().
ProbeStarts(t) ==
    /\ task[t].stage = "created"
    /\ task' = [task EXCEPT ![t] = [stage |-> "running", fingerprint |-> @.fingerprint,
                                   moved |-> @.moved, measured |-> setting]]
    /\ UNCHANGED <<now, setting, cache, inflight, callerVars, cancelled, changes>>

\* The tasks, without those that are over and that nobody refers to any more.
Kept(tasks) ==
    [t \in Probe |-> IF tasks[t].stage = "done" /\ inflight' # t /\ \A c \in Caller : waits'[c] # t
                     THEN Free ELSE tasks[t]]

\* health() answered or raised: the row is cached under the fingerprint of the task.
ProbeEnds(t, success) ==
    LET found == [at |-> now, success |-> success, measured |-> task[t].measured,
                  moved |-> task[t].moved]
    IN  /\ task[t].stage = "running"
        /\ UNCHANGED <<now, setting, inflight, callerVars, cancelled, changes>>
        /\ cache' = [fingerprint |-> task[t].fingerprint, row |-> found]
        /\ task' = Kept([task EXCEPT ![t] = [stage |-> "done", moved |-> @.moved, row |-> found]])

\* The finally of _cached_probe: the caller unregisters its task, if that is the registered one.
Leave(c) ==
    /\ waits[c] # NoProbe
    /\ inflight' = IF inflight = waits[c] THEN NoProbe ELSE inflight
    /\ waits' = [waits EXCEPT ![c] = NoProbe]

\* A caller resumes with its task's row.
Wake(c) ==
    /\ Leave(c)
    /\ task[waits[c]].stage = "done"
    /\ answer' = [answer EXCEPT ![c] = [task[waits[c]].row EXCEPT !.moved = task[waits[c]].moved]]
    /\ task' = Kept(task)
    /\ UNCHANGED <<now, setting, cache, asked, cancelled, changes>>

Change == changes < MaxChanges /\ changes' = changes + 1

\* Mutant of Cancel: without the shield the task dies with the caller.
CancelKillsProbe(c) ==
    /\ Change
    /\ Leave(c)
    /\ task' = [task EXCEPT ![waits[c]] = Free]
    /\ cancelled' = cancelled + 1
    /\ UNCHANGED <<now, setting, cache, asked, answer>>

\* A waiting caller is cancelled: the shield keeps the task, the finally unregisters it.
Cancel(c) ==
    /\ Change
    /\ Leave(c)
    /\ task' = Kept(task)
    /\ cancelled' = cancelled + 1
    /\ UNCHANGED <<now, setting, cache, asked, answer>>

\* A settings change, a credential added or removed, or a catalog refresh.
Reconfigure(s) ==
    /\ Change
    /\ s # setting
    /\ setting' = s
    /\ task' = [t \in Probe |-> IF task[t] = Free THEN Free ELSE [task[t] EXCEPT !.moved = TRUE]]
    /\ UNCHANGED <<now, cache, inflight, callerVars, cancelled>>

\* invalidate_probe_cache: a task in flight is left alone.
Invalidate ==
    /\ Change
    /\ cache # NoRow
    /\ cache' = NoRow
    /\ UNCHANGED <<now, setting, inflight, task, callerVars, cancelled>>

\* A tick is long for the event loop: no caller is still to be woken when it passes.
Tick ==
    /\ ClockAdvances
    /\ \A c \in Caller : waits[c] # NoProbe => task[waits[c]].stage # "done"
    /\ UNCHANGED <<setting, cache, inflight, task, callerVars, cancelled, changes>>

Next ==
    \/ \E c \in Caller : Serve(c) \/ Join(c) \/ Wake(c) \/ Cancel(c)
    \/ \E c \in Caller, t \in Probe : Create(c, t)
    \/ \E t \in Probe : ProbeStarts(t)
    \/ \E t \in Probe, success \in BOOLEAN : ProbeEnds(t, success)
    \/ \E s \in Setting : Reconfigure(s)
    \/ Invalidate
    \/ Tick

Spec == Init /\ [][Next]_vars

\* The event loop runs what is ready, and a health call ends: its adapter has a timeout.
FairSpec ==
    /\ Spec
    /\ \A t \in Probe : WF_vars(ProbeStarts(t)) /\ WF_vars(\E ok \in BOOLEAN : ProbeEnds(t, ok))
    /\ \A c \in Caller : WF_vars(Wake(c))

------------------------------------------------------------------------------
(* Properties *)

Alive == {t \in Probe : task[t].stage \in {"created", "running"}}

\* Concurrent callers cost one health call: a second one of the same provider is on its way
\* only because a caller was cancelled and unregistered the first (pipeline_manager.py:165-173).
ProbesCoalesce == Cardinality(Alive) <= 1 + cancelled

\* What a caller is told was found after it asked, or so recently before that it was still to
\* be trusted: a success for SuccessTtl, a failure only for FailureTtl.
AnswerIsFresh(c) ==
    \/ answer[c].at >= asked[c].at
    \/ asked[c].at - answer[c].at < IF answer[c].success THEN SuccessTtl ELSE FailureTtl

\* What a caller is told was measured under the settings it asked about, unless they moved
\* while the task that measured it was alive.
AnswerFitsTheSettings(c) == answer[c].measured = asked[c].setting \/ answer[c].moved

\* A row outlives invalidations, reconfigurations and newer probes, and yet what a caller is
\* told is true of the time and of the settings it asked about (pipeline_manager.py:153-213).
AnswersAreTrue ==
    \A c \in Caller : answer[c] # NoRow => AnswerIsFresh(c) /\ AnswerFitsTheSettings(c)

\* Every caller that is not cancelled itself gets a row, whoever else is cancelled meanwhile.
CallersAnswered == \A c \in Caller : waits[c] # NoProbe ~> waits[c] = NoProbe
==============================================================================
