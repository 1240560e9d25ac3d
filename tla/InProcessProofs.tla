-------------------------- MODULE InProcessProofs ----------------------------
(***************************************************************************)
(* Proofs about what one process keeps in memory: the probe cache of the   *)
(* pipeline manager (ProbeCache.tla), the frame's prompt editor            *)
(* (PromptEditor.tla), the text and the images of a Codex session's output *)
(* (CodexStream.tla) and the polymino control (Polymino.tla).  The modules *)
(* have no variable in common, and each part speaks of one of them.        *)
(***************************************************************************)
EXTENDS ProbeCache, PromptEditor, CodexStream, Polymino, RecursionLemmas,
        FiniteSetTheorems, SequenceTheorems, TLAPS

(***************************************************************************)
(* Probes, for any callers, tasks, lifetimes and settings: concurrent      *)
(* callers share one health call, and what they are told is true.          *)
(*                                                                         *)
(* That a second call is under way only because a caller was cancelled is  *)
(* not inductive.  The invariant counts the tasks that are on their way    *)
(* unregistered, and knows that a registered task has a caller which will  *)
(* unregister it.  That an answer is true needs to be known of the cached  *)
(* row and of every task a caller waits for: under which settings it is    *)
(* measured, or that they moved meanwhile.                                 *)
(***************************************************************************)

\* A row that says nothing of a change was measured under the fingerprint it is cached for.
CacheFits ==
    cache # NoRow =>
        /\ cache.row.at <= now
        /\ cache.row.measured = cache.fingerprint \/ cache.row.moved

\* A task whose lifetime saw no change speaks of the settings there are.
TaskFits(t) ==
    task[t].stage # "free" /\ ~task[t].moved =>
        /\ task[t].stage \in {"created", "running"} => task[t].fingerprint = setting
        /\ task[t].stage = "running" => task[t].measured = setting
        /\ task[t].stage = "done" => task[t].row.measured = setting

\* A caller waits for a task that is kept for it, that is no older than the last change if it
\* saw none, and whose row it takes before the clock moves.
WaitFits(c) ==
    /\ asked[c].at <= now
    /\ waits[c] # NoProbe =>
        /\ task[waits[c]].stage # "free"
        /\ task[waits[c]].moved \/ asked[c].setting = setting
        /\ task[waits[c]].stage = "done" => task[waits[c]].row.at = now

\* A registered task has a caller that will unregister it.
RegisteredIsAwaited == inflight # NoProbe => \E c \in Caller : waits[c] = inflight

\* Every task that is on its way unregistered was left behind by a caller that was cancelled.
Orphans == Alive \ {inflight}
OrphansAreCounted ==
    /\ IsFiniteSet(Alive) /\ Cardinality(Orphans) <= cancelled
    /\ cancelled <= changes

ProbeInv ==
    /\ TypeOK
    /\ CacheFits
    /\ \A t \in Probe : TaskFits(t)
    /\ \A c \in Caller : WaitFits(c)
    /\ RegisteredIsAwaited
    /\ OrphansAreCounted
    /\ AnswersAreTrue

------------------------------------------------------------------------------
(* Tasks *)

\* What a task may be.
TaskType == {Free} \cup Created \cup Running \cup Done

\* The stage of a task tells what is known of it.
LEMMA StageTells ==
    ASSUME NEW x \in TaskType
    PROVE  /\ x.stage \in {"free", "created", "running", "done"}
           /\ x.stage = "free" <=> x = Free
           /\ x.stage = "created" <=> x \in Created
           /\ x.stage = "running" <=> x \in Running
           /\ x.stage = "done" <=> x \in Done
BY DEF TaskType, Free, Created, Running, Done

\* What is over and unreferenced is forgotten, and nothing else.
LEMMA KeptIs ==
    ASSUME NEW tasks \in [Probe -> TaskType]
    PROVE  /\ Kept(tasks) \in [Probe -> TaskType]
           /\ \A t \in Probe : \/ Kept(tasks)[t] = tasks[t]
                               \/ /\ Kept(tasks)[t] = Free /\ tasks[t].stage = "done"
                                  /\ inflight' # t /\ \A c \in Caller : waits'[c] # t
BY DEF Kept, TaskType

\* A set with at most one further element has at most one more.
LEMMA OneMore ==
    ASSUME NEW S, NEW x, NEW T \in SUBSET (S \cup {x}), IsFiniteSet(S)
    PROVE  /\ IsFiniteSet(T) /\ Cardinality(T) \in Nat /\ Cardinality(S) \in Nat
           /\ Cardinality(T) <= Cardinality(S) + 1
<1>1. Cardinality(S) \in Nat
  BY FS_CardinalityType
<1>2. /\ IsFiniteSet(S \cup {x})
      /\ Cardinality(S \cup {x}) = Cardinality(S) \/ Cardinality(S \cup {x}) = Cardinality(S) + 1
  BY FS_AddElement
<1>3. IsFiniteSet(T) /\ Cardinality(T) <= Cardinality(S \cup {x})
  BY <1>2, FS_Subset
<1>4. Cardinality(T) \in Nat
  BY <1>3, FS_CardinalityType
<1> QED BY <1>1, <1>2, <1>3, <1>4

\* A step that leaves no further task on its way unregistered keeps them counted.
LEMMA NoMoreOrphans ==
    ASSUME OrphansAreCounted, TypeOK, IsFiniteSet(Alive'), Orphans' \subseteq Orphans,
           cancelled' = cancelled, changes' \in {changes, changes + 1}
    PROVE  OrphansAreCounted'
<1>1. IsFiniteSet(Orphans)
  BY FS_Subset DEF OrphansAreCounted, Orphans
<1>2. IsFiniteSet(Orphans') /\ Cardinality(Orphans') <= Cardinality(Orphans)
  BY <1>1, FS_Subset
<1>3. Cardinality(Orphans) \in Nat /\ Cardinality(Orphans') \in Nat
  BY <1>1, <1>2, FS_CardinalityType
<1> QED BY <1>2, <1>3, ProbeAssumption DEF OrphansAreCounted, TypeOK

\* A caller's call that changes neither tasks nor settings.
LEMMA ServeKeeps ==
    ASSUME ProbeInv, NEW c \in Caller, Serve(c)
    PROVE  ProbeInv'
<1> USE DEF Serve, Ask, ProbeInv
<1>1. cache \in [fingerprint : Setting, row : Row] /\ now \in 0..MaxTime /\ setting \in Setting
  BY DEF Hit, TypeOK
<1>2. TypeOK'
  BY <1>1 DEF TypeOK
<1>3. CacheFits' /\ RegisteredIsAwaited' /\ OrphansAreCounted' /\ \A t \in Probe : TaskFits(t)'
  BY DEF CacheFits, RegisteredIsAwaited, OrphansAreCounted, Orphans, Alive, TaskFits
<1>4. ASSUME NEW d \in Caller PROVE WaitFits(d)'
  BY <1>1 DEF WaitFits, TypeOK
<1>5. AnswersAreTrue'
  BY <1>1, ProbeAssumption
     DEF TypeOK, AnswersAreTrue, AnswerIsFresh, AnswerFitsTheSettings, CacheFits, Hit, Row
<1> QED BY <1>2, <1>3, <1>4, <1>5

\* A caller that joins finds a task that another one waits for.
LEMMA JoinKeeps ==
    ASSUME ProbeInv, NEW c \in Caller, Join(c)
    PROVE  ProbeInv'
<1> USE DEF Join, Ask, ProbeInv
<1>1. TypeOK'
  BY DEF TypeOK
<1>2. CacheFits' /\ OrphansAreCounted' /\ \A t \in Probe : TaskFits(t)'
  BY DEF CacheFits, OrphansAreCounted, Orphans, Alive, TaskFits
<1>3. PICK e \in Caller : waits[e] = inflight
  BY DEF RegisteredIsAwaited
<1>4. ASSUME NEW d \in Caller PROVE WaitFits(d)'
  <2>1. WaitFits(d) /\ WaitFits(e)
    OBVIOUS
  <2> QED BY <1>3, <2>1 DEF WaitFits, TypeOK
<1>5. RegisteredIsAwaited'
  BY <1>3 DEF RegisteredIsAwaited, TypeOK
<1>6. AnswersAreTrue'
  BY DEF AnswersAreTrue, AnswerIsFresh, AnswerFitsTheSettings, TypeOK
<1> QED BY <1>1, <1>2, <1>4, <1>5, <1>6

\* Where no task is registered all that are on their way are orphans, and the new one is not.
LEMMA CreateKeeps ==
    ASSUME ProbeInv, NEW c \in Caller, NEW t \in Probe, Create(c, t)
    PROVE  ProbeInv'
<1> USE ProbeAssumption DEF Create, NewTask, Ask, ProbeInv
<1>1. task[t] = Free /\ task \in [Probe -> TaskType]
  BY DEF TypeOK, TaskType
<1>2. TypeOK'
  BY DEF TypeOK, Created
<1>3. CacheFits' /\ \A u \in Probe : TaskFits(u)'
  BY <1>1 DEF CacheFits, TaskFits
<1>4. ASSUME NEW d \in Caller PROVE WaitFits(d)'
  <2>1. WaitFits(d) /\ now \in Nat
    BY DEF TypeOK
  <2>2. CASE d = c
    BY <2>1, <2>2, <1>1 DEF WaitFits, TypeOK
  <2>3. CASE d # c
    BY <2>1, <2>3, <1>1 DEF WaitFits, TypeOK, Free
  <2> QED BY <2>2, <2>3
<1>5. RegisteredIsAwaited'
  BY DEF RegisteredIsAwaited, TypeOK
<1>6. OrphansAreCounted'
  <2>1. IsFiniteSet(Alive \cup {t})
    BY FS_AddElement DEF OrphansAreCounted
  <2>2. Alive' = Alive \cup {t} /\ Orphans' = Orphans
    BY <1>1 DEF Alive, Orphans, Free
  <2> QED BY <2>1, <2>2, NoMoreOrphans
<1>7. AnswersAreTrue'
  BY DEF AnswersAreTrue, AnswerIsFresh, AnswerFitsTheSettings, TypeOK
<1> QED BY <1>2, <1>3, <1>4, <1>5, <1>6, <1>7

\* A task measures under the settings it finds when it runs.
LEMMA ProbeStartsKeeps ==
    ASSUME ProbeInv, NEW t \in Probe, ProbeStarts(t)
    PROVE  ProbeInv'
<1> USE DEF ProbeStarts, callerVars, ProbeInv
<1>1. task[t] \in Created /\ task \in [Probe -> TaskType]
  BY StageTells DEF TypeOK, TaskType
<1>2. TypeOK'
  BY <1>1 DEF TypeOK, Created, Running
<1>3. CacheFits' /\ RegisteredIsAwaited' /\ AnswersAreTrue'
  BY DEF CacheFits, RegisteredIsAwaited, AnswersAreTrue, AnswerIsFresh, AnswerFitsTheSettings
<1>4. ASSUME NEW u \in Probe PROVE TaskFits(u)'
  BY <1>1 DEF TaskFits
<1>5. ASSUME NEW d \in Caller PROVE WaitFits(d)'
  BY <1>1 DEF WaitFits, TypeOK
<1>6. OrphansAreCounted'
  BY <1>1 DEF OrphansAreCounted, Alive, Orphans
<1> QED BY <1>2, <1>3, <1>4, <1>5, <1>6

\* The row of a task whose lifetime saw no change is of the settings its fingerprint is of.
LEMMA ProbeEndsKeeps ==
    ASSUME ProbeInv, NEW t \in Probe, NEW success \in BOOLEAN, ProbeEnds(t, success)
    PROVE  ProbeInv'
<1> USE DEF ProbeInv
<1> DEFINE found == [at |-> now, success |-> success, measured |-> task[t].measured,
                     moved |-> task[t].moved]
           over == [stage |-> "done", moved |-> task[t].moved, row |-> found]
           closed == [task EXCEPT ![t] = over]
<1>1. task[t] \in Running /\ task \in [Probe -> TaskType]
  BY StageTells DEF ProbeEnds, TypeOK, TaskType
<1>2. found \in Row /\ over \in Done
  BY <1>1 DEF TypeOK, Row, Running, Done
<1>3. closed \in [Probe -> TaskType]
  BY <1>1, <1>2 DEF TaskType
<1>4. /\ task' = Kept(closed) /\ cache' = [fingerprint |-> task[t].fingerprint, row |-> found]
      /\ UNCHANGED <<now, setting, inflight, waits, asked, answer, cancelled, changes>>
  BY DEF ProbeEnds, callerVars
<1>5. task' \in [Probe -> TaskType] /\ \A u \in Probe :
           \/ task'[u] = closed[u]
           \/ task'[u] = Free /\ closed[u].stage = "done" /\ \A d \in Caller : waits[d] # u
  BY <1>3, <1>4, KeptIs
<1>6. \A u \in Probe \ {t} : closed[u] = task[u]
  BY <1>1
<1>7. closed[t] = over
  BY <1>1
<1>8. over.stage = "done" /\ over.moved = task[t].moved /\ over.row = found
      /\ found.at = now /\ found.measured = task[t].measured /\ found.moved = task[t].moved
  OBVIOUS
<1> HIDE DEF over, found, closed
<1>9. TypeOK'
  BY <1>1, <1>2, <1>4, <1>5 DEF TypeOK, TaskType, Running
<1>10. CacheFits'
  <2>1. TaskFits(t) /\ now \in Nat
    BY DEF TypeOK
  <2> QED BY <1>1, <1>4, <1>8, <2>1 DEF CacheFits, TaskFits, Running
<1>11. ASSUME NEW u \in Probe PROVE TaskFits(u)'
  <2>1. TaskFits(t) /\ TaskFits(u) /\ task[t].stage = "running"
    BY DEF ProbeEnds
  <2>2. CASE task'[u] = Free
    BY <2>2 DEF TaskFits, Free
  <2>3. CASE u = t /\ task'[u] = over
    BY <2>1, <2>3, <1>4, <1>8 DEF TaskFits
  <2>4. CASE u # t /\ task'[u] = task[u]
    BY <2>1, <2>4, <1>4 DEF TaskFits
  <2> QED BY <1>5, <1>6, <1>7, <2>2, <2>3, <2>4
<1>12. ASSUME NEW d \in Caller PROVE WaitFits(d)'
  <2>1. WaitFits(d) /\ task[t].stage = "running"
    BY DEF ProbeEnds
  <2>2. waits[d] # NoProbe => waits[d] \in Probe /\ task'[waits[d]] = closed[waits[d]]
    BY <1>5 DEF TypeOK
  <2> QED BY <2>1, <2>2, <1>4, <1>6, <1>7, <1>8 DEF WaitFits
<1>13. Alive' \subseteq Alive /\ Orphans' \subseteq Orphans
  BY <1>4, <1>5, <1>6, <1>7, <1>8 DEF Alive, Orphans, Free
<1>14. OrphansAreCounted'
  <2>1. IsFiniteSet(Alive')
    BY <1>13, FS_Subset DEF OrphansAreCounted
  <2> QED BY <2>1, <1>4, <1>13, NoMoreOrphans
<1>15. RegisteredIsAwaited' /\ AnswersAreTrue'
  BY <1>4 DEF RegisteredIsAwaited, AnswersAreTrue, AnswerIsFresh, AnswerFitsTheSettings
<1> QED BY <1>9, <1>10, <1>11, <1>12, <1>14, <1>15

\* What a caller that leaves its task leaves behind.
LEMMA LeaveKeeps ==
    ASSUME ProbeInv, NEW c \in Caller, Leave(c), task' = Kept(task),
           UNCHANGED <<now, setting, cache, asked>>
    PROVE  /\ task' \in [Probe -> TaskType] /\ waits' \in [Caller -> Probe \cup {NoProbe}]
           /\ inflight' \in Probe \cup {NoProbe}
           /\ CacheFits' /\ RegisteredIsAwaited' /\ Alive' = Alive
           /\ \A t \in Probe : TaskFits(t)'
           /\ \A d \in Caller : WaitFits(d)'
<1> USE ProbeAssumption DEF Leave, ProbeInv
<1>1. task \in [Probe -> TaskType]
  BY DEF TypeOK, TaskType
<1>2. task' \in [Probe -> TaskType] /\ \A u \in Probe :
           \/ task'[u] = task[u]
           \/ task'[u] = Free /\ task[u].stage = "done" /\ \A d \in Caller : waits'[d] # u
  BY <1>1, KeptIs
<1>3. waits' \in [Caller -> Probe \cup {NoProbe}] /\ inflight' \in Probe \cup {NoProbe}
  BY DEF TypeOK
<1>4. CacheFits' /\ RegisteredIsAwaited'
  BY DEF CacheFits, RegisteredIsAwaited, TypeOK
<1>5. ASSUME NEW t \in Probe PROVE TaskFits(t)'
  BY <1>2 DEF TaskFits, Free
<1>6. ASSUME NEW d \in Caller PROVE WaitFits(d)'
  <2>1. WaitFits(d) /\ (waits'[d] = waits[d] \/ waits'[d] = NoProbe)
    BY DEF TypeOK
  <2>2. waits'[d] # NoProbe => task'[waits'[d]] = task[waits'[d]]
    BY <1>2, <1>3
  <2> QED BY <2>1, <2>2 DEF WaitFits
<1>7. Alive' = Alive
  BY <1>2 DEF Alive, Free
<1> QED BY <1>2, <1>3, <1>4, <1>5, <1>6, <1>7

\* A caller that resumes leaves a task that is over, so nothing is orphaned.
LEMMA WakeKeeps ==
    ASSUME ProbeInv, NEW c \in Caller, Wake(c)
    PROVE  ProbeInv'
<1> DEFINE t == waits[c]
           told == [task[t].row EXCEPT !.moved = task[t].moved]
<1>1. /\ Leave(c) /\ t \in Probe /\ task[t].stage = "done" /\ task' = Kept(task)
      /\ answer' = [answer EXCEPT ![c] = told]
      /\ UNCHANGED <<now, setting, cache, asked, cancelled, changes>>
  BY DEF Wake, Leave, ProbeInv, TypeOK
<1>2. task[t] \in Done
  BY <1>1, StageTells DEF ProbeInv, TypeOK, TaskType
<1>3. told \in Row /\ told.at = task[t].row.at /\ told.measured = task[t].row.measured
      /\ told.moved = task[t].moved
  BY <1>2 DEF Done, Row
<1> HIDE DEF told
<1>4. TypeOK'
  BY <1>1, <1>3, LeaveKeeps DEF ProbeInv, TypeOK, TaskType
<1>5. Orphans' \subseteq Orphans /\ IsFiniteSet(Alive')
  <2>1. Alive' = Alive /\ t \notin Alive /\ (inflight' = inflight \/ inflight = t)
    BY <1>1, LeaveKeeps DEF Alive, Leave
  <2> QED BY <2>1 DEF Orphans, ProbeInv, OrphansAreCounted
<1>6. OrphansAreCounted'
  BY <1>1, <1>5, NoMoreOrphans DEF ProbeInv
<1>7. AnswersAreTrue'
  <2>1. WaitFits(c) /\ TaskFits(t) /\ t # NoProbe /\ asked[c].at \in Nat /\ now \in Nat
    BY <1>1, ProbeAssumption DEF ProbeInv, TypeOK
  <2>2. AnswerIsFresh(c)' /\ AnswerFitsTheSettings(c)'
    BY <1>1, <1>3, <2>1 DEF ProbeInv, TypeOK, WaitFits, TaskFits, AnswerIsFresh, AnswerFitsTheSettings
  <2>3. ASSUME NEW d \in Caller \ {c} PROVE answer'[d] = answer[d]
    BY <1>1 DEF ProbeInv, TypeOK
  <2> QED BY <1>1, <2>2, <2>3 DEF ProbeInv, AnswersAreTrue, AnswerIsFresh, AnswerFitsTheSettings
<1> QED BY <1>1, <1>4, <1>6, <1>7, LeaveKeeps DEF ProbeInv

\* A caller that is cancelled orphans its task at most, and is counted for it.
LEMMA CancelKeeps ==
    ASSUME ProbeInv, NEW c \in Caller, Cancel(c)
    PROVE  ProbeInv'
<1>1. /\ Leave(c) /\ task' = Kept(task) /\ cancelled' = cancelled + 1 /\ changes' = changes + 1
      /\ changes < MaxChanges /\ UNCHANGED <<now, setting, cache, asked, answer>>
  BY DEF Cancel, Change
<1>2. cancelled \in Nat /\ changes \in Nat /\ cancelled <= changes /\ MaxChanges \in Nat
  BY ProbeAssumption DEF ProbeInv, TypeOK, OrphansAreCounted
<1>3. TypeOK'
  BY <1>1, <1>2, LeaveKeeps DEF ProbeInv, TypeOK, TaskType
<1>4. OrphansAreCounted'
  <2>1. Alive' = Alive /\ (inflight' = inflight \/ inflight' = NoProbe)
    BY <1>1, LeaveKeeps DEF Leave
  <2>2. Orphans' \subseteq Orphans \cup {inflight}
    BY <2>1 DEF Orphans
  <2>3. IsFiniteSet(Alive) /\ IsFiniteSet(Orphans) /\ Cardinality(Orphans) <= cancelled
    BY FS_Subset DEF ProbeInv, OrphansAreCounted, Orphans
  <2>4. /\ Cardinality(Orphans') \in Nat /\ Cardinality(Orphans) \in Nat
        /\ Cardinality(Orphans') <= Cardinality(Orphans) + 1
    BY <2>2, <2>3, OneMore
  <2> QED BY <1>1, <1>2, <2>1, <2>3, <2>4 DEF OrphansAreCounted
<1>5. AnswersAreTrue'
  BY <1>1 DEF ProbeInv, AnswersAreTrue, AnswerIsFresh, AnswerFitsTheSettings
<1> QED BY <1>1, <1>3, <1>4, <1>5, LeaveKeeps DEF ProbeInv

\* A change of settings marks the tasks it finds.
LEMMA ReconfigureKeeps ==
    ASSUME ProbeInv, NEW s \in Setting, Reconfigure(s)
    PROVE  ProbeInv'
<1> USE ProbeAssumption DEF Reconfigure, Change, callerVars, ProbeInv
<1>1. task \in [Probe -> TaskType]
  BY DEF TypeOK, TaskType
<1>2. ASSUME NEW x \in TaskType, x # Free
      PROVE  /\ [x EXCEPT !.moved = TRUE] \in TaskType /\ [x EXCEPT !.moved = TRUE].moved
             /\ [x EXCEPT !.moved = TRUE].stage = x.stage
             /\ x.stage = "done" => [x EXCEPT !.moved = TRUE].row = x.row
  BY <1>2 DEF TaskType, Created, Running, Done
<1>3. \A t \in Probe : \/ task[t] = Free /\ task'[t] = Free
                       \/ /\ task[t] # Free /\ task'[t].moved /\ task'[t].stage = task[t].stage
                          /\ task[t].stage = "done" => task'[t].row = task[t].row
  BY <1>1, <1>2
<1>4. task' \in [Probe -> TaskType]
  BY <1>1, <1>2
<1>5. TypeOK'
  BY <1>4 DEF TypeOK, TaskType
<1>6. CacheFits' /\ RegisteredIsAwaited' /\ AnswersAreTrue'
  BY DEF CacheFits, RegisteredIsAwaited, AnswersAreTrue, AnswerIsFresh, AnswerFitsTheSettings
<1>7. ASSUME NEW t \in Probe PROVE TaskFits(t)'
  BY <1>3 DEF TaskFits, Free
<1>8. ASSUME NEW d \in Caller PROVE WaitFits(d)'
  <2>1. WaitFits(d) /\ waits[d] \in Probe \cup {NoProbe}
    BY DEF TypeOK
  <2> QED BY <1>3, <2>1 DEF WaitFits, Free
<1>9. Alive' = Alive /\ Orphans' = Orphans
  BY <1>3 DEF Alive, Orphans
<1>10. OrphansAreCounted'
  BY <1>9, NoMoreOrphans DEF OrphansAreCounted
<1> QED BY <1>5, <1>6, <1>7, <1>8, <1>10

\* The cache is emptied; tasks and callers are not told.
LEMMA InvalidateKeeps ==
    ASSUME ProbeInv, Invalidate
    PROVE  ProbeInv'
<1> USE ProbeAssumption DEF Invalidate, Change, callerVars, ProbeInv
<1>1. TypeOK'
  BY DEF TypeOK
<1>2. CacheFits' /\ RegisteredIsAwaited' /\ AnswersAreTrue' /\ \A t \in Probe : TaskFits(t)'
  BY DEF CacheFits, TaskFits, RegisteredIsAwaited, AnswersAreTrue, AnswerIsFresh, AnswerFitsTheSettings
<1>3. ASSUME NEW d \in Caller PROVE WaitFits(d)'
  BY DEF WaitFits
<1>4. OrphansAreCounted'
  BY NoMoreOrphans DEF OrphansAreCounted, Orphans, Alive
<1> QED BY <1>1, <1>2, <1>3, <1>4

\* The clock waits for callers that have a row to take.
LEMMA TickKeeps ==
    ASSUME ProbeInv, Tick
    PROVE  ProbeInv'
<1> USE ProbeAssumption DEF Tick, ClockAdvances, callerVars, ProbeInv
<1>1. TypeOK'
  BY DEF TypeOK
<1>2. CacheFits'
  BY DEF CacheFits, TypeOK, Row
<1>3. /\ RegisteredIsAwaited' /\ AnswersAreTrue' /\ OrphansAreCounted'
      /\ \A t \in Probe : TaskFits(t)'
  BY DEF TaskFits, RegisteredIsAwaited, AnswersAreTrue, AnswerIsFresh, AnswerFitsTheSettings,
     OrphansAreCounted, Orphans, Alive
<1>4. ASSUME NEW d \in Caller PROVE WaitFits(d)'
  BY DEF WaitFits, TypeOK
<1> QED BY <1>1, <1>2, <1>3, <1>4

------------------------------------------------------------------------------
(* What holds of every provider's probes *)

\* At the start nothing is cached and nobody waits.
LEMMA ProbeInvInit == Init => ProbeInv
<1> SUFFICES ASSUME Init PROVE ProbeInv
  OBVIOUS
<1>1. TypeOK
  BY ProbeAssumption DEF Init, TypeOK, Free
<1>2. Alive = {}
  BY DEF Init, Alive, Free
<1>3. Orphans = {} /\ IsFiniteSet(Alive) /\ Cardinality(Orphans) = 0
  BY <1>2, FS_EmptySet DEF Orphans
<1> QED
  BY <1>1, <1>3 DEF Init, ProbeInv, CacheFits, TaskFits, WaitFits, RegisteredIsAwaited, OrphansAreCounted,
     AnswersAreTrue, Free

\* The invariant holds in every state, for any callers, lifetimes and settings.
THEOREM ProbeInvariant == Spec => []ProbeInv
<1>1. ProbeInv /\ [Next]_vars => ProbeInv'
  <2> SUFFICES ASSUME ProbeInv, [Next]_vars PROVE ProbeInv'
    OBVIOUS
  <2>1. CASE UNCHANGED vars
    BY <2>1 DEF vars, callerVars, ProbeInv, TypeOK, CacheFits, TaskFits, WaitFits, RegisteredIsAwaited,
       OrphansAreCounted, Orphans, Alive, AnswersAreTrue, AnswerIsFresh, AnswerFitsTheSettings
  <2>2. CASE Next
    BY <2>2, ServeKeeps, JoinKeeps, CreateKeeps, ProbeStartsKeeps, ProbeEndsKeeps, WakeKeeps, CancelKeeps,
       ReconfigureKeeps, InvalidateKeeps, TickKeeps DEF Next
  <2> QED BY <2>1, <2>2
<1> QED BY <1>1, ProbeInvInit, PTL DEF Spec

\* Every variable of the probe cache keeps its type.
THEOREM ProbeTypeCorrect == Spec => []TypeOK
BY ProbeInvariant, PTL DEF ProbeInv

\* However many callers ask, join and are cancelled, at most one health call more is on its way
\* than callers were cancelled.
THEOREM ProbesAlwaysCoalesce == Spec => []ProbesCoalesce
<1>1. ProbeInv => ProbesCoalesce
  <2> SUFFICES ASSUME ProbeInv PROVE Cardinality(Alive) <= 1 + cancelled
    BY DEF ProbesCoalesce
  <2>1. IsFiniteSet(Alive) /\ IsFiniteSet(Orphans) /\ Cardinality(Orphans) <= cancelled /\ cancelled \in Nat
    BY FS_Subset, ProbeAssumption DEF ProbeInv, TypeOK, OrphansAreCounted, Orphans
  <2>2. Alive \subseteq Orphans \cup {inflight}
    BY DEF Orphans
  <2>3. /\ Cardinality(Alive) \in Nat /\ Cardinality(Orphans) \in Nat
        /\ Cardinality(Alive) <= Cardinality(Orphans) + 1
    BY <2>1, <2>2, OneMore
  <2> QED BY <2>1, <2>3
<1> QED BY <1>1, ProbeInvariant, PTL

\* Whatever the cache serves or a shared task brings, the row a caller is told is recent enough
\* and was measured under the settings it asked about, unless they moved during the measurement.
THEOREM AnswersAlwaysTrue == Spec => []AnswersAreTrue
BY ProbeInvariant, PTL DEF ProbeInv

------------------------------------------------------------------------------
(***************************************************************************)
(* The prompt editor, for texts over any letters and of any length: a      *)
(* vertical move and the one against it return to where they began.        *)
(*                                                                         *)
(* That needs the line of a place: how many newlines are before it, which  *)
(* is the rank of its line's start among the starts.  Then a move to line  *)
(* k with a column lands on line k, and a cursor that is where its column  *)
(* puts it (CursorIsPlaced: every key but Up and Down leaves it there, for *)
(* they forget the column) is found again by the move back.  That is the   *)
(* invariant; a draft set from outside moves the cursor and keeps the      *)
(* column, which is why the property does not speak of one (`loaded`).     *)
(***************************************************************************)

\* The least of some natural numbers.
LEMMA MinIs ==
    ASSUME NEW S \in SUBSET Nat, S # {}
    PROVE  Min(S) \in S /\ \A n \in S : Min(S) <= n
BY LeastNatural DEF Min

\* How many of S are below c.
Rank(S, c) == Cardinality({t \in S : t < c})

\* Ranks are numbers, which grow with what they are ranks of, by one at each element.
Ranked(S) ==
    /\ Rank(S, 0) = 0
    /\ \A c \in Nat : Rank(S, c) \in Nat
    /\ \A c, d \in Nat : c <= d => Rank(S, c) <= Rank(S, d)
    /\ \A c \in S : Rank(S, c + 1) = Rank(S, c) + 1
    /\ \A c \in Nat \ S : Rank(S, c + 1) = Rank(S, c)

\* The elements below one place and those below another.
LEMMA Below ==
    ASSUME NEW S, \A t \in S : t \in Nat, NEW c \in Nat
    PROVE  /\ {t \in S : t < c} \in SUBSET S
           /\ \A d \in Nat : c <= d => {t \in S : t < c} \in SUBSET {t \in S : t < d}
           /\ c \in S => {t \in S : t < c + 1} = {t \in S : t < c} \cup {c}
           /\ c \notin S => {t \in S : t < c + 1} = {t \in S : t < c}
           /\ c \notin {t \in S : t < c}
           /\ (\A t \in S : t < c) => {t \in S : t < c} = S
           /\ {t \in S : t < 0} = {}
OBVIOUS

LEMMA RanksGrow ==
    ASSUME NEW n \in Nat, NEW S \in SUBSET (0..n)
    PROVE  Ranked(S) /\ Rank(S, n + 1) = Cardinality(S)
<1>0. n + 1 \in Nat /\ \A t \in S : t \in Nat /\ t < n + 1
  OBVIOUS
<1>1. \A T \in SUBSET S : IsFiniteSet(T) /\ Cardinality(T) \in Nat
  <2>1. IsFiniteSet(0..n)
    BY FS_Interval
  <2>2. IsFiniteSet(S)
    BY <2>1, FS_Subset
  <2> QED
    BY <2>2, FS_Subset, FS_CardinalityType
<1>2. ASSUME NEW c \in Nat, NEW d \in Nat, c <= d
      PROVE  Rank(S, c) <= Rank(S, d)
  <2>1. \A e \in Nat : c <= e => {t \in S : t < c} \in SUBSET {t \in S : t < e}
    BY <1>0, Below
  <2>2. {t \in S : t < c} \in SUBSET {t \in S : t < d}
    BY <1>2, <2>1
  <2> QED
    BY <1>1, <2>2, FS_Subset DEF Rank
<1>3. ASSUME NEW c \in S PROVE Rank(S, c + 1) = Rank(S, c) + 1
  <2>1. {t \in S : t < c + 1} = {t \in S : t < c} \cup {c} /\ c \notin {t \in S : t < c}
    BY <1>0, Below
  <2>2. IsFiniteSet({t \in S : t < c})
    BY <1>1
  <2> QED
    BY <2>1, <2>2, FS_AddElement DEF Rank
<1>4. ASSUME NEW c \in Nat \ S PROVE Rank(S, c + 1) = Rank(S, c)
  <2>1. {t \in S : t < c + 1} = {t \in S : t < c}
    BY <1>0, Below
  <2> QED
    BY <2>1 DEF Rank
<1>5. {t \in S : t < n + 1} = S /\ {t \in S : t < 0} = {}
  BY <1>0, Below
<1>6. Rank(S, n + 1) = Cardinality(S) /\ Rank(S, 0) = 0
  BY <1>5, FS_EmptySet DEF Rank
<1>7. \A c \in Nat : Rank(S, c) \in Nat
  BY <1>1 DEF Rank
<1> QED
  BY <1>2, <1>3, <1>4, <1>6, <1>7 DEF Ranked

\* Every rank is that of one element, and of one only.
LEMMA RankIsTaken ==
    ASSUME NEW n \in Nat, NEW S \in SUBSET (0..n), NEW k \in Nat, k < Cardinality(S)
    PROVE  \E s \in S : Rank(S, s) = k
<1> DEFINE T == {i \in 0..(n + 1) : Rank(S, i) > k}
<1>1. Ranked(S) /\ Rank(S, n + 1) = Cardinality(S)
  BY RanksGrow
<1>2. n + 1 \in T
  BY <1>1
<1>3. PICK i \in T : \A j \in T : i <= j
  <2>1. T \in SUBSET Nat
    OBVIOUS
  <2> QED
    BY <1>2, <2>1, LeastNatural
<1>4. i # 0
  BY <1>1 DEF Ranked
<1>5. i - 1 \in Nat /\ i - 1 \notin T /\ i - 1 \in 0..(n + 1) /\ (i - 1) + 1 = i
  BY <1>3, <1>4
<1>6. Rank(S, i - 1) \in Nat /\ Rank(S, i - 1) <= k /\ Rank(S, i) > k
  BY <1>1, <1>5 DEF Ranked
<1>7. i - 1 \in S
  BY <1>1, <1>5, <1>6 DEF Ranked
<1>8. Rank(S, i) = Rank(S, i - 1) + 1
  BY <1>1, <1>5, <1>7 DEF Ranked
<1> QED
  BY <1>6, <1>7, <1>8

\* Different elements have different ranks.
LEMMA RankIsOnes ==
    ASSUME NEW S \in SUBSET Nat, Ranked(S), NEW s \in S, NEW t \in S, Rank(S, s) = Rank(S, t)
    PROVE  s = t
<1>1. ASSUME NEW a \in S, NEW b \in S, a < b
      PROVE  Rank(S, a) < Rank(S, b)
  <2>1. a \in Nat /\ b \in Nat /\ a + 1 \in Nat /\ a + 1 <= b
    BY <1>1
  <2>2. Rank(S, a + 1) = Rank(S, a) + 1 /\ Rank(S, a) \in Nat /\ Rank(S, b) \in Nat
        /\ Rank(S, a + 1) <= Rank(S, b)
    BY <2>1 DEF Ranked
  <2> QED
    BY <2>2
<1>2. s \in Nat /\ t \in Nat /\ Rank(S, s) \in Nat
  BY DEF Ranked
<1> QED
  BY <1>1, <1>2

------------------------------------------------------------------------------
\* What the editor is.
Editor ==
    [text : Seq(Char), cursor : Nat, anchor : Nat \cup {NoIndex}, column : Nat \cup {NoIndex}]

Fits(e) == e \in Editor /\ e.cursor <= Len(e.text)

\* The lines of a text: every start but the first is behind a newline.
LEMMA StartsAreIn ==
    ASSUME NEW e \in Editor
    PROVE  /\ Len(e.text) \in Nat
           /\ Newlines(e) \in SUBSET (0..Len(e.text)) /\ Starts(e) \in SUBSET (0..Len(e.text))
BY DEF Editor, Newlines, Starts

LEMMA StartsAre ==
    ASSUME NEW e \in Editor
    PROVE  /\ Len(e.text) \in Nat
           /\ \A i \in Newlines(e) : i \in Nat /\ i < Len(e.text) /\ i + 1 \in Starts(e)
           /\ \A i \in Starts(e) : i \in Nat /\ i <= Len(e.text) /\ (i # 0 => i - 1 \in Newlines(e))
           /\ 0 \in Starts(e)
           /\ Ranked(Newlines(e)) /\ Ranked(Starts(e))
           /\ Rank(Newlines(e), Len(e.text) + 1) = Cardinality(Newlines(e))
           /\ Rank(Starts(e), Len(e.text) + 1) = Cardinality(Starts(e))
<1>1. Len(e.text) \in Nat
  BY DEF Editor
<1>2. \A i \in Newlines(e) : i \in Nat /\ i < Len(e.text) /\ i + 1 \in Starts(e)
  BY <1>1 DEF Newlines, Starts
<1>3. \A i \in Starts(e) : i \in Nat /\ i <= Len(e.text) /\ (i # 0 => i - 1 \in Newlines(e))
  BY <1>1 DEF Newlines, Starts
<1>4. 0 \in Starts(e)
  BY DEF Starts
<1>5. /\ Ranked(Newlines(e)) /\ Ranked(Starts(e))
      /\ Rank(Newlines(e), Len(e.text) + 1) = Cardinality(Newlines(e))
      /\ Rank(Starts(e), Len(e.text) + 1) = Cardinality(Starts(e))
  BY StartsAreIn, RanksGrow
<1> QED
  BY <1>1, <1>2, <1>3, <1>4, <1>5

\* As many starts are up to a place as newlines are before it, and one more.
LEMMA StartsAndNewlines ==
    ASSUME NEW e \in Editor, NEW c \in 0..Len(e.text)
    PROVE  Rank(Starts(e), c + 1) = Rank(Newlines(e), c) + 1
<1> DEFINE n == Len(e.text)
           S == {i \in 0..n : Rank(Starts(e), i + 1) = Rank(Newlines(e), i) + 1}
<1>1. n \in Nat
  BY StartsAre
<1>2. 0 \in S
  <2>1. Rank(Starts(e), 0 + 1) = Rank(Starts(e), 0) + 1
    BY <1>1, StartsAre DEF Ranked
  <2>2. Rank(Starts(e), 0) = 0 /\ Rank(Newlines(e), 0) = 0
    BY <1>1, StartsAre DEF Ranked
  <2> QED
    BY <1>1, <2>1, <2>2
<1>3. ASSUME NEW i \in 1..n, i - 1 \in S
      PROVE  i \in S
  <2> DEFINE j == i - 1
  <2>1. j \in Nat /\ i = j + 1 /\ i \in Nat
    BY <1>1
  <2>2. /\ i \in Starts(e) => Rank(Starts(e), i + 1) = Rank(Starts(e), i) + 1
        /\ i \notin Starts(e) => Rank(Starts(e), i + 1) = Rank(Starts(e), i)
    BY <1>1, <2>1, StartsAre DEF Ranked
  <2>3. /\ j \in Newlines(e) => Rank(Newlines(e), i) = Rank(Newlines(e), j) + 1
        /\ j \notin Newlines(e) => Rank(Newlines(e), i) = Rank(Newlines(e), j)
    BY <1>1, <2>1, StartsAre DEF Ranked
  <2>4. j \in Newlines(e) <=> i \in Starts(e)
    BY <2>1, StartsAre
  <2>5. Rank(Starts(e), i) = Rank(Newlines(e), j) + 1
    BY <1>3, <2>1
  <2>6. Rank(Newlines(e), j) \in Nat
    BY <1>1, <2>1, StartsAre DEF Ranked
  <2> QED
    BY <2>2, <2>3, <2>4, <2>5, <2>6
<1>4. 0..n \subseteq S
  <2> HIDE DEF S, n
  <2> QED
    BY <1>1, <1>2, <1>3, UpTo
<1> QED
  BY <1>4

\* Every line has a start.
LEMMA LineStarts ==
    ASSUME NEW e \in Editor
    PROVE  /\ Cardinality(Newlines(e)) \in Nat
           /\ \A k \in 0..Cardinality(Newlines(e)) :
                 LineStart(e, k) \in Starts(e) /\ Rank(Starts(e), LineStart(e, k)) = k
<1> DEFINE n == Len(e.text)
<1>1. n \in Nat /\ n + 1 \in Nat
  BY StartsAre
<1>2. Rank(Newlines(e), n) \in Nat /\ Rank(Newlines(e), n + 1) = Cardinality(Newlines(e))
  BY <1>1, StartsAre DEF Ranked
<1>3. Rank(Newlines(e), n + 1) = Rank(Newlines(e), n)
  BY <1>1, StartsAre DEF Ranked
<1>4. Rank(Starts(e), n + 1) = Cardinality(Starts(e))
  BY <1>1, StartsAre DEF Ranked
<1>5. Cardinality(Starts(e)) = Cardinality(Newlines(e)) + 1
  BY <1>1, <1>2, <1>3, <1>4, StartsAndNewlines
<1>6. ASSUME NEW k \in 0..Cardinality(Newlines(e))
      PROVE  LineStart(e, k) \in Starts(e) /\ Rank(Starts(e), LineStart(e, k)) = k
  <2>1. k \in Nat /\ k < Cardinality(Starts(e))
    BY <1>2, <1>3, <1>5
  <2>2. \E s \in Starts(e) : Rank(Starts(e), s) = k
    BY <1>1, <2>1, StartsAreIn, RankIsTaken
  <2> QED
    BY <2>2 DEF LineStart, Rank
<1> QED
  BY <1>2, <1>3, <1>6

\* The end of a line is the first newline behind its start, or the end of the text.
LEMMA LineEnds ==
    ASSUME NEW e \in Editor, NEW s \in Starts(e)
    PROVE  /\ LineEnd(e, s) \in s..Len(e.text)
           /\ \A i \in Newlines(e) : i >= s => LineEnd(e, s) <= i
<1> DEFINE E == {i \in Newlines(e) : i >= s} \cup {Len(e.text)}
<1>1. E \in SUBSET Nat /\ E # {} /\ s \in Nat /\ s <= Len(e.text)
  BY StartsAre
<1>2. Min(E) \in E /\ \A i \in E : Min(E) <= i
  BY <1>1, MinIs
<1>3. LineEnd(e, s) = Min(E)
  BY DEF LineEnd
<1>4. \A i \in E : i \in Nat /\ s <= i
  BY <1>1
<1>5. Len(e.text) \in E /\ Len(e.text) \in Nat
  BY StartsAre
<1> HIDE DEF E
<1>6. Min(E) \in Nat /\ s <= Min(E) /\ Min(E) <= Len(e.text)
  BY <1>2, <1>4, <1>5
<1>7. \A i \in Newlines(e) : i >= s => i \in E
  BY DEF E
<1>8. s \in Nat
  BY <1>1
<1>9. \A i \in Newlines(e) : i >= s => LineEnd(e, s) <= i
  BY <1>2, <1>3, <1>7
<1> QED
  BY <1>3, <1>5, <1>6, <1>8, <1>9

\* A place between the start and the end of a line is on that line.
LEMMA OnItsLine ==
    ASSUME NEW e \in Editor, NEW k \in 0..Cardinality(Newlines(e)),
           NEW c \in LineStart(e, k)..LineEnd(e, LineStart(e, k))
    PROVE  c \in 0..Len(e.text) /\ Rank(Newlines(e), c) = k
<1> DEFINE s == LineStart(e, k)
<1>1. s \in Starts(e) /\ Rank(Starts(e), s) = k /\ s \in Nat
  BY LineStarts, StartsAre
<1>2. LineEnd(e, s) \in s..Len(e.text) /\ \A i \in Newlines(e) : i >= s => LineEnd(e, s) <= i
  BY <1>1, LineEnds
<1>3. Len(e.text) \in Nat /\ c \in Nat /\ c <= Len(e.text) /\ s <= c
  BY <1>1, <1>2, StartsAre
<1>4. {t \in Starts(e) : t < c + 1} = {t \in Starts(e) : t < s + 1}
  <2>1. ASSUME NEW t \in Starts(e), t < c + 1, ~(t < s + 1)
        PROVE  FALSE
    <3>1. t \in Nat /\ t - 1 \in Nat /\ (t - 1) + 1 = t
      BY <1>1, <2>1, StartsAre
    <3>2. t - 1 \in Newlines(e) /\ t - 1 >= s
      BY <1>1, <2>1, <3>1, StartsAre
    <3>3. LineEnd(e, s) <= t - 1
      BY <1>2, <3>2
    <3> QED
      BY <1>2, <1>3, <2>1, <3>1, <3>3
  <2>2. \A t \in Starts(e) : t \in Nat
    BY StartsAre
  <2>3. \A t \in Starts(e) : t < c + 1 <=> t < s + 1
    BY <1>1, <1>3, <2>1, <2>2
  <2> QED
    BY <2>3, Zenon
<1>5. Rank(Starts(e), c + 1) = Rank(Starts(e), s + 1)
  BY <1>4 DEF Rank
<1>6. Rank(Starts(e), s + 1) = k + 1
  BY <1>1, <1>3, StartsAre DEF Ranked
<1>7. Rank(Newlines(e), c) \in Nat
  BY <1>3, StartsAre DEF Ranked
<1> QED
  BY <1>3, <1>5, <1>6, <1>7, StartsAndNewlines, LineStarts

\* The cursor is on its line.
LEMMA CursorIsOnItsLine ==
    ASSUME NEW e, Fits(e)
    PROVE  /\ Line(e) \in 0..Cardinality(Newlines(e))
           /\ LineStart(e, Line(e)) \in Nat /\ Column(e) \in Nat
           /\ e.cursor \in LineStart(e, Line(e))..LineEnd(e, LineStart(e, Line(e)))
<1> DEFINE n == Len(e.text)
           c == e.cursor
           s == LineStart(e, Line(e))
<1>1. e \in Editor /\ n \in Nat /\ c \in 0..n /\ c \in Nat /\ c + 1 \in Nat
  BY StartsAre DEF Fits, Editor
<1>2. Line(e) = Rank(Newlines(e), c)
  BY DEF Line, Rank
<1>3. Line(e) \in 0..Cardinality(Newlines(e))
  <2>1. Rank(Newlines(e), c) \in Nat /\ Rank(Newlines(e), c) <= Rank(Newlines(e), n + 1)
    BY <1>1, StartsAre DEF Ranked
  <2>2. Rank(Newlines(e), n + 1) = Cardinality(Newlines(e))
    BY <1>1, StartsAre DEF Ranked
  <2> QED
    BY <1>1, <1>2, <2>1, <2>2, LineStarts
<1>4. s \in Starts(e) /\ Rank(Starts(e), s) = Line(e) /\ s \in Nat
  BY <1>1, <1>3, LineStarts, StartsAre
<1>5. Rank(Starts(e), c + 1) = Line(e) + 1
  BY <1>1, <1>2, StartsAndNewlines
<1>6. s <= c
  <2>1. ASSUME c < s PROVE FALSE
    <3>1. c + 1 <= s
      BY <1>1, <1>4, <2>1
    <3>2. Rank(Starts(e), c + 1) <= Rank(Starts(e), s)
      BY <1>1, <1>4, <3>1, StartsAre DEF Ranked
    <3> QED
      BY <1>3, <1>4, <1>5, <3>2, LineStarts, <1>1
  <2> QED
    BY <1>1, <1>4, <2>1
<1>7. LineEnd(e, s) \in s..n /\ (LineEnd(e, s) \in Newlines(e) \/ LineEnd(e, s) = n)
  <2> DEFINE E == {i \in Newlines(e) : i >= s} \cup {n}
  <2>1. E \in SUBSET Nat /\ E # {}
    BY <1>1, StartsAre
  <2>2. Min(E) \in E
    BY <2>1, MinIs
  <2> QED
    BY <1>1, <1>4, <2>2, LineEnds DEF LineEnd
<1>8. c <= LineEnd(e, s)
  <2> DEFINE i == LineEnd(e, s)
  <2>1. ASSUME i < c PROVE FALSE
    <3>1. i \in Newlines(e) /\ i \in Nat /\ i + 1 \in Nat
      BY <1>1, <1>4, <1>7, <2>1
    <3>2. i + 1 \in Starts(e)
      BY <1>1, <3>1, StartsAre
    <3>3. s + 1 \in Nat /\ s + 1 <= i + 1 /\ (i + 1) + 1 \in Nat /\ (i + 1) + 1 <= c + 1
      BY <1>1, <1>4, <1>7, <2>1, <3>1
    <3>4. Rank(Starts(e), s + 1) = Line(e) + 1
      BY <1>1, <1>4, StartsAre DEF Ranked
    <3>5. Rank(Starts(e), s + 1) <= Rank(Starts(e), i + 1)
      BY <1>1, <3>1, <3>3, StartsAre DEF Ranked
    <3>6. /\ Rank(Starts(e), (i + 1) + 1) = Rank(Starts(e), i + 1) + 1
          /\ Rank(Starts(e), i + 1) \in Nat
      BY <1>1, <3>1, <3>2, StartsAre DEF Ranked
    <3>7. Rank(Starts(e), (i + 1) + 1) <= Rank(Starts(e), c + 1)
      BY <1>1, <3>3, StartsAre DEF Ranked
    <3> QED
      BY <1>3, <1>5, <3>4, <3>5, <3>6, <3>7
  <2> QED
    BY <1>1, <1>4, <1>7, <2>1
<1> QED
  BY <1>1, <1>3, <1>4, <1>6, <1>7, <1>8 DEF Column

------------------------------------------------------------------------------
\* Where the column of e would put it on line k.
PlaceOn(e, k, column) == Min({LineStart(e, k) + column, LineEnd(e, LineStart(e, k))})

\* The column that a vertical move keeps, and a cursor that is where its column puts it.
KeptColumn(e) == IF e.column = NoIndex THEN Column(e) ELSE e.column
Placed(e) == e.cursor = PlaceOn(e, Line(e), KeptColumn(e))

\* A column puts the cursor on the line.
LEMMA PlaceIsOnLine ==
    ASSUME NEW e \in Editor, NEW k \in 0..Cardinality(Newlines(e)), NEW column \in Nat
    PROVE  /\ PlaceOn(e, k, column) \in 0..Len(e.text)
           /\ Rank(Newlines(e), PlaceOn(e, k, column)) = k
<1> DEFINE s == LineStart(e, k)
           C == {s + column, LineEnd(e, s)}
<1>1. s \in Starts(e) /\ s \in Nat
  BY LineStarts, StartsAre
<1>2. LineEnd(e, s) \in s..Len(e.text)
  BY <1>1, LineEnds
<1>3. LineEnd(e, s) \in Nat /\ s <= LineEnd(e, s) /\ LineEnd(e, s) <= Len(e.text) /\ Len(e.text) \in Nat
  BY <1>1, <1>2, StartsAre
<1>4. C \in SUBSET Nat /\ C # {}
  BY <1>1, <1>3
<1>5. Min(C) \in C /\ Min(C) <= LineEnd(e, s)
  BY <1>4, MinIs
<1>6. Min(C) \in s..LineEnd(e, s)
  BY <1>1, <1>3, <1>5
<1> QED
  BY <1>6, OnItsLine DEF PlaceOn

\* A vertical move puts the cursor where the kept column says, on the line above or below.
LEMMA VerticalPlaces ==
    ASSUME NEW e, Fits(e), NEW by \in {-1, 1}, Line(e) + by \in 0..Cardinality(Newlines(e))
    PROVE  LET f == Vertical(e, by)
           IN /\ Fits(f) /\ f.text = e.text /\ f.column = KeptColumn(e) /\ f.column \in Nat
              /\ f.cursor = PlaceOn(e, Line(e) + by, KeptColumn(e))
              /\ Line(f) = Line(e) + by /\ Placed(f)
<1> DEFINE f == Vertical(e, by)
           k == Line(e) + by
           place == PlaceOn(e, k, KeptColumn(e))
<1>1. e \in Editor /\ Column(e) \in Nat
  BY CursorIsOnItsLine DEF Fits
<1>2. KeptColumn(e) \in Nat
  BY <1>1 DEF KeptColumn, Editor
<1>3. place \in 0..Len(e.text) /\ Rank(Newlines(e), place) = k
  BY <1>1, <1>2, PlaceIsOnLine
<1>4. f = [text |-> e.text, cursor |-> place, anchor |-> NoIndex, column |-> KeptColumn(e)]
  BY <1>1 DEF Vertical, PlaceOn, KeptColumn, Editor
<1>5. f \in Editor /\ f.text = e.text /\ f.cursor = place /\ f.column = KeptColumn(e)
  BY <1>1, <1>2, <1>3, <1>4 DEF Editor
<1>6. Newlines(f) = Newlines(e) /\ Starts(f) = Starts(e)
  BY <1>5 DEF Newlines, Starts
<1>7. \A s : LineEnd(f, s) = LineEnd(e, s)
  BY <1>5, <1>6 DEF LineEnd
<1>8. LineStart(f, k) = LineStart(e, k)
  BY <1>6 DEF LineStart
<1>9. Line(f) = k
  BY <1>3, <1>5, <1>6 DEF Line, Rank
<1>10. KeptColumn(f) = KeptColumn(e)
  BY <1>2, <1>5, EditorAssumption DEF KeptColumn
<1>11. Placed(f)
  BY <1>5, <1>7, <1>8, <1>9, <1>10 DEF Placed, PlaceOn
<1>12. Fits(f)
  BY <1>1, <1>3, <1>5, StartsAre DEF Fits
<1> QED
  BY <1>2, <1>5, <1>9, <1>11, <1>12

\* So it returns to where it came from.
LEMMA VerticalReturns ==
    ASSUME NEW e, Fits(e), Placed(e), NEW by \in {-1, 1}, NEW back \in {-1, 1}, by + back = 0,
           Line(e) + by \in 0..Cardinality(Newlines(e))
    PROVE  Vertical(Vertical(e, by), back).cursor = e.cursor
<1> DEFINE f == Vertical(e, by)
<1>1. /\ Fits(f) /\ f.text = e.text /\ f.column = KeptColumn(e) /\ f.column \in Nat
      /\ Line(f) = Line(e) + by
  BY VerticalPlaces
<1> HIDE DEF f
<1>2. Newlines(f) = Newlines(e) /\ Starts(f) = Starts(e)
  BY <1>1 DEF Newlines, Starts
<1>3. Line(e) \in 0..Cardinality(Newlines(e)) /\ Cardinality(Newlines(e)) \in Nat
  BY CursorIsOnItsLine, LineStarts DEF Fits
<1>4. Line(f) + back = Line(e)
  BY <1>1, <1>3
<1>5. Vertical(f, back).cursor = PlaceOn(f, Line(e), KeptColumn(f))
  BY <1>1, <1>2, <1>3, <1>4, VerticalPlaces
<1>6. KeptColumn(f) = KeptColumn(e)
  BY <1>1, EditorAssumption DEF KeptColumn
<1>7. \A s : LineEnd(f, s) = LineEnd(e, s)
  BY <1>1, <1>2 DEF LineEnd
<1>8. \A k : LineStart(f, k) = LineStart(e, k)
  BY <1>2 DEF LineStart
<1>9. PlaceOn(f, Line(e), KeptColumn(f)) = PlaceOn(e, Line(e), KeptColumn(e))
  BY <1>6, <1>7, <1>8 DEF PlaceOn
<1> QED
  BY <1>5, <1>9 DEF Placed, f

------------------------------------------------------------------------------
\* The cursor is in the text and, but for a draft that was set from outside, it is where the
\* column that a vertical move keeps would put it.
EditorInv == Fits(editor) /\ loaded \in BOOLEAN /\ (~loaded => Placed(editor))

\* Without a column that was kept the cursor is where its own column puts it.
LEMMA CursorIsPlaced ==
    ASSUME NEW e, Fits(e), e.column = NoIndex
    PROVE  Placed(e)
<1> DEFINE s == LineStart(e, Line(e))
           C == {s + Column(e), LineEnd(e, s)}
<1>1. s \in Nat /\ e.cursor \in Nat /\ Column(e) = e.cursor - s /\ e.cursor \in s..LineEnd(e, s)
  BY CursorIsOnItsLine DEF Column, Fits, Editor
<1>2. e \in Editor /\ s \in Starts(e)
  BY CursorIsOnItsLine, LineStarts DEF Fits
<1>3. LineEnd(e, s) \in s..Len(e.text)
  BY <1>2, LineEnds
<1>4. s + Column(e) = e.cursor /\ e.cursor <= LineEnd(e, s) /\ LineEnd(e, s) \in Nat
  BY <1>1, <1>3
<1>5. C = {e.cursor, LineEnd(e, s)}
  BY <1>4
<1>6. C \in SUBSET Nat /\ C # {}
  BY <1>1, <1>4, <1>5
<1>7. Min(C) \in C /\ \A n \in C : Min(C) <= n
  BY <1>6, MinIs
<1>8. Min(C) = e.cursor
  BY <1>1, <1>4, <1>5, <1>7
<1>9. KeptColumn(e) = Column(e)
  BY DEF KeptColumn
<1> QED
  BY <1>8, <1>9 DEF Placed, PlaceOn

\* A text with a cursor and no column.
LEMMA FitsAndPlaced ==
    ASSUME NEW text \in Seq(Char), NEW cursor \in 0..Len(text), NEW anchor \in Nat \cup {NoIndex},
           NEW e, e = [text |-> text, cursor |-> cursor, anchor |-> anchor, column |-> NoIndex]
    PROVE  Fits(e) /\ Placed(e)
<1>1. Len(text) \in Nat
  OBVIOUS
<1>2. Fits(e) /\ e.column = NoIndex
  BY <1>1 DEF Fits, Editor
<1> QED
  BY <1>2, CursorIsPlaced

\* The parts of a text before and behind a place.
LEMMA PartsOfText ==
    ASSUME NEW text \in Seq(Char), NEW a \in 0..Len(text), NEW b \in Nat
    PROVE  /\ SubSeq(text, 1, a) \in Seq(Char) /\ Len(SubSeq(text, 1, a)) = a
           /\ SubSeq(text, b + 1, Len(text)) \in Seq(Char)
<1>1. Len(text) \in Nat /\ a \in Nat /\ a <= Len(text) /\ \A i \in 1..Len(text) : text[i] \in Char
  OBVIOUS
<1>2. /\ \A i \in 1..a : text[i] \in Char
      /\ \A i \in (b + 1)..Len(text) : text[i] \in Char
  BY <1>1
<1>3. SubSeq(text, 1, a) \in Seq(Char) /\ Len(SubSeq(text, 1, a)) = a
  BY <1>1, <1>2, SubSeqProperties
<1>4. SubSeq(text, b + 1, Len(text)) \in Seq(Char)
  BY <1>1, <1>2, SubSeqProperties
<1> QED
  BY <1>3, <1>4

\* Two texts joined, with the cursor in the first or at the end of what was put in.
LEMMA Joined ==
    ASSUME NEW s \in Seq(Char), NEW t \in Seq(Char), NEW u \in Seq(Char)
    PROVE  /\ s \o t \o u \in Seq(Char) /\ Len(s \o t \o u) = Len(s) + Len(t) + Len(u)
           /\ s \o u \in Seq(Char) /\ Len(s \o u) = Len(s) + Len(u)
<1>1. s \o t \in Seq(Char) /\ Len(s \o t) = Len(s) + Len(t)
  BY ConcatProperties
<1>2. s \o u \in Seq(Char) /\ Len(s \o u) = Len(s) + Len(u)
  BY ConcatProperties
<1>3. (s \o t) \o u \in Seq(Char) /\ Len((s \o t) \o u) = Len(s \o t) + Len(u)
  BY <1>1, ConcatProperties
<1> QED
  BY <1>1, <1>2, <1>3

\* What is typed or pasted replaces the selection, and the cursor is behind it.
LEMMA InsertFits ==
    ASSUME NEW e, Fits(e), NEW value \in Seq(Char)
    PROVE  Fits(Insert(e, value)) /\ Placed(Insert(e, value))
<1> DEFINE ends == IF Selected(e) THEN {e.anchor, e.cursor} ELSE {e.cursor}
           n == Len(e.text)
<1>1. e.text \in Seq(Char) /\ n \in Nat /\ e.cursor \in Nat /\ e.cursor <= n
  BY DEF Fits, Editor
<1>2. ends \in SUBSET Nat /\ ends # {} /\ e.cursor \in ends
  BY DEF Fits, Editor, Selected
<1>3. Min(ends) \in Nat /\ Min(ends) <= e.cursor
  BY <1>2, MinIs
<1>4. Max(ends) \in Nat
  <2>1. PICK m \in ends : \A i \in ends : m >= i
    BY <1>2 DEF Selected, Fits, Editor
  <2>2. Max(ends) \in ends
    BY <2>1 DEF Max
  <2> QED
    BY <1>2, <2>2
<1> DEFINE front == SubSeq(e.text, 1, Min(ends))
           rest == SubSeq(e.text, Max(ends) + 1, n)
<1>5. Min(ends) \in 0..n
  BY <1>1, <1>3
<1>6. Insert(e, value) = [text |-> front \o value \o rest, cursor |-> Min(ends) + Len(value),
                          anchor |-> NoIndex, column |-> NoIndex]
  BY DEF Insert
<1> HIDE DEF ends
<1>7. front \in Seq(Char) /\ Len(front) = Min(ends) /\ rest \in Seq(Char)
  BY <1>1, <1>4, <1>5, PartsOfText
<1> HIDE DEF front, rest
<1>8. front \o value \o rest \in Seq(Char)
      /\ Len(front \o value \o rest) = Len(front) + Len(value) + Len(rest)
  <2>1. front \in Seq(Char) /\ value \in Seq(Char) /\ rest \in Seq(Char)
    BY <1>7
  <2>2. \A x, y, z \in Seq(Char) : /\ x \o y \o z \in Seq(Char)
                                   /\ Len(x \o y \o z) = Len(x) + Len(y) + Len(z)
    BY Joined
  <2> QED
    BY <2>1, <2>2
<1>9. Min(ends) + Len(value) \in 0..Len(front \o value \o rest)
  BY <1>3, <1>7, <1>8
<1> QED
  BY <1>6, <1>8, <1>9, FitsAndPlaced

\* One character less, and the cursor where it was.
LEMMA EraseFits ==
    ASSUME NEW e, Fits(e), NEW from \in 0..(Len(e.text) - 1)
    PROVE  Fits(Erase(e, from)) /\ Placed(Erase(e, from))
<1> DEFINE front == SubSeq(e.text, 1, from)
           rest == SubSeq(e.text, (from + 1) + 1, Len(e.text))
<1>1. /\ e.text \in Seq(Char) /\ Len(e.text) \in Nat /\ e.anchor \in Nat \cup {NoIndex}
      /\ from \in 0..Len(e.text) /\ from + 1 \in Nat /\ from + 2 = (from + 1) + 1
  BY DEF Fits, Editor
<1>2. front \in Seq(Char) /\ Len(front) = from /\ rest \in Seq(Char)
  BY <1>1, PartsOfText
<1>3. Erase(e, from) = [text |-> front \o rest, cursor |-> from, anchor |-> e.anchor, column |-> NoIndex]
  <2> DEFINE joined == front \o rest
  <2>1. Erase(e, from) = [e EXCEPT !.text = joined, !.cursor = from, !.column = NoIndex]
    BY <1>1 DEF Erase
  <2> HIDE DEF joined
  <2>2. Erase(e, from) = [text |-> joined, cursor |-> from, anchor |-> e.anchor, column |-> NoIndex]
    BY <2>1 DEF Fits, Editor
  <2> QED
    BY <2>2 DEF joined
<1> HIDE DEF front, rest
<1>4. front \o rest \in Seq(Char) /\ Len(front \o rest) = Len(front) + Len(rest)
  BY <1>2, Joined
<1>5. from \in 0..Len(front \o rest)
  BY <1>1, <1>2, <1>4
<1> QED
  BY <1>1, <1>3, <1>4, <1>5, FitsAndPlaced

\* A key that moves the cursor forgets the column.
LEMMA GoFits ==
    ASSUME NEW e, Fits(e), NEW to \in 0..Len(e.text), NEW select \in BOOLEAN
    PROVE  Fits(Go(e, to, select)) /\ Placed(Go(e, to, select))
<1> DEFINE anchor == IF ~select THEN NoIndex ELSE IF e.anchor = NoIndex THEN e.cursor ELSE e.anchor
<1>1. e.text \in Seq(Char) /\ anchor \in Nat \cup {NoIndex}
  BY DEF Fits, Editor
<1>2. Go(e, to, select) = [text |-> e.text, cursor |-> to, anchor |-> anchor, column |-> NoIndex]
  <2>1. Go(e, to, select) = [e EXCEPT !.anchor = anchor, !.cursor = to, !.column = NoIndex]
    BY DEF Go, Fits, Editor
  <2> HIDE DEF anchor
  <2> QED
    BY <2>1 DEF Fits, Editor
<1> QED
  BY <1>1, <1>2, FitsAndPlaced

\* The column is forgotten, and nothing else.
LEMMA ForgetFits ==
    ASSUME NEW e, Fits(e)
    PROVE  Fits([e EXCEPT !.column = NoIndex]) /\ Placed([e EXCEPT !.column = NoIndex])
<1>1. /\ e.text \in Seq(Char) /\ e.cursor \in 0..Len(e.text) /\ e.anchor \in Nat \cup {NoIndex}
      /\ [e EXCEPT !.column = NoIndex] =
            [text |-> e.text, cursor |-> e.cursor, anchor |-> e.anchor, column |-> NoIndex]
  BY DEF Fits, Editor
<1> QED
  BY <1>1, FitsAndPlaced

------------------------------------------------------------------------------
\* Up or down past the first or the last line: the column is kept and nothing moves.
LEMMA VerticalKeeps ==
    ASSUME NEW e, Fits(e), NEW by \in {-1, 1}
    PROVE  /\ Fits(Vertical(e, by))
           /\ Placed(e) => Placed(Vertical(e, by))
           /\ Vertical(e, by).column # NoIndex
<1>1. CASE Line(e) + by \in 0..Cardinality(Newlines(e))
  BY <1>1, VerticalPlaces, EditorAssumption
<1>2. CASE Line(e) + by \notin 0..Cardinality(Newlines(e))
  <2> DEFINE f == Vertical(e, by)
  <2>1. KeptColumn(e) \in Nat
    BY CursorIsOnItsLine DEF KeptColumn, Fits, Editor
  <2>2. f = [text |-> e.text, cursor |-> e.cursor, anchor |-> NoIndex, column |-> KeptColumn(e)]
    BY <1>2 DEF Vertical, KeptColumn, Fits, Editor
  <2>3. Fits(f) /\ f.text = e.text /\ f.cursor = e.cursor /\ f.column = KeptColumn(e) /\ f.column # NoIndex
    BY <2>1, <2>2, EditorAssumption DEF Fits, Editor
  <2>4. KeptColumn(f) = KeptColumn(e)
    BY <2>3 DEF KeptColumn
  <2>5. Newlines(f) = Newlines(e) /\ Starts(f) = Starts(e)
    BY <2>3 DEF Newlines, Starts
  <2>6. Line(f) = Line(e) /\ LineStart(f, Line(e)) = LineStart(e, Line(e))
    BY <2>3, <2>5 DEF Line, LineStart
  <2>7. LineEnd(f, LineStart(e, Line(e))) = LineEnd(e, LineStart(e, Line(e)))
    BY <2>3, <2>5 DEF LineEnd
  <2> QED
    BY <2>3, <2>4, <2>6, <2>7 DEF Placed, PlaceOn
<1> QED
  BY <1>1, <1>2

\* A key on an editor that fits gives one that fits, and a column that is kept stays true.
LEMMA EditKeeps ==
    ASSUME EditorInv, NEW e, Fits(e), Placed(editor) \/ e.column = NoIndex => Placed(e), Edit(e)
    PROVE  EditorInv'
<1>1. e.column = NoIndex => Placed(e)
  OBVIOUS
<1>2. CASE loaded' = FALSE
  BY <1>1, <1>2 DEF EditorInv, Edit
<1>3. CASE loaded' # FALSE
  BY <1>3 DEF EditorInv, Edit
<1> QED
  BY <1>2, <1>3

\* Backspace, with a selection, inside the text and at its beginning.
LEMMA BackspaceFits ==
    ASSUME NEW e, Fits(e)
    PROVE  Fits(Backspace(e)) /\ Placed(Backspace(e))
<1>1. CASE Selected(e)
  BY <1>1, InsertFits, EmptySeq DEF Backspace
<1>2. CASE ~Selected(e) /\ e.cursor > 0
  <2>1. e.cursor - 1 \in 0..(Len(e.text) - 1)
    BY <1>2 DEF Fits, Editor
  <2> QED
    BY <1>2, <2>1, EraseFits DEF Backspace
<1>3. CASE ~Selected(e) /\ ~(e.cursor > 0)
  BY <1>3, ForgetFits DEF Backspace
<1> QED
  BY <1>1, <1>2, <1>3

\* Delete, with a selection, inside the text and at its end.
LEMMA DeleteFits ==
    ASSUME NEW e, Fits(e)
    PROVE  Fits(Delete(e)) /\ Placed(Delete(e))
<1>1. CASE Selected(e)
  BY <1>1, InsertFits, EmptySeq DEF Delete
<1>2. CASE ~Selected(e) /\ e.cursor < Len(e.text)
  <2>1. e.cursor \in 0..(Len(e.text) - 1)
    BY <1>2 DEF Fits, Editor
  <2> QED
    BY <1>2, <2>1, EraseFits DEF Delete
<1>3. CASE ~Selected(e) /\ ~(e.cursor < Len(e.text))
  BY <1>3, ForgetFits DEF Delete
<1> QED
  BY <1>1, <1>2, <1>3

\* The keys that move along the text.
LEMMA MovesFit ==
    ASSUME NEW e, Fits(e), NEW select \in BOOLEAN
    PROVE  /\ Fits(MoveLeft(e, select)) /\ Placed(MoveLeft(e, select))
           /\ Fits(MoveRight(e, select)) /\ Placed(MoveRight(e, select))
           /\ Fits(Home(e)) /\ Placed(Home(e))
           /\ Fits(End(e)) /\ Placed(End(e))
<1>1. /\ e \in Editor /\ e.text \in Seq(Char) /\ Len(e.text) \in Nat
      /\ e.cursor \in Nat /\ e.cursor <= Len(e.text)
  BY DEF Fits, Editor
<1>2. Max({0, e.cursor - 1}) \in 0..Len(e.text)
  <2>1. \E m \in {0, e.cursor - 1} : \A i \in {0, e.cursor - 1} : m >= i
    BY <1>1
  <2>2. Max({0, e.cursor - 1}) \in {0, e.cursor - 1} /\ Max({0, e.cursor - 1}) >= 0
    BY <2>1 DEF Max
  <2> QED
    BY <1>1, <2>2
<1>3. Min({Len(e.text), e.cursor + 1}) \in 0..Len(e.text)
  <2> DEFINE E == {Len(e.text), e.cursor + 1}
  <2>1. E \in SUBSET Nat /\ E # {}
    BY <1>1
  <2>2. Min(E) \in E /\ \A i \in E : Min(E) <= i
    BY <2>1, MinIs
  <2> QED
    BY <1>1, <2>2
<1>4. LineStart(e, Line(e)) \in 0..Len(e.text)
  <2>1. LineStart(e, Line(e)) \in Starts(e)
    BY <1>1, CursorIsOnItsLine, LineStarts
  <2> QED
    BY <1>1, <2>1, StartsAre
<1>5. LineEnd(e, e.cursor) \in 0..Len(e.text)
  <2> DEFINE E == {i \in Newlines(e) : i >= e.cursor} \cup {Len(e.text)}
  <2>1. \A i \in E : i \in Nat /\ i <= Len(e.text)
    BY <1>1, StartsAre
  <2>2. E \in SUBSET Nat /\ E # {}
    BY <2>1
  <2>3. Min(E) \in E
    BY <2>2, MinIs
  <2>4. LineEnd(e, e.cursor) = Min(E)
    BY DEF LineEnd
  <2> HIDE DEF E
  <2> QED
    BY <1>1, <2>1, <2>3, <2>4
<1> QED
  BY <1>2, <1>3, <1>4, <1>5, GoFits DEF MoveLeft, MoveRight, Home, End

\* Every key keeps the invariant; a draft that is set from outside does not place the cursor.
LEMMA EditorKeeps ==
    ASSUME EditorInv, [EditorNext]_editorVars
    PROVE  EditorInv'
<1>0. Fits(editor)
  BY DEF EditorInv
<1>1. ASSUME NEW value \in Pastes, Edit(Insert(editor, value)) PROVE EditorInv'
  <2>1. value \in Seq(Char)
    BY EditorAssumption
  <2> QED
    BY <1>0, <1>1, <2>1, InsertFits, EditKeeps
<1>2. CASE Edit(Backspace(editor))
  BY <1>0, <1>2, BackspaceFits, EditKeeps
<1>3. CASE Edit(Delete(editor))
  BY <1>0, <1>3, DeleteFits, EditKeeps
<1>4. ASSUME NEW select \in BOOLEAN,
             Edit(MoveLeft(editor, select)) \/ Edit(MoveRight(editor, select))
      PROVE  EditorInv'
  BY <1>0, <1>4, MovesFit, EditKeeps
<1>5. CASE Edit(Home(editor)) \/ Edit(End(editor))
  BY <1>0, <1>5, MovesFit, EditKeeps
<1>6. ASSUME NEW by \in {-1, 1}, Edit(Vertical(editor, by)) PROVE EditorInv'
  <2>1. /\ Fits(Vertical(editor, by)) /\ Vertical(editor, by).column # NoIndex
        /\ Placed(editor) => Placed(Vertical(editor, by))
    BY <1>0, VerticalKeeps
  <2> QED
    BY <1>6, <2>1, EditKeeps
<1>7. CASE Edit(Cleared)
  <2>1. <<>> \in Seq(Char) /\ Len(<<>>) = 0 /\ 0 \in 0..Len(<<>>) /\ NoIndex \in Nat \cup {NoIndex}
    BY EmptySeq
  <2>2. Fits(Cleared) /\ Placed(Cleared)
    BY <2>1, FitsAndPlaced DEF Cleared
  <2> QED
    BY <1>7, <2>2, EditKeeps
<1>8. CASE Load
  <2>1. PICK text \in Pastes : /\ editor' = [editor EXCEPT !.text = text, !.cursor = Len(text)]
                               /\ loaded' = (editor.column # NoIndex)
    BY <1>8 DEF Load
  <2>2. text \in Seq(Char) /\ Len(text) \in Nat
    BY EditorAssumption
  <2>3. Fits(editor') /\ editor'.column = editor.column
    <3>1. editor \in Editor /\ editor' \in Editor
      BY <1>0, <2>1, <2>2 DEF Fits, Editor
    <3>2. editor'.text = text /\ editor'.cursor = Len(text) /\ editor'.column = editor.column
      BY <1>0, <2>1, <3>1 DEF Fits, Editor
    <3> QED
      BY <2>2, <3>1, <3>2 DEF Fits
  <2>4. ~loaded' => Placed(editor')
    BY <2>1, <2>3, CursorIsPlaced
  <2> QED
    BY <2>1, <2>3, <2>4 DEF EditorInv
<1>9. CASE UNCHANGED editorVars
  BY <1>9 DEF EditorInv, editorVars
<1> QED
  BY <1>1, <1>2, <1>3, <1>4, <1>5, <1>6, <1>7, <1>8, <1>9 DEF EditorNext

\* The cursor stays in the text, and where the kept column puts it.
THEOREM EditorInvariant == EditorSpec => []EditorInv
<1>1. EditorInit => EditorInv
  <2>1. <<>> \in Seq(Char) /\ Len(<<>>) = 0 /\ 0 \in 0..Len(<<>>) /\ NoIndex \in Nat \cup {NoIndex}
    BY EmptySeq
  <2>2. Fits(Cleared) /\ Placed(Cleared)
    BY <2>1, FitsAndPlaced DEF Cleared
  <2> QED
    BY <2>2 DEF EditorInit, EditorInv
<1>2. EditorInv /\ [EditorNext]_editorVars => EditorInv'
  BY EditorKeeps
<1> QED
  BY <1>1, <1>2, PTL DEF EditorSpec

\* Up and then down, or down and then up, is back where it was: for texts of any length.
THEOREM VerticalMovesAlwaysReturn == EditorSpec => []VerticalMovesReturn
<1>1. EditorInv => VerticalMovesReturn
  <2> SUFFICES ASSUME EditorInv, ~loaded PROVE
        /\ Line(editor) > 0 => Vertical(Vertical(editor, -1), 1).cursor = editor.cursor
        /\ Line(editor) < Cardinality(Newlines(editor)) =>
               Vertical(Vertical(editor, 1), -1).cursor = editor.cursor
    BY DEF VerticalMovesReturn
  <2>1. Fits(editor) /\ Placed(editor)
    BY DEF EditorInv
  <2>2. Line(editor) \in 0..Cardinality(Newlines(editor)) /\ Cardinality(Newlines(editor)) \in Nat
    BY <2>1, CursorIsOnItsLine, LineStarts DEF Fits
  <2>3. ASSUME Line(editor) > 0
        PROVE  Vertical(Vertical(editor, -1), 1).cursor = editor.cursor
    <3>1. Line(editor) + (-1) \in 0..Cardinality(Newlines(editor))
      BY <2>2, <2>3
    <3> QED
      BY <2>1, <3>1, VerticalReturns
  <2>4. ASSUME Line(editor) < Cardinality(Newlines(editor))
        PROVE  Vertical(Vertical(editor, 1), -1).cursor = editor.cursor
    <3>1. Line(editor) + 1 \in 0..Cardinality(Newlines(editor))
      BY <2>2, <2>4
    <3> QED
      BY <2>1, <3>1, VerticalReturns
  <2> QED
    BY <2>3, <2>4
<1> QED
  BY <1>1, EditorInvariant, PTL

------------------------------------------------------------------------------
(***************************************************************************)
(* The text of a Codex session, for any child, any sequences and any cuts: *)
(* what TerminalStreamFilter shows is what one read of everything would    *)
(* show (CodexStream.tla).                                                 *)
(*                                                                         *)
(* The law behind it is StripOfMore: to filter a text and more of it is to *)
(* filter the text, and then what was incomplete at its end with the more. *)
(* It goes from the end of the text to its front: a sequence that is       *)
(* complete ends at the same place however much follows (PastOfMore), and  *)
(* what a place shows does not look in front of it (EndOfText, PastOfLess).*)
(***************************************************************************)

\* Texts with what is incomplete at their end.
Reading == [text : Seq(Token), rest : Seq(Token)]
Nothing == [text |-> <<>>, rest |-> <<>>]

\* What v shows from i on, if f says it of every place behind i.
ReadAt(v, f, i) ==
    IF i > Len(v) THEN Nothing
    ELSE IF v[i] # ESC THEN [f[i + 1] EXCEPT !.text = <<v[i]>> \o @]
    ELSE IF i = Len(v) \/ Past(v, i) = {}
    THEN [text |-> <<>>, rest |-> SubSeq(v, i, Len(v))]
    ELSE f[Min(Past(v, i))]

Reads(v, f) ==
    /\ f \in [1..(Len(v) + 2) -> Reading]
    /\ \A i \in 1..(Len(v) + 2) : f[i] = ReadAt(v, f, i)

\* Where a sequence that starts at i may end.
PastOsc(v, i, p) == \E k \in (i + 2)..Len(v) : v[k] = "B" /\ p = k + 1
PastString(v, i, p) == \E k \in (i + 2)..(Len(v) - 1) : v[k] = ESC /\ v[k + 1] = "\\" /\ p = k + 2
PastCsi(v, i, p) == \E k \in (i + 2)..Len(v) : v[k] \in Final /\ p = k + 1

\* Those are the places that the model names, by what follows the ESC.
LEMMA PastWhen ==
    ASSUME NEW v, NEW i, NEW p
    PROVE  /\ v[i + 1] = "]" => (p \in Past(v, i) <=> PastOsc(v, i, p))
           /\ v[i + 1] \in {"_", "P"} => (p \in Past(v, i) <=> PastString(v, i, p))
           /\ v[i + 1] = "[" => (p \in Past(v, i) <=> PastCsi(v, i, p))
           /\ v[i + 1] \notin {"]", "_", "P", "["} => (p \in Past(v, i) <=> p = i + 2)
<1>1. CASE v[i + 1] = "]"
  <2>1. Past(v, i) = {j + 1 : j \in {k \in (i + 2)..Len(v) : v[k] = "B"}}
    BY <1>1 DEF Past
  <2> QED
    BY <1>1, <2>1 DEF PastOsc
<1>2. CASE v[i + 1] \in {"_", "P"}
  <2>1. Past(v, i) = {j + 2 : j \in {k \in (i + 2)..(Len(v) - 1) : v[k] = ESC /\ v[k + 1] = "\\"}}
    BY <1>2 DEF Past
  <2> QED
    BY <1>2, <2>1 DEF PastString
<1>3. CASE v[i + 1] = "["
  <2>1. Past(v, i) = {j + 1 : j \in {k \in (i + 2)..Len(v) : v[k] \in Final}}
    BY <1>3 DEF Past
  <2> QED
    BY <1>3, <2>1 DEF PastCsi
<1>4. CASE v[i + 1] \notin {"]", "_", "P", "["}
  <2>1. Past(v, i) = {i + 2}
    BY <1>4 DEF Past
  <2> QED
    BY <1>4, <2>1
<1> QED
  BY <1>1, <1>2, <1>3, <1>4

\* A sequence that is complete ends behind its start, and in what was read.
LEMMA PastIs ==
    ASSUME NEW v \in Seq(Token), NEW i \in 1..(Len(v) - 1)
    PROVE  \A p \in Past(v, i) : p \in Nat /\ i + 1 < p /\ p <= Len(v) + 1
<1> SUFFICES ASSUME NEW p \in Past(v, i)
             PROVE  p \in Nat /\ i + 1 < p /\ p <= Len(v) + 1
  OBVIOUS
<1>1. Len(v) \in Nat /\ i \in Nat /\ i + 1 <= Len(v)
  OBVIOUS
<1>2. PastOsc(v, i, p) \/ PastString(v, i, p) \/ PastCsi(v, i, p) \/ p = i + 2
  BY PastWhen
<1> QED
  BY <1>1, <1>2 DEF PastOsc, PastString, PastCsi

\* The first place behind it.
LEMMA FirstPast ==
    ASSUME NEW v \in Seq(Token), NEW i \in 1..(Len(v) - 1), Past(v, i) # {}
    PROVE  /\ Min(Past(v, i)) \in Past(v, i)
           /\ \A p \in Past(v, i) : Min(Past(v, i)) <= p
           /\ Min(Past(v, i)) \in (i + 2)..(Len(v) + 1)
<1>1. \A p \in Past(v, i) : p \in Nat /\ i + 1 < p /\ p <= Len(v) + 1
  BY PastIs
<1>2. Past(v, i) \in SUBSET Nat
  BY <1>1
<1>3. Min(Past(v, i)) \in Past(v, i) /\ \A p \in Past(v, i) : Min(Past(v, i)) <= p
  BY <1>2, MinIs
<1> QED
  BY <1>1, <1>3

\* More text behind v completes a sequence of v only behind v.
LEMMA PastOfMore ==
    ASSUME NEW v \in Seq(Token), NEW w \in Seq(Token), Len(v) <= Len(w),
           \A k \in 1..Len(v) : w[k] = v[k], NEW i \in 1..(Len(v) - 1)
    PROVE  /\ \A p \in Past(v, i) : p \in Past(w, i)
           /\ \A p \in Past(w, i) : p <= Len(v) + 1 => p \in Past(v, i)
<1>1. Len(v) \in Nat /\ Len(w) \in Nat /\ i \in Nat /\ i + 1 \in 1..Len(v) /\ w[i + 1] = v[i + 1]
  OBVIOUS
<1>2. ASSUME NEW p
      PROVE  /\ PastOsc(v, i, p) => PastOsc(w, i, p)
             /\ PastString(v, i, p) => PastString(w, i, p)
             /\ PastCsi(v, i, p) => PastCsi(w, i, p)
             /\ PastOsc(w, i, p) /\ p <= Len(v) + 1 => PastOsc(v, i, p)
             /\ PastString(w, i, p) /\ p <= Len(v) + 1 => PastString(v, i, p)
             /\ PastCsi(w, i, p) /\ p <= Len(v) + 1 => PastCsi(v, i, p)
  <2>1. \A k \in Int : k >= 1 /\ k <= Len(v) => w[k] = v[k]
    BY <1>1
  <2>2. /\ PastOsc(v, i, p) => PastOsc(w, i, p)
        /\ PastCsi(v, i, p) => PastCsi(w, i, p)
    <3>1. PastOsc(v, i, p) => PastOsc(w, i, p)
      BY <1>1, <2>1 DEF PastOsc
    <3>2. PastCsi(v, i, p) => PastCsi(w, i, p)
      BY <1>1, <2>1 DEF PastCsi
    <3> QED
      BY <3>1, <3>2
  <2>3. /\ PastOsc(w, i, p) /\ p <= Len(v) + 1 => PastOsc(v, i, p)
        /\ PastCsi(w, i, p) /\ p <= Len(v) + 1 => PastCsi(v, i, p)
    <3>1. PastOsc(w, i, p) /\ p <= Len(v) + 1 => PastOsc(v, i, p)
      BY <1>1, <2>1 DEF PastOsc
    <3>2. PastCsi(w, i, p) /\ p <= Len(v) + 1 => PastCsi(v, i, p)
      BY <1>1, <2>1 DEF PastCsi
    <3> QED
      BY <3>1, <3>2
  <2>4. PastString(v, i, p) => PastString(w, i, p)
    BY <1>1, <2>1 DEF PastString
  <2>5. PastString(w, i, p) /\ p <= Len(v) + 1 => PastString(v, i, p)
    BY <1>1, <2>1 DEF PastString
  <2> QED
    BY <2>2, <2>3, <2>4, <2>5
<1>3. \A p : p \in Past(v, i) => p \in Past(w, i)
  BY <1>1, <1>2, PastWhen
<1>4. \A p : p \in Past(w, i) /\ p <= Len(v) + 1 => p \in Past(v, i)
  <2> SUFFICES ASSUME NEW p, p \in Past(w, i), p <= Len(v) + 1 PROVE p \in Past(v, i)
    OBVIOUS
  <2>1. CASE v[i + 1] \notin {"]", "_", "P", "["}
    BY <1>1, <2>1, PastWhen
  <2>2. CASE v[i + 1] \in {"]", "_", "P", "["}
    BY <1>1, <1>2, <2>2, PastWhen
  <2> QED
    BY <2>1, <2>2
<1> QED
  BY <1>3, <1>4

\* What v misses in front moves the end of a sequence.
LEMMA PastOfLess ==
    ASSUME NEW u \in Seq(Token), NEW w \in Seq(Token), NEW s \in Nat, Len(w) = Len(u) + s,
           \A k \in 1..Len(u) : u[k] = w[k + s], NEW i \in 1..(Len(u) - 1)
    PROVE  /\ \A p \in Past(u, i) : p + s \in Past(w, i + s)
           /\ \A p \in Past(w, i + s) : p - s \in Past(u, i)
<1>1. /\ Len(u) \in Nat /\ Len(w) \in Nat /\ i + 1 \in 1..Len(u) /\ u[i + 1] = w[(i + s) + 1]
  <2>1. Len(u) \in Nat /\ Len(w) \in Nat /\ i + 1 \in 1..Len(u)
    OBVIOUS
  <2>2. (i + 1) + s = (i + s) + 1
    OBVIOUS
  <2> QED
    BY <2>1, <2>2
<1>2. \A k \in Int : k >= 1 /\ k <= Len(u) => u[k] = w[k + s]
  BY <1>1
<1>3. ASSUME NEW p \in Int
      PROVE  /\ PastOsc(u, i, p) => PastOsc(w, i + s, p + s)
             /\ PastCsi(u, i, p) => PastCsi(w, i + s, p + s)
             /\ PastString(u, i, p) => PastString(w, i + s, p + s)
  <2>1. ASSUME NEW k \in (i + 2)..Len(u)
        PROVE  k + s \in ((i + s) + 2)..Len(w) /\ u[k] = w[k + s] /\ (k + 1) + s = (k + s) + 1
    <3>1. k \in Int /\ k >= 1 /\ k <= Len(u)
      BY <1>1
    <3>2. k + s \in ((i + s) + 2)..Len(w) /\ (k + 1) + s = (k + s) + 1
      BY <1>1, <3>1
    <3> QED
      BY <1>2, <3>1, <3>2
  <2>2. /\ PastOsc(u, i, p) => PastOsc(w, i + s, p + s)
        /\ PastCsi(u, i, p) => PastCsi(w, i + s, p + s)
    BY <2>1 DEF PastOsc, PastCsi
  <2>3. ASSUME NEW k \in (i + 2)..(Len(u) - 1)
        PROVE  /\ k + s \in ((i + s) + 2)..(Len(w) - 1) /\ u[k] = w[k + s]
               /\ u[k + 1] = w[(k + s) + 1] /\ (k + 2) + s = (k + s) + 2
    <3>1. /\ k + 1 \in Int /\ k + 1 >= 1 /\ k + 1 <= Len(u) /\ (k + 1) + s = (k + s) + 1
          /\ k \in Int /\ k >= 1 /\ k <= Len(u)
      <4>1. k \in Int /\ i + 2 <= k /\ k <= Len(u) - 1
        BY <1>1
      <4>2. i \in Nat /\ s \in Nat /\ Len(u) \in Nat
        BY <1>1
      <4> QED
        BY <4>1, <4>2
    <3>2. k + s \in ((i + s) + 2)..(Len(w) - 1) /\ (k + 2) + s = (k + s) + 2
      BY <1>1, <3>1
    <3>3. u[k] = w[k + s] /\ u[k + 1] = w[(k + 1) + s]
      BY <1>2, <3>1
    <3> QED
      BY <3>1, <3>2, <3>3
  <2> QED
    BY <2>2, <2>3 DEF PastString
<1>4. ASSUME NEW q \in Int
      PROVE  /\ PastOsc(w, i + s, q) => PastOsc(u, i, q - s)
             /\ PastCsi(w, i + s, q) => PastCsi(u, i, q - s)
             /\ PastString(w, i + s, q) => PastString(u, i, q - s)
  <2>1. ASSUME NEW k \in ((i + s) + 2)..Len(w)
        PROVE  k - s \in (i + 2)..Len(u) /\ u[k - s] = w[k] /\ (k + 1) - s = (k - s) + 1
    <3>1. k - s \in Int /\ k - s >= 1 /\ k - s <= Len(u) /\ (k - s) + s = k
      <4>1. k \in Int /\ (i + s) + 2 <= k /\ k <= Len(w)
        BY <1>1
      <4> QED
        BY <1>1, <4>1
    <3>2. k - s \in (i + 2)..Len(u) /\ (k + 1) - s = (k - s) + 1
      BY <1>1, <3>1
    <3>3. u[k - s] = w[k]
      BY <1>2, <3>1
    <3> QED
      BY <3>2, <3>3
  <2>2. /\ PastOsc(w, i + s, q) => PastOsc(u, i, q - s)
        /\ PastCsi(w, i + s, q) => PastCsi(u, i, q - s)
    BY <2>1 DEF PastOsc, PastCsi
  <2>3. ASSUME NEW k \in ((i + s) + 2)..(Len(w) - 1)
        PROVE  /\ k - s \in (i + 2)..(Len(u) - 1) /\ u[k - s] = w[k]
               /\ u[(k - s) + 1] = w[k + 1] /\ (k + 2) - s = (k - s) + 2
    <3>1. /\ k - s \in Int /\ k - s >= 1 /\ k - s <= Len(u) /\ (k - s) + s = k
          /\ (k - s) + 1 \in Int /\ (k - s) + 1 >= 1 /\ (k - s) + 1 <= Len(u)
          /\ ((k - s) + 1) + s = k + 1
      <4>1. k \in Int /\ (i + s) + 2 <= k /\ k <= Len(w) - 1
        BY <1>1
      <4> QED
        BY <1>1, <4>1
    <3>2. k - s \in (i + 2)..(Len(u) - 1) /\ (k + 2) - s = (k - s) + 2
      <4>1. k \in Int /\ (i + s) + 2 <= k /\ k <= Len(w) - 1
        BY <1>1
      <4> QED
        BY <1>1, <4>1
    <3>3. u[k - s] = w[k] /\ u[(k - s) + 1] = w[k + 1]
      BY <1>2, <3>1
    <3> QED
      BY <3>2, <3>3
  <2> QED
    BY <2>2, <2>3 DEF PastString
<1>5. ASSUME NEW p \in Past(u, i) PROVE p + s \in Past(w, i + s)
  <2>0. \A q \in Past(u, i) : q \in Nat
    BY PastIs
  <2>1. p \in Int
    BY <2>0
  <2>2. CASE u[i + 1] \notin {"]", "_", "P", "["}
    <3>1. p = i + 2
      BY <2>2, <1>5, PastWhen
    <3>2. p + s = (i + s) + 2
      BY <3>1
    <3> QED
      BY <1>1, <2>2, <3>2, PastWhen
  <2>3. CASE u[i + 1] \in {"]", "_", "P", "["}
    BY <1>1, <1>3, <1>5, <2>1, <2>3, PastWhen
  <2> QED
    BY <2>2, <2>3
<1>6. ASSUME NEW q \in Past(w, i + s) PROVE q - s \in Past(u, i)
  <2>1. i + s \in 1..(Len(w) - 1)
    BY <1>1
  <2>2. q \in Int
    BY <2>1, PastIs
  <2>3. CASE u[i + 1] \notin {"]", "_", "P", "["}
    <3>1. q = (i + s) + 2
      <4>1. w[(i + s) + 1] \notin {"]", "_", "P", "["}
        BY <1>1, <2>3
      <4>2. q \in Past(w, i + s) <=> q = (i + s) + 2
        BY <4>1, PastWhen
      <4> QED
        BY <1>6, <4>2
    <3>2. q - s = i + 2
      BY <3>1
    <3> QED
      BY <2>3, <3>2, PastWhen
  <2>4. CASE u[i + 1] \in {"]", "_", "P", "["}
    BY <1>1, <1>4, <1>6, <2>2, <2>4, PastWhen
  <2> QED
    BY <2>3, <2>4
<1> QED
  BY <1>5, <1>6

\* What is shown of v from a place on depends on what is shown from later places only.
LEMMA ReadAtLooksBehind ==
    ASSUME NEW v \in Seq(Token), NEW f, NEW g, NEW i \in 1..(Len(v) + 2),
           \A j \in 1..(Len(v) + 2) : j > i => f[j] = g[j]
    PROVE  ReadAt(v, f, i) = ReadAt(v, g, i)
<1>1. Len(v) \in Nat
  OBVIOUS
<1>2. CASE i > Len(v)
  BY <1>2 DEF ReadAt
<1>3. CASE i <= Len(v) /\ v[i] # ESC
  <2>1. f[i + 1] = g[i + 1]
    BY <1>1, <1>3
  <2> QED
    BY <1>1, <1>3, <2>1 DEF ReadAt
<1>4. CASE i <= Len(v) /\ v[i] = ESC /\ (i = Len(v) \/ Past(v, i) = {})
  BY <1>1, <1>4 DEF ReadAt
<1>5. CASE i <= Len(v) /\ v[i] = ESC /\ ~(i = Len(v) \/ Past(v, i) = {})
  <2>1. i \in 1..(Len(v) - 1)
    BY <1>1, <1>5
  <2>2. Min(Past(v, i)) \in (i + 2)..(Len(v) + 1)
    BY <1>5, <2>1, FirstPast
  <2>3. f[Min(Past(v, i))] = g[Min(Past(v, i))]
    BY <1>1, <2>1, <2>2
  <2> QED
    BY <1>1, <1>5, <2>3 DEF ReadAt
<1> QED
  BY <1>1, <1>2, <1>3, <1>4, <1>5

\* It is a text with a rest.
LEMMA ReadAtReads ==
    ASSUME NEW v \in Seq(Token), NEW f \in [1..(Len(v) + 2) -> Reading], NEW i \in 1..(Len(v) + 2)
    PROVE  ReadAt(v, f, i) \in Reading
<1>1. Len(v) \in Nat /\ \A k \in 1..Len(v) : v[k] \in Token
  OBVIOUS
<1>0. <<>> \in Seq(Token)
  BY EmptySeq
<1>2. CASE i > Len(v)
  BY <1>0, <1>2 DEF ReadAt, Reading, Nothing
<1>3. CASE i <= Len(v) /\ v[i] # ESC
  <2>1. f[i + 1] \in Reading
    BY <1>1, <1>3
  <2>2. v[i] \in Token
    BY <1>1, <1>3
  <2>3. <<v[i]>> \o f[i + 1].text \in Seq(Token)
    BY <2>1, <2>2, ConcatProperties DEF Reading
  <2>4. ReadAt(v, f, i) = [f[i + 1] EXCEPT !.text = <<v[i]>> \o f[i + 1].text]
    BY <1>1, <1>3 DEF ReadAt
  <2> QED
    BY <2>1, <2>3, <2>4 DEF Reading
<1>4. CASE i <= Len(v) /\ v[i] = ESC /\ (i = Len(v) \/ Past(v, i) = {})
  <2>1. SubSeq(v, i, Len(v)) \in Seq(Token)
    BY <1>1, SubSeqProperties
  <2>2. ReadAt(v, f, i) = [text |-> <<>>, rest |-> SubSeq(v, i, Len(v))]
    BY <1>1, <1>4 DEF ReadAt
  <2> QED
    BY <1>0, <2>1, <2>2 DEF Reading
<1>5. CASE i <= Len(v) /\ v[i] = ESC /\ ~(i = Len(v) \/ Past(v, i) = {})
  <2>1. i \in 1..(Len(v) - 1)
    BY <1>1, <1>5
  <2>2. Min(Past(v, i)) \in (i + 2)..(Len(v) + 1)
    BY <1>5, <2>1, FirstPast
  <2>3. Min(Past(v, i)) \in 1..(Len(v) + 2)
    BY <1>1, <2>1, <2>2
  <2> QED
    BY <1>1, <1>5, <2>3 DEF ReadAt
<1> QED
  BY <1>1, <1>2, <1>3, <1>4, <1>5

\* So there is such a function, place by place from the end.
LEMMA ReadingExists ==
    ASSUME NEW v \in Seq(Token)
    PROVE  \E f : Reads(v, f)
<1> DEFINE N == Len(v) + 2
           Is(k, f) == \A i \in 1..N : i > N - k => f[i] = ReadAt(v, f, i)
           S == {k \in 0..N : \E f \in [1..N -> Reading] : Is(k, f)}
<1>1. N \in Nat /\ Len(v) \in Nat /\ Nothing \in Reading
  BY EmptySeq DEF Nothing, Reading
<1>2. 0 \in S
  <2> DEFINE f == [i \in 1..N |-> Nothing]
  <2>1. f \in [1..N -> Reading]
    BY <1>1
  <2>2. Is(0, f)
    BY <1>1
  <2> HIDE DEF f, Is
  <2> QED
    BY <1>1, <2>1, <2>2
<1>3. ASSUME NEW k \in 1..N, k - 1 \in S
      PROVE  k \in S
  <2> DEFINE m == N - k + 1
  <2>1. PICK f \in [1..N -> Reading] : Is(k - 1, f)
    BY <1>3
  <2>2. m \in 1..N /\ N - (k - 1) = m
    BY <1>1
  <2> DEFINE a == ReadAt(v, f, m)
             g == [f EXCEPT ![m] = a]
  <2>3. a \in Reading
    BY <2>2, ReadAtReads
  <2> HIDE DEF a
  <2>4. g \in [1..N -> Reading] /\ g[m] = a /\ \A j \in 1..N : j # m => g[j] = f[j]
    BY <2>2, <2>3
  <2> HIDE DEF g
  <2>5. ASSUME NEW i \in 1..N, i > N - k
        PROVE  g[i] = ReadAt(v, g, i)
    <3>1. i >= m
      BY <1>1, <2>5
    <3>2. \A j \in 1..N : j > i => f[j] = g[j]
      BY <2>2, <2>4, <3>1
    <3>3. ReadAt(v, f, i) = ReadAt(v, g, i)
      BY <3>2, ReadAtLooksBehind
    <3>4. CASE i = m
      BY <2>4, <3>3, <3>4 DEF a
    <3>5. CASE i # m
      <4>1. i > N - (k - 1)
        BY <2>2, <3>1, <3>5
      <4> QED
        BY <2>1, <2>4, <3>3, <3>5, <4>1
    <3> QED
      BY <3>4, <3>5
  <2> QED
    BY <1>1, <2>4, <2>5
<1>4. 0..N \subseteq S
  <2> HIDE DEF S, N
  <2> QED
    BY <1>1, <1>2, <1>3, UpTo
<1>5. PICK f \in [1..N -> Reading] : Is(N, f)
  <2>1. N \in 0..N
    BY <1>1
  <2> QED
    BY <1>4, <2>1
<1>6. \A i \in 1..N : f[i] = ReadAt(v, f, i)
  BY <1>1, <1>5
<1>7. Reads(v, f)
  BY <1>5, <1>6 DEF Reads
<1> QED
  BY <1>7

\* And only one.
LEMMA ReadingIsOne ==
    ASSUME NEW v \in Seq(Token), NEW f, NEW g, Reads(v, f),
           g = [i \in 1..(Len(v) + 2) |-> ReadAt(v, g, i)]
    PROVE  g = f
<1> DEFINE N == Len(v) + 2
           S == {k \in 0..N : \A i \in 1..N : i > N - k => g[i] = f[i]}
<1>1. N \in Nat /\ Len(v) \in Nat
  OBVIOUS
<1>2. 0 \in S
  BY <1>1
<1>3. ASSUME NEW k \in 1..N, k - 1 \in S
      PROVE  k \in S
  <2> SUFFICES ASSUME NEW i \in 1..N, i > N - k PROVE g[i] = f[i]
    BY <1>1
  <2>1. \A j \in 1..N : j > N - (k - 1) => g[j] = f[j]
    BY <1>3
  <2>2. \A j \in 1..N : j > i => g[j] = f[j]
    BY <1>1, <2>1
  <2>3. ReadAt(v, g, i) = ReadAt(v, f, i)
    BY <2>2, ReadAtLooksBehind
  <2>4. g[i] = ReadAt(v, g, i)
    OBVIOUS
  <2> QED
    BY <2>3, <2>4 DEF Reads
<1>4. 0..N \subseteq S
  <2> HIDE DEF S, N
  <2> QED
    BY <1>1, <1>2, <1>3, UpTo
<1>5. \A i \in 1..N : g[i] = f[i]
  <2>1. N \in S
    BY <1>1, <1>4
  <2> QED
    BY <1>1, <2>1
<1>6. DOMAIN g = 1..N /\ g = [i \in 1..N |-> g[i]]
  OBVIOUS
<1>7. f = [i \in 1..N |-> f[i]]
  BY DEF Reads
<1> QED
  BY <1>5, <1>6, <1>7

\* Strip is what it says of the first place.
LEMMA StripReads ==
    ASSUME NEW v \in Seq(Token), NEW f, Reads(v, f)
    PROVE  Strip(v) = f[1] /\ Strip(v) \in Reading
<1> DEFINE r[i \in 1..(Len(v) + 2)] ==
             IF i > Len(v) THEN [text |-> <<>>, rest |-> <<>>]
             ELSE IF v[i] # ESC THEN [r[i + 1] EXCEPT !.text = <<v[i]>> \o @]
             ELSE IF i = Len(v) \/ Past(v, i) = {}
             THEN [text |-> <<>>, rest |-> SubSeq(v, i, Len(v))]
             ELSE r[Min(Past(v, i))]
<1>1. f = [i \in 1..(Len(v) + 2) |->
             IF i > Len(v) THEN [text |-> <<>>, rest |-> <<>>]
             ELSE IF v[i] # ESC THEN [f[i + 1] EXCEPT !.text = <<v[i]>> \o @]
             ELSE IF i = Len(v) \/ Past(v, i) = {}
             THEN [text |-> <<>>, rest |-> SubSeq(v, i, Len(v))]
             ELSE f[Min(Past(v, i))]]
  BY DEF Reads, ReadAt, Nothing
<1>2. r = [i \in 1..(Len(v) + 2) |->
             IF i > Len(v) THEN [text |-> <<>>, rest |-> <<>>]
             ELSE IF v[i] # ESC THEN [r[i + 1] EXCEPT !.text = <<v[i]>> \o @]
             ELSE IF i = Len(v) \/ Past(v, i) = {}
             THEN [text |-> <<>>, rest |-> SubSeq(v, i, Len(v))]
             ELSE r[Min(Past(v, i))]]
  BY <1>1
<1>3. Strip(v) = r[1]
  BY DEF Strip
<1> HIDE DEF r
<1>4. r = [i \in 1..(Len(v) + 2) |-> ReadAt(v, r, i)]
  BY <1>2 DEF ReadAt, Nothing
<1>5. r = f
  BY <1>4, ReadingIsOne
<1>6. 1 \in 1..(Len(v) + 2)
  OBVIOUS
<1> QED
  BY <1>3, <1>5, <1>6 DEF Reads

\* What is shown of a text from a place on is what its end from there shows.
LEMMA EndOfText ==
    ASSUME NEW w \in Seq(Token), NEW f, Reads(w, f), NEW s \in 0..Len(w)
    PROVE  SubSeq(w, s + 1, Len(w)) \in Seq(Token) /\ f[s + 1] = Strip(SubSeq(w, s + 1, Len(w)))
<1> DEFINE u == SubSeq(w, s + 1, Len(w))
<1>1. /\ Len(w) \in Nat /\ s \in Nat /\ s <= Len(w)
      /\ \A k \in (s + 1)..Len(w) : w[k] \in Token
  OBVIOUS
<1>2. /\ u \in Seq(Token)
      /\ Len(u) = IF s + 1 <= Len(w) THEN Len(w) - (s + 1) + 1 ELSE 0
      /\ \A k \in 1..(Len(w) - (s + 1) + 1) : u[k] = w[(s + 1) + k - 1]
  BY <1>1, SubSeqProperties
<1>3. Len(u) = Len(w) - s /\ Len(u) \in Nat /\ Len(w) = Len(u) + s
  BY <1>1, <1>2
<1>4. \A k \in 1..Len(u) : u[k] = w[k + s]
  BY <1>1, <1>2, <1>3
<1> HIDE DEF u
<1>5. PICK g : Reads(u, g)
  BY <1>2, ReadingExists
<1> DEFINE N == Len(u) + 2
           S == {k \in 0..N : \A i \in 1..N : i > N - k => g[i] = f[i + s]}
<1>6. 0 \in S
  BY <1>3
<1>7. ASSUME NEW h \in 1..N, h - 1 \in S
      PROVE  h \in S
  <2> SUFFICES ASSUME NEW i \in 1..N, i > N - h PROVE g[i] = f[i + s]
    BY <1>3
  <2>1. \A j \in 1..N : j > i => g[j] = f[j + s]
    <3> SUFFICES ASSUME NEW j \in 1..N, j > i PROVE g[j] = f[j + s]
      OBVIOUS
    <3>1. j > N - (h - 1)
      BY <1>3
    <3>2. \A m \in 1..N : m > N - (h - 1) => g[m] = f[m + s]
      BY <1>7
    <3> QED
      BY <3>1, <3>2
  <2>2. i + s \in 1..(Len(w) + 2) /\ i \in Nat /\ i + s \in Nat
    BY <1>1, <1>3
  <2>3. g[i] = ReadAt(u, g, i) /\ f[i + s] = ReadAt(w, f, i + s)
    BY <2>2, <1>5 DEF Reads
  <2>4. CASE i > Len(u)
    <3>1. i + s > Len(w)
      BY <1>1, <1>3, <2>2, <2>4
    <3> QED
      BY <2>3, <2>4, <3>1 DEF ReadAt
  <2>5. CASE i <= Len(u) /\ u[i] # ESC
    <3>0. i \in 1..Len(u) /\ ~(i > Len(u)) /\ ~(i + s > Len(w))
      BY <1>1, <1>3, <2>2, <2>5
    <3>1. w[i + s] = u[i]
      BY <1>4, <3>0
    <3>2. g[i + 1] = f[(i + 1) + s] /\ (i + 1) + s = (i + s) + 1
      BY <1>1, <1>3, <2>1, <2>2, <2>5
    <3>3. g[i + 1] = f[(i + s) + 1]
      BY <3>2
    <3> QED
      BY <2>3, <2>5, <3>0, <3>1, <3>3 DEF ReadAt
  <2>6. CASE i <= Len(u) /\ u[i] = ESC
    <3>0. i \in 1..Len(u) /\ ~(i > Len(u)) /\ ~(i + s > Len(w)) /\ (i = Len(u) <=> i + s = Len(w))
      BY <1>1, <1>3, <2>2, <2>6
    <3>1. /\ ~(i > Len(u)) /\ ~(i + s > Len(w)) /\ (i = Len(u) <=> i + s = Len(w))
          /\ w[i + s] = ESC
      BY <1>4, <2>6, <3>0
    <3>2. SubSeq(u, i, Len(u)) = SubSeq(w, i + s, Len(w))
      <4>1. /\ SubSeq(u, i, Len(u)) \in Seq(Token) /\ Len(SubSeq(u, i, Len(u))) = Len(u) - i + 1
            /\ \A k \in 1..(Len(u) - i + 1) : SubSeq(u, i, Len(u))[k] = u[i + k - 1]
        BY <1>2, <1>3, <2>2, <2>6, SubSeqProperties
      <4>2. /\ SubSeq(w, i + s, Len(w)) \in Seq(Token)
            /\ Len(SubSeq(w, i + s, Len(w))) = Len(w) - (i + s) + 1
            /\ \A k \in 1..(Len(w) - (i + s) + 1) : SubSeq(w, i + s, Len(w))[k] = w[(i + s) + k - 1]
        <5>1. i + s \in Int /\ i + s <= Len(w) /\ \A k \in (i + s)..Len(w) : w[k] \in Token
          BY <1>1, <1>3, <2>2, <2>6
        <5> QED
          BY <1>1, <5>1, SubSeqProperties
      <4>3. Len(w) - (i + s) + 1 = Len(u) - i + 1
        BY <1>1, <1>3, <2>2
      <4>4. ASSUME NEW m \in 1..(Len(u) - i + 1)
            PROVE  u[i + m - 1] = w[(i + s) + m - 1]
        <5>1. i + m - 1 \in 1..Len(u) /\ (i + m - 1) + s = (i + s) + m - 1
          BY <1>1, <1>3, <2>2, <2>6
        <5>2. u[i + m - 1] = w[(i + m - 1) + s]
          BY <1>4, <5>1
        <5> QED
          BY <5>1, <5>2
      <4>5. \A k \in 1..(Len(u) - i + 1) : SubSeq(u, i, Len(u))[k] = SubSeq(w, i + s, Len(w))[k]
        BY <4>1, <4>2, <4>3, <4>4
      <4> QED
        BY <4>1, <4>2, <4>3, <4>5, SeqEqual
    <3>3. CASE i = Len(u)
      BY <2>3, <2>6, <3>1, <3>2, <3>3 DEF ReadAt
    <3>4. CASE i # Len(u)
      <4>1. i \in 1..(Len(u) - 1) /\ i + s \in 1..(Len(w) - 1)
        BY <1>1, <1>3, <2>2, <2>6, <3>4
      <4>2. /\ \A p \in Past(u, i) : p + s \in Past(w, i + s)
            /\ \A p \in Past(w, i + s) : p - s \in Past(u, i)
        BY <1>1, <1>2, <1>3, <1>4, <4>1, PastOfLess
      <4>3. Past(u, i) = {} <=> Past(w, i + s) = {}
        BY <4>2
      <4>4. CASE Past(u, i) = {}
        BY <2>3, <2>6, <3>1, <3>2, <4>3, <4>4 DEF ReadAt
      <4>5. CASE Past(u, i) # {}
        <5> DEFINE a == Min(Past(u, i))
                   b == Min(Past(w, i + s))
        <5>1. /\ a \in Past(u, i) /\ (\A p \in Past(u, i) : a <= p)
              /\ a \in (i + 2)..(Len(u) + 1)
          BY <1>2, <4>1, <4>5, FirstPast
        <5>2. /\ b \in Past(w, i + s) /\ (\A p \in Past(w, i + s) : b <= p)
              /\ b \in ((i + s) + 2)..(Len(w) + 1)
          BY <4>1, <4>3, <4>5, FirstPast
        <5> HIDE DEF a, b
        <5>3. b <= a + s /\ a <= b - s /\ a \in Int /\ b \in Int
          BY <4>2, <5>1, <5>2
        <5>4. b = a + s /\ a \in 1..N /\ a > i
          BY <1>1, <1>3, <2>2, <5>1, <5>3
        <5>5. g[a] = f[b]
          BY <2>1, <5>4
        <5>6. g[i] = g[a] /\ f[i + s] = f[b]
          BY <2>3, <2>6, <3>1, <3>4, <4>3, <4>5 DEF ReadAt, a, b
        <5> QED
          BY <5>5, <5>6
      <4> QED
        BY <4>4, <4>5
    <3> QED
      BY <3>3, <3>4
  <2> QED
    BY <1>3, <2>2, <2>4, <2>5, <2>6
<1>8. 0..N \subseteq S
  <2>1. N \in Nat
    BY <1>3
  <2> HIDE DEF S, N
  <2> QED
    BY <1>6, <1>7, <2>1, UpTo
<1>9. g[1] = f[1 + s]
  <2>1. N \in S
    <3>1. N \in 0..N
      BY <1>3
    <3> HIDE DEF S, N
    <3> QED
      BY <1>8, <3>1
  <2>2. 1 \in 1..N /\ 1 > N - N
    BY <1>3
  <2> QED
    BY <2>1, <2>2
<1>10. Strip(u) = g[1]
  BY <1>2, <1>5, StripReads
<1>11. 1 + s = s + 1
  BY <1>1
<1> QED
  BY <1>2, <1>9, <1>10, <1>11 DEF u

\* A reading that goes on with more text.
Further(r, d) ==
    LET more == Strip(r.rest \o d) IN [text |-> r.text \o more.text, rest |-> more.rest]

\* It is a reading, and a text in front of it stays in front.
LEMMA FurtherReads ==
    ASSUME NEW d \in Seq(Token), NEW r \in Reading
    PROVE  /\ Further(r, d) \in Reading
           /\ \A x \in Token : Further([r EXCEPT !.text = <<x>> \o @], d)
                                 = [Further(r, d) EXCEPT !.text = <<x>> \o @]
<1>1. r.rest \o d \in Seq(Token) /\ r.text \in Seq(Token)
  BY ConcatProperties DEF Reading
<1> DEFINE more == Strip(r.rest \o d)
<1>2. more \in Reading
  BY <1>1, ReadingExists, StripReads
<1> HIDE DEF more
<1>3. r.text \o more.text \in Seq(Token)
  BY <1>1, <1>2, ConcatProperties DEF Reading
<1>4. Further(r, d) = [text |-> r.text \o more.text, rest |-> more.rest]
  BY DEF Further, more
<1>5. ASSUME NEW x \in Token
      PROVE  Further([r EXCEPT !.text = <<x>> \o @], d) = [Further(r, d) EXCEPT !.text = <<x>> \o @]
  <2> DEFINE longer == <<x>> \o r.text
             q == [r EXCEPT !.text = longer]
  <2>1. <<x>> \in Seq(Token)
    OBVIOUS
  <2>2. longer \o more.text = <<x>> \o (r.text \o more.text)
    BY <1>1, <1>2, <2>1, ConcatAssociative DEF Reading
  <2> HIDE DEF longer
  <2>3. q.rest = r.rest /\ q.text = longer
    BY DEF Reading
  <2> HIDE DEF q
  <2>4. Further(q, d) = [text |-> longer \o more.text, rest |-> more.rest]
    BY <2>3 DEF Further, more
  <2> DEFINE all == r.text \o more.text
  <2>5. [Further(r, d) EXCEPT !.text = <<x>> \o @] = [text |-> <<x>> \o all, rest |-> more.rest]
    <3> HIDE DEF all
    <3>1. Further(r, d) = [text |-> all, rest |-> more.rest]
      BY <1>4 DEF all
    <3> DEFINE both == <<x>> \o all
    <3>2. Further(r, d).text = all
      BY <3>1
    <3>3. [Further(r, d) EXCEPT !.text = <<x>> \o @] = [Further(r, d) EXCEPT !.text = both]
      BY <3>2
    <3> HIDE DEF both
    <3>4. [Further(r, d) EXCEPT !.text = both] = [text |-> both, rest |-> more.rest]
      BY <3>1
    <3> QED
      BY <3>3, <3>4 DEF both
  <2> QED
    BY <2>2, <2>4, <2>5 DEF q, longer
<1>6. Further(r, d) \in Reading
  BY <1>2, <1>3, <1>4 DEF Reading
<1> QED
  BY <1>5, <1>6

\* What a text and then more of it show is what they show together: the more is read behind
\* what was incomplete.
LEMMA StripOfMore ==
    ASSUME NEW v \in Seq(Token), NEW d \in Seq(Token)
    PROVE  Strip(v) \in Reading /\ Strip(v \o d) = Further(Strip(v), d)
<1> DEFINE w == v \o d
           n == Len(v)
           N == n + 1
<1>1. /\ w \in Seq(Token) /\ Len(w) = n + Len(d) /\ n \in Nat /\ Len(d) \in Nat /\ Len(w) \in Nat
      /\ \A k \in 1..(n + Len(d)) : w[k] = IF k <= n THEN v[k] ELSE d[k - n]
  BY ConcatProperties
<1>2. \A k \in 1..n : w[k] = v[k]
  BY <1>1
<1>3. SubSeq(w, n + 1, Len(w)) = d
  <2>1. SubSeq(w, n + 1, n + Len(d)) = d
    <3>1. \A k \in (n + 1)..(n + Len(d)) : w[k] \in Token
      BY <1>1
    <3>2. /\ SubSeq(w, n + 1, n + Len(d)) \in Seq(Token)
          /\ Len(SubSeq(w, n + 1, n + Len(d))) =
                IF n + 1 <= n + Len(d) THEN (n + Len(d)) - (n + 1) + 1 ELSE 0
          /\ \A k \in 1..((n + Len(d)) - (n + 1) + 1) :
                 SubSeq(w, n + 1, n + Len(d))[k] = w[(n + 1) + k - 1]
      BY <1>1, <3>1, SubSeqProperties
    <3>3. Len(SubSeq(w, n + 1, n + Len(d))) = Len(d)
      BY <1>1, <3>2
    <3>4. ASSUME NEW k \in 1..Len(d)
          PROVE  SubSeq(w, n + 1, n + Len(d))[k] = d[k]
      <4>1. /\ k \in 1..((n + Len(d)) - (n + 1) + 1) /\ (n + 1) + k - 1 = n + k
            /\ n + k \in 1..(n + Len(d)) /\ ~(n + k <= n) /\ (n + k) - n = k
        BY <1>1
      <4> QED
        BY <1>1, <3>2, <4>1
    <3> QED
      BY <3>2, <3>3, <3>4, SeqEqual
  <2> QED
    BY <1>1, <2>1
<1> HIDE DEF w
<1>4. PICK f : Reads(v, f)
  BY ReadingExists
<1>5. PICK g : Reads(w, g)
  BY <1>1, ReadingExists
<1> DEFINE S == {k \in 0..N : \A i \in 1..N : i >= N - k => g[i] = Further(f[i], d)}
<1>6. \A i \in 1..N : f[i] \in Reading /\ f[i] = ReadAt(v, f, i) /\ g[i] = ReadAt(w, g, i)
  <2>1. \A i \in 1..N : i \in 1..(Len(v) + 2) /\ i \in 1..(Len(w) + 2)
    BY <1>1
  <2>2. \A i \in 1..N : f[i] \in Reading /\ f[i] = ReadAt(v, f, i)
    BY <1>4, <2>1 DEF Reads
  <2>3. \A i \in 1..N : g[i] = ReadAt(w, g, i)
    BY <1>5, <2>1 DEF Reads
  <2> QED
    BY <2>2, <2>3
<1>7. 0 \in S
  <2>1. g[n + 1] = Strip(d)
    <3>1. n \in 0..Len(w)
      BY <1>1
    <3>2. g[n + 1] = Strip(SubSeq(w, n + 1, Len(w)))
      BY <1>1, <1>5, <3>1, EndOfText
    <3> QED
      BY <1>3, <3>2
  <2>2. f[n + 1] = Nothing
    <3>1. n + 1 \in 1..N /\ n + 1 > Len(v)
      BY <1>1
    <3>2. f[n + 1] = ReadAt(v, f, n + 1)
      BY <1>6, <3>1
    <3> QED
      BY <3>1, <3>2 DEF ReadAt
  <2>3. <<>> \o d = d
    BY ConcatEmptySeq
  <2>4. Strip(d) \in Reading
    BY ReadingExists, StripReads
  <2>5. <<>> \o Strip(d).text = Strip(d).text
    BY <2>4, ConcatEmptySeq DEF Reading
  <2>6. Further(Nothing, d) = [text |-> Strip(d).text, rest |-> Strip(d).rest]
    BY <2>3, <2>5 DEF Further, Nothing
  <2>7. Further(Nothing, d) = Strip(d)
    BY <2>4, <2>6 DEF Reading
  <2>8. \A i \in 1..N : i >= N - 0 => i = n + 1
    BY <1>1
  <2> QED
    BY <1>1, <2>1, <2>2, <2>7, <2>8
<1>8. ASSUME NEW h \in 1..N, h - 1 \in S
      PROVE  h \in S
  <2> SUFFICES ASSUME NEW i \in 1..N, i >= N - h PROVE g[i] = Further(f[i], d)
    BY <1>1
  <2>1. \A j \in 1..N : j > i => g[j] = Further(f[j], d)
    BY <1>1, <1>8
  <2>2. CASE i = N
    <3>1. N >= N - (h - 1)
      BY <1>1
    <3> QED
      BY <1>1, <1>8, <2>2, <3>1
  <2>3. CASE i # N
    <3>1. i \in 1..n /\ i \in Nat /\ i \in 1..Len(w) /\ ~(i > Len(v)) /\ ~(i > Len(w))
      <4>1. n \in Nat /\ Len(w) \in Nat /\ n <= Len(w) /\ n = Len(v)
        BY <1>1
      <4> HIDE DEF n
      <4>2. i \in 1..n
        BY <2>3, <4>1
      <4> QED
        BY <4>1, <4>2
    <3>2. w[i] = v[i] /\ v[i] \in Token
      BY <1>2, <3>1
    <3>3. CASE v[i] # ESC
      <4>1. i + 1 \in 1..N /\ i + 1 > i
        BY <1>1, <3>1
      <4>2. g[i + 1] = Further(f[i + 1], d) /\ f[i + 1] \in Reading
        BY <1>6, <2>1, <4>1
      <4>3. f[i] = [f[i + 1] EXCEPT !.text = <<v[i]>> \o @]
        BY <1>6, <3>1, <3>3 DEF ReadAt
      <4>4. g[i] = [g[i + 1] EXCEPT !.text = <<v[i]>> \o @]
        BY <1>6, <3>1, <3>2, <3>3 DEF ReadAt
      <4> DEFINE q == f[i + 1]
      <4> HIDE DEF q
      <4>5. q \in Reading
        BY <4>2 DEF q
      <4>6. Further([q EXCEPT !.text = <<v[i]>> \o @], d) = [Further(q, d) EXCEPT !.text = <<v[i]>> \o @]
        BY <3>2, <4>5, FurtherReads
      <4> QED
        BY <4>2, <4>3, <4>4, <4>6 DEF q
    <3>4. CASE v[i] = ESC /\ (i = Len(v) \/ Past(v, i) = {})
      <4>1. f[i] = [text |-> <<>>, rest |-> SubSeq(v, i, Len(v))]
        BY <1>6, <3>1, <3>4 DEF ReadAt
      <4>2. SubSeq(v, i, Len(v)) \o d = SubSeq(w, i, Len(w))
        <5>1. /\ SubSeq(v, i, n) \in Seq(Token) /\ Len(SubSeq(v, i, n)) = n - i + 1
              /\ \A j \in 1..(n - i + 1) : SubSeq(v, i, n)[j] = v[i + j - 1]
          BY <1>1, <3>1, SubSeqProperties
        <5>2. /\ SubSeq(w, i, Len(w)) \in Seq(Token) /\ Len(SubSeq(w, i, Len(w))) = Len(w) - i + 1
              /\ \A j \in 1..(Len(w) - i + 1) : SubSeq(w, i, Len(w))[j] = w[i + j - 1]
          BY <1>1, <3>1, SubSeqProperties
        <5>3. /\ SubSeq(v, i, n) \o d \in Seq(Token)
              /\ Len(SubSeq(v, i, n) \o d) = (n - i + 1) + Len(d)
              /\ \A j \in 1..((n - i + 1) + Len(d)) : (SubSeq(v, i, n) \o d)[j] =
                     IF j <= n - i + 1 THEN SubSeq(v, i, n)[j] ELSE d[j - (n - i + 1)]
          <6> DEFINE x == SubSeq(v, i, n)
          <6>1. x \in Seq(Token) /\ Len(x) = n - i + 1
            BY <5>1
          <6> HIDE DEF x
          <6>2. /\ x \o d \in Seq(Token) /\ Len(x \o d) = Len(x) + Len(d)
                /\ \A j \in 1..(Len(x) + Len(d)) :
                       (x \o d)[j] = IF j <= Len(x) THEN x[j] ELSE d[j - Len(x)]
            BY <6>1, ConcatProperties
          <6> QED
            BY <6>1, <6>2 DEF x
        <5>4. (n - i + 1) + Len(d) = Len(w) - i + 1
          BY <1>1, <3>1
        <5>5. ASSUME NEW j \in 1..(Len(w) - i + 1)
              PROVE  (SubSeq(v, i, n) \o d)[j] = w[i + j - 1]
          <6>1. /\ j \in 1..((n - i + 1) + Len(d)) /\ i + j - 1 \in 1..(n + Len(d))
                /\ (j <= n - i + 1 <=> i + j - 1 <= n) /\ j - (n - i + 1) = (i + j - 1) - n
            BY <1>1, <3>1, <5>4
          <6>2. CASE j <= n - i + 1
            <7>1. j \in 1..(n - i + 1) /\ i + j - 1 \in 1..n
              BY <1>1, <3>1, <6>2
            <7> QED
              BY <1>2, <5>1, <5>3, <6>1, <6>2, <7>1
          <6>3. CASE ~(j <= n - i + 1)
            <7>1. (SubSeq(v, i, n) \o d)[j] = d[j - (n - i + 1)]
              BY <5>3, <6>1, <6>3
            <7>2. w[i + j - 1] = d[(i + j - 1) - n]
              BY <1>1, <6>1, <6>3
            <7> QED
              BY <6>1, <7>1, <7>2
          <6> QED
            BY <6>2, <6>3
        <5>6. \A j \in 1..(Len(w) - i + 1) : (SubSeq(v, i, n) \o d)[j] = SubSeq(w, i, Len(w))[j]
          BY <5>2, <5>5
        <5> QED
          BY <5>2, <5>3, <5>4, <5>6, SeqEqual
      <4>3. i - 1 \in 0..Len(w) /\ (i - 1) + 1 = i
        BY <1>1, <3>1
      <4>4. g[i] = Strip(SubSeq(w, i, Len(w))) /\ SubSeq(w, i, Len(w)) \in Seq(Token)
        <5>1. /\ SubSeq(w, (i - 1) + 1, Len(w)) \in Seq(Token)
              /\ g[(i - 1) + 1] = Strip(SubSeq(w, (i - 1) + 1, Len(w)))
          BY <1>1, <1>5, <4>3, EndOfText
        <5> QED
          BY <4>3, <5>1
      <4> DEFINE r == Strip(SubSeq(w, i, Len(w)))
      <4>5. r \in Reading
        BY <4>4, ReadingExists, StripReads
      <4> HIDE DEF r
      <4>6. <<>> \o r.text = r.text
        BY <4>5, ConcatEmptySeq DEF Reading
      <4>7. Further(f[i], d) = [text |-> r.text, rest |-> r.rest]
        <5>0. f[i].text = <<>> /\ f[i].rest = SubSeq(v, i, Len(v))
          BY <4>1
        <5>1. f[i].text = <<>> /\ Strip(f[i].rest \o d) = r
          BY <4>2, <5>0 DEF r
        <5> QED
          BY <4>6, <5>1 DEF Further
      <4> QED
        BY <4>4, <4>5, <4>7 DEF Reading, r
    <3>5. CASE v[i] = ESC /\ ~(i = Len(v) \/ Past(v, i) = {})
      <4>1. i \in 1..(Len(v) - 1) /\ i \in 1..(Len(w) - 1) /\ i # Len(w)
        BY <1>1, <3>1, <3>5
      <4>2. /\ \A p \in Past(v, i) : p \in Past(w, i)
            /\ \A p \in Past(w, i) : p <= Len(v) + 1 => p \in Past(v, i)
        <5>1. Len(v) <= Len(w) /\ \A m \in 1..Len(v) : w[m] = v[m]
          BY <1>1, <1>2
        <5> QED
          BY <1>1, <4>1, <5>1, PastOfMore
      <4> DEFINE a == Min(Past(v, i))
                 b == Min(Past(w, i))
      <4>3. a \in Past(v, i) /\ (\A p \in Past(v, i) : a <= p) /\ a \in (i + 2)..(Len(v) + 1)
        BY <3>5, <4>1, FirstPast
      <4>4. Past(w, i) # {}
        BY <3>5, <4>2
      <4>5. b \in Past(w, i) /\ (\A p \in Past(w, i) : b <= p) /\ b \in (i + 2)..(Len(w) + 1)
        BY <1>1, <4>1, <4>4, FirstPast
      <4>6. f[i] = f[a] /\ g[i] = g[b]
        BY <1>6, <3>1, <3>2, <3>5, <4>1, <4>4 DEF ReadAt, a, b
      <4> HIDE DEF a, b
      <4>7. b <= a /\ a \in Int /\ b \in Int /\ b <= Len(v) + 1
        BY <1>1, <3>1, <4>2, <4>3, <4>5
      <4>8. a <= b
        BY <4>2, <4>3, <4>5, <4>7
      <4>9. a = b /\ a \in 1..N /\ a > i
        BY <1>1, <3>1, <4>3, <4>7, <4>8
      <4> QED
        BY <2>1, <4>6, <4>9
    <3> QED
      BY <3>3, <3>4, <3>5
  <2> QED
    BY <2>2, <2>3
<1>9. 0..N \subseteq S
  <2>1. N \in Nat
    BY <1>1
  <2> HIDE DEF S, N
  <2> QED
    BY <1>7, <1>8, <2>1, UpTo
<1>10. g[1] = Further(f[1], d)
  <2>1. N \in 0..N /\ 1 \in 1..N /\ 1 >= N - N
    BY <1>1
  <2>2. N \in S
    <3> HIDE DEF S, N
    <3> QED
      BY <1>9, <2>1
  <2> QED
    BY <2>1, <2>2
<1>11. Strip(v) = f[1] /\ Strip(v) \in Reading /\ Strip(w) = g[1]
  BY <1>1, <1>4, <1>5, StripReads
<1> QED
  BY <1>10, <1>11 DEF w

------------------------------------------------------------------------------
\* F has, for each number of the first pieces, what they are one behind the other.
Flattens(T, pieces, F) ==
    /\ F \in [1..Len(pieces) -> Seq(T)] /\ F[1] = pieces[1]
    /\ \A i \in 2..Len(pieces) : F[i] = F[i - 1] \o pieces[i]

\* FlattenSeq puts sequences one behind the other.
LEMMA FlattenedIs ==
    ASSUME NEW T, NEW n \in Nat \ {0}, NEW pieces \in [1..n -> Seq(T)]
    PROVE  \E F : Flattens(T, pieces, F) /\ FlattenSeq(pieces) = F[n]
<1> DEFINE X == Seq(T)
           flatten[i \in 1..Len(pieces)] == IF i = 1 THEN pieces[i] ELSE flatten[i - 1] \o pieces[i]
           next == [z \in (1..(n - 1)) \X X |-> z[2] \o pieces[z[1] + 1]]
<1>1. Len(pieces) = n /\ n - 1 \in Nat /\ \A i \in 1..n : pieces[i] \in X
  OBVIOUS
<1>2. \A i \in 1..(n - 1), x \in X : next[<<i, x>>] = x \o pieces[i + 1] /\ next[<<i, x>>] \in X
  <2> SUFFICES ASSUME NEW i \in 1..(n - 1), NEW x \in X
               PROVE  next[<<i, x>>] = x \o pieces[i + 1] /\ next[<<i, x>>] \in X
    OBVIOUS
  <2>1. pieces[i + 1] \in X
    BY <1>1
  <2>2. x \o pieces[i + 1] \in X
    BY <2>1, ConcatProperties
  <2>3. next[<<i, x>>] = x \o pieces[i + 1]
    <3> HIDE DEF X
    <3> QED
      OBVIOUS
  <2> QED
    BY <2>2, <2>3
<1>3. PICK f : Computes(n - 1, X, pieces[1], next, f)
  <2> HIDE DEF X, next
  <2>1. Leads(n - 1, X, next)
    BY <1>2 DEF Leads
  <2>2. 1 \in 1..n /\ pieces[1] \in X
    BY <1>1
  <2> QED
    BY <1>1, <2>1, <2>2, ComputedUpTo
<1>4. f \in [0..(n - 1) -> X] /\ f[0] = pieces[1]
      /\ \A i \in 1..(n - 1) : f[i] = f[i - 1] \o pieces[i + 1]
  <2> HIDE DEF X, next
  <2>1. f \in [0..(n - 1) -> X] /\ f[0] = pieces[1] /\ \A i \in 1..(n - 1) : f[i] = next[<<i, f[i - 1]>>]
    BY <1>3 DEF Computes
  <2>2. \A i \in 1..(n - 1) : f[i - 1] \in X
    BY <1>1, <2>1
  <2> QED
    BY <1>2, <2>1, <2>2
<1> DEFINE g == [i \in 1..Len(pieces) |-> f[i - 1]]
<1>5. g = [i \in 1..Len(pieces) |-> IF i = 1 THEN pieces[i] ELSE g[i - 1] \o pieces[i]]
  <2>1. ASSUME NEW i \in 1..n
        PROVE  f[i - 1] = IF i = 1 THEN pieces[i] ELSE g[i - 1] \o pieces[i]
    <3>1. CASE i = 1
      BY <1>4, <3>1
    <3>2. CASE i # 1
      <4>1. i - 1 \in 1..(n - 1) /\ (i - 1) + 1 = i /\ i - 1 \in 1..Len(pieces)
        BY <1>1, <3>2
      <4>2. f[i - 1] = f[(i - 1) - 1] \o pieces[(i - 1) + 1]
        BY <1>4, <4>1
      <4>3. g[i - 1] = f[(i - 1) - 1]
        BY <4>1
      <4> QED
        BY <3>2, <4>1, <4>2, <4>3
    <3> QED
      BY <3>1, <3>2
  <2> QED
    BY <1>1, <2>1
<1> HIDE DEF g
<1>6. flatten = [i \in 1..Len(pieces) |-> IF i = 1 THEN pieces[i] ELSE flatten[i - 1] \o pieces[i]]
  BY <1>5
<1>7. FlattenSeq(pieces) = flatten[Len(pieces)]
  BY <1>1 DEF FlattenSeq
<1> HIDE DEF flatten, X
<1> DEFINE S == {i \in 0..(n - 1) : flatten[i + 1] \in X}
<1>8. 0 \in S
  BY <1>1, <1>6
<1>9. ASSUME NEW i \in 1..(n - 1), i - 1 \in S
      PROVE  i \in S
  <2>1. (i - 1) + 1 = i /\ flatten[i] \in X
    BY <1>9
  <2>2. /\ i + 1 \in 1..Len(pieces) /\ i + 1 # 1 /\ (i + 1) - 1 = i /\ i \in 0..(n - 1)
        /\ pieces[i + 1] \in X
    BY <1>1
  <2>3. flatten[i + 1] = flatten[i] \o pieces[i + 1]
    BY <1>6, <2>2
  <2>4. flatten[i + 1] \in X
    BY <2>1, <2>2, <2>3, ConcatProperties DEF X
  <2> QED
    BY <2>2, <2>4
<1>10. 0..(n - 1) \subseteq S
  <2> HIDE DEF S
  <2> QED
    BY <1>1, <1>8, <1>9, UpTo
<1>11. \A i \in 1..n : flatten[i] \in X
  <2> SUFFICES ASSUME NEW i \in 1..n PROVE flatten[i] \in X
    OBVIOUS
  <2>1. i - 1 \in 0..(n - 1) /\ (i - 1) + 1 = i
    BY <1>1
  <2>2. i - 1 \in S
    <3> HIDE DEF S
    <3> QED
      BY <1>10, <2>1
  <2> QED
    BY <2>1, <2>2
<1>12. flatten \in [1..Len(pieces) -> X]
  BY <1>1, <1>6, <1>11
<1>13. flatten[1] = pieces[1] /\ \A i \in 2..Len(pieces) : flatten[i] = flatten[i - 1] \o pieces[i]
  <2>1. 1 \in 1..Len(pieces) /\ \A i \in 2..Len(pieces) : i \in 1..Len(pieces) /\ i # 1
    BY <1>1
  <2> QED
    BY <1>6, <2>1
<1>14. Flattens(T, pieces, flatten)
  BY <1>12, <1>13 DEF Flattens, X
<1> QED
  BY <1>1, <1>7, <1>14

\* One more sequence is put behind the others.
LEMMA FlattenedMore ==
    ASSUME NEW T, NEW n \in Nat \ {0}, NEW p \in [1..n -> Seq(T)], NEW q \in [1..(n + 1) -> Seq(T)],
           \A i \in 1..n : q[i] = p[i]
    PROVE  FlattenSeq(p) \in Seq(T) /\ FlattenSeq(q) = FlattenSeq(p) \o q[n + 1]
<1>0. n + 1 \in Nat \ {0} /\ Len(p) = n /\ Len(q) = n + 1 /\ n - 1 \in Nat
  OBVIOUS
<1>1. PICK F : Flattens(T, p, F) /\ FlattenSeq(p) = F[n]
  BY FlattenedIs
<1>2. PICK G : Flattens(T, q, G) /\ FlattenSeq(q) = G[n + 1]
  BY <1>0, FlattenedIs
<1>3. /\ F \in [1..n -> Seq(T)] /\ F[1] = p[1] /\ \A i \in 2..n : F[i] = F[i - 1] \o p[i]
      /\ G[1] = q[1] /\ \A i \in 2..(n + 1) : G[i] = G[i - 1] \o q[i]
  <2>1. /\ F \in [1..n -> Seq(T)] /\ F[1] = p[1] /\ \A i \in 2..n : F[i] = F[i - 1] \o p[i]
    BY <1>0, <1>1 DEF Flattens
  <2>2. G[1] = q[1] /\ \A i \in 2..(n + 1) : G[i] = G[i - 1] \o q[i]
    BY <1>0, <1>2 DEF Flattens
  <2> QED
    BY <2>1, <2>2
<1> DEFINE S == {i \in 0..(n - 1) : G[i + 1] = F[i + 1]}
<1>4. 0 \in S
  BY <1>0, <1>3
<1>5. ASSUME NEW i \in 1..(n - 1), i - 1 \in S
      PROVE  i \in S
  <2>1. /\ i + 1 \in 2..n /\ i + 1 \in 2..(n + 1) /\ (i + 1) - 1 = i /\ (i - 1) + 1 = i
        /\ i \in 0..(n - 1) /\ i + 1 \in 1..n
    BY <1>0
  <2>2. G[i] = F[i]
    BY <1>5, <2>1
  <2>3. G[i + 1] = G[i] \o q[i + 1] /\ F[i + 1] = F[i] \o p[i + 1] /\ q[i + 1] = p[i + 1]
    BY <1>3, <2>1
  <2> QED
    BY <2>1, <2>2, <2>3
<1>6. n - 1 \in S
  <2>1. 0..(n - 1) \subseteq S
    <3> HIDE DEF S
    <3> QED
      BY <1>0, <1>4, <1>5, UpTo
  <2> HIDE DEF S
  <2> QED
    BY <1>0, <2>1
<1>7. G[n] = F[n]
  <2>1. (n - 1) + 1 = n
    BY <1>0
  <2> QED
    BY <1>6, <2>1
<1>8. G[n + 1] = G[n] \o q[n + 1]
  <2>1. n + 1 \in 2..(n + 1) /\ (n + 1) - 1 = n
    BY <1>0
  <2> QED
    BY <1>3, <2>1
<1>9. F[n] \in Seq(T)
  BY <1>0, <1>3
<1> QED
  BY <1>1, <1>2, <1>7, <1>8, <1>9

\* The text shown is that of all the redacted text, and while the stream is open what is held
\* back is its incomplete end; the redacted text is that of one read of everything while no
\* cut went through a credential.
StreamInv ==
    /\ fed \in Seq(Token) /\ left \in Seq(Token) /\ held \in Seq(Token) /\ shown \in Seq(Token)
    /\ safe \in Seq(Token) /\ ended \in BOOLEAN /\ split \in BOOLEAN
    /\ TextIgnoresTheCuts
    /\ ~ended => held = Strip(safe).rest

\* The tokens of two texts that were put together.
LEMMA JoinedTokens ==
    ASSUME NEW v \in Seq(Token), NEW w \in Seq(Token)
    PROVE  /\ v \o w \in Seq(Token) /\ Len(v \o w) = Len(v) + Len(w)
           /\ \A j \in 1..Len(v) : (v \o w)[j] = v[j]
           /\ \A j \in 1..Len(w) : (v \o w)[Len(v) + j] = w[j]
<1>0. Len(v) \in Nat /\ Len(w) \in Nat
  OBVIOUS
<1>1. /\ v \o w \in Seq(Token) /\ Len(v \o w) = Len(v) + Len(w)
      /\ \A i \in 1..(Len(v) + Len(w)) : (v \o w)[i] = IF i <= Len(v) THEN v[i] ELSE w[i - Len(v)]
  BY ConcatProperties
<1>2. ASSUME NEW j \in 1..Len(v) PROVE (v \o w)[j] = v[j]
  <2>1. j \in 1..(Len(v) + Len(w)) /\ j <= Len(v)
    BY <1>0
  <2> QED
    BY <1>1, <2>1
<1>3. ASSUME NEW j \in 1..Len(w) PROVE (v \o w)[Len(v) + j] = w[j]
  <2>1. Len(v) + j \in 1..(Len(v) + Len(w)) /\ ~(Len(v) + j <= Len(v)) /\ (Len(v) + j) - Len(v) = j
    BY <1>0
  <2> QED
    BY <1>1, <2>1
<1> QED
  BY <1>1, <1>2, <1>3

\* A text that has the tokens of the one and then those of the other is the two put together.
LEMMA JoinedOnce ==
    ASSUME NEW v \in Seq(Token), NEW w \in Seq(Token), NEW u \in Seq(Token),
           Len(u) = Len(v) + Len(w),
           \A j \in 1..Len(v) : u[j] = v[j], \A j \in 1..Len(w) : u[Len(v) + j] = w[j]
    PROVE  u = v \o w
<1>0. Len(v) \in Nat /\ Len(w) \in Nat
  OBVIOUS
<1>1. /\ v \o w \in Seq(Token) /\ Len(v \o w) = Len(v) + Len(w)
      /\ \A j \in 1..Len(v) : (v \o w)[j] = v[j]
      /\ \A j \in 1..Len(w) : (v \o w)[Len(v) + j] = w[j]
  BY JoinedTokens
<1>2. ASSUME NEW k \in 1..Len(u) PROVE u[k] = (v \o w)[k]
  <2>1. CASE k <= Len(v)
    BY <1>0, <1>1, <2>1
  <2>2. CASE k > Len(v)
    <3>1. k - Len(v) \in 1..Len(w) /\ Len(v) + (k - Len(v)) = k
      BY <1>0, <2>2
    <3>2. u[Len(v) + (k - Len(v))] = (v \o w)[Len(v) + (k - Len(v))]
      BY <1>1, <3>1
    <3> QED
      BY <3>1, <3>2
  <2> QED
    BY <1>0, <2>1, <2>2
<1> QED
  BY <1>1, <1>2, SeqEqual

\* Redaction keeps the length and makes tokens of tokens.
LEMMA RedactIs ==
    ASSUME NEW v \in Seq(Token)
    PROVE  Redact(v) \in Seq(Token) /\ Len(Redact(v)) = Len(v)
<1>1. Redacted \in Token
  <2>1. \A T : Redacted \in {Redacted} \cup T
    OBVIOUS
  <2> QED
    BY <2>1, Zenon DEF Token
<1>2. \A j \in 1..Len(v) : v[j] \in Token /\ Len(v) \in Nat
  OBVIOUS
<1>3. Redact(v) \in [1..Len(v) -> Token]
  BY <1>1, <1>2 DEF Redact
<1> QED
  BY <1>3

\* Text that is read in two is redacted as in one, when the cut goes through no credential.
LEMMA RedactsInTwo ==
    ASSUME NEW v \in Seq(Token), NEW w \in Seq(Token), NEW more \in Seq(Token),
           ~CutsCredential(v \o (w \o more), Len(v))
    PROVE  Redact(v \o w) = Redact(v) \o Redact(w)
<1> DEFINE n == Len(v)
           both == v \o w
           all == v \o (w \o more)
<1>0. n \in Nat /\ Len(w) \in Nat /\ Len(more) \in Nat
  OBVIOUS
<1>1. both \in Seq(Token) /\ Len(both) = n + Len(w)
  BY JoinedTokens
<1>2. \A j \in 1..n : both[j] = v[j]
  BY JoinedTokens
<1>3. \A j \in 1..Len(w) : both[n + j] = w[j]
  BY JoinedTokens
<1>4. Len(all) = n + (Len(w) + Len(more)) /\ \A j \in 1..(n + Len(w)) : all[j] = both[j]
  <2>1. w \o more \in Seq(Token) /\ Len(w \o more) = Len(w) + Len(more)
        /\ \A j \in 1..Len(w) : (w \o more)[j] = w[j]
    BY JoinedTokens
  <2>2. Len(all) = n + (Len(w) + Len(more)) /\ (\A j \in 1..n : all[j] = v[j])
        /\ \A j \in 1..(Len(w) + Len(more)) : all[n + j] = (w \o more)[j]
    BY <2>1, JoinedTokens
  <2>3. \A j \in 1..Len(w) : all[n + j] = w[j]
    BY <1>0, <2>1, <2>2
  <2>4. ASSUME NEW j \in 1..(n + Len(w)) PROVE all[j] = both[j]
    <3>1. CASE j <= n
      BY <1>0, <1>2, <2>2, <3>1
    <3>2. CASE j > n
      <4>1. j - n \in 1..Len(w) /\ n + (j - n) = j
        BY <1>0, <3>2
      <4> QED
        BY <1>3, <2>3, <4>1
    <3> QED
      BY <1>0, <3>1, <3>2
  <2> QED
    BY <2>2, <2>4
<1>5. Redact(v) \in Seq(Token) /\ Len(Redact(v)) = n
      /\ Redact(w) \in Seq(Token) /\ Len(Redact(w)) = Len(w)
  BY RedactIs
<1> DEFINE apart == Redact(v) \o Redact(w)
<1>6. /\ apart \in Seq(Token) /\ Len(apart) = n + Len(w)
      /\ \A j \in 1..n : apart[j] = Redact(v)[j]
      /\ \A j \in 1..Len(w) : apart[n + j] = Redact(w)[j]
  <2>1. \A x, y \in Seq(Token) :
           /\ x \o y \in Seq(Token) /\ Len(x \o y) = Len(x) + Len(y)
           /\ \A j \in 1..Len(x) : (x \o y)[j] = x[j]
           /\ \A j \in 1..Len(y) : (x \o y)[Len(x) + j] = y[j]
    BY JoinedTokens
  <2>2. /\ apart \in Seq(Token) /\ Len(apart) = Len(Redact(v)) + Len(Redact(w))
        /\ \A j \in 1..Len(Redact(v)) : apart[j] = Redact(v)[j]
        /\ \A j \in 1..Len(Redact(w)) : apart[Len(Redact(v)) + j] = Redact(w)[j]
    BY <1>5, <2>1
  <2> HIDE DEF apart
  <2> QED
    BY <1>5, <2>2
<1>7. ~\E k \in 1..n : \E j \in (n + 1)..Len(all) : k + 2 <= j /\ Assigned(all, k, j)
  BY DEF CutsCredential
<1> HIDE DEF both, all, apart
<1>8. ASSUME NEW j \in 1..n PROVE Redact(both)[j] = apart[j]
  <2>1. ASSUME NEW k \in 1..(j - 2) PROVE Assigned(both, k, j) <=> Assigned(v, k, j)
    <3>1. k \in 1..n /\ k + 1 \in 1..n /\ \A l \in (k + 2)..j : l \in 1..n
      BY <1>0
    <3>2. both[k] = v[k] /\ both[k + 1] = v[k + 1] /\ \A l \in (k + 2)..j : both[l] = v[l]
      BY <1>2, <3>1
    <3> QED
      BY <3>2 DEF Assigned
  <2>2. j \in 1..Len(both) /\ both[j] = v[j] /\ j \in 1..Len(v)
    BY <1>0, <1>1, <1>2
  <2>3. Redact(both)[j] = IF \E k \in 1..(j - 2) : Assigned(both, k, j) THEN Redacted ELSE both[j]
    BY <2>2 DEF Redact
  <2>4. Redact(v)[j] = IF \E k \in 1..(j - 2) : Assigned(v, k, j) THEN Redacted ELSE v[j]
    BY <2>2 DEF Redact
  <2> QED
    BY <1>6, <2>1, <2>2, <2>3, <2>4
<1>9. ASSUME NEW i \in 1..Len(w) PROVE Redact(both)[n + i] = apart[n + i]
  <2>1. ASSUME NEW k \in 1..(n + i - 2), Assigned(both, k, n + i)
        PROVE  k - n \in 1..(i - 2) /\ Assigned(w, k - n, i)
    <3>0. i \in Nat /\ k \in Nat /\ 1 <= k /\ k + 2 <= n + i /\ i <= Len(w) /\ 1 <= i
      BY <1>0
    <3>1. k > n
      <4> SUFFICES ASSUME k <= n PROVE FALSE
        BY <1>0, <3>0
      <4>1. /\ all[k] = both[k] /\ all[k + 1] = both[k + 1]
            /\ \A l \in (k + 2)..(n + i) : all[l] = both[l]
        <5>1. k \in 1..(n + Len(w)) /\ k + 1 \in 1..(n + Len(w))
              /\ \A l \in (k + 2)..(n + i) : l \in 1..(n + Len(w))
          BY <1>0, <3>0
        <5> QED
          BY <1>4, <5>1
      <4>2. Assigned(all, k, n + i)
        BY <2>1, <4>1 DEF Assigned
      <4>3. k \in 1..n /\ n + i \in (n + 1)..Len(all) /\ k + 2 <= n + i
        BY <1>0, <1>4, <3>0
      <4> QED
        BY <1>7, <4>2, <4>3
    <3>2. k - n \in 1..(i - 2) /\ k - n \in 1..Len(w) /\ (k - n) + 1 \in 1..Len(w)
          /\ n + (k - n) = k /\ n + ((k - n) + 1) = k + 1
      BY <1>0, <3>0, <3>1
    <3>3. w[k - n] = both[k] /\ w[(k - n) + 1] = both[k + 1]
      BY <1>3, <3>2
    <3>4. ASSUME NEW l \in ((k - n) + 2)..i PROVE w[l] # Comma
      <4>1. l \in 1..Len(w) /\ n + l \in (k + 2)..(n + i)
        BY <1>0, <3>0, <3>1
      <4> QED
        BY <1>3, <2>1, <4>1 DEF Assigned
    <3> QED
      BY <2>1, <3>2, <3>3, <3>4 DEF Assigned
  <2>2. ASSUME NEW k \in 1..(i - 2), Assigned(w, k, i)
        PROVE  n + k \in 1..(n + i - 2) /\ Assigned(both, n + k, n + i)
    <3>1. k \in 1..Len(w) /\ k + 1 \in 1..Len(w) /\ n + k \in 1..(n + i - 2)
          /\ (n + k) + 1 = n + (k + 1)
      BY <1>0
    <3>2. both[n + k] = w[k] /\ both[(n + k) + 1] = w[k + 1]
      BY <1>3, <3>1
    <3>3. ASSUME NEW l \in ((n + k) + 2)..(n + i) PROVE both[l] # Comma
      <4>1. l - n \in (k + 2)..i /\ l - n \in 1..Len(w) /\ n + (l - n) = l
        BY <1>0
      <4> QED
        BY <1>3, <2>2, <4>1 DEF Assigned
    <3> QED
      BY <2>2, <3>1, <3>2, <3>3 DEF Assigned
  <2>3. n + i \in 1..Len(both) /\ both[n + i] = w[i]
    BY <1>0, <1>1, <1>3
  <2>4. Redact(both)[n + i] =
            IF \E k \in 1..(n + i - 2) : Assigned(both, k, n + i) THEN Redacted ELSE both[n + i]
    BY <2>3 DEF Redact
  <2>5. Redact(w)[i] = IF \E k \in 1..(i - 2) : Assigned(w, k, i) THEN Redacted ELSE w[i]
    BY DEF Redact
  <2>6. (\E k \in 1..(n + i - 2) : Assigned(both, k, n + i)) <=> \E k \in 1..(i - 2) : Assigned(w, k, i)
    BY <2>1, <2>2
  <2> QED
    BY <1>6, <2>3, <2>4, <2>5, <2>6
<1>10. ASSUME NEW j \in 1..(n + Len(w)) PROVE Redact(both)[j] = apart[j]
  <2>1. CASE j <= n
    BY <1>0, <1>8, <2>1
  <2>2. CASE j > n
    <3>1. j - n \in 1..Len(w) /\ n + (j - n) = j
      BY <1>0, <2>2
    <3> QED
      BY <1>9, <3>1
  <2> QED
    BY <1>0, <2>1, <2>2
<1>11. Redact(both) \in Seq(Token) /\ Len(Redact(both)) = n + Len(w)
  BY <1>1, RedactIs
<1>12. Redact(both) = apart
  BY <1>6, <1>10, <1>11, SeqEqual
<1> QED
  BY <1>12 DEF both, apart

\* Nothing shows nothing.
LEMMA StripsNothing == Strip(<<>>) = Nothing
<1>1. <<>> \in Seq(Token) /\ Len(<<>>) = 0
  BY EmptySeq
<1>2. PICK f : Reads(<<>>, f)
  BY <1>1, ReadingExists
<1>3. f[1] = Nothing
  <2>1. 1 \in 1..(Len(<<>>) + 2) /\ 1 > Len(<<>>)
    BY <1>1
  <2>2. f[1] = ReadAt(<<>>, f, 1)
    BY <1>2, <2>1 DEF Reads
  <2> QED
    BY <2>1, <2>2 DEF ReadAt
<1> QED
  BY <1>1, <1>2, <1>3, StripReads

\* Before the first read nothing was shown, and nothing is incomplete.
LEMMA StreamStarts == StreamInit => StreamInv
<1> SUFFICES ASSUME StreamInit PROVE StreamInv
  OBVIOUS
<1>1. left \in Seq(Token)
  <2>0. PICK n \in 1..MaxPieces : \E pieces \in [1..n -> Piece] : left = FlattenSeq(pieces)
    BY DEF StreamInit
  <2>1. PICK pieces \in [1..n -> Piece] : left = FlattenSeq(pieces)
    BY <2>0
  <2>2. n \in Nat \ {0} /\ pieces \in [1..n -> Seq(Token)]
    BY StreamAssumption, <2>1
  <2>3. Len(pieces) = n /\ n \in 1..n
    BY <2>2
  <2>4. PICK F : Flattens(Token, pieces, F) /\ FlattenSeq(pieces) = F[n]
    BY <2>2, FlattenedIs
  <2>5. F[n] \in Seq(Token)
    BY <2>3, <2>4 DEF Flattens
  <2> QED
    BY <2>1, <2>4, <2>5
<1>2. Strip(fed) = Nothing /\ <<>> \in Seq(Token)
  BY StripsNothing, EmptySeq DEF StreamInit
<1>3. Strip(safe).text = <<>> /\ Strip(safe).rest = <<>>
  BY <1>2 DEF Nothing, StreamInit
<1>4. fed = <<>> /\ safe = <<>> /\ split = FALSE /\ held = <<>> /\ shown = <<>> /\ ended = FALSE
  BY DEF StreamInit
<1>5. Redact(<<>>) = <<>>
  BY <1>2, RedactIs, EmptySeq
<1>6. TextIgnoresTheCuts
  BY <1>3, <1>4, <1>5 DEF TextIgnoresTheCuts
<1> QED
  BY <1>1, <1>2, <1>3, <1>4, <1>6 DEF StreamInv

\* Every read keeps the invariant, the one that ends the stream too.
LEMMA StreamKeeps ==
    ASSUME StreamInv, [StreamNext]_streamVars
    PROVE  StreamInv'
<1>1. ASSUME NEW n \in 0..Len(left), NEW final \in BOOLEAN, EmitTerminal(n, final)
      PROVE  StreamInv'
  <2> DEFINE data == SubSeq(left, 1, n)
             text == Redact(data)
             s == Strip(held \o text)
             behind == SubSeq(left, n + 1, Len(left))
  <2>0. /\ fed \in Seq(Token) /\ left \in Seq(Token) /\ held \in Seq(Token)
        /\ shown \in Seq(Token) /\ safe \in Seq(Token) /\ split \in BOOLEAN
    BY DEF StreamInv
  <2>1. data \in Seq(Token) /\ behind \in Seq(Token) /\ left = data \o behind
    <3>1. Len(left) \in Nat /\ n \in Nat /\ n <= Len(left) /\ \A k \in 1..Len(left) : left[k] \in Token
      BY <2>0
    <3>2. (\A k \in 1..n : left[k] \in Token) /\ (\A k \in (n + 1)..Len(left) : left[k] \in Token)
      BY <3>1
    <3>3. data \in Seq(Token) /\ Len(data) = n /\ \A k \in 1..n : data[k] = left[k]
      BY <3>1, <3>2, SubSeqProperties
    <3>4. /\ behind \in Seq(Token) /\ Len(behind) = Len(left) - n
          /\ \A k \in 1..(Len(left) - n) : behind[k] = left[n + k]
      BY <3>1, <3>2, SubSeqProperties
    <3> HIDE DEF data, behind
    <3>5. Len(left) = Len(data) + Len(behind)
      <4>1. Len(data) = n /\ Len(behind) = Len(left) - n
        BY <3>3, <3>4
      <4>2. Len(left) = n + (Len(left) - n)
        BY <3>1
      <4> QED
        BY <4>1, <4>2, Zenon
    <3>6. /\ \A k \in 1..Len(data) : left[k] = data[k]
          /\ \A k \in 1..Len(behind) : left[Len(data) + k] = behind[k]
      <4>1. Len(data) = n /\ Len(behind) = Len(left) - n
        BY <3>3, <3>4
      <4>2. \A k \in 1..n : left[k] = data[k]
        BY <3>3, Zenon
      <4>3. \A k \in 1..(Len(left) - n) : left[n + k] = behind[k]
        BY <3>4, Zenon
      <4> QED
        BY <4>1, <4>2, <4>3, Zenon
    <3>7. left = data \o behind
      BY <2>0, <3>3, <3>4, <3>5, <3>6, JoinedOnce
    <3> QED
      BY <3>3, <3>4, <3>7
  <2>2. /\ ~ended /\ fed' = fed \o data /\ left' = behind
        /\ safe' = safe \o text /\ split' = (split \/ CutsCredential(fed \o left, Len(fed)))
        /\ held' = (IF final THEN <<>> ELSE s.rest) /\ shown' = shown \o s.text /\ ended' = final
    BY <1>1 DEF EmitTerminal
  <2> HIDE DEF data, behind, text
  <2>3. held = Strip(safe).rest /\ shown = Strip(safe).text
    BY <2>2 DEF StreamInv, TextIgnoresTheCuts
  <2>4. text \in Seq(Token)
    BY <2>1, RedactIs DEF text
  <2>5. fed' \in Seq(Token) /\ safe' \in Seq(Token) /\ held \o text \in Seq(Token)
    BY <2>0, <2>1, <2>2, <2>4, ConcatProperties
  <2>6. s \in Reading
    BY <2>5, ReadingExists, StripReads
  <2>7. shown' \in Seq(Token) /\ held' \in Seq(Token)
    BY <2>0, <2>2, <2>6, ConcatProperties, EmptySeq DEF Reading
  <2>8. Strip(safe') = Further(Strip(safe), text)
    BY <2>0, <2>2, <2>4, StripOfMore
  <2>9. Strip(safe') = [text |-> shown \o s.text, rest |-> s.rest]
    BY <2>3, <2>8 DEF Further
  <2>10. split' \in BOOLEAN
    <3>1. CutsCredential(fed \o left, Len(fed)) \in BOOLEAN
      BY DEF CutsCredential
    <3> QED
      BY <2>2, <2>0, <3>1
  <2>11. ASSUME ~split' PROVE safe' = Redact(fed')
    <3>1. ~split /\ ~CutsCredential(fed \o (data \o behind), Len(fed))
      BY <2>1, <2>2, <2>11
    <3>2. safe = Redact(fed)
      BY <3>1 DEF StreamInv, TextIgnoresTheCuts
    <3>3. Redact(fed \o data) = Redact(fed) \o Redact(data)
      BY <2>0, <2>1, <3>1, RedactsInTwo
    <3> QED
      BY <2>2, <3>2, <3>3 DEF text
  <2>12. TextIgnoresTheCuts'
    <3>1. Strip(safe').text = shown \o s.text
      BY <2>9
    <3>2. shown' = Strip(safe').text
      BY <2>2, <3>1, Zenon
    <3> QED
      BY <2>11, <3>2, Zenon DEF TextIgnoresTheCuts
  <2> QED
    BY <2>1, <2>2, <2>5, <2>7, <2>9, <2>10, <2>12 DEF StreamInv
<1>2. CASE UNCHANGED streamVars
  BY <1>2 DEF StreamInv, TextIgnoresTheCuts, streamVars
<1>3. CASE left = <<>> /\ EmitTerminal(0, TRUE)
  <2>1. 0 \in 0..Len(left)
    BY DEF StreamInv
  <2> QED
    BY <1>1, <1>3, <2>1
<1>4. ASSUME NEW n \in 1..Len(left), EmitTerminal(n, FALSE) PROVE StreamInv'
  <2>1. n \in 0..Len(left)
    BY DEF StreamInv
  <2> QED
    BY <1>1, <1>4, <2>1
<1> QED
  BY <1>2, <1>3, <1>4 DEF StreamNext

\* What is shown and what is held back are those of all that was read.
THEOREM StreamInvariant == StreamSpec => []StreamInv
<1>1. StreamInit => StreamInv
  BY StreamStarts
<1>2. StreamInv /\ [StreamNext]_streamVars => StreamInv'
  BY StreamKeeps
<1> QED
  BY <1>1, <1>2, PTL DEF StreamSpec

\* The filter never minds how the text was cut, and while no cut went through a credential
\* neither does redaction: what was shown is what one read of everything would show.
THEOREM TextNeverKnowsTheCuts == StreamSpec => []TextIgnoresTheCuts
<1>1. StreamInv => TextIgnoresTheCuts
  BY DEF StreamInv
<1> QED
  BY <1>1, StreamInvariant, PTL

------------------------------------------------------------------------------
(***************************************************************************)
(* The images of a Codex session, for any child that cuts none of its      *)
(* sequences, any cuts of the reader and any limits: the frames that       *)
(* ImageCompositor has given are those of one read of everything, and they *)
(* are whole (CodexStream.tla).                                            *)
(*                                                                         *)
(* Both are said of the whole text, what was fed and what is left, which   *)
(* no read changes.  Runs says how far that text was read by each of its   *)
(* places: what came of the sequences that end by there.  A turn of feed's *)
(* loop either takes the next sequence of the text or drops what holds no  *)
(* start of one (TurnTakes, TurnTrims), wherever the text was cut, so when *)
(* nothing complete is pending the compositor is as far as Runs says       *)
(* (FeedReads) -- after one read as after many.  That the frames are whole *)
(* is then a fact about the text alone (RunKeepsImages): a payload is the  *)
(* one of the sequence that is taken, so the parts that wait are the last  *)
(* that were sent of their image.                                          *)
(***************************************************************************)

\* A least element that is no greater than the others is the least.
LEMMA MinOnce ==
    ASSUME NEW S \in SUBSET Nat, NEW m \in S, \A n \in S : m <= n
    PROVE  Min(S) = m
<1>1. Min(S) \in S /\ Min(S) <= m
  BY MinIs
<1>2. m <= Min(S) /\ m \in Nat /\ Min(S) \in Nat
  BY <1>1
<1> QED
  BY <1>1, <1>2

Regroups(a, b, c) == (a \o b) \o c = a \o (b \o c)

LEMMA Regrouped == \A S : \A a, b, c \in Seq(S) : Regroups(a, b, c)
BY ConcatAssociative DEF Regroups

\* The graphics sequences of S that start behind q, and that the first of them ends by r.
Ahead(S, q) == {i \in Openings(S) : i > q}
From(S, q) == Min(Ahead(S, q))
EndOf(S, q) == Min(Closings(S, From(S, q)))
Ends(S, q, r) == Ahead(S, q) # {} /\ Closings(S, From(S, q)) # {} /\ EndOf(S, q) + 1 <= r

\* What is between q and r of S.
Window(S, q, r) == SubSeq(S, q + 1, r)

LEMMA WindowIs ==
    ASSUME NEW S \in Seq(Token), NEW q \in 0..Len(S), NEW r \in q..Len(S)
    PROVE  /\ Window(S, q, r) \in Seq(Token) /\ Len(Window(S, q, r)) = r - q
           /\ \A k \in 1..(r - q) : Window(S, q, r)[k] = S[q + k]
<1>1. Len(S) \in Nat /\ q + 1 \in Nat /\ r \in Nat
  OBVIOUS
<1>2. \A k \in (q + 1)..r : S[k] \in Token
  BY <1>1
<1>3. /\ Window(S, q, r) \in Seq(Token)
      /\ Len(Window(S, q, r)) = IF q + 1 <= r THEN r - (q + 1) + 1 ELSE 0
      /\ \A k \in 1..(r - (q + 1) + 1) : Window(S, q, r)[k] = S[q + 1 + k - 1]
  BY <1>1, <1>2, SubSeqProperties DEF Window
<1>4. r - (q + 1) + 1 = r - q /\ \A k \in 1..(r - q) : q + 1 + k - 1 = q + k
  BY <1>1
<1> QED
  BY <1>1, <1>3, <1>4

\* Where sequences start and end are places.
LEMMA PlacesAre ==
    ASSUME NEW S \in Seq(Token)
    PROVE  /\ Len(S) \in Nat /\ Openings(S) \in SUBSET Nat
           /\ \A i \in Openings(S) : i \in 1..(Len(S) - 1)
           /\ \A q : Ahead(S, q) \in SUBSET Nat
           /\ \A i : Closings(S, i) \in SUBSET Int
           /\ \A i \in Nat : Closings(S, i) \in SUBSET Nat
BY DEF Openings, Closings, Ahead

\* The next sequence behind q, where there is one.
LEMMA NextIs ==
    ASSUME NEW S \in Seq(Token), NEW q \in 0..Len(S), Ahead(S, q) # {}
    PROVE  /\ From(S, q) \in Openings(S) /\ From(S, q) > q /\ \A i \in Ahead(S, q) : From(S, q) <= i
           /\ From(S, q) \in 1..(Len(S) - 1) /\ S[From(S, q)] = ESC
           /\ Closings(S, From(S, q)) # {} =>
                  /\ EndOf(S, q) \in (From(S, q) + 3)..(Len(S) - 1) /\ S[EndOf(S, q)] = ESC /\ S[EndOf(S, q) + 1] = ST
                  /\ EndOf(S, q) \in Closings(S, From(S, q))
                  /\ \A j \in Closings(S, From(S, q)) : EndOf(S, q) <= j
<1>1. From(S, q) \in Ahead(S, q) /\ \A i \in Ahead(S, q) : From(S, q) <= i
  BY PlacesAre, MinIs DEF From
<1>2. From(S, q) \in Openings(S) /\ From(S, q) > q /\ From(S, q) \in 1..(Len(S) - 1) /\ S[From(S, q)] = ESC
  BY <1>1 DEF Ahead, Openings
<1>3. ASSUME Closings(S, From(S, q)) # {}
      PROVE  /\ EndOf(S, q) \in Closings(S, From(S, q))
             /\ \A j \in Closings(S, From(S, q)) : EndOf(S, q) <= j
  <2>1. Closings(S, From(S, q)) \in SUBSET Nat
    BY <1>2, PlacesAre
  <2> QED
    BY <1>3, <2>1, MinIs DEF EndOf
<1>4. ASSUME Closings(S, From(S, q)) # {}
      PROVE  EndOf(S, q) \in (From(S, q) + 3)..(Len(S) - 1) /\ S[EndOf(S, q)] = ESC /\ S[EndOf(S, q) + 1] = ST
  BY <1>3, <1>4 DEF Closings
<1> QED
  BY <1>1, <1>2, <1>3, <1>4

\* A window shows a start when it shows the three characters of one.
LEMMA WindowOpens ==
    ASSUME NEW S \in Seq(Token), NEW q \in 0..Len(S), NEW r \in q..Len(S)
    PROVE  /\ \A i \in Openings(Window(S, q, r)) : q + i \in Ahead(S, q) /\ q + i + 1 <= r
           /\ \A i \in Ahead(S, q) : i + 2 <= r => i - q \in Openings(Window(S, q, r))
<1> DEFINE v == Window(S, q, r)
<1>1. v \in Seq(Token) /\ Len(v) = r - q /\ \A k \in 1..(r - q) : v[k] = S[q + k]
  BY WindowIs
<1>2. Len(S) \in Nat /\ q \in Nat /\ r \in Nat /\ q <= r /\ r <= Len(S)
  OBVIOUS
<1> HIDE DEF v
<1>3. ASSUME NEW i \in Openings(v)
      PROVE  q + i \in Ahead(S, q) /\ q + i + 1 <= r
  <2>1. /\ i \in 1..(r - q - 1) /\ v[i] = ESC
        /\ v[i + 1] = DCS \/ (v[i + 1] = APC /\ i + 2 <= r - q /\ v[i + 2] = "G")
    BY <1>1 DEF Openings
  <2>2. i + 1 \in 1..(r - q) /\ i \in 1..(r - q) /\ q + i \in 1..(Len(S) - 1) /\ q + i > q /\ q + i + 1 <= r
    BY <1>2, <2>1
  <2>3. S[q + i] = ESC /\ S[q + i + 1] = v[i + 1]
    BY <1>1, <1>2, <2>1, <2>2
  <2>4. ASSUME i + 2 <= r - q PROVE v[i + 2] = S[q + i + 2] /\ q + i + 2 <= Len(S)
    <3>1. i \in Nat /\ i >= 1
      BY <2>2
    <3>2. i + 2 \in 1..(r - q) /\ q + (i + 2) = q + i + 2 /\ q + i + 2 <= Len(S)
      BY <1>2, <2>4, <3>1
    <3>3. v[i + 2] = S[q + (i + 2)]
      BY <1>1, <3>2
    <3> QED
      BY <3>2, <3>3
  <2> QED
    BY <2>1, <2>2, <2>3, <2>4 DEF Ahead, Openings
<1>4. ASSUME NEW i \in Ahead(S, q), i + 2 <= r
      PROVE  i - q \in Openings(v)
  <2>1. /\ i \in 1..(Len(S) - 1) /\ S[i] = ESC /\ i > q
        /\ S[i + 1] = DCS \/ (S[i + 1] = APC /\ S[i + 2] = "G")
    BY DEF Ahead, Openings
  <2> DEFINE m == i - q
  <2>2. /\ m \in 1..(r - q - 1) /\ m \in 1..(r - q) /\ m + 1 \in 1..(r - q) /\ m + 2 \in 1..(r - q)
        /\ q + m = i /\ q + (m + 1) = i + 1 /\ q + (m + 2) = i + 2 /\ m + 2 <= r - q
    BY <1>2, <1>4, <2>1
  <2> HIDE DEF m
  <2>3. v[m] = S[i] /\ v[m + 1] = S[i + 1] /\ v[m + 2] = S[i + 2]
    BY <1>1, <2>2
  <2>4. m \in Openings(v)
    BY <1>1, <2>1, <2>2, <2>3 DEF Openings
  <2> QED
    BY <2>4 DEF m
<1> QED
  BY <1>3, <1>4 DEF v

\* And an end when it shows both of its characters.
LEMMA WindowCloses ==
    ASSUME NEW S \in Seq(Token), NEW q \in 0..Len(S), NEW r \in q..Len(S), NEW i \in 1..(r - q)
    PROVE  /\ \A j \in Closings(Window(S, q, r), i) : q + j \in Closings(S, q + i) /\ q + j + 1 <= r
           /\ \A j \in Closings(S, q + i) : j + 1 <= r => j - q \in Closings(Window(S, q, r), i)
<1> DEFINE v == Window(S, q, r)
<1>1. v \in Seq(Token) /\ Len(v) = r - q /\ \A k \in 1..(r - q) : v[k] = S[q + k]
  BY WindowIs
<1>2. Len(S) \in Nat /\ q \in Nat /\ r \in Nat /\ q <= r /\ r <= Len(S) /\ i \in Nat /\ i >= 1
  OBVIOUS
<1> HIDE DEF v
<1>3. ASSUME NEW j \in Closings(v, i)
      PROVE  q + j \in Closings(S, q + i) /\ q + j + 1 <= r
  <2>1. j \in (i + 3)..(r - q - 1) /\ v[j] = ESC /\ v[j + 1] = ST
    BY <1>1 DEF Closings
  <2>2. /\ j \in 1..(r - q) /\ j + 1 \in 1..(r - q) /\ q + (j + 1) = q + j + 1 /\ q + j + 1 <= r
        /\ q + j \in (q + i + 3)..(Len(S) - 1)
    BY <1>2, <2>1
  <2>3. S[q + j] = ESC /\ S[q + j + 1] = ST
    BY <1>1, <2>1, <2>2
  <2> QED
    BY <2>2, <2>3 DEF Closings
<1>4. ASSUME NEW j \in Closings(S, q + i), j + 1 <= r
      PROVE  j - q \in Closings(v, i)
  <2>1. j \in (q + i + 3)..(Len(S) - 1) /\ S[j] = ESC /\ S[j + 1] = ST
    BY DEF Closings
  <2> DEFINE m == j - q
  <2>2. /\ m \in (i + 3)..(r - q - 1) /\ m \in 1..(r - q) /\ m + 1 \in 1..(r - q)
        /\ q + m = j /\ q + (m + 1) = j + 1
    BY <1>2, <1>4, <2>1
  <2> HIDE DEF m
  <2>3. v[m] = ESC /\ v[m + 1] = ST
    BY <1>1, <2>1, <2>2
  <2>4. m \in Closings(v, i)
    BY <1>1, <2>2, <2>3 DEF Closings
  <2> QED
    BY <2>4 DEF m
<1> QED
  BY <1>3, <1>4 DEF v

\* A window is complete when the next sequence ends in it, and then that one is its first.
LEMMA CompleteIs ==
    ASSUME NEW S \in Seq(Token), NEW q \in 0..Len(S), NEW r \in q..Len(S), NEW v, v = Window(S, q, r)
    PROVE  /\ Complete(v) <=> Ends(S, q, r)
           /\ Complete(v) =>
                  /\ Min(Openings(v)) = From(S, q) - q
                  /\ Min(Closings(v, Min(Openings(v)))) = EndOf(S, q) - q
<1>0. Len(S) \in Nat /\ q \in Nat /\ r \in Nat /\ q <= r /\ r <= Len(S)
  OBVIOUS
<1>1. v \in Seq(Token) /\ Len(v) = r - q
  BY WindowIs
<1>2. ASSUME Complete(v)
      PROVE  /\ Ends(S, q, r) /\ Min(Openings(v)) = From(S, q) - q
             /\ Min(Closings(v, Min(Openings(v)))) = EndOf(S, q) - q
  <2> DEFINE i == Min(Openings(v))
             j == Min(Closings(v, i))
  <2>1. i \in Openings(v) /\ \A k \in Openings(v) : i <= k
    BY <1>1, <1>2, PlacesAre, MinIs DEF Complete
  <2>2. i \in 1..(r - q - 1)
    BY <1>1, <2>1, PlacesAre
  <2>3. j \in Closings(v, i) /\ \A k \in Closings(v, i) : j <= k
    <3>1. Closings(v, i) # {}
      BY <1>2 DEF Complete
    <3>2. Closings(v, i) \in SUBSET Nat
      BY <1>1, <2>2, PlacesAre
    <3> QED
      BY <3>1, <3>2, MinIs
  <2> HIDE DEF i, j
  <2>4. q + i \in Ahead(S, q)
    BY <2>1, WindowOpens
  <2>5. i \in 1..(r - q)
    BY <1>0, <2>2
  <2>6. q + j \in Closings(S, q + i) /\ q + j + 1 <= r /\ j \in (i + 3)..(r - q - 1)
    BY <1>1, <2>3, <2>5, WindowCloses DEF Closings
  <2>7. ASSUME NEW k \in Ahead(S, q) PROVE q + i <= k
    <3>1. k \in Nat
      BY PlacesAre
    <3>2. CASE k + 2 <= r
      <4>1. k - q \in Openings(v)
        BY <3>2, WindowOpens
      <4>2. i <= k - q
        BY <2>1, <4>1
      <4> QED
        BY <1>0, <2>2, <3>1, <4>2
    <3>3. CASE ~(k + 2 <= r)
      BY <1>0, <2>6, <2>2, <3>1, <3>3
    <3> QED
      BY <3>2, <3>3
  <2>8. From(S, q) = q + i
    BY <2>4, <2>7, PlacesAre, MinOnce DEF From
  <2>9. ASSUME NEW k \in Closings(S, q + i) PROVE q + j <= k
    <3>1. k \in Nat
      BY <1>0, <2>5, PlacesAre
    <3>2. CASE k + 1 <= r
      <4>1. k - q \in Closings(v, i)
        BY <2>5, <3>2, WindowCloses
      <4>2. j <= k - q
        BY <2>3, <4>1
      <4> QED
        BY <1>0, <2>6, <3>1, <4>2
    <3>3. CASE ~(k + 1 <= r)
      BY <1>0, <2>6, <3>1, <3>3
    <3> QED
      BY <3>2, <3>3
  <2>10. EndOf(S, q) = q + j
    <3>1. Closings(S, q + i) \in SUBSET Nat
      BY <1>0, <2>5, PlacesAre
    <3> QED
      BY <2>6, <2>8, <2>9, <3>1, MinOnce DEF EndOf
  <2>11. i = From(S, q) - q /\ j = EndOf(S, q) - q
    BY <1>0, <2>2, <2>6, <2>8, <2>10
  <2>12. Ends(S, q, r)
    BY <2>4, <2>6, <2>8, <2>10 DEF Ends
  <2> QED
    BY <2>11, <2>12 DEF i, j
<1>3. ASSUME Ends(S, q, r)
      PROVE  Complete(v)
  <2> DEFINE i == From(S, q)
             j == EndOf(S, q)
  <2>1. Ahead(S, q) # {} /\ Closings(S, i) # {} /\ j + 1 <= r
    BY <1>3 DEF Ends
  <2>2. /\ i \in Openings(S) /\ i > q /\ \A k \in Ahead(S, q) : i <= k
        /\ i \in 1..(Len(S) - 1) /\ j \in (i + 3)..(Len(S) - 1) /\ j \in Closings(S, i)
    BY <2>1, NextIs
  <2> HIDE DEF i, j
  <2>3. i \in Ahead(S, q) /\ i + 2 <= r
    BY <1>0, <2>1, <2>2 DEF Ahead
  <2>4. i - q \in Openings(v)
    BY <2>3, WindowOpens
  <2>5. \A k \in Openings(v) : k \in Nat /\ q + k \in Ahead(S, q)
    BY <1>1, WindowOpens, PlacesAre
  <2>6. \A k \in Openings(v) : i - q <= k
    <3> SUFFICES ASSUME NEW k \in Openings(v) PROVE i - q <= k
      OBVIOUS
    <3>1. k \in Nat /\ i <= q + k
      BY <2>2, <2>5
    <3> QED
      BY <1>0, <2>2, <3>1
  <2>7. Min(Openings(v)) = i - q
    BY <1>1, <2>4, <2>6, PlacesAre, MinOnce
  <2>8. i - q \in 1..(r - q) /\ q + (i - q) = i
    BY <1>0, <2>2, <2>3
  <2>9. j - q \in Closings(v, i - q)
    BY <2>1, <2>2, <2>8, WindowCloses
  <2> QED
    BY <2>4, <2>7, <2>9 DEF Complete
<1> QED
  BY <1>2, <1>3

\* What is dropped of a window that is not complete holds no start.
LEMMA TrimKeepsAhead ==
    ASSUME NEW S \in Seq(Token), NEW q \in 0..Len(S), NEW r \in q..Len(S), NEW v, v = Window(S, q, r)
    PROVE  /\ KeptFrom(v) \in 1..(r - q + 1)
           /\ Ahead(S, q + KeptFrom(v) - 1) = Ahead(S, q)
<1>0. Len(S) \in Nat /\ q \in Nat /\ r \in Nat /\ q <= r /\ r <= Len(S)
  OBVIOUS
<1>1. v \in Seq(Token) /\ Len(v) = r - q
  BY WindowIs
<1>2. KeptFrom(v) \in 1..(r - q + 1) /\ \A i \in Ahead(S, q) : i > q + KeptFrom(v) - 1
  <2>1. CASE Openings(v) # {}
    <3> DEFINE m == Min(Openings(v))
    <3>1. m \in Openings(v) /\ \A k \in Openings(v) : m <= k
      BY <1>1, <2>1, PlacesAre, MinIs
    <3>2. m \in 1..(r - q - 1)
      BY <1>1, <3>1, PlacesAre
    <3>3. KeptFrom(v) = m
      BY <2>1 DEF KeptFrom
    <3> HIDE DEF m
    <3>4. ASSUME NEW i \in Ahead(S, q) PROVE i > q + m - 1
      <4>1. i \in Nat
        BY PlacesAre
      <4>2. CASE i + 2 <= r
        <5>1. i - q \in Openings(v)
          BY <4>2, WindowOpens
        <5>2. m <= i - q
          BY <3>1, <5>1
        <5> QED
          BY <1>0, <3>2, <4>1, <5>2
      <4>3. CASE ~(i + 2 <= r)
        BY <1>0, <3>2, <4>1, <4>3
      <4> QED
        BY <4>2, <4>3
    <3> QED
      BY <1>0, <3>2, <3>3, <3>4
  <2>2. CASE Openings(v) = {}
    <3>1. \A i \in Ahead(S, q) : i \in Nat /\ i > q /\ ~(i + 2 <= r)
      BY <2>2, WindowOpens, PlacesAre DEF Ahead
    <3>2. TailKept \in Nat /\ TailKept >= 2
      BY StreamAssumption
    <3>3. KeptFrom(v) = IF r - q > TailKept THEN r - q - TailKept + 1 ELSE 1
      BY <1>1, <2>2 DEF KeptFrom
    <3>4. KeptFrom(v) \in 1..(r - q + 1) /\ (KeptFrom(v) = 1 \/ q + KeptFrom(v) - 1 <= r - 2)
      BY <1>0, <3>2, <3>3
    <3>5. ASSUME NEW i \in Ahead(S, q) PROVE i > q + KeptFrom(v) - 1
      BY <1>0, <3>1, <3>4
    <3> QED
      BY <3>4, <3>5
  <2> QED
    BY <2>1, <2>2
<1>3. q + KeptFrom(v) - 1 \in Nat /\ q + KeptFrom(v) - 1 >= q
  BY <1>0, <1>2
<1>4. \A i : i \in Ahead(S, q + KeptFrom(v) - 1) <=> i \in Ahead(S, q)
  <2>1. \A i \in Openings(S) : i \in Nat
    BY PlacesAre
  <2> QED
    BY <1>0, <1>2, <1>3, <2>1 DEF Ahead
<1> QED
  BY <1>2, <1>4

\* The states of a compositor.
Ids == {Payload[k].id : k \in DOMAIN Payload}
PartsOfImages == [Ids -> Seq(DOMAIN Payload)]
Frames == (Ids \cup {"sixel"}) \X Seq(Token \cup DOMAIN Payload)
Problems == {"payload", "limit", "sixel"}
Answers == [parts : PartsOfImages, frame : Seq(Frames), issue : SUBSET Problems]
Composers ==
    [pending : Seq(Token), parts : PartsOfImages, seen : Nat, out : Seq(Frames), issues : SUBSET Problems]

\* An answer is what it was made of.
LEMMA AnswerIs ==
    /\ \A q, f, y : Answer(q, f, y).parts = q /\ Answer(q, f, y).frame = f /\ Answer(q, f, y).issue = y
    /\ \A q \in PartsOfImages, f \in Seq(Frames), y \in SUBSET Problems : Answer(q, f, y) \in Answers
BY DEF Answer, Answers

LEMMA AnswerTyped ==
    ASSUME NEW q \in PartsOfImages
    PROVE  /\ NoParts \in PartsOfImages
           /\ \A y \in Problems : Answer(q, <<>>, {y}) \in Answers /\ Answer(NoParts, <<>>, {y}) \in Answers
           /\ Answer(q, <<>>, {}) \in Answers
           /\ \A f \in Frames : Answer(q, <<f>>, {}) \in Answers
<1>1. <<>> \in Seq(Frames) /\ <<>> \in Seq(DOMAIN Payload) /\ \A f \in Frames : <<f>> \in Seq(Frames)
  BY EmptySeq
<1>2. NoParts \in PartsOfImages
  BY <1>1 DEF NoParts, PartsOfImages, Ids
<1>3. {} \in SUBSET Problems /\ \A y \in Problems : {y} \in SUBSET Problems
  OBVIOUS
<1> QED
  BY <1>1, <1>2, <1>3, AnswerIs

\* What a Kitty sequence is answered.
LEMMA KittyTyped ==
    ASSUME NEW q \in PartsOfImages, NEW body
    PROVE  Kitty(q, body) \in Answers
<1> DEFINE k == body[1]
           p == Payload[k]
           all == Append(q[p.id], k)
<1>1. CASE ~(IsPayload(body) /\ p.ok)
  BY <1>1, AnswerTyped DEF Kitty, Problems
<1>2. CASE IsPayload(body) /\ p.ok
  <2>1. k \in DOMAIN Payload /\ p.id \in Ids
    BY <1>2 DEF IsPayload, Ids
  <2> HIDE DEF k
  <2>2. q[p.id] \in Seq(DOMAIN Payload)
    BY <2>1 DEF PartsOfImages
  <2>3. all \in Seq(DOMAIN Payload)
    BY <2>1, <2>2, AppendProperties
  <2>4. all \in Seq(Token \cup DOMAIN Payload)
    <3> HIDE DEF all
    <3> QED
      BY <2>3
  <2> HIDE DEF all
  <2>5. <<p.id, all>> \in Frames
    BY <2>1, <2>4 DEF Frames
  <2>6. [q EXCEPT ![p.id] = all] \in PartsOfImages /\ [q EXCEPT ![p.id] = <<>>] \in PartsOfImages
    BY <2>1, <2>3, EmptySeq DEF PartsOfImages
  <2>7. \/ Kitty(q, body) = Answer(NoParts, <<>>, {"limit"})
        \/ Kitty(q, body) = Answer([q EXCEPT ![p.id] = all], <<>>, {})
        \/ Kitty(q, body) = Answer([q EXCEPT ![p.id] = <<>>], <<(<<p.id, all>>)>>, {})
    BY <1>2 DEF Kitty, k, all
  <2> HIDE DEF p
  <2>8. Answer(NoParts, <<>>, {"limit"}) \in Answers
    BY AnswerTyped DEF Problems
  <2> QED
    BY <2>5, <2>6, <2>7, <2>8, AnswerTyped
<1> QED
  BY <1>1, <1>2

LEMMA ReadTyped ==
    ASSUME NEW q \in PartsOfImages, NEW s \in Seq(Token)
    PROVE  Read(q, s) \in Answers
<1> DEFINE body == SubSeq(s, 3, Len(s))
<1>1. body \in Seq(Token)
  <2>1. Len(s) \in Nat /\ \A i \in 3..Len(s) : s[i] \in Token
    OBVIOUS
  <2> QED
    BY <2>1, SubSeqProperties
<1>2. body \in Seq(Token \cup DOMAIN Payload)
  <2> HIDE DEF body
  <2> QED
    BY <1>1
<1> HIDE DEF body
<1>3. <<"sixel", body>> \in Frames
  BY <1>2 DEF Frames
<1>4. Sixel(q, body) \in Answers
  BY <1>3, AnswerTyped DEF Sixel, Problems
<1>5. Answer(q, <<>>, {}) \in Answers /\ Kitty(q, body) \in Answers
  BY AnswerTyped, KittyTyped
<1> QED
  BY <1>4, <1>5 DEF Read, body

\* How far a text was read: up to which place it was taken, and what came of it.
Courses == [at : Nat, parts : PartsOfImages, seen : Nat, out : Seq(Frames), issues : SUBSET Problems]
SentUpTo(seen, read) == IF seen < MaxFrames THEN read.frame ELSE <<>>
Taken(e, read, at) ==
    [at |-> at, parts |-> read.parts, seen |-> e.seen + Len(SentUpTo(e.seen, read)),
     out |-> e.out \o SentUpTo(e.seen, read), issues |-> e.issues \cup read.issue]
Begun == [at |-> 0, parts |-> NoParts, seen |-> 0, out |-> <<>>, issues |-> {}]

\* The next sequence of S behind q, from behind its Escape up to its end.
Sequence(S, q) == SubSeq(S, From(S, q) + 1, EndOf(S, q) - 1)
TakenNext(S, e) == Taken(e, Read(e.parts, Sequence(S, e.at)), EndOf(S, e.at) + 1)
Onward(S, e, k) == IF Ends(S, e.at, k) THEN TakenNext(S, e) ELSE e

\* E is how far S was read by each of its places.
Runs(S, E) ==
    /\ E \in [0..Len(S) -> Courses] /\ E[0] = Begun
    /\ \A k \in 1..Len(S) : E[k] = Onward(S, E[k - 1], k)

LEMMA GivenTyped ==
    ASSUME NEW seen \in Nat, NEW read \in Answers
    PROVE  SentUpTo(seen, read) \in Seq(Frames) /\ Len(SentUpTo(seen, read)) \in Nat
<1>1. read.frame \in Seq(Frames) /\ <<>> \in Seq(Frames)
  BY EmptySeq DEF Answers
<1>2. SentUpTo(seen, read) \in Seq(Frames)
  BY <1>1 DEF SentUpTo
<1> QED
  BY <1>2

LEMMA TakenIs ==
    ASSUME NEW e \in Courses, NEW read \in Answers, NEW at \in Nat
    PROVE  Taken(e, read, at) \in Courses
<1>1. /\ e.seen \in Nat /\ e.out \in Seq(Frames) /\ e.issues \in SUBSET Problems
      /\ read.parts \in PartsOfImages /\ read.issue \in SUBSET Problems
  BY DEF Courses, Answers
<1>2. SentUpTo(e.seen, read) \in Seq(Frames) /\ Len(SentUpTo(e.seen, read)) \in Nat
  BY <1>1, GivenTyped
<1>3. e.out \o SentUpTo(e.seen, read) \in Seq(Frames) /\ e.issues \cup read.issue \in SUBSET Problems
      /\ e.seen + Len(SentUpTo(e.seen, read)) \in Nat
  BY <1>1, <1>2, ConcatProperties
<1> QED
  BY <1>1, <1>3 DEF Taken, Courses

\* What is read of a text is a text.
LEMMA SequenceIs ==
    ASSUME NEW S \in Seq(Token), NEW q \in 0..Len(S), NEW r, Ends(S, q, r)
    PROVE  /\ Sequence(S, q) \in Seq(Token) /\ EndOf(S, q) + 1 \in Nat
           /\ EndOf(S, q) + 1 \in 1..Len(S) /\ EndOf(S, q) > q /\ From(S, q) >= 1 /\ From(S, q) + 3 <= EndOf(S, q)
           /\ From(S, q) \in Nat /\ EndOf(S, q) \in Nat /\ From(S, q) > q
<1>1. Ahead(S, q) # {} /\ Closings(S, From(S, q)) # {}
  BY DEF Ends
<1>2. /\ From(S, q) > q /\ From(S, q) \in 1..(Len(S) - 1)
      /\ EndOf(S, q) \in (From(S, q) + 3)..(Len(S) - 1)
  BY <1>1, NextIs
<1>3. /\ From(S, q) + 1 \in Nat /\ From(S, q) + 1 >= 1 /\ EndOf(S, q) - 1 \in Nat /\ EndOf(S, q) - 1 <= Len(S)
      /\ From(S, q) + 1 \in Int /\ EndOf(S, q) - 1 \in Int
  BY <1>2
<1>4. \A k \in (From(S, q) + 1)..(EndOf(S, q) - 1) : S[k] \in Token
  BY <1>3
<1>5. Sequence(S, q) \in Seq(Token)
  BY <1>3, <1>4, SubSeqProperties DEF Sequence
<1> QED
  BY <1>2, <1>5

LEMMA OnwardTyped ==
    ASSUME NEW S \in Seq(Token), NEW e \in Courses, e.at <= Len(S), NEW k
    PROVE  /\ Onward(S, e, k) \in Courses /\ Onward(S, e, k).at <= Len(S)
           /\ Ends(S, e.at, k) => Onward(S, e, k).at = EndOf(S, e.at) + 1
<1>1. e.at \in 0..Len(S) /\ e.parts \in PartsOfImages
  BY DEF Courses
<1>2. CASE Ends(S, e.at, k)
  <2>1. Sequence(S, e.at) \in Seq(Token) /\ EndOf(S, e.at) + 1 \in Nat /\ EndOf(S, e.at) + 1 \in 1..Len(S)
    BY <1>1, <1>2, SequenceIs
  <2>2. Read(e.parts, Sequence(S, e.at)) \in Answers
    BY <1>1, <2>1, ReadTyped
  <2>3. TakenNext(S, e) \in Courses
    BY <2>1, <2>2, TakenIs DEF TakenNext
  <2>4. TakenNext(S, e).at = EndOf(S, e.at) + 1
    BY DEF TakenNext, Taken
  <2> QED
    BY <1>2, <2>1, <2>3, <2>4 DEF Onward
<1>3. CASE ~Ends(S, e.at, k)
  BY <1>3 DEF Onward
<1> QED
  BY <1>2, <1>3

\* Every text can be read.
LEMMA RunExists ==
    ASSUME NEW S \in Seq(Token)
    PROVE  \E E : Runs(S, E)
<1> DEFINE N == Len(S)
           X == {e \in Courses : e.at <= N}
           next == [z \in (1..N) \X X |-> Onward(S, z[2], z[1])]
<1>1. N \in Nat
  OBVIOUS
<1>2. \A e \in Courses : e.at \in Nat
  BY DEF Courses
<1>3. Begun \in X
  <2>1. NoParts \in PartsOfImages /\ <<>> \in Seq(Frames)
    <3>1. <<>> \in Seq(DOMAIN Payload) /\ <<>> \in Seq(Frames)
      BY EmptySeq
    <3> QED
      BY <3>1 DEF NoParts, PartsOfImages, Ids
  <2>2. Begun \in Courses /\ Begun.at = 0
    BY <2>1 DEF Begun, Courses
  <2> QED
    BY <1>1, <2>2
<1>4. \A k \in 1..N, e \in X : next[<<k, e>>] = Onward(S, e, k) /\ next[<<k, e>>] \in X
  <2> SUFFICES ASSUME NEW k \in 1..N, NEW e \in X
               PROVE  next[<<k, e>>] = Onward(S, e, k) /\ next[<<k, e>>] \in X
    OBVIOUS
  <2>1. Onward(S, e, k) \in X
    BY <1>1, OnwardTyped
  <2>2. next[<<k, e>>] = Onward(S, e, k)
    <3> HIDE DEF X
    <3> QED
      OBVIOUS
  <2> QED
    BY <2>1, <2>2
<1>5. PICK E : Computes(N, X, Begun, next, E)
  <2> HIDE DEF N, X, next
  <2>1. Leads(N, X, next)
    BY <1>4 DEF Leads
  <2> QED
    BY <1>1, <1>3, <2>1, ComputedUpTo
<1>6. E \in [0..N -> X] /\ E[0] = Begun /\ \A k \in 1..N : E[k] = next[<<k, E[k - 1]>>]
  <2> HIDE DEF N, X, next
  <2> QED
    BY <1>5 DEF Computes
<1>7. \A k \in 1..N : E[k] = Onward(S, E[k - 1], k)
  <2> SUFFICES ASSUME NEW k \in 1..N PROVE E[k] = Onward(S, E[k - 1], k)
    OBVIOUS
  <2>1. k - 1 \in 0..N
    BY <1>1
  <2> HIDE DEF N, X, next
  <2>2. E[k - 1] \in X
    BY <1>6, <2>1
  <2> QED
    BY <1>4, <1>6, <2>2
<1>8. E \in [0..N -> Courses]
  BY <1>6
<1> QED
  BY <1>6, <1>7, <1>8 DEF Runs

\* Of what has been read nothing complete is left.
LEMMA RunSettles ==
    ASSUME NEW S \in Seq(Token), NEW E, Runs(S, E)
    PROVE  \A k \in 0..Len(S) : E[k] \in Courses /\ E[k].at \in 0..k /\ ~Ends(S, E[k].at, k)
<1> DEFINE N == Len(S)
           Z == {k \in 0..N : E[k].at \in 0..k /\ ~Ends(S, E[k].at, k)}
<1>1. N \in Nat
  OBVIOUS
<1>2. E \in [0..N -> Courses] /\ E[0] = Begun /\ \A k \in 1..N : E[k] = Onward(S, E[k - 1], k)
  BY DEF Runs
<1>3. \A q \in 0..N, r \in 0..N : Ends(S, q, r) => q + 4 < r
  <2> SUFFICES ASSUME NEW q \in 0..N, NEW r \in 0..N, Ends(S, q, r) PROVE q + 4 < r
    OBVIOUS
  <2>1. From(S, q) > q /\ EndOf(S, q) \in (From(S, q) + 3)..(Len(S) - 1) /\ From(S, q) \in 1..(Len(S) - 1)
    BY NextIs DEF Ends
  <2>2. EndOf(S, q) + 1 <= r
    BY DEF Ends
  <2> QED
    BY <1>1, <2>1, <2>2
<1>4. 0 \in Z
  <2>1. E[0].at = 0
    BY <1>2 DEF Begun
  <2>2. ~Ends(S, 0, 0)
    BY <1>1, <1>3
  <2> QED
    BY <1>1, <2>1, <2>2
<1>5. ASSUME NEW k \in 1..N, k - 1 \in Z
      PROVE  k \in Z
  <2>1. k - 1 \in 0..N /\ E[k - 1] \in Courses /\ E[k - 1].at \in 0..(k - 1) /\ ~Ends(S, E[k - 1].at, k - 1)
    BY <1>2, <1>5
  <2>2. E[k] = Onward(S, E[k - 1], k)
    BY <1>2
  <2> DEFINE e == E[k - 1]
  <2>3. e.at \in 0..N /\ e.at <= N
    BY <1>1, <2>1
  <2>4. CASE Ends(S, e.at, k)
    <3>1. E[k].at = EndOf(S, e.at) + 1
      BY <2>1, <2>2, <2>3, <2>4, OnwardTyped
    <3>2. EndOf(S, e.at) + 1 <= k /\ ~(EndOf(S, e.at) + 1 <= k - 1)
      BY <2>1, <2>4 DEF Ends
    <3>3. EndOf(S, e.at) + 1 \in Nat
      BY <2>3, <2>4, SequenceIs
    <3>4. E[k].at = k
      BY <1>1, <3>1, <3>2, <3>3
    <3>5. ~Ends(S, k, k)
      BY <1>1, <1>3
    <3> QED
      BY <1>1, <3>4, <3>5
  <2>5. CASE ~Ends(S, e.at, k)
    <3>1. E[k] = e
      BY <2>2, <2>5 DEF Onward
    <3> QED
      BY <1>1, <2>1, <2>5, <3>1
  <2> QED
    BY <2>4, <2>5
<1>6. 0..N \subseteq Z
  <2> HIDE DEF Z, N
  <2> QED
    BY <1>1, <1>4, <1>5, UpTo
<1> QED
  BY <1>2, <1>6

\* As long as the next sequence has not ended, nothing comes of what is read.
LEMMA RunStays ==
    ASSUME NEW S \in Seq(Token), NEW E, Runs(S, E), NEW m \in 0..Len(S), NEW k \in m..Len(S),
           ~Ends(S, E[m].at, k)
    PROVE  E[k] = E[m]
<1> DEFINE N == k - m
           Z == {i \in 0..N : E[m + i] = E[m]}
<1>1. N \in Nat /\ Len(S) \in Nat /\ m \in Nat /\ k \in Nat /\ k <= Len(S)
  OBVIOUS
<1>2. 0 \in Z
  BY <1>1
<1>3. ASSUME NEW i \in 1..N, i - 1 \in Z
      PROVE  i \in Z
  <2>1. E[m + (i - 1)] = E[m]
    BY <1>3
  <2>2. m + i \in 1..Len(S) /\ (m + i) - 1 = m + (i - 1) /\ m + i <= k /\ m + i \in Int
    BY <1>1
  <2>3. E[m + i] = Onward(S, E[m + (i - 1)], m + i)
    BY <2>2 DEF Runs
  <2>4. ~Ends(S, E[m].at, m + i)
    <3> SUFFICES ASSUME Ends(S, E[m].at, m + i) PROVE FALSE
      OBVIOUS
    <3>1. E[m].at \in 0..Len(S)
      BY <1>1, RunSettles
    <3>2. EndOf(S, E[m].at) + 1 \in Nat
      BY <3>1, SequenceIs
    <3>3. EndOf(S, E[m].at) + 1 <= m + i
      BY DEF Ends
    <3>4. EndOf(S, E[m].at) + 1 <= k
      BY <1>1, <2>2, <3>2, <3>3
    <3> QED
      BY <3>4 DEF Ends
  <2>5. E[m + i] = E[m]
    BY <2>1, <2>3, <2>4 DEF Onward
  <2> QED
    BY <2>5
<1>4. 0..N \subseteq Z
  <2> HIDE DEF Z, N
  <2> QED
    BY <1>1, <1>2, <1>3, UpTo
<1>5. N \in Z
  BY <1>1, <1>4
<1>6. m + N = k
  BY <1>1
<1> QED
  BY <1>5, <1>6

\* When it has, it is taken.
LEMMA RunTakes ==
    ASSUME NEW S \in Seq(Token), NEW E, Runs(S, E), NEW m \in 0..Len(S), NEW r \in 0..Len(S),
           Ends(S, E[m].at, r)
    PROVE  /\ EndOf(S, E[m].at) + 1 \in 1..r
           /\ E[EndOf(S, E[m].at) + 1] = TakenNext(S, E[m])
<1> DEFINE e == E[m]
           k == EndOf(S, e.at) + 1
<1>1. Len(S) \in Nat /\ m \in Nat /\ r \in Nat /\ r <= Len(S)
  OBVIOUS
<1>2. e \in Courses /\ e.at \in 0..m /\ e.at \in 0..Len(S) /\ ~Ends(S, e.at, m)
  BY <1>1, RunSettles
<1>3. k \in 1..Len(S) /\ k <= r
  BY <1>2, SequenceIs DEF Ends
<1>4. Ends(S, e.at, k)
  BY <1>3 DEF Ends
<1>5. k - 1 \in m..Len(S)
  <2>1. ~(k <= m)
    BY <1>2, <1>4 DEF Ends
  <2> HIDE DEF k
  <2> QED
    BY <1>1, <1>3, <2>1
<1>6. ~Ends(S, e.at, k - 1)
  <2>1. ~(k <= k - 1)
    BY <1>3
  <2> QED
    BY <2>1 DEF Ends
<1>7. E[k - 1] = e
  <2> HIDE DEF k, e
  <2> QED
    BY <1>5, <1>6, RunStays DEF e
<1>8. E[k] = Onward(S, E[k - 1], k)
  <2> HIDE DEF k, e
  <2> QED
    BY <1>3 DEF Runs
<1> QED
  BY <1>1, <1>3, <1>4, <1>7, <1>8 DEF Onward

\* A compositor that has read as far as e says, with frames and problems from before.
Like(c, o, x, e) ==
    /\ c.parts = e.parts /\ c.seen = e.seen
    /\ e.out = o \o c.out /\ e.issues = x \cup c.issues

\* During a feed: what is pending is what of the first r characters has not been read.
Turn(S, E, r, o, x, c, q, m) ==
    /\ c.pending = Window(S, q, r) /\ Like(c, o, x, E[m])
    /\ E[m].at <= q /\ Ahead(S, q) = Ahead(S, E[m].at)
TurnedTo(S, E, r, o, x, c) == \E q \in 0..r, m \in 0..r : Turn(S, E, r, o, x, c, q, m)

\* What ends does so by what is ahead.
LEMMA EndsByAhead ==
    ASSUME NEW S, NEW p, NEW q, Ahead(S, p) = Ahead(S, q)
    PROVE  /\ From(S, p) = From(S, q) /\ EndOf(S, p) = EndOf(S, q) /\ Sequence(S, p) = Sequence(S, q)
           /\ \A r : Ends(S, p, r) <=> Ends(S, q, r)
BY DEF From, EndOf, Sequence, Ends

\* A sequence that is taken in a turn is the next one of the text.
LEMMA TurnTakes ==
    ASSUME NEW S \in Seq(Token), NEW E, Runs(S, E), NEW r \in 0..Len(S),
           NEW o \in Seq(Frames), NEW x \in SUBSET Problems, NEW c \in Composers,
           NEW q \in 0..r, NEW m \in 0..r, Turn(S, E, r, o, x, c, q, m), Complete(c.pending)
    PROVE  /\ Compose(c) \in Composers /\ TurnedTo(S, E, r, o, x, Compose(c))
           /\ Len(Compose(c).pending) < Len(c.pending)
<1> DEFINE v == c.pending
           e == E[m]
           k == EndOf(S, q) + 1
           s == Sequence(S, q)
           read == Read(c.parts, s)
           given == SentUpTo(c.seen, read)
           rest == Window(S, k, r)
<1>1. /\ Len(S) \in Nat /\ r \in Nat /\ q \in Nat /\ r <= Len(S) /\ q <= r /\ q \in 0..Len(S)
      /\ m \in 0..Len(S) /\ r \in q..Len(S)
  OBVIOUS
<1>2. v = Window(S, q, r) /\ v \in Seq(Token) /\ Len(v) = r - q /\ \A i \in 1..(r - q) : v[i] = S[q + i]
  BY <1>1, WindowIs DEF Turn
<1>3. /\ Ends(S, q, r) /\ Min(Openings(v)) = From(S, q) - q
      /\ Min(Closings(v, Min(Openings(v)))) = EndOf(S, q) - q
  BY <1>1, <1>2, CompleteIs
<1>4. /\ s \in Seq(Token) /\ k \in 1..Len(S) /\ EndOf(S, q) > q /\ From(S, q) >= 1 /\ From(S, q) + 3 <= EndOf(S, q)
      /\ From(S, q) > q /\ From(S, q) \in Nat /\ EndOf(S, q) \in Nat /\ k <= r
  <2>1. k <= r
    BY <1>3 DEF Ends
  <2>2. Ends(S, q, r)
    BY <1>3
  <2> HIDE DEF s, k, v, e, read, given, rest
  <2>3. /\ Sequence(S, q) \in Seq(Token) /\ EndOf(S, q) + 1 \in 1..Len(S)
        /\ EndOf(S, q) > q /\ From(S, q) >= 1 /\ From(S, q) + 3 <= EndOf(S, q)
        /\ From(S, q) \in Nat /\ EndOf(S, q) \in Nat /\ From(S, q) > q
    BY <1>1, <2>2, SequenceIs
  <2> QED
    BY <2>1, <2>3 DEF s, k
<1>5. SubSeq(v, Min(Openings(v)) + 1, Min(Closings(v, Min(Openings(v)))) - 1) = s
  <2> DEFINE a == From(S, q) - q + 1
             b == EndOf(S, q) - q - 1
             f == From(S, q)
             g == EndOf(S, q)
  <2>0. /\ f \in Nat /\ g \in Nat /\ f > q /\ f + 3 <= g /\ g + 1 <= r /\ q \in Nat /\ r \in Nat
        /\ a = f - q + 1 /\ b = g - q - 1
    <3>1. EndOf(S, q) + 1 <= r
      BY <1>4
    <3>2. EndOf(S, q) > q /\ From(S, q) + 3 <= EndOf(S, q) /\ From(S, q) > q
      BY <1>4
    <3>3. From(S, q) \in Nat /\ EndOf(S, q) \in Nat /\ q \in Nat /\ r \in Nat
      BY <1>1, <1>4
    <3>4. a = f - q + 1 /\ b = g - q - 1
      OBVIOUS
    <3> HIDE DEF a, b
    <3> QED
      BY <3>1, <3>2, <3>3, <3>4 DEF f, g
  <2> HIDE DEF a, b, v, f, g, s
  <2>1. a \in Nat /\ b \in Nat /\ a >= 1 /\ a <= b /\ b <= r - q
    BY <2>0
  <2>2. q + a = From(S, q) + 1 /\ q + b = EndOf(S, q) - 1 /\ q + 1 + a - 1 = q + a /\ q + 1 + b - 1 = q + b
    <3>1. a \in Int /\ b \in Int /\ f \in Int /\ g \in Int /\ q \in Int
      BY <2>0, <2>1
    <3>2. q + a = f + 1 /\ q + b = g - 1
      BY <2>0, <3>1
    <3>3. q + 1 + a - 1 = q + a /\ q + 1 + b - 1 = q + b
      BY <3>1
    <3> QED
      BY <3>2, <3>3 DEF f, g
  <2>3. SubSeq(v, a, b) \in Seq(Token) /\ Len(SubSeq(v, a, b)) = b - a + 1
        /\ \A i \in 1..(b - a + 1) : SubSeq(v, a, b)[i] = v[a + i - 1]
    <3>1. v \in Seq(Token) /\ Len(v) = r - q
      BY <1>2
    <3>2. \A i \in a..b : i \in 1..Len(v)
      BY <2>1, <3>1
    <3>3. \A i \in a..b : v[i] \in Token
      BY <3>1, <3>2
    <3> QED
      BY <2>1, <3>3, SubSeqProperties
  <2>4. s \in Seq(Token) /\ Len(s) = b - a + 1 /\ \A i \in 1..(b - a + 1) : s[i] = S[q + a + i - 1]
    <3>1. \A i \in (q + a)..(q + b) : S[i] \in Token
      BY <1>1, <2>1
    <3>2. /\ Len(SubSeq(S, q + a, q + b)) = (q + b) - (q + a) + 1
          /\ \A i \in 1..((q + b) - (q + a) + 1) : SubSeq(S, q + a, q + b)[i] = S[q + a + i - 1]
      BY <1>1, <2>1, <3>1, SubSeqProperties
    <3>3. (q + b) - (q + a) + 1 = b - a + 1
      BY <1>1, <2>1
    <3> QED
      <4>1. SubSeq(S, From(S, q) + 1, EndOf(S, q) - 1) = SubSeq(S, q + a, q + b)
        BY <2>2
      <4>2. s = SubSeq(S, q + a, q + b)
        BY <4>1 DEF Sequence, s
      <4>3. s \in Seq(Token)
        BY <1>4
      <4> HIDE DEF s
      <4>4. Len(s) = b - a + 1
        BY <3>2, <3>3, <4>2
      <4>5. \A i \in 1..(b - a + 1) : s[i] = S[q + a + i - 1]
        BY <3>2, <3>3, <4>2
      <4> QED
        BY <4>3, <4>4, <4>5
  <2>5. \A i \in 1..(b - a + 1) : SubSeq(v, a, b)[i] = s[i]
    <3> SUFFICES ASSUME NEW i \in 1..(b - a + 1) PROVE SubSeq(v, a, b)[i] = s[i]
      OBVIOUS
    <3>1. a + i - 1 \in 1..(r - q) /\ q + (a + i - 1) = q + a + i - 1
      BY <1>1, <2>1
    <3> QED
      BY <1>2, <2>3, <2>4, <3>1
  <2>6. SubSeq(v, a, b) = s
    BY <2>3, <2>4, <2>5, SeqEqual
  <2> QED
    BY <1>3, <2>6 DEF a, b
<1>6. SubSeq(v, Min(Closings(v, Min(Openings(v)))) + 2, Len(v)) = rest /\ rest \in Seq(Token)
      /\ Len(rest) = r - k
  <2> DEFINE a == EndOf(S, q) - q + 2
  <2>1. a \in Nat /\ a >= 1 /\ q + a = k + 1
    BY <1>1, <1>4
  <2>2. k \in 0..Len(S) /\ r \in k..Len(S)
    BY <1>1, <1>4
  <2>3. rest \in Seq(Token) /\ Len(rest) = r - k /\ \A i \in 1..(r - k) : rest[i] = S[k + i]
    BY <2>2, WindowIs
  <2> HIDE DEF a, v, rest, k
  <2>4. /\ SubSeq(v, a, Len(v)) \in Seq(Token) /\ Len(SubSeq(v, a, Len(v))) = r - k
        /\ \A i \in 1..(r - k) : SubSeq(v, a, Len(v))[i] = v[a + i - 1]
    <3>1. \A i \in a..Len(v) : v[i] \in Token
      BY <1>2, <2>1
    <3>2. Len(v) \in Nat /\ Len(v) = r - q
      BY <1>2
    <3>3. /\ SubSeq(v, a, Len(v)) \in Seq(Token)
          /\ Len(SubSeq(v, a, Len(v))) = IF a <= Len(v) THEN Len(v) - a + 1 ELSE 0
          /\ \A i \in 1..(Len(v) - a + 1) : SubSeq(v, a, Len(v))[i] = v[a + i - 1]
      BY <2>1, <3>1, <3>2, SubSeqProperties
    <3>4. Len(v) - a + 1 = r - k
      BY <1>1, <2>1, <2>2, <3>2
    <3>5. a <= Len(v) \/ r - k = 0
      BY <1>1, <2>1, <2>2, <3>2, <3>4
    <3> QED
      BY <2>1, <2>2, <3>2, <3>3, <3>4, <3>5
  <2>5. \A i \in 1..(r - k) : SubSeq(v, a, Len(v))[i] = rest[i]
    <3> SUFFICES ASSUME NEW i \in 1..(r - k) PROVE SubSeq(v, a, Len(v))[i] = rest[i]
      OBVIOUS
    <3>1. a + i - 1 \in 1..(r - q) /\ q + (a + i - 1) = k + i
      BY <1>1, <2>1, <2>2
    <3> QED
      BY <1>2, <2>3, <2>4, <3>1
  <2>6. SubSeq(v, a, Len(v)) = rest
    BY <2>3, <2>4, <2>5, SeqEqual
  <2> QED
    BY <1>3, <2>3, <2>6 DEF a
<1>7. Compose(c) = [pending |-> rest, parts |-> read.parts, seen |-> c.seen + Len(given),
                    out |-> c.out \o given, issues |-> c.issues \cup read.issue]
  BY <1>5, <1>6 DEF Compose, TakeSequence, SentUpTo
<1> HIDE DEF s, rest, read, given, v, k, e
<1>8. c.parts \in PartsOfImages /\ c.seen \in Nat /\ c.out \in Seq(Frames) /\ c.issues \in SUBSET Problems
  BY DEF Composers
<1>9. read \in Answers /\ given \in Seq(Frames) /\ Len(given) \in Nat
  BY <1>4, <1>8, ReadTyped, GivenTyped DEF read, given
<1>10. Compose(c) \in Composers
  <2>1. read.parts \in PartsOfImages /\ read.issue \in SUBSET Problems
    BY <1>9 DEF Answers
  <2>2. c.out \o given \in Seq(Frames) /\ c.seen + Len(given) \in Nat /\ c.issues \cup read.issue \in SUBSET Problems
    BY <1>8, <1>9, <2>1, ConcatProperties
  <2> QED
    BY <1>6, <1>7, <2>1, <2>2 DEF Composers
<1>11. Ends(S, e.at, r) /\ EndOf(S, e.at) + 1 = k /\ Sequence(S, e.at) = s
  <2>1. Ahead(S, q) = Ahead(S, e.at)
    BY DEF Turn, e
  <2> QED
    BY <1>3, <2>1, EndsByAhead DEF k, s
<1>12. k \in 0..r /\ E[k] = TakenNext(S, e)
  BY <1>1, <1>4, <1>11, RunTakes DEF e
<1>13. e.parts = c.parts /\ e.seen = c.seen /\ e.out = o \o c.out /\ e.issues = x \cup c.issues
  BY DEF Turn, Like, e
<1>14. E[k] = [at |-> k, parts |-> read.parts, seen |-> c.seen + Len(given),
               out |-> (o \o c.out) \o given, issues |-> (x \cup c.issues) \cup read.issue]
  BY <1>11, <1>12, <1>13 DEF TakenNext, Taken, read, given
<1>15. (o \o c.out) \o given = o \o (c.out \o given)
  <2>1. Regroups(o, c.out, given)
    BY <1>8, <1>9, Regrouped
  <2> QED
    BY <2>1 DEF Regroups
<1>16. Like(Compose(c), o, x, E[k])
  <2>1. (x \cup c.issues) \cup read.issue = x \cup (c.issues \cup read.issue)
    OBVIOUS
  <2>2. /\ Compose(c).parts = read.parts /\ Compose(c).seen = c.seen + Len(given)
        /\ Compose(c).out = c.out \o given /\ Compose(c).issues = c.issues \cup read.issue
    BY <1>7
  <2>3. /\ E[k].parts = read.parts /\ E[k].seen = c.seen + Len(given)
        /\ E[k].out = (o \o c.out) \o given /\ E[k].issues = (x \cup c.issues) \cup read.issue
    BY <1>14
  <2> QED
    BY <1>15, <2>1, <2>2, <2>3, Zenon DEF Like
<1>17. E[k].at = k /\ Compose(c).pending = Window(S, k, r)
  BY <1>7, <1>14 DEF rest
<1>18. Turn(S, E, r, o, x, Compose(c), k, k)
  BY <1>4, <1>16, <1>17 DEF Turn
<1>19. Len(Compose(c).pending) < Len(c.pending)
  <2>1. Compose(c).pending = rest
    BY <1>7
  <2>2. k \in Nat /\ k > q
    BY <1>4 DEF k
  <2> QED
    BY <1>1, <1>2, <1>6, <2>1, <2>2 DEF v
<1> QED
  BY <1>10, <1>12, <1>18, <1>19 DEF TurnedTo

\* A turn without one only drops what cannot become one.
LEMMA TurnTrims ==
    ASSUME NEW S \in Seq(Token), NEW E, Runs(S, E), NEW r \in 0..Len(S),
           NEW o \in Seq(Frames), NEW x \in SUBSET Problems, NEW c \in Composers,
           NEW q \in 0..r, NEW m \in 0..r, Turn(S, E, r, o, x, c, q, m), ~Complete(c.pending)
    PROVE  /\ Compose(c) \in Composers /\ TurnedTo(S, E, r, o, x, Compose(c))
           /\ ~Complete(Compose(c).pending)
<1> DEFINE v == c.pending
           k == KeptFrom(v)
           p == q + k - 1
           rest == Window(S, p, r)
<1>1. /\ Len(S) \in Nat /\ r \in Nat /\ q \in Nat /\ r <= Len(S) /\ q <= r /\ q \in 0..Len(S)
      /\ m \in 0..Len(S) /\ r \in q..Len(S)
  OBVIOUS
<1>2. v = Window(S, q, r) /\ v \in Seq(Token) /\ Len(v) = r - q /\ \A i \in 1..(r - q) : v[i] = S[q + i]
  BY <1>1, WindowIs DEF Turn
<1>3. k \in 1..(r - q + 1) /\ Ahead(S, p) = Ahead(S, q)
  BY <1>1, <1>2, TrimKeepsAhead
<1>4. p \in q..r /\ p \in 0..r /\ p \in 0..Len(S) /\ r \in p..Len(S)
  <2> HIDE DEF k
  <2> QED
    BY <1>1, <1>3
<1> HIDE DEF v, k
<1>5. rest \in Seq(Token) /\ Len(rest) = r - p /\ \A i \in 1..(r - p) : rest[i] = S[p + i]
  BY <1>4, WindowIs
<1> HIDE DEF rest
<1>6. SubSeq(v, k, Len(v)) = rest
  <2>1. \A i \in k..Len(v) : v[i] \in Token
    BY <1>2, <1>3
  <2>2. Len(v) \in Nat /\ Len(v) = r - q /\ k \in Nat /\ k >= 1
    BY <1>1, <1>2, <1>3
  <2>3. /\ SubSeq(v, k, Len(v)) \in Seq(Token)
        /\ Len(SubSeq(v, k, Len(v))) = IF k <= Len(v) THEN Len(v) - k + 1 ELSE 0
        /\ \A i \in 1..(Len(v) - k + 1) : SubSeq(v, k, Len(v))[i] = v[k + i - 1]
    BY <2>1, <2>2, SubSeqProperties
  <2>4. Len(v) - k + 1 = r - p
    BY <1>1, <2>2
  <2>5. Len(SubSeq(v, k, Len(v))) = r - p
    BY <1>1, <1>4, <2>2, <2>3, <2>4
  <2>6. \A i \in 1..(r - p) : SubSeq(v, k, Len(v))[i] = rest[i]
    <3> SUFFICES ASSUME NEW i \in 1..(r - p) PROVE SubSeq(v, k, Len(v))[i] = rest[i]
      OBVIOUS
    <3>1. k + i - 1 \in 1..(r - q) /\ q + (k + i - 1) = p + i
      BY <1>1, <1>4, <2>2
    <3> QED
      BY <1>2, <1>5, <2>3, <2>4, <3>1
  <2> QED
    BY <1>5, <2>3, <2>5, <2>6, SeqEqual
<1>7. Compose(c) = [c EXCEPT !.pending = rest]
  BY <1>6 DEF Compose, v, k
<1>8. /\ Compose(c) \in Composers /\ Compose(c).pending = rest
      /\ Compose(c).parts = c.parts /\ Compose(c).seen = c.seen /\ Compose(c).out = c.out
      /\ Compose(c).issues = c.issues
  BY <1>5, <1>7 DEF Composers
<1>9. Like(Compose(c), o, x, E[m])
  BY <1>8 DEF Turn, Like
<1>10. E[m].at <= p /\ Ahead(S, p) = Ahead(S, E[m].at)
  <2>1. E[m].at <= q /\ E[m].at \in Nat /\ Ahead(S, q) = Ahead(S, E[m].at)
    BY <1>1, RunSettles DEF Turn
  <2> HIDE DEF p
  <2> QED
    BY <1>1, <1>3, <1>4, <2>1
<1>11. Turn(S, E, r, o, x, Compose(c), p, m)
  BY <1>8, <1>9, <1>10 DEF Turn, rest
<1>12. ~Complete(rest)
  <2>1. ~Ends(S, q, r)
    BY <1>1, <1>2, CompleteIs DEF v
  <2>2. ~Ends(S, p, r)
    BY <1>3, <2>1, EndsByAhead
  <2> HIDE DEF p
  <2> QED
    BY <1>4, <2>2, CompleteIs DEF rest
<1> QED
  BY <1>4, <1>8, <1>11, <1>12 DEF TurnedTo

\* With nothing complete pending, the first r characters have been read.
LEMMA TurnSettles ==
    ASSUME NEW S \in Seq(Token), NEW E, Runs(S, E), NEW r \in 0..Len(S),
           NEW o, NEW x, NEW c, TurnedTo(S, E, r, o, x, c), ~Complete(c.pending)
    PROVE  \E q \in 0..r : Turn(S, E, r, o, x, c, q, r)
<1>1. PICK q \in 0..r, m \in 0..r : Turn(S, E, r, o, x, c, q, m)
  BY DEF TurnedTo
<1>2. q \in 0..Len(S) /\ r \in q..Len(S) /\ m \in 0..Len(S) /\ r \in m..Len(S)
  OBVIOUS
<1>3. c.pending = Window(S, q, r) /\ Ahead(S, q) = Ahead(S, E[m].at)
  BY <1>1 DEF Turn
<1>4. ~Ends(S, E[m].at, r)
  BY <1>2, <1>3, CompleteIs, EndsByAhead
<1>5. E[r] = E[m]
  BY <1>2, <1>4, RunStays
<1>6. Turn(S, E, r, o, x, c, q, r)
  BY <1>1, <1>5 DEF Turn
<1> QED
  BY <1>6

\* T is n turns from c, all of them in X.
TurnsIn(X, c, n, T) ==
    /\ T \in [0..n -> X] /\ T[0] = c /\ T[n] = ComposeTimes(c, n)
    /\ \A i \in 1..n : T[i] = Compose(T[i - 1])

\* ComposeTimes is so many turns, all of them in what turns do not leave.
LEMMA ComposeTimesIs ==
    ASSUME NEW X, NEW c \in X, NEW n \in Nat, \A d \in X : Compose(d) \in X
    PROVE  \E T : TurnsIn(X, c, n, T)
<1> DEFINE turn[i \in 0..n] == IF i = 0 THEN c ELSE Compose(turn[i - 1])
           next == [z \in (1..n) \X X |-> Compose(z[2])]
<1>1. PICK f : Computes(n, X, c, next, f)
  <2>1. \A i \in 1..n, d \in X : next[<<i, d>>] = Compose(d)
    OBVIOUS
  <2> HIDE DEF next
  <2>2. Leads(n, X, next)
    BY <2>1 DEF Leads
  <2> QED
    BY <2>2, ComputedUpTo
<1>2. f \in [0..n -> X] /\ f[0] = c /\ \A i \in 1..n : f[i] = Compose(f[i - 1])
  <2>1. f \in [0..n -> X] /\ f[0] = c /\ \A i \in 1..n : f[i] = next[<<i, f[i - 1]>>]
    BY <1>1 DEF Computes
  <2>2. \A i \in 1..n : f[i - 1] \in X
    BY <2>1
  <2> QED
    BY <2>1, <2>2
<1>3. f = [i \in 0..n |-> IF i = 0 THEN c ELSE Compose(f[i - 1])]
  <2>1. \A i \in 0..n : f[i] = IF i = 0 THEN c ELSE Compose(f[i - 1])
    BY <1>2
  <2>2. f = [i \in 0..n |-> f[i]]
    BY <1>2
  <2> QED
    BY <2>1, <2>2
<1>4. turn = [i \in 0..n |-> IF i = 0 THEN c ELSE Compose(turn[i - 1])]
  BY <1>3
<1>5. ComposeTimes(c, n) = turn[n]
  BY DEF ComposeTimes
<1> HIDE DEF turn, next
<1>6. turn[0] = c /\ \A i \in 1..n : turn[i] = Compose(turn[i - 1])
  BY <1>4
<1> DEFINE Z == {i \in 0..n : turn[i] \in X}
<1>7. 0 \in Z
  BY <1>6
<1>8. ASSUME NEW i \in 1..n, i - 1 \in Z
      PROVE  i \in Z
  BY <1>6, <1>8
<1>9. 0..n \subseteq Z
  <2> HIDE DEF Z
  <2> QED
    BY <1>7, <1>8, UpTo
<1>10. turn \in [0..n -> X]
  BY <1>4, <1>9
<1> QED
  BY <1>5, <1>6, <1>10 DEF TurnsIn

\* A compositor that has read r characters has, when it is fed some more, read those too.
LEMMA FeedReads ==
    ASSUME NEW S \in Seq(Token), NEW E, Runs(S, E), NEW r \in 0..Len(S), NEW t \in r..Len(S),
           NEW o \in Seq(Frames), NEW x \in SUBSET Problems, NEW c \in Composers, c.out = <<>>,
           NEW q \in 0..r, Turn(S, E, r, o, x, c, q, r),
           NEW data, data = Window(S, r, t)
    PROVE  /\ Feed(c, data) \in Composers
           /\ \E p \in 0..t : Turn(S, E, t, o, x, Feed(c, data), p, t)
<1> DEFINE v == c.pending \o data
           n == Len(v)
           begin == [c EXCEPT !.pending = v, !.out = <<>>]
           X == {d \in Composers : TurnedTo(S, E, t, o, x, d)}
<1>1. /\ Len(S) \in Nat /\ r \in Nat /\ t \in Nat /\ q \in Nat /\ q <= r /\ r <= t /\ t <= Len(S)
      /\ q \in 0..Len(S) /\ r \in q..Len(S) /\ t \in q..Len(S) /\ t \in r..Len(S) /\ q \in 0..t /\ r \in 0..t
      /\ t \in 0..Len(S)
  OBVIOUS
<1>2. /\ c.pending \in Seq(Token) /\ Len(c.pending) = r - q
      /\ \A i \in 1..(r - q) : c.pending[i] = S[q + i]
  BY <1>1, WindowIs DEF Turn
<1>3. data \in Seq(Token) /\ Len(data) = t - r /\ \A i \in 1..(t - r) : data[i] = S[r + i]
  BY <1>1, WindowIs
<1>4. v \in Seq(Token) /\ n \in Nat /\ n = t - q
      /\ \A i \in 1..(t - q) : v[i] = IF i <= r - q THEN c.pending[i] ELSE data[i - (r - q)]
  <2>0. \A y, z \in Seq(Token) :
            /\ y \o z \in Seq(Token) /\ Len(y \o z) = Len(y) + Len(z)
            /\ \A i \in 1..Len(y \o z) : (y \o z)[i] = IF i <= Len(y) THEN y[i] ELSE z[i - Len(y)]
    BY ConcatProperties
  <2>1. /\ v \in Seq(Token) /\ Len(v) = Len(c.pending) + Len(data)
        /\ \A i \in 1..Len(v) :
               v[i] = IF i <= Len(c.pending) THEN c.pending[i] ELSE data[i - Len(c.pending)]
    BY <1>2, <1>3, <2>0
  <2> HIDE DEF v
  <2>2. Len(v) = t - q
    BY <1>1, <1>2, <1>3, <2>1
  <2> QED
    BY <1>1, <1>2, <2>1, <2>2
<1>5. v = Window(S, q, t)
  <2>1. /\ Window(S, q, t) \in Seq(Token) /\ Len(Window(S, q, t)) = t - q
        /\ \A i \in 1..(t - q) : Window(S, q, t)[i] = S[q + i]
    BY <1>1, WindowIs
  <2> HIDE DEF v
  <2>2. ASSUME NEW i \in 1..(t - q) PROVE v[i] = S[q + i]
    <3>1. CASE i <= r - q
      <4>1. i \in 1..(r - q)
        BY <1>1, <3>1
      <4> QED
        BY <1>2, <1>4, <3>1, <4>1
    <3>2. CASE ~(i <= r - q)
      <4>1. i - (r - q) \in 1..(t - r) /\ r + (i - (r - q)) = q + i
        BY <1>1, <3>2
      <4> QED
        BY <1>3, <1>4, <3>2, <4>1
    <3> QED
      BY <3>1, <3>2
  <2>3. Len(v) = t - q
    BY <1>4
  <2> QED
    BY <1>4, <2>1, <2>2, <2>3, SeqEqual
<1> HIDE DEF v
<1>6. Feed(c, data) = ComposeTimes(begin, n)
  BY DEF Feed, v
<1>7. begin \in Composers /\ begin.pending = v /\ begin.parts = c.parts /\ begin.seen = c.seen
      /\ begin.out = <<>> /\ begin.issues = c.issues
  BY <1>4, EmptySeq DEF Composers
<1> HIDE DEF begin
<1>8. Turn(S, E, t, o, x, begin, q, r)
  BY <1>5, <1>7 DEF Turn, Like
<1>9. begin \in X
  BY <1>1, <1>7, <1>8 DEF TurnedTo
<1>10. \A d \in X : /\ Compose(d) \in X
                    /\ Complete(d.pending) => Len(Compose(d).pending) < Len(d.pending)
                    /\ ~Complete(d.pending) => ~Complete(Compose(d).pending)
  <2> SUFFICES ASSUME NEW d \in Composers, TurnedTo(S, E, t, o, x, d)
               PROVE  /\ Compose(d) \in Composers /\ TurnedTo(S, E, t, o, x, Compose(d))
                      /\ Complete(d.pending) => Len(Compose(d).pending) < Len(d.pending)
                      /\ ~Complete(d.pending) => ~Complete(Compose(d).pending)
    OBVIOUS
  <2>1. PICK p \in 0..t, m \in 0..t : Turn(S, E, t, o, x, d, p, m)
    BY DEF TurnedTo
  <2>2. CASE Complete(d.pending)
    BY <1>1, <2>1, <2>2, TurnTakes
  <2>3. CASE ~Complete(d.pending)
    BY <1>1, <2>1, <2>3, TurnTrims
  <2> QED
    BY <2>2, <2>3
<1>11. PICK T : TurnsIn(X, begin, n, T)
  <2>1. n \in Nat /\ \A d \in X : Compose(d) \in X
    BY <1>4, <1>10
  <2> HIDE DEF X, n
  <2> QED
    BY <1>9, <2>1, ComposeTimesIs
<1>12. \A d \in X : d \in Composers /\ d.pending \in Seq(Token) /\ Len(d.pending) \in Nat
  BY DEF Composers
<1> DEFINE Z == {i \in 0..n : ~Complete(T[i].pending) \/ Len(T[i].pending) + i <= n}
<1>13. 0 \in Z
  BY <1>4, <1>7, <1>11 DEF TurnsIn
<1>14. ASSUME NEW i \in 1..n, i - 1 \in Z
       PROVE  i \in Z
  <2>1. i - 1 \in 0..n /\ i \in 0..n
    BY <1>4
  <2> HIDE DEF X
  <2>2. T[i - 1] \in X /\ T[i] \in X /\ T[i] = Compose(T[i - 1])
    BY <1>11, <2>1 DEF TurnsIn
  <2>3. CASE Complete(T[i - 1].pending)
    <3>1. Len(T[i - 1].pending) + (i - 1) <= n
      BY <1>14, <2>3
    <3>2. Len(T[i].pending) < Len(T[i - 1].pending)
      BY <1>10, <2>2, <2>3
    <3>3. Len(T[i].pending) + i <= n
      <4> DEFINE l == Len(T[i].pending)
                 before == Len(T[i - 1].pending)
      <4>1. l \in Nat /\ before \in Nat
        BY <1>12, <2>2
      <4>2. before + (i - 1) <= n /\ l < before /\ n \in Nat /\ i \in Nat
        BY <1>4, <3>1, <3>2
      <4> HIDE DEF l, before, n
      <4>3. l + i <= n
        BY <4>1, <4>2
      <4> QED
        BY <4>3 DEF l
    <3> QED
      BY <2>1, <3>3
  <2>4. CASE ~Complete(T[i - 1].pending)
    BY <1>10, <2>1, <2>2, <2>4
  <2> QED
    BY <2>3, <2>4
<1>15. n \in Z
  <2>1. 0..n \subseteq Z
    <3> HIDE DEF Z, n, X
    <3> QED
      BY <1>4, <1>13, <1>14, UpTo
  <2> HIDE DEF Z, n, X
  <2> QED
    BY <1>4, <2>1
<1>16. T[n] \in Composers /\ TurnedTo(S, E, t, o, x, T[n]) /\ T[n].pending \in Seq(Token)
  <2>1. T[n] \in X
    <3> HIDE DEF X, n
    <3> QED
      BY <1>4, <1>11 DEF TurnsIn
  <2> QED
    BY <1>12, <2>1
<1>17. ~Complete(T[n].pending)
  <2> SUFFICES ASSUME Complete(T[n].pending) PROVE FALSE
    OBVIOUS
  <2>1. Len(T[n].pending) + n <= n
    BY <1>15
  <2>2. Len(T[n].pending) = 0
    BY <1>4, <1>16, <2>1
  <2> QED
    BY <2>2 DEF Complete, Openings
<1>18. Feed(c, data) = T[n]
  BY <1>6, <1>11 DEF TurnsIn
<1> HIDE DEF n
<1> QED
  BY <1>1, <1>16, <1>17, <1>18, TurnSettles

\* F has, for each number of the first tokens of v, the parts of an image that are among them.
Sends(v, id, F) ==
    /\ F \in [0..Len(v) -> Seq(DOMAIN Payload)] /\ F[0] = <<>>
    /\ \A i \in 1..Len(v) :
           F[i] = IF v[i] \in DOMAIN Payload /\ Payload[v[i]].id = id THEN Append(F[i - 1], v[i])
                  ELSE F[i - 1]

LEMMA SendsExist ==
    ASSUME NEW v \in Seq(Token), NEW id
    PROVE  \E F : Sends(v, id, F)
<1> DEFINE N == Len(v)
           X == Seq(DOMAIN Payload)
           next == [z \in (1..N) \X X |->
                       IF v[z[1]] \in DOMAIN Payload /\ Payload[v[z[1]]].id = id
                       THEN Append(z[2], v[z[1]]) ELSE z[2]]
<1>1. N \in Nat /\ <<>> \in X
  BY EmptySeq
<1>2. \A i \in 1..N, x \in X :
          /\ next[<<i, x>>] = IF v[i] \in DOMAIN Payload /\ Payload[v[i]].id = id THEN Append(x, v[i]) ELSE x
          /\ next[<<i, x>>] \in X
  <2> SUFFICES ASSUME NEW i \in 1..N, NEW x \in X
               PROVE  /\ next[<<i, x>>] = IF v[i] \in DOMAIN Payload /\ Payload[v[i]].id = id
                                          THEN Append(x, v[i]) ELSE x
                      /\ next[<<i, x>>] \in X
    OBVIOUS
  <2>1. v[i] \in DOMAIN Payload => Append(x, v[i]) \in X
    BY AppendProperties
  <2>2. next[<<i, x>>] = IF v[i] \in DOMAIN Payload /\ Payload[v[i]].id = id THEN Append(x, v[i]) ELSE x
    <3> HIDE DEF X
    <3> QED
      OBVIOUS
  <2> QED
    BY <2>1, <2>2
<1>3. PICK F : Computes(N, X, <<>>, next, F)
  <2> HIDE DEF N, X, next
  <2>1. Leads(N, X, next)
    BY <1>2 DEF Leads
  <2> QED
    BY <1>1, <2>1, ComputedUpTo
<1>4. F \in [0..N -> X] /\ F[0] = <<>> /\ \A i \in 1..N : F[i] = next[<<i, F[i - 1]>>]
  BY <1>3 DEF Computes
<1>5. \A i \in 1..N : F[i - 1] \in X
  BY <1>1, <1>4
<1>6. \A i \in 1..N :
          F[i] = IF v[i] \in DOMAIN Payload /\ Payload[v[i]].id = id THEN Append(F[i - 1], v[i]) ELSE F[i - 1]
  <2> HIDE DEF N, X, next
  <2> QED
    BY <1>2, <1>4, <1>5
<1> QED
  BY <1>4, <1>6 DEF Sends

LEMMA SentIs ==
    ASSUME NEW v \in Seq(Token), NEW id, NEW F, Sends(v, id, F), NEW n \in 0..Len(v)
    PROVE  Sent(v, n, id) = F[n]
<1> DEFINE f[i \in 0..n] ==
               IF i = 0 THEN <<>>
               ELSE IF v[i] \in DOMAIN Payload /\ Payload[v[i]].id = id THEN Append(f[i - 1], v[i])
               ELSE f[i - 1]
           g == [i \in 0..n |-> F[i]]
<1>1. n \in Nat /\ n <= Len(v) /\ Len(v) \in Nat
  OBVIOUS
<1>2. g = [i \in 0..n |-> IF i = 0 THEN <<>>
                          ELSE IF v[i] \in DOMAIN Payload /\ Payload[v[i]].id = id THEN Append(g[i - 1], v[i])
                          ELSE g[i - 1]]
  <2>1. ASSUME NEW i \in 0..n
        PROVE  F[i] = IF i = 0 THEN <<>>
                      ELSE IF v[i] \in DOMAIN Payload /\ Payload[v[i]].id = id THEN Append(g[i - 1], v[i])
                      ELSE g[i - 1]
    <3>1. CASE i = 0
      BY <3>1 DEF Sends
    <3>2. CASE i # 0
      <4>1. i \in 1..Len(v) /\ i - 1 \in 0..n
        BY <1>1, <3>2
      <4>2. g[i - 1] = F[i - 1]
        BY <4>1
      <4> HIDE DEF g
      <4> QED
        BY <3>2, <4>1, <4>2 DEF Sends
    <3> QED
      BY <3>1, <3>2
  <2> QED
    BY <2>1
<1> HIDE DEF g
<1>3. f = [i \in 0..n |-> IF i = 0 THEN <<>>
                          ELSE IF v[i] \in DOMAIN Payload /\ Payload[v[i]].id = id THEN Append(f[i - 1], v[i])
                          ELSE f[i - 1]]
  BY <1>2
<1>4. Sent(v, n, id) = f[n]
  BY DEF Sent
<1> HIDE DEF f
<1>5. f[0] = <<>> /\ \A i \in 1..n :
          f[i] = IF v[i] \in DOMAIN Payload /\ Payload[v[i]].id = id THEN Append(f[i - 1], v[i]) ELSE f[i - 1]
  <2>1. f[0] = <<>>
    BY <1>1, <1>3
  <2>2. ASSUME NEW i \in 1..n
        PROVE  f[i] = IF v[i] \in DOMAIN Payload /\ Payload[v[i]].id = id THEN Append(f[i - 1], v[i])
                      ELSE f[i - 1]
    <3>1. i \in 0..n /\ i # 0
      BY <1>1
    <3> QED
      BY <1>3, <3>1
  <2> QED
    BY <2>1, <2>2
<1> DEFINE Z == {i \in 0..n : f[i] = F[i]}
<1>6. 0 \in Z
  <2>1. f[0] = F[0] /\ 0 \in 0..n
    BY <1>1, <1>5 DEF Sends
  <2> QED
    BY <2>1
<1>7. ASSUME NEW i \in 1..n, i - 1 \in Z
      PROVE  i \in Z
  <2>1. f[i - 1] = F[i - 1] /\ i \in 1..Len(v) /\ i \in 0..n
    BY <1>1, <1>7
  <2>2. F[i] = IF v[i] \in DOMAIN Payload /\ Payload[v[i]].id = id THEN Append(F[i - 1], v[i]) ELSE F[i - 1]
    BY <2>1 DEF Sends
  <2> QED
    BY <1>5, <2>1, <2>2
<1>8. n \in Z
  <2>1. 0..n \subseteq Z
    <3> HIDE DEF Z
    <3> QED
      BY <1>1, <1>6, <1>7, UpTo
  <2> HIDE DEF Z
  <2> QED
    BY <1>1, <2>1
<1> QED
  BY <1>4, <1>8

\* Where no part of the image is, none was sent.
LEMMA SendsNone ==
    ASSUME NEW v \in Seq(Token), NEW id, NEW F, Sends(v, id, F),
           NEW a \in 0..Len(v), NEW b \in a..Len(v),
           \A i \in (a + 1)..b : ~(v[i] \in DOMAIN Payload /\ Payload[v[i]].id = id)
    PROVE  F[b] = F[a]
<1> DEFINE N == b - a
           Z == {i \in 0..N : F[a + i] = F[a]}
<1>1. N \in Nat /\ a \in Nat /\ b \in Nat /\ b <= Len(v) /\ Len(v) \in Nat /\ a + N = b
  OBVIOUS
<1>2. 0 \in Z
  BY <1>1
<1>3. ASSUME NEW i \in 1..N, i - 1 \in Z
      PROVE  i \in Z
  <2>1. a + i \in 1..Len(v) /\ a + i \in (a + 1)..b /\ (a + i) - 1 = a + (i - 1)
    BY <1>1
  <2>2. F[a + i] = F[a + (i - 1)]
    BY <2>1 DEF Sends
  <2> QED
    BY <1>3, <2>2
<1>4. N \in Z
  <2>1. 0..N \subseteq Z
    <3> HIDE DEF Z, N
    <3> QED
      BY <1>1, <1>2, <1>3, UpTo
  <2> HIDE DEF Z, N
  <2> QED
    BY <1>1, <2>1
<1> QED
  BY <1>1, <1>4

\* Parts that are all of an image stay so when more is sent.
LEMMA WholeStays ==
    ASSUME NEW v \in Seq(Token), NEW id, NEW F, Sends(v, id, F), NEW parts \in Seq(DOMAIN Payload),
           NEW a \in 0..Len(v), NEW b \in a..Len(v), IsWhole(parts, F[a])
    PROVE  IsWhole(parts, F[b])
<1> DEFINE N == b - a
           Z == {i \in 0..N : IsWhole(parts, F[a + i])}
<1>1. N \in Nat /\ a \in Nat /\ b \in Nat /\ b <= Len(v) /\ Len(v) \in Nat /\ a + N = b
  OBVIOUS
<1>2. 0 \in Z
  BY <1>1
<1>3. ASSUME NEW i \in 1..N, i - 1 \in Z
      PROVE  i \in Z
  <2> DEFINE s == F[a + (i - 1)]
  <2>1. a + i \in 1..Len(v) /\ (a + i) - 1 = a + (i - 1) /\ a + (i - 1) \in 0..Len(v)
    BY <1>1
  <2>2. s \in Seq(DOMAIN Payload) /\ (F[a + i] = s \/ (v[a + i] \in DOMAIN Payload /\ F[a + i] = Append(s, v[a + i])))
    BY <2>1 DEF Sends
  <2>3. IsWhole(parts, s)
    BY <1>3
  <2> HIDE DEF s
  <2>4. ASSUME NEW k \in DOMAIN Payload PROVE IsWhole(parts, Append(s, k))
    <3>1. /\ Append(s, k) \in Seq(DOMAIN Payload) /\ Len(Append(s, k)) = Len(s) + 1
          /\ \A j \in 1..Len(s) : Append(s, k)[j] = s[j]
      BY <2>2, AppendProperties
    <3>2. PICK d \in 0..(Len(s) - Len(parts)) :
              /\ \A j \in 1..Len(parts) : parts[j] = s[d + j]
              /\ d > 0 => ~Payload[s[d]].more
      BY <2>3 DEF IsWhole
    <3>3. Len(s) \in Nat /\ Len(parts) \in Nat
      BY <2>2
    <3>4. d \in 0..(Len(Append(s, k)) - Len(parts)) /\ d <= Len(s)
      BY <3>1, <3>2, <3>3
    <3>5. \A j \in 1..Len(parts) : d + j \in 1..Len(s)
      BY <3>2, <3>3
    <3>6. \A j \in 1..Len(parts) : parts[j] = Append(s, k)[d + j]
      BY <3>1, <3>2, <3>5
    <3>7. d > 0 => d \in 1..Len(s) /\ Append(s, k)[d] = s[d]
      BY <3>1, <3>3, <3>4
    <3>8. d > 0 => ~Payload[Append(s, k)[d]].more
      BY <3>2, <3>7
    <3> QED
      BY <2>3, <3>4, <3>6, <3>8 DEF IsWhole
  <2>5. IsWhole(parts, F[a + i])
    BY <2>2, <2>3, <2>4
  <2> QED
    BY <2>5
<1>4. N \in Z
  <2>1. 0..N \subseteq Z
    <3> HIDE DEF Z, N
    <3> QED
      BY <1>1, <1>2, <1>3, UpTo
  <2> HIDE DEF Z, N
  <2> QED
    BY <1>1, <2>1
<1> QED
  BY <1>1, <1>4

LEMMA ControlsAreApart ==
    /\ ESC # APC /\ ESC # DCS /\ ESC # ST /\ ESC # "G"
    /\ ST # APC /\ ST # DCS /\ ST # "G" /\ APC # DCS
BY Zenon DEF ESC, APC, DCS, ST

\* A start of S, and a payload of S, when S cuts none of its sequences.
LEMMA UnbrokenIs ==
    ASSUME NEW S \in Seq(Token), Unbroken(S)
    PROVE  /\ \A i \in 1..Len(S) :
                  S[i] \in DOMAIN Payload =>
                      /\ i > 3 /\ S[i - 3] = ESC /\ S[i - 2] = APC /\ S[i - 1] = "G"
                      /\ i + 2 <= Len(S) /\ S[i + 1] = ESC /\ S[i + 2] = ST
                      /\ i - 3 \in Openings(S) /\ i + 1 \in Closings(S, i - 3)
           /\ \A i \in Openings(S) :
                  IF S[i + 1] = APC THEN i + 3 <= Len(S) /\ S[i + 3] \in DOMAIN Payload /\ S[i + 2] = "G"
                  ELSE \E j \in Closings(S, i) : \A k \in i..j : S[k] \notin DOMAIN Payload
           /\ \A i \in 1..Len(S) : S[i] \in {ESC, DCS, APC, ST, "G"} => S[i] \notin DOMAIN Payload
<1>1. Len(S) \in Nat
  OBVIOUS
<1>2. ASSUME NEW i \in 1..Len(S), S[i] \in DOMAIN Payload
      PROVE  /\ i > 3 /\ S[i - 3] = ESC /\ S[i - 2] = APC /\ S[i - 1] = "G"
             /\ i + 2 <= Len(S) /\ S[i + 1] = ESC /\ S[i + 2] = ST
             /\ i - 3 \in Openings(S) /\ i + 1 \in Closings(S, i - 3)
  <2>1. /\ i > 3 /\ S[i - 3] = ESC /\ S[i - 2] = APC /\ S[i - 1] = "G"
        /\ i + 2 <= Len(S) /\ S[i + 1] = ESC /\ S[i + 2] = ST
    BY <1>2 DEF Unbroken
  <2>2. i - 3 \in 1..(Len(S) - 1) /\ (i - 3) + 1 = i - 2 /\ (i - 3) + 2 = i - 1
        /\ i + 1 \in ((i - 3) + 3)..(Len(S) - 1) /\ (i + 1) + 1 = i + 2 /\ i - 1 <= Len(S)
    BY <1>1, <2>1
  <2>3. i - 3 \in Openings(S)
    BY <2>1, <2>2 DEF Openings
  <2>4. i + 1 \in Closings(S, i - 3)
    BY <2>1, <2>2 DEF Closings
  <2> QED
    BY <2>1, <2>3, <2>4
<1>3. ASSUME NEW i \in Openings(S)
      PROVE  IF S[i + 1] = APC THEN i + 3 <= Len(S) /\ S[i + 3] \in DOMAIN Payload /\ S[i + 2] = "G"
             ELSE \E j \in Closings(S, i) : \A k \in i..j : S[k] \notin DOMAIN Payload
  <2>1. S[i + 1] = APC => S[i + 2] = "G"
    BY ControlsAreApart DEF Openings
  <2> QED
    BY <2>1 DEF Unbroken
<1>4. ASSUME NEW i \in 1..Len(S), S[i] \in {ESC, DCS, APC, ST, "G"}
      PROVE  S[i] \notin DOMAIN Payload
  BY <1>4, PieceAssumption
<1> QED
  BY <1>2, <1>3, <1>4

\* Behind a sequence (or at the beginning), the next one holds the next payload, if it is one that does.
LEMMA NextHolds ==
    ASSUME NEW S \in Seq(Token), Unbroken(S), NEW q \in 0..Len(S), q = 0 \/ S[q] = ST,
           NEW r, Ends(S, q, r)
    PROVE  /\ EndOf(S, q) + 1 \in 1..Len(S) /\ EndOf(S, q) + 1 > q /\ S[EndOf(S, q) + 1] = ST
           /\ \/ /\ S[From(S, q) + 1] = APC /\ S[From(S, q) + 3] \in DOMAIN Payload
                 /\ From(S, q) + 3 > q /\ From(S, q) \in Nat /\ EndOf(S, q) = From(S, q) + 4
                 /\ \A i \in (q + 1)..(EndOf(S, q) + 1) : S[i] \in DOMAIN Payload => i = From(S, q) + 3
              \/ /\ S[From(S, q) + 1] # APC
                 /\ \A i \in (q + 1)..(EndOf(S, q) + 1) : S[i] \notin DOMAIN Payload
<1> DEFINE f == From(S, q)
           j == EndOf(S, q)
<1>1. Len(S) \in Nat /\ q \in Nat /\ q <= Len(S)
  OBVIOUS
<1>2. /\ f \in Openings(S) /\ f > q /\ (\A i \in Ahead(S, q) : f <= i) /\ f \in 1..(Len(S) - 1) /\ S[f] = ESC
      /\ j \in (f + 3)..(Len(S) - 1) /\ S[j] = ESC /\ S[j + 1] = ST
      /\ j \in Closings(S, f) /\ \A k \in Closings(S, f) : j <= k
  BY NextIs DEF Ends
<1> HIDE DEF f, j
<1>3. \A i \in 1..Len(S) : i \in Nat /\ (S[i] \in DOMAIN Payload => S[i] # ESC /\ S[i] # ST)
  BY UnbrokenIs
<1>4. ASSUME NEW i \in (q + 1)..(j + 1), S[i] \in DOMAIN Payload
      PROVE  /\ i \in 1..Len(S) /\ i - 3 \in Nat /\ f <= i - 3 /\ S[i - 3] = ESC /\ i <= j
  <2>1. i \in 1..Len(S) /\ q < i
    BY <1>1, <1>2
  <2>2. i > 3 /\ S[i - 3] = ESC /\ S[i - 2] = APC /\ S[i - 1] = "G" /\ i - 3 \in Openings(S)
    BY <1>4, <2>1, UnbrokenIs
  <2>3. q # i - 3 /\ q # i - 2 /\ q # i - 1
    BY <2>1, <2>2, ControlsAreApart
  <2>4. i - 3 > q
    BY <1>1, <2>1, <2>3
  <2>5. i - 3 \in Ahead(S, q)
    BY <2>2, <2>4 DEF Ahead
  <2>6. i # j + 1
    BY <1>2, <1>3, <1>4, <2>1
  <2> QED
    BY <1>2, <2>1, <2>2, <2>5, <2>6
<1>5. j + 1 \in 1..Len(S) /\ j + 1 > q /\ S[j + 1] = ST
  BY <1>1, <1>2
<1>6. CASE S[f + 1] = APC
  <2>1. f + 3 <= Len(S) /\ S[f + 3] \in DOMAIN Payload /\ S[f + 2] = "G"
    BY <1>2, <1>6, UnbrokenIs
  <2>2. f + 3 \in 1..Len(S) /\ (f + 3) - 3 = f /\ (f + 3) + 1 = f + 4
    BY <1>1, <1>2, <2>1
  <2>3. f + 4 \in Closings(S, f)
    BY <2>1, <2>2, UnbrokenIs
  <2>4. j # f + 3
    BY <1>2, <1>3, <2>1, <2>2
  <2>5. j = f + 4
    BY <1>1, <1>2, <2>3, <2>4
  <2>6. ASSUME NEW i \in (q + 1)..(j + 1), S[i] \in DOMAIN Payload PROVE i = f + 3
    <3>1. i \in 1..Len(S) /\ i - 3 \in Nat /\ f <= i - 3 /\ S[i - 3] = ESC /\ i <= j
      BY <1>4, <2>6
    <3>2. i - 3 # f + 1
      BY <1>6, <3>1, ControlsAreApart
    <3> QED
      BY <1>2, <2>5, <3>1, <3>2
  <2>7. f + 3 > q /\ f \in Nat
    BY <1>1, <1>2
  <2> QED
    BY <1>5, <1>6, <2>1, <2>5, <2>6, <2>7 DEF f, j
<1>7. CASE S[f + 1] # APC
  <2>1. PICK k \in Closings(S, f) : \A i \in f..k : S[i] \notin DOMAIN Payload
    BY <1>2, <1>7, UnbrokenIs
  <2>2. j <= k /\ k \in Int
    BY <1>2, <2>1, PlacesAre
  <2>3. ASSUME NEW i \in (q + 1)..(j + 1), S[i] \in DOMAIN Payload PROVE FALSE
    <3>1. i \in 1..Len(S) /\ i - 3 \in Nat /\ f <= i - 3 /\ i <= j
      BY <1>4, <2>3
    <3>2. i \in f..k
      BY <1>2, <2>2, <3>1
    <3> QED
      BY <2>1, <2>3, <3>2
  <2> QED
    BY <1>5, <1>7, <2>3 DEF f, j
<1> QED
  BY <1>6, <1>7

\* What was sent of an image is known of a place from what was at one before.
LEMMA SentTyped ==
    ASSUME NEW S \in Seq(Token), NEW n \in 0..Len(S), NEW id
    PROVE  Sent(S, n, id) \in Seq(DOMAIN Payload) /\ (n = 0 => Sent(S, n, id) = <<>>)
<1>1. PICK F : Sends(S, id, F)
  BY SendsExist
<1>2. Sent(S, n, id) = F[n]
  BY <1>1, SentIs
<1> QED
  BY <1>1, <1>2 DEF Sends

LEMMA SentNone ==
    ASSUME NEW S \in Seq(Token), NEW id, NEW a \in 0..Len(S), NEW b \in a..Len(S),
           \A i \in (a + 1)..b : ~(S[i] \in DOMAIN Payload /\ Payload[S[i]].id = id)
    PROVE  Sent(S, b, id) = Sent(S, a, id)
<1>1. PICK F : Sends(S, id, F)
  BY SendsExist
<1>2. b \in 0..Len(S)
  OBVIOUS
<1>3. Sent(S, a, id) = F[a] /\ Sent(S, b, id) = F[b]
  BY <1>1, <1>2, SentIs
<1>4. F[b] = F[a]
  BY <1>1, SendsNone
<1> QED
  BY <1>3, <1>4

LEMMA SentOne ==
    ASSUME NEW S \in Seq(Token), NEW a \in 0..Len(S), NEW b \in a..Len(S), NEW i \in (a + 1)..b,
           S[i] \in DOMAIN Payload, \A j \in (a + 1)..b : S[j] \in DOMAIN Payload => j = i
    PROVE  /\ Sent(S, b, Payload[S[i]].id) = Append(Sent(S, a, Payload[S[i]].id), S[i])
           /\ \A id : id # Payload[S[i]].id => Sent(S, b, id) = Sent(S, a, id)
<1> DEFINE id == Payload[S[i]].id
<1>1. PICK F : Sends(S, id, F)
  BY SendsExist
<1>2. a \in Nat /\ b \in Nat /\ b <= Len(S) /\ Len(S) \in Nat /\ i \in 1..Len(S) /\ i - 1 \in a..Len(S)
      /\ b \in 0..Len(S) /\ i \in 0..Len(S) /\ i - 1 \in 0..Len(S) /\ b \in i..Len(S)
  OBVIOUS
<1> HIDE DEF id
<1>3. Sent(S, a, id) = F[a] /\ Sent(S, b, id) = F[b]
  BY <1>1, <1>2, SentIs
<1>4. F[i - 1] = F[a]
  <2>1. \A j \in (a + 1)..(i - 1) : S[j] \notin DOMAIN Payload
    BY <1>2
  <2> QED
    BY <1>1, <1>2, <2>1, SendsNone
<1>5. F[i] = Append(F[i - 1], S[i])
  BY <1>1, <1>2 DEF Sends, id
<1>6. F[b] = F[i]
  <2>1. \A j \in (i + 1)..b : S[j] \notin DOMAIN Payload
    BY <1>2
  <2> QED
    BY <1>1, <1>2, <2>1, SendsNone
<1>7. Sent(S, b, id) = Append(Sent(S, a, id), S[i])
  BY <1>3, <1>4, <1>5, <1>6
<1>8. ASSUME NEW other, other # id
      PROVE  Sent(S, b, other) = Sent(S, a, other)
  <2>1. \A j \in (a + 1)..b : ~(S[j] \in DOMAIN Payload /\ Payload[S[j]].id = other)
    BY <1>8 DEF id
  <2> QED
    BY <2>1, SentNone
<1> QED
  BY <1>7, <1>8 DEF id

\* The parts that wait are the last that were sent, behind the end of the image before.
Waits(parts, sent) ==
    /\ Len(parts) <= Len(sent)
    /\ \A j \in 1..Len(parts) :
           parts[j] = sent[Len(sent) - Len(parts) + j] /\ Payload[parts[j]].more
    /\ Len(parts) < Len(sent) => ~Payload[sent[Len(sent) - Len(parts)]].more

LEMMA WaitsGo ==
    ASSUME NEW parts \in Seq(DOMAIN Payload), NEW sent \in Seq(DOMAIN Payload), NEW k \in DOMAIN Payload,
           Waits(parts, sent)
    PROVE  /\ Payload[k].more => Waits(Append(parts, k), Append(sent, k))
           /\ ~Payload[k].more => /\ Waits(<<>>, Append(sent, k))
                                  /\ IsWhole(Append(parts, k), Append(sent, k))
<1> DEFINE p == Append(parts, k)
           s == Append(sent, k)
           a == Len(sent) - Len(parts)
<1>1. Len(parts) \in Nat /\ Len(sent) \in Nat /\ Len(parts) <= Len(sent) /\ a \in Nat /\ a <= Len(sent)
  BY DEF Waits
<1>2. /\ Len(p) = Len(parts) + 1 /\ p[Len(parts) + 1] = k /\ \A j \in 1..Len(parts) : p[j] = parts[j]
      /\ Len(s) = Len(sent) + 1 /\ s[Len(sent) + 1] = k /\ \A j \in 1..Len(sent) : s[j] = sent[j]
  BY AppendProperties
<1>3. \A j \in 1..Len(parts) : parts[j] = sent[a + j] /\ Payload[parts[j]].more
  BY DEF Waits
<1>4. a > 0 => ~Payload[sent[a]].more
  BY <1>1 DEF Waits
<1> HIDE DEF p, s, a
<1>5. a + Len(parts) = Len(sent)
  BY <1>1 DEF a
<1>6. ASSUME NEW j \in 1..Len(p)
      PROVE  p[j] = s[a + j] /\ (j < Len(p) => Payload[p[j]].more) /\ (j = Len(p) => p[j] = k)
  <2>1. CASE j <= Len(parts)
    <3>1. j \in 1..Len(parts) /\ a + j \in 1..Len(sent) /\ j # Len(p)
      BY <1>1, <1>2, <1>5, <2>1
    <3> QED
      BY <1>2, <1>3, <3>1
  <2>2. CASE ~(j <= Len(parts))
    <3>1. j = Len(parts) + 1 /\ a + j = Len(sent) + 1 /\ j = Len(p) /\ ~(j < Len(p))
      BY <1>1, <1>2, <1>5, <2>2
    <3> QED
      BY <1>2, <3>1
  <2> QED
    BY <2>1, <2>2
<1>7. a > 0 => ~Payload[s[a]].more
  <2>1. a > 0 => a \in 1..Len(sent)
    BY <1>1
  <2> QED
    BY <1>2, <1>4, <2>1
<1>8. Len(s) - Len(p) = a /\ Len(p) <= Len(s) /\ (Len(p) < Len(s) => a > 0) /\ Len(p) \in Nat /\ Len(s) \in Nat
  BY <1>1, <1>2, <1>5
<1>9. ASSUME Payload[k].more
      PROVE  Waits(p, s)
  <2>1. \A j \in 1..Len(p) : p[j] = s[Len(s) - Len(p) + j]
    BY <1>6, <1>8
  <2>2. ASSUME NEW j \in 1..Len(p) PROVE Payload[p[j]].more
    <3>1. j < Len(p) \/ j = Len(p)
      BY <1>8
    <3> QED
      BY <1>6, <1>9, <3>1
  <2>3. Len(p) < Len(s) => ~Payload[s[Len(s) - Len(p)]].more
    BY <1>7, <1>8
  <2> QED
    BY <1>8, <2>1, <2>2, <2>3 DEF Waits
<1>10. ASSUME ~Payload[k].more
       PROVE  Waits(<<>>, s) /\ IsWhole(p, s)
  <2>1. Waits(<<>>, s)
    <3>1. Len(<<>>) = 0 /\ Len(s) - 0 = Len(sent) + 1 /\ 0 <= Len(s)
      BY <1>1, <1>2
    <3> QED
      BY <1>2, <1>10, <3>1 DEF Waits
  <2>2. ASSUME NEW j \in 1..Len(p) PROVE Payload[p[j]].more <=> j < Len(p)
    <3>1. j < Len(p) \/ (j = Len(p) /\ ~(j < Len(p)))
      BY <1>8
    <3> QED
      BY <1>6, <1>10, <3>1
  <2>3. a \in 0..(Len(s) - Len(p))
    BY <1>1, <1>8
  <2>4. IsWhole(p, s)
    BY <1>6, <1>7, <2>2, <2>3 DEF IsWhole
  <2> QED
    BY <2>1, <2>4
<1> QED
  BY <1>9, <1>10 DEF p, s

\* All images up to the place n of S: the parts that wait, and the frames.
PartsAre(S, n, parts) == \A id \in Ids : Waits(parts[id], Sent(S, n, id))
FrameIs(S, n, frame) ==
    frame[1] # "sixel" =>
        /\ frame[2] \in Seq(DOMAIN Payload) /\ frame[2] # <<>>
        /\ IsWhole(frame[2], Sent(S, n, frame[1]))
FramesAre(S, n, given) == \A i \in 1..Len(given) : FrameIs(S, n, given[i])
Refused(issue) == \E y \in issue : y \in {"payload", "limit"}

\* What the next payload is answered, when it is not refused.
LEMMA KittyHolds ==
    ASSUME NEW S \in Seq(Token), NEW a \in 0..Len(S), NEW b \in a..Len(S), NEW i \in (a + 1)..b,
           S[i] \in DOMAIN Payload, \A j \in (a + 1)..b : S[j] \in DOMAIN Payload => j = i,
           NEW parts \in PartsOfImages, PartsAre(S, a, parts),
           NEW body \in Seq(Token), Len(body) = 1, body[1] = S[i],
           ~Refused(Kitty(parts, body).issue)
    PROVE  PartsAre(S, b, Kitty(parts, body).parts) /\ FramesAre(S, b, Kitty(parts, body).frame)
<1> DEFINE k == S[i]
           id == Payload[k].id
           all == Append(parts[id], k)
           read == Kitty(parts, body)
<1>1. k \in DOMAIN Payload /\ id \in Ids /\ IsPayload(body)
  BY DEF Ids, IsPayload
<1>2. \/ Payload[k].ok /\ Payload[k].more /\ read = Answer([parts EXCEPT ![id] = all], <<>>, {})
      \/ /\ Payload[k].ok /\ ~Payload[k].more
         /\ read = Answer([parts EXCEPT ![id] = <<>>], <<(<<id, all>>)>>, {})
  <2>1. CASE ~Payload[k].ok
    <3>1. read = Answer(parts, <<>>, {"payload"})
      BY <1>1, <2>1 DEF Kitty
    <3>2. read.issue = {"payload"}
      BY <3>1, AnswerIs
    <3> QED
      BY <3>2 DEF Refused
  <2>2. CASE Payload[k].ok /\ Waiting(parts) + 1 > MaxParts
    <3>1. read = Answer(NoParts, <<>>, {"limit"})
      BY <1>1, <2>2 DEF Kitty
    <3>2. read.issue = {"limit"}
      BY <3>1, AnswerIs
    <3> QED
      BY <3>2 DEF Refused
  <2>3. CASE Payload[k].ok /\ ~(Waiting(parts) + 1 > MaxParts)
    BY <1>1, <2>3 DEF Kitty
  <2> QED
    BY <2>1, <2>2, <2>3
<1> HIDE DEF read
<1>3. /\ Sent(S, b, id) = Append(Sent(S, a, id), k)
      /\ \A other : other # id => Sent(S, b, other) = Sent(S, a, other)
  BY SentOne
<1>4. b \in 0..Len(S)
  OBVIOUS
<1> HIDE DEF k, id
<1>5. parts[id] \in Seq(DOMAIN Payload) /\ Sent(S, a, id) \in Seq(DOMAIN Payload)
  BY <1>1, SentTyped DEF PartsOfImages
<1>6. Waits(parts[id], Sent(S, a, id)) /\ \A other \in Ids : Waits(parts[other], Sent(S, a, other))
  BY <1>1 DEF PartsAre
<1>7. /\ Payload[k].more => Waits(all, Sent(S, b, id))
      /\ ~Payload[k].more => Waits(<<>>, Sent(S, b, id)) /\ IsWhole(all, Sent(S, b, id))
  BY <1>1, <1>3, <1>5, <1>6, WaitsGo
<1>8. all \in Seq(DOMAIN Payload) /\ all # <<>>
  <2>1. all \in Seq(DOMAIN Payload) /\ Len(all) = Len(parts[id]) + 1 /\ Len(parts[id]) \in Nat
    BY <1>1, <1>5, AppendProperties
  <2> HIDE DEF all
  <2> QED
    BY <2>1
<1> HIDE DEF all
<1>9. \A new : /\ [parts EXCEPT ![id] = new][id] = new
               /\ \A other \in Ids : other # id => [parts EXCEPT ![id] = new][other] = parts[other]
  BY <1>1 DEF PartsOfImages
<1>10. ASSUME NEW new, Waits(new, Sent(S, b, id))
       PROVE  PartsAre(S, b, [parts EXCEPT ![id] = new])
  <2> SUFFICES ASSUME NEW other \in Ids
               PROVE  Waits([parts EXCEPT ![id] = new][other], Sent(S, b, other))
    BY DEF PartsAre
  <2>1. CASE other = id
    <3>1. [parts EXCEPT ![id] = new][id] = new
      BY <1>9
    <3> QED
      BY <1>10, <2>1, <3>1
  <2>2. CASE other # id
    BY <1>3, <1>6, <1>9, <2>2
  <2> QED
    BY <2>1, <2>2
<1>11. CASE Payload[k].more
  <2>1. read.parts = [parts EXCEPT ![id] = all] /\ read.frame = <<>>
    BY <1>2, <1>11, AnswerIs
  <2>2. PartsAre(S, b, read.parts)
    BY <1>7, <1>10, <1>11, <2>1
  <2>3. FramesAre(S, b, <<>>)
    BY DEF FramesAre
  <2> QED
    BY <2>1, <2>2, <2>3 DEF read
<1>12. CASE ~Payload[k].more
  <2>1. read.parts = [parts EXCEPT ![id] = <<>>] /\ read.frame = <<(<<id, all>>)>>
    BY <1>2, <1>12, AnswerIs
  <2>2. PartsAre(S, b, read.parts)
    BY <1>7, <1>10, <1>12, <2>1
  <2>3. FrameIs(S, b, <<id, all>>)
    BY <1>7, <1>8, <1>12 DEF FrameIs
  <2>4. FramesAre(S, b, <<(<<id, all>>)>>)
    <3> DEFINE frame == <<id, all>>
    <3> HIDE DEF frame
    <3>1. \A i2 \in 1..Len(<<frame>>) : <<frame>>[i2] = frame
      OBVIOUS
    <3>2. FramesAre(S, b, <<frame>>)
      BY <2>3, <3>1 DEF FramesAre, frame
    <3> QED
      BY <3>2 DEF frame
  <2> QED
    BY <2>1, <2>2, <2>4 DEF read
<1> QED
  BY <1>11, <1>12

\* Frames that were whole stay so.
LEMMA FramesStay ==
    ASSUME NEW S \in Seq(Token), NEW a \in 0..Len(S), NEW b \in a..Len(S), NEW given, FramesAre(S, a, given)
    PROVE  FramesAre(S, b, given)
<1> SUFFICES ASSUME NEW i \in 1..Len(given), given[i][1] # "sixel"
             PROVE  FrameIs(S, b, given[i])
  BY DEF FramesAre, FrameIs
<1> DEFINE id == given[i][1]
           parts == given[i][2]
<1>1. parts \in Seq(DOMAIN Payload) /\ parts # <<>> /\ IsWhole(parts, Sent(S, a, id))
  BY DEF FramesAre, FrameIs
<1> HIDE DEF id, parts
<1>2. PICK F : Sends(S, id, F)
  BY SendsExist
<1>3. b \in 0..Len(S)
  OBVIOUS
<1>4. Sent(S, a, id) = F[a] /\ Sent(S, b, id) = F[b]
  BY <1>2, <1>3, SentIs
<1>5. IsWhole(parts, Sent(S, b, id))
  BY <1>1, <1>2, <1>4, WholeStays
<1> QED
  BY <1>1, <1>5 DEF FrameIs, id, parts

\* As far as a text was read, its images are whole until a payload is refused.
ImagesAre(S, e) ==
    ~Refused(e.issues) => PartsAre(S, e.at, e.parts) /\ FramesAre(S, e.at, e.out)

\* Reading the next sequence keeps that.
LEMMA NextKeepsImages ==
    ASSUME NEW S \in Seq(Token), Unbroken(S), NEW e \in Courses, e.at \in 0..Len(S),
           e.at = 0 \/ S[e.at] = ST, NEW r, Ends(S, e.at, r), ImagesAre(S, e)
    PROVE  /\ TakenNext(S, e).at \in 0..Len(S) /\ S[TakenNext(S, e).at] = ST
           /\ ImagesAre(S, TakenNext(S, e))
<1> DEFINE a == e.at
           f == From(S, a)
           j == EndOf(S, a)
           b == j + 1
           s == Sequence(S, a)
           body == SubSeq(s, 3, Len(s))
           read == Read(e.parts, s)
           given == SentUpTo(e.seen, read)
           t == TakenNext(S, e)
<1>1. e.parts \in PartsOfImages /\ e.seen \in Nat /\ e.out \in Seq(Frames) /\ e.issues \in SUBSET Problems
  BY DEF Courses
<1>2. /\ s \in Seq(Token) /\ b \in 1..Len(S) /\ f >= 1 /\ f + 3 <= j /\ f \in Nat /\ j \in Nat
  BY SequenceIs
<1>3. /\ b > a /\ S[b] = ST
      /\ \/ /\ S[f + 1] = APC /\ S[f + 3] \in DOMAIN Payload /\ f + 3 > a /\ j = f + 4
            /\ \A i \in (a + 1)..b : S[i] \in DOMAIN Payload => i = f + 3
         \/ /\ S[f + 1] # APC
            /\ \A i \in (a + 1)..b : S[i] \notin DOMAIN Payload
  BY NextHolds
<1>4. t = [at |-> b, parts |-> read.parts, seen |-> e.seen + Len(given),
           out |-> e.out \o given, issues |-> e.issues \cup read.issue]
  BY DEF TakenNext, Taken
<1> HIDE DEF t, f, j, s, read, given
<1>5. Len(S) \in Nat /\ a \in Nat /\ b \in a..Len(S) /\ b \in 0..Len(S) /\ a \in 0..Len(S)
  BY <1>2, <1>3
<1>6. read \in Answers /\ given \in Seq(Frames)
  BY <1>1, <1>2, ReadTyped, GivenTyped DEF read, given
<1>7. t.at = b /\ t.parts = read.parts /\ t.out = e.out \o given /\ t.issues = e.issues \cup read.issue
  BY <1>4
<1>8. Len(s) = j - f - 1 /\ \A i \in 1..(j - f - 1) : s[i] = S[f + i]
  <2>1. f + 1 \in Nat /\ j - 1 \in Nat /\ f + 1 >= 1 /\ j - 1 <= Len(S) /\ f + 1 <= j - 1
    BY <1>2, <1>5
  <2>2. \A i \in (f + 1)..(j - 1) : S[i] \in Token
    BY <1>5, <2>1
  <2>3. /\ Len(SubSeq(S, f + 1, j - 1)) = (j - 1) - (f + 1) + 1
        /\ \A i \in 1..((j - 1) - (f + 1) + 1) : SubSeq(S, f + 1, j - 1)[i] = S[f + 1 + i - 1]
    BY <2>1, <2>2, SubSeqProperties
  <2>4. (j - 1) - (f + 1) + 1 = j - f - 1 /\ \A i \in 1..(j - f - 1) : f + 1 + i - 1 = f + i
    BY <1>2
  <2> QED
    BY <2>3, <2>4 DEF s, Sequence, f, j
<1>9. s[1] = S[f + 1]
  <2>1. 1 \in 1..(j - f - 1)
    BY <1>2
  <2> QED
    BY <1>8, <2>1
<1>10. body \in Seq(Token)
  <2>1. Len(s) \in Nat /\ \A i \in 3..Len(s) : s[i] \in Token
    BY <1>2
  <2> QED
    BY <2>1, SubSeqProperties
<1>11. ASSUME ~Refused(e.issues), ~Refused(read.issue)
       PROVE  PartsAre(S, b, read.parts) /\ FramesAre(S, b, read.frame)
  <2>0. PartsAre(S, a, e.parts)
    BY <1>11 DEF ImagesAre
  <2>1. CASE S[f + 1] = APC
    <3>1. /\ S[f + 3] \in DOMAIN Payload /\ f + 3 > a /\ j = f + 4
          /\ \A i \in (a + 1)..b : S[i] \in DOMAIN Payload => i = f + 3
      BY <1>3, <2>1
    <3>2. f + 3 \in (a + 1)..b
      BY <1>2, <1>5, <3>1
    <3>3. Len(s) = 3 /\ s[3] = S[f + 3]
      BY <1>2, <1>8, <3>1
    <3>4. Len(body) = 1 /\ body[1] = S[f + 3]
      BY <1>2, <3>3
    <3>5. read = Kitty(e.parts, body)
      BY <1>9, <2>1 DEF read, Read
    <3> HIDE DEF body, b, a
    <3>6. \A parts \in PartsOfImages, text \in Seq(Token) :
              /\ PartsAre(S, a, parts) /\ Len(text) = 1 /\ text[1] = S[f + 3]
              /\ ~Refused(Kitty(parts, text).issue)
              => PartsAre(S, b, Kitty(parts, text).parts) /\ FramesAre(S, b, Kitty(parts, text).frame)
      BY <1>5, <3>1, <3>2, KittyHolds
    <3> QED
      BY <1>1, <1>10, <1>11, <2>0, <3>4, <3>5, <3>6
  <2>2. CASE S[f + 1] # APC
    <3>1. \A i \in (a + 1)..b : S[i] \notin DOMAIN Payload
      BY <1>3, <2>2
    <3>2. \A id : Sent(S, b, id) = Sent(S, a, id)
      BY <1>5, <3>1, SentNone
    <3>3. read = Sixel(e.parts, body) \/ read = Answer(e.parts, <<>>, {})
      BY <1>9, <2>2 DEF read, Read
    <3>4. /\ read.parts = e.parts
          /\ read.frame = <<>> \/ read.frame = <<(<<"sixel", body>>)>>
      BY <3>3, AnswerIs DEF Sixel
    <3>5. PartsAre(S, b, read.parts)
      BY <2>0, <3>2, <3>4 DEF PartsAre
    <3>6. FramesAre(S, b, read.frame)
      <4> DEFINE frame == <<"sixel", body>>
      <4>1. FrameIs(S, b, frame)
        BY DEF FrameIs
      <4> HIDE DEF frame
      <4>2. (\A i \in 1..Len(<<frame>>) : <<frame>>[i] = frame) /\ Len(<<>>) = 0
        OBVIOUS
      <4>3. FramesAre(S, b, <<frame>>) /\ FramesAre(S, b, <<>>)
        BY <4>1, <4>2 DEF FramesAre
      <4> QED
        BY <3>4, <4>3 DEF frame
    <3> QED
      BY <3>5, <3>6
  <2> QED
    BY <2>1, <2>2
<1>12. ASSUME ~Refused(t.issues)
       PROVE  PartsAre(S, b, t.parts) /\ FramesAre(S, b, t.out)
  <2>1. ~Refused(e.issues) /\ ~Refused(read.issue)
    BY <1>7, <1>12 DEF Refused
  <2>2. PartsAre(S, b, read.parts) /\ FramesAre(S, b, read.frame)
    BY <1>11, <2>1
  <2>3. FramesAre(S, b, given)
    BY <2>2 DEF SentUpTo, FramesAre, given
  <2>4. FramesAre(S, a, e.out)
    BY <2>1 DEF ImagesAre
  <2>5. FramesAre(S, b, e.out)
    BY <1>5, <2>4, FramesStay
  <2>6. FramesAre(S, b, e.out \o given)
    <3>1. \A y, z \in Seq(Frames) :
              /\ Len(y \o z) = Len(y) + Len(z)
              /\ \A i \in 1..Len(y \o z) : (y \o z)[i] = IF i <= Len(y) THEN y[i] ELSE z[i - Len(y)]
      BY ConcatProperties
    <3>2. /\ Len(e.out \o given) = Len(e.out) + Len(given)
          /\ \A i \in 1..Len(e.out \o given) :
                 (e.out \o given)[i] = IF i <= Len(e.out) THEN e.out[i] ELSE given[i - Len(e.out)]
      BY <1>1, <1>6, <3>1
    <3>3. Len(e.out) \in Nat /\ Len(given) \in Nat
      BY <1>1, <1>6
    <3>4. \A i \in 1..Len(e.out \o given) :
              \/ i \in 1..Len(e.out) /\ (e.out \o given)[i] = e.out[i]
              \/ i - Len(e.out) \in 1..Len(given) /\ (e.out \o given)[i] = given[i - Len(e.out)]
      BY <3>2, <3>3
    <3> QED
      BY <2>3, <2>5, <3>4 DEF FramesAre
  <2> QED
    BY <1>7, <2>2, <2>6
<1> QED
  BY <1>3, <1>5, <1>7, <1>12 DEF ImagesAre, t

\* So of everything that is read.
LEMMA RunKeepsImages ==
    ASSUME NEW S \in Seq(Token), Unbroken(S), NEW E, Runs(S, E)
    PROVE  \A k \in 0..Len(S) : ImagesAre(S, E[k])
<1> DEFINE N == Len(S)
           Holds(e) == (e.at = 0 \/ S[e.at] = ST) /\ ImagesAre(S, e)
           Z == {k \in 0..N : Holds(E[k])}
<1>1. N \in Nat
  OBVIOUS
<1>2. Holds(Begun)
  <2>1. Begun.at = 0 /\ Begun.parts = NoParts /\ Begun.out = <<>>
    BY DEF Begun
  <2>2. FramesAre(S, 0, <<>>)
    BY DEF FramesAre
  <2>3. PartsAre(S, 0, NoParts)
    <3> SUFFICES ASSUME NEW id \in Ids PROVE Waits(NoParts[id], Sent(S, 0, id))
      BY DEF PartsAre
    <3>1. NoParts[id] = <<>>
      BY DEF NoParts, Ids
    <3>2. Sent(S, 0, id) = <<>>
      BY <1>1, SentTyped
    <3>3. Waits(<<>>, <<>>)
      BY DEF Waits
    <3> QED
      BY <3>1, <3>2, <3>3
  <2> QED
    BY <2>1, <2>2, <2>3 DEF ImagesAre
<1>3. 0 \in Z
  <2> HIDE DEF Holds
  <2>1. E[0] = Begun
    BY DEF Runs
  <2> QED
    BY <1>1, <1>2, <2>1
<1>4. ASSUME NEW k \in 1..N, k - 1 \in Z
      PROVE  k \in Z
  <2> DEFINE e == E[k - 1]
  <2>1. k - 1 \in 0..N /\ Holds(e)
    BY <1>4
  <2>2. e \in Courses /\ e.at \in 0..(k - 1)
    BY <2>1, RunSettles
  <2>3. e.at \in 0..Len(S)
    BY <1>1, <2>1, <2>2
  <2>4. E[k] = Onward(S, e, k)
    BY DEF Runs
  <2> HIDE DEF e
  <2>5. CASE Ends(S, e.at, k)
    <3>1. E[k] = TakenNext(S, e)
      BY <2>4, <2>5 DEF Onward
    <3>2. S[TakenNext(S, e).at] = ST /\ ImagesAre(S, TakenNext(S, e))
      BY <2>1, <2>2, <2>3, <2>5, NextKeepsImages
    <3> QED
      BY <3>1, <3>2
  <2>6. CASE ~Ends(S, e.at, k)
    <3>1. E[k] = e
      BY <2>4, <2>6 DEF Onward
    <3> QED
      BY <2>1, <3>1
  <2> QED
    BY <2>5, <2>6
<1>5. 0..N \subseteq Z
  <2> HIDE DEF Z, N
  <2> QED
    BY <1>1, <1>3, <1>4, UpTo
<1> QED
  BY <1>5

\* Sequences that are unbroken are so one behind the other.
LEMMA UnbrokenConcat ==
    ASSUME NEW v \in Seq(Token), NEW w \in Seq(Token), Unbroken(v), Unbroken(w)
    PROVE  Unbroken(v \o w)
<1> DEFINE S == v \o w
           n == Len(v)
<1>1. \A y, z \in Seq(Token) :
          /\ y \o z \in Seq(Token) /\ Len(y \o z) = Len(y) + Len(z)
          /\ \A i \in 1..Len(y \o z) : (y \o z)[i] = IF i <= Len(y) THEN y[i] ELSE z[i - Len(y)]
  BY ConcatProperties
<1>2. /\ n \in Nat /\ Len(w) \in Nat /\ S \in Seq(Token) /\ Len(S) = n + Len(w)
      /\ \A i \in 1..Len(S) : S[i] = IF i <= n THEN v[i] ELSE w[i - n]
  BY <1>1
<1> HIDE DEF S, n
<1>3. /\ \A i \in 1..n : S[i] = v[i]
      /\ \A i \in 1..Len(w) : S[n + i] = w[i]
  <2>1. \A i \in 1..n : i \in 1..Len(S) /\ i <= n
    BY <1>2
  <2>2. \A i \in 1..Len(w) : n + i \in 1..Len(S) /\ ~(n + i <= n) /\ (n + i) - n = i
    BY <1>2
  <2> QED
    BY <1>2, <2>1, <2>2
<1>4. \A i \in 1..n : v[i] \in DOMAIN Payload =>
          /\ i > 3 /\ v[i - 3] = ESC /\ v[i - 2] = APC /\ v[i - 1] = "G"
          /\ i + 2 <= n /\ v[i + 1] = ESC /\ v[i + 2] = ST
  BY DEF Unbroken, n
<1>5. \A i \in 1..Len(w) : w[i] \in DOMAIN Payload =>
          /\ i > 3 /\ w[i - 3] = ESC /\ w[i - 2] = APC /\ w[i - 1] = "G"
          /\ i + 2 <= Len(w) /\ w[i + 1] = ESC /\ w[i + 2] = ST
  BY DEF Unbroken
<1>6. ASSUME NEW i \in 1..Len(S)
      PROVE  i \in 1..n \/ \E k \in 1..Len(w) : i = n + k
  <2>1. i \in 1..n \/ (i - n \in 1..Len(w) /\ i = n + (i - n))
    BY <1>2
  <2> QED
    BY <2>1
<1>7. ASSUME NEW i \in 1..Len(S), S[i] \in DOMAIN Payload
      PROVE  /\ i > 3 /\ S[i - 3] = ESC /\ S[i - 2] = APC /\ S[i - 1] = "G"
             /\ i + 2 <= Len(S) /\ S[i + 1] = ESC /\ S[i + 2] = ST
  <2>1. CASE i \in 1..n
    <3>1. /\ i > 3 /\ v[i - 3] = ESC /\ v[i - 2] = APC /\ v[i - 1] = "G"
          /\ i + 2 <= n /\ v[i + 1] = ESC /\ v[i + 2] = ST
      BY <1>3, <1>4, <1>7, <2>1
    <3>2. /\ i - 3 \in 1..n /\ i - 2 \in 1..n /\ i - 1 \in 1..n /\ i + 1 \in 1..n /\ i + 2 \in 1..n
          /\ i + 2 <= Len(S)
      BY <1>2, <2>1, <3>1
    <3> QED
      BY <1>3, <3>1, <3>2
  <2>2. ASSUME NEW k \in 1..Len(w), i = n + k
        PROVE  /\ i > 3 /\ S[i - 3] = ESC /\ S[i - 2] = APC /\ S[i - 1] = "G"
               /\ i + 2 <= Len(S) /\ S[i + 1] = ESC /\ S[i + 2] = ST
    <3>1. /\ k > 3 /\ w[k - 3] = ESC /\ w[k - 2] = APC /\ w[k - 1] = "G"
          /\ k + 2 <= Len(w) /\ w[k + 1] = ESC /\ w[k + 2] = ST
      BY <1>3, <1>5, <1>7, <2>2
    <3>2. /\ k - 3 \in 1..Len(w) /\ k - 2 \in 1..Len(w) /\ k - 1 \in 1..Len(w)
          /\ k + 1 \in 1..Len(w) /\ k + 2 \in 1..Len(w)
          /\ n + (k - 3) = i - 3 /\ n + (k - 2) = i - 2 /\ n + (k - 1) = i - 1
          /\ n + (k + 1) = i + 1 /\ n + (k + 2) = i + 2 /\ i + 2 <= Len(S) /\ i > 3
      BY <1>2, <2>2, <3>1
    <3>3. /\ S[n + (k - 3)] = ESC /\ S[n + (k - 2)] = APC /\ S[n + (k - 1)] = "G"
          /\ S[n + (k + 1)] = ESC /\ S[n + (k + 2)] = ST
      BY <1>3, <3>1, <3>2
    <3> QED
      BY <3>2, <3>3
  <2> QED
    BY <1>6, <2>1, <2>2
<1>8. /\ n > 0 => v[n] # ESC
      /\ n > 1 => ~(v[n - 1] = ESC /\ v[n] = APC)
      /\ Len(w) > 0 => w[Len(w)] # ESC
      /\ Len(w) > 1 => ~(w[Len(w) - 1] = ESC /\ w[Len(w)] = APC)
  BY DEF Unbroken, n
<1>9. \A i \in Openings(S) : i \in Openings(v) \/ \E k \in Openings(w) : i = n + k
  <2> SUFFICES ASSUME NEW i \in Openings(S), i \notin Openings(v)
               PROVE  \E k \in Openings(w) : i = n + k
    OBVIOUS
  <2>1. /\ i \in 1..(Len(S) - 1) /\ S[i] = ESC
        /\ S[i + 1] = DCS \/ (S[i + 1] = APC /\ i + 2 <= Len(S) /\ S[i + 2] = "G")
    BY DEF Openings
  <2>2. i > n
    <3> SUFFICES ASSUME ~(i > n) PROVE FALSE
      OBVIOUS
    <3>1. i \in 1..n /\ v[i] = ESC
      BY <1>2, <1>3, <2>1
    <3>2. i # n
      BY <1>8, <3>1
    <3>3. i \in 1..(n - 1) /\ i + 1 \in 1..n
      BY <1>2, <3>1, <3>2
    <3>4. v[i + 1] = S[i + 1]
      BY <1>3, <3>3
    <3>5. CASE S[i + 1] = DCS
      BY <3>1, <3>3, <3>4, <3>5 DEF Openings, n
    <3>6. CASE S[i + 1] = APC /\ S[i + 2] = "G"
      <4>1. i + 1 # n
        <5> SUFFICES ASSUME i + 1 = n PROVE FALSE
          OBVIOUS
        <5>1. n > 1 /\ n - 1 = i
          BY <1>2, <3>3
        <5> QED
          BY <1>8, <3>1, <3>4, <3>6, <5>1
      <4>2. i + 2 \in 1..n /\ i + 2 <= n
        BY <1>2, <3>3, <4>1
      <4>3. v[i + 2] = "G"
        BY <1>3, <3>6, <4>2
      <4> QED
        BY <3>1, <3>3, <3>4, <3>6, <4>2, <4>3 DEF Openings, n
    <3> QED
      BY <2>1, <3>5, <3>6
  <2> DEFINE k == i - n
  <2>3. /\ k \in 1..(Len(w) - 1) /\ k \in 1..Len(w) /\ k + 1 \in 1..Len(w) /\ n + k = i /\ n + (k + 1) = i + 1
        /\ i + 2 <= Len(S) => k + 2 \in 1..Len(w) /\ k + 2 <= Len(w) /\ n + (k + 2) = i + 2
    BY <1>2, <2>1, <2>2
  <2> HIDE DEF k
  <2>4. w[k] = ESC /\ w[k + 1] = S[i + 1]
    BY <1>3, <2>1, <2>3
  <2>5. ASSUME i + 2 <= Len(S) PROVE k + 2 <= Len(w) /\ w[k + 2] = S[i + 2]
    BY <1>3, <2>3, <2>5
  <2>6. k \in Openings(w)
    BY <2>1, <2>3, <2>4, <2>5 DEF Openings
  <2> QED
    BY <2>3, <2>6
<1>10. ASSUME NEW i \in Openings(S)
       PROVE  IF S[i + 1] = APC THEN i + 3 <= Len(S) /\ S[i + 3] \in DOMAIN Payload
              ELSE \E j \in Closings(S, i) : \A k \in i..j : S[k] \notin DOMAIN Payload
  <2>1. CASE i \in Openings(v)
    <3>1. i \in 1..(n - 1)
      BY <2>1 DEF Openings, n
    <3>2. i + 1 \in 1..n /\ S[i + 1] = v[i + 1]
      BY <1>2, <1>3, <3>1
    <3>3. IF v[i + 1] = APC THEN i + 3 <= n /\ v[i + 3] \in DOMAIN Payload
          ELSE \E j \in Closings(v, i) : \A k \in i..j : v[k] \notin DOMAIN Payload
      BY <2>1 DEF Unbroken, n
    <3>4. CASE v[i + 1] = APC
      <4>1. i + 3 <= n /\ v[i + 3] \in DOMAIN Payload
        BY <3>3, <3>4
      <4>2. i + 3 \in 1..n /\ i + 3 <= Len(S)
        BY <1>2, <3>1, <4>1
      <4>3. S[i + 3] = v[i + 3]
        BY <1>3, <4>2
      <4> QED
        BY <3>2, <3>4, <4>1, <4>2, <4>3
    <3>5. CASE v[i + 1] # APC
      <4>1. PICK j \in Closings(v, i) : \A k \in i..j : v[k] \notin DOMAIN Payload
        BY <3>3, <3>5
      <4>2. j \in (i + 3)..(n - 1) /\ v[j] = ESC /\ v[j + 1] = ST
        BY DEF Closings, n
      <4>3. j \in (i + 3)..(Len(S) - 1) /\ j \in 1..n /\ j + 1 \in 1..n /\ \A k \in i..j : k \in 1..n
        BY <1>2, <3>1, <4>2
      <4>4. j \in Closings(S, i)
        BY <1>3, <4>2, <4>3 DEF Closings
      <4>5. \A k \in i..j : S[k] \notin DOMAIN Payload
        BY <1>3, <4>1, <4>3
      <4> QED
        BY <3>2, <3>5, <4>4, <4>5
    <3> QED
      BY <3>4, <3>5
  <2>2. ASSUME NEW m \in Openings(w), i = n + m
        PROVE  IF S[i + 1] = APC THEN i + 3 <= Len(S) /\ S[i + 3] \in DOMAIN Payload
               ELSE \E j \in Closings(S, i) : \A k \in i..j : S[k] \notin DOMAIN Payload
    <3>1. m \in 1..(Len(w) - 1)
      BY DEF Openings
    <3>2. m + 1 \in 1..Len(w) /\ n + (m + 1) = i + 1
      BY <1>2, <2>2, <3>1
    <3>3. S[i + 1] = w[m + 1]
      BY <1>3, <3>2
    <3>4. IF w[m + 1] = APC THEN m + 3 <= Len(w) /\ w[m + 3] \in DOMAIN Payload
          ELSE \E j \in Closings(w, m) : \A k \in m..j : w[k] \notin DOMAIN Payload
      BY DEF Unbroken
    <3>5. CASE w[m + 1] = APC
      <4>1. m + 3 <= Len(w) /\ w[m + 3] \in DOMAIN Payload
        BY <3>4, <3>5
      <4>2. m + 3 \in 1..Len(w) /\ i + 3 <= Len(S) /\ n + (m + 3) = i + 3
        BY <1>2, <2>2, <3>1, <4>1
      <4>3. S[i + 3] = w[m + 3]
        BY <1>3, <4>2
      <4> QED
        BY <3>3, <3>5, <4>1, <4>2, <4>3
    <3>6. CASE w[m + 1] # APC
      <4>1. PICK j \in Closings(w, m) : \A k \in m..j : w[k] \notin DOMAIN Payload
        BY <3>4, <3>6
      <4>2. j \in (m + 3)..(Len(w) - 1) /\ w[j] = ESC /\ w[j + 1] = ST
        BY DEF Closings
      <4>3. /\ n + j \in (i + 3)..(Len(S) - 1) /\ j \in 1..Len(w) /\ j + 1 \in 1..Len(w)
            /\ n + (j + 1) = (n + j) + 1
            /\ \A k \in i..(n + j) : k - n \in 1..Len(w) /\ k - n \in m..j /\ n + (k - n) = k
        BY <1>2, <2>2, <3>1, <4>2
      <4>4. n + j \in Closings(S, i)
        BY <1>3, <4>2, <4>3 DEF Closings
      <4>5. ASSUME NEW k \in i..(n + j) PROVE S[k] \notin DOMAIN Payload
        <5>1. k - n \in 1..Len(w) /\ k - n \in m..j /\ n + (k - n) = k
          BY <4>3
        <5>2. S[n + (k - n)] = w[k - n]
          BY <1>3, <5>1
        <5> QED
          BY <4>1, <5>1, <5>2
      <4> QED
        BY <3>3, <3>6, <4>4, <4>5
    <3> QED
      BY <3>5, <3>6
  <2> QED
    BY <1>9, <2>1, <2>2
<1>11. /\ Len(S) > 0 => S[Len(S)] # ESC
       /\ Len(S) > 1 => ~(S[Len(S) - 1] = ESC /\ S[Len(S)] = APC)
  <2>1. CASE Len(w) = 0
    <3>1. Len(S) = n /\ (n > 0 => n \in 1..n) /\ (n > 1 => n - 1 \in 1..n)
      BY <1>2, <2>1
    <3>2. (n > 0 => S[n] = v[n]) /\ (n > 1 => S[n - 1] = v[n - 1])
      BY <1>3, <3>1
    <3> QED
      BY <1>8, <3>1, <3>2
  <2>2. CASE Len(w) = 1
    <3>1. Len(S) = n + 1 /\ 1 \in 1..Len(w) /\ (n + 1 > 1 => n \in 1..n) /\ (n + 1) - 1 = n
      BY <1>2, <2>2
    <3>2. S[n + 1] = w[1] /\ w[1] # ESC
      BY <1>3, <1>8, <2>2, <3>1
    <3>3. n > 0 => S[n] # ESC
      BY <1>2, <1>3, <1>8
    <3>4. Len(S) > 1 => S[Len(S) - 1] = S[n] /\ n > 0
      BY <1>2, <3>1
    <3> QED
      BY <3>1, <3>2, <3>3, <3>4
  <2>3. CASE ~(Len(w) = 0) /\ ~(Len(w) = 1)
    <3>0. Len(w) > 1
      <4>1. \A m \in Nat : m = 0 \/ m = 1 \/ m > 1
        OBVIOUS
      <4>2. Len(w) \in Nat
        BY <1>2
      <4> QED
        BY <2>3, <4>1, <4>2
    <3>1. /\ Len(w) \in 1..Len(w) /\ Len(w) - 1 \in 1..Len(w)
          /\ n + Len(w) = Len(S) /\ n + (Len(w) - 1) = Len(S) - 1
      BY <1>2, <3>0
    <3>2. S[n + Len(w)] = w[Len(w)] /\ S[n + (Len(w) - 1)] = w[Len(w) - 1]
      BY <1>3, <3>1
    <3> QED
      BY <1>8, <3>0, <3>1, <3>2
  <2> QED
    BY <2>1, <2>2, <2>3, Zenon
<1> QED
  BY <1>7, <1>10, <1>11 DEF Unbroken, S

\* So is what is made of pieces.
LEMMA PiecesAreUnbroken ==
    ASSUME NEW n \in Nat \ {0}, NEW pieces \in [1..n -> Piece]
    PROVE  Unbroken(FlattenSeq(pieces))
<1>1. /\ pieces \in [1..n -> Seq(Token)] /\ Len(pieces) = n /\ n - 1 \in Nat
      /\ \A i \in 1..n : pieces[i] \in Seq(Token) /\ Unbroken(pieces[i])
  BY StreamAssumption, PieceAssumption
<1>2. PICK F : Flattens(Token, pieces, F) /\ FlattenSeq(pieces) = F[n]
  BY <1>1, FlattenedIs
<1>3. F \in [1..n -> Seq(Token)] /\ F[1] = pieces[1] /\ \A i \in 2..n : F[i] = F[i - 1] \o pieces[i]
  BY <1>1, <1>2 DEF Flattens
<1> DEFINE Z == {i \in 0..(n - 1) : Unbroken(F[i + 1])}
<1>4. 0 \in Z
  BY <1>1, <1>3
<1>5. ASSUME NEW i \in 1..(n - 1), i - 1 \in Z
      PROVE  i \in Z
  <2>1. (i - 1) + 1 = i /\ i \in 1..n /\ i + 1 \in 2..n /\ (i + 1) - 1 = i /\ i + 1 \in 1..n /\ i \in 0..(n - 1)
    BY <1>1
  <2>2. F[i] \in Seq(Token) /\ Unbroken(F[i]) /\ pieces[i + 1] \in Seq(Token) /\ Unbroken(pieces[i + 1])
    BY <1>1, <1>3, <1>5, <2>1
  <2>3. F[i + 1] = F[i] \o pieces[i + 1]
    BY <1>3, <2>1
  <2>4. Unbroken(F[i + 1])
    BY <2>2, <2>3, UnbrokenConcat
  <2> QED
    BY <2>1, <2>4
<1>6. n - 1 \in Z
  <2>1. 0..(n - 1) \subseteq Z
    <3> HIDE DEF Z
    <3> QED
      BY <1>1, <1>4, <1>5, UpTo
  <2> HIDE DEF Z
  <2> QED
    BY <1>1, <2>1
<1>7. (n - 1) + 1 = n
  BY <1>1
<1> QED
  BY <1>2, <1>6, <1>7

\* A new compositor has read nothing.
LEMMA NewHasReadNothing ==
    ASSUME NEW S \in Seq(Token), NEW E, Runs(S, E)
    PROVE  /\ NewComposer \in Composers /\ NewComposer.out = <<>> /\ NewComposer.issues = {}
           /\ Turn(S, E, 0, <<>>, {}, NewComposer, 0, 0)
<1>1. <<>> \in Seq(Token) /\ <<>> \in Seq(Frames) /\ <<>> \in Seq(DOMAIN Payload) /\ Len(<<>>) = 0
  BY EmptySeq
<1>2. NoParts \in PartsOfImages
  BY <1>1 DEF NoParts, PartsOfImages, Ids
<1>3. NewComposer \in Composers
  BY <1>1, <1>2 DEF NewComposer, Composers
<1>4. /\ NewComposer.pending = <<>> /\ NewComposer.parts = NoParts /\ NewComposer.seen = 0
      /\ NewComposer.out = <<>> /\ NewComposer.issues = {}
  BY DEF NewComposer
<1>5. /\ E[0].at = 0 /\ E[0].parts = NoParts /\ E[0].seen = 0 /\ E[0].out = <<>> /\ E[0].issues = {}
  BY DEF Runs, Begun
<1>6. Window(S, 0, 0) = <<>>
  <2>1. 0 \in 0..Len(S) /\ 0 \in 0..0
    OBVIOUS
  <2>2. Window(S, 0, 0) \in Seq(Token) /\ Len(Window(S, 0, 0)) = 0
    <3>1. 0 \in 0..Len(S) /\ Len(S) \in Nat
      OBVIOUS
    <3> QED
      BY <3>1, WindowIs
  <2> QED
    BY <2>2
<1>7. <<>> \o <<>> = <<>>
  OBVIOUS
<1>8. Like(NewComposer, <<>>, {}, E[0])
  BY <1>4, <1>5, <1>7 DEF Like
<1> QED
  BY <1>3, <1>4, <1>5, <1>6, <1>8 DEF Turn

\* A read moves the place up to which the text was read, in a text that stays as it is.
LEMMA ReadMoves ==
    ASSUME NEW v \in Seq(Token), NEW w \in Seq(Token), NEW n \in 0..Len(w)
    PROVE  /\ SubSeq(w, 1, n) = Window(v \o w, Len(v), Len(v) + n)
           /\ (v \o SubSeq(w, 1, n)) \o SubSeq(w, n + 1, Len(w)) = v \o w
           /\ Len(v \o SubSeq(w, 1, n)) = Len(v) + n /\ Len(v) + n \in Len(v)..Len(v \o w)
<1> DEFINE S == v \o w
           data == SubSeq(w, 1, n)
           behind == SubSeq(w, n + 1, Len(w))
           r == Len(v)
<1>1. \A y, z \in Seq(Token) :
          /\ y \o z \in Seq(Token) /\ Len(y \o z) = Len(y) + Len(z)
          /\ \A i \in 1..Len(y \o z) : (y \o z)[i] = IF i <= Len(y) THEN y[i] ELSE z[i - Len(y)]
  BY ConcatProperties
<1>2. /\ r \in Nat /\ Len(w) \in Nat /\ n \in Nat /\ n <= Len(w) /\ S \in Seq(Token) /\ Len(S) = r + Len(w)
      /\ \A i \in 1..Len(w) : S[r + i] = w[i]
  <2>1. S \in Seq(Token) /\ Len(S) = r + Len(w) /\ r \in Nat /\ Len(w) \in Nat /\ n \in Nat /\ n <= Len(w)
    BY <1>1
  <2>2. \A i \in 1..Len(S) : S[i] = IF i <= r THEN v[i] ELSE w[i - r]
    BY <1>1
  <2> HIDE DEF S, r
  <2>3. \A i \in 1..Len(w) : r + i \in 1..Len(S) /\ ~(r + i <= r) /\ (r + i) - r = i
    BY <2>1
  <2> QED
    BY <2>1, <2>2, <2>3
<1>3. /\ data \in Seq(Token) /\ Len(data) = n /\ \A i \in 1..n : data[i] = w[i]
  <2>1. \A i \in 1..n : w[i] \in Token
    BY <1>2
  <2>2. data \in Seq(Token) /\ Len(data) = (IF 1 <= n THEN n - 1 + 1 ELSE 0)
        /\ \A i \in 1..(n - 1 + 1) : data[i] = w[1 + i - 1]
    BY <1>2, <2>1, SubSeqProperties
  <2>3. n - 1 + 1 = n /\ \A i \in 1..n : 1 + i - 1 = i
    BY <1>2
  <2> QED
    BY <1>2, <2>2, <2>3
<1>4. behind \in Seq(Token) /\ data \o behind = w
  <2>1. \A i \in (n + 1)..Len(w) : w[i] \in Token
    BY <1>2
  <2>2. n + 1 \in Nat /\ n + 1 >= 1
    BY <1>2
  <2>3. /\ behind \in Seq(Token) /\ Len(behind) = (IF n + 1 <= Len(w) THEN Len(w) - (n + 1) + 1 ELSE 0)
        /\ \A i \in 1..(Len(w) - (n + 1) + 1) : behind[i] = w[n + 1 + i - 1]
    BY <1>2, <2>1, <2>2, SubSeqProperties
  <2>4. Len(w) - (n + 1) + 1 = Len(w) - n /\ \A i \in 1..(Len(w) - n) : n + 1 + i - 1 = n + i
    BY <1>2
  <2> HIDE DEF data, behind, S, r
  <2>5. Len(behind) = Len(w) - n /\ \A i \in 1..(Len(w) - n) : behind[i] = w[n + i]
    <3>1. Len(w) \in Nat /\ n \in Nat /\ n <= Len(w)
      BY <1>2
    <3>2. (n + 1 <= Len(w) => Len(w) - (n + 1) + 1 = Len(w) - n) /\ (~(n + 1 <= Len(w)) => Len(w) - n = 0)
      BY <3>1
    <3>3. Len(behind) = Len(w) - n
      <4>1. Len(behind) = IF n + 1 <= Len(w) THEN Len(w) - (n + 1) + 1 ELSE 0
        BY <2>3
      <4> QED
        BY <3>2, <4>1
    <3>4. ASSUME NEW i \in 1..(Len(w) - n) PROVE behind[i] = w[n + i]
      <4>1. i \in 1..(Len(w) - (n + 1) + 1) /\ n + 1 + i - 1 = n + i
        BY <2>4
      <4>2. behind[i] = w[n + 1 + i - 1]
        BY <2>3, <4>1
      <4> QED
        BY <4>1, <4>2
    <3> QED
      BY <3>3, <3>4
  <2>6. /\ data \o behind \in Seq(Token) /\ Len(data \o behind) = n + (Len(w) - n)
        /\ \A i \in 1..Len(data \o behind) :
               (data \o behind)[i] = IF i <= n THEN data[i] ELSE behind[i - n]
    BY <1>1, <1>3, <2>3, <2>5
  <2>7. Len(data \o behind) = Len(w)
    BY <1>2, <2>6
  <2>8. ASSUME NEW i \in 1..Len(w) PROVE (data \o behind)[i] = w[i]
    <3>1. CASE i <= n
      <4>1. i \in 1..n
        BY <1>2, <3>1
      <4> QED
        BY <1>3, <2>6, <2>7, <3>1, <4>1
    <3>2. CASE ~(i <= n)
      <4>1. i - n \in 1..(Len(w) - n) /\ n + (i - n) = i
        BY <1>2, <3>2
      <4> QED
        BY <2>5, <2>6, <2>7, <3>2, <4>1
    <3> QED
      BY <3>1, <3>2
  <2> QED
    BY <2>3, <2>6, <2>7, <2>8, SeqEqual
<1>5. (v \o data) \o behind = S
  <2> HIDE DEF data, behind
  <2>1. Regroups(v, data, behind)
    BY <1>3, <1>4, Regrouped
  <2> QED
    BY <1>4, <2>1 DEF Regroups
<1>6. Len(v \o data) = r + n /\ r + n \in r..Len(S)
  <2> HIDE DEF data
  <2>1. Len(v \o data) = r + n
    BY <1>1, <1>3
  <2> QED
    BY <1>2, <2>1
<1>7. data = Window(S, r, r + n)
  <2> HIDE DEF S, r, data
  <2>1. S \in Seq(Token) /\ r \in 0..Len(S) /\ r + n \in r..Len(S) /\ (r + n) - r = n
    BY <1>2, <1>6
  <2>2. /\ Window(S, r, r + n) \in Seq(Token) /\ Len(Window(S, r, r + n)) = n
        /\ \A i \in 1..n : Window(S, r, r + n)[i] = S[r + i]
    <3> DEFINE t == r + n
    <3>1. S \in Seq(Token) /\ r \in 0..Len(S) /\ t \in r..Len(S) /\ t - r = n
      BY <2>1
    <3> HIDE DEF t
    <3>2. /\ Window(S, r, t) \in Seq(Token) /\ Len(Window(S, r, t)) = t - r
          /\ \A i \in 1..(t - r) : Window(S, r, t)[i] = S[r + i]
      BY <3>1, WindowIs
    <3>3. /\ Window(S, r, t) \in Seq(Token) /\ Len(Window(S, r, t)) = n
          /\ \A i \in 1..n : Window(S, r, t)[i] = S[r + i]
      BY <3>1, <3>2, Zenon
    <3> QED
      BY <3>3 DEF t
  <2>3. ASSUME NEW i \in 1..n PROVE S[r + i] = w[i]
    <3>1. n \in Nat /\ Len(w) \in Nat /\ n <= Len(w)
      BY <1>2
    <3>2. i \in 1..Len(w)
      BY <3>1
    <3> QED
      BY <1>2, <3>2
  <2> DEFINE u == Window(S, r, r + n)
  <2> HIDE DEF u
  <2>4. u \in Seq(Token) /\ Len(u) = n /\ data \in Seq(Token) /\ Len(data) = n
    BY <1>3, <2>2 DEF u
  <2>5. \A i \in 1..n : data[i] = u[i]
    BY <1>3, <2>2, <2>3 DEF u
  <2>6. data = u
    BY <2>4, <2>5, SeqEqual
  <2> QED
    BY <2>6 DEF u
<1> QED
  BY <1>5, <1>6, <1>7

\* The compositor has read what was fed of a text that cuts no sequence, and nothing of it is
\* complete and not read.
CompositorInv ==
    /\ frames \in Seq(Frames) /\ issues \in SUBSET Problems
    /\ composer \in Composers /\ composer.out = <<>> /\ composer.issues = {}
    /\ Unbroken(fed \o left)
    /\ \E E : /\ Runs(fed \o left, E)
              /\ \E q \in 0..Len(fed) :
                     Turn(fed \o left, E, Len(fed), frames, issues, composer, q, Len(fed))

LEMMA CompositorStarts ==
    ASSUME StreamInit, StreamInv
    PROVE  CompositorInv
<1>1. /\ fed = <<>> /\ left \in Seq(Token) /\ frames = <<>> /\ issues = {} /\ composer = NewComposer
      /\ Len(fed) = 0
  BY DEF StreamInit, StreamInv
<1>2. fed \o left = left
  BY <1>1, ConcatEmptySeq
<1>3. PICK E : Runs(left, E)
  BY <1>1, RunExists
<1>4. /\ composer \in Composers /\ composer.out = <<>> /\ composer.issues = {}
      /\ Turn(left, E, 0, frames, issues, composer, 0, 0)
  BY <1>1, <1>3, NewHasReadNothing
<1>5. Unbroken(left)
  <2>1. PICK n \in 1..MaxPieces : \E pieces \in [1..n -> Piece] : left = FlattenSeq(pieces)
    BY DEF StreamInit
  <2>2. n \in Nat \ {0}
    BY StreamAssumption
  <2> QED
    BY <2>1, <2>2, PiecesAreUnbroken
<1>6. \E q \in 0..Len(fed) : Turn(fed \o left, E, Len(fed), frames, issues, composer, q, Len(fed))
  <2>1. 0 \in 0..Len(fed)
    BY <1>1
  <2> QED
    BY <1>1, <1>2, <1>4, <2>1
<1>7. frames \in Seq(Frames) /\ issues \in SUBSET Problems
  BY <1>1, EmptySeq
<1> QED
  BY <1>2, <1>3, <1>4, <1>5, <1>6, <1>7 DEF CompositorInv

LEMMA CompositorKeeps ==
    ASSUME StreamInv, CompositorInv, [StreamNext]_streamVars
    PROVE  CompositorInv'
<1>1. ASSUME NEW n \in 0..Len(left), NEW final, EmitTerminal(n, final)
      PROVE  CompositorInv'
  <2> DEFINE S == fed \o left
             r == Len(fed)
             t == r + n
             data == SubSeq(left, 1, n)
             d == Feed(composer, data)
  <2>1. fed \in Seq(Token) /\ left \in Seq(Token)
    BY DEF StreamInv
  <2>2. /\ fed' = fed \o data /\ left' = SubSeq(left, n + 1, Len(left))
        /\ composer' = [d EXCEPT !.out = <<>>, !.issues = {}]
        /\ frames' = frames \o d.out /\ issues' = issues \cup d.issues
    BY <1>1 DEF EmitTerminal
  <2>3. /\ data = Window(S, r, t) /\ fed' \o left' = S /\ Len(fed') = t /\ t \in r..Len(S)
    BY <2>1, <2>2, ReadMoves
  <2>4. S \in Seq(Token) /\ r \in 0..Len(S)
    <3>1. S \in Seq(Token) /\ Len(S) \in Nat /\ r \in Nat
      BY <2>1, ConcatProperties
    <3> HIDE DEF S, r, t
    <3>2. r <= t /\ t <= Len(S) /\ t \in Int
      BY <2>3, <3>1
    <3> QED
      BY <3>1, <3>2
  <2>5. /\ frames \in Seq(Frames) /\ issues \in SUBSET Problems
        /\ composer \in Composers /\ composer.out = <<>> /\ Unbroken(S)
    BY DEF CompositorInv
  <2>6. PICK E : /\ Runs(S, E)
                 /\ \E q \in 0..r : Turn(S, E, r, frames, issues, composer, q, r)
    BY DEF CompositorInv
  <2>7. PICK q \in 0..r : Turn(S, E, r, frames, issues, composer, q, r)
    BY <2>6
  <2> HIDE DEF S, r, t, data, d
  <2>8. d \in Composers /\ \E p \in 0..t : Turn(S, E, t, frames, issues, d, p, t)
    BY <2>3, <2>4, <2>5, <2>6, <2>7, FeedReads DEF d
  <2>9. PICK p \in 0..t : Turn(S, E, t, frames, issues, d, p, t)
    BY <2>8
  <2>10. /\ composer' \in Composers /\ composer'.pending = d.pending /\ composer'.parts = d.parts
         /\ composer'.seen = d.seen /\ composer'.out = <<>> /\ composer'.issues = {}
    BY <2>2, <2>8, EmptySeq DEF Composers
  <2>11. d.out \in Seq(Frames) /\ d.issues \in SUBSET Problems
    BY <2>8 DEF Composers
  <2>12. frames' \in Seq(Frames) /\ issues' \in SUBSET Problems
    BY <2>2, <2>5, <2>11, ConcatProperties
  <2>13. frames' \o <<>> = frames' /\ issues' \cup {} = issues'
    BY <2>12, ConcatEmptySeq
  <2>14. /\ d.pending = Window(S, p, t) /\ E[t].at <= p /\ Ahead(S, p) = Ahead(S, E[t].at)
         /\ d.parts = E[t].parts /\ d.seen = E[t].seen
         /\ E[t].out = frames \o d.out /\ E[t].issues = issues \cup d.issues
    BY <2>9 DEF Turn, Like
  <2>15. Turn(S, E, t, frames', issues', composer', p, t)
    BY <2>2, <2>10, <2>13, <2>14 DEF Turn, Like
  <2>16. \E q2 \in 0..Len(fed') : Turn(fed' \o left', E, Len(fed'), frames', issues', composer', q2, Len(fed'))
    BY <2>3, <2>15
  <2> QED
    BY <2>3, <2>5, <2>6, <2>10, <2>12, <2>16 DEF CompositorInv
<1>2. CASE UNCHANGED streamVars
  BY <1>2 DEF CompositorInv, streamVars
<1>3. CASE left = <<>> /\ EmitTerminal(0, TRUE)
  <2>1. 0 \in 0..Len(left)
    BY DEF StreamInv
  <2> QED
    BY <1>1, <1>3, <2>1
<1>4. ASSUME NEW n \in 1..Len(left), EmitTerminal(n, FALSE) PROVE CompositorInv'
  <2>1. n \in 0..Len(left)
    BY DEF StreamInv
  <2> QED
    BY <1>1, <1>4, <2>1
<1> QED
  BY <1>2, <1>3, <1>4 DEF StreamNext

\* What was sent of a text is not changed by what follows it.
LEMMA SentBefore ==
    ASSUME NEW v \in Seq(Token), NEW w \in Seq(Token), NEW id
    PROVE  Sent(v \o w, Len(v), id) = Sent(v, Len(v), id)
<1> DEFINE S == v \o w
           n == Len(v)
<1>1. \A y, z \in Seq(Token) :
          /\ y \o z \in Seq(Token) /\ Len(y \o z) = Len(y) + Len(z)
          /\ \A i \in 1..Len(y \o z) : (y \o z)[i] = IF i <= Len(y) THEN y[i] ELSE z[i - Len(y)]
  BY ConcatProperties
<1>2. S \in Seq(Token) /\ Len(S) = n + Len(w) /\ n \in Nat /\ Len(w) \in Nat
      /\ \A i \in 1..Len(S) : S[i] = IF i <= n THEN v[i] ELSE w[i - n]
  BY <1>1
<1> HIDE DEF S
<1>3. PICK F : Sends(S, id, F)
  BY <1>2, SendsExist
<1> DEFINE G == [i \in 0..n |-> F[i]]
<1>4. Sends(v, id, G)
  <2>1. n \in 0..Len(S) /\ \A i \in 0..n : i \in 0..Len(S)
    BY <1>2
  <2>2. \A i \in 1..n : i \in 0..n /\ i - 1 \in 0..n /\ i \in 1..Len(S) /\ i <= n
    BY <1>2
  <2>3. G \in [0..n -> Seq(DOMAIN Payload)] /\ \A i \in 0..n : G[i] = F[i]
    BY <1>3, <2>1 DEF Sends
  <2> HIDE DEF G
  <2>4. G[0] = <<>>
    BY <1>2, <1>3, <2>3 DEF Sends
  <2>5. ASSUME NEW i \in 1..n
        PROVE  G[i] = IF v[i] \in DOMAIN Payload /\ Payload[v[i]].id = id THEN Append(G[i - 1], v[i])
                      ELSE G[i - 1]
    <3>1. S[i] = v[i]
      BY <1>2, <2>2
    <3>2. F[i] = IF S[i] \in DOMAIN Payload /\ Payload[S[i]].id = id THEN Append(F[i - 1], S[i]) ELSE F[i - 1]
      BY <1>3, <2>2 DEF Sends
    <3>3. G[i] = F[i] /\ G[i - 1] = F[i - 1]
      BY <2>2, <2>3
    <3> QED
      BY <3>1, <3>2, <3>3
  <2> QED
    BY <2>3, <2>4, <2>5 DEF Sends
<1>5. Sent(v, n, id) = G[n]
  <2>1. n \in 0..Len(v)
    BY <1>2
  <2> HIDE DEF G
  <2> QED
    BY <1>4, <2>1, SentIs
<1>6. Sent(S, n, id) = F[n]
  <2>1. n \in 0..Len(S)
    BY <1>2
  <2> HIDE DEF n
  <2> QED
    BY <1>2, <1>3, <2>1, SentIs
<1>7. G[n] = F[n]
  BY <1>2
<1> QED
  BY <1>5, <1>6, <1>7 DEF S

\* What is read of all that was fed at once is what has been read of it.
LEMMA CompositorReads ==
    ASSUME StreamInv, CompositorInv
    PROVE  FramesIgnoreTheCuts /\ ImagesAreWhole
<1> DEFINE S == fed \o left
           t == Len(fed)
           d == Feed(NewComposer, fed)
<1>1. fed \in Seq(Token) /\ left \in Seq(Token) /\ frames \in Seq(Frames) /\ Unbroken(S)
      /\ composer.out = <<>> /\ composer.issues = {}
  BY DEF StreamInv, CompositorInv
<1>2. S \in Seq(Token) /\ t \in 0..Len(S) /\ 0 \in 0..Len(S) /\ t \in Nat /\ 0 \in 0..0
  <2>1. S \in Seq(Token) /\ Len(S) = t + Len(left) /\ t \in Nat /\ Len(left) \in Nat
    BY <1>1, ConcatProperties
  <2> HIDE DEF S, t
  <2> QED
    BY <2>1
<1>3. PICK E : Runs(S, E) /\ \E q \in 0..t : Turn(S, E, t, frames, issues, composer, q, t)
  BY DEF CompositorInv
<1>4. E[t].out = frames \o <<>> /\ E[t].issues = issues \cup {}
  BY <1>1, <1>3 DEF Turn, Like
<1>5. E[t].out = frames /\ E[t].issues = issues
  BY <1>1, <1>4, ConcatEmptySeq
<1>6. fed = Window(S, 0, t)
  <2>1. /\ Window(S, 0, t) \in Seq(Token) /\ Len(Window(S, 0, t)) = t - 0
        /\ \A i \in 1..(t - 0) : Window(S, 0, t)[i] = S[0 + i]
    <3> HIDE DEF S, t
    <3>1. t \in 0..Len(S)
      BY <1>2
    <3> QED
      BY <1>2, <3>1, WindowIs
  <2>2. t - 0 = t /\ \A i \in 1..t : 0 + i = i
    BY <1>2
  <2>3. \A i \in 1..t : S[i] = fed[i]
    <3>1. \A i \in 1..Len(fed \o left) : (fed \o left)[i] = IF i <= Len(fed) THEN fed[i] ELSE left[i - Len(fed)]
      BY <1>1, ConcatProperties
    <3>2. \A i \in 1..t : i \in 1..Len(S) /\ i <= t
      BY <1>2
    <3> QED
      BY <3>1, <3>2
  <2> HIDE DEF S
  <2>4. /\ Len(Window(S, 0, t)) = Len(fed) /\ \A i \in 1..Len(fed) : Window(S, 0, t)[i] = fed[i]
    BY <2>1, <2>2, <2>3
  <2> QED
    BY <1>1, <2>1, <2>4, SeqEqual
<1>7. /\ NewComposer \in Composers /\ NewComposer.out = <<>>
      /\ Turn(S, E, 0, <<>>, {}, NewComposer, 0, 0)
  BY <1>2, <1>3, NewHasReadNothing
<1>8. d \in Composers /\ \E p \in 0..t : Turn(S, E, t, <<>>, {}, d, p, t)
  <2> HIDE DEF S, t
  <2>1. <<>> \in Seq(Frames) /\ {} \in SUBSET Problems /\ t \in 0..Len(S)
    BY <1>2, EmptySeq
  <2> QED
    BY <1>2, <1>3, <1>6, <1>7, <2>1, FeedReads DEF d
<1>9. E[t].out = <<>> \o d.out
  BY <1>8 DEF Turn, Like
<1>10. FramesIgnoreTheCuts
  <2>1. d.out \in Seq(Frames)
    BY <1>8 DEF Composers
  <2>2. <<>> \o d.out = d.out
    BY <2>1, ConcatEmptySeq
  <2> QED
    BY <1>5, <1>9, <2>2 DEF FramesIgnoreTheCuts, d
<1>11. ASSUME issues \subseteq {"sixel"}, NEW i \in 1..Len(frames), frames[i][1] # "sixel"
       PROVE  frames[i][2] # <<>> /\ IsWhole(frames[i][2], Sent(fed, Len(fed), frames[i][1]))
  <2>1. ~Refused(E[t].issues)
    BY <1>5, <1>11 DEF Refused
  <2>2. ImagesAre(S, E[t]) /\ E[t].at \in 0..t
    <3> HIDE DEF S, t
    <3> QED
      BY <1>1, <1>2, <1>3, RunKeepsImages, RunSettles
  <2>3. FramesAre(S, E[t].at, frames)
    BY <1>5, <2>1, <2>2 DEF ImagesAre
  <2>4. FramesAre(S, t, frames)
    <3> HIDE DEF S, t
    <3>1. E[t].at \in 0..Len(S) /\ t \in E[t].at..Len(S)
      BY <1>2, <2>2
    <3> QED
      BY <1>2, <2>3, <3>1, FramesStay
  <2>5. frames[i][2] # <<>> /\ IsWhole(frames[i][2], Sent(S, t, frames[i][1]))
    BY <1>11, <2>4 DEF FramesAre, FrameIs
  <2> QED
    BY <1>1, <2>5, SentBefore
<1> QED
  BY <1>10, <1>11 DEF ImagesAreWhole

\* The compositor has read what the child wrote, up to where it was fed.
THEOREM CompositorInvariant == StreamSpec => []CompositorInv
<1>1. StreamInit => CompositorInv
  BY StreamStarts, CompositorStarts
<1>2. StreamInv /\ CompositorInv /\ [StreamNext]_streamVars => CompositorInv'
  BY CompositorKeeps
<1> QED
  BY <1>1, <1>2, StreamInvariant, PTL DEF StreamSpec

\* The frames that came out are those that one read of everything would give, and until a payload
\* is refused each of them has all parts of its image, in the order in which they were sent.
THEOREM FramesNeverBreak == StreamSpec => []FramesAreWhole
<1>1. StreamInv /\ CompositorInv => FramesAreWhole
  BY CompositorReads DEF FramesAreWhole
<1> QED
  BY <1>1, StreamInvariant, CompositorInvariant, PTL

------------------------------------------------------------------------------
(***************************************************************************)
(* The polymino control, for boards of any size, any pieces that fit and   *)
(* any bag: no full row is left behind, only a run that is over has a      *)
(* piece that collides, and no piece of the seed is lost or comes twice.   *)
(*                                                                         *)
(* Lines are cleared in as many passes as there are rows: a pass that      *)
(* finds a full row leaves one more row at the top empty (PassEmpties), so *)
(* after the last no row is full or there is nothing left.  What was drawn *)
(* and the queue are what the seed's shuffles have given (Follows): a draw *)
(* puts one more shuffle behind both, and a piece that enters goes from    *)
(* the front of the one to the end of the other.  Before it enters, the    *)
(* pieces drawn are those locked and held (Placed), and after, those       *)
(* locked, held and falling (Counted).  A refused snapshot disturbs the    *)
(* first and lets pieces collide, never the count or the rows; a snapshot  *)
(* holds a game of which the same is true.                                 *)
(***************************************************************************)

\* The least and the greatest of numbers between two.
LEMMA MinMaxAre ==
    ASSUME NEW lo \in Int, NEW hi \in Int, NEW S, S # {}, \A x \in S : x \in lo..hi
    PROVE  /\ Min(S) \in S /\ \A x \in S : Min(S) <= x
           /\ Max(S) \in S /\ \A x \in S : x <= Max(S)
<1>1. Min(S) \in S /\ \A x \in S : Min(S) <= x
  <2> DEFINE T == {n \in Nat : n + lo \in S}
  <2>1. T \in SUBSET Nat
    OBVIOUS
  <2>2. \A x \in S : x - lo \in T
    OBVIOUS
  <2>3. T # {}
    BY <2>2
  <2>4. PICK n \in T : \A m \in T : n <= m
    BY <2>1, <2>3, LeastNatural
  <2>5. n + lo \in S /\ \A x \in S : n + lo <= x
    BY <2>2, <2>4
  <2> QED
    BY <2>5 DEF Min
<1>2. Max(S) \in S /\ \A x \in S : x <= Max(S)
  <2> DEFINE T == {n \in Nat : hi - n \in S}
  <2>1. T \in SUBSET Nat
    OBVIOUS
  <2>2. ASSUME NEW x \in S PROVE hi - x \in T
    <3>1. hi - x \in Nat /\ hi - (hi - x) = x
      OBVIOUS
    <3> QED
      BY <3>1
  <2>3. T # {}
    BY <2>2
  <2>4. PICK n \in T : \A m \in T : n <= m
    BY <2>1, <2>3, LeastNatural
  <2>5. hi - n \in S /\ \A x \in S : hi - n >= x
    BY <2>2, <2>4
  <2> QED
    BY <2>5 DEF Max
<1> QED
  BY <1>1, <1>2

\* A box that holds every piece in every turn.
Extent == Cols + Rows
Boxed(cells) == cells # {} /\ \A c \in cells : c \in (0..Extent) \X (0..Extent)

\* The cells of a piece moved to the corner.
LEMMA Normalized ==
    ASSUME NEW cells, NEW lo \in Int, NEW hi \in Int, cells # {},
           \A c \in cells : c \in (lo..hi) \X (0..Extent),
           \A c, d \in cells : c[1] - d[1] <= Extent
    PROVE  /\ Boxed(Normalize(cells))
           /\ \A e \in Normalize(cells) : \E c \in cells : e[1] <= c[1] - lo /\ e[2] <= c[2]
<1> DEFINE X == {c[1] : c \in cells}
           Y == {c[2] : c \in cells}
<1>0. Extent \in Nat
  BY PolyminoAssumption DEF Extent
<1>1. \A c \in cells : c[1] \in lo..hi /\ c[2] \in 0..Extent /\ c[1] \in X /\ c[2] \in Y
  OBVIOUS
<1>2. X # {} /\ Y # {} /\ (\A x \in X : x \in lo..hi) /\ (\A y \in Y : y \in 0..Extent)
  BY <1>1
<1>3. Min(X) \in X /\ \A x \in X : Min(X) <= x
  BY <1>2, MinMaxAre
<1>4. Min(Y) \in Y /\ \A y \in Y : Min(Y) <= y
  <2>1. 0 \in Int /\ Extent \in Int
    BY <1>0
  <2> HIDE DEF Y
  <2> QED
    BY <1>2, <2>1, MinMaxAre
<1>5. PICK a \in cells : a[1] = Min(X)
  BY <1>3
<1> DEFINE x == Min(X)
           y == Min(Y)
<1>6. Normalize(cells) = {<<c[1] - x, c[2] - y>> : c \in cells}
  BY DEF Normalize
<1>7. x \in lo..hi /\ y \in 0..Extent
  BY <1>2, <1>3, <1>4
<1>8. ASSUME NEW c \in cells
      PROVE  c[1] - x \in 0..Extent /\ c[2] - y \in 0..Extent /\ c[1] - x <= c[1] - lo /\ c[2] - y <= c[2]
  <2>1. c[1] - a[1] <= Extent /\ x <= c[1] /\ y <= c[2] /\ a[1] = x
    BY <1>1, <1>3, <1>4, <1>5
  <2>2. c[1] \in lo..hi /\ c[2] \in 0..Extent /\ x \in lo..hi /\ y \in 0..Extent
    BY <1>1, <1>7
  <2> HIDE DEF x, y
  <2>3. c[1] - x <= Extent
    BY <2>1
  <2> QED
    BY <1>0, <2>1, <2>2, <2>3
<1> HIDE DEF x, y
<1>9. \A e \in Normalize(cells) : /\ e \in (0..Extent) \X (0..Extent)
                                  /\ \E c \in cells : e[1] <= c[1] - lo /\ e[2] <= c[2]
  <2> SUFFICES ASSUME NEW c \in cells, NEW e, e = <<c[1] - x, c[2] - y>>
               PROVE  /\ e \in (0..Extent) \X (0..Extent)
                      /\ e[1] <= c[1] - lo /\ e[2] <= c[2]
    BY <1>6
  <2> QED
    BY <1>8
<1>10. Normalize(cells) # {}
  BY <1>6
<1> QED
  BY <1>9, <1>10 DEF Boxed

\* How wide a piece is.
LEMMA WidthIs ==
    ASSUME NEW cells, Boxed(cells)
    PROVE  /\ Width(cells) \in 1..(Extent + 1) /\ \A c \in cells : c[1] < Width(cells)
           /\ \E c \in cells : Width(cells) = c[1] + 1
<1> DEFINE X == {c[1] : c \in cells}
<1>0. Extent \in Nat
  BY PolyminoAssumption DEF Extent
<1>1. \A c \in cells : c[1] \in 0..Extent /\ c[1] \in X
  BY DEF Boxed
<1>2. X # {} /\ \A x \in X : x \in 0..Extent
  BY <1>1 DEF Boxed
<1>3. Max(X) \in X /\ \A x \in X : x <= Max(X)
  <2>1. 0 \in Int /\ Extent \in Int
    BY <1>0
  <2> HIDE DEF X
  <2> QED
    BY <1>2, <2>1, MinMaxAre
<1>4. Width(cells) = Max(X) + 1
  BY DEF Width
<1>5. PICK a \in cells : a[1] = Max(X)
  BY <1>3
<1>6. \A c \in cells : c[1] <= Max(X)
  BY <1>1, <1>3
<1> HIDE DEF X
<1>7. Max(X) \in 0..Extent
  BY <1>1, <1>5
<1> QED
  BY <1>0, <1>1, <1>4, <1>5, <1>6, <1>7

\* A piece that is turned stays in the box.
LEMMA RotatedIsBoxed ==
    ASSUME NEW cells, Boxed(cells)
    PROVE  Boxed(RotateCW(cells))
<1> DEFINE w == Width(cells)
           turned == {<<w - 1 - c[2], c[1]>> : c \in cells}
<1>0. Extent \in Nat
  BY PolyminoAssumption DEF Extent
<1>1. w \in 1..(Extent + 1)
  BY WidthIs
<1>2. RotateCW(cells) = Normalize(turned)
  BY DEF RotateCW
<1> HIDE DEF w
<1>3. \A c \in cells : c[1] \in 0..Extent /\ c[2] \in 0..Extent
  BY DEF Boxed
<1>4. turned # {}
  BY DEF Boxed
<1>5. \A t \in turned : \E c \in cells : t = <<w - 1 - c[2], c[1]>>
  OBVIOUS
<1>6. \A t \in turned : t \in ((0 - Extent)..Extent) \X (0..Extent)
  <2> SUFFICES ASSUME NEW c \in cells, NEW t, t = <<w - 1 - c[2], c[1]>>
               PROVE  t \in ((0 - Extent)..Extent) \X (0..Extent)
    BY <1>5
  <2>1. w - 1 - c[2] \in (0 - Extent)..Extent /\ c[1] \in 0..Extent
    BY <1>0, <1>1, <1>3
  <2> QED
    BY <2>1
<1>7. \A t, u \in turned : t[1] - u[1] <= Extent
  <2> SUFFICES ASSUME NEW c \in cells, NEW d \in cells,
                      NEW t, t = <<w - 1 - c[2], c[1]>>, NEW u, u = <<w - 1 - d[2], d[1]>>
               PROVE  t[1] - u[1] <= Extent
    BY <1>5
  <2>1. t[1] = w - 1 - c[2] /\ u[1] = w - 1 - d[2]
    OBVIOUS
  <2>2. (w - 1 - c[2]) - (w - 1 - d[2]) <= Extent
    BY <1>0, <1>1, <1>3
  <2> QED
    BY <2>1, <2>2
<1> HIDE DEF turned
<1>8. 0 - Extent \in Int /\ Extent \in Int
  BY <1>0
<1> QED
  BY <1>2, <1>4, <1>6, <1>7, <1>8, Normalized

\* The cells of a family as they enter.
LEMMA ShapeFits ==
    ASSUME NEW f \in Family
    PROVE  /\ Boxed(Shape[f]) /\ Boxed(Normalize(Shape[f])) /\ Width(Shape[f]) \in 1..Cols
           /\ \A e \in Normalize(Shape[f]) : e[1] < Width(Shape[f]) /\ e[2] <= Rows + 1
<1> DEFINE cells == Shape[f]
<1>0. Extent \in Nat /\ Cols \in Nat \ {0} /\ Rows \in Nat \ {0} /\ Extent = Cols + Rows
  BY PolyminoAssumption DEF Extent
<1>1. cells # {} /\ \A c \in cells : c \in (0..(Cols - 1)) \X (0..(Rows + 1))
  BY PolyminoAssumption DEF Family
<1>2. \A c \in cells : c[1] \in 0..(Cols - 1) /\ c[2] \in 0..(Rows + 1) /\ c = <<c[1], c[2]>>
  BY <1>1
<1>3. \A c \in cells : c[1] \in 0..Extent /\ c[2] \in 0..Extent
  BY <1>0, <1>2
<1>4. \A c \in cells : c \in (0..Extent) \X (0..Extent)
  BY <1>2, <1>3
<1> HIDE DEF cells
<1>5. Boxed(cells)
  BY <1>1, <1>4 DEF Boxed
<1>6. \A c, d \in cells : c[1] - d[1] <= Extent
  BY <1>0, <1>3
<1>7. /\ Boxed(Normalize(cells))
      /\ \A e \in Normalize(cells) : \E c \in cells : e[1] <= c[1] - 0 /\ e[2] <= c[2]
  <2>1. 0 \in Int /\ Extent \in Int
    BY <1>0
  <2> QED
    BY <1>1, <1>4, <1>6, <2>1, Normalized
<1>8. Width(cells) \in 1..(Extent + 1) /\ (\A c \in cells : c[1] < Width(cells))
      /\ \E c \in cells : Width(cells) = c[1] + 1
  BY <1>5, WidthIs
<1>9. Width(cells) \in 1..Cols
  BY <1>0, <1>2, <1>8
<1>10. ASSUME NEW e \in Normalize(cells) PROVE e[1] < Width(cells) /\ e[2] <= Rows + 1
  <2>1. PICK c \in cells : e[1] <= c[1] - 0 /\ e[2] <= c[2]
    BY <1>7
  <2>2. e[1] \in 0..Extent /\ e[2] \in 0..Extent
    BY <1>7 DEF Boxed
  <2> QED
    BY <1>0, <1>2, <1>8, <1>9, <2>1, <2>2
<1> QED
  BY <1>5, <1>7, <1>9, <1>10 DEF cells

\* Every orientation of a family, the first of which is how it enters.
Turned == {cells \in SUBSET ((0..Extent) \X (0..Extent)) : cells # {}}

LEMMA OrientationsAre ==
    ASSUME NEW f \in Family
    PROVE  /\ Orientations[f] = [i \in 0..3 |-> Orientations[f][i]]
           /\ \A i \in 0..3 : Boxed(Orientations[f][i])
           /\ Orientations[f][0] = Normalize(Shape[f])
<1> DEFINE a == Normalize(Shape[f])
           t[i \in 0..3] == IF i = 0 THEN Normalize(Shape[f]) ELSE RotateCW(t[i - 1])
           next == [z \in (1..3) \X Turned |-> RotateCW(z[2])]
<1>1. \A cells : Boxed(cells) <=> cells \in Turned
  BY DEF Boxed, Turned
<1>2. a \in Turned
  BY <1>1, ShapeFits
<1>3. \A i \in 1..3, cells \in Turned :
          next[<<i, cells>>] = RotateCW(cells) /\ next[<<i, cells>>] \in Turned
  BY <1>1, RotatedIsBoxed
<1>4. PICK g : Computes(3, Turned, a, next, g)
  <2> HIDE DEF a, next
  <2>1. Leads(3, Turned, next)
    BY <1>3 DEF Leads
  <2> QED
    BY <1>2, <2>1, ComputedUpTo
<1>5. g \in [0..3 -> Turned] /\ g[0] = a /\ \A i \in 1..3 : g[i] = RotateCW(g[i - 1])
  <2> HIDE DEF a, next
  <2>1. g \in [0..3 -> Turned] /\ g[0] = a /\ \A i \in 1..3 : g[i] = next[<<i, g[i - 1]>>]
    BY <1>4 DEF Computes
  <2>2. \A i \in 1..3 : g[i - 1] \in Turned
    BY <2>1
  <2> QED
    BY <1>3, <2>1, <2>2
<1>6. g = [i \in 0..3 |-> IF i = 0 THEN Normalize(Shape[f]) ELSE RotateCW(g[i - 1])]
  <2>1. \A i \in 0..3 : g[i] = IF i = 0 THEN Normalize(Shape[f]) ELSE RotateCW(g[i - 1])
    BY <1>5
  <2> QED
    BY <1>5, <2>1
<1>7. t = [i \in 0..3 |-> IF i = 0 THEN Normalize(Shape[f]) ELSE RotateCW(t[i - 1])]
  BY <1>6
<1>8. Orientations[f] = t
  BY DEF Orientations
<1> HIDE DEF t
<1>9. t[0] = a /\ t[1] = RotateCW(t[0]) /\ t[2] = RotateCW(t[1]) /\ t[3] = RotateCW(t[2])
  <2>1. 0 \in 0..3 /\ 1 \in 0..3 /\ 2 \in 0..3 /\ 3 \in 0..3 /\ 1 - 1 = 0 /\ 2 - 1 = 1 /\ 3 - 1 = 2
    OBVIOUS
  <2> QED
    BY <1>7, <2>1
<1>10. \A i \in 0..3 : Boxed(t[i])
  <2>1. Boxed(t[0]) /\ Boxed(t[1]) /\ Boxed(t[2]) /\ Boxed(t[3])
    BY <1>1, <1>2, <1>9, RotatedIsBoxed
  <2>2. \A i \in 0..3 : i = 0 \/ i = 1 \/ i = 2 \/ i = 3
    OBVIOUS
  <2> QED
    BY <2>1, <2>2
<1>11. t = [i \in 0..3 |-> t[i]]
  BY <1>7
<1> QED
  BY <1>8, <1>9, <1>10, <1>11

\* There are one to four of them.
LEMMA TurnsAre ==
    ASSUME NEW f \in Family
    PROVE  Turns[f] \in 1..4
<1> DEFINE o == Orientations[f]
           R == Range(o)
<1>1. o = [i \in 0..3 |-> o[i]] /\ DOMAIN o = 0..3
  BY OrientationsAre
<1>2. R = {o[i] : i \in 0..3}
  BY <1>1 DEF Range
<1>3. Turns[f] = Cardinality(R)
  BY DEF Turns
<1> HIDE DEF o, R
<1>4. IsFiniteSet(0..3) /\ Cardinality(0..3) = 4
  <2>1. ASSUME NEW n \in Nat PROVE IsFiniteSet(0..n) /\ Cardinality(0..n) = n + 1
    BY FS_Interval
  <2>2. 3 \in Nat /\ 3 + 1 = 4
    OBVIOUS
  <2> QED
    BY <2>1, <2>2
<1>5. o \in Surjection(0..3, R)
  BY <1>1, <1>2 DEF Surjection
<1>6. IsFiniteSet(R) /\ Cardinality(R) <= 4
  BY <1>4, <1>5, FS_Surjection
<1>7. o[0] \in R
  BY <1>2
<1>8. Cardinality(R) # 0 /\ Cardinality(R) \in Nat
  BY <1>6, <1>7, FS_CardinalityType, FS_EmptySet
<1> QED
  BY <1>3, <1>6, <1>8

------------------------------------------------------------------------------
\* A piece somewhere, and its cells.
Falling == [family : Family, x : Int, y : Int, turn : 0..3]

LEMMA CellsAre ==
    ASSUME NEW p \in Falling
    PROVE  \A c \in Cells(p) : c \in Int \X Int
<1>1. \A c \in Orientations[p.family][p.turn] : c[1] \in Int /\ c[2] \in Int
  <2>1. p.family \in Family /\ p.turn \in 0..3
    BY DEF Falling
  <2>2. Boxed(Orientations[p.family][p.turn])
    BY <2>1, OrientationsAre
  <2>3. \A c \in (0..Extent) \X (0..Extent) : c[1] \in Int /\ c[2] \in Int
    OBVIOUS
  <2> QED
    BY <2>2, <2>3 DEF Boxed
<1>2. \A c \in Cells(p) : \E d \in Orientations[p.family][p.turn] : c = <<d[1] + p.x, d[2] + p.y>>
  BY DEF Cells
<1> QED
  BY <1>1, <1>2 DEF Falling

\* A piece enters an empty board.
LEMMA SpawnedFits ==
    ASSUME NEW f \in Family
    PROVE  Spawned(f) \in Falling /\ ~Collides(Spawned(f), {})
<1> DEFINE w == Width(Shape[f])
           x == (Cols - w) \div 2
           p == Spawned(f)
<1>0. Cols \in Nat /\ Rows \in Nat
  BY PolyminoAssumption
<1>1. w \in 1..Cols /\ \A e \in Normalize(Shape[f]) : e[1] < w /\ e[2] <= Rows + 1
  BY ShapeFits
<1>2. p = [family |-> f, x |-> x, y |-> -2, turn |-> 0]
  BY DEF Spawned
<1> HIDE DEF w, p
<1>3. x \in Nat /\ x + w <= Cols
  BY <1>0, <1>1
<1> HIDE DEF x
<1>4. p \in Falling
  BY <1>2, <1>3 DEF Falling
<1>5. \A e \in Normalize(Shape[f]) : e[1] \in Nat /\ e[2] \in Nat
  <2>1. Boxed(Normalize(Shape[f]))
    BY ShapeFits
  <2> QED
    BY <2>1 DEF Boxed
<1>6. Cells(p) = {<<e[1] + x, e[2] + (-2)>> : e \in Normalize(Shape[f])}
  BY <1>2, OrientationsAre DEF Cells
<1>7. ASSUME NEW c \in Cells(p) PROVE c[1] \in 0..(Cols - 1) /\ ~(c[2] >= Rows)
  <2>1. PICK e \in Normalize(Shape[f]) : c = <<e[1] + x, e[2] + (-2)>>
    BY <1>6
  <2>2. e[1] \in Nat /\ e[2] \in Nat /\ e[1] < w /\ e[2] <= Rows + 1
    BY <1>1, <1>5
  <2> QED
    BY <1>0, <1>1, <1>3, <2>1, <2>2
<1>8. ~Collides(p, {})
  BY <1>7 DEF Collides
<1> QED
  BY <1>4, <1>8 DEF p

------------------------------------------------------------------------------
\* Cells that may be filled.
Stacked(b) == \A c \in b : c \in Int \X Nat
Settled(b) == \A r \in 0..(Rows - 1) : ~Full(b, r)

\* A board with a full row that makes way.
Pulled(b, r) == {c \in b : c[2] > r} \cup {<<c[1], c[2] + 1>> : c \in {d \in b : d[2] < r}}
Pass(b) ==
    LET full == {r \in 0..(Rows - 1) : Full(b, r)} IN IF full = {} THEN b ELSE Pulled(b, Max(full))

\* A pass leaves a settled board as it is, and otherwise empties one more row at the top.
LEMMA PassEmpties ==
    ASSUME NEW b, Stacked(b), NEW n \in Nat, Settled(b) \/ \A c \in b : c[2] >= n
    PROVE  Stacked(Pass(b)) /\ (Settled(Pass(b)) \/ \A c \in Pass(b) : c[2] >= n + 1)
<1> DEFINE full == {r \in 0..(Rows - 1) : Full(b, r)}
<1>0. Rows \in Nat /\ Cols \in Nat \ {0}
  BY PolyminoAssumption
<1>1. CASE full = {}
  <2>1. Settled(b) /\ Pass(b) = b
    BY <1>1 DEF Settled, Pass
  <2> QED
    BY <2>1
<1>2. CASE full # {}
  <2>1. 0 \in Int /\ Rows - 1 \in Int /\ \A r \in full : r \in 0..(Rows - 1)
    BY <1>0
  <2>2. Max(full) \in full
    <3> HIDE DEF full
    <3> QED
      BY <1>2, <2>1, MinMaxAre
  <2> DEFINE r == Max(full)
  <2>3. r \in 0..(Rows - 1) /\ Full(b, r) /\ Pass(b) = Pulled(b, r)
    BY <1>2, <2>2 DEF Pass
  <2> HIDE DEF r, full
  <2>4. ~Settled(b) /\ <<0, r>> \in b
    BY <1>0, <2>3 DEF Settled, Full
  <2>5. r >= n /\ \A c \in b : c[2] >= n /\ c[1] \in Int /\ c[2] \in Nat
    <3>1. <<0, r>>[2] = r
      OBVIOUS
    <3> QED
      BY <2>4, <3>1 DEF Stacked
  <2>6. ASSUME NEW c \in Pulled(b, r) PROVE c \in Int \X Nat /\ c[2] >= n + 1
    <3>1. CASE c \in {d \in b : d[2] > r}
      <4>1. c \in b /\ c[2] > r /\ c \in Int \X Nat
        BY <3>1 DEF Stacked
      <4> QED
        BY <2>3, <2>5, <4>1
    <3>2. CASE c \in {<<d[1], d[2] + 1>> : d \in {d \in b : d[2] < r}}
      <4>1. PICK d \in b : c = <<d[1], d[2] + 1>>
        BY <3>2
      <4> QED
        BY <2>5, <4>1
    <3> QED
      BY <3>1, <3>2 DEF Pulled
  <2> QED
    BY <2>3, <2>6 DEF Stacked
<1> QED
  BY <1>1, <1>2

\* After as many passes as there are rows no row is full.
LEMMA LinesAreCleared ==
    ASSUME NEW board, Stacked(board)
    PROVE  Stacked(ClearLines(board)) /\ Settled(ClearLines(board))
<1> DEFINE X == SUBSET (Int \X Nat)
           passes[n \in 0..Rows] ==
               IF n = 0 THEN board
               ELSE LET b == passes[n - 1]
                        full == {r \in 0..(Rows - 1) : Full(b, r)}
                    IN IF full = {} THEN b
                       ELSE {c \in b : c[2] > Max(full)}
                            \cup {<<c[1], c[2] + 1>> : c \in {d \in b : d[2] < Max(full)}}
           next == [z \in (1..Rows) \X X |-> Pass(z[2])]
<1>0. Rows \in Nat \ {0} /\ board \in X /\ \A b : Stacked(b) <=> b \in X
  BY PolyminoAssumption DEF Stacked
<1>1. \A i \in 1..Rows, b \in X : next[<<i, b>>] = Pass(b) /\ next[<<i, b>>] \in X
  <2> SUFFICES ASSUME NEW i \in 1..Rows, NEW b \in X PROVE next[<<i, b>>] = Pass(b) /\ next[<<i, b>>] \in X
    OBVIOUS
  <2>1. Stacked(b) /\ \A c \in b : c[2] >= 0
    BY <1>0
  <2>2. Stacked(Pass(b))
    BY <2>1, PassEmpties, 0 \in Nat
  <2>3. next[<<i, b>>] = Pass(b)
    <3> HIDE DEF X
    <3> QED
      OBVIOUS
  <2> QED
    BY <1>0, <2>2, <2>3
<1>2. PICK f : Computes(Rows, X, board, next, f)
  <2> HIDE DEF X, next
  <2>1. Leads(Rows, X, next)
    BY <1>1 DEF Leads
  <2> QED
    BY <1>0, <2>1, ComputedUpTo
<1>3. f \in [0..Rows -> X] /\ f[0] = board /\ \A i \in 1..Rows : f[i] = Pass(f[i - 1])
  <2> HIDE DEF X, next
  <2>1. f \in [0..Rows -> X] /\ f[0] = board /\ \A i \in 1..Rows : f[i] = next[<<i, f[i - 1]>>]
    BY <1>2 DEF Computes
  <2>2. \A i \in 1..Rows : f[i - 1] \in X
    BY <1>0, <2>1
  <2> QED
    BY <1>1, <2>1, <2>2
<1>4. f = [n \in 0..Rows |->
               IF n = 0 THEN board
               ELSE LET b == f[n - 1]
                        full == {r \in 0..(Rows - 1) : Full(b, r)}
                    IN IF full = {} THEN b
                       ELSE {c \in b : c[2] > Max(full)}
                            \cup {<<c[1], c[2] + 1>> : c \in {d \in b : d[2] < Max(full)}}]
  <2>1. \A n \in 0..Rows : f[n] = IF n = 0 THEN board ELSE Pass(f[n - 1])
    BY <1>0, <1>3
  <2>2. f = [n \in 0..Rows |-> IF n = 0 THEN board ELSE Pass(f[n - 1])]
    BY <1>3, <2>1
  <2> QED
    BY <2>2 DEF Pass, Pulled
<1>5. passes = [n \in 0..Rows |->
               IF n = 0 THEN board
               ELSE LET b == passes[n - 1]
                        full == {r \in 0..(Rows - 1) : Full(b, r)}
                    IN IF full = {} THEN b
                       ELSE {c \in b : c[2] > Max(full)}
                            \cup {<<c[1], c[2] + 1>> : c \in {d \in b : d[2] < Max(full)}}]
  BY <1>4
<1>6. ClearLines(board) = passes[Rows]
  BY DEF ClearLines
<1> HIDE DEF passes, X
<1>7. passes = [n \in 0..Rows |-> IF n = 0 THEN board ELSE Pass(passes[n - 1])]
  BY <1>5 DEF Pass, Pulled
<1> DEFINE S == {n \in 0..Rows : Stacked(passes[n]) /\ (Settled(passes[n]) \/ \A c \in passes[n] : c[2] >= n)}
<1>8. 0 \in S
  <2>1. passes[0] = board /\ 0 \in 0..Rows
    BY <1>0, <1>7
  <2>2. \A c \in board : c[2] >= 0
    BY DEF Stacked
  <2> QED
    BY <2>1, <2>2
<1>9. ASSUME NEW n \in 1..Rows, n - 1 \in S
      PROVE  n \in S
  <2>1. n \in 0..Rows /\ n # 0 /\ n - 1 \in Nat /\ (n - 1) + 1 = n
    BY <1>0
  <2>2. passes[n] = Pass(passes[n - 1])
    BY <1>7, <2>1
  <2>3. Stacked(passes[n - 1]) /\ (Settled(passes[n - 1]) \/ \A c \in passes[n - 1] : c[2] >= n - 1)
    BY <1>9
  <2>4. /\ Stacked(Pass(passes[n - 1]))
        /\ Settled(Pass(passes[n - 1])) \/ \A c \in Pass(passes[n - 1]) : c[2] >= (n - 1) + 1
    BY <2>1, <2>3, PassEmpties
  <2> QED
    BY <2>1, <2>2, <2>4
<1>10. Rows \in S
  <2>1. 0..Rows \subseteq S
    <3> HIDE DEF S
    <3> QED
      BY <1>0, <1>8, <1>9, UpTo
  <2> QED
    BY <1>0, <2>1
<1>11. CASE \A c \in passes[Rows] : c[2] >= Rows
  <2>1. ASSUME NEW r \in 0..(Rows - 1), Full(passes[Rows], r) PROVE FALSE
    <3>1. <<0, r>> \in passes[Rows] /\ <<0, r>>[2] = r
      BY <2>1, PolyminoAssumption DEF Full
    <3> QED
      BY <1>0, <1>11, <3>1
  <2> QED
    BY <1>6, <1>10, <2>1 DEF Settled
<1> QED
  BY <1>6, <1>10, <1>11

------------------------------------------------------------------------------
\* What the first k shuffles of a seed give.
Given(s, k) == FlattenSeq(SubSeq(Bag[s], 1, k))

LEMMA GivenIs ==
    ASSUME NEW s \in Seeds, NEW k \in 0..MaxShuffles
    PROVE  /\ Given(s, k) \in Seq(Family) /\ Given(s, 0) = <<>>
           /\ k < MaxShuffles => /\ Given(s, k + 1) = Given(s, k) \o Bag[s][k + 1]
                                /\ Bag[s][k + 1] \in Seq(Family) /\ Bag[s][k + 1] # <<>>
<1> DEFINE B == Bag[s]
<1>0. MaxShuffles \in Nat /\ B \in [1..MaxShuffles -> Seq(Family)] /\ Family # {}
      /\ \A n \in 1..MaxShuffles : B[n] \in Seq(Family) /\ ToSet(B[n]) = Family
  BY PolyminoAssumption DEF Family
<1> HIDE DEF B
<1>1. ASSUME NEW n \in 1..MaxShuffles
      PROVE  /\ SubSeq(B, 1, n) \in [1..n -> Seq(Family)] /\ \A i \in 1..n : SubSeq(B, 1, n)[i] = B[i]
  <2>1. n \in Nat /\ 1 <= n /\ \A i \in 1..n : B[i] \in Seq(Family)
    BY <1>0
  <2>2. /\ SubSeq(B, 1, n) \in Seq(Seq(Family))
        /\ Len(SubSeq(B, 1, n)) = IF 1 <= n THEN n - 1 + 1 ELSE 0
        /\ \A i \in 1..(n - 1 + 1) : SubSeq(B, 1, n)[i] = B[1 + i - 1]
    BY <2>1, SubSeqProperties
  <2>3. Len(SubSeq(B, 1, n)) = n
    BY <2>1, <2>2
  <2>4. \A i \in 1..n : SubSeq(B, 1, n)[i] = B[i]
    BY <2>1, <2>2
  <2>5. SubSeq(B, 1, n) \in [1..n -> Seq(Family)]
    BY <2>2, <2>3, LenProperties
  <2> QED
    BY <2>4, <2>5
<1>2. SubSeq(B, 1, 0) = <<>> /\ Given(s, 0) = <<>>
  <2>1. SubSeq(B, 1, 0) = <<>>
    BY SubSeqEmpty
  <2>2. FlattenSeq(<<>>) = <<>>
    BY EmptySeq DEF FlattenSeq
  <2> QED
    BY <2>1, <2>2 DEF Given, B
<1>3. k = 0 \/ (k \in 1..MaxShuffles /\ k \in Nat \ {0})
  BY <1>0
<1>4. Given(s, k) \in Seq(Family)
  <2>1. CASE k = 0
    BY <1>2, <2>1, EmptySeq
  <2>2. CASE k \in 1..MaxShuffles /\ k \in Nat \ {0}
    <3>1. SubSeq(B, 1, k) \in [1..k -> Seq(Family)]
      BY <1>1, <2>2
    <3>2. PICK F : Flattens(Family, SubSeq(B, 1, k), F) /\ FlattenSeq(SubSeq(B, 1, k)) = F[k]
      BY <2>2, <3>1, FlattenedIs
    <3>3. Len(SubSeq(B, 1, k)) = k /\ k \in 1..k
      BY <2>2, <3>1
    <3> QED
      BY <3>2, <3>3 DEF Flattens, Given, B
  <2> QED
    BY <1>3, <2>1, <2>2
<1>5. ASSUME k < MaxShuffles
      PROVE  /\ Given(s, k + 1) = Given(s, k) \o B[k + 1]
             /\ B[k + 1] \in Seq(Family) /\ B[k + 1] # <<>>
  <2>1. k + 1 \in 1..MaxShuffles /\ k + 1 \in Nat
    BY <1>0, <1>5
  <2>2. B[k + 1] \in Seq(Family) /\ B[k + 1] # <<>>
    <3>1. ToSet(B[k + 1]) = Family /\ B[k + 1] \in Seq(Family)
      BY <1>0, <2>1
    <3>2. ToSet(<<>>) = {}
      BY DEF ToSet
    <3> QED
      BY <1>0, <3>1, <3>2
  <2>3. CASE k = 0
    <3>1. SubSeq(B, 1, 1) \in [1..1 -> Seq(Family)] /\ SubSeq(B, 1, 1)[1] = B[1]
      BY <1>1, <2>1, <2>3
    <3>2. PICK F : Flattens(Family, SubSeq(B, 1, 1), F) /\ FlattenSeq(SubSeq(B, 1, 1)) = F[1]
      BY <3>1, FlattenedIs, 1 \in Nat \ {0}
    <3>3. Given(s, 1) = B[1]
      BY <3>1, <3>2 DEF Flattens, Given, B
    <3>4. <<>> \o B[1] = B[1]
      BY <2>2, <2>3, ConcatEmptySeq
    <3> QED
      BY <1>2, <2>2, <2>3, <3>3, <3>4
  <2>4. CASE k \in 1..MaxShuffles /\ k \in Nat \ {0}
    <3> DEFINE p == SubSeq(B, 1, k)
               q == SubSeq(B, 1, k + 1)
    <3>1. p \in [1..k -> Seq(Family)] /\ \A i \in 1..k : p[i] = B[i]
      BY <1>1, <2>4
    <3>2. q \in [1..(k + 1) -> Seq(Family)] /\ \A i \in 1..(k + 1) : q[i] = B[i]
      BY <1>1, <2>1
    <3> HIDE DEF p, q
    <3>3. \A i \in 1..k : q[i] = p[i]
      <4>1. \A i \in 1..k : i \in 1..(k + 1)
        BY <2>4
      <4> QED
        BY <3>1, <3>2, <4>1
    <3>4. FlattenSeq(q) = FlattenSeq(p) \o q[k + 1]
      <4>1. k \in Nat \ {0} /\ p \in [1..k -> Seq(Family)] /\ q \in [1..(k + 1) -> Seq(Family)]
        BY <2>4, <3>1, <3>2
      <4> QED
        BY <3>3, <4>1, FlattenedMore
    <3>5. q[k + 1] = B[k + 1]
      BY <2>1, <3>2
    <3> QED
      BY <2>2, <3>4, <3>5 DEF Given, B, p, q
  <2> QED
    BY <1>3, <2>3, <2>4
<1> QED
  BY <1>2, <1>4, <1>5 DEF B

------------------------------------------------------------------------------
\* The records of a game, before and after its first piece.
Boards == SUBSET (Int \X Nat)
Table == [seed : Seeds, shuffles : 0..MaxShuffles, board : Boards, current : Falling \cup {None},
          queue : Seq(Family), held : Family \cup {None}, holdUsed : BOOLEAN, scored : BOOLEAN,
          drawn : Seq(Family), locked : [Family -> Nat]]
Game == {g \in Table : g.current \in Falling}

\* What was drawn and what is queued is what the seed has given.
Follows(g) == Given(g.seed, g.shuffles) = g.drawn \o g.queue

\* The pieces drawn are those that were locked, are held and fall; or that were locked and
\* are held, when the next one is to enter.
One(a, f) == IF a = f THEN 1 ELSE 0
Tally(g, f) == g.locked[f] + One(g.held, f)
Counted(g) == \A f \in Family : Times(g.drawn, f) = Tally(g, f) + One(g.current.family, f)
Accounted(g) == \A f \in Family : Times(g.drawn, f) = Tally(g, f)

LEMMA TableIs ==
    ASSUME NEW g \in Table
    PROVE  /\ g = [seed |-> g.seed, shuffles |-> g.shuffles, board |-> g.board, current |-> g.current,
                   queue |-> g.queue, held |-> g.held, holdUsed |-> g.holdUsed, scored |-> g.scored,
                   drawn |-> g.drawn, locked |-> g.locked]
           /\ g.seed \in Seeds /\ g.shuffles \in 0..MaxShuffles /\ g.board \in Boards
           /\ g.current \in Falling \cup {None} /\ g.queue \in Seq(Family)
           /\ g.held \in Family \cup {None} /\ g.holdUsed \in BOOLEAN /\ g.scored \in BOOLEAN
           /\ g.drawn \in Seq(Family) /\ g.locked \in [Family -> Nat]
BY DEF Table

\* A piece more is one more of its family.
LEMMA TimesOfMore ==
    ASSUME NEW s \in Seq(Family), NEW e \in Family, NEW f \in Family
    PROVE  Times(s, f) \in Nat /\ Times(Append(s, e), f) = Times(s, f) + One(e, f)
<1> DEFINE n == Len(s)
           at == {i \in 1..n : s[i] = f}
           more == Append(s, e)
           then == {i \in 1..(n + 1) : more[i] = f}
<1>0. n \in Nat /\ DOMAIN s = 1..n
  BY LenProperties
<1>1. /\ more \in Seq(Family) /\ Len(more) = n + 1 /\ more[n + 1] = e
      /\ \A i \in 1..n : more[i] = s[i]
  BY AppendProperties
<1>2. DOMAIN more = 1..(n + 1)
  BY <1>1, LenProperties
<1>3. Times(s, f) = Cardinality(at) /\ Times(more, f) = Cardinality(then)
  BY <1>0, <1>2 DEF Times
<1>4. IsFiniteSet(at) /\ Cardinality(at) \in Nat /\ n + 1 \notin at
  <2>1. IsFiniteSet(1..n)
    BY <1>0, FS_Interval
  <2>2. at \in SUBSET (1..n) /\ n + 1 \notin 1..n
    BY <1>0
  <2> HIDE DEF at
  <2> QED
    BY <2>1, <2>2, FS_Subset, FS_CardinalityType
<1> HIDE DEF more
<1>5. CASE e = f
  <2>1. then = at \cup {n + 1}
    BY <1>0, <1>1, <1>5
  <2>2. Cardinality(then) = Cardinality(at) + 1
    <3> HIDE DEF at, then
    <3> QED
      BY <1>4, <2>1, FS_AddElement
  <2> QED
    BY <1>3, <1>4, <1>5, <2>2 DEF One, more
<1>6. CASE e # f
  <2>1. then = at
    BY <1>0, <1>1, <1>6
  <2>2. One(e, f) = 0
    BY <1>6 DEF One
  <2>3. Cardinality(then) = Cardinality(at) + One(e, f)
    <3> HIDE DEF at, then
    <3> QED
      BY <1>4, <2>1, <2>2
  <2> QED
    <3> HIDE DEF at, then
    <3> QED
      BY <1>3, <1>4, <2>3 DEF more
<1> QED
  BY <1>5, <1>6

\* Games that agree on what was drawn, locked and held.
LEMMA SamePieces ==
    ASSUME NEW g, NEW h, h.drawn = g.drawn, h.locked = g.locked, h.held = g.held
    PROVE  /\ Accounted(g) => Accounted(h)
           /\ h.current.family = g.current.family => (Counted(g) => Counted(h))
BY DEF Accounted, Counted, Tally

\* A draw leaves a piece in the queue, and puts the queue behind what was drawn as before.
LEMMA DrawnIs ==
    ASSUME NEW g \in Table, CanDraw(g)
    PROVE  /\ Drawn(g) \in Table /\ Drawn(g).queue # <<>>
           /\ Drawn(g).seed = g.seed /\ Drawn(g).board = g.board
           /\ Drawn(g).shuffles <= g.shuffles + 1
           /\ Drawn(g).drawn = g.drawn /\ Drawn(g).locked = g.locked /\ Drawn(g).held = g.held
           /\ Follows(g) => Follows(Drawn(g))
<1>0. MaxShuffles \in Nat
  BY PolyminoAssumption
<1>1. /\ g.seed \in Seeds /\ g.shuffles \in 0..MaxShuffles /\ g.queue \in Seq(Family)
      /\ Len(g.queue) \in Nat
  BY TableIs
<1>2. CASE Len(g.queue) >= 4
  <2>1. Drawn(g) = g
    BY <1>2 DEF Drawn
  <2>2. g.queue # <<>>
    BY <1>2, EmptySeq
  <2> QED
    BY <1>1, <2>1, <2>2
<1>3. CASE ~(Len(g.queue) >= 4)
  <2> DEFINE n == g.shuffles + 1
             b == Bag[g.seed][n]
             q == g.queue \o b
  <2>1. g.shuffles < MaxShuffles
    BY <1>1, <1>3 DEF CanDraw
  <2>2. Given(g.seed, n) = Given(g.seed, g.shuffles) \o b /\ b \in Seq(Family) /\ b # <<>>
    BY <1>1, <2>1, GivenIs
  <2>3. Drawn(g) = [g EXCEPT !.queue = q, !.shuffles = n]
    BY <1>3 DEF Drawn
  <2> HIDE DEF b
  <2>4. q \in Seq(Family) /\ q # <<>>
    <3>1. q \in Seq(Family) /\ Len(q) = Len(g.queue) + Len(b)
      BY <1>1, <2>2, ConcatProperties
    <3>2. Len(b) # 0 /\ Len(b) \in Nat
      BY <2>2, EmptySeq, LenProperties
    <3>3. Len(q) # 0
      BY <1>1, <3>1, <3>2
    <3> QED
      BY <3>1, <3>3, EmptySeq
  <2>5. n \in 0..MaxShuffles
    BY <1>0, <1>1, <2>1
  <2> HIDE DEF q, n
  <2>6. Drawn(g) = [seed |-> g.seed, shuffles |-> n, board |-> g.board, current |-> g.current,
                    queue |-> q, held |-> g.held, holdUsed |-> g.holdUsed, scored |-> g.scored,
                    drawn |-> g.drawn, locked |-> g.locked]
    BY <2>3, TableIs
  <2>7. Drawn(g) \in Table
    BY <2>4, <2>5, <2>6, TableIs DEF Table
  <2>8. ASSUME Follows(g) PROVE Follows(Drawn(g))
    <3>1. Given(g.seed, g.shuffles) = g.drawn \o g.queue /\ g.drawn \in Seq(Family)
      BY <2>8, TableIs DEF Follows
    <3>2. (g.drawn \o g.queue) \o b = g.drawn \o (g.queue \o b)
      <4>1. \A x, y, z \in Seq(Family) : (x \o y) \o z = x \o (y \o z)
        BY ConcatAssociative
      <4>2. g.queue \in Seq(Family) /\ b \in Seq(Family)
        BY <1>1, <2>2
      <4> QED
        BY <3>1, <4>1, <4>2
    <3>3. Given(g.seed, n) = g.drawn \o q
      BY <2>2, <3>1, <3>2 DEF q
    <3>4. /\ Drawn(g).seed = g.seed /\ Drawn(g).shuffles = n
          /\ Drawn(g).drawn = g.drawn /\ Drawn(g).queue = q
      BY <2>6
    <3> QED
      BY <3>3, <3>4 DEF Follows
  <2> QED
    BY <1>1, <2>4, <2>6, <2>7, <2>8 DEF n
<1> QED
  BY <1>2, <1>3

\* The next piece of the queue enters.
LEMMA SpawnNextIs ==
    ASSUME NEW g \in Table, CanDraw(g)
    PROVE  /\ SpawnNext(g) \in Game
           /\ SpawnNext(g).seed = g.seed /\ SpawnNext(g).board = g.board
           /\ \E f \in Family : SpawnNext(g).current = Spawned(f)
           /\ Follows(g) => Follows(SpawnNext(g))
           /\ Accounted(g) => Counted(SpawnNext(g))
<1> DEFINE d == Drawn(g)
           f == Head(d.queue)
           q == Tail(d.queue)
           given == Append(d.drawn, f)
<1>1. /\ d \in Table /\ d.queue # <<>> /\ d.seed = g.seed /\ d.board = g.board
      /\ d.drawn = g.drawn /\ d.locked = g.locked /\ d.held = g.held
      /\ Follows(g) => Follows(d)
  BY DrawnIs
<1>2. SpawnNext(g) = [d EXCEPT !.current = Spawned(f), !.queue = q, !.holdUsed = FALSE, !.drawn = given]
  <2>1. SpawnNext(g) = [d EXCEPT !.current = Spawned(f), !.queue = Tail(@), !.holdUsed = FALSE,
                                 !.drawn = Append(@, f)]
    BY DEF SpawnNext
  <2> HIDE DEF d
  <2> QED
    BY <1>1, <2>1, TableIs
<1> HIDE DEF d
<1>3. f \in Family /\ q \in Seq(Family) /\ d.queue = <<f>> \o q /\ d.drawn \in Seq(Family)
  <2>1. d.queue \in Seq(Family) /\ d.drawn \in Seq(Family)
    BY <1>1, TableIs
  <2>2. f \in Family /\ q \in Seq(Family)
    BY <1>1, <2>1, HeadTailProperties
  <2>3. d.queue = <<f>> \o q
    BY <1>1, <2>1
  <2> QED
    BY <2>1, <2>2, <2>3
<1>4. Spawned(f) \in Falling /\ Spawned(f).family = f
  BY <1>3, SpawnedFits DEF Spawned
<1> HIDE DEF f, q
<1>5. given \in Seq(Family) /\ given = d.drawn \o <<f>> /\ <<f>> \in Seq(Family)
  BY <1>3, AppendProperties, AppendIsConcat
<1> HIDE DEF given
<1>6. SpawnNext(g) = [seed |-> d.seed, shuffles |-> d.shuffles, board |-> d.board, current |-> Spawned(f),
                      queue |-> q, held |-> d.held, holdUsed |-> FALSE, scored |-> d.scored,
                      drawn |-> given, locked |-> d.locked]
  <2> DEFINE came == Spawned(f)
             no == FALSE
             a == [d EXCEPT !.current = came]
             b == [a EXCEPT !.queue = q]
             c == [b EXCEPT !.holdUsed = no]
  <2>1. SpawnNext(g) = [c EXCEPT !.drawn = given]
    BY <1>1, <1>2, TableIs
  <2> HIDE DEF came, no
  <2>6. d = [seed |-> d.seed, shuffles |-> d.shuffles, board |-> d.board, current |-> d.current,
             queue |-> d.queue, held |-> d.held, holdUsed |-> d.holdUsed, scored |-> d.scored,
             drawn |-> d.drawn, locked |-> d.locked]
    BY <1>1, TableIs
  <2>2. a = [seed |-> d.seed, shuffles |-> d.shuffles, board |-> d.board, current |-> came,
             queue |-> d.queue, held |-> d.held, holdUsed |-> d.holdUsed, scored |-> d.scored,
             drawn |-> d.drawn, locked |-> d.locked]
    BY <2>6
  <2> HIDE DEF a
  <2>3. b = [seed |-> d.seed, shuffles |-> d.shuffles, board |-> d.board, current |-> came,
             queue |-> q, held |-> d.held, holdUsed |-> d.holdUsed, scored |-> d.scored,
             drawn |-> d.drawn, locked |-> d.locked]
    BY <2>2
  <2> HIDE DEF b
  <2>4. c = [seed |-> d.seed, shuffles |-> d.shuffles, board |-> d.board, current |-> came,
             queue |-> q, held |-> d.held, holdUsed |-> no, scored |-> d.scored,
             drawn |-> d.drawn, locked |-> d.locked]
    BY <2>3
  <2> HIDE DEF c
  <2>5. SpawnNext(g) = [seed |-> d.seed, shuffles |-> d.shuffles, board |-> d.board, current |-> came,
                        queue |-> q, held |-> d.held, holdUsed |-> no, scored |-> d.scored,
                        drawn |-> given, locked |-> d.locked]
    BY <2>1, <2>4
  <2> QED
    BY <2>5 DEF came, no
<1>7. SpawnNext(g) \in Game
  <2>1. SpawnNext(g) \in Table
    BY <1>1, <1>3, <1>4, <1>5, <1>6, TableIs DEF Table
  <2> QED
    BY <1>4, <1>6, <2>1 DEF Game
<1>8. /\ SpawnNext(g).seed = d.seed /\ SpawnNext(g).shuffles = d.shuffles /\ SpawnNext(g).queue = q
      /\ SpawnNext(g).drawn = given /\ SpawnNext(g).locked = d.locked /\ SpawnNext(g).held = d.held
      /\ SpawnNext(g).current = Spawned(f) /\ SpawnNext(g).board = d.board
  BY <1>6
<1>9. ASSUME Follows(g) PROVE Follows(SpawnNext(g))
  <2>1. Given(d.seed, d.shuffles) = d.drawn \o d.queue
    BY <1>1, <1>9 DEF Follows
  <2>2. d.drawn \o (<<f>> \o q) = (d.drawn \o <<f>>) \o q
    <3>1. \A x, y, z \in Seq(Family) : (x \o y) \o z = x \o (y \o z)
      BY ConcatAssociative
    <3> QED
      BY <1>3, <1>5, <3>1
  <2>3. Given(d.seed, d.shuffles) = given \o q
    BY <1>3, <1>5, <2>1, <2>2
  <2> QED
    BY <1>8, <2>3 DEF Follows
<1>10. ASSUME Accounted(g) PROVE Counted(SpawnNext(g))
  <2> SUFFICES ASSUME NEW e \in Family
               PROVE  Times(SpawnNext(g).drawn, e) =
                          Tally(SpawnNext(g), e) + One(SpawnNext(g).current.family, e)
    BY DEF Counted
  <2>1. Times(g.drawn, e) = Tally(g, e)
    BY <1>10 DEF Accounted
  <2>2. Times(given, e) = Times(d.drawn, e) + One(f, e)
    BY <1>3, TimesOfMore DEF given
  <2>3. Tally(SpawnNext(g), e) = Tally(g, e)
    BY <1>1, <1>8 DEF Tally
  <2>4. SpawnNext(g).current.family = f
    BY <1>4, <1>8
  <2> QED
    BY <1>1, <1>8, <2>1, <2>2, <2>3, <2>4
<1> QED
  BY <1>1, <1>3, <1>7, <1>8, <1>9, <1>10

\* A new game: an empty board, and a piece that fits.
LEMMA FreshIs ==
    ASSUME NEW s \in Seeds
    PROVE  /\ Fresh(s) \in Game /\ Follows(Fresh(s)) /\ Fresh(s).seed = s
           /\ Fresh(s).board = {} /\ Settled(Fresh(s).board)
           /\ ~Collides(Fresh(s).current, Fresh(s).board)
           /\ Counted(Fresh(s))
<1> DEFINE e == [seed |-> s, shuffles |-> 0, board |-> {}, current |-> None,
                 queue |-> <<>>, held |-> None, holdUsed |-> FALSE, scored |-> FALSE,
                 drawn |-> <<>>, locked |-> [f \in Family |-> 0]]
           d == Drawn(e)
           c == Drawn(d)
<1>0. MaxShuffles \in Nat /\ MaxShuffles >= 3 /\ Cols \in Nat \ {0}
  BY PolyminoAssumption
<1>1. e \in Table /\ e.shuffles = 0 /\ e.seed = s /\ e.board = {}
  <2>1. /\ 0 \in 0..MaxShuffles /\ {} \in Boards /\ <<>> \in Seq(Family)
        /\ [f \in Family |-> 0] \in [Family -> Nat]
    BY <1>0, EmptySeq DEF Boards
  <2> DEFINE none == [f \in Family |-> 0]
  <2> HIDE DEF none
  <2> QED
    BY <2>1 DEF Table, none
<1>2. Follows(e)
  <2>1. Given(s, 0) = <<>> /\ <<>> \in Seq(Family)
    BY <1>0, GivenIs, EmptySeq
  <2>2. <<>> = <<>> \o <<>>
    BY <2>1, ConcatEmptySeq
  <2>3. Given(e.seed, e.shuffles) = e.drawn \o e.queue
    BY <2>1, <2>2
  <2> QED
    BY <2>3 DEF Follows
<1>3. Fresh(s) = SpawnNext(c)
  BY DEF Fresh
<1>9. Accounted(e)
  <2> SUFFICES ASSUME NEW f \in Family PROVE Times(e.drawn, f) = Tally(e, f)
    BY DEF Accounted
  <2>1. e.drawn = <<>> /\ e.locked[f] = 0 /\ e.held = None
    OBVIOUS
  <2>2. Times(<<>>, f) = 0
    <3>1. {i \in DOMAIN <<>> : (<<>>)[i] = f} = {}
      OBVIOUS
    <3>2. Times(<<>>, f) = Cardinality({})
      BY <3>1 DEF Times
    <3> QED
      BY <3>2, FS_EmptySet
  <2>3. None # f
    BY PolyminoAssumption DEF Family
  <2> QED
    BY <2>1, <2>2, <2>3 DEF Tally, One
<1> HIDE DEF e
<1>4. /\ d \in Table /\ d.seed = s /\ d.board = {} /\ d.shuffles <= 1 /\ Follows(d) /\ d.shuffles \in Nat
      /\ Accounted(d)
  <2>1. CanDraw(e)
    BY <1>0, <1>1 DEF CanDraw
  <2>2. /\ d \in Table /\ d.seed = s /\ d.board = {} /\ d.shuffles <= 1 /\ Follows(d)
        /\ d.drawn = e.drawn /\ d.locked = e.locked /\ d.held = e.held
    BY <1>1, <1>2, <2>1, DrawnIs
  <2>3. Accounted(d)
    BY <1>9, <2>2, SamePieces
  <2> QED
    BY <2>2, <2>3, TableIs
<1> HIDE DEF d
<1>5. /\ c \in Table /\ c.seed = s /\ c.board = {} /\ c.shuffles <= 2 /\ Follows(c) /\ c.shuffles \in Nat
      /\ Accounted(c)
  <2>1. CanDraw(d)
    BY <1>0, <1>4 DEF CanDraw
  <2>2. /\ c \in Table /\ c.seed = s /\ c.board = {} /\ c.shuffles <= d.shuffles + 1 /\ Follows(c)
        /\ c.drawn = d.drawn /\ c.locked = d.locked /\ c.held = d.held
    BY <1>4, <2>1, DrawnIs
  <2>4. Accounted(c)
    BY <1>4, <2>2, SamePieces
  <2>3. c.shuffles \in Nat
    BY <2>2, TableIs
  <2> QED
    BY <1>4, <2>2, <2>3, <2>4
<1> HIDE DEF c
<1>6. CanDraw(c)
  BY <1>0, <1>5 DEF CanDraw
<1>7. /\ Fresh(s) \in Game /\ Fresh(s).seed = s /\ Fresh(s).board = {} /\ Follows(Fresh(s))
      /\ (\E f \in Family : Fresh(s).current = Spawned(f)) /\ Counted(Fresh(s))
  BY <1>3, <1>5, <1>6, SpawnNextIs
<1>8. Settled({})
  BY <1>0 DEF Settled, Full
<1> QED
  BY <1>7, <1>8, SpawnedFits

\* Where a piece comes to rest: no line is left full, and the piece is one of those locked.
LEMMA LockIs ==
    ASSUME NEW g \in Game, CanDraw(g)
    PROVE  /\ Lock(g) \in Game /\ Settled(Lock(g).board) /\ (Follows(g) => Follows(Lock(g)))
           /\ Counted(g) => Counted(Lock(g))
<1> DEFINE b == g.board \cup {c \in Cells(g.current) : c[2] >= 0}
           rest == [g.locked EXCEPT ![g.current.family] = @ + 1]
           h == [g EXCEPT !.board = ClearLines(b), !.scored = TRUE, !.locked = rest]
<1>1. g \in Table /\ g.current \in Falling /\ g.current.family \in Family
  BY DEF Game, Falling
<1>2. Stacked(b)
  <2>1. \A c \in g.board : c \in Int \X Nat
    BY <1>1, TableIs DEF Boards
  <2>2. \A c \in Cells(g.current) : c[2] >= 0 => c \in Int \X Nat
    BY <1>1, CellsAre
  <2> QED
    BY <2>1, <2>2 DEF Stacked
<1>3. Lock(g) = SpawnNext(h)
  <2>1. [g EXCEPT !.board = ClearLines(b), !.scored = TRUE, !.locked[g.current.family] = @ + 1] = h
    <3> DEFINE board == ClearLines(b)
    <3> HIDE DEF board
    <3> QED
      BY <1>1, TableIs
  <2>2. Lock(g) = SpawnNext([g EXCEPT !.board = ClearLines(b), !.scored = TRUE,
                                      !.locked[g.current.family] = @ + 1])
    <3>1. Lock(g) = SpawnNext([g EXCEPT !.board = ClearLines(@ \cup {c \in Cells(g.current) : c[2] >= 0}),
                                        !.scored = TRUE, !.locked[g.current.family] = @ + 1])
      BY DEF Lock
    <3>2. [g EXCEPT !.board = ClearLines(@ \cup {c \in Cells(g.current) : c[2] >= 0}),
                    !.scored = TRUE, !.locked[g.current.family] = @ + 1]
            = [g EXCEPT !.board = ClearLines(b), !.scored = TRUE, !.locked[g.current.family] = @ + 1]
      OBVIOUS
    <3> QED
      BY <3>1, <3>2
  <2> QED
    BY <2>1, <2>2
<1> HIDE DEF b
<1>4. ClearLines(b) \in Boards /\ Settled(ClearLines(b))
  BY <1>2, LinesAreCleared DEF Stacked, Boards
<1>5. /\ rest \in [Family -> Nat]
      /\ \A f \in Family : rest[f] = g.locked[f] + One(g.current.family, f)
  <2>1. g.locked \in [Family -> Nat]
    BY <1>1, TableIs
  <2> QED
    BY <1>1, <2>1 DEF One
<1> HIDE DEF rest
<1>6. h = [seed |-> g.seed, shuffles |-> g.shuffles, board |-> ClearLines(b), current |-> g.current,
           queue |-> g.queue, held |-> g.held, holdUsed |-> g.holdUsed, scored |-> TRUE,
           drawn |-> g.drawn, locked |-> rest]
  <2> DEFINE board == ClearLines(b)
             yes == TRUE
             k == [g EXCEPT !.board = board]
             l == [k EXCEPT !.scored = yes]
  <2>1. h = [l EXCEPT !.locked = rest]
    BY <1>1, TableIs
  <2> HIDE DEF board, yes, h
  <2>0. g = [seed |-> g.seed, shuffles |-> g.shuffles, board |-> g.board, current |-> g.current,
             queue |-> g.queue, held |-> g.held, holdUsed |-> g.holdUsed, scored |-> g.scored,
             drawn |-> g.drawn, locked |-> g.locked]
    BY <1>1, TableIs
  <2>2. k = [seed |-> g.seed, shuffles |-> g.shuffles, board |-> board, current |-> g.current,
             queue |-> g.queue, held |-> g.held, holdUsed |-> g.holdUsed, scored |-> g.scored,
             drawn |-> g.drawn, locked |-> g.locked]
    BY <2>0
  <2> HIDE DEF k
  <2>3. l = [seed |-> g.seed, shuffles |-> g.shuffles, board |-> board, current |-> g.current,
             queue |-> g.queue, held |-> g.held, holdUsed |-> g.holdUsed, scored |-> yes,
             drawn |-> g.drawn, locked |-> g.locked]
    BY <2>2
  <2> HIDE DEF l
  <2>4. h = [seed |-> g.seed, shuffles |-> g.shuffles, board |-> board, current |-> g.current,
             queue |-> g.queue, held |-> g.held, holdUsed |-> g.holdUsed, scored |-> yes,
             drawn |-> g.drawn, locked |-> rest]
    BY <2>1, <2>3
  <2> QED
    BY <2>4 DEF board, yes
<1> HIDE DEF h
<1>7. h \in Table
  BY <1>1, <1>4, <1>5, <1>6, TableIs DEF Table
<1>8. /\ h.queue = g.queue /\ h.shuffles = g.shuffles /\ h.seed = g.seed /\ h.board = ClearLines(b)
      /\ h.drawn = g.drawn /\ h.locked = rest /\ h.held = g.held
  BY <1>6
<1>9. CanDraw(h) /\ (Follows(g) => Follows(h)) /\ Settled(h.board)
  BY <1>4, <1>8 DEF CanDraw, Follows
<1>10. ASSUME Counted(g) PROVE Accounted(h)
  <2> SUFFICES ASSUME NEW f \in Family PROVE Times(h.drawn, f) = Tally(h, f)
    BY DEF Accounted
  <2>1. Times(g.drawn, f) = g.locked[f] + One(g.held, f) + One(g.current.family, f)
    BY <1>10 DEF Counted, Tally
  <2>2. Tally(h, f) = g.locked[f] + One(g.current.family, f) + One(g.held, f)
    BY <1>5, <1>8 DEF Tally
  <2>3. g.locked[f] \in Nat /\ One(g.held, f) \in Nat /\ One(g.current.family, f) \in Nat
    BY <1>1, TableIs DEF One
  <2> QED
    BY <1>8, <2>1, <2>2, <2>3
<1> QED
  BY <1>3, <1>7, <1>9, <1>10, SpawnNextIs

\* A piece moved is a piece somewhere; the rest of the game is as it was.
LEMMA MovedIs ==
    ASSUME NEW g \in Game, NEW p \in Falling
    PROVE  LET h == [g EXCEPT !.current = p]
           IN /\ h \in Game /\ h.current = p /\ h.board = g.board /\ (Follows(g) => Follows(h))
              /\ CanDraw(h) <=> CanDraw(g)
              /\ p.family = g.current.family => (Counted(g) => Counted(h))
              /\ h.drawn = g.drawn /\ h.locked = g.locked /\ h.held = g.held
<1> DEFINE h == [g EXCEPT !.current = p]
<1>1. g \in Table
  BY DEF Game
<1>2. h = [seed |-> g.seed, shuffles |-> g.shuffles, board |-> g.board, current |-> p,
           queue |-> g.queue, held |-> g.held, holdUsed |-> g.holdUsed, scored |-> g.scored,
           drawn |-> g.drawn, locked |-> g.locked]
  BY <1>1, TableIs
<1> HIDE DEF h
<1>3. h \in Game
  BY <1>1, <1>2, TableIs DEF Table, Game
<1>4. /\ h.queue = g.queue /\ h.shuffles = g.shuffles /\ h.seed = g.seed /\ h.board = g.board
      /\ h.current = p /\ h.drawn = g.drawn /\ h.locked = g.locked /\ h.held = g.held
  BY <1>2
<1>5. (Follows(g) => Follows(h)) /\ (CanDraw(h) <=> CanDraw(g))
  BY <1>4 DEF CanDraw, Follows
<1>6. p.family = g.current.family => (Counted(g) => Counted(h))
  BY <1>4, SamePieces
<1> QED
  BY <1>3, <1>4, <1>5, <1>6 DEF h

\* A hold takes the falling piece away, and the rest of the game is as it was.
LEMMA HeldIs ==
    ASSUME NEW g \in Game, NEW f \in Family
    PROVE  LET h == [g EXCEPT !.held = f]
           IN /\ h \in Game /\ h.board = g.board /\ (Follows(g) => Follows(h))
              /\ CanDraw(h) <=> CanDraw(g)
              /\ h.drawn = g.drawn /\ h.locked = g.locked /\ h.held = f /\ h.current = g.current
<1> DEFINE h == [g EXCEPT !.held = f]
<1>1. g \in Table
  BY DEF Game
<1>2. h = [seed |-> g.seed, shuffles |-> g.shuffles, board |-> g.board, current |-> g.current,
           queue |-> g.queue, held |-> f, holdUsed |-> g.holdUsed, scored |-> g.scored,
           drawn |-> g.drawn, locked |-> g.locked]
  <2>1. g = [seed |-> g.seed, shuffles |-> g.shuffles, board |-> g.board, current |-> g.current,
             queue |-> g.queue, held |-> g.held, holdUsed |-> g.holdUsed, scored |-> g.scored,
             drawn |-> g.drawn, locked |-> g.locked]
    BY <1>1, TableIs
  <2> QED
    BY <2>1
<1> HIDE DEF h
<1>3. h \in Game
  BY <1>1, <1>2, TableIs DEF Table, Game
<1>4. /\ h.queue = g.queue /\ h.shuffles = g.shuffles /\ h.seed = g.seed /\ h.board = g.board
      /\ h.drawn = g.drawn /\ h.locked = g.locked /\ h.held = f /\ h.current = g.current
  BY <1>2
<1>5. (Follows(g) => Follows(h)) /\ (CanDraw(h) <=> CanDraw(g))
  BY <1>4 DEF CanDraw, Follows
<1> QED
  BY <1>3, <1>4, <1>5 DEF h

\* A note about a game: the hold was used, or points were scored.
LEMMA NotedIs ==
    ASSUME NEW g \in Game, NEW b \in BOOLEAN, NEW h,
           h = [g EXCEPT !.holdUsed = b] \/ h = [g EXCEPT !.scored = b]
    PROVE  /\ h \in Game /\ h.board = g.board /\ h.current = g.current /\ h.seed = g.seed
           /\ (Follows(g) => Follows(h)) /\ (Counted(g) => Counted(h))
<1>1. g \in Table
  BY DEF Game
<1>2. \E u, v \in BOOLEAN :
        h = [seed |-> g.seed, shuffles |-> g.shuffles, board |-> g.board, current |-> g.current,
             queue |-> g.queue, held |-> g.held, holdUsed |-> u, scored |-> v,
             drawn |-> g.drawn, locked |-> g.locked]
  <2>1. CASE h = [g EXCEPT !.holdUsed = b]
    <3>1. h = [seed |-> g.seed, shuffles |-> g.shuffles, board |-> g.board, current |-> g.current,
               queue |-> g.queue, held |-> g.held, holdUsed |-> b, scored |-> g.scored,
               drawn |-> g.drawn, locked |-> g.locked]
      BY <1>1, <2>1, TableIs
    <3> QED
      BY <1>1, <3>1, TableIs
  <2>2. CASE h = [g EXCEPT !.scored = b]
    <3>1. h = [seed |-> g.seed, shuffles |-> g.shuffles, board |-> g.board, current |-> g.current,
               queue |-> g.queue, held |-> g.held, holdUsed |-> g.holdUsed, scored |-> b,
               drawn |-> g.drawn, locked |-> g.locked]
      BY <1>1, <2>2, TableIs
    <3> QED
      BY <1>1, <3>1, TableIs
  <2> QED
    BY <2>1, <2>2
<1>3. PICK u, v \in BOOLEAN :
        h = [seed |-> g.seed, shuffles |-> g.shuffles, board |-> g.board, current |-> g.current,
             queue |-> g.queue, held |-> g.held, holdUsed |-> u, scored |-> v,
             drawn |-> g.drawn, locked |-> g.locked]
  BY <1>2
<1>4. h \in Game
  BY <1>1, <1>3, TableIs DEF Table, Game
<1>5. /\ h.queue = g.queue /\ h.shuffles = g.shuffles /\ h.seed = g.seed /\ h.board = g.board
      /\ h.current = g.current /\ h.drawn = g.drawn /\ h.locked = g.locked /\ h.held = g.held
  BY <1>3
<1>6. Counted(g) => Counted(h)
  BY <1>5, SamePieces
<1> QED
  BY <1>4, <1>5, <1>6 DEF Follows

\* The held piece enters, and the one that fell is held.
LEMMA SpawnHeldIs ==
    ASSUME NEW g \in Game, NEW k \in Game, g.held \in Family,
           k.drawn = g.drawn, k.locked = g.locked, k.held = g.current.family
    PROVE  /\ SpawnHeld(k, g.held) \in Game /\ SpawnHeld(k, g.held).board = k.board
           /\ Follows(k) => Follows(SpawnHeld(k, g.held))
           /\ Counted(g) => Counted(SpawnHeld(k, g.held))
<1> DEFINE p == Spawned(g.held)
           h == SpawnHeld(k, g.held)
<1>1. p \in Falling /\ p.family = g.held
  BY SpawnedFits DEF Spawned
<1>2. h = [k EXCEPT !.current = p]
  BY DEF SpawnHeld
<1> HIDE DEF p, h
<1>3. /\ h \in Game /\ h.current = p /\ h.board = k.board /\ (Follows(k) => Follows(h))
      /\ h.drawn = k.drawn /\ h.locked = k.locked /\ h.held = k.held
  BY <1>1, <1>2, MovedIs
<1>4. ASSUME Counted(g) PROVE Counted(h)
  <2> SUFFICES ASSUME NEW f \in Family
               PROVE  Times(h.drawn, f) = Tally(h, f) + One(h.current.family, f)
    BY DEF Counted
  <2>1. Times(g.drawn, f) = g.locked[f] + One(g.held, f) + One(g.current.family, f)
    BY <1>4 DEF Counted, Tally
  <2>2. Tally(h, f) = g.locked[f] + One(g.current.family, f) /\ h.current.family = g.held
    BY <1>1, <1>3 DEF Tally
  <2>3. g.locked[f] \in Nat /\ One(g.held, f) \in Nat /\ One(g.current.family, f) \in Nat
    <3>1. g \in Table
      BY DEF Game
    <3> QED
      BY <3>1, TableIs DEF One
  <2>4. h.drawn = g.drawn
    BY <1>3
  <2> QED
    BY <2>1, <2>2, <2>3, <2>4
<1> QED
  BY <1>3, <1>4 DEF h

\* The piece that falls is held, and the slot was free: the next one may enter.
LEMMA HeldIsPlaced ==
    ASSUME NEW g \in Game, NEW k, g.held = None, Counted(g),
           k.drawn = g.drawn, k.locked = g.locked, k.held = g.current.family
    PROVE  Accounted(k)
<1> SUFFICES ASSUME NEW f \in Family PROVE Times(k.drawn, f) = Tally(k, f)
  BY DEF Accounted
<1>1. Times(g.drawn, f) = g.locked[f] + One(g.held, f) + One(g.current.family, f)
  BY DEF Counted, Tally
<1>2. One(g.held, f) = 0
  BY PolyminoAssumption DEF One, Family
<1>3. g.locked[f] \in Nat /\ One(g.current.family, f) \in Nat
  <2>1. g \in Table
    BY DEF Game
  <2> QED
    BY <2>1, TableIs DEF One
<1> QED
  BY <1>1, <1>2, <1>3 DEF Tally

------------------------------------------------------------------------------
\* What is true of every game: no line is full, and no piece was lost or came twice.
Whole(g) == Settled(g.board) /\ Counted(g)

\* A run that may go on: its pieces come in the order of the seed, and what
\* collides has ended it.
Sound(g, over) == Follows(g) /\ (Collides(g.current, g.board) => over)

PolyInv ==
    /\ game \in Game /\ storage.seed \in Seeds
    /\ Whole(game) /\ (torn \/ Sound(game, gameOver))
    /\ file = None \/ /\ file.game \in Game /\ Whole(file.game)
                      /\ file.torn \/ Sound(file.game, file.gameOver)

\* A step that only plays keeps the invariant if it leaves a sound game.
LEMMA PlayedOn ==
    ASSUME PolyInv, game' \in Game, Saved, UNCHANGED <<file, torn>>, Whole(game'),
           torn \/ Sound(game', gameOver')
    PROVE  PolyInv'
<1>1. storage'.seed = game'.seed /\ game'.seed \in Seeds
  <2>1. storage'.seed = game'.seed
    BY DEF Saved
  <2>2. game' \in Table
    BY DEF Game
  <2> QED
    BY <2>1, <2>2, TableIs
<1>2. torn' \/ Sound(game, gameOver)'
  BY DEF Sound
<1>3. (file = None \/ (file.game \in Game /\ Whole(file.game) /\ (file.torn \/ Sound(file.game, file.gameOver))))'
  <2>1. file' = file
    OBVIOUS
  <2>2. file = None \/ (file.game \in Game /\ Whole(file.game) /\ (file.torn \/ Sound(file.game, file.gameOver)))
    BY DEF PolyInv
  <2> QED
    BY <2>1, <2>2
<1>4. Whole(game)'
  OBVIOUS
<1> QED
  BY <1>1, <1>2, <1>3, <1>4 DEF PolyInv

\* A locked piece: the next one enters.
LEMMA Locked ==
    ASSUME PolyInv, NEW g \in Game, CanDraw(g), torn \/ Follows(g), Counted(g), Spawning(Lock(g))
    PROVE  game' \in Game /\ Whole(game') /\ (torn \/ Sound(game', gameOver'))
<1>1. /\ Lock(g) \in Game /\ Settled(Lock(g).board) /\ (Follows(g) => Follows(Lock(g)))
      /\ Counted(Lock(g))
  BY LockIs
<1> QED
  BY <1>1 DEF Spawning, Sound, Whole

LEMMA MovedFalls ==
    ASSUME PolyInv, NEW dx \in Int, NEW dy \in Int, NEW turn \in 0..3
    PROVE  Moved(dx, dy, turn) \in Falling /\ Moved(dx, dy, turn).family = game.current.family
<1>1. game.current \in Falling
  BY DEF PolyInv, Game
<1>2. PICK f \in Family, x \in Int, y \in Int, t \in 0..3 :
        game.current = [family |-> f, x |-> x, y |-> y, turn |-> t]
  BY <1>1 DEF Falling
<1> DEFINE u == x + dx
           v == y + dy
<1>3. Moved(dx, dy, turn) = [game.current EXCEPT !.x = u, !.y = v, !.turn = turn]
  BY <1>2 DEF Moved
<1>4. u \in Int /\ v \in Int
  OBVIOUS
<1> HIDE DEF u, v
<1>5. Moved(dx, dy, turn) = [family |-> f, x |-> u, y |-> v, turn |-> turn]
  <2> DEFINE p == [game.current EXCEPT !.x = u]
  <2>1. p = [family |-> f, x |-> u, y |-> y, turn |-> t]
    BY <1>2
  <2>2. Moved(dx, dy, turn) = [[p EXCEPT !.y = v] EXCEPT !.turn = turn]
    BY <1>2, <1>3
  <2> HIDE DEF p
  <2>3. [p EXCEPT !.y = v] = [family |-> f, x |-> u, y |-> v, turn |-> t]
    BY <2>1
  <2> DEFINE q == [p EXCEPT !.y = v]
  <2>4. Moved(dx, dy, turn) = [q EXCEPT !.turn = turn] /\ q = [family |-> f, x |-> u, y |-> v, turn |-> t]
    BY <2>2, <2>3
  <2> HIDE DEF q
  <2> QED
    BY <2>4
<1> QED
  BY <1>2, <1>4, <1>5 DEF Falling

LEMMA FallingTurn ==
    ASSUME PolyInv
    PROVE  game.current.turn \in 0..3 /\ game.current.family \in Family
BY DEF PolyInv, Game, Falling

LEMMA InitSound ==
    ASSUME PolyInit
    PROVE  PolyInv
<1>1. PICK s \in Seeds : game = Fresh(s) /\ storage = [seed |-> s, scored |-> FALSE]
  BY DEF PolyInit
<1>2. file = None
  BY DEF PolyInit
<1> QED
  BY <1>1, <1>2, FreshIs DEF PolyInv, Sound, Whole

LEMMA ShiftKeeps ==
    ASSUME PolyInv, Shift
    PROVE  PolyInv'
<1>1. PICK dx \in {-1, 1} :
        LET p == Moved(dx, 0, game.current.turn)
        IN ~Collides(p, game.board) /\ game' = [game EXCEPT !.current = p]
  BY DEF Shift
<1> DEFINE p == Moved(dx, 0, game.current.turn)
<1>2. p \in Falling /\ p.family = game.current.family
  BY MovedFalls, FallingTurn, dx \in Int, 0 \in Int
<1>3. ~Collides(p, game.board) /\ game' = [game EXCEPT !.current = p]
  BY <1>1
<1> HIDE DEF p
<1>4. /\ game' \in Game /\ game'.current = p /\ game'.board = game.board
      /\ (Follows(game) => Follows(game')) /\ (Counted(game) => Counted(game'))
  BY <1>2, <1>3, MovedIs DEF PolyInv
<1>5. Whole(game') /\ (torn \/ Sound(game', gameOver'))
  BY <1>3, <1>4 DEF PolyInv, Sound, Whole
<1> QED
  BY <1>4, <1>5, PlayedOn DEF Shift

LEMMA RotateKeeps ==
    ASSUME PolyInv, Rotate
    PROVE  PolyInv'
<1> DEFINE At(i, turn) == Moved(Kicks[i][1], Kicks[i][2], turn)
           fits(turn) == {i \in DOMAIN Kicks : ~Collides(At(i, turn), game.board)}
<1>1. PICK by \in {-1, 1} :
        LET total == Turns[game.current.family]
            turn == (game.current.turn + by + total) % total
        IN fits(turn) # {} /\ game' = [game EXCEPT !.current = At(Min(fits(turn)), turn)]
  BY DEF Rotate
<1> DEFINE total == Turns[game.current.family]
           turn == (game.current.turn + by + total) % total
           i == Min(fits(turn))
<1>2. turn \in 0..3
  <2>1. total \in 1..4 /\ game.current.turn \in 0..3
    BY FallingTurn, TurnsAre
  <2> HIDE DEF total
  <2>2. total = 1 \/ total = 2 \/ total = 3 \/ total = 4
    BY <2>1
  <2> QED
    BY <2>1, <2>2
<1>3. fits(turn) # {} /\ game' = [game EXCEPT !.current = At(i, turn)]
  BY <1>1
<1> HIDE DEF turn
<1>4. \A j \in DOMAIN Kicks : j \in 1..7 /\ Kicks[j][1] \in Int /\ Kicks[j][2] \in Int
  BY DEF Kicks
<1>5. i \in DOMAIN Kicks /\ ~Collides(At(i, turn), game.board)
  <2> DEFINE F == fits(turn)
  <2>1. F # {} /\ (\A j \in F : j \in 1..7) /\ 1 \in Int /\ 7 \in Int
    BY <1>3, <1>4
  <2>2. Min(F) \in F
    <3> HIDE DEF F
    <3> QED
      BY <2>1, MinMaxAre
  <2> QED
    BY <2>2
<1> HIDE DEF i
<1>6. At(i, turn) \in Falling /\ At(i, turn).family = game.current.family
  BY <1>2, <1>4, <1>5, MovedFalls
<1> DEFINE p == At(i, turn)
<1>7. /\ p \in Falling /\ ~Collides(p, game.board) /\ game' = [game EXCEPT !.current = p]
      /\ p.family = game.current.family
  BY <1>3, <1>5, <1>6
<1> HIDE DEF p
<1>8. /\ game' \in Game /\ game'.current = p /\ game'.board = game.board
      /\ (Follows(game) => Follows(game')) /\ (Counted(game) => Counted(game'))
  BY <1>7, MovedIs DEF PolyInv
<1>9. Whole(game') /\ (torn \/ Sound(game', gameOver'))
  BY <1>7, <1>8 DEF PolyInv, Sound, Whole
<1>10. Saved /\ UNCHANGED <<file, torn>>
  BY DEF Rotate
<1>11. game' \in Game
  BY <1>8
<1> HIDE DEF PolyInv
<1> QED
  BY <1>9, <1>10, <1>11, PlayedOn, ZenonT(30)

LEMMA SoftDropKeeps ==
    ASSUME PolyInv, SoftDrop
    PROVE  PolyInv'
<1> DEFINE p == Moved(0, 1, game.current.turn)
<1>1. p \in Falling /\ p.family = game.current.family
  BY MovedFalls, FallingTurn, 1 \in Int, 0 \in Int
<1>2. Saved /\ UNCHANGED <<file, torn>>
  BY DEF SoftDrop
<1>3. CASE Collides(p, game.board)
  <2>1. CanDraw(game) /\ Spawning(Lock(game))
    BY <1>3 DEF SoftDrop
  <2>2. game \in Game /\ (torn \/ Follows(game)) /\ Counted(game)
    BY DEF PolyInv, Sound, Whole
  <2> QED
    BY <1>2, <2>1, <2>2, Locked, PlayedOn
<1>4. CASE ~Collides(p, game.board)
  <2>1. game' = [game EXCEPT !.current = p, !.scored = TRUE]
    BY <1>4 DEF SoftDrop
  <2> HIDE DEF p
  <2> DEFINE h == [game EXCEPT !.current = p]
  <2>2. /\ h \in Game /\ h.current = p /\ h.board = game.board /\ (Follows(game) => Follows(h))
        /\ Counted(game) => Counted(h)
    BY <1>1, MovedIs DEF PolyInv
  <2>3. game' = [h EXCEPT !.scored = TRUE]
    BY <2>1
  <2> HIDE DEF h
  <2>4. /\ game' \in Game /\ game'.board = h.board /\ game'.current = h.current
        /\ (Follows(h) => Follows(game')) /\ (Counted(h) => Counted(game'))
    <3>1. TRUE \in BOOLEAN
      OBVIOUS
    <3> QED
      BY <2>2, <2>3, <3>1, NotedIs
  <2>5. Whole(game') /\ (torn \/ Sound(game', gameOver'))
    BY <1>4, <2>2, <2>4 DEF PolyInv, Sound, Whole
  <2> QED
    BY <1>2, <2>4, <2>5, PlayedOn
<1> QED
  BY <1>3, <1>4

LEMMA HardDropKeeps ==
    ASSUME PolyInv, HardDrop
    PROVE  PolyInv'
<1> DEFINE free == {d \in 0..(Rows + 2) :
                        \A e \in 1..d : ~Collides(Moved(0, e, game.current.turn), game.board)}
           p == Moved(0, Max(free), game.current.turn)
           g == [game EXCEPT !.current = p]
<1>1. CanDraw(game) /\ Spawning(Lock(g)) /\ Saved /\ UNCHANGED <<file, torn>>
  BY DEF HardDrop
<1>2. Max(free) \in Int
  <2>1. 0 \in free /\ (\A d \in free : d \in 0..(Rows + 2)) /\ 0 \in Int /\ Rows + 2 \in Int
    BY PolyminoAssumption
  <2>2. Max(free) \in free
    <3> HIDE DEF free
    <3> QED
      BY <2>1, MinMaxAre
  <2> QED
    BY <2>1, <2>2
<1>3. p \in Falling /\ p.family = game.current.family
  BY <1>2, MovedFalls, FallingTurn, 0 \in Int
<1> HIDE DEF p
<1>4. g \in Game /\ CanDraw(g) /\ (Follows(game) => Follows(g)) /\ (Counted(game) => Counted(g))
  BY <1>1, <1>3, MovedIs DEF PolyInv
<1> HIDE DEF g
<1>5. (torn \/ Follows(g)) /\ Counted(g)
  BY <1>4 DEF PolyInv, Sound, Whole
<1> QED
  BY <1>1, <1>4, <1>5, Locked, PlayedOn

LEMMA HoldKeeps ==
    ASSUME PolyInv, Hold
    PROVE  PolyInv'
<1> DEFINE kept == [game EXCEPT !.held = game.current.family]
<1>1. Saved /\ UNCHANGED <<file, torn>>
  BY DEF Hold
<1>2. game \in Game /\ (torn \/ Follows(game)) /\ Settled(game.board) /\ Counted(game)
  BY DEF PolyInv, Sound, Whole
<1>3. /\ kept \in Game /\ kept.board = game.board /\ (Follows(game) => Follows(kept))
      /\ CanDraw(kept) <=> CanDraw(game)
      /\ kept.drawn = game.drawn /\ kept.locked = game.locked /\ kept.held = game.current.family
  BY <1>2, FallingTurn, HeldIs
<1>4. PICK h \in Game : /\ h.board = game.board /\ (Follows(game) => Follows(h)) /\ Counted(h)
                        /\ Spawning([h EXCEPT !.holdUsed = TRUE])
  <2>1. CASE game.held = None
    <3>1. CanDraw(game) /\ Spawning([SpawnNext(kept) EXCEPT !.holdUsed = TRUE])
      BY <2>1 DEF Hold
    <3> HIDE DEF kept
    <3>2. kept \in Table
      BY <1>3 DEF Game
    <3>4. Accounted(kept)
      BY <1>2, <1>3, <2>1, HeldIsPlaced
    <3>3. /\ SpawnNext(kept) \in Game /\ SpawnNext(kept).board = game.board
          /\ (Follows(game) => Follows(SpawnNext(kept))) /\ Counted(SpawnNext(kept))
      BY <1>3, <3>1, <3>2, <3>4, SpawnNextIs
    <3> QED
      BY <3>1, <3>3
  <2>2. CASE game.held # None
    <3>1. Spawning([SpawnHeld(kept, game.held) EXCEPT !.holdUsed = TRUE])
      BY <2>2 DEF Hold
    <3>2. game \in Table
      BY <1>2 DEF Game
    <3>3. game.held \in Family
      BY <2>2, <3>2, TableIs
    <3> HIDE DEF kept
    <3>4. /\ SpawnHeld(kept, game.held) \in Game /\ SpawnHeld(kept, game.held).board = game.board
          /\ Follows(game) => Follows(SpawnHeld(kept, game.held))
          /\ Counted(SpawnHeld(kept, game.held))
      BY <1>2, <1>3, <3>3, SpawnHeldIs
    <3> QED
      BY <3>1, <3>4
  <2> QED
    BY <2>1, <2>2
<1>5. PICK m : m = [h EXCEPT !.holdUsed = TRUE]
  OBVIOUS
<1>6. /\ m \in Game /\ m.board = h.board /\ m.current = h.current /\ (Follows(h) => Follows(m))
      /\ Counted(h) => Counted(m)
  BY <1>5, NotedIs, TRUE \in BOOLEAN
<1>7. game' = m /\ gameOver' = Collides(m.current, m.board)
  BY <1>4, <1>5 DEF Spawning
<1>8. Whole(game') /\ (torn \/ Sound(game', gameOver'))
  BY <1>2, <1>4, <1>6, <1>7 DEF Sound, Whole
<1> QED
  BY <1>1, <1>6, <1>7, <1>8, PlayedOn

\* A step that starts a new game keeps the invariant.
LEMMA StartedOver ==
    ASSUME PolyInv, NEW s \in Seeds, game' = Fresh(s), Saved, UNCHANGED file
    PROVE  PolyInv'
<1>1. game' \in Game /\ game'.seed \in Seeds /\ Whole(game') /\ Sound(game', gameOver')
  BY FreshIs DEF Sound, Whole
<1>2. storage'.seed \in Seeds
  BY <1>1 DEF Saved
<1>3. \/ file' = None
      \/ /\ file'.game \in Game /\ Whole(file'.game)
         /\ file'.torn \/ Sound(file'.game, file'.gameOver)
  BY DEF PolyInv
<1> QED
  BY <1>1, <1>2, <1>3 DEF PolyInv

LEMMA SeedsAre ==
    ASSUME PolyInv
    PROVE  game.seed \in Seeds /\ storage.seed \in Seeds
<1>1. game \in Table /\ storage.seed \in Seeds
  BY DEF PolyInv, Game
<1> QED
  BY <1>1, TableIs

LEMMA ToggleRunKeeps ==
    ASSUME PolyInv, ToggleRun
    PROVE  PolyInv'
<1>1. CASE gameOver /\ game' = Fresh(game.seed) /\ Saved /\ UNCHANGED file
  BY <1>1, SeedsAre, StartedOver
<1>2. CASE UNCHANGED <<game, gameOver, file, torn>> /\ Saved
  <2>1. game' \in Game /\ Whole(game') /\ (torn \/ Sound(game', gameOver'))
    BY <1>2 DEF PolyInv
  <2> QED
    BY <1>2, <2>1, PlayedOn
<1> QED
  BY <1>1, <1>2 DEF ToggleRun

LEMMA ExportKeeps ==
    ASSUME PolyInv, Export
    PROVE  PolyInv'
<1>1. /\ file'.game = game /\ file'.gameOver = gameOver /\ file'.torn = torn
      /\ game' = game /\ gameOver' = gameOver /\ torn' = torn /\ Saved
  BY DEF Export
<1>2. game \in Game /\ Whole(game) /\ (torn \/ Sound(game, gameOver))
  BY DEF PolyInv
<1>3. storage'.seed \in Seeds
  BY <1>1, SeedsAre DEF Saved
<1> QED
  BY <1>1, <1>2, <1>3 DEF PolyInv

LEMMA ImportKeeps ==
    ASSUME PolyInv, Import
    PROVE  PolyInv'
<1>1. /\ game' = file.game /\ gameOver' = file.gameOver /\ torn' = file.torn
      /\ file # None /\ Saved /\ file' = file
  BY DEF Import
<1>2. game' \in Game /\ Whole(game') /\ (torn' \/ Sound(game', gameOver'))
  BY <1>1 DEF PolyInv
<1>3. storage'.seed \in Seeds
  <2>1. game' \in Table
    BY <1>2 DEF Game
  <2> QED
    BY <1>1, <2>1, TableIs DEF Saved
<1>4. \/ file' = None
      \/ /\ file'.game \in Game /\ Whole(file'.game)
         /\ file'.torn \/ Sound(file'.game, file'.gameOver)
  BY <1>1 DEF PolyInv
<1> QED
  BY <1>2, <1>3, <1>4 DEF PolyInv

LEMMA ImportRefusedKeeps ==
    ASSUME PolyInv, ImportRefused
    PROVE  PolyInv'
<1>1. torn' /\ Saved /\ file' = file /\ file # None
  BY DEF ImportRefused
<1>2. file.game \in Game /\ game \in Game /\ file.game \in Table /\ game \in Table
  BY <1>1 DEF PolyInv, Game
<1>3. PICK cell \in file.game.board :
        game' = [game EXCEPT !.seed = file.game.seed, !.shuffles = file.game.shuffles,
                             !.board = file.game.board \ {cell}]
  BY DEF ImportRefused
<1> DEFINE a == file.game.seed
           b == file.game.shuffles
           c == file.game.board \ {cell}
<1>4. a \in Seeds /\ b \in 0..MaxShuffles /\ c \in Boards
  <2>1. file.game.board \in Boards
    BY <1>2, TableIs
  <2>2. c \in Boards
    BY <2>1 DEF Boards
  <2> QED
    BY <1>2, <2>2, TableIs
<1>5. game' = [game EXCEPT !.seed = a, !.shuffles = b, !.board = c]
  BY <1>3
<1> HIDE DEF a, b, c
<1>6. game' = [seed |-> a, shuffles |-> b, board |-> c, current |-> game.current, queue |-> game.queue,
               held |-> game.held, holdUsed |-> game.holdUsed, scored |-> game.scored,
               drawn |-> game.drawn, locked |-> game.locked]
  <2> DEFINE g == [game EXCEPT !.seed = a]
             h == [g EXCEPT !.shuffles = b]
  <2>1. game' = [h EXCEPT !.board = c]
    BY <1>2, <1>5, TableIs
  <2>4. game = [seed |-> game.seed, shuffles |-> game.shuffles, board |-> game.board,
                current |-> game.current, queue |-> game.queue, held |-> game.held,
                holdUsed |-> game.holdUsed, scored |-> game.scored,
                drawn |-> game.drawn, locked |-> game.locked]
    BY <1>2, TableIs
  <2>2. g = [seed |-> a, shuffles |-> game.shuffles, board |-> game.board, current |-> game.current,
             queue |-> game.queue, held |-> game.held, holdUsed |-> game.holdUsed, scored |-> game.scored,
             drawn |-> game.drawn, locked |-> game.locked]
    BY <2>4
  <2> HIDE DEF g
  <2>3. h = [seed |-> a, shuffles |-> b, board |-> game.board, current |-> game.current,
             queue |-> game.queue, held |-> game.held, holdUsed |-> game.holdUsed, scored |-> game.scored,
             drawn |-> game.drawn, locked |-> game.locked]
    BY <2>2
  <2> HIDE DEF h
  <2> QED
    BY <2>1, <2>3
<1>10. Settled(c)
  <2>1. Settled(file.game.board)
    BY <1>1 DEF PolyInv, Whole
  <2> QED
    BY <2>1 DEF c, Settled, Full
<1>11. Whole(game')
  <2>1. /\ game'.board = c /\ game'.drawn = game.drawn /\ game'.locked = game.locked
        /\ game'.held = game.held /\ game'.current = game.current
    BY <1>6
  <2>2. Counted(game)
    BY DEF PolyInv, Whole
  <2>3. Counted(game')
    BY <2>1, <2>2, SamePieces
  <2> QED
    BY <1>10, <2>1, <2>3 DEF Whole
<1>7. game' \in Game
  <2>1. game.current \in Falling
    BY <1>2 DEF Game
  <2>2. game' \in Table
    BY <1>2, <1>4, <1>6, TableIs DEF Table
  <2> QED
    BY <1>6, <2>1, <2>2 DEF Game
<1>8. storage'.seed \in Seeds
  BY <1>1, <1>4, <1>6 DEF Saved
<1>9. \/ file' = None
      \/ /\ file'.game \in Game /\ Whole(file'.game)
         /\ file'.torn \/ Sound(file'.game, file'.gameOver)
  BY <1>1 DEF PolyInv
<1> QED
  BY <1>1, <1>7, <1>8, <1>9, <1>11 DEF PolyInv

THEOREM PolyInvariant == PolySpec => []PolyInv
<1>1. PolyInit => PolyInv
  BY InitSound
<1>2. PolyInv /\ [PolyNext]_polyVars => PolyInv'
  <2> SUFFICES ASSUME PolyInv, [PolyNext]_polyVars
               PROVE  PolyInv'
    OBVIOUS
  <2>1. CASE Shift
    BY <2>1, ShiftKeeps
  <2>2. CASE Rotate
    BY <2>2, RotateKeeps
  <2>3. CASE SoftDrop
    BY <2>3, SoftDropKeeps
  <2>4. CASE HardDrop
    BY <2>4, HardDropKeeps
  <2>5. CASE Hold
    BY <2>5, HoldKeeps
  <2>6. ASSUME NEW s \in Seeds, Reset(s) PROVE PolyInv'
    BY <2>6, StartedOver DEF Reset
  <2>7. CASE ToggleRun
    BY <2>7, ToggleRunKeeps
  <2>8. CASE Export
    BY <2>8, ExportKeeps
  <2>9. CASE Import
    BY <2>9, ImportKeeps
  <2>10. CASE ImportRefused
    BY <2>10, ImportRefusedKeeps
  <2>11. CASE Reload
    BY <2>11, SeedsAre, StartedOver DEF Reload
  <2>12. CASE UNCHANGED polyVars
    BY <2>12 DEF polyVars, PolyInv
  <2> QED
    BY <2>1, <2>2, <2>3, <2>4, <2>5, <2>6, <2>7, <2>8, <2>9, <2>10, <2>11, <2>12 DEF PolyNext
<1> QED
  BY <1>1, <1>2, PTL DEF PolySpec

\* No full row is left behind, and only a run that is over or one that a refused snapshot tore
\* has a piece that collides.
THEOREM StackStaysSettled == PolySpec => []StackIsSettled
<1>1. PolyInv => StackIsSettled
  BY DEF PolyInv, Sound, Whole, Settled, StackIsSettled
<1> QED
  BY <1>1, PolyInvariant, PTL

\* The pieces come in the order of the seed, none is lost and none comes twice.
THEOREM PiecesFollow == PolySpec => []PiecesFollowTheSeed
<1>1. PolyInv => PiecesFollowTheSeed
  <2> SUFFICES ASSUME PolyInv PROVE PiecesFollowTheSeed
    OBVIOUS
  <2>1. torn \/ game.drawn \o game.queue = FlattenSeq(SubSeq(Bag[game.seed], 1, game.shuffles))
    BY DEF PolyInv, Sound, Follows, Given
  <2>2. ASSUME NEW f \in Family
        PROVE  Times(game.drawn, f) =
                   game.locked[f] + (IF game.current.family = f THEN 1 ELSE 0)
                                  + (IF game.held = f THEN 1 ELSE 0)
    <3>1. Times(game.drawn, f) = game.locked[f] + One(game.held, f) + One(game.current.family, f)
      BY DEF PolyInv, Whole, Counted, Tally
    <3>2. game.locked[f] \in Nat
      <4>1. game \in Table
        BY DEF PolyInv, Game
      <4> QED
        BY <4>1, TableIs
    <3> QED
      BY <3>1, <3>2 DEF One
  <2> QED
    BY <2>1, <2>2 DEF PiecesFollowTheSeed
<1> QED
  BY <1>1, PolyInvariant, PTL
==============================================================================
