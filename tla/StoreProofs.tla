----------------------------- MODULE StoreProofs -----------------------------
(***************************************************************************)
(* Proofs about the stores that agents, processes and refreshes share: the *)
(* task ledger, the ownership file, rites, the environment file and the    *)
(* catalog.  They have no variable in common, and each part speaks of one. *)
(***************************************************************************)
EXTENDS TaskLedger, WriteOwnership, Rites, EnvFile, Catalog, FiniteSetTheorems, TLAPS

(***************************************************************************)
(* Proofs about TaskLedger.tla, for any tasks, agents and length of the    *)
(* journal: what the journal tells of a task is what the table says, and   *)
(* stopped work is taken anew before it is completed.                      *)
(*                                                                         *)
(* That a stop holds is a property of the journal alone and not inductive: *)
(* a "complete" is written because the task is running, so the invariant   *)
(* ties what the journal says of the last stop to the state in the table.  *)
(***************************************************************************)

Entry == [event : Events, actor : Agent]
Tells(event) == event \notin {"created", "controls"}
Taken == {"claimed", "leased"}
Halting == {"stopped", "blocked"}
Resting == {"blocked", "pending", "failed"}

\* The last event that moves a task names its state and, after a claim, its lease.
LastTells(t) ==
    \/ Telling(t) = {} /\ state[t] \in {"none", "pending"}
    \/ \E i \in Telling(t) :
        /\ \A j \in Telling(t) : j <= i
        /\ state[t] # "none" /\ state[t] = After(events[t][i].event)
        /\ events[t][i].event = "claimed" => lease[t] = events[t][i].actor

\* A task that was stopped rests until it is taken.
RestsUntilTaken(t) ==
    \A i \in Telling(t) : events[t][i].event \in Halting =>
        \/ state[t] \in Resting
        \/ \E j \in Telling(t) : i < j /\ events[t][j].event \in Taken

TaskInv(t) == LastTells(t) /\ RestsUntilTaken(t) /\ StopsHold(t)

LedgerInv == LedgerTypeOK /\ \A t \in TaskId : TaskInv(t)

------------------------------------------------------------------------------
(* Journals *)

\* An event that is logged comes last, and the others stay where they were.
LEMMA LogAppends ==
    ASSUME LedgerTypeOK, NEW t \in TaskId, NEW a \in Agent, NEW event \in Events, Log(t, a, event)
    PROVE  LET n == Len(events[t]) + 1
           IN  /\ events' \in [TaskId -> Seq(Entry)]
               /\ events'[t][n] = [event |-> event, actor |-> a]
               /\ \A i \in Telling(t) : i \in Nat /\ i < n /\ events'[t][i] = events[t][i]
               /\ Telling(t)' = Telling(t) \cup (IF Tells(event) THEN {n} ELSE {})
               /\ \A u \in TaskId \ {t} : events'[u] = events[u]
<1> DEFINE n == Len(events[t]) + 1
           e == [event |-> event, actor |-> a]
<1>1. events[t] \in Seq(Entry) /\ e \in Entry
  BY DEF LedgerTypeOK, Entry
<1>2. events' = [events EXCEPT ![t] = Append(@, e)]
  BY DEF Log
<1>3. events'[t] = Append(events[t], e) /\ \A u \in TaskId \ {t} : events'[u] = events[u]
  BY <1>2 DEF LedgerTypeOK
<1>4. /\ DOMAIN events'[t] = DOMAIN events[t] \cup {n} /\ events'[t][n] = e
      /\ \A i \in DOMAIN events[t] : i \in Nat /\ i < n /\ events'[t][i] = events[t][i]
  BY <1>1, <1>3
<1>5. events' \in [TaskId -> Seq(Entry)]
  <2>1. events \in [TaskId -> Seq(Entry)]
    BY DEF LedgerTypeOK, Entry
  <2> HIDE DEF e
  <2>2. Append(events[t], e) \in Seq(Entry)
    BY <1>1
  <2> QED BY <1>2, <2>1, <2>2
<1>6. e.event = event
  OBVIOUS
<1>7. Telling(t)' = Telling(t) \cup (IF Tells(event) THEN {n} ELSE {})
  <2> HIDE DEF e, n
  <2> QED BY <1>4, <1>6 DEF Telling, Tells
<1>8. Telling(t) \subseteq DOMAIN events[t]
  BY DEF Telling
<1> QED BY <1>3, <1>4, <1>5, <1>7, <1>8

\* A task whose events, state and lease stay is in order as it was.
LEMMA OthersKeep ==
    ASSUME NEW t \in TaskId, TaskInv(t), events'[t] = events[t],
           state'[t] = state[t], lease'[t] = lease[t]
    PROVE  TaskInv(t)'
BY DEF TaskInv, LastTells, RestsUntilTaken, StopsHold, Telling, After

\* An event that moves no task leaves its journal as telling as it was.
LEMMA QuietKeeps ==
    ASSUME LedgerInv, NEW t \in TaskId, NEW a \in Agent, NEW event \in {"created", "controls"},
           Log(t, a, event), UNCHANGED <<state, lease>>
    PROVE  TaskInv(t)'
<1>1. /\ Telling(t)' = Telling(t)
      /\ \A i \in Telling(t) : events'[t][i] = events[t][i]
  BY LogAppends DEF LedgerInv, Tells, Events
<1>2. TaskInv(t)
  BY DEF LedgerInv
<1>3. LastTells(t)'
  BY <1>1, <1>2 DEF TaskInv, LastTells, After
<1>4. RestsUntilTaken(t)'
  BY <1>1, <1>2 DEF TaskInv, RestsUntilTaken
<1>5. StopsHold(t)'
  BY <1>1, <1>2 DEF TaskInv, StopsHold
<1> QED BY <1>3, <1>4, <1>5 DEF TaskInv

\* An event that names the state the task is put in keeps the journal true, if only a running
\* task is completed and a resting one goes on resting until it is taken.
LEMMA MoveKeeps ==
    ASSUME LedgerInv, NEW t \in TaskId, NEW a \in Agent, NEW event \in Events, Tells(event),
           Log(t, a, event), state' = [state EXCEPT ![t] = After(event)], After(event) \in States,
           event = "claimed" => lease'[t] = a,
           event = "complete" => state[t] = "running",
           state[t] \in Resting => event \in Taken \/ After(event) \in Resting
    PROVE  TaskInv(t)'
<1> DEFINE n == Len(events[t]) + 1
<1>1. /\ Telling(t)' = Telling(t) \cup {n}
      /\ events'[t][n].event = event /\ events'[t][n].actor = a
      /\ \A i \in Telling(t) : i \in Nat /\ i < n /\ events'[t][i] = events[t][i]
  <2>1. /\ events'[t][n] = [event |-> event, actor |-> a]
        /\ \A i \in Telling(t) : i \in Nat /\ i < n /\ events'[t][i] = events[t][i]
        /\ Telling(t)' = Telling(t) \cup (IF Tells(event) THEN {n} ELSE {})
    BY LogAppends, Zenon DEF LedgerInv
  <2> QED BY <2>1
<1>2. TaskInv(t) /\ state'[t] = After(event) /\ n \in Nat
  BY DEF LedgerInv, LedgerTypeOK
<1> HIDE DEF n
<1>3. LastTells(t)'
  <2>1. n \in Telling(t)' /\ \A j \in Telling(t)' : j <= n
    BY <1>1, <1>2
  <2>2. state'[t] # "none"
    BY <1>2 DEF States
  <2> QED BY <1>1, <1>2, <2>1, <2>2 DEF LastTells, After
<1>4. RestsUntilTaken(t)'
  <2> SUFFICES ASSUME NEW i \in Telling(t)', events'[t][i].event \in Halting
               PROVE  \/ state'[t] \in Resting
                      \/ \E j \in Telling(t)' : i < j /\ events'[t][j].event \in Taken
    BY DEF RestsUntilTaken
  <2>1. CASE i = n
    BY <1>1, <1>2, <2>1 DEF Halting, After, Resting
  <2>2. CASE i \in Telling(t)
    <3>1. CASE state[t] \in Resting
      BY <1>1, <1>2, <2>2, <3>1
    <3>2. CASE state[t] \notin Resting
      <4>1. PICK j \in Telling(t) : i < j /\ events[t][j].event \in Taken
        BY <1>1, <1>2, <2>2, <3>2 DEF TaskInv, RestsUntilTaken
      <4> QED BY <1>1, <4>1
    <3> QED BY <3>1, <3>2
  <2> QED BY <1>1, <2>1, <2>2
<1>5. StopsHold(t)'
  <2> SUFFICES ASSUME NEW i \in Telling(t)', NEW k \in Telling(t)', i < k,
                      events'[t][i].event \in Halting, events'[t][k].event = "complete"
               PROVE  \E j \in Telling(t)' : i < j /\ j < k /\ events'[t][j].event \in Taken
    BY DEF StopsHold, Halting, Taken
  <2>1. i \in Telling(t)
    BY <1>1, <1>2
  <2>2. CASE k \in Telling(t)
    <3>1. PICK j \in Telling(t) : i < j /\ j < k /\ events[t][j].event \in Taken
      BY <1>1, <1>2, <2>1, <2>2 DEF TaskInv, StopsHold, Halting, Taken
    <3> QED BY <1>1, <3>1
  <2>3. CASE k = n
    <3>1. state[t] \notin Resting
      BY <1>1, <2>3 DEF Resting
    <3>2. PICK j \in Telling(t) : i < j /\ events[t][j].event \in Taken
      BY <1>1, <1>2, <2>1, <3>1 DEF TaskInv, RestsUntilTaken
    <3> QED BY <1>1, <2>3, <3>2
  <2> QED BY <1>1, <2>2, <2>3
<1> QED BY <1>3, <1>4, <1>5 DEF TaskInv

------------------------------------------------------------------------------
(* Steps *)

\* What is left of a step of one task once that task is in order.
LEMMA StepOfOneTask ==
    ASSUME LedgerInv, NEW t \in TaskId, TaskInv(t)', LedgerTypeOK',
           \A u \in TaskId \ {t} :
               events'[u] = events[u] /\ state'[u] = state[u] /\ lease'[u] = lease[u]
    PROVE  LedgerInv'
<1>1. ASSUME NEW u \in TaskId, u # t PROVE TaskInv(u)'
  BY <1>1, OthersKeep DEF LedgerInv
<1> QED BY <1>1 DEF LedgerInv

\* Creating a task writes no event.
LEMMA CreateKeeps ==
    ASSUME LedgerInv, NEW t \in TaskId, CreateTask(t)
    PROVE  LedgerInv'
<1>1. LedgerTypeOK'
  BY DEF LedgerInv, LedgerTypeOK, CreateTask, States
<1>2. state[t] = "none" /\ state' = [state EXCEPT ![t] = "pending"] /\ UNCHANGED <<lease, events>>
  BY DEF CreateTask
<1>3. TaskInv(t) /\ state'[t] = "pending"
  BY <1>2 DEF LedgerInv, LedgerTypeOK
<1>4. Telling(t) = {} /\ Telling(t)' = {}
  BY <1>2, <1>3 DEF TaskInv, LastTells, Telling
<1>5. TaskInv(t)'
  BY <1>3, <1>4 DEF TaskInv, LastTells, RestsUntilTaken, StopsHold
<1>6. \A u \in TaskId \ {t} :
          events'[u] = events[u] /\ state'[u] = state[u] /\ lease'[u] = lease[u]
  BY <1>2 DEF LedgerInv, LedgerTypeOK
<1> QED BY <1>1, <1>5, <1>6, StepOfOneTask

\* A late "created" and a change of controls move no task.
LEMMA QuietStepsKeep ==
    ASSUME LedgerInv, NEW t \in TaskId, NEW a \in Agent, LogCreated(t, a) \/ SetControls(t, a)
    PROVE  LedgerInv'
<1>1. PICK event \in {"created", "controls"} :
          Log(t, a, event) /\ UNCHANGED <<state, lease>> /\ due' \subseteq TaskId
  BY DEF LogCreated, SetControls, LedgerInv, LedgerTypeOK
<1>2. TaskInv(t)'
  BY <1>1, QuietKeeps
<1>3. events' \in [TaskId -> Seq(Entry)] /\ \A u \in TaskId \ {t} : events'[u] = events[u]
  BY <1>1, LogAppends DEF LedgerInv, Events
<1>4. LedgerTypeOK'
  BY <1>1, <1>3 DEF LedgerInv, LedgerTypeOK, Entry
<1> QED BY <1>1, <1>2, <1>3, <1>4, StepOfOneTask

\* claim, transition and stop write the event that names the state.
LEMMA MovesKeep ==
    ASSUME LedgerInv, NEW t \in TaskId, NEW a \in Agent,
           Claim(t, a) \/ StopTask(t, a) \/ \E s \in States : Transition(t, a, s)
    PROVE  LedgerInv'
<1> DEFINE Right(event) ==
             /\ event \in Events /\ Tells(event) /\ After(event) \in States
             /\ Log(t, a, event) /\ state' = [state EXCEPT ![t] = After(event)]
             /\ lease' = lease \/ \E b \in Agent \cup {Nobody} : lease' = [lease EXCEPT ![t] = b]
             /\ event = "claimed" => lease'[t] = a
             /\ event = "complete" => state[t] = "running"
             /\ state[t] \in Resting => event \in Taken \/ After(event) \in Resting
             /\ due' = due
<1>1. state[t] \in States \cup {"none"} /\ t \in DOMAIN lease
  BY DEF LedgerInv, LedgerTypeOK
<1>2. ASSUME Claim(t, a) PROVE Right("claimed")
  BY <1>1, <1>2 DEF Claim, Events, Tells, After, States, Taken
<1>3. ASSUME StopTask(t, a) PROVE Right("stopped")
  BY <1>1, <1>3 DEF StopTask, Events, Tells, After, States, Resting
<1>4. ASSUME NEW s \in States, Transition(t, a, s) PROVE Right(s)
  <2>1. /\ After(s) = s /\ s \in Events /\ Tells(s)
        /\ s = "complete" => state[t] = "running"
        /\ state[t] \in Resting => s \in Taken \/ s \in Resting
    BY <1>1, <1>4 DEF Transition, Follows, After, States, Events, Moves, Tells, Taken, Resting
  <2> QED BY <1>4, <2>1 DEF Transition, States
<1> HIDE DEF Right
<1>5. PICK event : Right(event)
  BY <1>2, <1>3, <1>4
<1> USE DEF Right
<1>6. TaskInv(t)'
  BY <1>5, MoveKeeps
<1>7. events' \in [TaskId -> Seq(Entry)] /\ \A u \in TaskId \ {t} : events'[u] = events[u]
  BY <1>5, LogAppends DEF LedgerInv
<1>8. LedgerTypeOK'
  BY <1>5, <1>7 DEF LedgerInv, LedgerTypeOK, Entry
<1>9. \A u \in TaskId \ {t} : state'[u] = state[u] /\ lease'[u] = lease[u]
  BY <1>5 DEF LedgerInv, LedgerTypeOK
<1> QED BY <1>6, <1>7, <1>8, <1>9, StepOfOneTask

------------------------------------------------------------------------------
(* The theorems *)

\* The inductive invariant of the table and the journal.
THEOREM LedgerInvariant == LedgerSpec => []LedgerInv
<1>1. LedgerInit => LedgerInv
  BY DEF LedgerInit, LedgerInv, LedgerTypeOK, TaskInv, LastTells, RestsUntilTaken, StopsHold, Telling
<1>2. LedgerInv /\ [LedgerNext]_ledgerVars => LedgerInv'
  <2> SUFFICES ASSUME LedgerInv, [LedgerNext]_ledgerVars PROVE LedgerInv'
    OBVIOUS
  <2>1. CASE UNCHANGED ledgerVars
    <3>1. LedgerTypeOK'
      BY <2>1 DEF ledgerVars, LedgerInv, LedgerTypeOK
    <3> QED BY <2>1, <3>1, OthersKeep DEF ledgerVars, LedgerInv
  <2>2. CASE LedgerNext
    BY <2>2, CreateKeeps, QuietStepsKeep, MovesKeep DEF LedgerNext
  <2> QED BY <2>1, <2>2
<1> QED BY <1>1, <1>2, PTL DEF LedgerSpec

\* Two greatest members of a set of positions are one.
LEMMA LastIsOne ==
    ASSUME NEW I \in SUBSET Nat, NEW i \in I, \A j \in I : j <= i
    PROVE  LastOf(I) = i
<1>1. LastOf(I) \in I /\ \A j \in I : j <= LastOf(I)
  BY DEF LastOf
<1>2. LastOf(I) \in Nat /\ i \in Nat /\ LastOf(I) <= i /\ i <= LastOf(I)
  BY <1>1
<1> HIDE DEF LastOf
<1> QED BY <1>2

\* The journal names the state and the lease of a task, and no stopped work is completed before
\* it is taken anew, however agents claim, move and stop it (task_ledger.py:62-138).
THEOREM JournalAlwaysTells == LedgerSpec => []JournalTellsTheState
<1>1. LedgerInv => JournalTellsTheState
  <2> SUFFICES ASSUME LedgerInv, NEW t \in TaskId PROVE StateIsToldLast(t) /\ StopsHold(t)
    BY DEF JournalTellsTheState
  <2> DEFINE claims == {i \in Telling(t) : events[t][i].event = "claimed"}
  <2>1. TaskInv(t) /\ Telling(t) \in SUBSET Nat /\ claims \in SUBSET Nat
    <3>1. events[t] \in Seq(Entry)
      BY DEF LedgerInv, LedgerTypeOK, Entry
    <3>2. DOMAIN events[t] \subseteq Nat
      BY <3>1
    <3> QED BY <3>2 DEF LedgerInv, Telling
  <2>2. CASE Telling(t) = {}
    <3>1. state[t] \in {"none", "pending"}
      BY <2>1, <2>2 DEF TaskInv, LastTells
    <3> QED BY <2>1, <2>2, <3>1 DEF StateIsToldLast, TaskInv
  <2>3. CASE Telling(t) # {}
    <3>1. PICK i \in Telling(t) :
              /\ \A j \in Telling(t) : j <= i
              /\ state[t] # "none" /\ state[t] = After(events[t][i].event)
              /\ events[t][i].event = "claimed" => lease[t] = events[t][i].actor
      BY <2>1, <2>3 DEF TaskInv, LastTells
    <3>2. LastOf(Telling(t)) = i
      BY <2>1, <3>1, LastIsOne
    <3>3. events[t][i].event = "claimed" => LastOf(claims) = i
      BY <2>1, <3>1, LastIsOne
    <3> HIDE DEF claims
    <3>4. StateIsToldLast(t)
      BY <2>3, <3>1, <3>2, <3>3 DEF StateIsToldLast, claims
    <3> QED BY <2>1, <3>4 DEF TaskInv
  <2> QED BY <2>2, <2>3
<1> QED BY <1>1, LedgerInvariant, PTL

(***************************************************************************)
(* Proofs about WriteOwnership.tla, for any number of processes, tasks,    *)
(* actors and patterns: however reads and writes of the file interleave,   *)
(* no two records of it overlap except an ownership and its delegation.    *)
(*                                                                         *)
(* What is in the file says nothing of what a process is about to write    *)
(* over it, so the invariant speaks of both: of the file, of every list a  *)
(* process has ready, and of the delegation one has checked.               *)
(***************************************************************************)

\* A process between the two reads of delegate holds one delegation.
CheckedIsDelegation(p) ==
    job[p] = "checked" => \E r \in Record : want[p] = <<r>> /\ r.kind = "delegation"

ReadyIsApart(p) == job[p] \in {"ready", "writing"} => Apart(want[p])

OwnershipInv ==
    /\ OwnershipTypeOK
    /\ Apart(file)
    /\ \A p \in Process : CheckedIsDelegation(p) /\ ReadyIsApart(p)

------------------------------------------------------------------------------
(* Lists of records *)

\* No record overlaps anything in an empty file.
LEMMA EmptyIsApart == <<>> \in Seq(Record) /\ Apart(<<>>)
<1>1. <<>> \in Seq(Record)
  OBVIOUS
<1>2. Apart(<<>>)
  BY DEF Apart
<1> QED BY <1>1, <1>2

\* A record that may follow each record of a list may be appended to it: what grant and delegate
\* check of the file is what they need to know of it.
LEMMA AppendIsApart ==
    ASSUME NEW s \in Seq(Record), NEW r \in Record, Apart(s),
           \A i \in DOMAIN s : MayFollow(s[i], r)
    PROVE  Apart(Append(s, r))
<1> SUFFICES ASSUME NEW i \in DOMAIN Append(s, r), NEW j \in DOMAIN Append(s, r), i < j
             PROVE  MayFollow(Append(s, r)[i], Append(s, r)[j])
  BY DEF Apart
<1>1. i \in DOMAIN s /\ Append(s, r)[i] = s[i]
  OBVIOUS
<1>2. CASE j \in DOMAIN s
  <2>1. Append(s, r)[j] = s[j]
    BY <1>2
  <2> QED BY <1>1, <1>2, <2>1 DEF Apart
<1>3. CASE j \notin DOMAIN s
  <2>1. Append(s, r)[j] = r
    BY <1>3
  <2> QED BY <1>1, <2>1
<1> QED BY <1>2, <1>3

\* The record a revocation leaves in the place of r.
Revoked(r) == [r EXCEPT !.revoked = TRUE]

\* Revoking changes nothing that overlapping depends on.
LEMMA RevokedMayFollow ==
    ASSUME NEW r \in Record, NEW s \in Record,
           NEW r2 \in {r, Revoked(r)}, NEW s2 \in {s, Revoked(s)}, MayFollow(r, s)
    PROVE  MayFollow(r2, s2) /\ r2 \in Record
<1>1. /\ r2 \in Record /\ r2.kind = r.kind /\ r2.task = r.task /\ r2.issuer = r.issuer
      /\ r2.actor = r.actor /\ r2.scopes = r.scopes
  BY DEF Record, Revoked
<1>2. /\ s2.kind = s.kind /\ s2.task = s.task /\ s2.issuer = s.issuer
      /\ s2.scopes = s.scopes
  BY DEF Record, Revoked
<1> QED BY <1>1, <1>2 DEF MayFollow, Overlap, Owns

------------------------------------------------------------------------------
(* The invariant *)

\* What changes of a process that takes a step, and that nothing else does.
LEMMA StepKeeps ==
    ASSUME OwnershipInv, NEW p \in Process,
           NEW at \in {"idle", "checked", "ready", "writing"}, NEW records \in Seq(Record),
           Step(p, at, records), file' \in Seq(Record), Apart(file'), torn' \in BOOLEAN,
           mixed' \subseteq Process,
           at = "checked" => \E r \in Record : records = <<r>> /\ r.kind = "delegation",
           at \in {"ready", "writing"} => Apart(records)
    PROVE  OwnershipInv'
<1>1. OwnershipTypeOK'
  BY DEF OwnershipInv, OwnershipTypeOK, Step
<1>2. ASSUME NEW q \in Process PROVE CheckedIsDelegation(q)'
  BY DEF OwnershipInv, OwnershipTypeOK, Step, CheckedIsDelegation
<1>3. ASSUME NEW q \in Process PROVE ReadyIsApart(q)'
  BY DEF OwnershipInv, OwnershipTypeOK, Step, ReadyIsApart, Apart
<1>4. Apart(file)'
  BY DEF Apart
<1> QED BY <1>1, <1>2, <1>3, <1>4 DEF OwnershipInv

\* A grant adds a record that none of the file stands against.
LEMMA GrantKeeps ==
    ASSUME OwnershipInv, NEW p \in Process, NEW r \in Record, Grant(p, r)
    PROVE  OwnershipInv'
<1>1. Apart(Append(file, r))
  <2>1. \A i \in DOMAIN file : MayFollow(file[i], r)
    <3> SUFFICES ASSUME NEW i \in DOMAIN file PROVE ~Overlap(file[i], r)
      BY DEF MayFollow
    <3>1. ~Overlap(r, file[i])
      BY DEF Grant
    <3> QED BY <3>1 DEF Overlap, Nested
  <2> QED BY <2>1, AppendIsApart DEF OwnershipInv, OwnershipTypeOK
<1>2. Append(file, r) \in Seq(Record)
  BY DEF OwnershipInv, OwnershipTypeOK
<1>3. Step(p, "ready", Append(file, r)) /\ UNCHANGED <<file, torn, mixed>>
  BY DEF Grant
<1>4. file' \in Seq(Record) /\ Apart(file') /\ torn' \in BOOLEAN /\ mixed' \subseteq Process
  BY <1>3 DEF OwnershipInv, OwnershipTypeOK
<1> QED BY <1>1, <1>2, <1>3, <1>4, StepKeeps

\* The check before a delegation keeps what is to be delegated, and writes nothing.
LEMMA DelegateChecksKeeps ==
    ASSUME OwnershipInv, NEW p \in Process, NEW r \in Record, DelegateChecks(p, r)
    PROVE  OwnershipInv'
<1>1. Step(p, "checked", <<r>>) /\ UNCHANGED <<file, torn, mixed>> /\ r.kind = "delegation"
  BY DEF DelegateChecks
<1>2. file' \in Seq(Record) /\ Apart(file') /\ torn' \in BOOLEAN /\ mixed' \subseteq Process
  BY <1>1 DEF OwnershipInv, OwnershipTypeOK
<1>3. <<r>> \in Seq(Record) /\ \E q \in Record : <<r>> = <<q>> /\ q.kind = "delegation"
  BY <1>1
<1> QED BY <1>1, <1>2, <1>3, StepKeeps

\* A delegation is put to the records as they are read then, whatever was checked before.
LEMMA DelegateReadsKeeps ==
    ASSUME OwnershipInv, NEW p \in Process, DelegateReads(p)
    PROVE  OwnershipInv'
<1>1. PICK r \in Record : want[p] = <<r>> /\ r.kind = "delegation"
  BY DEF DelegateReads, OwnershipInv, CheckedIsDelegation
<1>2. want[p][1] = r
  BY <1>1
<1>3. UNCHANGED <<file, torn, mixed>>
  BY DEF DelegateReads
<1>4. file' \in Seq(Record) /\ Apart(file') /\ torn' \in BOOLEAN /\ mixed' \subseteq Process
  BY <1>3 DEF OwnershipInv, OwnershipTypeOK
<1>5. CASE ~torn /\ \A i \in DOMAIN file :
               Owns(file[i], r.task, r.issuer) \/ ~Overlap(r, file[i])
  <2>1. Step(p, "ready", Append(file, r))
    BY <1>2, <1>5 DEF DelegateReads
  <2>2. \A i \in DOMAIN file : MayFollow(file[i], r)
    <3> SUFFICES ASSUME NEW i \in DOMAIN file, Overlap(file[i], r)
                 PROVE  Owns(file[i], r.task, r.issuer)
      BY <1>1 DEF MayFollow
    <3>1. Overlap(r, file[i])
      BY DEF Overlap, Nested
    <3> QED BY <1>5, <3>1
  <2>3. Apart(Append(file, r)) /\ Append(file, r) \in Seq(Record)
    BY <2>2, AppendIsApart DEF OwnershipInv, OwnershipTypeOK
  <2> QED BY <1>4, <2>1, <2>3, StepKeeps
<1>6. CASE ~(~torn /\ \A i \in DOMAIN file :
               Owns(file[i], r.task, r.issuer) \/ ~Overlap(r, file[i]))
  <2>1. Step(p, "idle", <<>>)
    BY <1>2, <1>6 DEF DelegateReads
  <2> QED BY <1>4, <2>1, EmptyIsApart, StepKeeps
<1> QED BY <1>5, <1>6

\* A revocation goes on with fewer records, which are as apart as they were.
LEMMA RevokeKeeps ==
    ASSUME OwnershipInv, NEW p \in Process, NEW task \in TaskKey, NEW actor \in Writer,
           NEW by \in Writer, Revoke(p, task, actor, by)
    PROVE  OwnershipInv'
<1> DEFINE Hit(r) == r.task = task /\ r.kind = "delegation" /\ r.actor = actor
           after == [i \in DOMAIN file |-> IF Hit(file[i]) THEN Revoked(file[i]) ELSE file[i]]
<1>1. Step(p, "ready", after) /\ UNCHANGED <<file, torn, mixed>>
  BY DEF Revoke, Revoked
<1>2. file' \in Seq(Record) /\ Apart(file') /\ torn' \in BOOLEAN /\ mixed' \subseteq Process
  BY <1>1 DEF OwnershipInv, OwnershipTypeOK
<1>3. \A i \in DOMAIN file : file[i] \in Record /\ after[i] \in {file[i], Revoked(file[i])}
  BY DEF OwnershipInv, OwnershipTypeOK
<1>4. after \in Seq(Record)
  <2>1. \A i \in DOMAIN file : Revoked(file[i]) \in Record
    BY <1>3 DEF Record, Revoked
  <2>2. DOMAIN file = 1..Len(file) /\ Len(file) \in Nat
    BY DEF OwnershipInv, OwnershipTypeOK
  <2>3. after \in [1..Len(file) -> Record]
    BY <1>3, <2>1, <2>2
  <2> QED BY <2>2, <2>3
<1>5. Apart(after)
  <2> SUFFICES ASSUME NEW i \in DOMAIN file, NEW j \in DOMAIN file, i < j
               PROVE  MayFollow(after[i], after[j])
    BY DEF Apart
  <2>1. MayFollow(file[i], file[j])
    BY DEF OwnershipInv, Apart
  <2> HIDE DEF after
  <2> QED BY <1>3, <2>1, RevokedMayFollow
<1> HIDE DEF after
<1> QED BY <1>1, <1>2, <1>4, <1>5, StepKeeps

\* Emptying the file, filling it and dying in between leave records that are apart, or none.
LEMMA WritesKeep ==
    ASSUME OwnershipInv, NEW p \in Process, Truncate(p) \/ Fill(p) \/ Dies(p)
    PROVE  OwnershipInv'
<1>1. CASE Truncate(p)
  <2> DEFINE records == want[p]
  <2>1. Apart(records) /\ records \in Seq(Record)
    BY <1>1 DEF Truncate, OwnershipInv, OwnershipTypeOK, ReadyIsApart
  <2>4. Step(p, "writing", records)
    BY <1>1 DEF Truncate, Step, OwnershipInv, OwnershipTypeOK
  <2>2. file' = <<>> /\ torn' \in BOOLEAN /\ mixed' \subseteq Process
    BY <1>1 DEF Truncate, OwnershipInv, OwnershipTypeOK
  <2>3. file' \in Seq(Record) /\ Apart(file')
    BY <2>2, EmptyIsApart
  <2> HIDE DEF records
  <2> QED BY <2>1, <2>2, <2>3, <2>4, StepKeeps
<1>2. CASE Fill(p)
  <2>1. Step(p, "idle", <<>>) /\ file' \in {<<>>, want[p]} /\ torn' \in BOOLEAN
    BY <1>2 DEF Fill
  <2>2. Apart(want[p]) /\ want[p] \in Seq(Record) /\ mixed' \subseteq Process
    BY <1>2 DEF Fill, OwnershipInv, OwnershipTypeOK, ReadyIsApart
  <2>3. file' \in Seq(Record) /\ Apart(file')
    <3>1. CASE file' = <<>>
      BY <3>1, EmptyIsApart
    <3>2. CASE file' = want[p]
      BY <2>2, <3>2
    <3> QED BY <2>1, <3>1, <3>2
  <2> QED BY <2>1, <2>2, <2>3, EmptyIsApart, StepKeeps
<1>3. CASE Dies(p)
  <2>1. Step(p, "idle", <<>>) /\ UNCHANGED <<file, torn>> /\ mixed' \subseteq Process
    BY <1>3 DEF Dies, OwnershipInv, OwnershipTypeOK
  <2>2. file' \in Seq(Record) /\ Apart(file') /\ torn' \in BOOLEAN
    BY <2>1 DEF OwnershipInv, OwnershipTypeOK
  <2> QED BY <2>1, <2>2, EmptyIsApart, StepKeeps
<1> QED BY <1>1, <1>2, <1>3

\* The inductive invariant of the file and of every process that is about to write it
\* (write_ownership.py:25-70), for any number of processes.
THEOREM OwnershipInvariant == OwnershipSpec => []OwnershipInv
<1>1. OwnershipInit => OwnershipInv
  BY EmptyIsApart DEF OwnershipInit, OwnershipInv, OwnershipTypeOK, CheckedIsDelegation,
     ReadyIsApart
<1>2. OwnershipInv /\ [OwnershipNext]_ownershipVars => OwnershipInv'
  <2> SUFFICES ASSUME OwnershipInv, [OwnershipNext]_ownershipVars PROVE OwnershipInv'
    OBVIOUS
  <2>1. CASE UNCHANGED ownershipVars
    BY <2>1 DEF ownershipVars, OwnershipInv, OwnershipTypeOK, CheckedIsDelegation, ReadyIsApart,
       Apart
  <2>2. CASE OwnershipNext
    BY <2>2, GrantKeeps, DelegateChecksKeeps, DelegateReadsKeeps, RevokeKeeps, WritesKeep
    DEF OwnershipNext
  <2> QED BY <2>1, <2>2
<1> QED BY <1>1, <1>2, PTL DEF OwnershipSpec

\* Scopes in the file do not overlap, apart from an ownership's with its delegations', however the
\* calls of several processes interleave (write_ownership.py:25-70).
THEOREM ScopesAlwaysApart == OwnershipSpec => []ScopesStayApart
<1>1. OwnershipInv => ScopesStayApart
  BY DEF OwnershipInv, ScopesStayApart
<1> QED BY <1>1, OwnershipInvariant, PTL

\* If patterns are nested or apart, a path that two actors may write belongs to one of them, who
\* delegated it to the other (write_ownership.py:72-84).
THEOREM PathsAlwaysHaveOneOwner == OwnershipSpec => []PathsHaveOneOwner
<1>1. OwnershipInv => PathsHaveOneOwner
  <2> SUFFICES ASSUME OwnershipInv, NEW i \in DOMAIN file, NEW j \in DOMAIN file,
                      NEW path \in UNION Scope, i < j, May(file[i], path), May(file[j], path)
               PROVE  Owns(file[i], file[j].task, file[j].issuer)
    BY DEF PathsHaveOneOwner
  <2>1. PICK x \in file[i].scopes : path \in x
    BY DEF May
  <2>2. PICK y \in file[j].scopes : path \in y
    BY DEF May
  <2>3. file[i].scopes \subseteq Scope /\ file[j].scopes \subseteq Scope
    <3>1. file[i] \in Record /\ file[j] \in Record
      BY DEF OwnershipInv, OwnershipTypeOK
    <3>2. file[i].scopes \in Scopes /\ file[j].scopes \in Scopes
      BY <3>1 DEF Record
    <3> QED BY <3>2, ScopesAreLaminar
  <2>4. Nested(x, y)
    BY <2>1, <2>2, <2>3, ScopesAreLaminar DEF Nested
  <2>5. Overlap(file[i], file[j])
    BY <2>4 DEF Overlap
  <2> QED BY <2>5 DEF OwnershipInv, Apart, MayFollow
<1> QED BY <1>1, OwnershipInvariant, PTL

------------------------------------------------------------------------------
(***************************************************************************)
(* Rites (Rites.tla), for any processes, commits and gates.  A worktree is *)
(* removed because it belongs to a rite that has still to leave, or was    *)
(* left behind by one that could not.                                      *)
(***************************************************************************)

\* A worktree is that of a rite between its making and its removal, or one that was left behind.
TreesAreHeld == \A p \in tree : rite[p] \in {"candidate", "leaving"} \/ p \in dropped

\* A rite under way is of a commit.
RitesHaveCommits == \A p \in Runner : rite[p] # "idle" => commit[p] \in Commit

RitesInv == RitesTypeOK /\ TreesAreHeld /\ RitesHaveCommits

\* At the start there is no worktree and no rite.
LEMMA RitesInvInit == RitesInit => RitesInv
BY RitesAssumption DEF RitesInit, RitesInv, RitesTypeOK, TreesAreHeld, RitesHaveCommits, Places

\* Before a worktree there is none: a process that left one behind begins no rite.
LEMMA TreeStepsKeep ==
    ASSUME RitesInv, NEW p \in Runner,
           \/ \E c \in Commit : Begin(p, c)
           \/ \E shut \in {{}} \cup {{Gates[i]} : i \in DOMAIN Gates} : PassGates(p, shut)
           \/ AddTree(p) \/ Judge(p) \/ RemoveTree(p)
    PROVE  RitesInv'
<1> USE RitesAssumption DEF RitesInv, RitesTypeOK, TreesAreHeld, RitesHaveCommits, Places, Store, At
<1>1. CASE \E c \in Commit : Begin(p, c)
  BY <1>1 DEF Begin
<1>2. CASE \E shut \in {{}} \cup {{Gates[i]} : i \in DOMAIN Gates} : PassGates(p, shut)
  <2>1. PICK shut : PassGates(p, shut)
    BY <1>2
  <2>2. /\ rite[p] = "gated" /\ \E where \in {"tree", "idle"} : rite' = [rite EXCEPT ![p] = where]
        /\ evidence' \in {evidence, evidence \cup {commit[p]}}
        /\ UNCHANGED <<commit, last, failures, read, raced, tree, dropped, begun>>
    BY <2>1 DEF PassGates
  <2>3. commit[p] \in Commit
    BY <2>1 DEF PassGates
  <2> QED BY <2>2
<1>3. CASE AddTree(p) \/ Judge(p) \/ RemoveTree(p)
  BY <1>3 DEF AddTree, Judge, RemoveTree
<1> QED BY <1>1, <1>2, <1>3

\* Reading and replacing the state file touch no worktree, and a process that dies leaves its own.
LEMMA StateStepsKeep ==
    ASSUME RitesInv, NEW p \in Runner, ReadState(p) \/ Replace(p) \/ Perish(p)
    PROVE  RitesInv'
<1> USE RitesAssumption DEF RitesInv, RitesTypeOK, TreesAreHeld, RitesHaveCommits, Places, Store, At
<1>1. CASE ReadState(p)
  BY <1>1 DEF ReadState
<1>2. CASE Replace(p)
  BY <1>2 DEF Replace
<1>3. CASE Perish(p)
  BY <1>3 DEF Perish
<1> QED BY <1>1, <1>2, <1>3

\* In every state a worktree is of a rite under way or was left behind.
THEOREM RitesInvariant == RitesSpec => []RitesInv
<1>1. RitesInv /\ [RitesNext]_ritesVars => RitesInv'
  <2> SUFFICES ASSUME RitesInv, [RitesNext]_ritesVars PROVE RitesInv'
    OBVIOUS
  <2>1. CASE UNCHANGED ritesVars
    BY <2>1 DEF ritesVars, RitesInv, RitesTypeOK, TreesAreHeld, RitesHaveCommits
  <2>2. CASE RitesNext
    BY <2>2, TreeStepsKeep, StateStepsKeep DEF RitesNext
  <2> QED BY <2>1, <2>2
<1> QED BY <1>1, RitesInvInit, PTL DEF RitesSpec

\* A worktree does not outlive its rite, however the agent, the checks or git end it, unless the
\* process died or the removal failed (rite_pipeline.py:50-65, worktree_transaction.py:24-37).
THEOREM TreesAlwaysRemoved == RitesSpec => []TreesAreRemoved
<1>1. RitesInv => TreesAreRemoved
  BY DEF RitesInv, TreesAreHeld, TreesAreRemoved
<1> QED BY <1>1, RitesInvariant, PTL

------------------------------------------------------------------------------
(***************************************************************************)
(* The catalog (Catalog.tla), for any providers and refreshes.             *)
(***************************************************************************)

\* What the invariant speaks of has its type.
CatalogTypeOK ==
    /\ seed \in [Provider -> {"seed", "seed off", "live"}]
    /\ extra \in [Provider -> BOOLEAN] /\ suspect \in [Provider -> BOOLEAN]

CatalogInv == CatalogTypeOK /\ FailedDiscoveryHidesSeeds

\* At the start no provider is suspect.
LEMMA CatalogInvInit == CatalogInit => CatalogInv
BY DEF CatalogInit, CatalogInv, CatalogTypeOK, FailedDiscoveryHidesSeeds

\* Merging a refresh and a failed discovery keep it, in whatever order refreshes overlap.
LEMMA CatalogStep ==
    ASSUME CatalogInv,
           \/ UNCHANGED <<seed, extra, suspect>>
           \/ \E r \in Refresh : Merge(r) \/ \E p \in Provider : DiscoveryFails(r, p)
    PROVE  CatalogInv'
<1> USE DEF CatalogInv, CatalogTypeOK, FailedDiscoveryHidesSeeds, HasLive
<1>1. CASE UNCHANGED <<seed, extra, suspect>>
  BY <1>1
<1>2. ASSUME NEW r \in Refresh, Merge(r) PROVE CatalogInv'
  BY <1>2 DEF Merge
<1>3. ASSUME NEW r \in Refresh, NEW p \in Provider, DiscoveryFails(r, p) PROVE CatalogInv'
  BY <1>3 DEF DiscoveryFails
<1> QED BY <1>1, <1>2, <1>3

\* The invariant holds in every state, for any providers and refreshes.
THEOREM CatalogInvariant == CatalogSpec => []CatalogInv
<1>1. CatalogInv /\ [CatalogNext]_catalogVars => CatalogInv'
  <2> SUFFICES ASSUME CatalogInv, [CatalogNext]_catalogVars PROVE CatalogInv'
    OBVIOUS
  <2>1. CASE UNCHANGED catalogVars
    BY <2>1, CatalogStep DEF catalogVars
  <2>2. CASE CatalogNext
    BY <2>2, CatalogStep DEF CatalogNext, StartRefresh, Listed, StartQuotas, QuotaKnown, QuotaFails, Configure
  <2> QED BY <2>1, <2>2
<1> QED BY <1>1, CatalogInvInit, PTL DEF CatalogSpec

\* A provider without live evidence leaves no seed route looking ready after its discovery
\* failed, in every order of overlapping refreshes (catalog.py:87-90).
THEOREM FailedDiscoveryAlwaysHides == CatalogSpec => []FailedDiscoveryHidesSeeds
BY CatalogInvariant, PTL DEF CatalogInv

------------------------------------------------------------------------------
(***************************************************************************)
(* The environment file (EnvFile.tla), for any processes, threads and      *)
(* names.                                                                  *)
(*                                                                         *)
(* That the file is whole is known only from what is renamed in its place. *)
(* So the invariant says, for a thread that is alone at its process's      *)
(* temporary file, which file the name stands for at each of its steps,    *)
(* and that no two names stand for one file.  A new file is nobody's       *)
(* because there are more inodes than files in use (InodeIsFree).          *)
(***************************************************************************)

\* A thread is at its process's temporary file.
AtTemp(s) == saver[s].at \in {"filling", "renaming", "cleaning"}

\* The environment file and the temporary files are different files.
TempsAreApart ==
    \A p \in Pid : temp[p] # NoInode =>
        temp[p] # env /\ \A q \in Pid \ {p} : temp[q] # temp[p]

\* A thread has a file open from OpenTemp on.
OpenedOnly(s) ==
    /\ saver[s].at \in {"idle", "writing", "opening"} => saver[s].inode = NoInode
    /\ saver[s].at = "filling" => saver[s].inode # NoInode

\* A thread that is alone with its process's temporary file fills it from empty and renames it
\* whole, with the custom entries it has read.
Undisturbed(s) ==
    /\ saver[s].at \in {"opening", "filling"} => saver[s].custom
    /\ saver[s].at = "filling" =>
          temp[ProcessOf[s]] = saver[s].inode /\ disk[saver[s].inode] = Blank
    /\ saver[s].at = "renaming" => 
          /\ temp[ProcessOf[s]] = saver[s].inode /\ saver[s].inode # NoInode
          /\ disk[saver[s].inode].whole /\ disk[saver[s].inode].custom

\* No two threads of a process are at its temporary file.
AloneAtTemp ==
    \A s \in Saver, t \in Saver : s # t /\ AtTemp(s) /\ AtTemp(t) => ProcessOf[s] # ProcessOf[t]

EnvInv ==
    /\ EnvTypeOK
    /\ TempsAreApart
    /\ \A s \in Saver : OpenedOnly(s)
    /\ ~crossed => AloneAtTemp /\ \A s \in Saver : Undisturbed(s)
    /\ SavesAreWholeUnlessCrossed

\* The values of a function on a finite set are no more than its arguments.
LEMMA ImageIsNoLarger ==
    ASSUME NEW S, IsFiniteSet(S), NEW f
    PROVE  LET T == {f[x] : x \in S} IN
           /\ IsFiniteSet(T) /\ Cardinality(T) \in Nat /\ Cardinality(T) <= Cardinality(S)
<1> DEFINE T == {f[x] : x \in S}
           g == [x \in S |-> f[x]]
<1>1. g \in Surjection(S, T)
  BY DEF Surjection
<1> QED
  BY <1>1, FS_Surjection, FS_CardinalityType

\* While the process has no temporary file, one of the inodes is free:
\* OpenTemp's choice is never over an empty set.
LEMMA InodeIsFree ==
    ASSUME NEW p \in Pid, temp[p] = NoInode, env \in Inodes
    PROVE  \E j \in Inodes :
               j \notin {env} \cup {temp[q] : q \in Pid} \cup {saver[t].inode : t \in Saver}
<1> DEFINE n == Cardinality(Saver)
           f == [s \in Saver |-> temp[ProcessOf[s]]]
           g == [s \in Saver |-> saver[s].inode]
           A == {f[s] : s \in Saver}
           B == {g[s] : s \in Saver}
           used == {env} \cup {temp[q] : q \in Pid} \cup {saver[t].inode : t \in Saver}
<1>1. IsFiniteSet(Saver) /\ n \in Nat /\ NoInode \notin Nat
  BY EnvAssumption, FS_CardinalityType
<1>2. used = {env} \cup A \cup B
  <2>1. A = {temp[q] : q \in Pid}
    BY DEF Pid
  <2>2. B = {saver[t].inode : t \in Saver}
    OBVIOUS
  <2> QED
    BY <2>1, <2>2
<1>3. NoInode \in used
  OBVIOUS
<1>4. IsFiniteSet(A) /\ Cardinality(A) \in Nat /\ Cardinality(A) <= n
  BY <1>1, ImageIsNoLarger
<1>5. IsFiniteSet(B) /\ Cardinality(B) \in Nat /\ Cardinality(B) <= n
  BY <1>1, ImageIsNoLarger
<1> HIDE DEF A, B, used, n
<1>6. IsFiniteSet(A \cup B) /\ Cardinality(A \cup B) \in Nat /\ Cardinality(A \cup B) <= 2 * n
  <2>1. IsFiniteSet(A \cap B) /\ Cardinality(A \cap B) \in Nat
    <3>1. A \cap B \in SUBSET A
      OBVIOUS
    <3> QED
      BY <3>1, <1>4, FS_Subset, FS_CardinalityType
  <2>2. /\ IsFiniteSet(A \cup B)
        /\ Cardinality(A \cup B) = Cardinality(A) + Cardinality(B) - Cardinality(A \cap B)
    BY <1>4, <1>5, FS_Union
  <2>3. Cardinality(A \cup B) \in Nat
    BY <2>2, FS_CardinalityType
  <2> QED
    BY <2>1, <2>2, <2>3, <1>1, <1>4, <1>5
<1>7. IsFiniteSet(used) /\ Cardinality(used) \in Nat /\ Cardinality(used) <= 2 * n + 1
  <2>1. used = (A \cup B) \cup {env}
    BY <1>2
  <2>2. /\ IsFiniteSet((A \cup B) \cup {env})
        /\ Cardinality((A \cup B) \cup {env})
               = IF env \in A \cup B THEN Cardinality(A \cup B) ELSE Cardinality(A \cup B) + 1
    BY <1>6, FS_AddElement
  <2> QED
    BY <2>1, <2>2, <1>1, <1>6, FS_CardinalityType
<1>8. IsFiniteSet(Inodes) /\ Cardinality(Inodes) = 2 * n + 1
  <2>1. 0 \in Int /\ 2 * n \in Int /\ ~ (0 > 2 * n) /\ 2 * n - 0 + 1 = 2 * n + 1
    BY <1>1
  <2> QED
    BY <2>1, FS_Interval DEF Inodes, n
<1>9. IsFiniteSet(Inodes \cup {NoInode}) /\ Cardinality(Inodes \cup {NoInode}) = 2 * n + 2
  <2>1. NoInode \notin Inodes
    BY <1>1 DEF Inodes
  <2>2. Cardinality(Inodes \cup {NoInode}) = Cardinality(Inodes) + 1
    BY <2>1, <1>8, FS_AddElement
  <2> QED
    BY <2>2, <1>8, <1>1, FS_AddElement
<1>10. SUFFICES ASSUME Inodes \subseteq used
                PROVE  FALSE
  BY DEF used
<1>11. Inodes \cup {NoInode} \in SUBSET used
  BY <1>3, <1>10
<1>12. Cardinality(Inodes \cup {NoInode}) <= Cardinality(used)
  BY <1>7, <1>11, FS_Subset
<1> QED
  BY <1>1, <1>7, <1>9, <1>12

\* At the start nobody saves, and the one file is whole.
LEMMA EnvInitially ==
    ASSUME EnvInit
    PROVE  EnvInv
<1>1. 0 \in Inodes
  BY EnvAssumption, FS_CardinalityType DEF Inodes
<1>2. EnvTypeOK
  <2>1. disk \in [Inodes -> [names : SUBSET Name, custom : BOOLEAN, whole : BOOLEAN]]
    BY DEF EnvInit, Blank
  <2>2. saver \in [Saver -> [at : {"idle", "writing", "opening", "filling", "renaming", "cleaning"},
                            want : SUBSET Name, custom : BOOLEAN, inode : Inodes \cup {NoInode}]]
    BY DEF EnvInit, NoSave
  <2>3. /\ env \in Inodes /\ temp \in [Pid -> Inodes \cup {NoInode}]
        /\ environ \in [Pid -> SUBSET Name] /\ crossed \in BOOLEAN
    BY <1>1 DEF EnvInit
  <2>4. saves \in 0..MaxSaves
    BY EnvAssumption DEF EnvInit
  <2> QED
    BY <2>1, <2>2, <2>3, <2>4 DEF EnvTypeOK
<1>3. TempsAreApart
  BY DEF EnvInit, TempsAreApart
<1>4. \A s \in Saver : OpenedOnly(s) /\ Undisturbed(s)
  BY DEF EnvInit, OpenedOnly, Undisturbed, NoSave
<1>5. AloneAtTemp
  BY DEF EnvInit, AloneAtTemp, AtTemp, NoSave
<1>6. SavesAreWholeUnlessCrossed
  BY <1>1 DEF EnvInit, SavesAreWholeUnlessCrossed
<1> QED
  BY <1>2, <1>3, <1>4, <1>5, <1>6 DEF EnvInv

\* A step that leaves the files alone and the saver away from the temporary file.
LEMMA PlanKeeps ==
    ASSUME EnvInv, NEW s \in Saver, Update(s) \/ Ask(s)
    PROVE  EnvInv'
<1> USE DEF EnvInv
<1>0. ProcessOf[s] \in Pid
  BY DEF Pid
<1>1. UNCHANGED <<disk, env, temp, crossed>> /\ saves < MaxSaves /\ saves' = saves + 1
  BY DEF Update, Ask
<1>2. saver[s].at = "idle" /\ disk[env].names \subseteq Name
  BY DEF Update, Ask, EnvTypeOK
<1>3. \E S \in SUBSET Name :
          saver' = [saver EXCEPT ![s].at = "writing", ![s].want = S]
  <2>1. CASE Update(s)
    <3>1. PICK n \in Name, add \in BOOLEAN :
              saver' = [saver EXCEPT ![s].at = "writing",
                            ![s].want = IF add THEN disk[env].names \cup {n}
                                        ELSE disk[env].names \ {n}]
      BY <2>1 DEF Update
    <3>2. (IF add THEN disk[env].names \cup {n} ELSE disk[env].names \ {n}) \in SUBSET Name
      BY <1>2
    <3> QED
      BY <3>1, <3>2
  <2>2. CASE Ask(s)
    <3>1. PICK found \in Discovered(disk[env]), pasted \in SUBSET Name :
              saver' = [saver EXCEPT ![s].at = "writing", ![s].want = found \cup pasted]
      BY <2>2 DEF Ask
    <3>2. found \cup pasted \in SUBSET Name
      BY <1>2 DEF Discovered
    <3> QED
      BY <3>1, <3>2
  <2> QED
    BY <2>1, <2>2
<1>4. PICK S \in SUBSET Name : saver' = [saver EXCEPT ![s].at = "writing", ![s].want = S]
  BY <1>3
<1>5. environ' \in [Pid -> SUBSET Name]
  <2>1. CASE Update(s)
    <3>1. PICK n \in Name, add \in BOOLEAN :
              environ' = [environ EXCEPT ![ProcessOf[s]] =
                              IF add THEN @ \cup {n} ELSE @ \ {n}]
      BY <2>1 DEF Update
    <3> QED
      BY <3>1, <1>0 DEF EnvTypeOK
  <2>2. CASE Ask(s)
    BY <2>2 DEF Ask, EnvTypeOK
  <2> QED
    BY <2>1, <2>2
<1>6. /\ saver'[s].at = "writing" /\ saver'[s].inode = saver[s].inode
      /\ \A t \in Saver \ {s} : saver'[t] = saver[t]
  BY <1>4 DEF EnvTypeOK
<1>7. EnvTypeOK'
  <2>1. saver' \in [Saver -> [at : {"idle", "writing", "opening", "filling", "renaming", "cleaning"},
                            want : SUBSET Name, custom : BOOLEAN, inode : Inodes \cup {NoInode}]]
    <3>1. saver[s] \in [at : {"idle", "writing", "opening", "filling", "renaming", "cleaning"},
                        want : SUBSET Name, custom : BOOLEAN, inode : Inodes \cup {NoInode}]
      BY DEF EnvTypeOK
    <3>2. [saver[s] EXCEPT !.at = "writing", !.want = S]
              \in [at : {"idle", "writing", "opening", "filling", "renaming", "cleaning"},
                  want : SUBSET Name, custom : BOOLEAN, inode : Inodes \cup {NoInode}]
      BY <3>1
    <3>3. saver' = [saver EXCEPT ![s] = [saver[s] EXCEPT !.at = "writing", !.want = S]]
      BY <1>4 DEF EnvTypeOK
    <3> QED
      BY <3>2, <3>3 DEF EnvTypeOK
  <2>2. saves' \in 0..MaxSaves
    BY <1>1, EnvAssumption DEF EnvTypeOK
  <2> QED
    BY <2>1, <2>2, <1>1, <1>5 DEF EnvTypeOK
<1>8. TempsAreApart' /\ SavesAreWholeUnlessCrossed'
  BY <1>1 DEF TempsAreApart, SavesAreWholeUnlessCrossed
<1>9. \A t \in Saver : OpenedOnly(t)'
  BY <1>2, <1>6 DEF OpenedOnly
<1>10. ~crossed' => AloneAtTemp' /\ \A t \in Saver : Undisturbed(t)'
  <2>1. AloneAtTemp => AloneAtTemp'
    BY <1>6 DEF AloneAtTemp, AtTemp
  <2>2. ASSUME NEW t \in Saver, Undisturbed(t) PROVE Undisturbed(t)'
    BY <2>2, <1>1, <1>6 DEF Undisturbed
  <2> QED
    BY <1>1, <2>1, <2>2
<1> QED
  BY <1>7, <1>8, <1>9, <1>10

\* Reading the custom entries takes nothing from the file.
LEMMA ReadCustomKeeps ==
    ASSUME EnvInv, NEW s \in Saver, ReadCustom(s)
    PROVE  EnvInv'
<1> USE DEF EnvInv
<1>1. UNCHANGED <<disk, env, temp, environ, saves, crossed>> /\ saver[s].at = "writing"
  BY DEF ReadCustom
<1>2. disk[env].custom \in BOOLEAN
  BY DEF EnvTypeOK
<1>3. saver' = [saver EXCEPT ![s].at = "opening", ![s].custom = disk[env].custom]
  BY DEF ReadCustom
<1>4. /\ saver'[s].at = "opening" /\ saver'[s].inode = saver[s].inode
      /\ saver'[s].custom = disk[env].custom
      /\ \A t \in Saver \ {s} : saver'[t] = saver[t]
  BY <1>3 DEF EnvTypeOK
<1>5. EnvTypeOK'
  <2>1. saver[s] \in [at : {"idle", "writing", "opening", "filling", "renaming", "cleaning"},
                      want : SUBSET Name, custom : BOOLEAN, inode : Inodes \cup {NoInode}]
    BY DEF EnvTypeOK
  <2>2. [saver[s] EXCEPT !.at = "opening", !.custom = disk[env].custom]
            \in [at : {"idle", "writing", "opening", "filling", "renaming", "cleaning"},
                want : SUBSET Name, custom : BOOLEAN, inode : Inodes \cup {NoInode}]
    BY <1>2, <2>1
  <2>3. saver' = [saver EXCEPT ![s] = [saver[s] EXCEPT !.at = "opening", !.custom = disk[env].custom]]
    BY <1>3 DEF EnvTypeOK
  <2>4. saver' \in [Saver -> [at : {"idle", "writing", "opening", "filling", "renaming", "cleaning"},
                            want : SUBSET Name, custom : BOOLEAN, inode : Inodes \cup {NoInode}]]
    BY <2>2, <2>3 DEF EnvTypeOK
  <2> QED
    BY <1>1, <2>4 DEF EnvTypeOK
<1>6. TempsAreApart' /\ SavesAreWholeUnlessCrossed'
  BY <1>1 DEF TempsAreApart, SavesAreWholeUnlessCrossed
<1>7. \A t \in Saver : OpenedOnly(t)'
  BY <1>1, <1>4 DEF OpenedOnly
<1>8. ~crossed' => AloneAtTemp' /\ \A t \in Saver : Undisturbed(t)'
  <2>1. AloneAtTemp => AloneAtTemp'
    BY <1>4 DEF AloneAtTemp, AtTemp
  <2>2. ASSUME NEW t \in Saver, Undisturbed(t), ~crossed PROVE Undisturbed(t)'
    BY <2>2, <1>1, <1>4 DEF Undisturbed, SavesAreWholeUnlessCrossed
  <2> QED
    BY <1>1, <2>1, <2>2
<1> QED
  BY <1>5, <1>6, <1>7, <1>8

\* Opening truncates the temporary file or makes a new one; the file it makes is nobody's.
LEMMA OpenTempKeeps ==
    ASSUME EnvInv, NEW s \in Saver, OpenTemp(s)
    PROVE  EnvInv'
<1> USE DEF EnvInv
<1> DEFINE p == ProcessOf[s]
           used == {env} \cup {temp[q] : q \in Pid} \cup {saver[t].inode : t \in Saver}
           i == IF temp[p] # NoInode THEN temp[p] ELSE CHOOSE j \in Inodes : j \notin used
<1>0. p \in Pid
  BY DEF Pid
<1>1. /\ saver[s].at = "opening"
      /\ saver' = [saver EXCEPT ![s].at = "filling", ![s].inode = i]
      /\ disk' = [disk EXCEPT ![i] = Blank]
      /\ temp' = [temp EXCEPT ![p] = i]
      /\ crossed' = (crossed \/ \E t \in Saver \ {s} :
                         ProcessOf[t] = p /\ saver[t].at \in {"filling", "renaming", "cleaning"})
      /\ UNCHANGED <<env, environ, saves>>
  BY DEF OpenTemp
<1>2. i \in Inodes /\ i # env /\ \A q \in Pid \ {p} : temp[q] # NoInode => temp[q] # i
  <2>1. CASE temp[p] # NoInode
    BY <2>1, <1>0 DEF TempsAreApart, EnvTypeOK
  <2>2. CASE temp[p] = NoInode
    <3>1. \E j \in Inodes : j \notin used
      BY <2>2, <1>0, InodeIsFree DEF EnvTypeOK
    <3>2. i \in Inodes /\ i \notin used
      BY <2>2, <3>1
    <3> QED
      BY <3>2
  <2> QED
    BY <2>1, <2>2
<1>3. i # NoInode
  BY <1>2, EnvAssumption DEF Inodes
<1> HIDE DEF i
<1>4. /\ saver'[s].at = "filling" /\ saver'[s].inode = i /\ saver'[s].custom = saver[s].custom
      /\ \A t \in Saver \ {s} : saver'[t] = saver[t]
  BY <1>1 DEF EnvTypeOK
<1>5. temp'[p] = i /\ \A q \in Pid \ {p} : temp'[q] = temp[q]
  BY <1>0, <1>1 DEF EnvTypeOK
<1>6. disk'[i] = Blank /\ \A j \in Inodes \ {i} : disk'[j] = disk[j]
  BY <1>1, <1>2 DEF EnvTypeOK
<1>7. EnvTypeOK'
  <2>1. saver' \in [Saver -> [at : {"idle", "writing", "opening", "filling", "renaming", "cleaning"},
                            want : SUBSET Name, custom : BOOLEAN, inode : Inodes \cup {NoInode}]]
    <3>1. saver[s] \in [at : {"idle", "writing", "opening", "filling", "renaming", "cleaning"},
                        want : SUBSET Name, custom : BOOLEAN, inode : Inodes \cup {NoInode}]
      BY DEF EnvTypeOK
    <3>2. [saver[s] EXCEPT !.at = "filling", !.inode = i]
              \in [at : {"idle", "writing", "opening", "filling", "renaming", "cleaning"},
                  want : SUBSET Name, custom : BOOLEAN, inode : Inodes \cup {NoInode}]
      BY <1>2, <3>1
    <3>3. saver' = [saver EXCEPT ![s] = [saver[s] EXCEPT !.at = "filling", !.inode = i]]
      BY <1>1 DEF EnvTypeOK
    <3> QED
      BY <3>2, <3>3 DEF EnvTypeOK
  <2>2. Blank \in [names : SUBSET Name, custom : BOOLEAN, whole : BOOLEAN]
    BY DEF Blank
  <2>3. disk' \in [Inodes -> [names : SUBSET Name, custom : BOOLEAN, whole : BOOLEAN]]
    BY <1>1, <1>2, <2>2 DEF EnvTypeOK
  <2>4. temp' \in [Pid -> Inodes \cup {NoInode}] /\ crossed' \in BOOLEAN
    BY <1>0, <1>1, <1>2 DEF EnvTypeOK
  <2> QED
    BY <2>1, <2>3, <2>4, <1>1 DEF EnvTypeOK
<1>8. TempsAreApart'
  BY <1>1, <1>2, <1>5 DEF TempsAreApart
<1>9. \A t \in Saver : OpenedOnly(t)'
  BY <1>3, <1>4 DEF OpenedOnly
<1>10. ASSUME ~crossed'
       PROVE  AloneAtTemp' /\ \A t \in Saver : Undisturbed(t)'
  <2>1. /\ ~crossed
        /\ \A t \in Saver \ {s} : AtTemp(t) => ProcessOf[t] # p
    BY <1>1, <1>10 DEF AtTemp, EnvTypeOK
  <2>2. AloneAtTemp'
    BY <2>1, <1>4 DEF AloneAtTemp, AtTemp
  <2>3. Undisturbed(s)'
    BY <2>1, <1>1, <1>4, <1>5, <1>6 DEF Undisturbed
  <2>4. ASSUME NEW t \in Saver \ {s}
        PROVE  Undisturbed(t)'
    <3>1. Undisturbed(t) /\ OpenedOnly(t) /\ saver'[t] = saver[t]
      BY <2>1, <1>4
    <3>2. CASE AtTemp(t) /\ saver[t].at # "cleaning"
      <4>1. ProcessOf[t] \in Pid \ {p}
        BY <2>1, <3>2 DEF Pid
      <4>2. temp[ProcessOf[t]] = saver[t].inode /\ saver[t].inode # NoInode
        BY <3>1, <3>2 DEF Undisturbed, OpenedOnly, AtTemp
      <4>3. saver[t].inode \in Inodes \ {i}
        BY <4>1, <4>2, <1>2 DEF EnvTypeOK
      <4> QED
        BY <3>1, <4>1, <4>2, <4>3, <1>5, <1>6 DEF Undisturbed
    <3>3. CASE ~AtTemp(t) \/ saver[t].at = "cleaning"
      BY <3>1, <3>3 DEF Undisturbed, AtTemp
    <3> QED
      BY <3>2, <3>3
  <2> QED
    BY <2>2, <2>3, <2>4
<1>11. SavesAreWholeUnlessCrossed'
  BY <1>1, <1>2, <1>6 DEF SavesAreWholeUnlessCrossed, EnvTypeOK
<1> QED
  BY <1>7, <1>8, <1>9, <1>10, <1>11

\* A thread writes its text into the file it has open, whatever that file is called by then.
LEMMA FillTempKeeps ==
    ASSUME EnvInv, NEW s \in Saver, FillTemp(s)
    PROVE  EnvInv'
<1> USE DEF EnvInv
<1> DEFINE i == saver[s].inode
           payload == [names |-> saver[s].want, custom |-> saver[s].custom, whole |-> TRUE]
<1>1. /\ saver[s].at = "filling" /\ saver' = [saver EXCEPT ![s].at = "renaming"]
      /\ \/ disk' = [disk EXCEPT ![i] = payload]
         \/ disk[i] # Blank /\ disk' = [disk EXCEPT ![i] = [payload EXCEPT !.whole = FALSE]]
      /\ UNCHANGED <<env, temp, environ, saves, crossed>>
  BY DEF FillTemp, Advance
<1>2. i \in Inodes
  BY <1>1 DEF OpenedOnly, EnvTypeOK
<1>3. /\ saver'[s].at = "renaming" /\ saver'[s].inode = i /\ saver'[s].custom = saver[s].custom
      /\ \A t \in Saver \ {s} : saver'[t] = saver[t]
  BY <1>1 DEF EnvTypeOK
<1>4. \A j \in Inodes \ {i} : disk'[j] = disk[j]
  BY <1>1, <1>2 DEF EnvTypeOK
<1>5. EnvTypeOK'
  <2>1. /\ payload \in [names : SUBSET Name, custom : BOOLEAN, whole : BOOLEAN]
        /\ [payload EXCEPT !.whole = FALSE] \in [names : SUBSET Name, custom : BOOLEAN, whole : BOOLEAN]
    BY DEF EnvTypeOK
  <2>2. disk' \in [Inodes -> [names : SUBSET Name, custom : BOOLEAN, whole : BOOLEAN]]
    <3> HIDE DEF payload
    <3> QED
      BY <1>1, <2>1 DEF EnvTypeOK
  <2>3. saver' \in [Saver -> [at : {"idle", "writing", "opening", "filling", "renaming", "cleaning"},
                            want : SUBSET Name, custom : BOOLEAN, inode : Inodes \cup {NoInode}]]
    BY <1>1 DEF EnvTypeOK
  <2> QED
    BY <2>2, <2>3, <1>1 DEF EnvTypeOK
<1>6. TempsAreApart'
  BY <1>1 DEF TempsAreApart
<1>7. \A t \in Saver : OpenedOnly(t)'
  BY <1>3 DEF OpenedOnly
<1>8. ASSUME ~crossed
      PROVE  AloneAtTemp' /\ (\A t \in Saver : Undisturbed(t)') /\ i # env
  <2>1. temp[ProcessOf[s]] = i /\ disk[i] = Blank /\ saver[s].custom
    BY <1>1, <1>8 DEF Undisturbed
  <2>2. disk'[i] = payload
    BY <2>1, <1>1, <1>2 DEF EnvTypeOK
  <2>3. \A t \in Saver : AtTemp(t)' <=> AtTemp(t)
    BY <1>1, <1>3 DEF AtTemp
  <2>4. AloneAtTemp'
    BY <2>3, <1>1, <1>8 DEF AloneAtTemp
  <2>5. i # NoInode
    BY <1>2, EnvAssumption DEF Inodes
  <2>6. Undisturbed(s)'
    BY <2>1, <2>2, <2>5, <1>1, <1>3 DEF Undisturbed
  <2>7. ASSUME NEW t \in Saver \ {s}
        PROVE  Undisturbed(t)'
    <3>1. Undisturbed(t) /\ OpenedOnly(t) /\ saver'[t] = saver[t]
      BY <1>8, <1>3
    <3>2. CASE AtTemp(t) /\ saver[t].at # "cleaning"
      <4>1. ProcessOf[t] # ProcessOf[s] /\ ProcessOf[t] \in Pid /\ ProcessOf[s] \in Pid
        BY <1>1, <1>8, <3>2 DEF Pid, AloneAtTemp, AtTemp
      <4>2. temp[ProcessOf[t]] = saver[t].inode /\ saver[t].inode # NoInode
        BY <3>1, <3>2 DEF Undisturbed, OpenedOnly, AtTemp
      <4>3. saver[t].inode \in Inodes \ {i}
        BY <4>1, <4>2, <2>1 DEF EnvTypeOK, TempsAreApart
      <4> QED
        BY <3>1, <4>3, <1>1, <1>4 DEF Undisturbed
    <3>3. CASE ~AtTemp(t) \/ saver[t].at = "cleaning"
      BY <3>1, <3>3 DEF Undisturbed, AtTemp
    <3> QED
      BY <3>2, <3>3
  <2>8. i # env
    BY <2>1, <2>5 DEF TempsAreApart, Pid
  <2> QED
    BY <2>4, <2>6, <2>7, <2>8
<1>9. SavesAreWholeUnlessCrossed'
  BY <1>1, <1>4, <1>8 DEF SavesAreWholeUnlessCrossed, EnvTypeOK
<1> QED
  BY <1>1, <1>5, <1>6, <1>7, <1>8, <1>9

\* The rename puts in place what the name stands for, which is whole if the thread was alone.
LEMMA RenameTempKeeps ==
    ASSUME EnvInv, NEW s \in Saver, RenameTemp(s)
    PROVE  EnvInv'
<1> USE DEF EnvInv
<1> DEFINE p == ProcessOf[s]
<1>0. p \in Pid
  BY DEF Pid
<1>1. /\ saver[s].at = "renaming" /\ saver' = [saver EXCEPT ![s].at = "cleaning"]
      /\ UNCHANGED <<disk, environ, saves, crossed>>
      /\ \/ temp[p] = NoInode /\ UNCHANGED <<env, temp>>
         \/ temp[p] # NoInode /\ env' = temp[p] /\ temp' = [temp EXCEPT ![p] = NoInode]
  BY DEF RenameTemp, Advance
<1>2. /\ saver'[s].at = "cleaning" /\ saver'[s].inode = saver[s].inode
      /\ \A t \in Saver \ {s} : saver'[t] = saver[t]
  BY <1>1 DEF EnvTypeOK
<1>3. \A q \in Pid \ {p} : temp'[q] = temp[q]
  BY <1>0, <1>1 DEF EnvTypeOK
<1>4. temp'[p] = NoInode
  BY <1>0, <1>1 DEF EnvTypeOK
<1>5. EnvTypeOK'
  <2>1. saver' \in [Saver -> [at : {"idle", "writing", "opening", "filling", "renaming", "cleaning"},
                            want : SUBSET Name, custom : BOOLEAN, inode : Inodes \cup {NoInode}]]
    BY <1>1 DEF EnvTypeOK
  <2>2. env' \in Inodes /\ temp' \in [Pid -> Inodes \cup {NoInode}]
    BY <1>0, <1>1 DEF EnvTypeOK
  <2> QED
    BY <2>1, <2>2, <1>1 DEF EnvTypeOK
<1>6. TempsAreApart'
  BY <1>0, <1>1, <1>3, <1>4 DEF TempsAreApart
<1>7. \A t \in Saver : OpenedOnly(t)'
  BY <1>2 DEF OpenedOnly
<1>8. ASSUME ~crossed
      PROVE  AloneAtTemp' /\ \A t \in Saver : Undisturbed(t)'
  <2>1. \A t \in Saver : AtTemp(t)' <=> AtTemp(t)
    BY <1>1, <1>2 DEF AtTemp
  <2>2. AloneAtTemp'
    BY <2>1, <1>1, <1>8 DEF AloneAtTemp
  <2>3. Undisturbed(s)'
    BY <1>2 DEF Undisturbed
  <2>4. ASSUME NEW t \in Saver \ {s}
        PROVE  Undisturbed(t)'
    <3>1. Undisturbed(t) /\ saver'[t] = saver[t] /\ ProcessOf[t] \in Pid
      BY <1>8, <1>2 DEF Pid
    <3>2. AtTemp(t) => ProcessOf[t] # p
      BY <1>1, <1>8 DEF AloneAtTemp, AtTemp
    <3> QED
      BY <3>1, <3>2, <1>1, <1>3 DEF Undisturbed, AtTemp
  <2> QED
    BY <2>2, <2>3, <2>4
<1>9. SavesAreWholeUnlessCrossed'
  BY <1>1 DEF SavesAreWholeUnlessCrossed, Undisturbed
<1> QED
  BY <1>1, <1>5, <1>6, <1>7, <1>8, <1>9

\* The clean-up unlinks the temporary name if it still stands for a file.
LEMMA CleanUpKeeps ==
    ASSUME EnvInv, NEW s \in Saver, CleanUp(s)
    PROVE  EnvInv'
<1> USE DEF EnvInv
<1> DEFINE p == ProcessOf[s]
<1>0. p \in Pid
  BY DEF Pid
<1>1. /\ saver[s].at = "cleaning" /\ saver' = [saver EXCEPT ![s] = NoSave]
      /\ temp' = [temp EXCEPT ![p] = NoInode]
      /\ UNCHANGED <<disk, env, environ, saves, crossed>>
  BY DEF CleanUp
<1>2. saver'[s] = NoSave /\ \A t \in Saver \ {s} : saver'[t] = saver[t]
  BY <1>1 DEF EnvTypeOK
<1>3. temp'[p] = NoInode /\ \A q \in Pid \ {p} : temp'[q] = temp[q]
  BY <1>0, <1>1 DEF EnvTypeOK
<1>5. EnvTypeOK'
  BY <1>0, <1>1 DEF EnvTypeOK, NoSave
<1>6. TempsAreApart'
  BY <1>0, <1>1, <1>3 DEF TempsAreApart
<1>7. \A t \in Saver : OpenedOnly(t)'
  BY <1>2 DEF OpenedOnly, NoSave
<1>8. ASSUME ~crossed
      PROVE  AloneAtTemp' /\ \A t \in Saver : Undisturbed(t)'
  <2>1. AloneAtTemp'
    BY <1>2, <1>8 DEF AloneAtTemp, AtTemp, NoSave
  <2>2. Undisturbed(s)'
    BY <1>2 DEF Undisturbed, NoSave
  <2>3. ASSUME NEW t \in Saver \ {s}
        PROVE  Undisturbed(t)'
    <3>1. Undisturbed(t) /\ saver'[t] = saver[t] /\ ProcessOf[t] \in Pid
      BY <1>8, <1>2 DEF Pid
    <3>2. AtTemp(t) => ProcessOf[t] # p
      BY <1>1, <1>8 DEF AloneAtTemp, AtTemp
    <3> QED
      BY <3>1, <3>2, <1>1, <1>3 DEF Undisturbed, AtTemp
  <2> QED
    BY <2>1, <2>2, <2>3
<1>9. SavesAreWholeUnlessCrossed'
  BY <1>1 DEF SavesAreWholeUnlessCrossed
<1> QED
  BY <1>1, <1>5, <1>6, <1>7, <1>8, <1>9

\* A process that ends forgets its savers and leaves its temporary file where it is.
LEMMA EndsKeeps ==
    ASSUME EnvInv, NEW p \in Pid, Ends(p)
    PROVE  EnvInv'
<1> USE DEF EnvInv
<1>1. /\ saver' = [t \in Saver |-> IF ProcessOf[t] = p THEN NoSave ELSE saver[t]]
      /\ environ' = [environ EXCEPT ![p] = {}]
      /\ UNCHANGED <<disk, env, temp, saves, crossed>>
  BY DEF Ends
<1>2. \A t \in Saver : saver'[t] = NoSave \/ saver'[t] = saver[t]
  BY <1>1
<1>3. EnvTypeOK'
  <2>1. NoSave \in [at : {"idle", "writing", "opening", "filling", "renaming", "cleaning"},
                    want : SUBSET Name, custom : BOOLEAN, inode : Inodes \cup {NoInode}]
    BY DEF NoSave
  <2> QED
    BY <1>1, <2>1 DEF EnvTypeOK
<1>4. TempsAreApart' /\ SavesAreWholeUnlessCrossed'
  BY <1>1 DEF TempsAreApart, SavesAreWholeUnlessCrossed
<1>5. \A t \in Saver : OpenedOnly(t)'
  BY <1>2 DEF OpenedOnly, NoSave
<1>6. ASSUME ~crossed
      PROVE  AloneAtTemp' /\ \A t \in Saver : Undisturbed(t)'
  <2>1. AloneAtTemp'
    BY <1>2, <1>6 DEF AloneAtTemp, AtTemp, NoSave
  <2>2. ASSUME NEW t \in Saver
        PROVE  Undisturbed(t)'
    BY <1>1, <1>2, <1>6 DEF Undisturbed, NoSave
  <2> QED
    BY <2>1, <2>2
<1> QED
  BY <1>1, <1>3, <1>4, <1>5, <1>6

\* Every step keeps the invariant.
LEMMA EnvKeeps ==
    ASSUME EnvInv, [EnvNext]_envVars
    PROVE  EnvInv'
<1>1. CASE EnvNext
  BY <1>1, PlanKeeps, ReadCustomKeeps, OpenTempKeeps, FillTempKeeps, RenameTempKeeps,
     CleanUpKeeps, EndsKeeps DEF EnvNext
<1>2. CASE UNCHANGED envVars
  BY <1>2 DEF envVars, EnvInv, EnvTypeOK, TempsAreApart, OpenedOnly, Undisturbed, AloneAtTemp,
     AtTemp, SavesAreWholeUnlessCrossed
<1> QED
  BY <1>1, <1>2

\* The invariant holds in every state, for any processes, threads and names.
THEOREM EnvInvariant == EnvSpec => []EnvInv
<1> QED
  BY EnvInitially, EnvKeeps, PTL DEF EnvSpec

\* While no two threads of a process met at its temporary file, the environment file is the
\* whole payload of one save and has the custom entries (credentials.py:255-312).
THEOREM SavesAlwaysWhole == EnvSpec => []SavesAreWholeUnlessCrossed
<1>1. EnvInv => SavesAreWholeUnlessCrossed
  BY DEF EnvInv
<1> QED
  BY <1>1, EnvInvariant, PTL
==============================================================================
