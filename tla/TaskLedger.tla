----------------------------- MODULE TaskLedger ------------------------------
(***************************************************************************)
(* task_ledger.py: a table of tasks and a journal of events in one SQLite  *)
(* file that several agents open.  Every operation but create_task is one  *)
(* transaction (BEGIN IMMEDIATE); create_task commits the task and its     *)
(* event one after the other.  A lease is written and never looked at.     *)
(***************************************************************************)
EXTENDS Naturals, Sequences

CONSTANTS
    TaskId,
    Agent,
    Nobody,     \* no lease_owner
    MaxEvents   \* bound: events of a task

ASSUME LedgerAssumption == Nobody \notin Agent /\ MaxEvents \in Nat

States == {"pending", "leased", "running", "blocked", "complete", "failed"}
Moves == States
Events == {"created", "claimed", "controls", "stopped"} \cup Moves

VARIABLES
    state,   \* tasks.state, or "none" before the task is there
    lease,   \* tasks.lease_owner
    events,  \* the events of each task: [event, actor]
    due      \* tasks whose "created" is still to be written

ledgerVars == <<state, lease, events, due>>

LedgerTypeOK ==
    /\ state \in [TaskId -> States \cup {"none"}]
    /\ lease \in [TaskId -> Agent \cup {Nobody}]
    /\ events \in [TaskId -> Seq([event : Events, actor : Agent])]
    /\ due \subseteq TaskId

LedgerInit ==
    /\ state = [t \in TaskId |-> "none"]
    /\ lease = [t \in TaskId |-> Nobody]
    /\ events = [t \in TaskId |-> <<>>]
    /\ due = {}

\* _TRANSITIONS
Follows ==
    [pending |-> {"leased", "blocked", "failed"},
     leased |-> {"running", "pending", "blocked", "failed"},
     running |-> {"complete", "blocked", "failed"},
     blocked |-> {"pending", "failed"},
     failed |-> {"pending"},
     complete |-> {}]

Log(t, a, event) ==
    /\ Len(events[t]) < MaxEvents
    /\ events' = [events EXCEPT ![t] = Append(@, [event |-> event, actor |-> a])]

\* The first half of create_task; the second may never come.
CreateTask(t) ==
    /\ state[t] = "none"
    /\ state' = [state EXCEPT ![t] = "pending"]
    /\ due' = due \cup {t}
    /\ UNCHANGED <<lease, events>>

LogCreated(t, a) ==
    /\ t \in due
    /\ due' = due \ {t}
    /\ Log(t, a, "created")
    /\ UNCHANGED <<state, lease>>

\* Mutant of Claim: a lease that is there is kept.
ClaimKeeps(t, a) ==
    /\ state[t] = "pending"
    /\ state' = [state EXCEPT ![t] = "leased"]
    /\ lease' = [lease EXCEPT ![t] = IF @ = Nobody THEN a ELSE @]
    /\ Log(t, a, "claimed")
    /\ UNCHANGED due

Claim(t, a) ==
    /\ state[t] = "pending"
    /\ state' = [state EXCEPT ![t] = "leased"]
    /\ lease' = [lease EXCEPT ![t] = a]
    /\ Log(t, a, "claimed")
    /\ UNCHANGED due

\* Anybody may move a task along the table; "leased" without a lease, too, and a lease stays.
Transition(t, a, s) ==
    /\ state[t] # "none"
    /\ s \in Follows[state[t]]
    /\ state' = [state EXCEPT ![t] = s]
    /\ Log(t, a, s)
    /\ UNCHANGED <<lease, due>>

SetControls(t, a) ==
    /\ state[t] # "none"
    /\ Log(t, a, "controls")
    /\ UNCHANGED <<state, lease, due>>

\* Stopping a blocked task does nothing, and a task that is over cannot be stopped.
StopTask(t, a) ==
    /\ state[t] \in {"leased", "running", "pending"}
    /\ state' = [state EXCEPT ![t] = "blocked"]
    /\ lease' = [lease EXCEPT ![t] = Nobody]
    /\ Log(t, a, "stopped")
    /\ UNCHANGED due

LedgerNext ==
    \E t \in TaskId :
        \/ CreateTask(t)
        \/ \E a \in Agent :
            \/ LogCreated(t, a) \/ Claim(t, a) \/ SetControls(t, a) \/ StopTask(t, a)
            \/ \E s \in States : Transition(t, a, s)

LedgerSpec == LedgerInit /\ [][LedgerNext]_ledgerVars

------------------------------------------------------------------------------

Telling(t) == {i \in DOMAIN events[t] : events[t][i].event \notin {"created", "controls"}}
LastOf(I) == CHOOSE i \in I : \A j \in I : j <= i
After(event) ==
    IF event = "claimed" THEN "leased" ELSE IF event = "stopped" THEN "blocked" ELSE event

\* A task's last event that moves it names its state, though
\* its "created" may come after others or never, and a claimed task's lease names who claimed it
\* last (task_ledger.py:62-101, 125-138).
StateIsToldLast(t) ==
    LET claims == {i \in Telling(t) : events[t][i].event = "claimed"} IN
    /\ state[t] # "none" /\ Telling(t) # {} =>
        state[t] = After(events[t][LastOf(Telling(t))].event)
    /\ state[t] \notin {"none", "pending"} => Telling(t) # {}
    /\ state[t] = "leased" /\ events[t][LastOf(Telling(t))].event = "claimed" =>
        lease[t] = events[t][LastOf(claims)].actor

\* Work that was stopped is not completed, by its worker or another, before the task was taken
\* anew: a stop or block is followed by "leased" before "complete" (task_ledger.py:13-20).
StopsHold(t) ==
    \A i, k \in Telling(t) :
        /\ i < k /\ events[t][i].event \in {"stopped", "blocked"}
        /\ events[t][k].event = "complete"
        => \E j \in Telling(t) : i < j /\ j < k /\ events[t][j].event \in {"claimed", "leased"}

\* The journal tells what the table says, and its order respects a stop, whoever claims, moves,
\* stops or blocks the task meanwhile.
JournalTellsTheState == \A t \in TaskId : StateIsToldLast(t) /\ StopsHold(t)
==============================================================================
