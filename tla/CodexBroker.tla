----------------------------- MODULE CodexBroker -----------------------------
(***************************************************************************)
(* codex_session.py: CodexSessionBroker over CodexSession, as dashboard.py *)
(* uses it on POSIX.  Each browser socket has a handler that creates a     *)
(* session or joins one, attaches its sink, and in the end detaches, or    *)
(* discards the session when attaching failed.  Handlers suspend while a   *)
(* child is spawned, while their sink is told of the attachment, and while *)
(* a session's reader is being cancelled; the rest is one step.            *)
(***************************************************************************)
EXTENDS Naturals, FiniteSets

CONSTANTS
    Client,       \* browser sockets and their handlers
    Session,      \* session identifiers
    NoSession,    \* no session
    MaxSessions   \* max_sessions

ASSUME BrokerAssumption == NoSession \notin Session /\ MaxSessions \in Nat

VARIABLES
    sessions,   \* the keys of broker.sessions
    sinks,      \* the clients whose sinks an entry holds
    child,      \* session.process: "none", a child "alive", or one that has "exited"
    reader,     \* session._reader_task: "none", "reading", "over" or "failed"
    at,         \* where each client's handler is
    on,         \* the session it has in hand
    disturbed   \* history: sessions with a sink that raised or a client that joined their start

childVars == <<child, reader>>
vars == <<sessions, sinks, childVars, at, on, disturbed>>

TypeOK ==
    /\ sessions \subseteq Session
    /\ sinks \in [Session -> SUBSET Client]
    /\ child \in [Session -> {"none", "alive", "exited"}]
    /\ reader \in [Session -> {"none", "reading", "over", "failed"}]
    /\ at \in [Client -> {"away", "starting", "attaching", "attached", "detaching", "discarding"}]
    /\ on \in [Client -> Session \cup {NoSession}]
    /\ disturbed \subseteq Session

Init ==
    /\ sessions = {}
    /\ sinks = [s \in Session |-> {}]
    /\ child = [s \in Session |-> "none"]
    /\ reader = [s \in Session |-> "none"]
    /\ at = [c \in Client |-> "away"]
    /\ on = [c \in Client |-> NoSession]
    /\ disturbed = {}

------------------------------------------------------------------------------
Handler(c, place, s) ==
    /\ at' = [at EXCEPT ![c] = place]
    /\ on' = [on EXCEPT ![c] = s]

\* The handler is over; its client may come back.
Return(c) == Handler(c, "away", NoSession)

\* attach: an unknown session is refused; a known one gets the client's sink, which is told.
Attach(c, s) ==
    IF s \in sessions
    THEN sinks' = [sinks EXCEPT ![s] = @ \cup {c}] /\ Handler(c, "attaching", s)
    ELSE UNCHANGED sinks /\ Return(c)

\* Identifiers are never given twice; one of which nothing is left serves as a new one here.
Unused(s) ==
    /\ s \notin sessions \cup {on[d] : d \in Client}
    /\ child[s] # "alive" /\ reader[s] # "reading"

\* create, up to the spawning of the child.
Create(c, s) ==
    /\ at[c] = "away"
    /\ Cardinality(sessions) < MaxSessions
    /\ Unused(s)
    /\ sessions' = sessions \cup {s}
    /\ sinks' = [sinks EXCEPT ![s] = {}]
    /\ child' = [child EXCEPT ![s] = "none"]
    /\ reader' = [reader EXCEPT ![s] = "none"]
    /\ Handler(c, "starting", s)
    /\ disturbed' = disturbed \ {s}

\* Mutant of SpawnFails: the failed session stays registered.
SpawnFailsRegistered(c) ==
    /\ at[c] = "starting"
    /\ Return(c)
    /\ UNCHANGED <<sessions, sinks, childVars, disturbed>>

\* The child could not be spawned: create unregisters the session and raises.
SpawnFails(c) ==
    /\ at[c] = "starting"
    /\ sessions' = sessions \ {on[c]}
    /\ Return(c)
    /\ UNCHANGED <<sinks, childVars, disturbed>>

\* The child is there, but the sink of a client that joined meanwhile raises when start tells it
\* so: create unregisters the session and closes it.
AnnounceFails(c) ==
    LET s == on[c]
    IN  /\ at[c] = "starting"
        /\ s \in sessions /\ sinks[s] # {}
        /\ sessions' = sessions \ {s}
        /\ child' = [child EXCEPT ![s] = "alive"]
        /\ Handler(c, "discarding", s)
        /\ disturbed' = disturbed \cup {s}
        /\ UNCHANGED <<sinks, reader>>

\* start returns, with a child and its reader or, when there is no executable, with neither.
Started(c, found) ==
    LET s == on[c]
    IN  /\ at[c] = "starting"
        /\ child' = [child EXCEPT ![s] = IF found THEN "alive" ELSE @]
        /\ reader' = [reader EXCEPT ![s] = IF found THEN "reading" ELSE @]
        /\ Attach(c, s)
        /\ UNCHANGED <<sessions, disturbed>>

\* A client that names a session in its query attaches to it, even while it is being started.
Join(c, s) ==
    /\ at[c] = "away"
    /\ s \in sessions
    /\ Attach(c, s)
    /\ disturbed' = IF \E d \in Client : on[d] = s /\ at[d] = "starting"
                    THEN disturbed \cup {s} ELSE disturbed
    /\ UNCHANGED <<sessions, childVars>>

\* attach has told the sink and returns the client's identifier.
Attached(c) ==
    /\ at[c] = "attaching"
    /\ Handler(c, "attached", on[c])
    /\ UNCHANGED <<sessions, sinks, childVars, disturbed>>

\* close, by the handler of c: a reader that failed raises its exception here and the rest is
\* not done; one that reads is cancelled and waited for; without one the child is stopped.
Close(c, s, place, after) ==
    IF reader[s] = "failed"
    THEN /\ reader' = [reader EXCEPT ![s] = "none"]
         /\ Return(c)
         /\ UNCHANGED child
         /\ sessions' = IF place = "discarding" THEN after ELSE sessions
    ELSE IF reader[s] = "reading"
    THEN /\ reader' = [reader EXCEPT ![s] = "none"]
         /\ Handler(c, place, s)
         /\ UNCHANGED child
         /\ sessions' = IF place = "discarding" THEN after ELSE sessions
    ELSE /\ child' = [child EXCEPT ![s] = "none"]
         /\ reader' = [reader EXCEPT ![s] = "none"]
         /\ Return(c)
         /\ sessions' = after

\* Mutant of CloseEnds: the child is not stopped.
CloseEndsSoftly(c) ==
    /\ at[c] \in {"detaching", "discarding"}
    /\ sessions' = IF at[c] = "detaching" THEN sessions \ {on[c]} ELSE sessions
    /\ Return(c)
    /\ UNCHANGED <<sinks, childVars, disturbed>>

\* The cancelled reader has ended: close stops the child, and detach unregisters the session.
CloseEnds(c) ==
    /\ at[c] \in {"detaching", "discarding"}
    /\ child' = [child EXCEPT ![on[c]] = "none"]
    /\ sessions' = IF at[c] = "detaching" THEN sessions \ {on[c]} ELSE sessions
    /\ Return(c)
    /\ UNCHANGED <<sinks, reader, disturbed>>

\* The sink raised while it was told of the attachment: the handler discards the session.
AttachFails(c) ==
    LET s == on[c]
    IN  /\ at[c] = "attaching"
        /\ disturbed' = disturbed \cup {s}
        /\ UNCHANGED sinks
        /\ IF s \in sessions
           THEN Close(c, s, "discarding", sessions \ {s})
           ELSE Return(c) /\ UNCHANGED <<sessions, childVars>>

\* Mutant of Leave: a session left by its last client is kept for the next.
LeaveOpen(c) ==
    /\ at[c] = "attached"
    /\ sinks' = [sinks EXCEPT ![on[c]] = @ \ {c}]
    /\ Return(c)
    /\ UNCHANGED <<sessions, childVars, disturbed>>

\* The socket closes, or a message of its client is refused: detach, and close behind the last.
Leave(c) ==
    LET s == on[c]
    IN  /\ at[c] = "attached"
        /\ UNCHANGED disturbed
        /\ IF s \notin sessions
           THEN Return(c) /\ UNCHANGED <<sessions, sinks, childVars>>
           ELSE /\ sinks' = [sinks EXCEPT ![s] = @ \ {c}]
                /\ IF sinks[s] \ {c} # {}
                   THEN Return(c) /\ UNCHANGED <<sessions, childVars>>
                   ELSE Close(c, s, "detaching", sessions \ {s})

\* A sink raises something other than RuntimeError at a broadcast, and the reader fails with it.
BroadcastFails(s) ==
    /\ s \in sessions /\ sinks[s] # {}
    /\ reader[s] = "reading"
    /\ reader' = [reader EXCEPT ![s] = "failed"]
    /\ disturbed' = disturbed \cup {s}
    /\ UNCHANGED <<sessions, sinks, child, at, on>>

\* The child exits; nothing is told to the clients.
ChildExits(s) ==
    /\ child[s] = "alive"
    /\ child' = [child EXCEPT ![s] = "exited"]
    /\ UNCHANGED <<sessions, sinks, reader, at, on, disturbed>>

\* The reader finds the end of the output.
ReaderEnds(s) ==
    /\ reader[s] = "reading" /\ child[s] = "exited"
    /\ reader' = [reader EXCEPT ![s] = "over"]
    /\ UNCHANGED <<sessions, sinks, child, at, on, disturbed>>

Next ==
    \/ \E c \in Client :
          \/ \E s \in Session : Create(c, s) \/ Join(c, s)
          \/ SpawnFails(c) \/ AnnounceFails(c)
          \/ \E found \in BOOLEAN : Started(c, found)
          \/ Attached(c) \/ AttachFails(c)
          \/ Leave(c) \/ CloseEnds(c)
    \/ \E s \in Session : BroadcastFails(s) \/ ChildExits(s) \/ ReaderEnds(s)

Spec == Init /\ [][Next]_vars

\* Spawning returns and a cancelled reader ends; clients need not leave, nor children exit.
FairSpec ==
    Spec /\ \A c \in Client :
        /\ WF_vars(CloseEnds(c))
        /\ WF_vars(SpawnFails(c) \/ AnnounceFails(c) \/ \E found \in BOOLEAN : Started(c, found))

------------------------------------------------------------------------------
(* Properties *)

Holds(c, s) == on[c] = s /\ at[c] \in {"starting", "detaching"}

\* No slot is lost: unless a sink raised, a registered session has a client, or a handler that
\* starts it or takes it away (codex_session.py:464-472).
SlotIsHeld(s) == sinks[s] # {} \/ \E c \in Client : Holds(c, s)

\* No child runs on unseen: unless a sink raised or a client joined the start, every child that
\* is alive belongs to a registered session, and there are no more than max_sessions of them
\* (codex_session.py:410-436).
ChildrenAreRegistered ==
    LET orderly == {s \in Session \ disturbed : child[s] = "alive"}
    IN  orderly \subseteq sessions /\ Cardinality(orderly) <= MaxSessions

\* What the broker tells its clients it reaches: an attached client of a registered session
\* is among its sinks, whoever came and went meanwhile (codex_session.py:399-408, 464-469).
ClientIsReached(c) == at[c] = "attached" /\ on[c] \in sessions => c \in sinks[on[c]]

\* Sessions and clients keep hold of one another however creates, joins, failed spawns and
\* leaves interleave.
ClientsHaveTheirSlot ==
    /\ \A s \in sessions \ disturbed : SlotIsHeld(s)
    /\ \A c \in Client : ClientIsReached(c)

\* A session that its last client has left is stopped and unregistered, or joined by another.
LeftSessionsEnd ==
    \A s \in Session :
        s \in sessions /\ sinks[s] = {} ~>
            \/ s \notin sessions /\ child[s] # "alive"
            \/ sinks[s] # {}
            \/ s \in disturbed
==============================================================================
