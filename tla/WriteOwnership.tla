--------------------------- MODULE WriteOwnership ----------------------------
(***************************************************************************)
(* write_ownership.py: who may write where, in a JSON file that processes  *)
(* read, check and write back whole, without a lock.  Writing truncates    *)
(* the file first.  A scope is the set of the paths its pattern matches;   *)
(* a pattern that matches another pattern contains it.                     *)
(***************************************************************************)
EXTENDS Naturals, Sequences

CONSTANTS
    Process,
    TaskKey,    \* task_id
    Writer,     \* actors
    Scope,      \* the patterns in use, each as the set of its paths
    Scopes,     \* the lists of patterns asked for, each as a set
    MaxRecords  \* bound: records of the file

\* Patterns in use are nested or apart: fnmatch of one pattern with another does not see that
\* src/*.py and src/a* meet.
ASSUME ScopesAreLaminar ==
    /\ Scopes \subseteq SUBSET Scope
    /\ \A x, y \in Scope : x \subseteq y \/ y \subseteq x \/ x \cap y = {}

VARIABLES
    file,   \* the records in the file
    torn,   \* the file is truncated or mixed up: no JSON
    job,    \* where each process is: "idle", "checked", "ready" or "writing"
    want,   \* what a process has checked (a delegation), then what it will write (all records)
    mixed   \* processes that write a file that another one has filled since it was last truncated

ownershipVars == <<file, torn, job, want, mixed>>

Record == [kind : {"ownership", "delegation"}, task : TaskKey, issuer : Writer, actor : Writer,
           scopes : Scopes, revoked : BOOLEAN]

OwnershipTypeOK ==
    /\ file \in Seq(Record)
    /\ torn \in BOOLEAN
    /\ job \in [Process -> {"idle", "checked", "ready", "writing"}]
    /\ want \in [Process -> Seq(Record)]
    /\ mixed \subseteq Process

OwnershipInit ==
    /\ file = <<>> /\ torn = FALSE
    /\ job = [p \in Process |-> "idle"]
    /\ want = [p \in Process |-> <<>>]
    /\ mixed = {}

Nested(x, y) == x \subseteq y \/ y \subseteq x
Overlap(r, s) == \E x \in r.scopes, y \in s.scopes : Nested(x, y)
Owns(r, task, actor) == r.kind = "ownership" /\ r.task = task /\ r.actor = actor
Covers(r, scopes) == \A x \in scopes : \E y \in r.scopes : x \subseteq y

Step(p, at, records) ==
    /\ job' = [job EXCEPT ![p] = at]
    /\ want' = [want EXCEPT ![p] = records]

\* Mutant of Grant: only the scope that was granted last is compared.
GrantUnlikeLast(p, r) ==
    /\ job[p] = "idle" /\ ~torn /\ Len(file) < MaxRecords
    /\ r.kind = "ownership" /\ r.issuer = r.actor /\ ~r.revoked
    /\ r.scopes # {}
    /\ file # <<>> => ~Overlap(r, file[Len(file)])
    /\ Step(p, "ready", Append(file, r))
    /\ UNCHANGED <<file, torn, mixed>>

\* grant, up to its write: no record of any task, revoked or expired, may have an equal, wider or
\* narrower scope.
Grant(p, r) ==
    /\ job[p] = "idle" /\ ~torn /\ Len(file) < MaxRecords
    /\ r.kind = "ownership" /\ r.issuer = r.actor /\ ~r.revoked
    /\ r.scopes # {}
    /\ \A i \in DOMAIN file : ~Overlap(r, file[i])
    /\ Step(p, "ready", Append(file, r))
    /\ UNCHANGED <<file, torn, mixed>>

\* delegate reads the file once for the issuer's ownership ...
DelegateChecks(p, r) ==
    /\ job[p] = "idle" /\ ~torn
    /\ r.kind = "delegation" /\ ~r.revoked
    /\ \E i \in DOMAIN file :
        Owns(file[i], r.task, r.issuer) /\ ~file[i].revoked /\ Covers(file[i], r.scopes)
    /\ Step(p, "checked", <<r>>)
    /\ UNCHANGED <<file, torn, mixed>>

\* ... and again for what it will write, where only that ownership may overlap.
DelegateReads(p) ==
    /\ job[p] = "checked" /\ Len(file) < MaxRecords
    /\ LET r == want[p][1] IN
       IF ~torn /\ \A i \in DOMAIN file :
                      Owns(file[i], r.task, r.issuer) \/ ~Overlap(r, file[i])
       THEN Step(p, "ready", Append(file, r))
       ELSE Step(p, "idle", <<>>)
    /\ UNCHANGED <<file, torn, mixed>>

\* revoke, by an owner of anything in the task: every delegation to that actor.
Revoke(p, task, actor, by) ==
    LET Hit(r) == r.task = task /\ r.kind = "delegation" /\ r.actor = actor IN
    /\ job[p] = "idle" /\ ~torn
    /\ \E i \in DOMAIN file : Hit(file[i])
    /\ \E i \in DOMAIN file : Owns(file[i], task, by)
    /\ Step(p, "ready", [i \in DOMAIN file |->
                            IF Hit(file[i]) THEN [file[i] EXCEPT !.revoked = TRUE] ELSE file[i]])
    /\ UNCHANGED <<file, torn, mixed>>

\* write_text: the file is truncated, then filled.
Truncate(p) ==
    /\ job[p] = "ready"
    /\ job' = [job EXCEPT ![p] = "writing"]
    /\ file' = <<>> /\ torn' = TRUE
    /\ mixed' = {}
    /\ UNCHANGED want

\* Over the text of another process the shorter of two may leave an end of the longer.
Fill(p) ==
    /\ job[p] = "writing"
    /\ torn' \in IF p \in mixed THEN BOOLEAN ELSE {FALSE}
    /\ file' = IF torn' THEN <<>> ELSE want[p]
    /\ mixed' = (mixed \cup {q \in Process : job[q] = "writing"}) \ {p}
    /\ Step(p, "idle", <<>>)

\* A process dies, with the file as it is.
Dies(p) ==
    /\ job[p] # "idle"
    /\ Step(p, "idle", <<>>)
    /\ mixed' = mixed \ {p}
    /\ UNCHANGED <<file, torn>>

OwnershipNext ==
    \E p \in Process :
        \/ \E r \in Record : Grant(p, r) \/ DelegateChecks(p, r)
        \/ DelegateReads(p)
        \/ \E task \in TaskKey, actor, by \in Writer : Revoke(p, task, actor, by)
        \/ Truncate(p) \/ Fill(p) \/ Dies(p)

OwnershipSpec == OwnershipInit /\ [][OwnershipNext]_ownershipVars

------------------------------------------------------------------------------

\* r and s, in this order in a file, overlap only as an ownership and a delegation of it.
MayFollow(r, s) ==
    Overlap(r, s) => s.kind = "delegation" /\ Owns(r, s.task, s.issuer)

Apart(records) == \A i, j \in DOMAIN records : i < j => MayFollow(records[i], records[j])

\* Scopes in the file do not overlap, however grants, delegations and revocations of several
\* processes race for the file: a process loses the records of another, and never adds its own to
\* them unchecked (write_ownership.py:25-70).
ScopesStayApart == Apart(file)

\* A path that two actors are allowed to write belongs to one of them, who delegated it to the
\* other (write_ownership.py:72-84): authorize finds no third.
May(r, path) == ~r.revoked /\ \E x \in r.scopes : path \in x
PathsHaveOneOwner ==
    \A i, j \in DOMAIN file : \A path \in UNION Scope :
        /\ i < j /\ May(file[i], path) /\ May(file[j], path) /\ file[i].actor # file[j].actor
        => Owns(file[i], file[j].task, file[j].issuer)
==============================================================================
