----------------------------- MODULE UsageStore ------------------------------
(***************************************************************************)
(* The files of the usage database: db.py's UsageDB, from the opening in a *)
(* RouterService's constructor to its rows, as processes that start, write *)
(* and stop share it (service.py).  A process that cannot open the file    *)
(* moves it aside and starts a new one; one that cannot do that either     *)
(* takes a place of its own under the temporary directory.                 *)
(*                                                                         *)
(* A row is a plan's, and what it says of the plan is all of it.  Whether  *)
(* an opening is refused is the environment's choice, and it may refuse    *)
(* one process (which has no descriptor left) and not another.             *)
(***************************************************************************)
EXTENDS Naturals

CONSTANTS
    Proc,       \* processes
    Row,        \* plans, one row each
    FileId, NoFile,
    MaxSecond   \* bound: seconds, the grain of a backup's name

ASSUME UsageAssumption ==
    /\ NoFile \notin FileId /\ FileId # {}
    /\ MaxSecond \in Nat

Place == {"state", "temporary"}
Second == 0..MaxSecond

VARIABLES
    step,      \* per process: "stopped", "connecting", "looking", "refused", "up" or "writing"
    place,     \* per process: the place it uses
    recovers,  \* per process: allow_recovery of its next opening
    opened,    \* per process: the file it has open
    saw,       \* per process: the columns it saw in it
    at,        \* per place: the file there
    backup,    \* per place and second: the file moved aside then
    columns,   \* per file: "none" (empty), "old" or "new"
    rows,      \* per file and row: "none", "prepared" or "done"
    second,    \* the clock
    inserted,  \* history: rows that were inserted
    doubled    \* history: one place was quarantined twice in a second

usageProcs == <<step, place, recovers, opened, saw>>
usageFiles == <<at, backup, columns, rows>>
usageHistory == <<inserted, doubled>>
usageVars == <<usageProcs, usageFiles, second, usageHistory>>

UsageTypeOK ==
    /\ step \in [Proc -> {"stopped", "connecting", "looking", "refused", "up", "writing"}]
    /\ place \in [Proc -> Place] /\ recovers \in [Proc -> BOOLEAN]
    /\ opened \in [Proc -> FileId \cup {NoFile}] /\ saw \in [Proc -> {"old", "new"}]
    /\ at \in [Place -> FileId \cup {NoFile}]
    /\ backup \in [Place -> [Second -> FileId \cup {NoFile}]]
    /\ columns \in [FileId -> {"none", "old", "new"}]
    /\ rows \in [FileId -> [Row -> {"none", "prepared", "done"}]]
    /\ second \in Second /\ inserted \subseteq Row /\ doubled \in BOOLEAN

\* An installation may be new, or have a database of an earlier version.
UsageInit ==
    /\ step = [p \in Proc |-> "stopped"]
    /\ place = [p \in Proc |-> "state"]
    /\ recovers = [p \in Proc |-> TRUE]
    /\ opened = [p \in Proc |-> NoFile] /\ saw = [p \in Proc |-> "new"]
    /\ rows = [f \in FileId |-> [r \in Row |-> "none"]]
    /\ backup = [x \in Place |-> [s \in Second |-> NoFile]]
    /\ \E first \in {NoFile, CHOOSE f \in FileId : TRUE} :
        /\ at = [x \in Place |-> IF x = "state" THEN first ELSE NoFile]
        /\ columns = [f \in FileId |-> IF f = first THEN "old" ELSE "none"]
    /\ second = 0 /\ inserted = {} /\ doubled = FALSE

Put(v, k, x) == [v EXCEPT ![k] = x]
Goes(p, to) == step' = Put(step, p, to)

\* What a process knows of an opening goes with its end.
Forgets(p) ==
    /\ opened' = Put(opened, p, NoFile)
    /\ recovers' = Put(recovers, p, TRUE)
    /\ saw' = Put(saw, p, "new")
Ends(p) == Goes(p, "stopped") /\ place' = Put(place, p, "state")

\* Files with a name, or held open by a process.
Named == {at[x] : x \in Place} \cup {backup[x][s] : x \in Place, s \in Second}
InUse == Named \cup {opened[p] : p \in Proc}
Fresh == CHOOSE f \in FileId : f \notin InUse

\* sqlite3.connect: the file at the process's place, which is created if there is none.
Connects(p) ==
    IF at[place[p]] # NoFile
    THEN opened' = Put(opened, p, at[place[p]]) /\ UNCHANGED at
    ELSE /\ FileId \ InUse # {}
         /\ opened' = Put(opened, p, Fresh)
         /\ at' = Put(at, place[p], Fresh)

\* A file that is created is empty, whatever one that was deleted held.
Contents(p) ==
    IF at[place[p]] # NoFile THEN <<columns, rows>>
    ELSE <<Put(columns, opened'[p], "none"), Put(rows, opened'[p], [r \in Row |-> "none"])>>

------------------------------------------------------------------------------
(* Starting *)

StartProcess(p) ==
    /\ step[p] = "stopped" /\ Goes(p, "connecting")
    /\ UNCHANGED <<place, recovers, opened, saw, usageFiles, second, usageHistory>>

\* CREATE TABLE IF NOT EXISTS, and a look at the columns there are.
OpenTables(p) ==
    /\ step[p] = "connecting" /\ Goes(p, "looking")
    /\ Connects(p)
    /\ LET c == Contents(p)[1]
           f == opened'[p]
       IN /\ columns' = IF c[f] = "none" THEN Put(c, f, "new") ELSE c
          /\ saw' = Put(saw, p, columns'[f])
    /\ rows' = Contents(p)[2]
    /\ UNCHANGED <<place, recovers, backup, second, usageHistory>>

\* _ensure_columns adds the columns it did not see; one that another process added meanwhile is an
\* error that ends the process, as a lock held for too long is.
EnsureColumns(p) ==
    LET added == saw[p] = "old" /\ columns[opened[p]] = "new" IN
    /\ step[p] = "looking"
    /\ \/ /\ ~added /\ columns' = Put(columns, opened[p], "new") /\ Goes(p, "up")
          /\ UNCHANGED place
       \/ UNCHANGED columns /\ Ends(p)
    /\ Forgets(p)
    /\ UNCHANGED <<at, backup, rows, second, usageHistory>>

\* "unable to open database file": the first is recovered from; the second makes the process move
\* from the default place to one under the temporary directory, and from there it fails.
Refused(p) ==
    /\ step[p] = "connecting"
    /\ IF recovers[p] THEN Goes(p, "refused") /\ UNCHANGED <<place, recovers, opened, saw>>
       ELSE /\ IF place[p] = "state" THEN place' = Put(place, p, "temporary") /\ UNCHANGED step
               ELSE Ends(p)
            /\ Forgets(p)
    /\ UNCHANGED <<usageFiles, second, usageHistory>>

\* Mutant of Quarantine: the file is deleted instead of renamed.
Discard(p) ==
    /\ step[p] = "refused" /\ Goes(p, "connecting")
    /\ recovers' = Put(recovers, p, FALSE)
    /\ \/ UNCHANGED <<at, doubled>>
       \/ at[place[p]] # NoFile /\ at' = Put(at, place[p], NoFile) /\ UNCHANGED doubled
    /\ UNCHANGED <<place, opened, saw, backup, columns, rows, second, inserted>>

\* _quarantine_existing_database: whatever is there is renamed, over a backup of the same second,
\* unless renaming fails as well.
Quarantine(p) ==
    LET x == place[p] IN
    /\ step[p] = "refused" /\ Goes(p, "connecting")
    /\ recovers' = Put(recovers, p, FALSE)
    /\ \/ UNCHANGED <<at, backup, doubled>>
       \/ /\ at[x] # NoFile
          /\ backup' = [backup EXCEPT ![x][second] = at[x]]
          /\ at' = Put(at, x, NoFile)
          /\ doubled' = (doubled \/ backup[x][second] # NoFile)
    /\ UNCHANGED <<place, opened, saw, columns, rows, second, inserted>>

------------------------------------------------------------------------------
(* Writing *)

\* Every write opens the file anew; an opening that is refused is an error of the call.
OpenToWrite(p) ==
    /\ step[p] = "up" /\ Goes(p, "writing")
    /\ Connects(p)
    /\ columns' = Contents(p)[1] /\ rows' = Contents(p)[2]
    /\ UNCHANGED <<place, recovers, saw, backup, second, usageHistory>>

\* record_preflight inserts a plan's row; a file without tables is an error.
Insert(p, r) ==
    LET f == opened[p] IN
    /\ step[p] = "writing" /\ Goes(p, "up")
    /\ opened' = Put(opened, p, NoFile)
    /\ IF columns[f] # "none"
       THEN rows' = [rows EXCEPT ![f][r] = "prepared"] /\ inserted' = inserted \cup {r}
       ELSE UNCHANGED <<rows, inserted>>
    /\ UNCHANGED <<place, recovers, saw, at, backup, columns, second, doubled>>

\* update_preflight_status changes the row, and is silent where there is none.
Update(p, r) ==
    LET f == opened[p] IN
    /\ step[p] = "writing" /\ Goes(p, "up")
    /\ opened' = Put(opened, p, NoFile)
    /\ r \in inserted
    /\ rows' = IF rows[f][r] # "none" THEN [rows EXCEPT ![f][r] = "done"] ELSE rows
    /\ UNCHANGED <<place, recovers, saw, at, backup, columns, second, usageHistory>>

\* A process may end at any step; an open transaction is rolled back.
StopProcess(p) ==
    /\ step[p] # "stopped" /\ Ends(p) /\ Forgets(p)
    /\ UNCHANGED <<usageFiles, second, usageHistory>>

NextSecond ==
    /\ second < MaxSecond /\ second' = second + 1
    /\ UNCHANGED <<usageProcs, usageFiles, usageHistory>>

UsageNext ==
    \/ \E p \in Proc :
        \/ StartProcess(p) \/ OpenTables(p) \/ EnsureColumns(p) \/ Refused(p) \/ Quarantine(p)
        \/ OpenToWrite(p) \/ StopProcess(p)
        \/ \E r \in Row : Insert(p, r) \/ Update(p, r)
    \/ NextSecond

UsageSpec == UsageInit /\ [][UsageNext]_usageVars

------------------------------------------------------------------------------
(* Properties *)

\* Whatever processes start, fail and move aside while others write, a row once inserted is still
\* in the database of a place or in a backup; two quarantines of one place within a second, whose
\* backups have one name, are all that can lose it (db.py:131-136, 195-210).
RowsAreKept ==
    ~doubled => \A r \in inserted : \E f \in Named \ {NoFile} : rows[f][r] # "none"
==============================================================================
