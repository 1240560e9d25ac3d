------------------------------- MODULE EnvFile -------------------------------
(***************************************************************************)
(* The protected environment file (credentials.py).  The dashboard's       *)
(* endpoints that save and delete a credential run in threads of one       *)
(* process, the wizard and a user's own `lwa-router keys` in another.      *)
(* Each reads the file, changes what it read, and writes all of it through *)
(* a temporary file that is named after the process alone.                 *)
(*                                                                         *)
(* A file is an inode: a thread that has opened the temporary file writes  *)
(* to that inode wherever it is linked by then.                            *)
(***************************************************************************)
EXTENDS Naturals, FiniteSets

CONSTANTS
    Saver,           \* a thread that saves credentials
    ProcessOf,       \* Saver -> its process
    Name,            \* recognised credential names
    Wizard,          \* the savers that run the wizard: they read long before they write
    MaxSaves,        \* saves altogether (a bound)
    NoInode

ASSUME EnvAssumption ==
    NoInode \notin Nat /\ Wizard \subseteq Saver /\ IsFiniteSet(Saver) /\ MaxSaves \in Nat

Inodes == 0..(2 * Cardinality(Saver))
Pid == {ProcessOf[s] : s \in Saver}
\* What a file says: the names with a value, whether a custom entry is kept,
\* and whether it is one save's whole payload.
Blank == [names |-> {}, custom |-> FALSE, whole |-> FALSE]

VARIABLES
    disk,       \* inode -> contents
    env,        \* the inode of the environment file
    temp,       \* Pid -> the inode of .env.<pid>.tmp, or NoInode
    saver,        \* Saver -> [at, want, custom, inode]
    environ,    \* Pid -> the names set in os.environ
    saves,      \* saves begun
    crossed     \* history: two savers of one process were at the temporary file at once

envVars == <<disk, env, temp, saver, environ, saves, crossed>>

NoSave == [at |-> "idle", want |-> {}, custom |-> FALSE, inode |-> NoInode]

EnvTypeOK ==
    /\ disk \in [Inodes -> [names : SUBSET Name, custom : BOOLEAN, whole : BOOLEAN]]
    /\ env \in Inodes /\ temp \in [Pid -> Inodes \cup {NoInode}]
    /\ saver \in [Saver -> [at : {"idle", "writing", "opening", "filling", "renaming", "cleaning"},
                            want : SUBSET Name, custom : BOOLEAN, inode : Inodes \cup {NoInode}]]
    /\ environ \in [Pid -> SUBSET Name]
    /\ saves \in 0..MaxSaves /\ crossed \in BOOLEAN

EnvInit ==
    /\ disk = [i \in Inodes |-> IF i = 0 THEN [names |-> {}, custom |-> TRUE, whole |-> TRUE] ELSE Blank]
    /\ env = 0
    /\ temp = [p \in Pid |-> NoInode]
    /\ saver = [s \in Saver |-> NoSave]
    /\ environ = [p \in Pid |-> {}]
    /\ saves = 0 /\ crossed = FALSE

Advance(s, from, to) == saver[s].at = from /\ saver' = [saver EXCEPT ![s].at = to]

\* update_managed_credential: read the file, change one name, and
\* os.environ with it, before anything is written.
Update(s) ==
    /\ s \notin Wizard /\ saver[s].at = "idle" /\ saves < MaxSaves
    /\ saves' = saves + 1
    /\ \E n \in Name, add \in BOOLEAN :
           LET Change(S) == IF add THEN S \cup {n} ELSE S \ {n} IN
           /\ saver' = [saver EXCEPT ![s].at = "writing", ![s].want = Change(disk[env].names)]
           /\ environ' = [environ EXCEPT ![ProcessOf[s]] = Change(@)]
    /\ UNCHANGED <<disk, env, temp, crossed>>

\* discover_credentials: the file first, then the process's environment,
\* Codex's configuration and the environment files beside it, each of which
\* may add a name and takes none away.
Discovered(file) == {file.names \cup elsewhere : elsewhere \in SUBSET Name}

\* run_credential_wizard: what it found, and what the user pastes; a
\* discovered or pasted value never removes one.
Ask(s) ==
    /\ s \in Wizard /\ saver[s].at = "idle" /\ saves < MaxSaves
    /\ saves' = saves + 1
    /\ \E found \in Discovered(disk[env]), pasted \in SUBSET Name :
           saver' = [saver EXCEPT ![s].at = "writing", ![s].want = found \cup pasted]
    /\ UNCHANGED <<disk, env, temp, environ, crossed>>

\* write_env_securely reads the file again, for the custom entries ...
ReadCustom(s) ==
    /\ saver[s].at = "writing"
    /\ saver' = [saver EXCEPT ![s].at = "opening", ![s].custom = disk[env].custom]
    /\ UNCHANGED <<disk, env, temp, environ, saves, crossed>>

\* Mutant of OpenTemp: the file itself is truncated and written.
OpenInPlaceOfTemp(s) ==
    /\ saver[s].at = "opening"
    /\ saver' = [saver EXCEPT ![s].at = "filling", ![s].inode = env]
    /\ disk' = [disk EXCEPT ![env] = Blank]
    /\ temp' = [temp EXCEPT ![ProcessOf[s]] = env]
    /\ UNCHANGED <<env, environ, saves, crossed>>

\* ... opens the temporary file, truncating one that is there ...
OpenTemp(s) ==
    LET p == ProcessOf[s]
        used == {env} \cup {temp[q] : q \in Pid} \cup {saver[t].inode : t \in Saver}
        i == IF temp[p] # NoInode THEN temp[p] ELSE CHOOSE j \in Inodes : j \notin used
    IN /\ saver[s].at = "opening"
       /\ saver' = [saver EXCEPT ![s].at = "filling", ![s].inode = i]
       /\ disk' = [disk EXCEPT ![i] = Blank]
       /\ temp' = [temp EXCEPT ![p] = i]
       /\ crossed' = (crossed \/ \E t \in Saver \ {s} :
                          ProcessOf[t] = p /\ saver[t].at \in {"filling", "renaming", "cleaning"})
       /\ UNCHANGED <<env, environ, saves>>

\* ... writes its payload, over what another thread has written there since:
\* the longer of the two shows through ...
FillTemp(s) ==
    LET i == saver[s].inode
        payload == [names |-> saver[s].want, custom |-> saver[s].custom, whole |-> TRUE]
    IN /\ Advance(s, "filling", "renaming")
       /\ \/ disk' = [disk EXCEPT ![i] = payload]
          \/ /\ disk[i] # Blank
             /\ disk' = [disk EXCEPT ![i] = [payload EXCEPT !.whole = FALSE]]
       /\ UNCHANGED <<env, temp, environ, saves, crossed>>

\* ... renames it over the file, or fails when another thread has done so ...
RenameTemp(s) ==
    LET p == ProcessOf[s] IN
    /\ Advance(s, "renaming", "cleaning")
    /\ IF temp[p] = NoInode THEN UNCHANGED <<env, temp>>
       ELSE env' = temp[p] /\ temp' = [temp EXCEPT ![p] = NoInode]
    /\ UNCHANGED <<disk, environ, saves, crossed>>

\* ... and removes a temporary file that is there, its own or not.
CleanUp(s) ==
    /\ saver[s].at = "cleaning"
    /\ saver' = [saver EXCEPT ![s] = NoSave]
    /\ temp' = [temp EXCEPT ![ProcessOf[s]] = NoInode]
    /\ UNCHANGED <<disk, env, environ, saves, crossed>>

\* The process ends where it is; the temporary file of an abandoned save stays.
Ends(p) ==
    /\ saver' = [s \in Saver |-> IF ProcessOf[s] = p THEN NoSave ELSE saver[s]]
    /\ environ' = [environ EXCEPT ![p] = {}]
    /\ UNCHANGED <<disk, env, temp, saves, crossed>>

EnvNext ==
    \/ \E s \in Saver :
           \/ Update(s) \/ Ask(s) \/ ReadCustom(s) \/ OpenTemp(s)
           \/ FillTemp(s) \/ RenameTemp(s) \/ CleanUp(s)
    \/ \E p \in Pid : Ends(p)

EnvSpec == EnvInit /\ [][EnvNext]_envVars

-----------------------------------------------------------------------------
\* As long as no two threads of one process were at its temporary file at
\* once, the environment file is at every moment, crashes included, the whole
\* payload of one save, and it keeps the custom entries (credentials.py:255-312).
SavesAreWholeUnlessCrossed == ~crossed => disk[env].whole /\ disk[env].custom

\* write_env_securely: "Atomically write recognized values while preserving
\* unknown custom entries."
SavesAreAtomic == disk[env].whole /\ disk[env].custom
==============================================================================
