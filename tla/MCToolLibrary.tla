---------------------------- MODULE MCToolLibrary ----------------------------
(***************************************************************************)
(* What the processes of one installation share on disk: the tool library  *)
(* or the files of the usage database, which have no variable in common.   *)
(* A behaviour exercises one of three: a workflow pattern that earns its   *)
(* tool beside one tool an operator adds, two tools that operators add and *)
(* review, or the database.                                                *)
(***************************************************************************)
EXTENDS ToolLibrary, UsageStore, Functions, TLC

VARIABLE shared

vars == <<libraryVars, usageVars, shared>>

Init ==
    /\ shared \in {"patterns", "scripts", "database"}
    /\ LibraryInit /\ UsageInit
    /\ shared # "database" => at["state"] = NoFile

Next ==
    /\ UNCHANGED shared
    /\ \/ shared = "patterns" /\ LibraryNext /\ UNCHANGED usageVars
          /\ registered' <= 1 /\ changes' < MaxChanges
       \/ shared = "scripts" /\ LibraryNext /\ "observing" \notin Range(pc') /\ UNCHANGED usageVars
       \/ shared = "database" /\ UsageNext /\ UNCHANGED libraryVars

\* Processes and slugs are interchangeable; no property here is a liveness property.
Interchangeable == Permutations(Process) \cup Permutations(Added) \cup Permutations(Proc)

Spec == Init /\ [][Next]_vars
==============================================================================
