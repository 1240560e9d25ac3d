------------------------------ MODULE MCStores -------------------------------
(***************************************************************************)
(* The stores that calls, agents, processes and refreshes share.  They     *)
(* have no variable in common, so what holds of each does not depend on    *)
(* the others' steps: a behaviour exercises one of them, and the others    *)
(* stay as they were.                                                      *)
(***************************************************************************)
EXTENDS Preflight, TaskLedger, WriteOwnership, Rites, EnvFile, Catalog, TLC

VARIABLE store

MCScope == {{1}, {2}, {1, 2}}
MCScopes == {{x} : x \in MCScope}
MCWizard == {"w"}
MCProcessOf == [s \in Saver |-> IF s \in MCWizard THEN "wizard" ELSE "dashboard"]

Symmetry ==
    UNION {Permutations(S) : S \in {Agent, Process, Writer}}

Init ==
    /\ store \in {"plans", "ledger", "ownership", "rites", "environment", "catalog"}
    /\ PreflightInit /\ LedgerInit /\ OwnershipInit /\ RitesInit /\ EnvInit /\ CatalogInit

vars == <<preflightVars, ledgerVars, ownershipVars, ritesVars, envVars, catalogVars, store>>

Next ==
    /\ UNCHANGED store
    /\ \/ /\ store = "plans" /\ PreflightNext
          /\ UNCHANGED <<ledgerVars, ownershipVars, ritesVars, envVars, catalogVars>>
       \/ /\ store = "ledger" /\ LedgerNext
          /\ UNCHANGED <<preflightVars, ownershipVars, ritesVars, envVars, catalogVars>>
       \/ /\ store = "ownership" /\ OwnershipNext
          /\ UNCHANGED <<preflightVars, ledgerVars, ritesVars, envVars, catalogVars>>
       \/ /\ store = "rites" /\ RitesNext
          /\ UNCHANGED <<preflightVars, ledgerVars, ownershipVars, envVars, catalogVars>>
       \/ /\ store = "environment" /\ EnvNext
          /\ UNCHANGED <<preflightVars, ledgerVars, ownershipVars, ritesVars, catalogVars>>
       \/ /\ store = "catalog" /\ CatalogNext
          /\ UNCHANGED <<preflightVars, ledgerVars, ownershipVars, ritesVars, envVars>>
       \/ UNCHANGED <<preflightVars, ledgerVars, ownershipVars, ritesVars, envVars, catalogVars>>

Spec == Init /\ [][Next]_vars
==============================================================================
