------------------------------ MODULE Preflight ------------------------------
(***************************************************************************)
(* preflight.py: PreflightStore, the in-memory store of single-use         *)
(* execution plans.  create, approve and consume run without an await, so  *)
(* each is one step.  A plan's execute token and its confirmation token    *)
(* are fresh nonces bound to the plan, and both are named by the plan here.*)
(***************************************************************************)
EXTENDS Clock

CONSTANTS
    Plan,       \* plan identifiers, one per call of create
    Ttl         \* ttl_seconds, in ticks of the clock

ASSUME PreflightAssumption == Ttl \in Nat /\ MaxTime \in Nat

VARIABLES
    plans,          \* the keys of _plans
    confirmations,  \* the keys of _confirmations
    requires,       \* summary.requires_confirmation
    approved,       \* PreparedExecution.approved
    status,         \* summary.status ("none": create has not run)
    expires         \* summary.expires_at_epoch

storeVars == <<plans, confirmations, requires, approved, status, expires>>
preflightVars == <<now, storeVars>>

PlanStatus == {"none", "confirmation_required", "ready", "consumed"}

PreflightTypeOK ==
    /\ now \in Nat
    /\ plans \subseteq Plan
    /\ confirmations \subseteq Plan
    /\ requires \in [Plan -> BOOLEAN]
    /\ approved \in [Plan -> BOOLEAN]
    /\ status \in [Plan -> PlanStatus]
    /\ expires \in [Plan -> Nat]

StoreInit ==
    /\ plans = {} /\ confirmations = {}
    /\ requires = [p \in Plan |-> FALSE]
    /\ approved = [p \in Plan |-> FALSE]
    /\ status = [p \in Plan |-> "none"]
    /\ expires = [p \in Plan |-> 0]

PreflightInit == now = 0 /\ StoreInit

------------------------------------------------------------------------------
\* Mutant of PurgedConfirmations: the purge deletes plans and leaves their tokens.
KeepsTokens == confirmations

\* purge: the plans it deletes, and the tokens left when those that name them go too.
Expired == {p \in plans : expires[p] < now}

PurgedConfirmations == confirmations \ Expired

\* create: does not purge; needs is true when any locked route requires confirmation.
Create(p, needs) ==
    /\ status[p] = "none"
    /\ plans' = plans \cup {p}
    /\ confirmations' = IF needs THEN confirmations \cup {p} ELSE confirmations
    /\ requires' = [requires EXCEPT ![p] = needs]
    /\ approved' = [approved EXCEPT ![p] = ~needs]
    /\ status' = [status EXCEPT ![p] = IF needs THEN "confirmation_required" ELSE "ready"]
    /\ expires' = [expires EXCEPT ![p] = now + Ttl]

\* approve: purge, pop the token, and mark the plan it names if it is still stored.
Approve(p) ==
    /\ p \in PurgedConfirmations
    /\ plans' = plans \ Expired
    /\ confirmations' = PurgedConfirmations \ {p}
    /\ IF p \in plans \ Expired
       THEN /\ approved' = [approved EXCEPT ![p] = TRUE]
            /\ status' = [status EXCEPT ![p] = "ready"]
       ELSE UNCHANGED <<approved, status>>
    /\ UNCHANGED <<requires, expires>>

\* Mutant of Consume: approval is not looked at.
ConsumeUnapproved(p) ==
    /\ p \in plans \ Expired
    /\ plans' = plans \ (Expired \cup {p})
    /\ confirmations' = PurgedConfirmations \ {p}
    /\ status' = [status EXCEPT ![p] = "consumed"]
    /\ UNCHANGED <<requires, approved, expires>>

\* consume: purge, pop the plan, drop its confirmations, and hand it to Working.
Consume(p) ==
    /\ p \in plans \ Expired
    /\ approved[p]
    /\ plans' = plans \ (Expired \cup {p})
    /\ confirmations' = PurgedConfirmations \ {p}
    /\ status' = [status EXCEPT ![p] = "consumed"]
    /\ UNCHANGED <<requires, approved, expires>>

\* A token approve or consume does not accept (unknown, expired, already used, or a plan
\* that awaits approval, which consume puts back): the purge is all that happens.
Reject(p) ==
    /\ p \notin PurgedConfirmations \/ p \notin plans \ Expired \/ ~approved[p]
    /\ plans' = plans \ Expired
    /\ confirmations' = PurgedConfirmations
    /\ UNCHANGED <<requires, approved, status, expires>>

Tick == ClockAdvances /\ UNCHANGED storeVars

PreflightNext ==
    \/ Tick
    \/ /\ UNCHANGED now
       /\ \E p \in Plan :
             \/ \E needs \in BOOLEAN : Create(p, needs)
             \/ Approve(p)
             \/ Consume(p)
             \/ Reject(p)

PreflightSpec == PreflightInit /\ [][PreflightNext]_preflightVars

------------------------------------------------------------------------------
(* What the store promises *)

\* approve never reports "Prepared execution no longer exists": every live confirmation
\* token names a stored plan that is still waiting for it (preflight.py:142-147).
ConfirmationsNameWaitingPlans ==
    \A p \in confirmations :
        p \in plans /\ requires[p] /\ ~approved[p] /\ status[p] = "confirmation_required"

\* Every stored plan that cannot be consumed yet still has the token that unlocks it: no
\* purge, rejected call or other plan's approval strands a plan behind its gate.
WaitingPlansCanBeApproved ==
    \A p \in plans : approved[p] \/ p \in confirmations

\* A consumed plan is spent: it is out of the store and no call brings it back, so one
\* approval pays for one run (preflight.py:156, and the put-back at 160).
SingleUse ==
    [][\A p \in Plan : status[p] = "consumed" =>
            status'[p] = "consumed" /\ p \notin plans' /\ p \notin confirmations']_preflightVars

\* Nothing that has expired is approved or handed to Working, however late the purge runs.
ExpiredPlansStay ==
    [][\A p \in Plan : status[p] # "none" /\ expires[p] < now => status'[p] = status[p]]_preflightVars

\* The plan's phase in the abstract contract.
phaseOf == [p \in Plan |->
    IF status[p] = "none" THEN "unlocked"
    ELSE IF status[p] = "consumed" THEN "worked"
    ELSE IF p \notin plans THEN "lapsed"
    ELSE IF approved[p] THEN "cleared" ELSE "waiting"]

Contract == INSTANCE ConsentContract WITH phase <- phaseOf

\* The store implements the consent contract: it locks a plan once, starts only a plan that
\* was cleared, and starts it once.
ImplementsContract == Contract!Spec
==============================================================================
