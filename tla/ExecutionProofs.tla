--------------------------- MODULE ExecutionProofs ---------------------------
(***************************************************************************)
(* Proofs about PlanExecution.tla, for any plans, providers, chain, cap,   *)
(* lifetime and bounds: what the ledger tells of a run, that a run sends   *)
(* nothing to a provider that is not open to its request, and how many     *)
(* calls it makes, while other plans, the pin, consent and readiness move  *)
(* and the process restarts.                                               *)
(*                                                                         *)
(* None of the three is inductive: the ledger's row of a plan that starts  *)
(* is known from the store, so the store's invariant is part of this one;  *)
(* the route of a plan that starts is known from its lock; and the number  *)
(* of calls from what a sleeping run and a retried one have already used.  *)
(***************************************************************************)
EXTENDS PlanExecution, PreflightProofs, FiniteSetTheorems

------------------------------------------------------------------------------
(* The invariant *)

\* A run is idle until its plan is spent, and then never again.
RunFollowsPlan(p) == run[p] = "idle" <=> status[p] # "consumed"

\* A stored plan has a locked route, which its request allows.
LockedRouteAllowed(p) == p \in plans => route[p] \in Provider /\ PaidOnlyIfAllowed(p)

\* An active run has a route that is open to it.
ActiveRouteEligible(p) ==
    run[p] \in Active => route[p] \in Provider /\ ExhaustedStaysExcluded(p) /\ PaidOnlyIfAllowed(p)

\* What a run has used of its calls: two for each provider it gave up and, of the present one,
\* a first call before a retry and a second after.
CallsUsed(p) ==
    /\ IsFiniteSet(excluded[p])
    /\ run[p] \notin Active => sent[p] = 0 /\ excluded[p] = {}
    /\ run[p] = "sleeping" => retried[p] /\ sent[p] <= 2 * Cardinality(excluded[p]) + 1
    /\ run[p] = "calling" =>
          sent[p] <= 2 * Cardinality(excluded[p]) + (IF retried[p] THEN 2 ELSE 1)

\* The row is behind what happened to the plan, never ahead of it, and behind only if an
\* update raised.
RowOfPlan(p) ==
    /\ row[p] = "ready" => status[p] \in {"ready", "consumed"}
    /\ row[p] = "working" => run[p] # "idle"
    /\ row[p] = "completed" => run[p] = "completed"
    /\ row[p] = "repreflight_required" => run[p] \in {"stopped", "exhausted"}
    /\ run[p] \in Active => row[p] = "working"
    /\ p \notin missed =>
          /\ status[p] # "consumed" => row[p] = status[p]
          /\ run[p] \in Active \cup {"cancelled"} <=> row[p] = "working"
          /\ run[p] = "completed" <=> row[p] = "completed"

PlanInv(p) ==
    RunFollowsPlan(p) /\ LockedRouteAllowed(p) /\ ActiveRouteEligible(p) /\ CallsUsed(p) /\ RowOfPlan(p)

ExecutionInv == TypeOK /\ StoreInv /\ \A p \in Plan : PlanInv(p)

\* The invariant implies what the ledger, the routes and the calls promise.
LEMMA InvariantSuffices ==
    ExecutionInv => LedgerFollowsPlan /\ RoutesStayEligible /\ CallsBounded
<1> SUFFICES ASSUME ExecutionInv, NEW p \in Plan
             PROVE  RowOfPlan(p) /\ ActiveRouteEligible(p) /\ sent[p] <= 2 * (Cardinality(excluded[p]) + 1)
  BY DEF LedgerFollowsPlan, RowOfPlan, RoutesStayEligible, ActiveRouteEligible, CallsBounded
<1>1. PlanInv(p) /\ sent[p] \in Nat /\ run[p] \in {"idle"} \cup Active \cup Ended
  BY DEF ExecutionInv, TypeOK
<1>2. IsFiniteSet(excluded[p]) /\ Cardinality(excluded[p]) \in Nat
  BY <1>1, FS_CardinalityType DEF PlanInv, CallsUsed
<1> QED BY <1>1, <1>2 DEF PlanInv, CallsUsed, Active

\* Nothing has been locked when the process starts.
LEMMA ExecutionInvInit == Init => ExecutionInv
<1> SUFFICES ASSUME Init PROVE ExecutionInv
  OBVIOUS
<1>1. StoreInv
  BY InitStoreInv DEF Init
<1>2. RoutingTypeOK
  BY RoutingAssumption DEF Init, RoutingInit, RoutingTypeOK
<1>3. TypeOK
  BY <1>1, <1>2, ExecutionAssumption DEF Init, TypeOK, StoreInv
<1>4. ASSUME NEW p \in Plan PROVE PlanInv(p)
  <2>1. IsFiniteSet({})
    BY FS_EmptySet
  <2> QED
    BY <2>1 DEF Init, PreflightInit, StoreInit, PlanInv, RunFollowsPlan, LockedRouteAllowed,
       ActiveRouteEligible, CallsUsed, RowOfPlan, Active
<1> QED BY <1>1, <1>3, <1>4 DEF ExecutionInv
------------------------------------------------------------------------------
(* One plan's step *)

Rows == {"none", "confirmation_required", "ready", "working", "completed", "repreflight_required"}

PlansTyped ==
    /\ row \in [Plan -> Rows]
    /\ allowPaid \in [Plan -> BOOLEAN]
    /\ preferred \in [Plan -> Seq(Provider)]
    /\ route \in [Plan -> Provider \cup {None}]
    /\ excluded \in [Plan -> SUBSET Provider]
    /\ retried \in [Plan -> BOOLEAN]
    /\ run \in [Plan -> {"idle"} \cup Active \cup Ended]
    /\ sent \in [Plan -> Nat]
    /\ missed \subseteq Plan

LEMMA TypesOfTypeOK == TypeOK <=> PreflightTypeOK /\ RoutingTypeOK /\ PlansTyped /\ changes \in 0..MaxChanges
BY DEF TypeOK, PlansTyped, Rows

\* The store's types come with its invariant, so a step is typed when the rest is.
LEMMA NextTypeOK ==
    ASSUME StoreInv', RoutingTypeOK', PlansTyped', changes' \in 0..MaxChanges
    PROVE  TypeOK'
BY DEF StoreInv, TypeOK, PlansTyped, Rows

\* Nothing of another plan changes, but that the purge may take it out of the store.
Alone(p) ==
    \A q \in Plan \ {p} :
        /\ status'[q] = status[q] /\ run'[q] = run[q] /\ row'[q] = row[q]
        /\ route'[q] = route[q] /\ allowPaid'[q] = allowPaid[q] /\ excluded'[q] = excluded[q]
        /\ retried'[q] = retried[q] /\ sent'[q] = sent[q] /\ (q \in missed' <=> q \in missed)
        /\ q \in plans' => q \in plans

\* A step of one plan is right if it is right of that plan.
LEMMA StepOfOnePlan ==
    ASSUME ExecutionInv, NEW p \in Plan, Alone(p), TypeOK', StoreInv', PlanInv(p)'
    PROVE  ExecutionInv'
<1>1. ASSUME NEW q \in Plan, q # p PROVE PlanInv(q)'
  <2>1. PlanInv(q)
    BY DEF ExecutionInv
  <2> QED
    BY <1>1, <2>1 DEF Alone, PlanInv, RunFollowsPlan, LockedRouteAllowed, ActiveRouteEligible,
       ExhaustedStaysExcluded, PaidOnlyIfAllowed, CallsUsed, RowOfPlan
<1> QED BY <1>1 DEF ExecutionInv

\* A plan whose run is active is spent and out of the store.
LEMMA ActiveIsSpent ==
    ASSUME ExecutionInv, NEW p \in Plan, run[p] # "idle"
    PROVE  status[p] = "consumed" /\ p \notin plans
<1>1. status[p] = "consumed"
  BY DEF ExecutionInv, PlanInv, RunFollowsPlan
<1> QED BY <1>1 DEF ExecutionInv, StoreInv, StoredPlansAreOpen

\* An update of a row leaves what was told or, missed, what was, and counts what it may.
LEMMA UpdateIs ==
    ASSUME TypeOK, NEW p \in Plan, NEW was \in Rows, NEW told \in Rows, UpdateRow(p, was, told)
    PROVE  /\ row' \in [Plan -> Rows] /\ missed' \subseteq Plan /\ changes' \in 0..MaxChanges
           /\ row'[p] = told \/ (row'[p] = was /\ p \in missed')
           /\ \A q \in Plan \ {p} : row'[q] = row[q] /\ (q \in missed' <=> q \in missed)
<1>1. PlansTyped /\ changes \in 0..MaxChanges /\ MaxChanges \in Nat
  BY TypesOfTypeOK, ExecutionAssumption
<1>2. CASE row' = [row EXCEPT ![p] = told] /\ UNCHANGED <<missed, changes>>
  BY <1>1, <1>2 DEF PlansTyped
<1>3. CASE row' = [row EXCEPT ![p] = was] /\ missed' = missed \cup {p} /\ Change
  BY <1>1, <1>3 DEF PlansTyped, Change
<1> QED BY <1>2, <1>3 DEF UpdateRow

\* A run that ends leaves no calls and the row that says how, or "working".
LEMMA EndIsRight ==
    ASSUME TypeOK, NEW p \in Plan, NEW how \in Ended \ {"cancelled"}, NEW closed, End(p, how, closed),
           status'[p] = "consumed", p \notin plans',
           closed = IF how = "completed" THEN "completed" ELSE "repreflight_required"
    PROVE  PlansTyped' /\ PlanInv(p)' /\ changes' \in 0..MaxChanges
<1>1. /\ row' \in [Plan -> Rows] /\ missed' \subseteq Plan /\ changes' \in 0..MaxChanges
      /\ row'[p] = closed \/ (row'[p] = "working" /\ p \in missed')
  <2>1. closed \in Rows /\ "working" \in Rows
    BY DEF Rows
  <2> QED
    BY <2>1, UpdateIs DEF End
<1>2. PlansTyped'
  BY <1>1, TypesOfTypeOK DEF PlansTyped, End, Forget
<1>3. /\ run'[p] = how /\ excluded'[p] = {} /\ sent'[p] = 0
  BY TypesOfTypeOK DEF PlansTyped, End, Forget
<1>4. IsFiniteSet({})
  BY FS_EmptySet
<1>5. run'[p] \notin {"idle", "cancelled"} \cup Active
  BY <1>3 DEF Ended, Active
<1>6. RunFollowsPlan(p)' /\ LockedRouteAllowed(p)' /\ ActiveRouteEligible(p)'
  BY <1>3, <1>5 DEF RunFollowsPlan, LockedRouteAllowed, ActiveRouteEligible
<1>7. RowOfPlan(p)'
  BY <1>1, <1>3, <1>5 DEF RowOfPlan, Ended
<1>8. CallsUsed(p)'
  BY <1>3, <1>4, <1>5 DEF CallsUsed, Active
<1> QED BY <1>1, <1>2, <1>6, <1>7, <1>8 DEF PlanInv

\* A call to an open provider keeps the count, if there was one left; otherwise the run ends.
LEMMA SendIsRight ==
    ASSUME TypeOK, NEW p \in Plan, NEW q \in Provider, NEW exclude \in SUBSET Provider,
           NEW again \in BOOLEAN, Send(p, q, exclude, again),
           status'[p] = "consumed", p \notin plans',
           q \notin exclude, q \in Paid => allowPaid[p], IsFiniteSet(exclude),
           sent[p] + 1 <= 2 * Cardinality(exclude) + (IF again THEN 2 ELSE 1)
    PROVE  PlansTyped' /\ PlanInv(p)' /\ changes' \in 0..MaxChanges
<1>1. CASE q \notin ready
  <2>1. End(p, "stopped", "repreflight_required")
    BY <1>1 DEF Send
  <2> QED BY <2>1, EndIsRight DEF Ended
<1>2. CASE q \in ready
  <2>1. /\ run' = [run EXCEPT ![p] = "calling"] /\ row' = [row EXCEPT ![p] = "working"]
        /\ route' = [route EXCEPT ![p] = q] /\ excluded' = [excluded EXCEPT ![p] = exclude]
        /\ retried' = [retried EXCEPT ![p] = again] /\ sent' = [sent EXCEPT ![p] = sent[p] + 1]
        /\ UNCHANGED <<allowPaid, preferred, missed, changes>>
    BY <1>2 DEF Send
  <2>2. PlansTyped'
    BY <2>1, TypesOfTypeOK DEF PlansTyped, Active, Rows
  <2>3. /\ run'[p] = "calling" /\ row'[p] = "working" /\ route'[p] = q /\ excluded'[p] = exclude
        /\ retried'[p] = again /\ sent'[p] = sent[p] + 1 /\ allowPaid'[p] = allowPaid[p]
    BY <2>1, TypesOfTypeOK DEF PlansTyped
  <2>4. RunFollowsPlan(p)' /\ LockedRouteAllowed(p)' /\ RowOfPlan(p)'
    BY <2>3 DEF RunFollowsPlan, LockedRouteAllowed, RowOfPlan, Active
  <2>5. ActiveRouteEligible(p)'
    BY <2>3 DEF ActiveRouteEligible, ExhaustedStaysExcluded, PaidOnlyIfAllowed
  <2>6. CallsUsed(p)'
    BY <2>3 DEF CallsUsed, Active
  <2>7. changes' \in 0..MaxChanges
    BY <2>1, TypesOfTypeOK
  <2> QED BY <2>2, <2>4, <2>5, <2>6, <2>7 DEF PlanInv
<1> QED BY <1>1, <1>2

\* Sending, like ending, is a matter of one plan.
LEMMA SendIsAlone ==
    ASSUME TypeOK, NEW p \in Plan, NEW q \in Provider, NEW exclude, NEW again,
           NEW how, NEW closed, Send(p, q, exclude, again) \/ End(p, how, closed),
           \A x \in Plan \ {p} : status'[x] = status[x] /\ (x \in plans' => x \in plans)
    PROVE  Alone(p)
BY TypesOfTypeOK DEF PlansTyped, Send, End, UpdateRow, Forget, Alone

------------------------------------------------------------------------------
(* The steps *)

\* A plan is locked on an open route and recorded as its summary says.
LEMMA PrepareKeeps ==
    ASSUME ExecutionInv, NEW p \in Plan, NEW paidAllowed \in BOOLEAN, Prepare(p, paidAllowed)
    PROVE  ExecutionInv'
<1> DEFINE open == Eligible(paidAllowed, {})
           chosen == Decide(RequestOrder, open)
<1>1. RoutingTypeOK /\ RequestOrder \in Seq(Provider)
  BY OrderIsOfProviders DEF ExecutionInv, TypeOK, RequestOrder
<1>2. chosen \in Provider /\ (chosen \in Paid => paidAllowed)
  <2>1. open # {}
    BY DEF Prepare
  <2> QED BY <1>1, <2>1, DecidesEligibly
<1>3. /\ Create(p, RequiresConfirmation(chosen)) /\ now' = now
      /\ row' = [row EXCEPT ![p] = status'[p]] /\ allowPaid' = [allowPaid EXCEPT ![p] = paidAllowed]
      /\ preferred' = [preferred EXCEPT ![p] = RequestOrder] /\ route' = [route EXCEPT ![p] = chosen]
      /\ UNCHANGED <<pinVars, excluded, retried, sent, run, used, missed, worldVars>>
  BY DEF Prepare
<1>4. RequiresConfirmation(chosen) \in BOOLEAN
  BY DEF RequiresConfirmation
<1>5. StoreInv'
  BY <1>3, <1>4, CreateStoreInv DEF ExecutionInv
<1>6. /\ status[p] = "none" /\ status'[p] \in {"ready", "confirmation_required"}
      /\ \A q \in Plan \ {p} : status'[q] = status[q] /\ (q \in plans' => q \in plans)
  BY <1>3 DEF Create, ExecutionInv, StoreInv, PreflightTypeOK
<1>7. PlanInv(p) /\ run[p] = "idle"
  BY <1>6 DEF ExecutionInv, PlanInv, RunFollowsPlan
<1>8. TypeOK'
  <2>1. PlansTyped
    BY TypesOfTypeOK DEF ExecutionInv
  <2>2. PlansTyped'
    BY <1>1, <1>2, <1>3, <1>6, <2>1 DEF PlansTyped, Rows
  <2> QED
    BY <1>3, <1>5, <2>2, TypesOfTypeOK, NextTypeOK
       DEF ExecutionInv, RoutingTypeOK, pinVars, worldVars
<1>9. Alone(p)
  BY <1>3, <1>6, TypesOfTypeOK DEF ExecutionInv, PlansTyped, Alone
<1>10. /\ row'[p] = status'[p] /\ allowPaid'[p] = paidAllowed /\ route'[p] = chosen
       /\ excluded'[p] = excluded[p] /\ sent'[p] = sent[p] /\ run'[p] = run[p]
  BY <1>3, TypesOfTypeOK DEF ExecutionInv, PlansTyped
<1>11. PlanInv(p)'
  BY <1>2, <1>6, <1>7, <1>10 DEF PlanInv, RunFollowsPlan, LockedRouteAllowed, ActiveRouteEligible,
     PaidOnlyIfAllowed, CallsUsed, RowOfPlan, Active
<1> QED BY <1>5, <1>8, <1>9, <1>11, StepOfOnePlan

\* An approval opens the plan its token names, in the store and in the ledger.
LEMMA ApproveKeeps ==
    ASSUME ExecutionInv, NEW p \in Plan, ApprovePreflight(p)
    PROVE  ExecutionInv'
<1>1. /\ Approve(p) /\ now' = now /\ UpdateRow(p, row[p], "ready")
      /\ UNCHANGED <<pinVars, planVars, run, used, consent, ready>>
  BY DEF ApprovePreflight
<1>2. StoreInv'
  BY <1>1, ApproveStoreInv DEF ExecutionInv
<1>3. p \in plans \ Expired /\ status[p] = "confirmation_required"
  BY <1>1 DEF ExecutionInv, StoreInv, ConfirmationsNameWaitingPlans, Approve, PurgedConfirmations
<1>4. /\ status'[p] = "ready"
      /\ \A q \in Plan \ {p} : status'[q] = status[q]
      /\ plans' \subseteq plans
  BY <1>1, <1>3 DEF Approve, ExecutionInv, StoreInv, PreflightTypeOK
<1>5. /\ row' \in [Plan -> Rows] /\ missed' \subseteq Plan /\ changes' \in 0..MaxChanges
      /\ row'[p] = "ready" \/ (row'[p] = row[p] /\ p \in missed')
      /\ \A q \in Plan \ {p} : row'[q] = row[q] /\ (q \in missed' <=> q \in missed)
  <2>1. TypeOK /\ row[p] \in Rows /\ "ready" \in Rows
    BY TypesOfTypeOK DEF ExecutionInv, PlansTyped, Rows
  <2> QED
    BY <1>1, <2>1, UpdateIs
<1>6. TypeOK'
  <2>1. RoutingTypeOK' /\ PlansTyped'
    BY <1>1, <1>5, TypesOfTypeOK DEF ExecutionInv, RoutingTypeOK, PlansTyped, pinVars, planVars
  <2> QED BY <1>2, <1>5, <2>1, NextTypeOK
<1>7. Alone(p)
  BY <1>1, <1>4, <1>5 DEF Alone, planVars
<1>8. RowOfPlan(p) /\ run[p] = "idle"
  BY <1>3 DEF ExecutionInv, PlanInv, RunFollowsPlan
<1>9. RowOfPlan(p)'
  BY <1>1, <1>3, <1>4, <1>5, <1>8 DEF RowOfPlan, Active
<1>10. PlanInv(p)'
  BY <1>1, <1>3, <1>4, <1>9 DEF ExecutionInv, planVars, PlanInv, RunFollowsPlan, LockedRouteAllowed,
     ActiveRouteEligible, ExhaustedStaysExcluded, PaidOnlyIfAllowed, CallsUsed
<1> QED BY <1>2, <1>6, <1>7, <1>10, StepOfOnePlan

\* A refused token purges, and disturbs no plan that stays.
LEMMA RejectKeeps ==
    ASSUME ExecutionInv, NEW p \in Plan, RejectToken(p)
    PROVE  ExecutionInv'
<1>1. /\ Reject(p) /\ now' = now
      /\ UNCHANGED <<pinVars, planVars, run, ledgerVars, worldVars>>
  BY DEF RejectToken
<1>2. StoreInv'
  BY <1>1, RejectStoreInv DEF ExecutionInv
<1>3. status' = status /\ plans' \subseteq plans
  BY <1>1 DEF Reject
<1>4. TypeOK'
  <2>1. RoutingTypeOK' /\ PlansTyped'
    BY <1>1, TypesOfTypeOK
       DEF ExecutionInv, RoutingTypeOK, PlansTyped, pinVars, planVars, ledgerVars, worldVars
  <2> QED BY <1>1, <1>2, <2>1, TypesOfTypeOK, NextTypeOK DEF ExecutionInv, worldVars
<1>5. Alone(p)
  BY <1>1, <1>3 DEF Alone, planVars, ledgerVars
<1>6. PlanInv(p)'
  BY <1>1, <1>3 DEF ExecutionInv, planVars, ledgerVars, PlanInv, RunFollowsPlan, LockedRouteAllowed,
     ActiveRouteEligible, ExhaustedStaysExcluded, PaidOnlyIfAllowed, CallsUsed, RowOfPlan
<1> QED BY <1>2, <1>4, <1>5, <1>6, StepOfOnePlan

\* A plan that is spent sends its first call to the route it was locked on.
LEMMA RunKeeps ==
    ASSUME ExecutionInv, NEW p \in Plan, RunPreparedTask(p)
    PROVE  ExecutionInv'
<1>1. /\ Consume(p) /\ UNCHANGED <<now, pinVars, used, consent, ready>>
      /\ \/ Send(p, route[p], {}, FALSE)
         \/ run' = [run EXCEPT ![p] = "stopped"] /\ missed' = missed \cup {p} /\ Forget(p) /\ Change
            /\ UNCHANGED row
  BY DEF RunPreparedTask
<1>2. StoreInv'
  BY <1>1, ConsumeStoreInv DEF ExecutionInv
<1>3. /\ p \in plans /\ status[p] = "ready" /\ status'[p] = "consumed" /\ p \notin plans'
      /\ \A q \in Plan \ {p} : status'[q] = status[q] /\ (q \in plans' => q \in plans)
  BY <1>1 DEF Consume, ExecutionInv, StoreInv, PreflightTypeOK, StoredPlansAreOpen
<1>4. /\ route[p] \in Provider /\ (route[p] \in Paid => allowPaid[p])
      /\ run[p] = "idle" /\ sent[p] = 0
  BY <1>3 DEF ExecutionInv, PlanInv, RunFollowsPlan, LockedRouteAllowed, PaidOnlyIfAllowed, CallsUsed, Active
<1>5. IsFiniteSet({}) /\ sent[p] + 1 <= 2 * Cardinality({}) + (IF FALSE THEN 2 ELSE 1)
  BY <1>4, FS_EmptySet
<1>6. RoutingTypeOK'
  BY <1>1, TypesOfTypeOK DEF ExecutionInv, RoutingTypeOK, pinVars
<1>7. CASE Send(p, route[p], {}, FALSE)
  <2>1. PlansTyped' /\ PlanInv(p)' /\ changes' \in 0..MaxChanges
    BY <1>3, <1>4, <1>5, <1>7, SendIsRight DEF ExecutionInv
  <2>2. Alone(p)
    BY <1>3, <1>4, <1>7, SendIsAlone DEF ExecutionInv
  <2> QED BY <1>2, <1>6, <2>1, <2>2, NextTypeOK, StepOfOnePlan
<1>8. CASE /\ run' = [run EXCEPT ![p] = "stopped"] /\ missed' = missed \cup {p} /\ Forget(p) /\ Change
           /\ UNCHANGED row
  <2>1. PlansTyped' /\ changes' \in 0..MaxChanges
    BY <1>8, TypesOfTypeOK, ExecutionAssumption DEF ExecutionInv, PlansTyped, Forget, Change, Ended
  <2>2. Alone(p)
    BY <1>3, <1>8, TypesOfTypeOK DEF ExecutionInv, PlansTyped, Forget, Alone
  <2>3. /\ run'[p] = "stopped" /\ row'[p] = row[p] /\ p \in missed' /\ excluded'[p] = {} /\ sent'[p] = 0
    BY <1>8, TypesOfTypeOK DEF ExecutionInv, PlansTyped, Forget
  <2>4. RowOfPlan(p)
    BY DEF ExecutionInv, PlanInv
  <2>5. RowOfPlan(p)'
    BY <1>3, <1>4, <2>3, <2>4 DEF RowOfPlan, Active
  <2>6. PlanInv(p)'
    BY <1>3, <1>5, <2>3, <2>5 DEF PlanInv, RunFollowsPlan, LockedRouteAllowed, ActiveRouteEligible,
       CallsUsed, Active
  <2> QED BY <1>2, <1>6, <2>1, <2>2, <2>6, NextTypeOK, StepOfOnePlan
<1> QED BY <1>1, <1>7, <1>8

\* A step of a run leaves the store as it is.
LEMMA StepOfOneRun ==
    ASSUME ExecutionInv, NEW p \in Plan, UNCHANGED preflightVars, changes' \in 0..MaxChanges,
           Alone(p), RoutingTypeOK', PlansTyped', PlanInv(p)'
    PROVE  ExecutionInv'
<1>1. now' \in Nat /\ UNCHANGED storeVars
  BY DEF ExecutionInv, StoreInv, PreflightTypeOK, preflightVars
<1>2. StoreInv'
  BY <1>1, StutterStoreInv DEF ExecutionInv
<1>3. TypeOK'
  BY <1>2, TypesOfTypeOK, NextTypeOK DEF ExecutionInv
<1> QED BY <1>2, <1>3, StepOfOnePlan

\* An active run that ends.
LEMMA EndKeeps ==
    ASSUME ExecutionInv, NEW p \in Plan, NEW how \in Ended \ {"cancelled"}, NEW closed, run[p] \in Active,
           End(p, how, closed), UNCHANGED preflightVars, RoutingTypeOK',
           closed = IF how = "completed" THEN "completed" ELSE "repreflight_required"
    PROVE  ExecutionInv'
<1>1. status' = status /\ plans' = plans
  BY DEF preflightVars, storeVars
<1>2. status'[p] = "consumed" /\ p \notin plans'
  BY <1>1, ActiveIsSpent DEF Active
<1>3. PlansTyped' /\ PlanInv(p)' /\ changes' \in 0..MaxChanges
  BY <1>2, EndIsRight DEF ExecutionInv
<1>4. Alone(p)
  BY <1>1, TypesOfTypeOK DEF ExecutionInv, PlansTyped, End, UpdateRow, Forget, Alone
<1> QED BY <1>3, <1>4, StepOfOneRun

\* An active run that calls again.
LEMMA SendKeeps ==
    ASSUME ExecutionInv, NEW p \in Plan, NEW q \in Provider, NEW exclude \in SUBSET Provider,
           NEW again \in BOOLEAN, run[p] \in Active, Send(p, q, exclude, again),
           UNCHANGED preflightVars, RoutingTypeOK',
           q \notin exclude, q \in Paid => allowPaid[p], IsFiniteSet(exclude),
           sent[p] + 1 <= 2 * Cardinality(exclude) + (IF again THEN 2 ELSE 1)
    PROVE  ExecutionInv'
<1>1. status' = status /\ plans' = plans
  BY DEF preflightVars, storeVars
<1>2. status'[p] = "consumed" /\ p \notin plans'
  BY <1>1, ActiveIsSpent DEF Active
<1>3. PlansTyped' /\ PlanInv(p)' /\ changes' \in 0..MaxChanges
  BY <1>2, SendIsRight DEF ExecutionInv
<1>4. Alone(p)
  BY <1>1, SendIsAlone DEF ExecutionInv
<1> QED BY <1>3, <1>4, StepOfOneRun

\* What a run may use of its calls, in the terms of its own step.
LEMMA RunInv ==
    ASSUME ExecutionInv, NEW p \in Plan
    PROVE  /\ route[p] \in Provider \cup {None} /\ excluded[p] \in SUBSET Provider
           /\ sent[p] \in Nat /\ retried[p] \in BOOLEAN /\ allowPaid[p] \in BOOLEAN
           /\ preferred[p] \in Seq(Provider) /\ row[p] \in Rows
           /\ IsFiniteSet(excluded[p]) /\ Cardinality(excluded[p]) \in Nat
           /\ ActiveRouteEligible(p) /\ CallsUsed(p) /\ RowOfPlan(p)
           /\ RoutingTypeOK /\ changes \in 0..MaxChanges
<1>1. PlansTyped /\ RoutingTypeOK /\ changes \in 0..MaxChanges
  BY TypesOfTypeOK DEF ExecutionInv
<1>2. PlanInv(p)
  BY DEF ExecutionInv
<1>3. IsFiniteSet(excluded[p])
  BY <1>2 DEF PlanInv, CallsUsed
<1>4. Cardinality(excluded[p]) \in Nat
  BY <1>3, FS_CardinalityType
<1> QED BY <1>1, <1>2, <1>3, <1>4 DEF PlansTyped, PlanInv

\* An answer is counted for the provider that gave it, and the run is over.
LEMMA AnswerKeeps ==
    ASSUME ExecutionInv, NEW p \in Plan, NEW recorded \in BOOLEAN, NEW clean \in BOOLEAN,
           Answer(p, recorded, clean)
    PROVE  ExecutionInv'
<1>1. /\ run[p] = "calling" /\ UNCHANGED preflightVars /\ UNCHANGED <<pinVars, consent, ready>>
      /\ used' = used \/ RecordOk(route[p])
  BY DEF Answer
<1>2. RoutingTypeOK'
  BY <1>1, RunInv DEF RoutingTypeOK, RecordOk, pinVars
<1>3. CASE clean
  BY <1>1, <1>2, <1>3, EndKeeps DEF Answer, Active, Ended
<1>4. CASE ~clean
  BY <1>1, <1>2, <1>4, EndKeeps DEF Answer, Active, Ended
<1> QED BY <1>3, <1>4

\* A run that failed.
LEMMA FailKeeps ==
    ASSUME ExecutionInv, NEW p \in Plan, Fail(p)
    PROVE  ExecutionInv'
<1>1. /\ run[p] \in Active /\ UNCHANGED preflightVars /\ UNCHANGED <<pinVars, used, consent, ready>>
      /\ End(p, "stopped", "repreflight_required")
  BY DEF Fail, Active
<1>2. RoutingTypeOK'
  BY <1>1, RunInv DEF RoutingTypeOK, pinVars
<1> QED BY <1>1, <1>2, EndKeeps DEF Ended

\* A run that was cancelled, whose row stays "working".
LEMMA CancelKeeps ==
    ASSUME ExecutionInv, NEW p \in Plan, Cancel(p)
    PROVE  ExecutionInv'
<1>1. /\ run[p] \in Active /\ UNCHANGED preflightVars /\ UNCHANGED <<pinVars, ledgerVars, worldVars>>
      /\ run' = [run EXCEPT ![p] = "cancelled"] /\ Forget(p)
  BY DEF Cancel
<1>2. RoutingTypeOK' /\ changes' \in 0..MaxChanges
  BY <1>1, RunInv DEF RoutingTypeOK, pinVars, ledgerVars, worldVars
<1>3. PlansTyped'
  BY <1>1, TypesOfTypeOK DEF ExecutionInv, PlansTyped, ledgerVars, Forget, Ended
<1>4. status' = status /\ plans' = plans
  BY <1>1 DEF preflightVars, storeVars
<1>5. Alone(p)
  BY <1>1, <1>4, TypesOfTypeOK DEF ExecutionInv, PlansTyped, ledgerVars, Forget, Alone
<1>6. status'[p] = "consumed" /\ p \notin plans'
  BY <1>1, <1>4, ActiveIsSpent DEF Active
<1>7. /\ run'[p] = "cancelled" /\ row'[p] = row[p] /\ excluded'[p] = {} /\ sent'[p] = 0 /\ missed' = missed
  BY <1>1, TypesOfTypeOK DEF ExecutionInv, PlansTyped, ledgerVars, Forget
<1>8. RowOfPlan(p)'
  BY <1>1, <1>6, <1>7, RunInv DEF RowOfPlan, Active
<1>9. PlanInv(p)'
  BY <1>6, <1>7, <1>8, FS_EmptySet DEF PlanInv, RunFollowsPlan, LockedRouteAllowed, ActiveRouteEligible,
     CallsUsed, Active
<1> QED BY <1>1, <1>2, <1>3, <1>5, <1>9, StepOfOneRun

\* A first rate limit uses nothing and leaves one more call.
LEMMA RateLimitedKeeps ==
    ASSUME ExecutionInv, NEW p \in Plan, RateLimited(p)
    PROVE  ExecutionInv'
<1>1. /\ run[p] = "calling" /\ ~retried[p]
      /\ retried' = [retried EXCEPT ![p] = TRUE] /\ run' = [run EXCEPT ![p] = "sleeping"]
      /\ UNCHANGED preflightVars
      /\ UNCHANGED <<pinVars, allowPaid, preferred, route, excluded, sent, ledgerVars, worldVars>>
  BY DEF RateLimited
<1>2. PlansTyped
  BY TypesOfTypeOK DEF ExecutionInv
<1>3. RoutingTypeOK' /\ changes' \in 0..MaxChanges
  BY <1>1, RunInv DEF RoutingTypeOK, pinVars, ledgerVars, worldVars
<1>4. PlansTyped' /\ run'[p] = "sleeping" /\ retried'[p]
  BY <1>1, <1>2 DEF PlansTyped, ledgerVars, Active, Ended
<1>5. Alone(p)
  BY <1>1, <1>2 DEF PlansTyped, Alone, preflightVars, storeVars, ledgerVars
<1>6. status' = status /\ plans' = plans
  BY <1>1 DEF preflightVars, storeVars
<1>7. status'[p] = "consumed" /\ p \notin plans'
  BY <1>1, <1>6, ActiveIsSpent
<1>8. CallsUsed(p)'
  BY <1>1, <1>4, RunInv DEF CallsUsed, Active
<1>9. PlanInv(p)'
  BY <1>1, <1>4, <1>7, <1>8, RunInv DEF PlanInv, RunFollowsPlan, LockedRouteAllowed, ActiveRouteEligible,
     ExhaustedStaysExcluded, PaidOnlyIfAllowed, RowOfPlan, Active, ledgerVars
<1> QED BY <1>1, <1>3, <1>4, <1>5, <1>9, StepOfOneRun

\* After the sleep the same provider is called once more.
LEMMA WakeKeeps ==
    ASSUME ExecutionInv, NEW p \in Plan, Wake(p)
    PROVE  ExecutionInv'
<1>1. /\ run[p] = "sleeping" /\ Send(p, route[p], excluded[p], TRUE)
      /\ UNCHANGED preflightVars /\ UNCHANGED <<pinVars, used, consent, ready>>
  BY DEF Wake
<1>2. RoutingTypeOK' /\ run[p] \in Active
  BY <1>1, RunInv DEF RoutingTypeOK, pinVars, Active
<1>3. route[p] \in Provider /\ route[p] \notin excluded[p] /\ (route[p] \in Paid => allowPaid[p])
  BY <1>2, RunInv DEF ActiveRouteEligible, ExhaustedStaysExcluded, PaidOnlyIfAllowed
<1>4. sent[p] + 1 <= 2 * Cardinality(excluded[p]) + (IF TRUE THEN 2 ELSE 1)
  BY <1>1, RunInv DEF CallsUsed
<1> QED BY <1>1, <1>2, <1>3, <1>4, RunInv, SendKeeps

\* A fallback gives one provider up, which pays for the calls of the next.
LEMMA QuotaExhaustedKeeps ==
    ASSUME ExecutionInv, NEW p \in Plan, NEW delay \in ResetDelays, QuotaExhausted(p, delay)
    PROVE  ExecutionInv'
<1> DEFINE failed == excluded[p] \cup {route[p]}
           open == Eligible(allowPaid[p], failed)
           next == Decide(preferred[p], open)
<1>1. /\ run[p] = "calling" /\ UNCHANGED preflightVars /\ UNCHANGED <<used, consent, ready>>
      /\ \/ open = {} /\ End(p, "exhausted", "repreflight_required") /\ UNCHANGED pinVars
         \/ /\ open # {} /\ Send(p, next, failed, FALSE)
            /\ Stick(next, IF delay = Never THEN Never ELSE now + delay)
  BY DEF QuotaExhausted
<1>2. run[p] \in Active
  BY <1>1 DEF Active
<1>3. CASE open = {}
  <2>1. RoutingTypeOK'
    BY <1>1, <1>3, RunInv DEF RoutingTypeOK, pinVars
  <2> QED BY <1>1, <1>2, <1>3, <2>1, EndKeeps DEF Ended
<1>4. CASE open # {}
  <2>1. route[p] \in Provider /\ route[p] \notin excluded[p] /\ failed \in SUBSET Provider
    BY <1>2, RunInv DEF ActiveRouteEligible, ExhaustedStaysExcluded
  <2>4. next \in Provider /\ next \notin failed /\ (next \in Paid => allowPaid[p])
    BY <1>4, RunInv, DecidesEligibly
  <2>5. IsFiniteSet(failed) /\ Cardinality(failed) = Cardinality(excluded[p]) + 1
    BY <2>1, RunInv, FS_AddElement
  <2>6. sent[p] + 1 <= 2 * Cardinality(failed) + (IF FALSE THEN 2 ELSE 1)
    BY <1>1, <2>5, RunInv DEF CallsUsed
  <2>7. now \in Nat /\ (IF delay = Never THEN Never ELSE now + delay) \in Nat \cup {Never}
    BY ExecutionAssumption DEF ExecutionInv, StoreInv, PreflightTypeOK
  <2>8. RoutingTypeOK'
    BY <1>1, <1>4, <2>4, <2>7, RunInv DEF RoutingTypeOK, Stick
  <2> QED BY <1>1, <1>2, <1>4, <2>1, <2>4, <2>5, <2>6, <2>8, SendKeeps
<1> QED BY <1>3, <1>4

\* Consent, readiness and the clock are outside every plan.
LEMMA WorldKeeps ==
    ASSUME ExecutionInv,
           \/ \E mode \in ConsentMode : SetConsentMode(mode)
           \/ \E q \in Provider : ReadinessChange(q)
           \/ Time
           \/ UNCHANGED vars
    PROVE  ExecutionInv'
<1> DEFINE PlansStay ==
             /\ UNCHANGED storeVars /\ UNCHANGED <<pinVars, planVars, run, ledgerVars>>
             /\ now' \in Nat /\ consent' \in ConsentMode /\ ready' \subseteq Provider /\ changes' \in 0..MaxChanges
<1>1. PlansStay
  <2>1. now \in Nat /\ RoutingTypeOK /\ changes \in 0..MaxChanges
    BY TypesOfTypeOK DEF ExecutionInv, PreflightTypeOK
  <2>2. ASSUME NEW mode \in ConsentMode, SetConsentMode(mode) PROVE PlansStay
    BY <2>1, <2>2, ExecutionAssumption DEF RoutingTypeOK, SetConsentMode, Change, preflightVars
  <2>3. ASSUME NEW q \in Provider, ReadinessChange(q) PROVE PlansStay
    BY <2>1, <2>3, ExecutionAssumption DEF RoutingTypeOK, ReadinessChange, Change, preflightVars
  <2>4. CASE Time
    BY <2>1, <2>4 DEF RoutingTypeOK, Time, Tick, ClockAdvances, worldVars
  <2>5. CASE UNCHANGED vars
    BY <2>1, <2>5 DEF RoutingTypeOK, vars, preflightVars, worldVars
  <2> QED BY <2>2, <2>3, <2>4, <2>5
<1>2. StoreInv'
  BY <1>1, StutterStoreInv DEF ExecutionInv
<1>3. RoutingTypeOK' /\ PlansTyped'
  BY <1>1, TypesOfTypeOK DEF ExecutionInv, RoutingTypeOK, PlansTyped, pinVars, planVars, ledgerVars
<1>4. TypeOK'
  BY <1>1, <1>2, <1>3, NextTypeOK
<1>5. ASSUME NEW p \in Plan PROVE PlanInv(p)'
  BY <1>1 DEF ExecutionInv, storeVars, planVars, ledgerVars, PlanInv, RunFollowsPlan, LockedRouteAllowed,
     ActiveRouteEligible, ExhaustedStaysExcluded, PaidOnlyIfAllowed, CallsUsed, RowOfPlan
<1> QED BY <1>2, <1>4, <1>5 DEF ExecutionInv

\* A restart leaves the rows, and no plan, run or pin.
LEMMA RestartKeeps ==
    ASSUME ExecutionInv, Restart
    PROVE  ExecutionInv'
<1>1. /\ plans' = {} /\ confirmations' = {} /\ sticky' = None /\ stickyUntil' = Never
      /\ run' = [p \in Plan |-> IF run[p] \in Active THEN "cancelled" ELSE run[p]]
      /\ allowPaid' = [p \in Plan |-> FALSE] /\ preferred' = [p \in Plan |-> <<>>]
      /\ route' = [p \in Plan |-> None] /\ excluded' = [p \in Plan |-> {}]
      /\ retried' = [p \in Plan |-> FALSE] /\ sent' = [p \in Plan |-> 0]
      /\ UNCHANGED <<now, requires, approved, status, expires, ledgerVars, consent, ready>>
      /\ Change
  BY DEF Restart
<1>2. StoreInv'
  BY <1>1 DEF ExecutionInv, StoreInv, PreflightTypeOK, ConfirmationsNameWaitingPlans,
     WaitingPlansCanBeApproved, StoredPlansAreOpen
<1>3. RoutingTypeOK' /\ changes' \in 0..MaxChanges
  BY <1>1, TypesOfTypeOK, ExecutionAssumption DEF ExecutionInv, RoutingTypeOK, ledgerVars, Change
<1>4. PlansTyped'
  BY <1>1, TypesOfTypeOK DEF ExecutionInv, PlansTyped, ledgerVars, Active, Ended
<1>5. TypeOK'
  BY <1>2, <1>3, <1>4, NextTypeOK
<1>6. ASSUME NEW p \in Plan PROVE PlanInv(p)'
  <2>1. /\ run'[p] = (IF run[p] \in Active THEN "cancelled" ELSE run[p])
        /\ excluded'[p] = {} /\ sent'[p] = 0 /\ status'[p] = status[p] /\ row'[p] = row[p]
        /\ p \notin plans' /\ missed' = missed /\ IsFiniteSet({})
    BY <1>1, FS_EmptySet DEF ledgerVars
  <2>2. run'[p] \notin Active
    BY <2>1 DEF Active
  <2>3. PlanInv(p)
    BY DEF ExecutionInv
  <2> QED
    BY <2>1, <2>2, <2>3 DEF PlanInv, RunFollowsPlan, LockedRouteAllowed, ActiveRouteEligible,
       CallsUsed, RowOfPlan, Active
<1> QED BY <1>2, <1>5, <1>6 DEF ExecutionInv

------------------------------------------------------------------------------
(* The theorems *)

\* Every step of the service keeps the invariant.
LEMMA NextExecutionInv == ExecutionInv /\ [Next]_vars => ExecutionInv'
<1> SUFFICES ASSUME ExecutionInv, [Next]_vars PROVE ExecutionInv'
  OBVIOUS
<1>1. ASSUME NEW p \in Plan, NEW paidAllowed \in BOOLEAN, Prepare(p, paidAllowed) PROVE ExecutionInv'
  BY <1>1, PrepareKeeps
<1>2. ASSUME NEW p \in Plan, ApprovePreflight(p) \/ RejectToken(p) \/ RunPreparedTask(p) PROVE ExecutionInv'
  BY <1>2, ApproveKeeps, RejectKeeps, RunKeeps
<1>3. ASSUME NEW p \in Plan, Resume(p) PROVE ExecutionInv'
  BY <1>3, AnswerKeeps, FailKeeps, RateLimitedKeeps, WakeKeeps, QuotaExhaustedKeeps DEF Resume
<1>4. ASSUME NEW p \in Plan, Cancel(p) PROVE ExecutionInv'
  BY <1>4, CancelKeeps
<1>5. CASE Restart
  BY <1>5, RestartKeeps
<1>6. ASSUME \/ \E mode \in ConsentMode : SetConsentMode(mode)
             \/ \E q \in Provider : ReadinessChange(q)
             \/ Time
             \/ UNCHANGED vars
      PROVE  ExecutionInv'
  BY <1>6, WorldKeeps
<1> QED BY <1>1, <1>2, <1>3, <1>4, <1>5, <1>6 DEF Next

\* The inductive invariant holds in every behaviour of the service.
THEOREM ExecutionInvariant == Spec => []ExecutionInv
BY ExecutionInvInit, NextExecutionInv, PTL DEF Spec

\* Every variable of the service keeps its type, the sticky provider and the counts included.
THEOREM ExecutionTypeCorrect == Spec => []TypeOK
<1>1. ExecutionInv => TypeOK  BY DEF ExecutionInv
<1> QED BY <1>1, ExecutionInvariant, PTL

\* The ledger says of a plan what happened to it, over restarts and cancelled runs too
\* (service.py:627-655, db.py:246).
THEOREM LedgerAlwaysFollows == Spec => []LedgerFollowsPlan
BY InvariantSuffices, ExecutionInvariant, PTL

\* No call goes to a provider that gave out on this request, or bills one that did not allow it.
THEOREM RoutesAlwaysEligible == Spec => []RoutesStayEligible
BY InvariantSuffices, ExecutionInvariant, PTL

\* A plan makes at most two calls for each provider it reached.
THEOREM CallsAlwaysBounded == Spec => []CallsBounded
BY InvariantSuffices, ExecutionInvariant, PTL

------------------------------------------------------------------------------
(* The consent contract *)

\* Every step of the service is one of the store, leaves it alone, or is a restart, which forgets it.
LEMMA StepOfStore ==
    ASSUME [Next]_vars
    PROVE  [PreflightNext]_preflightVars \/ (plans' = {} /\ UNCHANGED <<approved, status>>)
<1>1. ASSUME NEW p \in Plan, NEW paidAllowed \in BOOLEAN, Prepare(p, paidAllowed) PROVE PreflightNext
  BY <1>1 DEF Prepare, PreflightNext, RequiresConfirmation
<1>2. ASSUME NEW p \in Plan, ApprovePreflight(p) \/ RejectToken(p) \/ RunPreparedTask(p) PROVE PreflightNext
  BY <1>2 DEF ApprovePreflight, RejectToken, RunPreparedTask, PreflightNext
<1>3. ASSUME NEW p \in Plan, Resume(p) \/ Cancel(p) PROVE UNCHANGED preflightVars
  BY <1>3 DEF Resume, Answer, Fail, RateLimited, Wake, QuotaExhausted, Cancel
<1>4. ASSUME \/ \E mode \in ConsentMode : SetConsentMode(mode)
             \/ \E q \in Provider : ReadinessChange(q)
             \/ UNCHANGED vars
      PROVE  UNCHANGED preflightVars
  BY <1>4 DEF SetConsentMode, ReadinessChange, vars
<1>5. CASE Time
  BY <1>5 DEF Time, PreflightNext
<1>6. CASE Restart
  BY <1>6 DEF Restart
<1> QED BY <1>1, <1>2, <1>3, <1>4, <1>5, <1>6 DEF Next

\* The service implements the consent contract with single-route plans: whatever runs, falls back, is
\* cancelled or restarted meanwhile, work starts once and only on a plan that was cleared.
THEOREM ExecutionImplementsContract == Spec => ImplementsContract
<1>1. Init => Contract!Init
  BY DEF Init, PreflightInit, StoreInit, Contract!Init, phaseOf
<1>2. ExecutionInv /\ [Next]_vars => [Contract!Next]_phaseOf
  BY StepOfStore, StepRefines, LossLapses DEF ExecutionInv
<1> QED BY <1>1, <1>2, ExecutionInvariant, PTL DEF Spec, ImplementsContract, Contract!Spec
==============================================================================
