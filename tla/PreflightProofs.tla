--------------------------- MODULE PreflightProofs ---------------------------
(***************************************************************************)
(* What the plan store promises, for every set of plans, every ttl and     *)
(* every bound on the clock.  The promises are not inductive one by one:   *)
(* that a token names a waiting plan is kept by consume only because a     *)
(* plan still in the store has not been spent, so they are proved together *)
(* as StoreInv.  The lemmas on what the router decides are here too: both  *)
(* kinds of plan lock routes it chooses.                                   *)
(***************************************************************************)
EXTENDS Preflight, Routing, RecursionLemmas, TLAPS

\* A stored plan is ready exactly when it is approved, and otherwise waits.
StoredPlansAreOpen ==
    \A p \in plans : status[p] = IF approved[p] THEN "ready" ELSE "confirmation_required"

StoreInv ==
    /\ PreflightTypeOK
    /\ ConfirmationsNameWaitingPlans
    /\ WaitingPlansCanBeApproved
    /\ StoredPlansAreOpen

\* The empty store is in order.
LEMMA InitStoreInv == PreflightInit => StoreInv
BY PreflightAssumption
   DEF PreflightInit, StoreInit, StoreInv, PreflightTypeOK, PlanStatus,
       ConfirmationsNameWaitingPlans, WaitingPlansCanBeApproved, StoredPlansAreOpen

\* create keeps the store in order: the new plan's token and its approval agree.
LEMMA CreateStoreInv ==
  ASSUME StoreInv, NEW p \in Plan, NEW needs \in BOOLEAN, Create(p, needs), now' = now
  PROVE  StoreInv'
<1>1. PreflightTypeOK'
  BY PreflightAssumption DEF StoreInv, PreflightTypeOK, Create, PlanStatus
<1>2. p \notin plans /\ p \notin confirmations
  BY DEF StoreInv, StoredPlansAreOpen, ConfirmationsNameWaitingPlans, Create
<1>3. ConfirmationsNameWaitingPlans' /\ WaitingPlansCanBeApproved' /\ StoredPlansAreOpen'
  BY <1>2 DEF StoreInv, PreflightTypeOK, Create, ConfirmationsNameWaitingPlans,
              WaitingPlansCanBeApproved, StoredPlansAreOpen
<1>4. QED BY <1>1, <1>3 DEF StoreInv

\* approve keeps the store in order: the token it pops named a stored plan, which it opens.
LEMMA ApproveStoreInv ==
  ASSUME StoreInv, NEW p \in Plan, Approve(p), now' = now
  PROVE  StoreInv'
<1>1. p \in plans \ Expired
  BY DEF StoreInv, ConfirmationsNameWaitingPlans, Approve, PurgedConfirmations
<1>2. PreflightTypeOK'
  BY <1>1 DEF StoreInv, PreflightTypeOK, Approve, PlanStatus, PurgedConfirmations
<1>3. ConfirmationsNameWaitingPlans' /\ WaitingPlansCanBeApproved' /\ StoredPlansAreOpen'
  BY <1>1 DEF StoreInv, PreflightTypeOK, Approve, PurgedConfirmations, Expired,
              ConfirmationsNameWaitingPlans, WaitingPlansCanBeApproved, StoredPlansAreOpen
<1>4. QED BY <1>2, <1>3 DEF StoreInv

\* consume keeps the store in order: the spent plan leaves with every token that names it.
LEMMA ConsumeStoreInv ==
  ASSUME StoreInv, NEW p \in Plan, Consume(p), now' = now
  PROVE  StoreInv'
<1>1. PreflightTypeOK'
  BY DEF StoreInv, PreflightTypeOK, Consume, PlanStatus, PurgedConfirmations
<1>2. ConfirmationsNameWaitingPlans' /\ WaitingPlansCanBeApproved' /\ StoredPlansAreOpen'
  BY DEF StoreInv, PreflightTypeOK, Consume, PurgedConfirmations, Expired,
         ConfirmationsNameWaitingPlans, WaitingPlansCanBeApproved, StoredPlansAreOpen
<1>3. QED BY <1>1, <1>2 DEF StoreInv

\* A refused token only purges, and the purge takes plans and their tokens together.
LEMMA RejectStoreInv ==
  ASSUME StoreInv, NEW p \in Plan, Reject(p), now' = now
  PROVE  StoreInv'
BY DEF StoreInv, PreflightTypeOK, PlanStatus, Reject, PurgedConfirmations, Expired,
       ConfirmationsNameWaitingPlans, WaitingPlansCanBeApproved, StoredPlansAreOpen

\* The passing of time alone disturbs nothing.
LEMMA StutterStoreInv ==
  ASSUME StoreInv, UNCHANGED storeVars, now' \in Nat
  PROVE  StoreInv'
BY DEF StoreInv, storeVars, PreflightTypeOK, PlanStatus,
       ConfirmationsNameWaitingPlans, WaitingPlansCanBeApproved, StoredPlansAreOpen

\* Every step of the store keeps it in order.
LEMMA NextStoreInv == StoreInv /\ [PreflightNext]_preflightVars => StoreInv'
<1> SUFFICES ASSUME StoreInv, [PreflightNext]_preflightVars
             PROVE  StoreInv'
  OBVIOUS
<1>1. CASE Tick
  <2>1. now' \in Nat  BY <1>1 DEF StoreInv, PreflightTypeOK, Tick, ClockAdvances
  <2>2. QED BY <1>1, <2>1, StutterStoreInv DEF Tick
<1>2. ASSUME UNCHANGED now, NEW p \in Plan, NEW needs \in BOOLEAN, Create(p, needs)
      PROVE  StoreInv'
  BY <1>2, CreateStoreInv
<1>3. ASSUME UNCHANGED now, NEW p \in Plan, Approve(p) PROVE StoreInv'
  BY <1>3, ApproveStoreInv
<1>4. ASSUME UNCHANGED now, NEW p \in Plan, Consume(p) PROVE StoreInv'
  BY <1>4, ConsumeStoreInv
<1>5. ASSUME UNCHANGED now, NEW p \in Plan, Reject(p) PROVE StoreInv'
  BY <1>5, RejectStoreInv
<1>6. CASE UNCHANGED preflightVars
  <2>1. now' \in Nat  BY <1>6 DEF preflightVars, StoreInv, PreflightTypeOK
  <2>2. QED BY <1>6, <2>1, StutterStoreInv DEF preflightVars
<1>7. QED BY <1>1, <1>2, <1>3, <1>4, <1>5, <1>6 DEF PreflightNext

\* The inductive invariant holds in every behaviour of the store.
THEOREM StoreInvariant == PreflightSpec => []StoreInv
BY InitStoreInv, NextStoreInv, PTL DEF PreflightSpec

\* Every variable of the store keeps its type (preflight.py:35-180).
THEOREM StoreTypeCorrect == PreflightSpec => []PreflightTypeOK
<1>1. StoreInv => PreflightTypeOK  BY DEF StoreInv
<1>2. QED BY <1>1, StoreInvariant, PTL

\* approve's "Prepared execution no longer exists" is never raised: a live token names a
\* stored plan that waits for it.
THEOREM TokensNameWaitingPlans == PreflightSpec => []ConfirmationsNameWaitingPlans
<1>1. StoreInv => ConfirmationsNameWaitingPlans  BY DEF StoreInv
<1>2. QED BY <1>1, StoreInvariant, PTL

\* No stored plan is stranded behind a gate whose token is gone.
THEOREM NoPlanIsStranded == PreflightSpec => []WaitingPlansCanBeApproved
<1>1. StoreInv => WaitingPlansCanBeApproved  BY DEF StoreInv
<1>2. QED BY <1>1, StoreInvariant, PTL

------------------------------------------------------------------------------
\* One step of the store changes the status of a plan only if the plan is unspent and in time.
LEMMA StepRespectsSpentAndExpired ==
  ASSUME StoreInv, [PreflightNext]_preflightVars, NEW p \in Plan
  PROVE  /\ status[p] = "consumed" =>
               status'[p] = "consumed" /\ p \notin plans' /\ p \notin confirmations'
         /\ status[p] # "none" /\ expires[p] < now => status'[p] = status[p]
<1> USE DEF StoreInv, PreflightTypeOK, ConfirmationsNameWaitingPlans, StoredPlansAreOpen
<1>0. status[p] = "consumed" => p \notin plans /\ p \notin confirmations
  OBVIOUS
<1>1. CASE Tick \/ UNCHANGED preflightVars
  BY <1>0, <1>1 DEF Tick, preflightVars, storeVars
<1>2. ASSUME NEW q \in Plan, NEW needs \in BOOLEAN, Create(q, needs)
      PROVE  /\ status[p] = "consumed" =>
                   status'[p] = "consumed" /\ p \notin plans' /\ p \notin confirmations'
             /\ status[p] # "none" => status'[p] = status[p]
  BY <1>0, <1>2 DEF Create
<1>3. ASSUME NEW q \in Plan, Approve(q) \/ Consume(q) \/ Reject(q)
      PROVE  /\ status[p] = "consumed" =>
                   status'[p] = "consumed" /\ p \notin plans' /\ p \notin confirmations'
             /\ expires[p] < now => status'[p] = status[p]
  BY <1>0, <1>3 DEF Approve, Consume, Reject, PurgedConfirmations, Expired
<1>4. QED BY <1>1, <1>2, <1>3 DEF PreflightNext

\* One approval pays for one run: a consumed plan is out of the store for good.
THEOREM PlansAreSingleUse == PreflightSpec => SingleUse
<1>1. StoreInv /\ [PreflightNext]_preflightVars =>
        [\A p \in Plan : status[p] = "consumed" =>
            status'[p] = "consumed" /\ p \notin plans' /\ p \notin confirmations']_preflightVars
  BY StepRespectsSpentAndExpired
<1>2. QED BY <1>1, StoreInvariant, PTL DEF PreflightSpec, SingleUse

\* No call approves or starts a plan after its time, although create never purges.
THEOREM ExpiredPlansNeverMove == PreflightSpec => ExpiredPlansStay
<1>1. StoreInv /\ [PreflightNext]_preflightVars =>
        [\A p \in Plan : status[p] # "none" /\ expires[p] < now =>
            status'[p] = status[p]]_preflightVars
  BY StepRespectsSpentAndExpired
<1>2. QED BY <1>1, StoreInvariant, PTL DEF PreflightSpec, ExpiredPlansStay

------------------------------------------------------------------------------
\* The plans a purge removes are plans the contract lets lapse.
LEMMA ExpiredMayLapse == StoreInv => Contract!MayLapse(Expired) /\ Expired \in SUBSET Plan
BY DEF StoreInv, PreflightTypeOK, StoredPlansAreOpen, Contract!MayLapse, Expired, phaseOf

\* create is the contract's Lock.
LEMMA CreateLocks ==
  ASSUME StoreInv, NEW p \in Plan, NEW needs \in BOOLEAN, Create(p, needs)
  PROVE  Contract!Lock(p)
<1> DEFINE first == IF needs THEN "waiting" ELSE "cleared"
<1>1. p \notin plans /\ phaseOf[p] = "unlocked"
  BY DEF StoreInv, StoredPlansAreOpen, Create, phaseOf
<1>2. phaseOf' = [phaseOf EXCEPT ![p] = first]
  BY <1>1 DEF StoreInv, PreflightTypeOK, Create, phaseOf
<1>3. first \in {"waiting", "cleared"}
  OBVIOUS
<1>4. QED BY <1>1, <1>2, <1>3 DEF Contract!Lock

\* approve is the contract's Clear, with the plans it purges lapsing.
LEMMA ApproveClears ==
  ASSUME StoreInv, NEW p \in Plan, Approve(p)
  PROVE  Contract!Clear(p, Expired)
<1>1. p \in plans \ Expired /\ phaseOf[p] = "waiting"
  BY DEF StoreInv, ConfirmationsNameWaitingPlans, Approve, PurgedConfirmations, phaseOf
<1>2. phaseOf' = [q \in Plan |-> IF q \in Expired THEN "lapsed"
                                 ELSE IF q = p THEN "cleared" ELSE phaseOf[q]]
  BY <1>1 DEF StoreInv, PreflightTypeOK, StoredPlansAreOpen, Approve, Expired, phaseOf
<1>3. QED BY <1>1, <1>2, ExpiredMayLapse DEF Contract!Clear, Contract!Advance

\* consume is the contract's Work, with the plans it purges lapsing.
LEMMA ConsumeWorks ==
  ASSUME StoreInv, NEW p \in Plan, Consume(p)
  PROVE  Contract!Work(p, Expired)
<1>1. p \in plans \ Expired /\ phaseOf[p] = "cleared"
  BY DEF StoreInv, StoredPlansAreOpen, Consume, phaseOf
<1>2. phaseOf' = [q \in Plan |-> IF q \in Expired THEN "lapsed"
                                 ELSE IF q = p THEN "worked" ELSE phaseOf[q]]
  BY <1>1 DEF StoreInv, PreflightTypeOK, StoredPlansAreOpen, Consume, Expired, phaseOf
<1>3. QED BY <1>1, <1>2, ExpiredMayLapse DEF Contract!Work, Contract!Advance

\* A refused token is the contract's Lapse.
LEMMA RejectLapses ==
  ASSUME StoreInv, NEW p \in Plan, Reject(p)
  PROVE  Contract!Lapse(Expired)
<1>1. phaseOf' = [q \in Plan |-> IF q \in Expired THEN "lapsed" ELSE phaseOf[q]]
  BY DEF StoreInv, PreflightTypeOK, StoredPlansAreOpen, Reject, Expired, phaseOf
<1>2. QED BY <1>1, ExpiredMayLapse DEF Contract!Lapse

\* Every step of the store is a step of the contract or leaves its phases alone.
LEMMA StepRefines == StoreInv /\ [PreflightNext]_preflightVars => [Contract!Next]_phaseOf
<1> SUFFICES ASSUME StoreInv, [PreflightNext]_preflightVars
             PROVE  [Contract!Next]_phaseOf
  OBVIOUS
<1>1. CASE Tick \/ UNCHANGED preflightVars
  <2>1. UNCHANGED <<status, plans, approved>>
    BY <1>1 DEF Tick, preflightVars, storeVars
  <2>2. QED BY <2>1 DEF phaseOf
<1>2. ASSUME NEW p \in Plan, NEW needs \in BOOLEAN, Create(p, needs) PROVE Contract!Next
  BY <1>2, CreateLocks DEF Contract!Next
<1>3. ASSUME NEW p \in Plan, Approve(p) PROVE Contract!Next
  BY <1>3, ApproveClears, ExpiredMayLapse DEF Contract!Next
<1>4. ASSUME NEW p \in Plan, Consume(p) PROVE Contract!Next
  BY <1>4, ConsumeWorks, ExpiredMayLapse DEF Contract!Next
<1>5. ASSUME NEW p \in Plan, Reject(p) PROVE Contract!Next
  BY <1>5, RejectLapses, ExpiredMayLapse DEF Contract!Next
<1>6. QED BY <1>1, <1>2, <1>3, <1>4, <1>5 DEF PreflightNext

\* A restart, which forgets the plans, is the contract's Lapse of all of them.
LEMMA LossLapses ==
  ASSUME StoreInv, plans' = {}, UNCHANGED <<approved, status>>
  PROVE  [Contract!Next]_phaseOf
<1>1. Contract!MayLapse(plans) /\ plans \in SUBSET Plan
  BY DEF StoreInv, PreflightTypeOK, StoredPlansAreOpen, Contract!MayLapse, phaseOf
<1>2. phaseOf' = [q \in Plan |-> IF q \in plans THEN "lapsed" ELSE phaseOf[q]]
  BY DEF StoreInv, PreflightTypeOK, StoredPlansAreOpen, phaseOf
<1>3. Contract!Lapse(plans)
  BY <1>1, <1>2 DEF Contract!Lapse
<1> QED BY <1>1, <1>3 DEF Contract!Next

\* The store implements the consent contract: a plan is started once, and only when it was
\* locked without a gate or its token was presented in time.
THEOREM StoreImplementsContract == PreflightSpec => ImplementsContract
<1>1. PreflightInit => Contract!Init
  BY DEF PreflightInit, StoreInit, Contract!Init, phaseOf
<1>2. QED BY <1>1, StepRefines, StoreInvariant, PTL DEF PreflightSpec, ImplementsContract, Contract!Spec
------------------------------------------------------------------------------
(* What the router decides *)

\* The first member of a set in an order that has one is a member.
LEMMA FirstIsOpen ==
    ASSUME NEW order \in Seq(Provider), NEW S, \E i \in DOMAIN order : order[i] \in S
    PROVE  First(order, S) \in S
<1> DEFINE T == {i \in DOMAIN order : order[i] \in S}
<1>1. T \in SUBSET Nat /\ T # {}
  OBVIOUS
<1>2. \E n \in T : \A m \in T : n <= m
  BY <1>1, LeastNatural
<1>3. \E i \in DOMAIN order : order[i] \in S /\ \A j \in DOMAIN order : order[j] \in S => i <= j
  BY <1>2
<1> QED BY <1>3 DEF First

\* The best of a set of providers is one of them.
LEMMA BestIsOpen ==
    ASSUME NEW order \in Seq(Provider), NEW S \in SUBSET Provider, S # {}
    PROVE  Best(order, S) \in S
<1>1. \E i \in DOMAIN ByScore : ByScore[i] \in S
  BY RoutingAssumption
<1> QED BY <1>1, FirstIsOpen, RoutingAssumption DEF Best

\* decide chooses a candidate that no gate rejects, the quality floor's detour included.
LEMMA DecidesAmongOpen ==
    ASSUME NEW order \in Seq(Provider), NEW S \in SUBSET Provider, S # {}
    PROVE  Decide(order, S) \in S
<1>1. Best(order, S) \in S
  BY BestIsOpen
<1>2. S \cap Paid # {} => Best(order, S \cap Paid) \in S
  BY BestIsOpen
<1> QED BY <1>1, <1>2 DEF Decide

\* What is open to a request is ready, not excluded, and billed only if the request allows it.
LEMMA OpenIsEligible ==
    ASSUME RoutingTypeOK, NEW paidAllowed \in BOOLEAN, NEW exclude, NEW q \in Eligible(paidAllowed, exclude)
    PROVE  q \in Provider /\ q \notin exclude /\ (q \in Paid => paidAllowed)
BY DEF RoutingTypeOK, Eligible

\* So what decide chooses for a request is eligible.
LEMMA DecidesEligibly ==
    ASSUME RoutingTypeOK, NEW paidAllowed \in BOOLEAN, NEW exclude, NEW order \in Seq(Provider),
           Eligible(paidAllowed, exclude) # {}
    PROVE  LET q == Decide(order, Eligible(paidAllowed, exclude))
           IN  q \in Provider /\ q \notin exclude /\ (q \in Paid => paidAllowed)
<1>1. Eligible(paidAllowed, exclude) \in SUBSET Provider
  BY OpenIsEligible
<1>2. Decide(order, Eligible(paidAllowed, exclude)) \in Eligible(paidAllowed, exclude)
  BY <1>1, DecidesAmongOpen
<1>3. \A q \in Eligible(paidAllowed, exclude) :
         q \in Provider /\ q \notin exclude /\ (q \in Paid => paidAllowed)
  BY OpenIsEligible
<1> QED BY <1>2, <1>3, Zenon

\* The order of a session is one of its providers.
LEMMA OrderIsOfProviders == RoutingTypeOK => ProviderOrder \in Seq(Provider)
<1> SUFFICES ASSUME RoutingTypeOK PROVE ProviderOrder \in Seq(Provider)
  OBVIOUS
<1>1. Pinned \in Provider \cup {None}
  BY DEF RoutingTypeOK, Pinned
<1>2. \A q \in Provider : <<q>> \in Seq(Provider)
  OBVIOUS
<1> QED BY <1>1, <1>2, RoutingAssumption DEF ProviderOrder
==============================================================================
