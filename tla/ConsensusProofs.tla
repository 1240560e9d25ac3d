--------------------------- MODULE ConsensusProofs ---------------------------
(***************************************************************************)
(* Proofs about Consensus.tla, for any plans, providers, voters and        *)
(* bounds: a run is completed on evidence only and the ledger is never     *)
(* ahead of it, over cancelled runs, updates that raise and restarts;      *)
(* billed providers are reached only where a lock cleared them; the quorum *)
(* is independent.                                                         *)
(*                                                                         *)
(* That a completed run has its evidence is known from the votes, which    *)
(* are all in before anything is synthesised, and the row of a plan that   *)
(* starts from the store, so both are part of ConsensusInv.  LockInv adds  *)
(* what was locked: the voters are free, a billed synthesis was allowed    *)
(* and gated, and the queue of a run that waits for a synthesis holds the  *)
(* locked route and voters that reviewed, nobody else.                     *)
(*                                                                         *)
(* The quorum and the queue are computed by recursion up to a bound. What  *)
(* such a recursion yields is proved from the least number at which it     *)
(* would fail (UpTo, ComputedUpTo).                                        *)
(***************************************************************************)
EXTENDS Consensus, PreflightProofs, SequenceTheorems

Rows == {"none", "confirmation_required", "ready", "working", "completed", "repreflight_required"}

RunsTyped ==
    /\ row \in [Plan -> Rows]
    /\ run \in [Plan -> {"idle"} \cup Active \cup Ended]
    /\ vote \in [Plan -> [Provider -> Vote]]
    /\ DOMAIN voters = Plan

VotesAreIn(p) == \A q \in Provider : vote[p][q] \notin {"queued", "calling"}

\* A run is idle until its plan is spent.
RunFollows(p) == run[p] = "idle" <=> status[p] # "consumed"

\* The row is behind what happened to the plan, never ahead of it, and behind only if an update
\* raised.
RowFollows(p) ==
    /\ row[p] = "ready" => status[p] \in {"ready", "consumed"}
    /\ row[p] = "working" => run[p] # "idle"
    /\ row[p] = "completed" => run[p] = "completed"
    /\ row[p] = "repreflight_required" => run[p] = "stopped"
    /\ run[p] \in Active => row[p] = "working"
    /\ p \notin missed =>
          /\ status[p] # "consumed" => row[p] = status[p]
          /\ run[p] \in Active \cup {"cancelled"} <=> row[p] = "working"
          /\ run[p] = "completed" <=> row[p] = "completed"

\* Nothing is synthesised or completed but on every vote and at least one review, and reviews
\* that agree are not synthesised.
HasEvidence(p) ==
    /\ run[p] \in {"synthesizing", "completed"} => VotesAreIn(p) /\ Reviewed(p) # {}
    /\ run[p] = "synthesizing" => ~Agree(p)

InOrder(p) == RunFollows(p) /\ RowFollows(p) /\ HasEvidence(p)

ConsensusInv ==
    RunsTyped /\ StoreInv /\ \A p \in Plan : InOrder(p)

------------------------------------------------------------------------------
(* One plan's step *)

\* A plan of which nothing changes is in order as it was.
LEMMA OthersStay ==
    ASSUME NEW p \in Plan, InOrder(p), status'[p] = status[p], row'[p] = row[p],
           p \in missed' <=> p \in missed, run'[p] = run[p], vote'[p] = vote[p],
           voters'[p] = voters[p]
    PROVE  InOrder(p)'
<1>1. RunFollows(p)' /\ RowFollows(p)'
  BY DEF InOrder, RunFollows, RowFollows
<1>2. (Agree(p) <=> Agree(p)') /\ Reviewed(p)' = Reviewed(p) /\ (VotesAreIn(p) <=> VotesAreIn(p)')
  BY DEF Agree, Reviewed, VotesAreIn
<1>3. HasEvidence(p)'
  BY <1>2 DEF InOrder, HasEvidence
<1> QED BY <1>1, <1>3 DEF InOrder

\* So a step of one plan is right if it is right of that plan.
LEMMA StepOfOneRun ==
    ASSUME ConsensusInv, NEW p \in Plan, StoreInv', RunsTyped', InOrder(p)',
           \A q \in Plan \ {p} :
              /\ status'[q] = status[q] /\ row'[q] = row[q] /\ (q \in missed' <=> q \in missed)
              /\ run'[q] = run[q] /\ vote'[q] = vote[q] /\ voters'[q] = voters[q]
    PROVE  ConsensusInv'
<1>1. ASSUME NEW q \in Plan, q # p PROVE InOrder(q)'
  BY <1>1, OthersStay DEF ConsensusInv
<1> QED BY <1>1 DEF ConsensusInv

\* A step that touches neither the store nor the votes leaves both in order.
LEMMA StoreStays == ASSUME ConsensusInv, UNCHANGED preflightVars PROVE StoreInv'
<1>1. UNCHANGED storeVars /\ now' \in Nat
  BY DEF ConsensusInv, StoreInv, PreflightTypeOK, preflightVars
<1> QED BY <1>1, StutterStoreInv DEF ConsensusInv

\* An active run belongs to a plan that is spent, and its row is "working".
LEMMA ActiveIsSpent ==
    ASSUME ConsensusInv, NEW p \in Plan, run[p] \in Active
    PROVE  status[p] = "consumed" /\ row[p] = "working"
BY DEF ConsensusInv, InOrder, RunFollows, RowFollows, Active

\* An update of the row says what it is told, or nothing new if it raises.
LEMMA UpdateIs ==
    ASSUME RunsTyped, NEW p \in Plan, NEW told \in Rows, UpdateRow(p, told)
    PROVE  /\ row' \in [Plan -> Rows]
           /\ row'[p] = told \/ (row'[p] = row[p] /\ p \in missed')
           /\ p \notin missed' => p \notin missed
           /\ \A q \in Plan \ {p} : row'[q] = row[q] /\ (q \in missed' <=> q \in missed)
<1>1. CASE row' = [row EXCEPT ![p] = told] /\ UNCHANGED <<missed, changes>>
  BY <1>1 DEF RunsTyped
<1>2. CASE missed' = missed \cup {p} /\ UNCHANGED row
  BY <1>2 DEF RunsTyped
<1> QED BY <1>1, <1>2 DEF UpdateRow

\* A run that ends leaves the row that says how, or "working".
LEMMA CloseKeeps ==
    ASSUME ConsensusInv, NEW p \in Plan, run[p] \in Active, UNCHANGED <<preflightVars, vote, voters>>,
           NEW how \in {"completed", "stopped"}, NEW closed, Close(p, how, closed),
           closed = IF how = "completed" THEN "completed" ELSE "repreflight_required",
           how = "completed" => Reviewed(p) # {} /\ VotesAreIn(p)
    PROVE  ConsensusInv'
<1>1. status' = status /\ status[p] = "consumed" /\ row[p] = "working" /\ StoreInv'
  BY StoreStays, ActiveIsSpent DEF preflightVars, storeVars
<1>2. run' = [run EXCEPT ![p] = how] /\ UpdateRow(p, closed) /\ closed \in Rows /\ RunsTyped
  BY DEF Close, Rows, ConsensusInv
<1>3. /\ row' \in [Plan -> Rows]
      /\ row'[p] = closed \/ (row'[p] = row[p] /\ p \in missed')
      /\ \A q \in Plan \ {p} : row'[q] = row[q] /\ (q \in missed' <=> q \in missed)
  BY <1>2, UpdateIs
<1>4. RunsTyped'
  BY <1>2, <1>3 DEF RunsTyped, Ended
<1>5. /\ run'[p] = how /\ status'[p] = "consumed"
      /\ \A q \in Plan \ {p} : run'[q] = run[q]
  BY <1>1, <1>2 DEF RunsTyped
<1>6. RunFollows(p)' /\ RowFollows(p)'
  BY <1>1, <1>3, <1>5 DEF RunFollows, RowFollows, Active, Ended
<1>7. HasEvidence(p)'
  <2>1. Reviewed(p)' = Reviewed(p) /\ (VotesAreIn(p) <=> VotesAreIn(p)')
    BY DEF Reviewed, VotesAreIn
  <2> QED BY <1>5, <2>1 DEF HasEvidence
<1> QED BY <1>1, <1>3, <1>4, <1>5, <1>6, <1>7, StepOfOneRun DEF InOrder

\* The synthesis loop goes on to the next route, or the run stops.
LEMMA AskNextKeeps ==
    ASSUME ConsensusInv, NEW p \in Plan, run[p] \in Active, UNCHANGED <<preflightVars, vote, voters>>,
           NEW routes, AskNext(p, routes), VotesAreIn(p), Reviewed(p) # {}, ~Agree(p)
    PROVE  ConsensusInv'
<1>1. CASE Close(p, "stopped", "repreflight_required")
  BY <1>1, CloseKeeps
<1>2. CASE run' = [run EXCEPT ![p] = "synthesizing"] /\ UNCHANGED <<row, missed, changes>>
  <2>1. status' = status /\ StoreInv'
    BY StoreStays DEF preflightVars, storeVars
  <2>2. RunsTyped'
    BY <1>2, <2>1 DEF ConsensusInv, RunsTyped, Active
  <2>3. /\ run'[p] = "synthesizing" /\ status[p] = "consumed" /\ row[p] = "working"
        /\ \A q \in Plan \ {p} : run'[q] = run[q]
    BY <1>2, ActiveIsSpent DEF ConsensusInv, RunsTyped
  <2>4. RunFollows(p)' /\ RowFollows(p)'
    BY <1>2, <2>1, <2>3 DEF RunFollows, RowFollows, Active
  <2>5. HasEvidence(p)'
    <3>1. (Agree(p) <=> Agree(p)') /\ Reviewed(p)' = Reviewed(p) /\ (VotesAreIn(p) <=> VotesAreIn(p)')
      BY DEF Agree, Reviewed, VotesAreIn
    <3> QED BY <2>3, <3>1 DEF HasEvidence
  <2> QED BY <1>2, <2>1, <2>2, <2>3, <2>4, <2>5, StepOfOneRun DEF InOrder
<1> QED BY <1>1, <1>2 DEF AskNext

------------------------------------------------------------------------------
(* Steps *)

\* Locking a consensus creates a plan of the store.
LEMMA CreatesOne ==
    ASSUME NEW p \in Plan, NEW wanted, NEW paidAllowed, NEW avoid,
           PrepareConsensus(p, wanted, paidAllowed, avoid)
    PROVE  \E needs \in BOOLEAN : Create(p, needs)
<1> DEFINE quorum == Quorum(QuorumSize(wanted), avoid)
           synth == Decide(ProviderOrder, SynthesisRoutes(paidAllowed, avoid \cup ToSet(quorum)))
           needed == \E q \in ToSet(quorum) \cup {synth} : RequiresConfirmation(q)
<1>1. Create(p, needed) /\ needed \in BOOLEAN
  BY DEF PrepareConsensus
<1> HIDE DEF needed
<1> QED BY <1>1

\* A plan is locked and recorded as its summary says.
LEMMA PrepareKeeps ==
    ASSUME ConsensusInv, NEW p \in Plan, NEW wanted, NEW paidAllowed, NEW avoid,
           PrepareConsensus(p, wanted, paidAllowed, avoid)
    PROVE  ConsensusInv'
<1>1. PICK needs \in BOOLEAN : Create(p, needs)
  BY CreatesOne
<1>2. /\ now' = now /\ row' = [row EXCEPT ![p] = status'[p]] /\ run' = run /\ vote' = vote
      /\ missed' = missed
      /\ DOMAIN voters' = Plan /\ \A q \in Plan \ {p} : voters'[q] = voters[q]
  BY DEF PrepareConsensus, workVars, ConsensusInv, RunsTyped
<1>3. StoreInv'
  BY <1>1, <1>2, CreateStoreInv DEF ConsensusInv
<1>4. /\ status[p] = "none" /\ status'[p] \in {"ready", "confirmation_required"}
      /\ \A q \in Plan \ {p} : status'[q] = status[q]
  BY <1>1 DEF Create, ConsensusInv, StoreInv, PreflightTypeOK
<1>5. RunsTyped' /\ row'[p] = status'[p] /\ \A q \in Plan \ {p} : row'[q] = row[q]
  BY <1>2, <1>4 DEF ConsensusInv, RunsTyped, Rows
<1>6. run[p] = "idle"
  BY <1>4 DEF ConsensusInv, InOrder, RunFollows
<1>7. RunFollows(p)' /\ RowFollows(p)' /\ HasEvidence(p)'
  BY <1>2, <1>4, <1>5, <1>6 DEF RunFollows, RowFollows, HasEvidence, Active
<1> QED BY <1>2, <1>3, <1>4, <1>5, <1>7, StepOfOneRun DEF InOrder

\* An approval opens the plan its token names, whatever becomes of the row.
LEMMA ApproveKeeps ==
    ASSUME ConsensusInv, NEW p \in Plan, ApprovePreflight(p)
    PROVE  ConsensusInv'
<1>1. /\ Approve(p) /\ now' = now /\ UpdateRow(p, "ready") /\ run' = run /\ vote' = vote
      /\ voters' = voters
  BY DEF ApprovePreflight, workVars, lockVars
<1>2. StoreInv'
  BY <1>1, ApproveStoreInv DEF ConsensusInv
<1>3. p \in plans \ Expired /\ status[p] = "confirmation_required"
  BY <1>1 DEF ConsensusInv, StoreInv, ConfirmationsNameWaitingPlans, Approve, PurgedConfirmations
<1>4. status'[p] = "ready" /\ \A q \in Plan \ {p} : status'[q] = status[q]
  BY <1>1, <1>3 DEF Approve, ConsensusInv, StoreInv, PreflightTypeOK
<1>5. RunsTyped /\ RunFollows(p) /\ RowFollows(p) /\ "ready" \in Rows
  BY DEF ConsensusInv, InOrder, Rows
<1>6. /\ row' \in [Plan -> Rows]
      /\ row'[p] = "ready" \/ (row'[p] = row[p] /\ p \in missed')
      /\ p \notin missed' => p \notin missed
      /\ \A q \in Plan \ {p} : row'[q] = row[q] /\ (q \in missed' <=> q \in missed)
  BY <1>1, <1>5, UpdateIs
<1>7. RunsTyped'
  BY <1>1, <1>5, <1>6 DEF RunsTyped
<1>8. run[p] = "idle"
  BY <1>3, <1>5 DEF RunFollows
<1>9. RunFollows(p)' /\ RowFollows(p)' /\ HasEvidence(p)'
  BY <1>1, <1>3, <1>4, <1>5, <1>6, <1>8 DEF RunFollows, RowFollows, HasEvidence, Active
<1> QED BY <1>1, <1>2, <1>4, <1>6, <1>7, <1>9, StepOfOneRun DEF InOrder

\* A refused token changes neither rows nor runs.
LEMMA RejectKeeps ==
    ASSUME ConsensusInv, NEW p \in Plan, RejectToken(p)
    PROVE  ConsensusInv'
<1>1. /\ Reject(p) /\ now' = now /\ row' = row /\ missed' = missed /\ run' = run /\ vote' = vote
      /\ voters' = voters
  BY DEF RejectToken, ledgerVars, workVars, lockVars
<1>2. StoreInv' /\ status' = status
  BY <1>1, RejectStoreInv DEF ConsensusInv, Reject
<1>3. RunsTyped' /\ InOrder(p)'
  BY <1>1, <1>2, OthersStay DEF ConsensusInv, RunsTyped
<1> QED BY <1>1, <1>2, <1>3, StepOfOneRun

\* A run starts with the plan it consumes, and no vote is in; or the row cannot be set, and it
\* stops at once.
LEMMA RunKeeps ==
    ASSUME ConsensusInv, NEW p \in Plan, RunPreparedTask(p)
    PROVE  ConsensusInv'
<1>1. /\ Consume(p) /\ now' = now /\ voters' = voters /\ RunsTyped
  BY DEF RunPreparedTask, lockVars, ConsensusInv
<1>2. StoreInv'
  BY <1>1, ConsumeStoreInv DEF ConsensusInv
<1>3. /\ status[p] = "ready" /\ status'[p] = "consumed"
      /\ \A q \in Plan \ {p} : status'[q] = status[q]
  BY <1>1 DEF Consume, ConsensusInv, StoreInv, PreflightTypeOK, StoredPlansAreOpen
<1>4. RowFollows(p) /\ run[p] = "idle"
  BY <1>3 DEF ConsensusInv, InOrder, RunFollows
<1>5. CASE /\ row' = [row EXCEPT ![p] = "working"] /\ run' = [run EXCEPT ![p] = "voting"]
           /\ vote' = [vote EXCEPT ![p] = [q \in Provider |->
                          IF q \in ToSet(voters[p]) THEN "queued" ELSE "none"]]
           /\ UNCHANGED <<missed, changes>>
  <2>1. PICK V \in [Provider -> Vote] : vote' = [vote EXCEPT ![p] = V]
    BY <1>5 DEF Vote
  <2>2. RunsTyped'
    BY <1>1, <1>5, <2>1 DEF RunsTyped, Rows, Active
  <2>3. /\ row'[p] = "working" /\ run'[p] = "voting" /\ missed' = missed
        /\ \A q \in Plan \ {p} : row'[q] = row[q] /\ run'[q] = run[q] /\ vote'[q] = vote[q]
    BY <1>1, <1>5 DEF RunsTyped
  <2>4. RunFollows(p)' /\ RowFollows(p)' /\ HasEvidence(p)'
    BY <1>3, <2>3 DEF RunFollows, RowFollows, HasEvidence, Active
  <2> QED BY <1>1, <1>2, <1>3, <2>2, <2>3, <2>4, StepOfOneRun DEF InOrder
<1>6. CASE run' = [run EXCEPT ![p] = "stopped"] /\ missed' = missed \cup {p} /\ UNCHANGED <<row, vote>>
  <2>1. RunsTyped'
    BY <1>1, <1>6 DEF RunsTyped, Ended
  <2>2. /\ run'[p] = "stopped" /\ p \in missed'
        /\ \A q \in Plan \ {p} : run'[q] = run[q] /\ (q \in missed' <=> q \in missed)
    BY <1>1, <1>6 DEF RunsTyped
  <2>3. RunFollows(p)' /\ RowFollows(p)' /\ HasEvidence(p)'
    BY <1>3, <1>4, <1>6, <2>2 DEF RunFollows, RowFollows, HasEvidence, Active
  <2> QED BY <1>1, <1>2, <1>3, <1>6, <2>1, <2>2, <2>3, StepOfOneRun DEF InOrder
<1> QED BY <1>5, <1>6 DEF RunPreparedTask

\* While a run waits for its votes nothing else of it changes.
LEMMA VotingKeeps ==
    ASSUME ConsensusInv, NEW p \in Plan,
           \/ StartVotes(p)
           \/ \E q \in Provider, said \in Opinion \cup {"failed"}, recorded \in BOOLEAN :
                 VoteReturns(p, q, said, recorded)
    PROVE  ConsensusInv'
<1>1. /\ run[p] = "voting" /\ UNCHANGED <<preflightVars, row, missed, run, voters>>
      /\ \E V \in [Provider -> Vote] : vote' = [vote EXCEPT ![p] = V]
  <2>1. vote[p] \in [Provider -> Vote]
    BY DEF ConsensusInv, RunsTyped
  <2>2. CASE StartVotes(p)
    <3> DEFINE V == [q \in Provider |-> IF vote[p][q] # "queued" THEN vote[p][q]
                                        ELSE IF q \in ready THEN "calling" ELSE "failed"]
    <3>1. V \in [Provider -> Vote]
      BY <2>1 DEF Vote
    <3> QED BY <2>2, <3>1 DEF StartVotes, ConsensusInv, RunsTyped, ledgerVars, lockVars
  <2>3. ASSUME NEW q \in Provider, NEW said \in Opinion \cup {"failed"}, NEW recorded \in BOOLEAN,
               VoteReturns(p, q, said, recorded)
        PROVE  /\ run[p] = "voting" /\ UNCHANGED <<preflightVars, row, missed, run, voters>>
               /\ \E V \in [Provider -> Vote] : vote' = [vote EXCEPT ![p] = V]
    <3> DEFINE V == [vote[p] EXCEPT ![q] = said]
    <3>1. V \in [Provider -> Vote]
      BY <2>1 DEF Vote
    <3>2. vote' = [vote EXCEPT ![p] = V]
      BY <2>3 DEF VoteReturns, ConsensusInv, RunsTyped
    <3> QED BY <2>3, <3>1, <3>2 DEF VoteReturns, lockVars
  <2> QED BY <2>2, <2>3
<1>2. status' = status /\ StoreInv'
  BY <1>1, StoreStays DEF preflightVars, storeVars
<1>3. RunsTyped' /\ \A q \in Plan \ {p} : vote'[q] = vote[q]
  BY <1>1 DEF ConsensusInv, RunsTyped
<1>4. RunFollows(p)' /\ RowFollows(p)' /\ HasEvidence(p)'
  BY <1>1, <1>2 DEF ConsensusInv, InOrder, RunFollows, RowFollows, HasEvidence
<1> QED BY <1>1, <1>2, <1>3, <1>4, StepOfOneRun DEF InOrder

\* When the votes are in, the run stops without a review, is completed on two, or synthesises.
LEMMA TallyKeeps ==
    ASSUME ConsensusInv, NEW p \in Plan, Tally(p)
    PROVE  ConsensusInv'
<1>1. run[p] \in Active /\ UNCHANGED <<preflightVars, vote, voters>> /\ VotesAreIn(p)
  BY DEF Tally, Active, VotesAreIn, lockVars
<1>2. CASE Reviewed(p) = {}
  <2>1. Close(p, "stopped", "repreflight_required")
    BY <1>2 DEF Tally
  <2> QED BY <1>1, <2>1, CloseKeeps
<1>3. CASE Reviewed(p) # {} /\ Agree(p)
  <2>1. Complete(p, None)
    BY <1>3 DEF Tally
  <2> QED BY <1>1, <1>3, <2>1, CloseKeeps DEF Complete
<1>4. CASE Reviewed(p) # {} /\ ~Agree(p)
  <2>1. AskNext(p, SynthesisQueue(p))
    BY <1>4 DEF Tally
  <2> QED BY <1>1, <1>4, <2>1, AskNextKeeps
<1> QED BY <1>2, <1>3, <1>4

\* A synthesis is the run's answer, or the next route is tried.
LEMMA SynthesisKeeps ==
    ASSUME ConsensusInv, NEW p \in Plan, NEW answered \in BOOLEAN, NEW recorded \in BOOLEAN,
           SynthesisReturns(p, answered, recorded)
    PROVE  ConsensusInv'
<1>1. run[p] \in Active /\ UNCHANGED <<preflightVars, vote, voters>>
  BY DEF SynthesisReturns, Active, lockVars
<1>2. VotesAreIn(p) /\ Reviewed(p) # {} /\ ~Agree(p)
  BY DEF SynthesisReturns, ConsensusInv, InOrder, HasEvidence
<1>3. CASE answered
  <2>1. Complete(p, queue[p][1])
    BY <1>3 DEF SynthesisReturns
  <2> QED BY <1>1, <1>2, <2>1, CloseKeeps DEF Complete
<1>4. CASE ~answered
  <2>1. AskNext(p, Tail(queue[p]))
    BY <1>4 DEF SynthesisReturns
  <2> QED BY <1>1, <1>2, <2>1, AskNextKeeps
<1> QED BY <1>3, <1>4

\* A cancelled run leaves its row "working".
LEMMA CancelKeeps ==
    ASSUME ConsensusInv, NEW p \in Plan, Cancel(p)
    PROVE  ConsensusInv'
<1>1. /\ run[p] \in Active /\ run' = [run EXCEPT ![p] = "cancelled"]
      /\ UNCHANGED <<preflightVars, vote, voters, row, missed>>
  BY DEF Cancel, lockVars, ledgerVars
<1>2. status' = status /\ StoreInv' /\ status[p] = "consumed" /\ row[p] = "working"
  BY <1>1, StoreStays, ActiveIsSpent DEF preflightVars, storeVars
<1>3. RunsTyped' /\ run'[p] = "cancelled" /\ \A q \in Plan \ {p} : run'[q] = run[q]
  BY <1>1 DEF ConsensusInv, RunsTyped, Ended
<1>4. RunFollows(p)' /\ RowFollows(p)' /\ HasEvidence(p)'
  BY <1>1, <1>2, <1>3 DEF RunFollows, RowFollows, HasEvidence, Active
<1> QED BY <1>1, <1>2, <1>3, <1>4, StepOfOneRun DEF InOrder

\* Consent, readiness, other plans' pins and the clock are outside every run, and a restart
\* ends those that are under way.
LEMMA WorldKeeps ==
    ASSUME ConsensusInv,
           \/ \E mode \in ConsentMode : SetConsentMode(mode)
           \/ \E q \in Provider : ReadinessChange(q) \/ OtherPlanPins(q)
           \/ Restart
           \/ Time
           \/ UNCHANGED vars
    PROVE  ConsensusInv'
<1>1. CASE Restart
  <2>1. /\ plans' = {} /\ confirmations' = {}
        /\ run' = [p \in Plan |-> IF run[p] \in Active THEN "cancelled" ELSE run[p]]
        /\ UNCHANGED <<now, requires, approved, status, expires, row, missed, vote, voters>>
    BY <1>1 DEF Restart, ledgerVars, lockVars
  <2>2. StoreInv'
    BY <2>1 DEF ConsensusInv, StoreInv, PreflightTypeOK, ConfirmationsNameWaitingPlans,
       WaitingPlansCanBeApproved, StoredPlansAreOpen
  <2>3. RunsTyped'
    BY <2>1 DEF ConsensusInv, RunsTyped, Active, Ended
  <2>4. ASSUME NEW p \in Plan PROVE InOrder(p)'
    <3>1. run'[p] = (IF run[p] \in Active THEN "cancelled" ELSE run[p])
      BY <2>1
    <3>2. InOrder(p)
      BY DEF ConsensusInv
    <3>3. RunFollows(p)' /\ RowFollows(p)'
      BY <2>1, <3>1, <3>2 DEF InOrder, RunFollows, RowFollows, Active
    <3>4. (Agree(p) <=> Agree(p)') /\ Reviewed(p)' = Reviewed(p) /\ (VotesAreIn(p) <=> VotesAreIn(p)')
      BY <2>1 DEF Agree, Reviewed, VotesAreIn
    <3>5. HasEvidence(p)'
      BY <2>1, <3>1, <3>2, <3>4 DEF InOrder, HasEvidence, Active
    <3> QED BY <3>3, <3>5 DEF InOrder
  <2> QED BY <2>2, <2>3, <2>4 DEF ConsensusInv
<1>2. CASE ~Restart
  <2>1. UNCHANGED <<storeVars, row, missed, run, vote, voters>> /\ now' \in Nat
    BY <1>2 DEF SetConsentMode, ReadinessChange, OtherPlanPins, Time, Tick, ClockAdvances, vars,
       preflightVars, ledgerVars, workVars, lockVars, ConsensusInv, StoreInv, PreflightTypeOK
  <2>2. StoreInv' /\ RunsTyped' /\ status' = status
    BY <2>1, StutterStoreInv DEF ConsensusInv, RunsTyped, storeVars
  <2>3. ASSUME NEW p \in Plan PROVE InOrder(p)'
    BY <2>1, <2>2, OthersStay DEF ConsensusInv
  <2> QED BY <2>2, <2>3 DEF ConsensusInv
<1> QED BY <1>1, <1>2

\* At the start nothing has run.
LEMMA InitKeeps ==
    ASSUME Init
    PROVE  ConsensusInv
<1>1. StoreInv
  BY InitStoreInv DEF Init
<1> QED
  BY <1>1 DEF Init, PreflightInit, StoreInit, ConsensusInv, RunsTyped, Rows, Vote, InOrder, RunFollows,
     RowFollows, HasEvidence, Active

\* Every step keeps the invariant.
LEMMA NextKeeps ==
    ASSUME ConsensusInv, [Next]_vars
    PROVE  ConsensusInv'
<1>1. ASSUME NEW p \in Plan, NEW wanted \in VoterCounts, NEW paidAllowed \in BOOLEAN,
             NEW avoid \in SUBSET Avoidable, PrepareConsensus(p, wanted, paidAllowed, avoid)
      PROVE  ConsensusInv'
  BY <1>1, PrepareKeeps
<1>2. ASSUME NEW p \in Plan, ApprovePreflight(p) \/ RejectToken(p) \/ RunPreparedTask(p) \/ Cancel(p)
      PROVE  ConsensusInv'
  BY <1>2, ApproveKeeps, RejectKeeps, RunKeeps, CancelKeeps
<1>3. ASSUME NEW p \in Plan, Resume(p) PROVE ConsensusInv'
  BY <1>3, VotingKeeps, TallyKeeps, SynthesisKeeps DEF Resume
<1>4. ASSUME \/ \E mode \in ConsentMode : SetConsentMode(mode)
             \/ \E q \in Provider : ReadinessChange(q) \/ OtherPlanPins(q)
             \/ Restart
             \/ Time
             \/ UNCHANGED vars
      PROVE  ConsensusInv'
  BY <1>4, WorldKeeps
<1> QED BY <1>1, <1>2, <1>3, <1>4 DEF Next

------------------------------------------------------------------------------
(* The theorems *)

\* The inductive invariant of the store, the ledger's rows and the votes.
THEOREM ConsensusInvariant == Spec => []ConsensusInv
<1>1. Init => ConsensusInv
  BY InitKeeps
<1>2. ConsensusInv /\ [Next]_vars => ConsensusInv'
  BY NextKeeps
<1> QED BY <1>1, <1>2, PTL DEF Spec

\* The ledger is never ahead of a consensus run, and behind it only if an update of the row
\* raised (db.py:246, service.py:612-655).
THEOREM LedgerAlwaysFollowsRun == Spec => []LedgerFollowsRun
<1>1. ConsensusInv => LedgerFollowsRun
  BY DEF ConsensusInv, InOrder, RowFollows, LedgerFollowsRun
<1> QED BY <1>1, ConsensusInvariant, PTL

------------------------------------------------------------------------------
(* The consent contract *)

\* Every step of the service is one of the store, leaves it alone, or is a restart, which forgets it.
LEMMA StepOfStore ==
    ASSUME [Next]_vars
    PROVE  [PreflightNext]_preflightVars \/ (plans' = {} /\ UNCHANGED <<approved, status>>)
<1>1. ASSUME NEW p \in Plan, NEW wanted, NEW paidAllowed, NEW avoid,
             PrepareConsensus(p, wanted, paidAllowed, avoid)
      PROVE  PreflightNext
  BY <1>1, CreatesOne DEF PrepareConsensus, PreflightNext
<1>2. ASSUME NEW p \in Plan, ApprovePreflight(p) \/ RejectToken(p) \/ RunPreparedTask(p) PROVE PreflightNext
  BY <1>2 DEF ApprovePreflight, RejectToken, RunPreparedTask, PreflightNext
<1>3. ASSUME NEW p \in Plan, Resume(p) \/ Cancel(p) PROVE UNCHANGED preflightVars
  BY <1>3 DEF Resume, StartVotes, VoteReturns, Tally, SynthesisReturns, Cancel
<1>4. ASSUME \/ \E mode \in ConsentMode : SetConsentMode(mode)
             \/ \E q \in Provider : ReadinessChange(q) \/ OtherPlanPins(q)
             \/ UNCHANGED vars
      PROVE  UNCHANGED preflightVars
  BY <1>4 DEF SetConsentMode, ReadinessChange, OtherPlanPins, vars
<1>5. CASE Time
  BY <1>5 DEF Time, PreflightNext
<1>6. CASE Restart
  BY <1>6 DEF Restart
<1> QED BY <1>1, <1>2, <1>3, <1>4, <1>5, <1>6 DEF Next

\* So it does with consensus plans: voters are asked once, and only after the plan was cleared.
THEOREM ConsensusImplementsContract == Spec => ImplementsContract
<1>1. Init => Contract!Init
  BY DEF Init, PreflightInit, StoreInit, Contract!Init, phaseOf
<1>2. ConsensusInv /\ [Next]_vars => [Contract!Next]_phaseOf
  BY StepOfStore, StepRefines, LossLapses DEF ConsensusInv
<1> QED BY <1>1, <1>2, ConsensusInvariant, PTL DEF Spec, ImplementsContract, Contract!Spec

------------------------------------------------------------------------------
(* The quorum *)

\* The sequences a quorum may be: free providers that are not excluded, none of them twice.
Quorums(avoid) ==
    {s \in Seq(Provider) : IsInjective(s) /\ ToSet(s) \cap (avoid \cup Paid) = {}}

\* The voter loop's step, from one quorum to the next.
LEMMA QuorumGrows ==
    ASSUME RoutingTypeOK, NEW avoid, NEW s \in Quorums(avoid),
           NEW open, open = Eligible(FALSE, avoid \cup ToSet(s)), open # {}
    PROVE  Append(s, Decide(ProviderOrder, open)) \in Quorums(avoid)
<1> DEFINE q == Decide(ProviderOrder, open)
<1>1. q \in Provider /\ q \notin avoid \cup ToSet(s) /\ q \notin Paid
  <2>1. ProviderOrder \in Seq(Provider)
    BY OrderIsOfProviders
  <2> QED
    BY <2>1, DecidesEligibly
<1> HIDE DEF q
<1>2. Append(s, q) \in Seq(Provider)
  BY <1>1 DEF Quorums
<1>3. /\ DOMAIN s = 1..Len(s) /\ DOMAIN Append(s, q) = 1..(Len(s) + 1)
      /\ Append(s, q)[Len(s) + 1] = q /\ \A i \in 1..Len(s) : Append(s, q)[i] = s[i]
      /\ Len(s) \in Nat
  BY <1>1 DEF Quorums
<1>4. \A i \in 1..Len(s) : s[i] # q /\ s[i] \notin avoid \cup Paid
  BY <1>1, <1>3 DEF ToSet, Quorums
<1>5. \A i \in 1..Len(s), j \in 1..Len(s) : s[i] = s[j] => i = j
  BY <1>3 DEF Quorums, IsInjective
<1>6. IsInjective(Append(s, q))
  BY <1>3, <1>4, <1>5 DEF IsInjective
<1>7. ToSet(Append(s, q)) \cap (avoid \cup Paid) = {}
  BY <1>1, <1>3, <1>4 DEF ToSet
<1> QED
  BY <1>2, <1>6, <1>7 DEF Quorums, q

\* What the voter loop returns is a quorum.
LEMMA QuorumIsQuorum ==
    ASSUME RoutingTypeOK, NEW size \in Nat, NEW avoid
    PROVE  Quorum(size, avoid) \in Quorums(avoid)
<1> DEFINE X == Quorums(avoid)
           Next1(s) == LET open == Eligible(FALSE, avoid \cup ToSet(s))
                     IN  IF open = {} THEN s ELSE Append(s, Decide(ProviderOrder, open))
           pick[k \in 0..size] ==
               IF k = 0 THEN <<>>
               ELSE LET open == Eligible(FALSE, avoid \cup ToSet(pick[k - 1]))
                    IN  IF open = {} THEN pick[k - 1]
                        ELSE Append(pick[k - 1], Decide(ProviderOrder, open))
           next == [z \in (1..size) \X X |-> Next1(z[2])]
<1>1. <<>> \in X
  BY DEF Quorums, IsInjective, ToSet
<1>2. \A s \in X : Next1(s) \in X
  BY QuorumGrows
<1>3. \A i \in 1..size, s \in X : next[<<i, s>>] = Next1(s) /\ next[<<i, s>>] \in X
  <2> HIDE DEF X, Next1
  <2> QED
    BY <1>2
<1>4. PICK f : Computes(size, X, <<>>, next, f)
  <2> HIDE DEF X, next, Next1
  <2>1. Leads(size, X, next)
    BY <1>3 DEF Leads
  <2> QED
    BY <1>1, <2>1, ComputedUpTo
<1>5. f \in [0..size -> X] /\ f[0] = <<>> /\ \A i \in 1..size : f[i] = Next1(f[i - 1])
  <2> HIDE DEF X, next, Next1
  <2>1. f \in [0..size -> X] /\ f[0] = <<>> /\ \A i \in 1..size : f[i] = next[<<i, f[i - 1]>>]
    BY <1>4 DEF Computes
  <2>2. ASSUME NEW i \in 1..size
        PROVE  f[i] = Next1(f[i - 1])
    <3>1. i - 1 \in 0..size
      OBVIOUS
    <3>2. f[i - 1] \in X
      BY <2>1, <3>1
    <3>3. next[<<i, f[i - 1]>>] = Next1(f[i - 1])
      BY <1>3, <3>2
    <3> QED
      BY <2>1, <3>3
  <2> QED
    BY <2>1, <2>2
<1>6. f = [k \in 0..size |->
               IF k = 0 THEN <<>>
               ELSE LET open == Eligible(FALSE, avoid \cup ToSet(f[k - 1]))
                    IN  IF open = {} THEN f[k - 1]
                        ELSE Append(f[k - 1], Decide(ProviderOrder, open))]
  <2> HIDE DEF X, Next1
  <2>1. \A k \in 0..size : k = 0 \/ k \in 1..size
    OBVIOUS
  <2>2. f = [k \in 0..size |-> IF k = 0 THEN <<>> ELSE Next1(f[k - 1])]
    BY <1>5, <2>1
  <2> QED
    BY <2>2 DEF Next1
<1>7. pick = [k \in 0..size |->
               IF k = 0 THEN <<>>
               ELSE LET open == Eligible(FALSE, avoid \cup ToSet(pick[k - 1]))
                    IN  IF open = {} THEN pick[k - 1]
                        ELSE Append(pick[k - 1], Decide(ProviderOrder, open))]
  BY <1>6
<1>8. pick[0] = <<>> /\ \A k \in 1..size : pick[k] = Next1(pick[k - 1])
  <2> HIDE DEF pick
  <2> QED
    BY <1>7
<1> HIDE DEF pick, Next1, X
<1>9. pick[size] \in X
  <2> DEFINE S == {k \in 0..size : pick[k] \in X}
  <2>1. 0 \in S
    BY <1>1, <1>8
  <2>2. \A k \in 1..size : k - 1 \in S => k \in S
    BY <1>2, <1>8
  <2>3. 0..size \subseteq S
    <3> HIDE DEF S
    <3> QED
      BY <2>1, <2>2, UpTo
  <2> QED
    BY <2>3
<1> QED
  BY <1>9 DEF Quorum, pick, X

\* target_voters is a number.
LEMMA SizeIsNatural ==
    ASSUME NEW wanted \in VoterCounts
    PROVE  QuorumSize(wanted) \in Nat
<1>1. wanted \in Nat /\ MaxParallel \in Nat
  BY ConsensusAssumption
<1> DEFINE most == Max({2, MaxParallel})
<1>2. most \in Nat
  <2>1. \E x \in {2, MaxParallel} : \A y \in {2, MaxParallel} : x >= y
    BY <1>1
  <2>2. most \in {2, MaxParallel}
    BY <2>1 DEF Max
  <2> QED
    BY <1>1, <2>2
<1> HIDE DEF most
<1>3. Min({wanted, most}) \in Nat
  <2>1. \E x \in {wanted, most} : \A y \in {wanted, most} : x =< y
    BY <1>1, <1>2
  <2>2. Min({wanted, most}) \in {wanted, most}
    BY <2>1 DEF Min
  <2> QED
    BY <1>1, <1>2, <2>2
<1> QED
  BY <1>3 DEF QuorumSize, most

------------------------------------------------------------------------------
(* What is locked, and what is asked *)

\* Whom a run may ask to synthesise: the locked route, or a voter that has reviewed.
Askable(p) == {synthesis[p]} \cup (ToSet(voters[p]) \cap Reviewed(p))

VotersFree(p) == voters[p] \in Seq(Provider) /\ ToSet(voters[p]) \cap Paid = {}

\* A billed synthesis was allowed, and gated unless the mode at the lock was automatic.
SynthesisCleared(p) ==
    synthesis[p] \in Paid => allowPaid[p] /\ (requires[p] \/ lockedMode[p] = "automatic")

\* A run that waits for a synthesis has somebody to wait for, and a completed one has reviews
\* that agree and no synthesis, or a synthesis by the locked route or a reviewer.
Sourced(p) ==
    /\ run[p] = "synthesizing" => queue[p] \in Seq(Askable(p)) /\ queue[p] # <<>>
    /\ run[p] = "completed" =>
          IF Agree(p) THEN author[p] = None ELSE author[p] \in Askable(p)

LockTyped ==
    /\ RoutingTypeOK
    /\ avoided \in [Plan -> SUBSET Provider]
    /\ voters \in [Plan -> Seq(Provider)]
    /\ synthesis \in [Plan -> Provider \cup {None}]
    /\ allowPaid \in [Plan -> BOOLEAN]
    /\ lockedMode \in [Plan -> ConsentMode]
    /\ DOMAIN queue = Plan /\ DOMAIN author = Plan

LockInv ==
    /\ ConsensusInv
    /\ LockTyped
    /\ \A p \in Plan : VotersFree(p) /\ SynthesisCleared(p) /\ Sourced(p)

\* The routes of a synthesis are the locked one and voters that reviewed.
LEMMA QueueIsAskable ==
    ASSUME NEW p \in Plan, voters[p] \in Seq(Provider)
    PROVE  SynthesisQueue(p) \in Seq(Askable(p))
<1> DEFINE X == Seq(Askable(p))
           N == Len(voters[p])
           Next1(i, s) == LET q == voters[p][i]
                          IN  IF q # synthesis[p] /\ q \in Reviewed(p) THEN Append(s, q) ELSE s
           queued[i \in 0..Len(voters[p])] ==
               IF i = 0 THEN <<synthesis[p]>>
               ELSE LET q == voters[p][i]
                    IN  IF q # synthesis[p] /\ q \in Reviewed(p)
                        THEN Append(queued[i - 1], q) ELSE queued[i - 1]
           next == [z \in (1..N) \X X |-> Next1(z[1], z[2])]
<1>1. <<synthesis[p]>> \in X /\ N \in Nat
  BY DEF Askable
<1>2. \A i \in 1..N, s \in X : Next1(i, s) \in X
  <2> SUFFICES ASSUME NEW i \in 1..N, NEW s \in X PROVE Next1(i, s) \in X
    OBVIOUS
  <2>1. voters[p][i] \in ToSet(voters[p])
    BY DEF ToSet
  <2>2. CASE voters[p][i] # synthesis[p] /\ voters[p][i] \in Reviewed(p)
    <3>1. voters[p][i] \in Askable(p)
      BY <2>1, <2>2 DEF Askable
    <3> QED
      BY <2>2, <3>1
  <2> QED
    BY <2>2
<1>3. \A i \in 1..N, s \in X : next[<<i, s>>] = Next1(i, s) /\ next[<<i, s>>] \in X
  <2> HIDE DEF X, N, Next1
  <2> QED
    BY <1>2
<1>4. PICK f : Computes(N, X, <<synthesis[p]>>, next, f)
  <2> HIDE DEF X, N, next, Next1
  <2>1. Leads(N, X, next)
    BY <1>3 DEF Leads
  <2> QED
    BY <1>1, <2>1, ComputedUpTo
<1>5. f \in [0..N -> X] /\ f[0] = <<synthesis[p]>> /\ \A i \in 1..N : f[i] = Next1(i, f[i - 1])
  <2> HIDE DEF X, N, next, Next1
  <2>1. f \in [0..N -> X] /\ f[0] = <<synthesis[p]>> /\ \A i \in 1..N : f[i] = next[<<i, f[i - 1]>>]
    BY <1>4 DEF Computes
  <2>2. ASSUME NEW i \in 1..N
        PROVE  f[i] = Next1(i, f[i - 1])
    <3>1. i - 1 \in 0..N
      BY <1>1
    <3>2. f[i - 1] \in X
      BY <2>1, <3>1
    <3>3. next[<<i, f[i - 1]>>] = Next1(i, f[i - 1])
      BY <1>3, <3>2
    <3> QED
      BY <2>1, <3>3
  <2> QED
    BY <2>1, <2>2
<1>6. f = [i \in 0..Len(voters[p]) |->
               IF i = 0 THEN <<synthesis[p]>>
               ELSE LET q == voters[p][i]
                    IN  IF q # synthesis[p] /\ q \in Reviewed(p)
                        THEN Append(f[i - 1], q) ELSE f[i - 1]]
  <2> HIDE DEF X, N, Next1
  <2>1. \A k \in 0..N : k = 0 \/ k \in 1..N
    BY <1>1
  <2>2. f = [i \in 0..N |-> IF i = 0 THEN <<synthesis[p]>> ELSE Next1(i, f[i - 1])]
    BY <1>5, <2>1
  <2> QED
    BY <2>2 DEF Next1, N
<1>7. queued = [i \in 0..Len(voters[p]) |->
               IF i = 0 THEN <<synthesis[p]>>
               ELSE LET q == voters[p][i]
                    IN  IF q # synthesis[p] /\ q \in Reviewed(p)
                        THEN Append(queued[i - 1], q) ELSE queued[i - 1]]
  BY <1>6
<1>8. queued[0] = <<synthesis[p]>> /\ \A i \in 1..N : queued[i] = Next1(i, queued[i - 1])
  <2> HIDE DEF queued, X
  <2>1. queued[0] = <<synthesis[p]>>
    BY <1>1, <1>7
  <2>2. ASSUME NEW i \in 1..N PROVE queued[i] = Next1(i, queued[i - 1])
    <3>1. i \in 0..Len(voters[p]) /\ i # 0
      BY <1>1
    <3> QED
      BY <1>7, <3>1
  <2> QED
    BY <2>1, <2>2
<1> HIDE DEF queued, Next1, X, N
<1>9. queued[N] \in X
  <2> DEFINE S == {k \in 0..N : queued[k] \in X}
  <2>1. 0 \in S
    BY <1>1, <1>8
  <2>2. \A k \in 1..N : k - 1 \in S => k \in S
    BY <1>1, <1>2, <1>8
  <2>3. 0..N \subseteq S
    <3> HIDE DEF S
    <3> QED
      BY <1>1, <2>1, <2>2, UpTo
  <2> QED
    BY <1>1, <2>3
<1> QED
  BY <1>9 DEF SynthesisQueue, queued, X, N

\* The route that is asked, and those left after it, are routes of the queue.
LEMMA AskNextAsks ==
    ASSUME NEW p \in Plan, NEW X, NEW routes \in Seq(X), AskNext(p, routes), LockTyped, RunsTyped,
           run'[p] = "synthesizing"
    PROVE  queue'[p] \in Seq(X) /\ queue'[p] # <<>>
<1> DEFINE open == SelectInSeq(routes, LAMBDA q : q \in ready)
           I == {i \in 1..Len(routes) : routes[i] \in ready}
<1>1. open = IF I # {} THEN Min(I) ELSE 0
  BY DEF SelectInSeq
<1> HIDE DEF open
<1>2. ~Close(p, "stopped", "repreflight_required")
  BY DEF Close, RunsTyped
<1>3. open # 0 /\ queue' = [queue EXCEPT ![p] = SubSeq(routes, open, Len(routes))]
  BY <1>2 DEF AskNext, open
<1>4. open \in I
  <2>1. I \in SUBSET Nat /\ I # {}
    BY <1>1, <1>3
  <2> HIDE DEF I
  <2>2. \E x \in I : \A y \in I : x =< y
    BY <2>1, LeastNatural
  <2>3. Min(I) \in I
    BY <2>2 DEF Min
  <2> QED
    BY <1>1, <2>1, <2>3
<1>5. open \in 1..Len(routes) /\ Len(routes) \in Nat
  BY <1>4
<1>6. SubSeq(routes, open, Len(routes)) \in Seq(X) /\ SubSeq(routes, open, Len(routes)) # <<>>
  <2> DEFINE left == SubSeq(routes, open, Len(routes))
  <2>1. left \in Seq(X) /\ Len(left) = Len(routes) - open + 1
    BY <1>5, SubSeqProperties
  <2> HIDE DEF left
  <2>2. left # <<>>
    BY <1>5, <2>1
  <2> QED
    BY <2>1, <2>2 DEF left
<1> QED
  BY <1>3, <1>6 DEF LockTyped

------------------------------------------------------------------------------
(* What a step may do to the locks *)

\* Who is asked or has answered stays so as long as nothing of it changes, and is nobody before.
LEMMA SourceStays ==
    ASSUME NEW p \in Plan, Sourced(p), run'[p] \in {run[p], "idle", "voting", "stopped", "cancelled"},
           run[p] \in {"synthesizing", "completed"} =>
               /\ queue'[p] = queue[p] /\ vote'[p] = vote[p] /\ author'[p] = author[p]
               /\ synthesis'[p] = synthesis[p] /\ voters'[p] = voters[p]
    PROVE  Sourced(p)'
<1>1. CASE run'[p] \in {"synthesizing", "completed"}
  <2>1. run'[p] = run[p]
    BY <1>1
  <2>2. Askable(p)' = Askable(p) /\ (Agree(p)' <=> Agree(p))
    BY <1>1, <2>1 DEF Askable, Reviewed, Agree
  <2> QED
    BY <1>1, <2>1, <2>2 DEF Sourced
<1>2. CASE run'[p] \notin {"synthesizing", "completed"}
  BY <1>2 DEF Sourced
<1> QED
  BY <1>1, <1>2

\* A step that locks nothing is right if it leaves every queue in order.
LEMMA LocksStay ==
    ASSUME LockInv, ConsensusInv', RoutingTypeOK', DOMAIN queue' = Plan, DOMAIN author' = Plan,
           UNCHANGED <<requires, lockVars>>, \A p \in Plan : Sourced(p)'
    PROVE  LockInv'
<1>1. UNCHANGED <<requires, avoided, voters, synthesis, allowPaid, lockedMode>>
  BY DEF lockVars
<1>2. LockTyped'
  BY <1>1 DEF LockInv, LockTyped
<1>3. ASSUME NEW p \in Plan PROVE VotersFree(p)' /\ SynthesisCleared(p)'
  BY <1>1 DEF LockInv, VotersFree, SynthesisCleared
<1> QED
  BY <1>2, <1>3 DEF LockInv

\* The router's state keeps its type when an answer is recorded, or nothing is.
LEMMA RecordedKeepsType ==
    ASSUME RoutingTypeOK, NEW q, NEW recorded \in BOOLEAN, UNCHANGED worldVars,
           IF recorded THEN RecordOk(q) ELSE UNCHANGED used
    PROVE  RoutingTypeOK'
<1>1. UNCHANGED <<consent, ready, sticky, stickyUntil>>
  BY DEF worldVars, pinVars
<1>2. used' \in [Provider -> Nat]
  BY DEF RoutingTypeOK, RecordOk
<1> QED
  BY <1>1, <1>2 DEF RoutingTypeOK

\* A consensus is locked with free voters, and with a synthesis that is cleared.
LEMMA PrepareLocks ==
    ASSUME LockInv, ConsensusInv', NEW p \in Plan, NEW wanted \in VoterCounts,
           NEW paidAllowed \in BOOLEAN, NEW avoid \in SUBSET Avoidable,
           PrepareConsensus(p, wanted, paidAllowed, avoid)
    PROVE  LockInv'
<1> DEFINE quorum == Quorum(QuorumSize(wanted), avoid)
           routes == SynthesisRoutes(paidAllowed, avoid \cup ToSet(quorum))
           synth == Decide(ProviderOrder, routes)
           needs == \E q \in ToSet(quorum) \cup {synth} : RequiresConfirmation(q)
<1>1. /\ routes # {} /\ Create(p, needs)
      /\ avoided' = [avoided EXCEPT ![p] = avoid]
      /\ voters' = [voters EXCEPT ![p] = quorum]
      /\ synthesis' = [synthesis EXCEPT ![p] = synth]
      /\ allowPaid' = [allowPaid EXCEPT ![p] = paidAllowed]
      /\ lockedMode' = [lockedMode EXCEPT ![p] = consent]
      /\ UNCHANGED <<used, vote, queue, run, author, worldVars>>
  BY DEF PrepareConsensus, workVars
<1>2. RoutingTypeOK /\ RoutingTypeOK'
  BY <1>1 DEF LockInv, LockTyped, RoutingTypeOK, worldVars, pinVars
<1>3. quorum \in Quorums(avoid)
  BY <1>2, SizeIsNatural, QuorumIsQuorum
<1>4. synth \in Provider /\ (synth \in Paid => paidAllowed)
  <2>1. ProviderOrder \in Seq(Provider)
    BY <1>2, OrderIsOfProviders
  <2> HIDE DEF quorum
  <2>2. CASE Eligible(paidAllowed, avoid \cup ToSet(quorum)) # {}
    BY <1>2, <2>1, <2>2, DecidesEligibly DEF SynthesisRoutes
  <2>3. CASE Eligible(paidAllowed, avoid \cup ToSet(quorum)) = {}
    BY <1>1, <1>2, <2>1, <2>3, DecidesEligibly DEF SynthesisRoutes
  <2> QED
    BY <2>2, <2>3
<1>5. synth \in Paid => needs \/ consent = "automatic"
  BY <1>2 DEF RequiresConfirmation, RoutingTypeOK, ConsentMode
<1>6. needs \in BOOLEAN /\ requires' = [requires EXCEPT ![p] = needs] /\ status[p] = "none"
  BY <1>1 DEF Create
<1> HIDE DEF quorum, routes, synth, needs
<1>7. LockTyped'
  <2>1. quorum \in Seq(Provider) /\ consent \in ConsentMode /\ DOMAIN queue' = Plan /\ DOMAIN author' = Plan
    BY <1>1, <1>2, <1>3 DEF Quorums, RoutingTypeOK, LockInv, LockTyped
  <2> QED
    BY <1>1, <1>2, <1>4, <2>1, ConsensusAssumption DEF LockInv, LockTyped
<1>8. VotersFree(p)' /\ SynthesisCleared(p)'
  <2>1. requires'[p] = needs
    BY <1>6 DEF LockInv, ConsensusInv, StoreInv, PreflightTypeOK
  <2>2. /\ voters'[p] = quorum /\ synthesis'[p] = synth
        /\ allowPaid'[p] = paidAllowed /\ lockedMode'[p] = consent
    BY <1>1 DEF LockInv, LockTyped
  <2>3. quorum \in Seq(Provider) /\ ToSet(quorum) \cap Paid = {}
    BY <1>3 DEF Quorums
  <2> QED
    BY <1>4, <1>5, <2>1, <2>2, <2>3 DEF VotersFree, SynthesisCleared
<1>9. ASSUME NEW q \in Plan, q # p PROVE VotersFree(q)' /\ SynthesisCleared(q)'
  <2>1. requires'[q] = requires[q]
    BY <1>6, <1>9 DEF LockInv, ConsensusInv, StoreInv, PreflightTypeOK
  <2>2. /\ voters'[q] = voters[q] /\ synthesis'[q] = synthesis[q]
        /\ allowPaid'[q] = allowPaid[q] /\ lockedMode'[q] = lockedMode[q]
    BY <1>1, <1>9 DEF LockInv, LockTyped
  <2> QED
    BY <2>1, <2>2 DEF LockInv, VotersFree, SynthesisCleared
<1>10. ASSUME NEW q \in Plan PROVE Sourced(q)'
  <2>1. run[p] = "idle"
    BY <1>6 DEF LockInv, ConsensusInv, InOrder, RunFollows
  <2>2. q # p => voters'[q] = voters[q] /\ synthesis'[q] = synthesis[q]
    BY <1>1 DEF LockInv, LockTyped
  <2> QED
    BY <1>1, <2>1, <2>2, SourceStays DEF LockInv
<1> QED
  BY <1>7, <1>8, <1>9, <1>10 DEF LockInv

\* Approving, refusing and starting a plan change no lock.
LEMMA PlanStepLocks ==
    ASSUME LockInv, ConsensusInv', NEW p \in Plan,
           ApprovePreflight(p) \/ RejectToken(p) \/ RunPreparedTask(p)
    PROVE  LockInv'
<1>1. UNCHANGED <<requires, lockVars, used, queue, author, worldVars>>
  BY DEF ApprovePreflight, Approve, RejectToken, Reject, RunPreparedTask, Consume, ledgerVars, workVars
<1>2. RoutingTypeOK' /\ DOMAIN queue' = Plan /\ DOMAIN author' = Plan
  BY <1>1 DEF LockInv, LockTyped, RoutingTypeOK, worldVars, pinVars
<1>3. ASSUME NEW q \in Plan PROVE Sourced(q)'
  <2>1. CASE UNCHANGED <<run, vote>>
    BY <1>1, <2>1, SourceStays DEF LockInv, lockVars
  <2>2. CASE RunPreparedTask(p)
    <3>1. run'[p] \in {"voting", "stopped"} /\ (q # p => run'[q] = run[q] /\ vote'[q] = vote[q])
      BY <2>2 DEF RunPreparedTask, LockInv, ConsensusInv, RunsTyped
    <3>2. CASE q = p
      BY <3>1, <3>2 DEF Sourced
    <3>3. CASE q # p
      BY <1>1, <3>1, <3>3, SourceStays DEF LockInv, lockVars
    <3> QED
      BY <3>2, <3>3
  <2> QED
    BY <2>1, <2>2 DEF ApprovePreflight, RejectToken, workVars
<1> QED
  BY <1>1, <1>2, <1>3, LocksStay

\* While the votes come in nobody is asked for a synthesis.
LEMMA VotingLocks ==
    ASSUME LockInv, ConsensusInv', NEW p \in Plan,
           \/ StartVotes(p)
           \/ \E q \in Provider, said \in Opinion \cup {"failed"}, recorded \in BOOLEAN :
                 VoteReturns(p, q, said, recorded)
    PROVE  LockInv'
<1>1. /\ run[p] = "voting" /\ UNCHANGED <<preflightVars, lockVars, queue, run, author, worldVars>>
      /\ \A q \in Plan \ {p} : vote'[q] = vote[q]
  BY DEF StartVotes, VoteReturns, LockInv, ConsensusInv, RunsTyped
<1>2. RoutingTypeOK'
  <2>1. CASE StartVotes(p)
    BY <2>1 DEF StartVotes, LockInv, LockTyped, RoutingTypeOK, worldVars, pinVars, ledgerVars
  <2>2. ASSUME NEW q \in Provider, NEW said, NEW recorded \in BOOLEAN, VoteReturns(p, q, said, recorded)
        PROVE  RoutingTypeOK'
    BY <2>2, RecordedKeepsType DEF VoteReturns, LockInv, LockTyped
  <2> QED
    BY <2>1, <2>2
<1>3. UNCHANGED requires /\ DOMAIN queue' = Plan /\ DOMAIN author' = Plan
  BY <1>1 DEF preflightVars, storeVars, LockInv, LockTyped
<1>4. ASSUME NEW q \in Plan PROVE Sourced(q)'
  BY <1>1, SourceStays DEF LockInv, lockVars
<1> QED
  BY <1>1, <1>2, <1>3, <1>4, LocksStay

\* A run that stops, is completed on agreement or on a synthesis, or goes on to a route of its
\* queue, leaves the locks as they are.
LEMMA AnsweredLocks ==
    ASSUME LockInv, ConsensusInv', NEW p \in Plan, RoutingTypeOK', UNCHANGED <<requires, lockVars, vote>>,
           \/ Close(p, "stopped", "repreflight_required") /\ UNCHANGED author
           \/ \E who \in Askable(p) \cup {None} :
                 Complete(p, who) /\ IF Agree(p) THEN who = None ELSE who \in Askable(p)
           \/ \E routes \in Seq(Askable(p)) : AskNext(p, routes)
    PROVE  LockInv'
<1>1. /\ DOMAIN queue' = Plan /\ DOMAIN author' = Plan
      /\ \A q \in Plan \ {p} : run'[q] = run[q] /\ queue'[q] = queue[q] /\ author'[q] = author[q]
  BY DEF Close, Complete, AskNext, LockInv, LockTyped, ConsensusInv, RunsTyped
<1>2. Askable(p)' = Askable(p) /\ (Agree(p)' <=> Agree(p))
  BY DEF Askable, Reviewed, Agree, lockVars
<1>3. Sourced(p)'
  <2>1. ASSUME Close(p, "stopped", "repreflight_required") PROVE Sourced(p)'
    <3>1. run'[p] = "stopped"
      BY <2>1 DEF Close, LockInv, ConsensusInv, RunsTyped
    <3> QED
      BY <3>1 DEF Sourced
  <2>2. ASSUME NEW who \in Askable(p) \cup {None}, Complete(p, who),
               IF Agree(p) THEN who = None ELSE who \in Askable(p)
        PROVE  Sourced(p)'
    <3>1. run'[p] = "completed" /\ author'[p] = who
      BY <2>2 DEF Complete, Close, LockInv, LockTyped, ConsensusInv, RunsTyped
    <3> QED
      BY <1>2, <2>2, <3>1 DEF Sourced
  <2>3. ASSUME NEW routes \in Seq(Askable(p)), AskNext(p, routes) PROVE Sourced(p)'
    <3>1. run'[p] = "synthesizing" => queue'[p] \in Seq(Askable(p)) /\ queue'[p] # <<>>
      BY <2>3, AskNextAsks DEF LockInv, ConsensusInv
    <3>2. run'[p] \in {"synthesizing", "stopped"}
      BY <2>3 DEF AskNext, Close, LockInv, ConsensusInv, RunsTyped
    <3> QED
      BY <1>2, <3>1, <3>2 DEF Sourced
  <2> QED
    BY <2>1, <2>2, <2>3
<1>4. ASSUME NEW q \in Plan, q # p PROVE Sourced(q)'
  BY <1>1, <1>4, SourceStays DEF LockInv, lockVars
<1> QED
  BY <1>1, <1>3, <1>4, LocksStay

\* So do the tally, a synthesis and a cancellation.
LEMMA AnswerLocks ==
    ASSUME LockInv, ConsensusInv', NEW p \in Plan,
           \/ Tally(p)
           \/ \E answered, recorded \in BOOLEAN : SynthesisReturns(p, answered, recorded)
           \/ Cancel(p)
    PROVE  LockInv'
<1>1. UNCHANGED <<requires, lockVars, vote>>
  BY DEF Tally, SynthesisReturns, Cancel, preflightVars, storeVars
<1>2. CASE Cancel(p)
  <2>1. RoutingTypeOK'
    BY <1>2 DEF Cancel, LockInv, LockTyped, RoutingTypeOK, worldVars, pinVars, ledgerVars
  <2>2. /\ run'[p] = "cancelled" /\ DOMAIN queue' = Plan /\ author' = author /\ DOMAIN author = Plan
        /\ \A q \in Plan \ {p} : run'[q] = run[q] /\ queue'[q] = queue[q]
    BY <1>2 DEF Cancel, LockInv, LockTyped, ConsensusInv, RunsTyped
  <2>3. ASSUME NEW q \in Plan PROVE Sourced(q)'
    <3>1. CASE q = p
      BY <2>2, <3>1 DEF Sourced
    <3>2. CASE q # p
      BY <1>1, <2>2, <3>2, SourceStays DEF LockInv, lockVars
    <3> QED
      BY <3>1, <3>2
  <2> QED
    BY <1>1, <2>1, <2>2, <2>3, LocksStay
<1>3. CASE Tally(p)
  <2>1. RoutingTypeOK'
    BY <1>3 DEF Tally, LockInv, LockTyped, RoutingTypeOK, worldVars, pinVars
  <2>2. SynthesisQueue(p) \in Seq(Askable(p))
    BY QueueIsAskable DEF LockInv, VotersFree
  <2>3. \/ Close(p, "stopped", "repreflight_required") /\ UNCHANGED author
        \/ Agree(p) /\ Complete(p, None)
        \/ AskNext(p, SynthesisQueue(p))
    BY <1>3 DEF Tally
  <2> QED
    BY <1>1, <2>1, <2>2, <2>3, AnsweredLocks
<1>4. ASSUME NEW answered \in BOOLEAN, NEW recorded \in BOOLEAN, SynthesisReturns(p, answered, recorded)
      PROVE  LockInv'
  <2>1. RoutingTypeOK'
    BY <1>4, RecordedKeepsType DEF SynthesisReturns, LockInv, LockTyped
  <2>2. queue[p] \in Seq(Askable(p)) /\ queue[p] # <<>> /\ ~Agree(p)
    BY <1>4 DEF SynthesisReturns, LockInv, Sourced, ConsensusInv, InOrder, HasEvidence
  <2>3. Tail(queue[p]) \in Seq(Askable(p)) /\ queue[p][1] \in Askable(p)
    BY <2>2
  <2>4. Complete(p, queue[p][1]) \/ AskNext(p, Tail(queue[p]))
    BY <1>4 DEF SynthesisReturns
  <2> QED
    BY <1>1, <2>1, <2>2, <2>3, <2>4, AnsweredLocks
<1> QED
  BY <1>2, <1>3, <1>4

\* The world around the runs locks nothing.
LEMMA WorldLocks ==
    ASSUME LockInv, ConsensusInv',
           \/ \E mode \in ConsentMode : SetConsentMode(mode)
           \/ \E q \in Provider : ReadinessChange(q) \/ OtherPlanPins(q)
           \/ Restart
           \/ Time
           \/ UNCHANGED vars
    PROVE  LockInv'
<1>1. UNCHANGED <<requires, lockVars, used, vote, author>>
  BY DEF ledgerVars, workVars, SetConsentMode, ReadinessChange, OtherPlanPins, Restart, Time, Tick, vars, preflightVars,
     storeVars, worldVars
<1>2. RoutingTypeOK'
  BY <1>1 DEF SetConsentMode, ReadinessChange, OtherPlanPins, Stick, Restart, Time, vars, LockInv,
     LockTyped, RoutingTypeOK, worldVars, pinVars
<1>3. CASE Restart
  <2>1. /\ DOMAIN queue' = Plan /\ DOMAIN author' = Plan
        /\ \A q \in Plan : run'[q] = IF run[q] \in Active THEN "cancelled" ELSE run[q]
    BY <1>1, <1>3 DEF Restart, LockInv, LockTyped
  <2>2. ASSUME NEW q \in Plan PROVE Sourced(q)'
    <3>1. run'[q] # "synthesizing" /\ (run'[q] = "completed" => run[q] = "completed")
      BY <2>1 DEF Active
    <3>2. Askable(q)' = Askable(q) /\ (Agree(q)' <=> Agree(q)) /\ author'[q] = author[q]
      BY <1>1 DEF Askable, Reviewed, Agree, lockVars
    <3> QED
      BY <3>1, <3>2 DEF LockInv, Sourced
  <2> QED
    BY <1>1, <1>2, <2>1, <2>2, LocksStay
<1>4. CASE UNCHANGED <<run, queue>>
  <2>1. ASSUME NEW q \in Plan PROVE Sourced(q)'
    BY <1>1, <1>4, SourceStays DEF LockInv, lockVars
  <2> QED
    BY <1>1, <1>2, <1>4, <2>1, LocksStay DEF LockInv, LockTyped
<1> QED
  BY <1>3, <1>4 DEF SetConsentMode, ReadinessChange, OtherPlanPins, Time, vars, workVars

\* Every step keeps the locks.
LEMMA NextLocks ==
    ASSUME LockInv, [Next]_vars
    PROVE  LockInv'
<1>1. ConsensusInv'
  BY NextKeeps DEF LockInv
<1>2. ASSUME NEW p \in Plan, NEW wanted \in VoterCounts, NEW paidAllowed \in BOOLEAN,
             NEW avoid \in SUBSET Avoidable, PrepareConsensus(p, wanted, paidAllowed, avoid)
      PROVE  LockInv'
  BY <1>1, <1>2, PrepareLocks
<1>3. ASSUME NEW p \in Plan, ApprovePreflight(p) \/ RejectToken(p) \/ RunPreparedTask(p) \/ Cancel(p)
      PROVE  LockInv'
  BY <1>1, <1>3, PlanStepLocks, AnswerLocks
<1>4. ASSUME NEW p \in Plan, Resume(p) PROVE LockInv'
  BY <1>1, <1>4, VotingLocks, AnswerLocks DEF Resume
<1>5. ASSUME \/ \E mode \in ConsentMode : SetConsentMode(mode)
             \/ \E q \in Provider : ReadinessChange(q) \/ OtherPlanPins(q)
             \/ Restart
             \/ Time
             \/ UNCHANGED vars
      PROVE  LockInv'
  BY <1>1, <1>5, WorldLocks
<1> QED
  BY <1>2, <1>3, <1>4, <1>5 DEF Next

\* The inductive invariant of the locks and of the queue of a synthesis.
THEOREM LockInvariant == Spec => []LockInv
<1>1. Init => LockInv
  <2> SUFFICES ASSUME Init PROVE LockInv
    OBVIOUS
  <2>1. ConsensusInv
    BY InitKeeps
  <2>2. LockTyped
    BY RoutingAssumption
       DEF Init, RoutingInit, LockTyped, RoutingTypeOK, ConsentMode
  <2>3. ASSUME NEW p \in Plan PROVE VotersFree(p) /\ SynthesisCleared(p) /\ Sourced(p)
    BY RoutingAssumption DEF Init, VotersFree, ToSet, SynthesisCleared, Sourced
  <2> QED
    BY <2>1, <2>2, <2>3 DEF LockInv
<1>2. LockInv /\ [Next]_vars => LockInv'
  BY NextLocks
<1> QED
  BY <1>1, <1>2, PTL DEF Spec

\* A billed provider is reached only by the synthesis that was locked for it, allowed by the
\* caller and gated by the mode in force at the lock (service.py:509-513, preflight.py:70-79).
THEOREM BilledCallsAlwaysCleared == Spec => []BilledCallsCleared
<1>1. LockInv => BilledCallsCleared
  <2> SUFFICES ASSUME LockInv, NEW p \in Plan
               PROVE  /\ ToSet(voters[p]) \cap Paid = {}
                      /\ run[p] = "synthesizing" /\ queue[p][1] \in Paid =>
                            /\ queue[p][1] = synthesis[p]
                            /\ allowPaid[p]
                            /\ requires[p] \/ lockedMode[p] = "automatic"
    BY DEF BilledCallsCleared
  <2>1. VotersFree(p) /\ SynthesisCleared(p) /\ Sourced(p)
    BY DEF LockInv
  <2>2. run[p] = "synthesizing" => queue[p][1] \in Askable(p)
    BY <2>1 DEF Sourced
  <2> QED
    BY <2>1, <2>2 DEF VotersFree, SynthesisCleared, Askable
<1> QED
  BY <1>1, LockInvariant, PTL

\* Whoever synthesises has every vote before it, and is the locked route or has reviewed
\* (service.py:812-871).
THEOREM SynthesisAlwaysSeesEveryVote == Spec => []SynthesisSeesEveryVote
<1>1. LockInv => SynthesisSeesEveryVote
  <2> SUFFICES ASSUME LockInv, NEW p \in Plan, run[p] = "synthesizing"
               PROVE  /\ \A q \in Provider : vote[p][q] \notin {"queued", "calling"}
                      /\ Reviewed(p) # {}
                      /\ queue[p][1] \in {synthesis[p]} \cup Reviewed(p)
    BY DEF SynthesisSeesEveryVote
  <2>1. VotesAreIn(p) /\ Reviewed(p) # {}
    BY DEF LockInv, ConsensusInv, InOrder, HasEvidence
  <2>2. queue[p][1] \in Askable(p)
    BY DEF LockInv, Sourced
  <2> QED
    BY <2>1, <2>2 DEF VotesAreIn, Askable
<1> QED
  BY <1>1, LockInvariant, PTL

\* A run is completed when every vote is in, by two reviews alike or else by a synthesis of the
\* locked route or of a reviewer (service.py:143-151, 812-893).
THEOREM AlwaysCompletedOnEvidence == Spec => []CompletedOnEvidence
<1>1. LockInv => CompletedOnEvidence
  <2> SUFFICES ASSUME LockInv, NEW p \in Plan, run[p] = "completed"
               PROVE  /\ \A q \in Provider : vote[p][q] \notin {"queued", "calling"}
                      /\ IF Agree(p) THEN author[p] = None
                         ELSE Reviewed(p) # {} /\ author[p] \in {synthesis[p]} \cup Reviewed(p)
    BY DEF CompletedOnEvidence
  <2>1. VotesAreIn(p) /\ Reviewed(p) # {}
    BY DEF LockInv, ConsensusInv, InOrder, HasEvidence
  <2>2. IF Agree(p) THEN author[p] = None ELSE author[p] \in Askable(p)
    BY DEF LockInv, Sourced
  <2> QED
    BY <2>1, <2>2 DEF VotesAreIn, Askable
<1> QED
  BY <1>1, LockInvariant, PTL

\* Only the preparation gives a plan its status, and only its own.
LEMMA OnlyPreparationLocks ==
    ASSUME ConsensusInv, [Next]_vars, NEW p \in Plan, status[p] = "none", status'[p] # "none"
    PROVE  \E wanted \in VoterCounts, paidAllowed \in BOOLEAN, avoid \in SUBSET Avoidable :
              PrepareConsensus(p, wanted, paidAllowed, avoid)
<1>1. ASSUME NEW q \in Plan, NEW wanted \in VoterCounts, NEW paidAllowed \in BOOLEAN,
             NEW avoid \in SUBSET Avoidable, PrepareConsensus(q, wanted, paidAllowed, avoid)
      PROVE  q = p
  <2>1. PICK needs \in BOOLEAN : Create(q, needs)
    BY <1>1, CreatesOne
  <2> QED
    BY <2>1 DEF Create, ConsensusInv, StoreInv, PreflightTypeOK
<1>2. ASSUME NEW q \in Plan, ApprovePreflight(q) PROVE FALSE
  <2>1. Approve(q) /\ status'[p] # status[p]
    BY <1>2 DEF ApprovePreflight
  <2>2. q = p /\ q \in plans
    BY <2>1 DEF Approve, ConsensusInv, StoreInv, PreflightTypeOK
  <2> QED
    BY <2>2 DEF ConsensusInv, StoreInv, StoredPlansAreOpen
<1>3. ASSUME NEW q \in Plan, RunPreparedTask(q) PROVE FALSE
  <2>1. Consume(q) /\ status'[p] # status[p]
    BY <1>3 DEF RunPreparedTask
  <2>2. q = p /\ q \in plans
    BY <2>1 DEF Consume, ConsensusInv, StoreInv, PreflightTypeOK
  <2> QED
    BY <2>2 DEF ConsensusInv, StoreInv, StoredPlansAreOpen
<1>4. ASSUME NEW q \in Plan, RejectToken(q) \/ Resume(q) \/ Cancel(q) PROVE FALSE
  BY <1>4 DEF RejectToken, Reject, Resume, StartVotes, VoteReturns, Tally, SynthesisReturns, Cancel,
     preflightVars, storeVars
<1>5. ASSUME \/ \E mode \in ConsentMode : SetConsentMode(mode)
             \/ \E q \in Provider : ReadinessChange(q) \/ OtherPlanPins(q)
             \/ Restart
             \/ Time
             \/ UNCHANGED vars
      PROVE  FALSE
  BY <1>5 DEF SetConsentMode, ReadinessChange, OtherPlanPins, Restart, Time, Tick, vars,
     preflightVars, storeVars
<1> QED
  BY <1>1, <1>2, <1>3, <1>4, <1>5 DEF Next

\* No provider votes twice, and a voter synthesises only when no other free provider is open
\* (service.py:529-591).
THEOREM QuorumAlwaysIndependent == Spec => QuorumIsIndependent
<1> DEFINE Independent(p) ==
              status[p] = "none" /\ status'[p] # "none" =>
                  /\ IsInjective(voters'[p])
                  /\ synthesis'[p] \in ToSet(voters'[p]) =>
                        Eligible(FALSE, ToSet(voters'[p]) \cup avoided'[p]) = {}
<1>1. LockInv /\ [Next]_vars => \A p \in Plan : Independent(p)
  <2> SUFFICES ASSUME LockInv, [Next]_vars, NEW p \in Plan, status[p] = "none", status'[p] # "none"
               PROVE  /\ IsInjective(voters'[p])
                      /\ synthesis'[p] \in ToSet(voters'[p]) =>
                            Eligible(FALSE, ToSet(voters'[p]) \cup avoided'[p]) = {}
    OBVIOUS
  <2>1. PICK wanted \in VoterCounts, paidAllowed \in BOOLEAN, avoid \in SUBSET Avoidable :
           PrepareConsensus(p, wanted, paidAllowed, avoid)
    BY OnlyPreparationLocks DEF LockInv
  <2> DEFINE quorum == Quorum(QuorumSize(wanted), avoid)
             routes == SynthesisRoutes(paidAllowed, avoid \cup ToSet(quorum))
             synth == Decide(ProviderOrder, routes)
             apart == Eligible(paidAllowed, avoid \cup ToSet(quorum))
  <2>2. RoutingTypeOK
    BY DEF LockInv, LockTyped
  <2>3. quorum \in Quorums(avoid)
    BY <2>2, SizeIsNatural, QuorumIsQuorum
  <2>4. voters'[p] = quorum /\ synthesis'[p] = synth /\ avoided'[p] = avoid
    BY <2>1 DEF PrepareConsensus, LockInv, LockTyped
  <2> HIDE DEF quorum
  <2>5. apart # {} => synth \notin ToSet(quorum)
    <3>1. ProviderOrder \in Seq(Provider)
      BY <2>2, OrderIsOfProviders
    <3> QED
      BY <2>2, <3>1, DecidesEligibly DEF SynthesisRoutes
  <2>6. Eligible(FALSE, ToSet(quorum) \cup avoid) \subseteq apart
    BY DEF Eligible
  <2> HIDE DEF synth, apart
  <2> QED
    BY <2>3, <2>4, <2>5, <2>6 DEF Quorums
<1>2. LockInv /\ [Next]_vars => [\A p \in Plan : Independent(p)]_vars
  BY <1>1
<1> QED
  BY <1>2, LockInvariant, PTL DEF Spec, QuorumIsIndependent
==============================================================================
