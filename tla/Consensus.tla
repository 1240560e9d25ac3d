----------------------------- MODULE Consensus -----------------------------
(***************************************************************************)
(* service.py: consensus plans.  prepare_consensus locks a quorum of free  *)
(* voters and a synthesis route; the run asks all voters at once, waits    *)
(* for every vote, and has the reviews synthesised unless they agree.  A   *)
(* run suspends at the votes (asyncio.gather) and at each synthesis call.  *)
(***************************************************************************)
EXTENDS Preflight, Routing, SequencesExt

CONSTANTS
    Unpriced,      \* providers whose billing class is unknown
    VoterCounts,   \* the voters a caller may ask for
    MaxParallel,   \* max_parallel_consensus
    Avoidable,     \* providers a caller may exclude
    Opinion,       \* what a review may say, as far as _reviews_agree can tell two apart
    MaxChanges     \* bound on consent, readiness and pin changes, failed updates and restarts

ASSUME ConsensusAssumption ==
    /\ Unpriced \subseteq Provider \ Paid
    /\ VoterCounts \subseteq Nat \ {0} /\ MaxParallel \in Nat
    /\ Avoidable \subseteq Provider
    /\ Opinion \cap {"none", "queued", "calling", "failed"} = {}
    /\ MaxChanges \in Nat

VARIABLES
    row,          \* preflight_events.status by plan_id
    avoided,      \* the caller's excluded_providers
    voters,       \* the providers of prepared.decisions
    synthesis,    \* the provider of prepared.synthesis_decision
    allowPaid,    \* synthesis_request.allow_paid
    vote,         \* where each voter's execute is, and then what its review says
    queue,        \* synthesis_decisions still to be tried, the current one first
    run,          \* where run_prepared_task is, and how it ended
    author,       \* the provider of a completed run's synthesis, None if it was skipped
    missed,       \* history: plans of which an update of the row raised
    lockedMode,   \* history: the consent mode that was in force at the lock
    changes       \* how many bounded changes have happened

lockVars == <<avoided, voters, synthesis, allowPaid, lockedMode>>
ledgerVars == <<row, used, missed>>
workVars == <<vote, queue, run, author>>
worldVars == <<consent, ready, pinVars>>
vars == <<preflightVars, lockVars, ledgerVars, workVars, worldVars, changes>>

Vote == {"none", "queued", "calling", "failed"} \cup Opinion
Active == {"voting", "synthesizing"}
Ended == {"completed", "stopped", "cancelled"}

TypeOK ==
    /\ PreflightTypeOK
    /\ RoutingTypeOK
    /\ row \in [Plan -> {"none", "confirmation_required", "ready", "working",
                         "completed", "repreflight_required"}]
    /\ avoided \in [Plan -> SUBSET Provider]
    /\ voters \in [Plan -> Seq(Provider)]
    /\ synthesis \in [Plan -> Provider \cup {None}]
    /\ allowPaid \in [Plan -> BOOLEAN]
    /\ vote \in [Plan -> [Provider -> Vote]]
    /\ queue \in [Plan -> Seq(Provider)]
    /\ run \in [Plan -> {"idle"} \cup Active \cup Ended]
    /\ author \in [Plan -> Provider \cup {None}]
    /\ missed \subseteq Plan
    /\ lockedMode \in [Plan -> ConsentMode]
    /\ changes \in 0..MaxChanges

Init ==
    /\ PreflightInit
    /\ RoutingInit
    /\ row = [p \in Plan |-> "none"]
    /\ avoided = [p \in Plan |-> {}]
    /\ voters = [p \in Plan |-> <<>>]
    /\ synthesis = [p \in Plan |-> None]
    /\ allowPaid = [p \in Plan |-> FALSE]
    /\ vote = [p \in Plan |-> [q \in Provider |-> "none"]]
    /\ queue = [p \in Plan |-> <<>>]
    /\ run = [p \in Plan |-> "idle"]
    /\ author = [p \in Plan |-> None]
    /\ missed = {}
    /\ lockedMode = [p \in Plan |-> DefaultConsent]
    /\ changes = 0

------------------------------------------------------------------------------
(* prepare_consensus *)

\* Mutant of Quorum: a voter's provider is not excluded from the next choice.
QuorumOfOne(size, avoid) ==
    LET pick[k \in 0..size] ==
          IF k = 0 THEN <<>>
          ELSE LET open == Eligible(FALSE, avoid)
               IN  IF open = {} THEN pick[k - 1]
                   ELSE Append(pick[k - 1], Decide(ProviderOrder, open))
    IN  pick[size]

\* The voter loop: route the prompt again and again, each time without the providers chosen
\* so far, until the quorum is full or no provider is left.
Quorum(size, avoid) ==
    LET pick[k \in 0..size] ==
          IF k = 0 THEN <<>>
          ELSE LET open == Eligible(FALSE, avoid \cup ToSet(pick[k - 1]))
               IN  IF open = {} THEN pick[k - 1]
                   ELSE Append(pick[k - 1], Decide(ProviderOrder, open))
    IN  pick[size]

\* target_voters
QuorumSize(wanted) == Min({wanted, Max({2, MaxParallel})})

\* Where the synthesis may go: away from the voters and the caller's exclusions, or with no
\* exclusion at all when that leaves nothing.
SynthesisRoutes(paidAllowed, exclude) ==
    LET apart == Eligible(paidAllowed, exclude)
    IN  IF apart # {} THEN apart ELSE Eligible(paidAllowed, {})

\* Mutant of PrepareConsensus: only the voters' routes are looked at for the gate.
PrepareGatedByVoters(p, wanted, paidAllowed, avoid) ==
    LET quorum == Quorum(QuorumSize(wanted), avoid)
        routes == SynthesisRoutes(paidAllowed, avoid \cup ToSet(quorum))
        synth == Decide(ProviderOrder, routes)
    IN  /\ quorum # <<>> /\ routes # {}
        /\ ToSet(quorum) \cap Unpriced = {}
        /\ Create(p, \E q \in ToSet(quorum) : RequiresConfirmation(q))
        /\ row' = [row EXCEPT ![p] = status'[p]]
        /\ avoided' = [avoided EXCEPT ![p] = avoid]
        /\ voters' = [voters EXCEPT ![p] = quorum]
        /\ synthesis' = [synthesis EXCEPT ![p] = synth]
        /\ allowPaid' = [allowPaid EXCEPT ![p] = paidAllowed]
        /\ lockedMode' = [lockedMode EXCEPT ![p] = consent]
        /\ UNCHANGED <<now, used, missed, workVars, worldVars, changes>>

\* A voter of unknown billing class aborts the preparation, as does an empty quorum or a
\* synthesis with no route.  If recording the plan raises, nobody gets the token.
PrepareConsensus(p, wanted, paidAllowed, avoid) ==
    LET quorum == Quorum(QuorumSize(wanted), avoid)
        routes == SynthesisRoutes(paidAllowed, avoid \cup ToSet(quorum))
        synth == Decide(ProviderOrder, routes)
    IN  /\ quorum # <<>> /\ routes # {}
        /\ ToSet(quorum) \cap Unpriced = {}
        /\ Create(p, \E q \in ToSet(quorum) \cup {synth} : RequiresConfirmation(q))
        /\ row' = [row EXCEPT ![p] = status'[p]]
        /\ avoided' = [avoided EXCEPT ![p] = avoid]
        /\ voters' = [voters EXCEPT ![p] = quorum]
        /\ synthesis' = [synthesis EXCEPT ![p] = synth]
        /\ allowPaid' = [allowPaid EXCEPT ![p] = paidAllowed]
        /\ lockedMode' = [lockedMode EXCEPT ![p] = consent]
        /\ UNCHANGED <<now, used, missed, workVars, worldVars, changes>>

\* One of the bounded changes.
Change == changes < MaxChanges /\ changes' = changes + 1

\* update_preflight_status: the row's update; if it raises, the row stays what it was.
UpdateRow(p, told) ==
    \/ row' = [row EXCEPT ![p] = told] /\ UNCHANGED <<missed, changes>>
    \/ missed' = missed \cup {p} /\ Change /\ UNCHANGED row

\* approve_preflight: the token is spent before the row is updated.
ApprovePreflight(p) ==
    /\ Approve(p)
    /\ UpdateRow(p, "ready")
    /\ UNCHANGED <<now, lockVars, used, workVars, worldVars>>

RejectToken(p) ==
    /\ Reject(p)
    /\ UNCHANGED <<now, lockVars, ledgerVars, workVars, worldVars, changes>>

------------------------------------------------------------------------------
(* run_prepared_task and _execute_prepared_consensus *)

\* Mutant of RunPreparedTask: the voters are asked although the row could not be set.
RunUnrecorded(p) ==
    /\ Consume(p)
    /\ run' = [run EXCEPT ![p] = "voting"]
    /\ vote' = [vote EXCEPT ![p] = [q \in Provider |->
                    IF q \in ToSet(voters[p]) THEN "queued" ELSE "none"]]
    /\ UpdateRow(p, "working")
    /\ UNCHANGED <<now, lockVars, used, queue, author, worldVars>>

\* The plan is consumed and the voters' calls are scheduled, unless the row cannot be set to
\* "working": then the plan is spent and nobody is asked.
RunPreparedTask(p) ==
    /\ Consume(p)
    /\ \/ /\ row' = [row EXCEPT ![p] = "working"]
          /\ run' = [run EXCEPT ![p] = "voting"]
          /\ vote' = [vote EXCEPT ![p] = [q \in Provider |->
                          IF q \in ToSet(voters[p]) THEN "queued" ELSE "none"]]
          /\ UNCHANGED <<missed, changes>>
       \/ /\ run' = [run EXCEPT ![p] = "stopped"]
          /\ missed' = missed \cup {p}
          /\ Change
          /\ UNCHANGED <<row, vote>>
    /\ UNCHANGED <<now, lockVars, used, queue, author, worldVars>>

\* The loop starts the scheduled calls; a provider that is not ready fails there and then.
StartVotes(p) ==
    /\ run[p] = "voting"
    /\ \E q \in Provider : vote[p][q] = "queued"
    /\ vote' = [vote EXCEPT ![p] = [q \in Provider |->
                    IF @[q] # "queued" THEN @[q]
                    ELSE IF q \in ready THEN "calling" ELSE "failed"]]
    /\ UNCHANGED <<preflightVars, lockVars, ledgerVars, queue, run, author, worldVars, changes>>

\* execute returns or raises: after the answer, recording it may still fail.
VoteReturns(p, q, said, recorded) ==
    /\ run[p] = "voting"
    /\ vote[p][q] = "calling"
    /\ said \in Opinion => recorded
    /\ vote' = [vote EXCEPT ![p][q] = said]
    /\ IF recorded THEN RecordOk(q) ELSE UNCHANGED used
    /\ UNCHANGED <<preflightVars, lockVars, row, missed, queue, run, author, worldVars, changes>>

Reviewed(p) == {q \in Provider : vote[p][q] \in Opinion}

\* The run's last update of the row.
Close(p, how, closed) ==
    /\ run' = [run EXCEPT ![p] = how]
    /\ queue' = [queue EXCEPT ![p] = <<>>]
    /\ UpdateRow(p, closed)

\* A completed run's answer is a synthesis by `who`, or the first of two reviews alike.
Complete(p, who) ==
    /\ author' = [author EXCEPT ![p] = who]
    /\ Close(p, "completed", "completed")

\* The synthesis loop, up to its next await: providers that are not ready fail at once.
AskNext(p, routes) ==
    LET open == SelectInSeq(routes, LAMBDA q : q \in ready)
    IN  /\ IF open = 0 THEN Close(p, "stopped", "repreflight_required")
           ELSE /\ run' = [run EXCEPT ![p] = "synthesizing"]
                /\ queue' = [queue EXCEPT ![p] = SubSeq(routes, open, Len(routes))]
                /\ UNCHANGED <<row, missed, changes>>
        /\ UNCHANGED author

\* synthesis_decisions: the locked route, then the other voters that reviewed.
SynthesisQueue(p) ==
    LET queued[i \in 0..Len(voters[p])] ==
          IF i = 0 THEN <<synthesis[p]>>
          ELSE LET q == voters[p][i]
               IN  IF q # synthesis[p] /\ q \in Reviewed(p)
                   THEN Append(queued[i - 1], q) ELSE queued[i - 1]
    IN  queued[Len(voters[p])]

\* _reviews_agree: there are two reviews, and the first two in the voters' order say the same.
Agree(p) ==
    \E i, j \in DOMAIN voters[p] :
        /\ i < j
        /\ vote[p][voters[p][i]] = vote[p][voters[p][j]]
        /\ \A k \in 1..j : voters[p][k] \in Reviewed(p) <=> k \in {i, j}

\* Mutant of Tally: the first reviews are enough.
TallyEarly(p) ==
    /\ run[p] = "voting"
    /\ Reviewed(p) # {} \/ \A q \in Provider : vote[p][q] \notin {"queued", "calling"}
    /\ IF Reviewed(p) = {} THEN Close(p, "stopped", "repreflight_required") /\ UNCHANGED author
       ELSE IF Agree(p) THEN Complete(p, None)
       ELSE AskNext(p, SynthesisQueue(p))
    /\ UNCHANGED <<preflightVars, lockVars, used, vote, worldVars>>

\* Mutant of Tally: a single review is agreed upon.
TallyOfOne(p) ==
    /\ run[p] = "voting"
    /\ \A q \in Provider : vote[p][q] \notin {"queued", "calling"}
    /\ IF Reviewed(p) = {} THEN Close(p, "stopped", "repreflight_required") /\ UNCHANGED author
       ELSE IF Agree(p) \/ Cardinality(Reviewed(p)) = 1 THEN Complete(p, None)
       ELSE AskNext(p, SynthesisQueue(p))
    /\ UNCHANGED <<preflightVars, lockVars, used, vote, worldVars>>

\* gather is done: no review ends the run, two reviews may agree, all else is synthesised.
Tally(p) ==
    /\ run[p] = "voting"
    /\ \A q \in Provider : vote[p][q] \notin {"queued", "calling"}
    /\ IF Reviewed(p) = {} THEN Close(p, "stopped", "repreflight_required") /\ UNCHANGED author
       ELSE IF Agree(p) THEN Complete(p, None)
       ELSE AskNext(p, SynthesisQueue(p))
    /\ UNCHANGED <<preflightVars, lockVars, used, vote, worldVars>>

\* Mutant of SynthesisReturns: a synthesiser that gave no answer is put last in line.
SynthesisRetries(p, answered, recorded) ==
    /\ run[p] = "synthesizing"
    /\ answered => recorded
    /\ IF recorded THEN RecordOk(queue[p][1]) ELSE UNCHANGED used
    /\ IF answered THEN Complete(p, queue[p][1])
       ELSE AskNext(p, IF recorded THEN Tail(queue[p]) ELSE Append(Tail(queue[p]), Head(queue[p])))
    /\ UNCHANGED <<preflightVars, lockVars, vote, worldVars>>

SynthesisReturns(p, answered, recorded) ==
    /\ run[p] = "synthesizing"
    /\ answered => recorded
    /\ IF recorded THEN RecordOk(queue[p][1]) ELSE UNCHANGED used
    /\ IF answered THEN Complete(p, queue[p][1]) ELSE AskNext(p, Tail(queue[p]))
    /\ UNCHANGED <<preflightVars, lockVars, vote, worldVars>>

\* Cancelling the run cancels the calls it waits for; the row is left as it was.
Cancel(p) ==
    /\ run[p] \in Active
    /\ run' = [run EXCEPT ![p] = "cancelled"]
    /\ queue' = [queue EXCEPT ![p] = <<>>]
    /\ UNCHANGED <<preflightVars, lockVars, ledgerVars, vote, author, worldVars, changes>>

------------------------------------------------------------------------------
(* The world around the run *)

SetConsentMode(mode) ==
    /\ Change
    /\ mode # consent
    /\ consent' = mode
    /\ UNCHANGED <<preflightVars, lockVars, ledgerVars, workVars, ready, pinVars>>

ReadinessChange(q) ==
    /\ Change
    /\ ready' = IF q \in ready THEN ready \ {q} ELSE ready \cup {q}
    /\ UNCHANGED <<preflightVars, lockVars, ledgerVars, workVars, consent, pinVars>>

\* A single-route plan of the session falls back on exhausted quota and pins its provider.
OtherPlanPins(q) ==
    /\ Change
    /\ Stick(q, Never)
    /\ UNCHANGED <<preflightVars, lockVars, ledgerVars, workVars, consent, ready>>

\* The process dies and a new one starts: plans, tokens, runs and the pin are gone.
Restart ==
    /\ Change
    /\ plans' = {} /\ confirmations' = {}
    /\ sticky' = None /\ stickyUntil' = Never
    /\ run' = [p \in Plan |-> IF run[p] \in Active THEN "cancelled" ELSE run[p]]
    /\ queue' = [p \in Plan |-> <<>>]
    /\ UNCHANGED <<now, requires, approved, status, expires, lockVars, ledgerVars, vote, author,
                   consent, ready>>

Time == Tick /\ UNCHANGED <<lockVars, ledgerVars, workVars, worldVars, changes>>

Resume(p) ==
    \/ StartVotes(p)
    \/ \E q \in Provider, said \in Opinion \cup {"failed"}, recorded \in BOOLEAN :
          VoteReturns(p, q, said, recorded)
    \/ Tally(p)
    \/ \E answered, recorded \in BOOLEAN : SynthesisReturns(p, answered, recorded)

Next ==
    \/ \E p \in Plan :
          \/ \E wanted \in VoterCounts, paidAllowed \in BOOLEAN, avoid \in SUBSET Avoidable :
                PrepareConsensus(p, wanted, paidAllowed, avoid)
          \/ ApprovePreflight(p)
          \/ RejectToken(p)
          \/ RunPreparedTask(p)
          \/ Resume(p)
          \/ Cancel(p)
    \/ \E mode \in ConsentMode : SetConsentMode(mode)
    \/ \E q \in Provider : ReadinessChange(q) \/ OtherPlanPins(q)
    \/ Restart
    \/ Time

Spec == Init /\ [][Next]_vars
FairSpec == Spec /\ \A p \in Plan : WF_vars(Resume(p))

------------------------------------------------------------------------------
(* Properties *)

\* The quorum is independent: no provider votes twice, and the synthesis is given to a voter
\* only when the session is left without any other ready, free provider (service.py:529-591).
QuorumIsIndependent ==
    [][\A p \in Plan : status[p] = "none" /\ status'[p] # "none" =>
          /\ IsInjective(voters'[p])
          /\ synthesis'[p] \in ToSet(voters'[p]) =>
                Eligible(FALSE, ToSet(voters'[p]) \cup avoided'[p]) = {}]_vars

\* What a billed provider is sent in a consensus run was locked for it, allowed by the caller
\* and, unless the mode in force at the lock was automatic, approved: no vote and no synthesis
\* fallback reaches one (service.py:509-513, preflight.py:70-79).
BilledCallsCleared ==
    \A p \in Plan :
        /\ ToSet(voters[p]) \cap Paid = {}
        /\ run[p] = "synthesizing" /\ queue[p][1] \in Paid =>
              /\ queue[p][1] = synthesis[p]
              /\ allowPaid[p]
              /\ requires[p] \/ lockedMode[p] = "automatic"

\* The transcript is complete when it is synthesised: every vote is in, at least one is a
\* review, and whoever synthesises it in place of the locked route has reviewed (service.py:812-871).
SynthesisSeesEveryVote ==
    \A p \in Plan : run[p] = "synthesizing" =>
        /\ \A q \in Provider : vote[p][q] \notin {"queued", "calling"}
        /\ Reviewed(p) # {}
        /\ queue[p][1] \in {synthesis[p]} \cup Reviewed(p)

\* A run is "completed" when every vote is in, and on one of two grounds: the first two reviews
\* say the same and nobody was asked to synthesise, or they do not and the answer is the
\* synthesis of a provider that was locked for it or has reviewed (service.py:143-151, 812-893).
CompletedOnEvidence ==
    \A p \in Plan : run[p] = "completed" =>
        /\ \A q \in Provider : vote[p][q] \notin {"queued", "calling"}
        /\ IF Agree(p) THEN author[p] = None
           ELSE Reviewed(p) # {} /\ author[p] \in {synthesis[p]} \cup Reviewed(p)

\* The ledger never says more of a consensus plan than happened to it, whichever of its updates
\* raise, and it says "working" while the run is active; if none raised, the row tells how the
\* plan stands, and only a cancelled run leaves "working" behind (db.py:246, service.py:612-655).
LedgerFollowsRun ==
    \A p \in Plan :
        /\ row[p] = "ready" => status[p] \in {"ready", "consumed"}
        /\ row[p] = "working" => run[p] # "idle"
        /\ row[p] = "completed" => run[p] = "completed"
        /\ row[p] = "repreflight_required" => run[p] = "stopped"
        /\ run[p] \in Active => row[p] = "working"
        /\ p \notin missed =>
              /\ status[p] # "consumed" => row[p] = status[p]
              /\ run[p] \in Active \cup {"cancelled"} <=> row[p] = "working"
              /\ run[p] = "completed" <=> row[p] = "completed"

\* Every consensus run ends, however many voters and synthesis routes fail, if providers answer.
ConsensusEnds == \A p \in Plan : run[p] \in Active ~> run[p] \in Ended
==============================================================================
