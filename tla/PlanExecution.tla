---------------------------- MODULE PlanExecution ----------------------------
(***************************************************************************)
(* One RouterService process: plans are locked, approved and run           *)
(* (service.py), on routes the router decides (routing.py) under the       *)
(* session's pinned provider (provider_policy.py), and every stage is      *)
(* written to the preflight_events row of the plan (db.py), which alone    *)
(* survives a restart.  A run suspends only at the provider's call and at  *)
(* the rate-limit sleep; what lies between two awaits is one step.         *)
(* Single-route plans in a chain mode (codex_first, third_party_first);    *)
(* one model per provider.                                                 *)
(***************************************************************************)
EXTENDS Preflight, Routing

CONSTANTS
    ResetDelays,  \* what a quota error may report as reset_at: a delay, or Never
    MaxChanges    \* bound on consent and readiness changes, failed updates and restarts

ASSUME ExecutionAssumption ==
    /\ MaxChanges \in Nat
    /\ ResetDelays \subseteq Nat \cup {Never}

VARIABLES
    row,          \* preflight_events.status by plan_id
    allowPaid,    \* request.allow_paid and request.allow_user_pays
    preferred,    \* request.preferred_providers
    route,        \* the provider of current_decision
    excluded,     \* current_request.excluded_providers
    retried,      \* rate_limit_retries # 0
    run,          \* where run_prepared_task is, and how it ended
    sent,         \* completion calls made for the plan
    missed,       \* history: plans of which an update of the row raised
    changes       \* how many bounded changes have happened

planVars == <<allowPaid, preferred, route, excluded, retried, sent>>
ledgerVars == <<row, used, missed>>
worldVars == <<consent, ready, changes>>
vars == <<preflightVars, pinVars, planVars, run, ledgerVars, worldVars>>

Active == {"calling", "sleeping"}
Ended == {"completed", "exhausted", "stopped", "cancelled"}

TypeOK ==
    /\ PreflightTypeOK
    /\ row \in [Plan -> {"none", "confirmation_required", "ready", "working",
                         "completed", "repreflight_required"}]
    /\ RoutingTypeOK
    /\ allowPaid \in [Plan -> BOOLEAN]
    /\ preferred \in [Plan -> Seq(Provider)]
    /\ route \in [Plan -> Provider \cup {None}]
    /\ excluded \in [Plan -> SUBSET Provider]
    /\ retried \in [Plan -> BOOLEAN]
    /\ run \in [Plan -> {"idle"} \cup Active \cup Ended]
    /\ sent \in [Plan -> Nat]
    /\ missed \subseteq Plan
    /\ changes \in 0..MaxChanges

Init ==
    /\ PreflightInit
    /\ row = [p \in Plan |-> "none"]
    /\ RoutingInit
    /\ allowPaid = [p \in Plan |-> FALSE]
    /\ preferred = [p \in Plan |-> <<>>]
    /\ route = [p \in Plan |-> None]
    /\ excluded = [p \in Plan |-> {}]
    /\ retried = [p \in Plan |-> FALSE]
    /\ run = [p \in Plan |-> "idle"]
    /\ sent = [p \in Plan |-> 0]
    /\ missed = {}
    /\ changes = 0

------------------------------------------------------------------------------
(* The service's operations *)

\* build_request: a request that prefers no provider gets the session's provider order.
RequestOrder == ProviderOrder

\* prepare_task: decide a route, lock the plan, record it.  If recording it raises, nobody
\* gets the token, and the plan that is never named again is left out.
Prepare(p, paidAllowed) ==
    LET open == Eligible(paidAllowed, {})
        chosen == Decide(RequestOrder, open)
    IN  /\ open # {}
        /\ Create(p, RequiresConfirmation(chosen))
        /\ row' = [row EXCEPT ![p] = status'[p]]
        /\ allowPaid' = [allowPaid EXCEPT ![p] = paidAllowed]
        /\ preferred' = [preferred EXCEPT ![p] = RequestOrder]
        /\ route' = [route EXCEPT ![p] = chosen]
        /\ UNCHANGED <<now, pinVars, excluded, retried, sent, run, used, missed, worldVars>>

\* One of the bounded changes.
Change == changes < MaxChanges /\ changes' = changes + 1

\* update_preflight_status: the row's update; if it raises (a locked or full database), the
\* row stays what it was.
UpdateRow(p, was, told) ==
    \/ row' = [row EXCEPT ![p] = told] /\ UNCHANGED <<missed, changes>>
    \/ row' = [row EXCEPT ![p] = was] /\ missed' = missed \cup {p} /\ Change

\* Mutant of ApprovePreflight: the row is not updated.
ApproveUnrecorded(p) ==
    /\ Approve(p)
    /\ UNCHANGED <<now, pinVars, planVars, run, ledgerVars, worldVars>>

\* approve_preflight: the token is spent before the row is updated.
ApprovePreflight(p) ==
    /\ Approve(p)
    /\ UpdateRow(p, row[p], "ready")
    /\ UNCHANGED <<now, pinVars, planVars, run, used, consent, ready>>

RejectToken(p) ==
    /\ Reject(p)
    /\ UNCHANGED <<now, pinVars, planVars, run, ledgerVars, worldVars>>

\* The plan's coroutine is over: its request, decision and counters are gone with it.
Forget(p) ==
    /\ allowPaid' = [allowPaid EXCEPT ![p] = FALSE]
    /\ preferred' = [preferred EXCEPT ![p] = <<>>]
    /\ route' = [route EXCEPT ![p] = None]
    /\ excluded' = [excluded EXCEPT ![p] = {}]
    /\ retried' = [retried EXCEPT ![p] = FALSE]
    /\ sent' = [sent EXCEPT ![p] = 0]

\* The end of a run whose row said "working" until then.
End(p, how, closed) ==
    /\ run' = [run EXCEPT ![p] = how]
    /\ UpdateRow(p, "working", closed)
    /\ Forget(p)

\* Mutant of Send: a provider that is not ready is waited for instead of failing the run.
SendWhenReady(p, q, exclude, again) ==
    /\ q \in ready
    /\ run' = [run EXCEPT ![p] = "calling"]
    /\ row' = [row EXCEPT ![p] = "working"]
    /\ route' = [route EXCEPT ![p] = q]
    /\ excluded' = [excluded EXCEPT ![p] = exclude]
    /\ retried' = [retried EXCEPT ![p] = again]
    /\ sent' = [sent EXCEPT ![p] = @ + 1]
    /\ UNCHANGED <<allowPaid, preferred, missed, changes>>

\* execute, up to the await, of the plan's call to q with these providers excluded; a
\* provider that is not ready gets nothing and ends the run.
Send(p, q, exclude, again) ==
    \/ /\ q \in ready
       /\ run' = [run EXCEPT ![p] = "calling"]
       /\ row' = [row EXCEPT ![p] = "working"]
       /\ route' = [route EXCEPT ![p] = q]
       /\ excluded' = [excluded EXCEPT ![p] = exclude]
       /\ retried' = [retried EXCEPT ![p] = again]
       /\ sent' = [sent EXCEPT ![p] = @ + 1]
       /\ UNCHANGED <<allowPaid, preferred, missed, changes>>
    \/ /\ q \notin ready
       /\ End(p, "stopped", "repreflight_required")

\* run_prepared_task, up to the first await: a plan whose row cannot be set to "working" is
\* spent all the same, and nothing is sent.
RunPreparedTask(p) ==
    /\ Consume(p)
    /\ \/ Send(p, route[p], {}, FALSE)
       \/ /\ run' = [run EXCEPT ![p] = "stopped"]
          /\ missed' = missed \cup {p}
          /\ Forget(p)
          /\ Change
          /\ UNCHANGED row
    /\ UNCHANGED <<now, pinVars, used, consent, ready>>

\* The provider answered and the call was recorded, or a failure after the answer (of
\* record_result before its row is written, or of observe_request after) ended the run.
Answer(p, recorded, clean) ==
    /\ run[p] = "calling"
    /\ clean => recorded
    /\ IF recorded THEN RecordOk(route[p]) ELSE UNCHANGED used
    /\ IF clean THEN End(p, "completed", "completed") ELSE End(p, "stopped", "repreflight_required")
    /\ UNCHANGED <<preflightVars, pinVars, consent, ready>>

\* An error that is neither of the two the fallback handles, a second rate limit among them.
Fail(p) ==
    /\ run[p] = "calling"
    /\ End(p, "stopped", "repreflight_required")
    /\ UNCHANGED <<preflightVars, pinVars, used, consent, ready>>

\* Mutant of RateLimited: every rate limit is retried.
RetryEveryTime(p) ==
    /\ run[p] = "calling"
    /\ retried' = [retried EXCEPT ![p] = TRUE]
    /\ run' = [run EXCEPT ![p] = "sleeping"]
    /\ UNCHANGED <<preflightVars, pinVars, allowPaid, preferred, route, excluded, sent,
                   ledgerVars, worldVars>>

\* A first rate limit with Retry-After: sleep, then the same provider again.
RateLimited(p) ==
    /\ run[p] = "calling"
    /\ ~retried[p]
    /\ retried' = [retried EXCEPT ![p] = TRUE]
    /\ run' = [run EXCEPT ![p] = "sleeping"]
    /\ UNCHANGED <<preflightVars, pinVars, allowPaid, preferred, route, excluded, sent,
                   ledgerVars, worldVars>>

Wake(p) ==
    /\ run[p] = "sleeping"
    /\ Send(p, route[p], excluded[p], TRUE)
    /\ UNCHANGED <<preflightVars, pinVars, used, consent, ready>>

\* Quota exhausted: exclude the provider, decide again, pin the choice for the session and
\* send to it at once; with no route left the run ends.
QuotaExhausted(p, delay) ==
    LET failed == excluded[p] \cup {route[p]}
        open == Eligible(allowPaid[p], failed)
        next == Decide(preferred[p], open)
    IN  /\ run[p] = "calling"
        /\ \/ /\ open = {}
              /\ End(p, "exhausted", "repreflight_required")
              /\ UNCHANGED pinVars
           \/ /\ open # {}
              /\ Send(p, next, failed, FALSE)
              /\ Stick(next, IF delay = Never THEN Never ELSE now + delay)
        /\ UNCHANGED <<preflightVars, used, consent, ready>>

\* CancelledError is no Exception: the run ends and its row is left as it was.
Cancel(p) ==
    /\ run[p] \in Active
    /\ run' = [run EXCEPT ![p] = "cancelled"]
    /\ Forget(p)
    /\ UNCHANGED <<preflightVars, pinVars, ledgerVars, worldVars>>

\* set_consent_mode, from this process or another.
SetConsentMode(mode) ==
    /\ Change
    /\ mode # consent
    /\ consent' = mode
    /\ UNCHANGED <<preflightVars, pinVars, planVars, run, ledgerVars, ready>>

\* A catalog refresh, a settings or credential change moves a provider in or out of ready.
ReadinessChange(q) ==
    /\ Change
    /\ ready' = IF q \in ready THEN ready \ {q} ELSE ready \cup {q}
    /\ UNCHANGED <<preflightVars, pinVars, planVars, run, ledgerVars, consent>>

\* The process dies and a new one starts: plans, tokens, runs and the pin are gone.
Restart ==
    /\ Change
    /\ plans' = {} /\ confirmations' = {}
    /\ sticky' = None /\ stickyUntil' = Never
    /\ run' = [p \in Plan |-> IF run[p] \in Active THEN "cancelled" ELSE run[p]]
    /\ allowPaid' = [p \in Plan |-> FALSE]
    /\ preferred' = [p \in Plan |-> <<>>]
    /\ route' = [p \in Plan |-> None]
    /\ excluded' = [p \in Plan |-> {}]
    /\ retried' = [p \in Plan |-> FALSE]
    /\ sent' = [p \in Plan |-> 0]
    /\ UNCHANGED <<now, requires, approved, status, expires, ledgerVars, consent, ready>>

Time == Tick /\ UNCHANGED <<pinVars, planVars, run, ledgerVars, worldVars>>

\* What ends a suspension: the adapter's answer (or its timeout), and the timer.
Resume(p) ==
    \/ \E recorded, clean \in BOOLEAN : Answer(p, recorded, clean)
    \/ Fail(p)
    \/ RateLimited(p)
    \/ Wake(p)
    \/ \E delay \in ResetDelays : QuotaExhausted(p, delay)

Next ==
    \/ \E p \in Plan :
          \/ \E paidAllowed \in BOOLEAN : Prepare(p, paidAllowed)
          \/ ApprovePreflight(p)
          \/ RejectToken(p)
          \/ RunPreparedTask(p)
          \/ Resume(p)
          \/ Cancel(p)
    \/ \E mode \in ConsentMode : SetConsentMode(mode)
    \/ \E q \in Provider : ReadinessChange(q)
    \/ Restart
    \/ Time

Spec == Init /\ [][Next]_vars
FairSpec == Spec /\ \A p \in Plan : WF_vars(Resume(p))

------------------------------------------------------------------------------
(* Properties *)

\* The ledger never says more of a plan than happened to it, whichever of its updates raise,
\* and while a run is active it says "working".  A plan none of whose updates raised has the
\* row that tells how it stands: before the run its summary's status, "completed" for an
\* answered call and no other, and "working" after the run only if that was cancelled
\* (db.py:246, service.py:612-655).
LedgerFollowsPlan ==
    \A p \in Plan :
        /\ row[p] = "ready" => status[p] \in {"ready", "consumed"}
        /\ row[p] = "working" => run[p] # "idle"
        /\ row[p] = "completed" => run[p] = "completed"
        /\ row[p] = "repreflight_required" => run[p] \in {"stopped", "exhausted"}
        /\ run[p] \in Active => row[p] = "working"
        /\ p \notin missed =>
              /\ status[p] # "consumed" => row[p] = status[p]
              /\ run[p] \in Active \cup {"cancelled"} <=> row[p] = "working"
              /\ run[p] = "completed" <=> row[p] = "completed"

\* One plan costs at most two calls per provider that it reached: the retry is per provider
\* and every hop leaves one provider behind (service.py:697-752).
CallsBounded == \A p \in Plan : sent[p] <= 2 * (Cardinality(excluded[p]) + 1)

\* A run that was told a provider's quota is exhausted never sends to it again, whatever the
\* session's pin says by then (service.py:722-733).
ExhaustedStaysExcluded(p) == route[p] \notin excluded[p]

\* A billed provider is sent only plans whose request allowed paid routes (routing.py:189-194).
PaidOnlyIfAllowed(p) == route[p] \in Paid => allowPaid[p]

\* Every call, the first one and those after a sleep or a fallback, while other plans move the
\* session's pin and the counts, goes to a provider that is still open to its request.
RoutesStayEligible ==
    \A p \in Plan : run[p] \in Active => ExhaustedStaysExcluded(p) /\ PaidOnlyIfAllowed(p)

\* Every started run ends, through however many retries and fallbacks, if providers answer.
WorkEnds == \A p \in Plan : run[p] \in Active ~> run[p] \in Ended

\* README.md:22 "paid and Puter user-pays routes require approval" in paid_only mode.
PaidCallsApproved ==
    \A p \in Plan :
        consent = "paid_only" /\ run[p] \in Active /\ route[p] \in Paid => requires[p]
==============================================================================
