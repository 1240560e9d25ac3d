------------------------------- MODULE Routing -------------------------------
(***************************************************************************)
(* routing.py's Router over provider_policy.py: which provider a request   *)
(* is routed to.  Every gate of _rejection_reason that turns on the        *)
(* provider's own condition (disabled, unhealthy, no credential) is        *)
(* membership of ready; the pin, the exclusions, the daily cap and the     *)
(* billing gate are kept apart, because they change as plans run.  Chain   *)
(* modes (codex_first, third_party_first); one model per provider.         *)
(***************************************************************************)
EXTENDS Clock, Sequences, FiniteSets

CONSTANTS
    Provider,     \* configured providers
    Chain,        \* routes[mode]: the named provider chain
    ByScore,      \* every provider, best score first
    BelowFloor,   \* providers scoring under the requested quality's minimum
    Paid,         \* providers billed PAID or USER_PAYS
    DailyCap,     \* daily_request_cap of each provider, 0 for none
    None,         \* no provider
    Never,        \* no reset time
    DefaultConsent  \* settings.consent_mode

ConsentMode == {"always_ask", "paid_only", "automatic"}

ASSUME RoutingAssumption ==
    /\ Chain \in Seq(Provider) /\ ByScore \in Seq(Provider)
    /\ Provider = {ByScore[i] : i \in DOMAIN ByScore}
    /\ BelowFloor \subseteq Provider /\ Paid \subseteq Provider
    /\ DailyCap \in Nat
    /\ None \notin Provider /\ Never \notin Nat
    /\ DefaultConsent \in ConsentMode

VARIABLES
    used,         \* today's 'ok' rows of requests, by provider
    consent,      \* the consent_mode setting, shared through the database
    ready,        \* providers neither disabled, unhealthy nor without a credential
    sticky,       \* session_sticky[session_id]: provider and until
    stickyUntil

pinVars == <<sticky, stickyUntil>>

RoutingTypeOK ==
    /\ used \in [Provider -> Nat]
    /\ consent \in ConsentMode
    /\ ready \subseteq Provider
    /\ sticky \in Provider \cup {None}
    /\ stickyUntil \in Nat \cup {Never}

RoutingInit ==
    /\ used = [q \in Provider |-> 0]
    /\ consent = DefaultConsent
    /\ ready = Provider
    /\ sticky = None /\ stickyUntil = Never

------------------------------------------------------------------------------
\* sticky_for: the pinned provider, until its reset time passes.
Pinned == IF sticky # None /\ (stickyUntil = Never \/ stickyUntil > now) THEN sticky ELSE None

\* provider_order: the pin alone, or the configured chain.
ProviderOrder == IF Pinned # None THEN <<Pinned>> ELSE Chain

\* Mutant of Eligible: the request's exclusions are not looked at.
EligibleThoughExcluded(paidAllowed, exclude) ==
    {q \in ready :
        /\ Pinned \in {None, q}
        /\ DailyCap = 0 \/ used[q] < DailyCap
        /\ q \in Paid => paidAllowed}

\* _rejection_reason: the candidates that no gate rejects.
Eligible(paidAllowed, exclude) ==
    {q \in ready \ exclude :
        /\ Pinned \in {None, q}
        /\ DailyCap = 0 \/ used[q] < DailyCap
        /\ q \in Paid => paidAllowed}

First(order, S) ==
    order[CHOOSE i \in DOMAIN order :
            order[i] \in S /\ \A j \in DOMAIN order : order[j] \in S => i <= j]

\* decide's sort: preferred providers in their order, then the others by score.
Best(order, S) ==
    IF \E i \in DOMAIN order : order[i] \in S THEN First(order, S) ELSE First(ByScore, S)

\* decide: the best candidate, or the best billed one when that is under the quality floor.
Decide(order, S) ==
    LET best == Best(order, S)
    IN  IF best \in BelowFloor /\ S \cap Paid # {} THEN Best(order, S \cap Paid) ELSE best

RequiresConfirmation(q) == consent = "always_ask" \/ (consent = "paid_only" /\ q \in Paid)

\* stick: the session keeps to provider q until the given time.
Stick(q, until) == sticky' = q /\ stickyUntil' = until

\* record_result with status 'ok': one more of today's requests.
RecordOk(q) == used' = [used EXCEPT ![q] = @ + 1]
==============================================================================
