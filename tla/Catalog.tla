------------------------------- MODULE Catalog -------------------------------
(***************************************************************************)
(* The model catalog and the health of the providers: catalog.py's refresh *)
(* and service.py's refresh_provider_quotas, any number of which may be    *)
(* under way at once, each with one request per provider out.              *)
(*                                                                         *)
(* A provider has a seed model of the configuration and may list models of *)
(* its own; scores, limits and prices of a model are left out.             *)
(***************************************************************************)
EXTENDS Naturals, FiniteSets

CONSTANTS
    Provider,
    Refresh,      \* calls of refresh
    QuotaCall,    \* calls of refresh_provider_quotas
    MaxCalls      \* calls altogether (a bound)

VARIABLES
    setup,      \* Provider -> "disabled", "no key" or "ready" (settings and environment)
    seed,       \* Provider -> "seed", "seed off" or "live": the seed's entry in _models
    extra,      \* Provider -> another of its models is in _models, live
    health,     \* Provider -> [healthy, availability], or << >> before the first refresh
    suspect,    \* Provider -> provider.experimental, set by a failed discovery
    answer,     \* Refresh -> Provider -> "none", "asked" or the models it brings
    quota,      \* QuotaCall -> Provider -> "none", "asked" or "done"
    calls

catalogVars == <<setup, seed, extra, health, suspect, answer, quota, calls>>

Setups == {"disabled", "no key", "ready"}
Answers == SUBSET {"seed", "extra"}
Evidence == {"quota_exhausted", "temporary_rate_limit", "authentication_failure",
             "unavailable", "security_denied"}
Health(healthy, availability) == <<healthy, availability>>

CatalogInit ==
    /\ setup = [p \in Provider |-> "ready"]
    /\ seed = [p \in Provider |-> "seed"] /\ extra = [p \in Provider |-> FALSE]
    /\ health = [p \in Provider |-> <<>>] /\ suspect = [p \in Provider |-> FALSE]
    /\ answer = [r \in Refresh |-> [p \in Provider |-> {"none"}]]
    /\ quota = [q \in QuotaCall |-> [p \in Provider |-> "none"]]
    /\ calls = 0

HasLive(p) == seed[p] = "live" \/ extra[p]

\* A refresh starts: providers that cannot be asked are done at once.
StartRefresh(r) ==
    /\ calls < MaxCalls /\ calls' = calls + 1
    /\ \A p \in Provider : answer[r][p] = {"none"}
    /\ answer' = [answer EXCEPT ![r] = [p \in Provider |->
                      IF setup[p] = "ready" THEN {"asked"} ELSE {}]]
    /\ health' = [p \in Provider |->
           CASE setup[p] = "disabled" -> Health("unknown", "disabled")
             [] setup[p] = "no key" -> Health("unknown", "unavailable")
             [] OTHER -> health[p]]
    /\ UNCHANGED <<setup, seed, extra, suspect, quota>>

Listed(r, p) ==
    /\ answer[r][p] = {"asked"}
    /\ \E models \in Answers : answer' = [answer EXCEPT ![r][p] = models]
    /\ health' = [health EXCEPT ![p] = Health("yes", "available")]
    /\ UNCHANGED <<setup, seed, extra, suspect, quota, calls>>

\* Mutant of DiscoveryFails: only the provider is marked.
DiscoveryFailsQuietly(r, p) ==
    /\ answer[r][p] = {"asked"}
    /\ answer' = [answer EXCEPT ![r][p] = {}]
    /\ suspect' = [suspect EXCEPT ![p] = TRUE]
    /\ health' = [health EXCEPT ![p] = Health("no", "unavailable")]
    /\ UNCHANGED <<setup, seed, extra, quota, calls>>

\* A failed discovery disables the seeds of a provider without live models.
DiscoveryFails(r, p) ==
    /\ answer[r][p] = {"asked"}
    /\ answer' = [answer EXCEPT ![r][p] = {}]
    /\ suspect' = [suspect EXCEPT ![p] = TRUE]
    /\ seed' = [seed EXCEPT ![p] = IF HasLive(p) THEN @ ELSE "seed off"]
    /\ health' = [health EXCEPT ![p] = Health("no", "unavailable")]
    /\ UNCHANGED <<setup, extra, quota, calls>>

\* All answers are in: what they list is live, what they do not list stays.
Merge(r) ==
    /\ \A p \in Provider : answer[r][p] \in Answers
    /\ seed' = [p \in Provider |-> IF "seed" \in answer[r][p] THEN "live" ELSE seed[p]]
    /\ extra' = [p \in Provider |-> extra[p] \/ "extra" \in answer[r][p]]
    /\ answer' = [answer EXCEPT ![r] = [p \in Provider |-> {"none"}]]
    /\ UNCHANGED <<setup, health, suspect, quota, calls>>

StartQuotas(q) ==
    /\ calls < MaxCalls /\ calls' = calls + 1
    /\ \A p \in Provider : quota[q][p] # "asked"
    /\ quota' = [quota EXCEPT ![q] = [p \in Provider |->
                     IF setup[p] = "ready" THEN "asked" ELSE "none"]]
    /\ UNCHANGED <<setup, seed, extra, health, suspect, answer>>

\* A snapshot, if there is one, says how much is left, and nothing of healthy.
QuotaKnown(q, p) ==
    /\ quota[q][p] = "asked"
    /\ quota' = [quota EXCEPT ![q][p] = "done"]
    /\ \/ UNCHANGED health
       \/ \E a \in {"available", "quota_exhausted"} :
              health' = [health EXCEPT ![p] = IF @ = <<>> THEN @ ELSE Health(@[1], a)]
    /\ UNCHANGED <<setup, seed, extra, suspect, answer, calls>>

\* A failed request is classified and makes the provider unhealthy.
QuotaFails(q, p) ==
    /\ quota[q][p] = "asked"
    /\ quota' = [quota EXCEPT ![q][p] = "done"]
    /\ \E a \in Evidence :
           health' = [health EXCEPT ![p] = IF @ = <<>> THEN @ ELSE Health("no", a)]
    /\ UNCHANGED <<setup, seed, extra, suspect, answer, calls>>

\* A credential is saved or removed, a provider is switched off or on.
Configure(p) ==
    /\ \E s \in Setups \ {setup[p]} : setup' = [setup EXCEPT ![p] = s]
    /\ UNCHANGED <<seed, extra, health, suspect, answer, quota, calls>>

CatalogNext ==
    \/ \E r \in Refresh :
           \/ StartRefresh(r) \/ Merge(r)
           \/ \E p \in Provider : Listed(r, p) \/ DiscoveryFails(r, p)
    \/ \E q \in QuotaCall :
           \/ StartQuotas(q)
           \/ \E p \in Provider : QuotaKnown(q, p) \/ QuotaFails(q, p)
    \/ \E p \in Provider : Configure(p)

CatalogSpec == CatalogInit /\ [][CatalogNext]_catalogVars

-----------------------------------------------------------------------------
\* "A provider with no successful live evidence must not leave its seed routes
\* looking production-ready after discovery fails" (catalog.py:87-90): true in
\* every order of overlapping refreshes, and later failures and successes.
FailedDiscoveryHidesSeeds ==
    \A p \in Provider : suspect[p] /\ ~HasLive(p) => seed[p] = "seed off"
==============================================================================
