------------------------------- MODULE Spend -------------------------------
(***************************************************************************)
(* Cost control: the session's cumulative spend, the budget every request  *)
(* is checked against and the older figure a Dictum policy sees            *)
(* (modules/cost/spend_store.rs, pipeline/cost.rs, the cost crate and the   *)
(* cost part of execute_pipeline).  Money is integer micro-USD.            *)
(***************************************************************************)
EXTENDS Integers, Sequences, FiniteSets

CONSTANTS
    SpendKeys,   \* (agent, session) pairs
    Payers,      \* concurrent requests
    Reports,     \* usage reports: [usd, rate, prompt, completion],
                 \*  usd and rate sets of at most one figure
    Budget,      \* sets with the configured budget, or {}: none
    PolicyLimit, \* a Dictum policy blocks above this session spend
    MaxMicros,   \* u64::MAX
    MaxCharges   \* bound on requests

ASSUME SpendAssumption ==
    /\ Budget \subseteq Nat /\ Cardinality(Budget) <= 1
    /\ PolicyLimit \in Nat /\ MaxMicros \in Nat /\ MaxCharges \in Nat
    /\ IsFiniteSet(Payers)
    /\ Reports \subseteq [usd : SUBSET Int, rate : SUBSET [input : Int, output : Int],
                          prompt : Nat, completion : Nat]

VARIABLES
    spend,      \* SPEND: key -> micro-USD
    poisoned,   \* a panic left the RwLock around SPEND poisoned
    overflowChecks, \* the build panics on overflow (debug) or wraps (release)
    payer,      \* the request of every payer
    charges     \* requests that passed the budget: [key, cost,
                \*  whether the Dictum policy blocked] (ghost)

spendVars == <<spend, poisoned, overflowChecks, payer, charges>>

NoPayer == [pc |-> "idle"]

SpendInit ==
    /\ spend = [k \in SpendKeys |-> 0]
    /\ poisoned = FALSE
    /\ overflowChecks \in BOOLEAN
    /\ payer = [p \in Payers |-> NoPayer]
    /\ charges = <<>>

\* `as u64` and saturating_add stop at u64::MAX.
Saturate(micros) == IF micros > MaxMicros THEN MaxMicros ELSE micros

\* usd_to_micros: a cost is never negative.
UsdToMicros(usd) == IF usd > 0 THEN Saturate(usd) ELSE 0

\* PricingTable::cost_micros: each half rounded on its own, then summed;
\* nothing when neither the model nor a default has a rate.
TableCost(rep) ==
    {Saturate(UsdToMicros(rep.prompt * r.input) + UsdToMicros(rep.completion * r.output)) :
        r \in rep.rate}

\* resolve_usage: the caller's figure, else the table's, else unpriced; a
\* request that reports no usage costs nothing either.
ResolveUsage(rep) ==
    IF rep.usd # {} THEN UsdToMicros(CHOOSE u \in rep.usd : TRUE)
    ELSE IF TableCost(rep) # {} THEN CHOOSE c \in TableCost(rep) : TRUE
    ELSE 0

\* session_spend_usd: a poisoned lock reads as nothing spent.
SessionSpend(k) == IF poisoned THEN 0 ELSE spend[k]

\* The spend is read for the Dictum context, before the overlay runs.
ReadSpend(p, k, rep) ==
    /\ payer[p].pc = "idle" /\ Len(charges) < MaxCharges
    /\ payer' = [payer EXCEPT ![p] =
           [pc |-> "overlay", key |-> k, cost |-> ResolveUsage(rep),
            seen |-> SessionSpend(k)]]
    /\ UNCHANGED <<spend, poisoned, overflowChecks, charges>>

\* check_and_add: over budget before this request means refused and not
\* charged; otherwise the cost is added, under the same lock.
OverBudget(current) == \E limit \in Budget : current > limit

\* Mutant: the budget is compared with the figure read for the overlay.
OverspentStale(p) == OverBudget(payer[p].seen)
Overspent(p) == OverBudget(spend[payer[p].key])

NewSpend(p) == spend[payer[p].key] + payer[p].cost
Panics(p) == overflowChecks /\ NewSpend(p) > MaxMicros

\* The request of p is over.  When it passed, it counts among the charges.
Finish(p) == payer' = [payer EXCEPT ![p] = NoPayer]
Pass(p) ==
    charges' = Append(charges, [key |-> payer[p].key, cost |-> payer[p].cost,
                                dictum |-> payer[p].seen > PolicyLimit])

RefuseOverspent(p) ==
    /\ ~poisoned /\ Overspent(p)
    /\ UNCHANGED <<spend, poisoned, charges>>

\* `+= micros` on a u64 wraps in a build without overflow checks.
AddMicros(p) ==
    /\ ~poisoned /\ ~Overspent(p) /\ ~Panics(p)
    /\ spend' = [spend EXCEPT ![payer[p].key] = NewSpend(p) % (MaxMicros + 1)]
    /\ Pass(p)
    /\ UNCHANGED poisoned

\* In a build with them it panics: the request ends without a verdict, and the
\* panic poisons the lock it holds.
PanicInAdd(p) ==
    /\ ~poisoned /\ ~Overspent(p) /\ Panics(p)
    /\ poisoned' = TRUE
    /\ UNCHANGED <<spend, charges>>

\* A poisoned lock lets every request pass.
PassUncounted(p) ==
    /\ poisoned
    /\ Pass(p)
    /\ UNCHANGED <<spend, poisoned>>

CheckAndAdd(p) ==
    /\ payer[p].pc = "overlay"
    /\ RefuseOverspent(p) \/ AddMicros(p) \/ PanicInAdd(p) \/ PassUncounted(p)
    /\ Finish(p)
    /\ UNCHANGED overflowChecks

SpendNext == \E p \in Payers :
    \/ \E k \in SpendKeys, rep \in Reports : ReadSpend(p, k, rep)
    \/ CheckAndAdd(p)

SpendSpec == SpendInit /\ [][SpendNext]_spendVars

-----------------------------------------------------------------------------
(* Properties.                                                             *)

\* The running sums of a sequence of costs, and the last of them.
Sums(w) ==
    LET sum[m \in 0..Len(w)] == IF m = 0 THEN 0 ELSE sum[m-1] + w[m] IN sum
Total(w) == Sums(w)[Len(w)]

\* What each charge adds to the spend of session k, and what it adds to the
\* spend that a Dictum policy let pass.
CostsOf(k) == [i \in 1..Len(charges) |->
    IF charges[i].key = k THEN charges[i].cost ELSE 0]
LetPass(k) == [i \in 1..Len(charges) |->
    IF charges[i].key = k /\ ~charges[i].dictum THEN charges[i].cost ELSE 0]

\* What was charged to session k still fits into its counter, and the lock
\* around the counters is whole.
Counted(k) == ~poisoned /\ Total(CostsOf(k)) <= MaxMicros

\* As long as the counter holds what a session was charged, the session
\* overshoots its budget by at most the request that crossed it,
\* however many requests are under way; and the requests a Dictum policy on
\* the session spend let pass cost at most its limit plus the dearest of them
\* for every request that can be under way, because the figure it sees is old.
BudgetBound ==
    \A k \in SpendKeys : Counted(k) =>
        /\ spend[k] = Total(CostsOf(k))
        /\ \A limit \in Budget, i \in 1..Len(charges) :
              charges[i].key = k => Sums(CostsOf(k))[i-1] <= limit
        /\ \E most \in {0} \cup {LetPass(k)[i] : i \in 1..Len(charges)} :
              Total(LetPass(k)) <= PolicyLimit + Cardinality(Payers) * most

\* "can block once a session's cumulative spend exceeds its budget"
\* (spend_store.rs:5-7): no request passes after its session's charges exceeded
\* the budget, whatever the charges are.
BudgetEnforced ==
    \A k \in SpendKeys, limit \in Budget, i \in 1..Len(charges) :
        charges[i].key = k => Sums(CostsOf(k))[i-1] <= limit
=============================================================================
