------------------------------- MODULE Credits --------------------------------
(***************************************************************************)
(* Credits and billing: the credits table, the guard in front of every     *)
(* model turn and the charge behind it, Stripe's webhook deliveries, and   *)
(* the two admin forms.  Each SQL statement is one step; requests and      *)
(* deliveries interleave at every await, and the process may stop between  *)
(* any two statements.                                                     *)
(***************************************************************************)
EXTENDS Integers, FiniteSets

CONSTANTS
    Tenants,
    Events,       \* Stripe events; each names a tenant
    Kind,         \* what each event is
    Adjustments,  \* top-ups requested by an admin
    Owner,        \* the tenant of each event and adjustment
    Amount,       \* the credits it stands for
    Cost,         \* TURN_CREDIT_COST
    FreeTier,     \* CREDITS_FREE_TIER_GRANT
    Turns,        \* turn requests handled at the same time
    Deliveries,   \* webhook requests handled at the same time
    NoRow,        \* no row in credits
    Idle,         \* a turn or a delivery that is not being handled
    MaxDebt       \* bound: no exempt turn starts below this debt

Grants == Events \cup Adjustments

\* The event types of the handler's switch; the two that only pay are one kind.
Kinds == {"checkout", "payment", "failed", "deleted", "other"}

\* tenant_plan: paid is paid and active, the others are trial with that status.
Plans == {"trial", "paid", "past_due", "canceled"}

ASSUME GrantsAssumption ==
    /\ Kind \in [Events -> Kinds]
    /\ Owner \in [Grants -> Tenants]
    /\ Amount \in [Grants -> Nat]
    /\ Events \cap Adjustments = {}
ASSUME AmountsAssumption ==
    /\ Cost \in Nat \ {0}
    /\ FreeTier \in Nat
    /\ MaxDebt \in Nat
    /\ NoRow \notin Int
ASSUME RequestsAssumption ==
    /\ IsFiniteSet(Turns) /\ Turns # {}
    /\ Idle \notin Tenants
    /\ Idle \notin [event : Events, next : {"record", "credit", "plan"}]

VARIABLES
    credits,   \* balance of each tenant that has a row
    recorded,  \* stripe_events
    plan,      \* tenant_plan
    audit,     \* credit_audit_log: the adjustments it has a row for
    turn,      \* the tenant of the turn each request is running
    delivery,  \* the event of each webhook request and its next statement
    adjust     \* progress of each admin top-up

(***************************************************************************)
(* Observations.                                                           *)
(***************************************************************************)
VARIABLES
    applied,  \* grants added to a balance
    exempt,   \* tenants a turn of which passed the guard unchecked
    byAdmin   \* tenants whose plan an admin has set

tables == <<credits, recorded, plan, audit>>
requests == <<turn, delivery, adjust>>
ghosts == <<applied, exempt, byAdmin>>
vars == <<credits, recorded, plan, audit, turn, delivery, adjust,
          applied, exempt, byAdmin>>

Handling == [event : Events, next : {"record", "credit", "plan"}]

TypeOK ==
    /\ credits \in [Tenants -> Int \cup {NoRow}]
    /\ recorded \subseteq Events
    /\ plan \in [Tenants -> Plans]
    /\ audit \subseteq Adjustments
    /\ turn \in [Turns -> Tenants \cup {Idle}]
    /\ delivery \in [Deliveries -> Handling \cup {Idle}]
    /\ adjust \in [Adjustments -> {"new", "audit", "over"}]
    /\ applied \subseteq Grants
    /\ exempt \subseteq Tenants
    /\ byAdmin \subseteq Tenants

Init ==
    /\ credits = [t \in Tenants |-> NoRow]
    /\ recorded = {}
    /\ plan = [t \in Tenants |-> "trial"]
    /\ audit = {}
    /\ turn = [p \in Turns |-> Idle]
    /\ delivery = [d \in Deliveries |-> Idle]
    /\ adjust = [a \in Adjustments |-> "new"]
    /\ applied = {}
    /\ exempt = {}
    /\ byAdmin = {}

-------------------------------------------------------------------------------
(***************************************************************************)
(* credits.js.                                                             *)
(***************************************************************************)

getBalance(t) == IF credits[t] = NoRow THEN 0 ELSE credits[t]

\* An upsert: a tenant without a row gets one holding delta.
adjustBalance(t, delta) == credits' = [credits EXCEPT ![t] = getBalance(t) + delta]

\* The grant g reaches its tenant's balance.
creditGrant(g) ==
    /\ adjustBalance(Owner[g], Amount[g])
    /\ applied' = applied \cup {g}

\* At every sign-in, whatever the method; ON CONFLICT DO NOTHING.
grantFreeTierIfNew(t) ==
    /\ credits[t] = NoRow
    /\ credits' = [credits EXCEPT ![t] = FreeTier]
    /\ UNCHANGED <<recorded, plan, audit, requests, ghosts>>

-------------------------------------------------------------------------------
(***************************************************************************)
(* A model turn.  The guard reads the balance and answers 402, or lets the *)
(* turn run for as long as the model takes; the charge follows.            *)
(***************************************************************************)

\* Mutant: an off-by-one that lets a tenant at zero go on.
creditsGuardAtZero(p, t) ==
    /\ turn[p] = Idle
    /\ getBalance(t) >= 0
    /\ turn' = [turn EXCEPT ![p] = t]
    /\ UNCHANGED <<tables, delivery, adjust, ghosts>>

creditsGuard(p, t) ==
    /\ turn[p] = Idle
    /\ getBalance(t) > 0
    /\ turn' = [turn EXCEPT ![p] = t]
    /\ UNCHANGED <<tables, delivery, adjust, ghosts>>

\* Admins and staging tests pass unchecked.
creditsGuardBypassed(p, t) ==
    /\ turn[p] = Idle
    /\ getBalance(t) > - MaxDebt
    /\ turn' = [turn EXCEPT ![p] = t]
    /\ exempt' = exempt \cup {t}
    /\ UNCHANGED <<tables, delivery, adjust, applied, byAdmin>>

chargeTurn(p) ==
    /\ turn[p] # Idle
    /\ adjustBalance(turn[p], - Cost)
    /\ turn' = [turn EXCEPT ![p] = Idle]
    /\ UNCHANGED <<recorded, plan, audit, delivery, adjust, ghosts>>

\* The turn was refused or failed, or its charge was rejected and the error
\* swallowed.
endUncharged(p) ==
    /\ turn[p] # Idle
    /\ turn' = [turn EXCEPT ![p] = Idle]
    /\ UNCHANGED <<tables, delivery, adjust, ghosts>>

-------------------------------------------------------------------------------
(***************************************************************************)
(* POST /webhook/stripe.  Stripe delivers an event again until a delivery  *)
(* is answered with 200, sometimes after that too, and in any order; a     *)
(* delivery whose statement is rejected is not answered with 200.          *)
(***************************************************************************)

webhookStart(d, e) ==
    /\ delivery[d] = Idle
    /\ delivery' = [delivery EXCEPT ![d] = [event |-> e, next |-> "record"]]
    /\ UNCHANGED <<tables, turn, adjust, ghosts>>

\* The request of d goes on with statement `next'.
goOn(d, next) == delivery' = [delivery EXCEPT ![d].next = next]

\* The request ends: answered with 200, or rejected.
finish(d) == delivery' = [delivery EXCEPT ![d] = Idle]

\* The switch on the event's type.
dispatch(d) ==
    LET kind == Kind[delivery[d].event]
    IN  \/ kind \in {"checkout", "payment"} /\ goOn(d, "credit")
        \/ kind \in {"failed", "deleted"} /\ goOn(d, "plan")
        \/ kind = "other" /\ finish(d)

\* Mutant: a duplicate found by reading and not by the insert itself.
recordEventUnchecked(d) ==
    /\ delivery[d] # Idle
    /\ delivery[d].next = "record"
    /\ recorded' = recorded \cup {delivery[d].event}
    /\ dispatch(d)
    /\ UNCHANGED <<credits, plan, audit, turn, adjust, applied, exempt, byAdmin>>

\* INSERT INTO stripe_events ... ON CONFLICT DO NOTHING; no row inserted means
\* a duplicate, which is answered at once.
recordEvent(d) ==
    /\ delivery[d] # Idle
    /\ delivery[d].next = "record"
    /\ recorded' = recorded \cup {delivery[d].event}
    /\ IF delivery[d].event \in recorded THEN finish(d) ELSE dispatch(d)
    /\ UNCHANGED <<credits, plan, audit, turn, adjust, applied, exempt, byAdmin>>

\* The insert reports an error, committed or not.
recordError(d) ==
    /\ delivery[d] # Idle
    /\ delivery[d].next = "record"
    /\ recorded' \in {recorded, recorded \cup {delivery[d].event}}
    /\ finish(d)
    /\ UNCHANGED <<credits, plan, audit, turn, adjust, applied, exempt, byAdmin>>

creditEvent(d) ==
    /\ delivery[d] # Idle
    /\ delivery[d].next = "credit"
    /\ creditGrant(delivery[d].event)
    /\ IF Kind[delivery[d].event] = "checkout" THEN goOn(d, "plan") ELSE finish(d)
    /\ UNCHANGED <<recorded, plan, audit, turn, adjust, exempt, byAdmin>>

\* Mutant: an error of the credit swallowed like that of the plan.
creditErrorSwallowed(d) ==
    /\ delivery[d] # Idle
    /\ delivery[d].next = "credit"
    /\ IF Kind[delivery[d].event] = "checkout" THEN goOn(d, "plan") ELSE finish(d)
    /\ UNCHANGED <<tables, turn, adjust, applied, exempt, byAdmin>>

\* adjustBalance reports an error, committed or not, and the handler rejects.
creditError(d) ==
    /\ delivery[d] # Idle
    /\ delivery[d].next = "credit"
    /\ \/ creditGrant(delivery[d].event)
       \/ UNCHANGED <<credits, applied>>
    /\ finish(d)
    /\ UNCHANGED <<recorded, plan, audit, turn, adjust, exempt, byAdmin>>

PlanAfter(kind) ==
    CASE kind = "checkout" -> "paid"
      [] kind = "failed" -> "past_due"
      [] kind = "deleted" -> "canceled"

\* Swallows its own errors: answered with 200 either way.
setPlanState(d) ==
    LET e == delivery[d].event
    IN  /\ delivery[d] # Idle
        /\ delivery[d].next = "plan"
        /\ plan' \in {plan, [plan EXCEPT ![Owner[e]] = PlanAfter(Kind[e])]}
        /\ finish(d)
        /\ UNCHANGED <<credits, recorded, audit, turn, adjust, applied, exempt, byAdmin>>

-------------------------------------------------------------------------------
(***************************************************************************)
(* The admin forms.                                                        *)
(***************************************************************************)

\* adjustBalanceWithAudit: the balance, then the row of the audit log.
adminCreditsPost(a) ==
    /\ adjust[a] = "new"
    /\ creditGrant(a)
    /\ adjust' = [adjust EXCEPT ![a] = "audit"]
    /\ UNCHANGED <<recorded, plan, audit, turn, delivery, exempt, byAdmin>>

writeAudit(a) ==
    /\ adjust[a] = "audit"
    /\ audit' = audit \cup {a}
    /\ adjust' = [adjust EXCEPT ![a] = "over"]
    /\ UNCHANGED <<credits, recorded, plan, turn, delivery, ghosts>>

\* One of the two statements reports an error, committed or not.
adjustError(a) ==
    /\ \/ /\ adjust[a] = "new"
          /\ creditGrant(a) \/ UNCHANGED <<credits, applied>>
          /\ UNCHANGED audit
       \/ /\ adjust[a] = "audit"
          /\ audit' \in {audit, audit \cup {a}}
          /\ UNCHANGED <<credits, applied>>
    /\ adjust' = [adjust EXCEPT ![a] = "over"]
    /\ UNCHANGED <<recorded, plan, turn, delivery, exempt, byAdmin>>

adminSetPlanPost(t, state) ==
    /\ plan' = [plan EXCEPT ![t] = state]
    /\ byAdmin' = byAdmin \cup {t}
    /\ UNCHANGED <<credits, recorded, audit, requests, applied, exempt>>

-------------------------------------------------------------------------------

\* The process stops: requests end where they are, the tables stay.
crash ==
    /\ turn' = [p \in Turns |-> Idle]
    /\ delivery' = [d \in Deliveries |-> Idle]
    /\ adjust' = [a \in Adjustments |-> IF adjust[a] = "audit" THEN "over"
                                        ELSE adjust[a]]
    /\ UNCHANGED <<tables, ghosts>>

Turn(p) ==
    \/ \E t \in Tenants : creditsGuard(p, t) \/ creditsGuardBypassed(p, t)
    \/ chargeTurn(p)
    \/ endUncharged(p)

Webhook(d) ==
    \/ \E e \in Events : webhookStart(d, e)
    \/ recordEvent(d)
    \/ recordError(d)
    \/ creditEvent(d)
    \/ creditError(d)
    \/ setPlanState(d)

Admin ==
    \/ \E a \in Adjustments : adminCreditsPost(a) \/ writeAudit(a) \/ adjustError(a)
    \/ \E t \in Tenants, state \in Plans : adminSetPlanPost(t, state)

Next ==
    \/ \E t \in Tenants : grantFreeTierIfNew(t)
    \/ \E p \in Turns : Turn(p)
    \/ \E d \in Deliveries : Webhook(d)
    \/ Admin
    \/ crash

Spec == Init /\ [][Next]_vars

-------------------------------------------------------------------------------
(***************************************************************************)
(* Properties.                                                             *)
(***************************************************************************)

\* The turns of a tenant that are past the guard and not charged yet.
RunningTurns(t) == {p \in Turns : turn[p] = t}

Ledger == INSTANCE CreditLedger WITH
    MaxOpen <- Cardinality(Turns),
    open <- [t \in Tenants |-> Cardinality(RunningTurns(t))]

\* The SQL statements, deliveries and crashes above implement the ledger: no
\* redelivery, concurrent delivery or failure credits an event twice or the
\* wrong amount, nobody is granted the free tier into an existing account, and
\* only admitted turns are charged, once.
ImplementsLedger == Ledger!Spec

\* "Any balance <= 0 blocks the turn" is checked before turns that are charged
\* after them; the debt this leaves a tenant with is below the price of the
\* turns that can run at once.
DebtBounded ==
    \A t \in Tenants \ exempt : getBalance(t) > - (Cost * Cardinality(Turns))

\* What the other tables say of the balances is true, also after crashes and
\* rejected statements: an audit row's adjustment and the checkout behind a paid
\* plan have reached the balance.
ClaimedMeansApplied ==
    /\ audit \subseteq applied
    /\ \A t \in Tenants \ byAdmin : plan[t] = "paid" =>
          \E e \in applied \cap Events : Owner[e] = t /\ Kind[e] = "checkout"

\* The webhook story's promise, "credits are automatically available [...] without
\* any manual operator action": a payment answered as a duplicate is credited,
\* or another delivery is about to credit it.
AcknowledgedMeansCredited ==
    [][\A d \in Deliveries :
          LET e == delivery[d].event
          IN  /\ delivery[d] # Idle
              /\ delivery[d].next = "record"
              /\ Kind[e] \in {"checkout", "payment"}
              /\ e \in recorded
              /\ recordEvent(d)
              => \/ e \in applied
                 \/ [event |-> e, next |-> "credit"] \in
                        {delivery[c] : c \in Deliveries}]_vars
===============================================================================
