----------------------------- MODULE CreditLedger -----------------------------
(***************************************************************************)
(* What the credit accounts of the web UI promise, whatever requests,      *)
(* webhook deliveries and failures they are made of: each paid or granted  *)
(* amount is credited at most once, the free tier only opens an account,   *)
(* and a tenant is charged only for turns that were admitted, at most      *)
(* MaxOpen of them at a time and each while its balance was positive.      *)
(***************************************************************************)
EXTENDS Integers

CONSTANTS
    Tenants,
    Grants,    \* one-off credits: Stripe events and adjustments by an admin
    Owner,     \* the tenant of each grant
    Amount,    \* the credits of each grant
    Cost,      \* credits charged per turn
    FreeTier,  \* credits a new account opens with
    MaxOpen,   \* turns running at once
    NoRow      \* a tenant without an account

\* What the ledger assumes of its constants.
LedgerConstants ==
    /\ Owner \in [Grants -> Tenants]
    /\ Amount \in [Grants -> Nat]
    /\ Cost \in Nat \ {0}
    /\ FreeTier \in Nat
    /\ MaxOpen \in Nat \ {0}
    /\ NoRow \notin Int

VARIABLES
    credits,  \* the balance of each tenant that has an account
    applied,  \* grants credited
    open,     \* admitted turns not charged yet, per tenant
    exempt    \* tenants with a turn admitted whatever the balance

vars == <<credits, applied, open, exempt>>

BalanceOf(row) == IF row = NoRow THEN 0 ELSE row

TypeOK ==
    /\ credits \in [Tenants -> Int \cup {NoRow}]
    /\ applied \subseteq Grants
    /\ open \in [Tenants -> 0 .. MaxOpen]
    /\ exempt \subseteq Tenants

Init ==
    /\ credits = [t \in Tenants |-> NoRow]
    /\ applied = {}
    /\ open = [t \in Tenants |-> 0]
    /\ exempt = {}

OpenAccount(t) ==
    /\ credits[t] = NoRow
    /\ credits' = [credits EXCEPT ![t] = FreeTier]
    /\ UNCHANGED <<applied, open, exempt>>

Provision(g) ==
    /\ g \notin applied
    /\ applied' = applied \cup {g}
    /\ credits' = [credits EXCEPT ![Owner[g]] = BalanceOf(@) + Amount[g]]
    /\ UNCHANGED <<open, exempt>>

Admit(t) ==
    /\ BalanceOf(credits[t]) > 0
    /\ open[t] < MaxOpen
    /\ open' = [open EXCEPT ![t] = @ + 1]
    /\ UNCHANGED <<credits, applied, exempt>>

AdmitStaff(t) ==
    /\ open[t] < MaxOpen
    /\ open' = [open EXCEPT ![t] = @ + 1]
    /\ exempt' = exempt \cup {t}
    /\ UNCHANGED <<credits, applied>>

Charge(t) ==
    /\ open[t] > 0
    /\ open' = [open EXCEPT ![t] = @ - 1]
    /\ credits' = [credits EXCEPT ![t] = BalanceOf(@) - Cost]
    /\ UNCHANGED <<applied, exempt>>

\* Turns that end uncharged: one that failed, or all of them in a crash.
Release ==
    /\ open' \in [Tenants -> 0 .. MaxOpen]
    /\ \A t \in Tenants : open'[t] <= open[t]
    /\ UNCHANGED <<credits, applied, exempt>>

Next ==
    \/ \E t \in Tenants : OpenAccount(t) \/ Admit(t) \/ AdmitStaff(t) \/ Charge(t)
    \/ \E g \in Grants : Provision(g)
    \/ Release

Spec == Init /\ [][Next]_vars

\* Prepaid: whatever is running, the debt of a tenant without staff turns stays
\* below the price of MaxOpen turns.
DebtBounded ==
    \A t \in Tenants \ exempt : BalanceOf(credits[t]) > - (Cost * MaxOpen)
===============================================================================
