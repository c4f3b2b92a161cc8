---------------------------- MODULE CreditsProofs -----------------------------
(***************************************************************************)
(* Proofs about Credits, for any tenants, events, adjustments and prices,  *)
(* and any number of concurrent turns and deliveries.                      *)
(***************************************************************************)
EXTENDS Credits, FiniteSetTheorems, TLAPS

\* The statement a delivery executes next.
AtStep(d, next) == delivery[d] # Idle /\ delivery[d].next = next

\* Only a delivery whose insert added the event credits it, and only once.
CreditOnce ==
    \A d \in Deliveries : AtStep(d, "credit") =>
        /\ delivery[d].event \in recorded
        /\ delivery[d].event \notin applied
        /\ Kind[delivery[d].event] \in {"checkout", "payment"}
        /\ \A c \in Deliveries \ {d} :
              AtStep(c, "credit") => delivery[c].event # delivery[d].event

\* An event is recorded before it is credited.
RecordedFirst == applied \cap Events \subseteq recorded

\* A checkout is credited before its plan is written.
PlanLast ==
    \A d \in Deliveries : AtStep(d, "plan") =>
        /\ Kind[delivery[d].event] \in {"checkout", "failed", "deleted"}
        /\ Kind[delivery[d].event] = "checkout" => delivery[d].event \in applied

\* A top-up is credited between its validation and its audit row.
AdjustOnce ==
    \A a \in Adjustments :
        /\ adjust[a] = "new" => a \notin applied
        /\ adjust[a] = "audit" => a \in applied

IInv == /\ TypeOK
        /\ CreditOnce
        /\ RecordedFirst
        /\ PlanLast
        /\ AdjustOnce
        /\ ClaimedMeansApplied

(***************************************************************************)
(* Typing.                                                                 *)
(***************************************************************************)

\* Balances stay integers.
LEMMA BalanceType ==
    ASSUME TypeOK, NEW t \in Tenants, NEW delta \in Int, adjustBalance(t, delta)
    PROVE  /\ getBalance(t) \in Int
           /\ credits' \in [Tenants -> Int \cup {NoRow}]
  BY DEF TypeOK, getBalance, adjustBalance

\* Crediting a grant keeps the tables well typed.
LEMMA CreditGrantType ==
    ASSUME TypeOK, NEW g \in Grants, creditGrant(g)
    PROVE  /\ credits' \in [Tenants -> Int \cup {NoRow}]
           /\ applied' \subseteq Grants
<1>1. Owner[g] \in Tenants /\ Amount[g] \in Int
  BY GrantsAssumption
<1> QED
  BY <1>1, BalanceType DEF creditGrant, TypeOK

\* A delivery is idle or handles an event.
LEMMA HandledEvent ==
    ASSUME TypeOK, NEW d \in Deliveries, delivery[d] # Idle
    PROVE  /\ delivery[d] \in Handling
           /\ delivery[d].event \in Events
           /\ delivery[d].event \in Grants
  BY DEF TypeOK, Handling, Grants

\* What becomes of a delivery is well typed.
LEMMA DeliveryType ==
    ASSUME TypeOK, NEW d \in Deliveries, delivery[d] # Idle
    PROVE  /\ finish(d) => delivery' \in [Deliveries -> Handling \cup {Idle}]
           /\ \A next \in {"credit", "plan"} :
                 goOn(d, next) => delivery' \in [Deliveries -> Handling \cup {Idle}]
           /\ dispatch(d) => delivery' \in [Deliveries -> Handling \cup {Idle}]
<1>1. finish(d) => delivery' \in [Deliveries -> Handling \cup {Idle}]
  BY DEF TypeOK, finish
<1>2. ASSUME NEW next \in {"credit", "plan"}, goOn(d, next)
      PROVE  delivery' \in [Deliveries -> Handling \cup {Idle}]
  <2>1. [delivery[d] EXCEPT !.next = next] \in Handling
    BY HandledEvent DEF Handling
  <2> QED
    BY <1>2, <2>1 DEF TypeOK, goOn
<1> QED
  BY <1>1, <1>2 DEF dispatch

\* Credits is well typed at the start.
LEMMA TypeInit == Init => TypeOK
  BY DEF Init, TypeOK, Plans, Handling

\* ... and every step keeps it so.
LEMMA TypeStep == TypeOK /\ PlanLast /\ [Next]_vars => TypeOK'
<1> SUFFICES ASSUME TypeOK, PlanLast, [Next]_vars
             PROVE  TypeOK'
  OBVIOUS
<1> USE DEF requests, tables, ghosts
<1>1. ASSUME NEW t \in Tenants, grantFreeTierIfNew(t) PROVE TypeOK'
  BY <1>1, AmountsAssumption DEF grantFreeTierIfNew, TypeOK
<1>2. ASSUME NEW p \in Turns, NEW t \in Tenants, creditsGuard(p, t) PROVE TypeOK'
  BY <1>2 DEF creditsGuard, TypeOK
<1>3. ASSUME NEW p \in Turns, NEW t \in Tenants, creditsGuardBypassed(p, t) PROVE TypeOK'
  BY <1>3 DEF creditsGuardBypassed, TypeOK
<1>4. ASSUME NEW p \in Turns, chargeTurn(p) PROVE TypeOK'
  <2>1. turn[p] \in Tenants /\ - Cost \in Int
    BY <1>4, AmountsAssumption DEF chargeTurn, TypeOK
  <2>2. credits' \in [Tenants -> Int \cup {NoRow}]
    BY <1>4, <2>1, BalanceType DEF chargeTurn
  <2> QED
    BY <1>4, <2>2 DEF chargeTurn, TypeOK
<1>5. ASSUME NEW p \in Turns, endUncharged(p) PROVE TypeOK'
  BY <1>5 DEF endUncharged, TypeOK
<1>6. ASSUME NEW d \in Deliveries, NEW e \in Events, webhookStart(d, e) PROVE TypeOK'
  BY <1>6 DEF webhookStart, TypeOK, Handling
<1>7. ASSUME NEW d \in Deliveries, recordEvent(d) PROVE TypeOK'
  <2>1. delivery[d] # Idle
    BY <1>7 DEF recordEvent
  <2>2. delivery' \in [Deliveries -> Handling \cup {Idle}]
    BY <1>7, <2>1, DeliveryType DEF recordEvent
  <2>3. recorded' \subseteq Events
    BY <1>7, <2>1, HandledEvent DEF recordEvent, TypeOK
  <2> QED
    BY <1>7, <2>2, <2>3 DEF recordEvent, TypeOK
<1>8. ASSUME NEW d \in Deliveries, recordError(d) PROVE TypeOK'
  <2>1. delivery[d] # Idle
    BY <1>8 DEF recordError
  <2>2. delivery' \in [Deliveries -> Handling \cup {Idle}]
    BY <1>8, <2>1, DeliveryType DEF recordError
  <2>3. recorded' \subseteq Events
    BY <1>8, <2>1, HandledEvent DEF recordError, TypeOK
  <2> QED
    BY <1>8, <2>2, <2>3 DEF recordError, TypeOK
<1>9. ASSUME NEW d \in Deliveries, creditEvent(d) PROVE TypeOK'
  <2>1. delivery[d] # Idle
    BY <1>9 DEF creditEvent
  <2>2. delivery' \in [Deliveries -> Handling \cup {Idle}]
    BY <1>9, <2>1, DeliveryType DEF creditEvent
  <2>3. credits' \in [Tenants -> Int \cup {NoRow}] /\ applied' \subseteq Grants
    BY <1>9, <2>1, HandledEvent, CreditGrantType DEF creditEvent
  <2> QED
    BY <1>9, <2>2, <2>3 DEF creditEvent, TypeOK
<1>10. ASSUME NEW d \in Deliveries, creditError(d) PROVE TypeOK'
  <2>1. delivery[d] # Idle
    BY <1>10 DEF creditError
  <2>2. delivery' \in [Deliveries -> Handling \cup {Idle}]
    BY <1>10, <2>1, DeliveryType DEF creditError
  <2>3. credits' \in [Tenants -> Int \cup {NoRow}] /\ applied' \subseteq Grants
    BY <1>10, <2>1, HandledEvent, CreditGrantType DEF creditError, TypeOK
  <2> QED
    BY <1>10, <2>2, <2>3 DEF creditError, TypeOK
<1>11. ASSUME NEW d \in Deliveries, setPlanState(d) PROVE TypeOK'
  <2> DEFINE e == delivery[d].event
  <2>1. delivery[d] # Idle /\ AtStep(d, "plan")
    BY <1>11 DEF setPlanState, AtStep
  <2>2. delivery' \in [Deliveries -> Handling \cup {Idle}]
    BY <1>11, <2>1, DeliveryType DEF setPlanState
  <2>3. PlanAfter(Kind[e]) \in Plans
    BY <2>1 DEF PlanLast, PlanAfter, Plans
  <2>4. plan' \in [Tenants -> Plans]
    BY <1>11, <2>3 DEF setPlanState, TypeOK
  <2> QED
    BY <1>11, <2>2, <2>4 DEF setPlanState, TypeOK
<1>12. ASSUME NEW a \in Adjustments, adminCreditsPost(a) PROVE TypeOK'
  <2>1. credits' \in [Tenants -> Int \cup {NoRow}] /\ applied' \subseteq Grants
    BY <1>12, CreditGrantType DEF adminCreditsPost, Grants
  <2> QED
    BY <1>12, <2>1 DEF adminCreditsPost, TypeOK
<1>13. ASSUME NEW a \in Adjustments, writeAudit(a) PROVE TypeOK'
  BY <1>13 DEF writeAudit, TypeOK
<1>14. ASSUME NEW a \in Adjustments, adjustError(a) PROVE TypeOK'
  <2>1. creditGrant(a) =>
           credits' \in [Tenants -> Int \cup {NoRow}] /\ applied' \subseteq Grants
    BY CreditGrantType DEF Grants
  <2>2. credits' \in [Tenants -> Int \cup {NoRow}] /\ applied' \subseteq Grants
    BY <1>14, <2>1 DEF adjustError, TypeOK
  <2> QED
    BY <1>14, <2>2 DEF adjustError, TypeOK
<1>15. ASSUME NEW t \in Tenants, NEW state \in Plans, adminSetPlanPost(t, state) PROVE TypeOK'
  BY <1>15 DEF adminSetPlanPost, TypeOK
<1>16. CASE crash
  BY <1>16 DEF crash, TypeOK
<1>17. CASE UNCHANGED vars
  BY <1>17 DEF vars, TypeOK
<1> QED
  BY <1>1, <1>2, <1>3, <1>4, <1>5, <1>6, <1>7, <1>8, <1>9, <1>10, <1>11, <1>12,
     <1>13, <1>14, <1>15, <1>16, <1>17 DEF Next, Turn, Webhook, Admin

(***************************************************************************)
(* The inductive invariant.                                                *)
(***************************************************************************)

\* What a delivery's step leaves of the deliveries.
LEMMA DeliveryStep ==
    ASSUME TypeOK, NEW d \in Deliveries, delivery[d] # Idle
    PROVE  /\ finish(d) => /\ delivery'[d] = Idle
                           /\ \A c \in Deliveries \ {d} : delivery'[c] = delivery[c]
           /\ \A next \in {"credit", "plan"} : goOn(d, next) =>
                 /\ delivery'[d] # Idle
                 /\ delivery'[d].event = delivery[d].event
                 /\ delivery'[d].next = next
                 /\ \A c \in Deliveries \ {d} : delivery'[c] = delivery[c]
<1>1. finish(d) => /\ delivery'[d] = Idle
                   /\ \A c \in Deliveries \ {d} : delivery'[c] = delivery[c]
  BY DEF TypeOK, finish
<1>2. ASSUME NEW next \in {"credit", "plan"}, goOn(d, next)
      PROVE  /\ delivery'[d] # Idle
             /\ delivery'[d].event = delivery[d].event
             /\ delivery'[d].next = next
             /\ \A c \in Deliveries \ {d} : delivery'[c] = delivery[c]
  <2> DEFINE handled == [delivery[d] EXCEPT !.next = next]
  <2>1. delivery'[d] = handled /\ \A c \in Deliveries \ {d} : delivery'[c] = delivery[c]
    BY <1>2 DEF TypeOK, goOn
  <2>2. /\ handled \in Handling
        /\ handled.event = delivery[d].event
        /\ handled.next = next
    BY HandledEvent DEF Handling
  <2>3. Idle \notin Handling
    BY RequestsAssumption DEF Handling
  <2> QED
    BY <2>1, <2>2, <2>3
<1> QED
  BY <1>1, <1>2

Chain == CreditOnce /\ RecordedFirst /\ PlanLast

\* A step that stops deliveries, or starts one, and records or credits nothing.
LEMMA ChainKept ==
    ASSUME Chain, UNCHANGED <<recorded, applied>>,
           \A d \in Deliveries :
              AtStep(d, "credit")' \/ AtStep(d, "plan")' => delivery'[d] = delivery[d]
    PROVE  Chain'
  BY DEF Chain, CreditOnce, RecordedFirst, PlanLast, AtStep

\* An adjustment is no event, so crediting one concerns no delivery.
LEMMA ChainAdjusted ==
    ASSUME Chain, UNCHANGED <<recorded, delivery>>, NEW a \in Adjustments,
           TypeOK, applied' \in {applied, applied \cup {a}}
    PROVE  Chain'
<1>1. \A e \in Events : e \in applied' <=> e \in applied
  BY GrantsAssumption
<1>2. \A d \in Deliveries : delivery[d] # Idle => delivery[d].event \in Events
  BY HandledEvent
<1> QED
  BY <1>1, <1>2 DEF Chain, CreditOnce, RecordedFirst, PlanLast, AtStep

\* The insert: an event that was not recorded is neither credited nor about to be.
LEMMA ChainRecord ==
    ASSUME TypeOK, Chain, NEW d \in Deliveries, recordEvent(d)
    PROVE  Chain'
<1> DEFINE e == delivery[d].event
<1>1. /\ delivery[d] # Idle /\ e \in Events
      /\ recorded' = recorded \cup {e}
      /\ applied' = applied
  BY HandledEvent DEF recordEvent
<1>2. CASE finish(d)
  BY <1>1, <1>2, DeliveryStep DEF Chain, CreditOnce, RecordedFirst, PlanLast, AtStep
<1>3. ASSUME e \notin recorded, Kind[e] \in {"checkout", "payment"}, goOn(d, "credit")
      PROVE  Chain'
  <2>1. e \notin applied
    BY <1>1, <1>3 DEF Chain, RecordedFirst
  <2>2. \A c \in Deliveries \ {d} : AtStep(c, "credit") => delivery[c].event # e
    BY <1>3 DEF Chain, CreditOnce
  <2>3. /\ delivery'[d] # Idle /\ delivery'[d].event = e /\ delivery'[d].next = "credit"
        /\ \A c \in Deliveries \ {d} : delivery'[c] = delivery[c]
    BY <1>1, <1>3, DeliveryStep
  <2>4. CreditOnce'
    BY <1>1, <1>3, <2>1, <2>2, <2>3 DEF Chain, CreditOnce, AtStep
  <2>5. RecordedFirst' /\ PlanLast'
    BY <1>1, <2>3 DEF Chain, RecordedFirst, PlanLast, AtStep
  <2> QED
    BY <2>4, <2>5 DEF Chain
<1>4. ASSUME Kind[e] \in {"failed", "deleted"}, goOn(d, "plan")
      PROVE  Chain'
  <2>1. /\ delivery'[d] # Idle /\ delivery'[d].event = e /\ delivery'[d].next = "plan"
        /\ \A c \in Deliveries \ {d} : delivery'[c] = delivery[c]
    BY <1>1, <1>4, DeliveryStep
  <2> QED
    BY <1>1, <1>4, <2>1 DEF Chain, CreditOnce, RecordedFirst, PlanLast, AtStep
<1> QED
  BY <1>1, <1>2, <1>3, <1>4 DEF recordEvent, dispatch

\* The credit: it is the only delivery of its event that gets this far.
LEMMA ChainCredit ==
    ASSUME TypeOK, Chain, NEW d \in Deliveries, AtStep(d, "credit"),
           UNCHANGED recorded, applied' \in {applied, applied \cup {delivery[d].event}},
           \/ finish(d)
           \/ /\ Kind[delivery[d].event] = "checkout"
              /\ applied' = applied \cup {delivery[d].event}
              /\ goOn(d, "plan")
    PROVE  Chain'
<1> DEFINE e == delivery[d].event
<1>1. /\ delivery[d] # Idle /\ e \in Events /\ e \in recorded
      /\ \A c \in Deliveries \ {d} : AtStep(c, "credit") => delivery[c].event # e
  BY HandledEvent DEF AtStep, Chain, CreditOnce
<1>2. /\ \A c \in Deliveries \ {d} : delivery'[c] = delivery[c]
      /\ ~ AtStep(d, "credit")'
      /\ AtStep(d, "plan")' => /\ delivery'[d].event = e
                               /\ Kind[e] = "checkout" /\ e \in applied'
  BY <1>1, DeliveryStep DEF AtStep
<1>3. CreditOnce'
  BY <1>1, <1>2 DEF Chain, CreditOnce, AtStep
<1>4. RecordedFirst'
  BY <1>1 DEF Chain, RecordedFirst
<1>5. PlanLast'
  BY <1>2 DEF Chain, PlanLast, AtStep
<1> QED
  BY <1>3, <1>4, <1>5 DEF Chain

\* Credits of grants only ever come true.
LEMMA ClaimsKept ==
    ASSUME ClaimedMeansApplied, applied \subseteq applied', audit' = audit,
           plan' = plan, byAdmin' = byAdmin
    PROVE  ClaimedMeansApplied'
  BY DEF ClaimedMeansApplied

\* The strengthened invariant holds at the start.
LEMMA InvInit == Init => IInv
<1> SUFFICES ASSUME Init PROVE IInv
  OBVIOUS
<1>1. TypeOK
  BY TypeInit
<1>2. CreditOnce /\ RecordedFirst /\ PlanLast
  BY DEF Init, CreditOnce, RecordedFirst, PlanLast, AtStep
<1>3. AdjustOnce /\ ClaimedMeansApplied
  BY DEF Init, AdjustOnce, ClaimedMeansApplied
<1> QED
  BY <1>1, <1>2, <1>3 DEF IInv

\* ... and is kept by every step.
LEMMA InvStep == IInv /\ [Next]_vars => IInv'
<1> SUFFICES ASSUME IInv, [Next]_vars
             PROVE  Chain' /\ AdjustOnce' /\ ClaimedMeansApplied'
  BY TypeStep DEF IInv, Chain
<1> USE DEF requests, tables, ghosts
<1>1. TypeOK /\ Chain /\ AdjustOnce /\ ClaimedMeansApplied
  BY DEF IInv, Chain
<1>2. ASSUME UNCHANGED <<recorded, plan, audit, delivery, adjust, applied, byAdmin>>
      PROVE  Chain' /\ AdjustOnce' /\ ClaimedMeansApplied'
  BY <1>1, <1>2 DEF Chain, CreditOnce, RecordedFirst, PlanLast, AtStep, AdjustOnce,
                    ClaimedMeansApplied
<1>3. ASSUME NEW t \in Tenants, grantFreeTierIfNew(t)
      PROVE  UNCHANGED <<recorded, plan, audit, delivery, adjust, applied, byAdmin>>
  BY <1>3 DEF grantFreeTierIfNew
<1>4. ASSUME NEW p \in Turns, Turn(p)
      PROVE  UNCHANGED <<recorded, plan, audit, delivery, adjust, applied, byAdmin>>
  BY <1>4 DEF Turn, creditsGuard, creditsGuardBypassed, chargeTurn, endUncharged
<1>5. ASSUME NEW d \in Deliveries, Webhook(d)
      PROVE  Chain' /\ AdjustOnce' /\ ClaimedMeansApplied'
  <2> DEFINE e == delivery[d].event
  <2>1. AdjustOnce'
    <3>1. adjust' = adjust /\ (delivery[d] # Idle => e \in Events)
      BY <1>1, <1>5, HandledEvent
         DEF Webhook, webhookStart, recordEvent, recordError, creditEvent,
             creditError, setPlanState
    <3>2. applied' = applied \/ (delivery[d] # Idle /\ applied' = applied \cup {e})
      BY <1>5 DEF Webhook, webhookStart, recordEvent, recordError, creditEvent,
                  creditError, setPlanState, creditGrant
    <3>3. \A a \in Adjustments : a \in applied' <=> a \in applied
      BY <3>1, <3>2, GrantsAssumption
    <3> QED
      BY <1>1, <3>1, <3>3 DEF AdjustOnce
  <2>2. ASSUME NEW f \in Events, webhookStart(d, f)
        PROVE  Chain' /\ ClaimedMeansApplied'
    <3>1. /\ delivery'[d].next = "record"
          /\ \A c \in Deliveries \ {d} : delivery'[c] = delivery[c]
      BY <1>1, <2>2 DEF webhookStart, TypeOK
    <3>2. Chain'
      BY <1>1, <2>2, <3>1, ChainKept DEF webhookStart, AtStep
    <3> QED
      BY <1>1, <2>2, <3>2, ClaimsKept DEF webhookStart
  <2>3. CASE recordEvent(d)
    BY <1>1, <2>1, <2>3, ChainRecord, ClaimsKept DEF recordEvent
  <2>4. CASE recordError(d)
    <3>1. /\ delivery'[d] = Idle
          /\ \A c \in Deliveries \ {d} : delivery'[c] = delivery[c]
          /\ recorded \subseteq recorded' /\ applied' = applied
      BY <1>1, <2>4, DeliveryStep DEF recordError
    <3>2. Chain'
      BY <1>1, <3>1 DEF Chain, CreditOnce, RecordedFirst, PlanLast, AtStep
    <3> QED
      BY <1>1, <2>1, <2>4, <3>2, ClaimsKept DEF recordError
  <2>5. CASE creditEvent(d)
    <3>1. AtStep(d, "credit") /\ applied' = applied \cup {e} /\ UNCHANGED recorded
      BY <2>5 DEF creditEvent, creditGrant, AtStep
    <3>2. finish(d) \/ (Kind[e] = "checkout" /\ goOn(d, "plan"))
      BY <2>5 DEF creditEvent
    <3>3. Chain'
      BY <1>1, <3>1, <3>2, ChainCredit
    <3> QED
      BY <1>1, <2>1, <2>5, <3>1, <3>3, ClaimsKept DEF creditEvent
  <2>6. CASE creditError(d)
    <3>1. /\ AtStep(d, "credit") /\ applied' \in {applied, applied \cup {e}}
          /\ UNCHANGED recorded /\ finish(d)
      BY <2>6 DEF creditError, creditGrant, AtStep
    <3>2. Chain'
      BY <1>1, <3>1, ChainCredit
    <3> QED
      BY <1>1, <2>1, <2>6, <3>1, <3>2, ClaimsKept DEF creditError
  <2>7. CASE setPlanState(d)
    <3>1. /\ AtStep(d, "plan") /\ finish(d) /\ delivery[d] # Idle
          /\ UNCHANGED <<recorded, applied, audit, byAdmin>>
          /\ plan' \in {plan, [plan EXCEPT ![Owner[e]] = PlanAfter(Kind[e])]}
      BY <2>7 DEF setPlanState, AtStep
    <3>2. Chain'
      BY <1>1, <3>1, DeliveryStep, ChainKept DEF AtStep
    <3>3. /\ Kind[e] \in {"checkout", "failed", "deleted"}
          /\ Kind[e] = "checkout" => e \in applied
          /\ e \in Events
      BY <1>1, <3>1, HandledEvent DEF Chain, PlanLast
    <3>4. ASSUME NEW t \in Tenants \ byAdmin', plan'[t] = "paid"
          PROVE  \E f \in applied' \cap Events : Owner[f] = t /\ Kind[f] = "checkout"
      <4>1. CASE plan'[t] = plan[t]
        BY <1>1, <3>1, <3>4, <4>1 DEF ClaimedMeansApplied
      <4>2. CASE plan'[t] # plan[t]
        <5>1. t = Owner[e] /\ PlanAfter(Kind[e]) = "paid"
          BY <1>1, <3>1, <3>4, <4>2 DEF TypeOK
        <5>2. Kind[e] = "checkout"
          BY <3>3, <5>1 DEF PlanAfter
        <5> QED
          BY <3>1, <3>3, <5>1, <5>2
      <4> QED
        BY <4>1, <4>2
    <3>5. ClaimedMeansApplied'
      BY <1>1, <3>1, <3>4 DEF ClaimedMeansApplied
    <3> QED
      BY <2>1, <3>2, <3>5
  <2> QED
    BY <1>5, <2>1, <2>2, <2>3, <2>4, <2>5, <2>6, <2>7 DEF Webhook
<1>6. ASSUME NEW a \in Adjustments, adminCreditsPost(a)
      PROVE  Chain' /\ AdjustOnce' /\ ClaimedMeansApplied'
  <2>1. applied' = applied \cup {a} /\ UNCHANGED <<recorded, delivery>>
    BY <1>6 DEF adminCreditsPost, creditGrant
  <2>2. Chain'
    BY <1>1, <2>1, ChainAdjusted
  <2>3. AdjustOnce'
    BY <1>1, <1>6, <2>1 DEF adminCreditsPost, AdjustOnce, TypeOK
  <2> QED
    BY <1>1, <1>6, <2>1, <2>2, <2>3, ClaimsKept DEF adminCreditsPost
<1>7. ASSUME NEW a \in Adjustments, writeAudit(a)
      PROVE  Chain' /\ AdjustOnce' /\ ClaimedMeansApplied'
  <2>1. UNCHANGED <<recorded, delivery, applied, plan, byAdmin>>
    BY <1>7 DEF writeAudit
  <2>2. Chain'
    BY <1>1, <2>1, ChainAdjusted
  <2>3. AdjustOnce'
    BY <1>1, <1>7, <2>1 DEF writeAudit, AdjustOnce, TypeOK
  <2>4. a \in applied
    BY <1>1, <1>7 DEF writeAudit, AdjustOnce
  <2>5. ClaimedMeansApplied'
    BY <1>1, <1>7, <2>1, <2>4 DEF writeAudit, ClaimedMeansApplied
  <2> QED
    BY <2>2, <2>3, <2>5
<1>8. ASSUME NEW a \in Adjustments, adjustError(a)
      PROVE  Chain' /\ AdjustOnce' /\ ClaimedMeansApplied'
  <2>1. /\ applied' \in {applied, applied \cup {a}}
        /\ UNCHANGED <<recorded, delivery, plan, byAdmin>>
        /\ audit' = audit \/ (a \in applied /\ audit' = audit \cup {a})
        /\ adjust' = [adjust EXCEPT ![a] = "over"]
    BY <1>1, <1>8 DEF adjustError, creditGrant, AdjustOnce
  <2>2. Chain'
    BY <1>1, <2>1, ChainAdjusted
  <2>3. AdjustOnce'
    BY <1>1, <2>1 DEF AdjustOnce, TypeOK
  <2>4. ClaimedMeansApplied'
    BY <1>1, <2>1 DEF ClaimedMeansApplied
  <2> QED
    BY <2>2, <2>3, <2>4
<1>9. ASSUME NEW t \in Tenants, NEW state \in Plans, adminSetPlanPost(t, state)
      PROVE  Chain' /\ AdjustOnce' /\ ClaimedMeansApplied'
  <2>1. Chain' /\ AdjustOnce'
    BY <1>1, <1>9 DEF adminSetPlanPost, Chain, CreditOnce, RecordedFirst, PlanLast,
                      AtStep, AdjustOnce
  <2>2. ClaimedMeansApplied'
    BY <1>1, <1>9 DEF adminSetPlanPost, ClaimedMeansApplied, TypeOK
  <2> QED
    BY <2>1, <2>2
<1>10. CASE crash
  <2>1. Chain'
    BY <1>1, <1>10, ChainKept DEF crash, AtStep
  <2>2. AdjustOnce'
    BY <1>1, <1>10 DEF crash, AdjustOnce, TypeOK
  <2> QED
    BY <1>1, <1>10, <2>1, <2>2, ClaimsKept DEF crash
<1>11. CASE UNCHANGED vars
  BY <1>2, <1>11 DEF vars
<1> QED
  BY <1>2, <1>3, <1>4, <1>5, <1>6, <1>7, <1>8, <1>9, <1>10, <1>11 DEF Next, Admin

\* The strengthened invariant of credits and billing: whichever deliveries,
\* turns, top-ups, failures and crashes interleave, an event is credited only by
\* the delivery that recorded it, and before its plan is written.
THEOREM CreditsInvariant == Spec => []IInv
  BY InvInit, InvStep, PTL DEF Spec

\* Every table, request and delivery keeps its type.
THEOREM CreditsTypeCorrect == Spec => []TypeOK
<1>1. IInv => TypeOK
  BY DEF IInv
<1> QED
  BY <1>1, CreditsInvariant, PTL

\* An audit row's adjustment and a paid plan's checkout have reached the balance.
THEOREM ClaimsAreTrue == Spec => []ClaimedMeansApplied
<1>1. IInv => ClaimedMeansApplied
  BY DEF IInv
<1> QED
  BY <1>1, CreditsInvariant, PTL

(***************************************************************************)
(* The refinement of the ledger.                                           *)
(***************************************************************************)

Running == [t \in Tenants |-> Cardinality(RunningTurns(t))]

\* The running turns of a tenant are some of the turns.
LEMMA RunningCount ==
    ASSUME NEW t
    PROVE  /\ IsFiniteSet(RunningTurns(t))
           /\ Cardinality(RunningTurns(t)) \in Nat
           /\ Cardinality(Turns) \in Nat
           /\ Cardinality(RunningTurns(t)) <= Cardinality(Turns)
<1>1. RunningTurns(t) \in SUBSET Turns
  BY DEF RunningTurns
<1>2. IsFiniteSet(Turns)
  BY RequestsAssumption
<1>3. /\ IsFiniteSet(RunningTurns(t))
      /\ Cardinality(RunningTurns(t)) <= Cardinality(Turns)
  BY <1>1, <1>2, FS_Subset
<1> QED
  BY <1>2, <1>3, FS_CardinalityType

\* Nothing is running for anybody when no turn changes.
LEMMA RunningSame == ASSUME turn' = turn PROVE Running' = Running
  BY DEF Running, RunningTurns

\* A turn that passes the guard is one more for its tenant, and there was room.
LEMMA RunningAdmit ==
    ASSUME TypeOK, NEW p \in Turns, NEW t \in Tenants,
           turn[p] = Idle, turn' = [turn EXCEPT ![p] = t]
    PROVE  /\ Running' = [Running EXCEPT ![t] = @ + 1]
           /\ Running[t] < Cardinality(Turns)
<1>1. RunningTurns(t)' = RunningTurns(t) \cup {p} /\ p \notin RunningTurns(t)
  BY RequestsAssumption DEF TypeOK, RunningTurns
<1>2. \A s \in Tenants \ {t} : RunningTurns(s)' = RunningTurns(s)
  BY RequestsAssumption DEF TypeOK, RunningTurns
<1>3. Cardinality(RunningTurns(t) \cup {p}) = Cardinality(RunningTurns(t)) + 1
  BY <1>1, RunningCount, FS_AddElement
<1>4. Running' = [Running EXCEPT ![t] = @ + 1]
  BY <1>1, <1>2, <1>3 DEF Running
<1>5. Cardinality(RunningTurns(t)) + 1 <= Cardinality(Turns)
  <2>1. RunningTurns(t) \cup {p} \in SUBSET Turns
    BY DEF RunningTurns
  <2> QED
    BY <1>3, <2>1, RequestsAssumption, FS_Subset
<1>6. Running[t] < Cardinality(Turns)
  BY <1>5, RunningCount DEF Running
<1> QED
  BY <1>4, <1>6

\* A turn that ends is one less for its tenant.
LEMMA RunningEnd ==
    ASSUME TypeOK, NEW p \in Turns, turn[p] # Idle,
           turn' = [turn EXCEPT ![p] = Idle]
    PROVE  /\ turn[p] \in Tenants
           /\ Running' = [Running EXCEPT ![turn[p]] = @ - 1]
           /\ Running[turn[p]] > 0
<1>1. PICK t \in Tenants : t = turn[p]
  BY DEF TypeOK
<1>2. RunningTurns(t)' = RunningTurns(t) \ {p} /\ p \in RunningTurns(t)
  BY <1>1, RequestsAssumption DEF TypeOK, RunningTurns
<1>3. \A s \in Tenants \ {t} : RunningTurns(s)' = RunningTurns(s)
  BY <1>1, RequestsAssumption DEF TypeOK, RunningTurns
<1>4. Cardinality(RunningTurns(t) \ {p}) = Cardinality(RunningTurns(t)) - 1
  BY <1>2, RunningCount, FS_RemoveElement
<1>5. Running' = [Running EXCEPT ![t] = @ - 1]
  BY <1>1, <1>2, <1>3, <1>4 DEF Running
<1>6. Cardinality(RunningTurns(t)) # 0
  BY <1>2, RunningCount, FS_EmptySet
<1>7. Running[t] > 0
  BY <1>1, <1>6, RunningCount DEF Running
<1> QED
  BY <1>1, <1>5, <1>7

\* Fewer turns running: what a crash leaves.
LEMMA RunningCrash ==
    ASSUME turn' = [p \in Turns |-> Idle]
    PROVE  /\ Running' \in [Tenants -> 0 .. Cardinality(Turns)]
           /\ \A t \in Tenants : Running'[t] <= Running[t]
<1>1. \A t \in Tenants : RunningTurns(t)' = {}
  BY RequestsAssumption DEF RunningTurns
<1>2. \A t \in Tenants : Running'[t] = 0
  BY <1>1, FS_EmptySet DEF Running
<1> QED
  BY <1>2, RunningCount DEF Running

\* The start of credits and billing is the start of the ledger.
LEMMA LedgerInit == Init => Ledger!Init
<1> SUFFICES ASSUME Init PROVE Ledger!Init
  OBVIOUS
<1>1. \A t \in Tenants : RunningTurns(t) = {}
  BY RequestsAssumption DEF Init, RunningTurns
<1> QED
  BY <1>1, FS_EmptySet DEF Init, Ledger!Init

\* An upsert of the credits table is the ledger's credit of the grant.
LEMMA GrantProvisions ==
    ASSUME NEW g \in Grants, g \notin applied, creditGrant(g),
           turn' = turn, exempt' = exempt
    PROVE  Ledger!Provision(g)
  BY RunningSame
     DEF creditGrant, adjustBalance, getBalance, Ledger!Provision, Ledger!BalanceOf,
         Running

\* Each step is a step of the ledger or leaves it alone.
LEMMA LedgerStep == IInv /\ [Next]_vars => [Ledger!Next]_(Ledger!vars)
<1> SUFFICES ASSUME IInv, [Next]_vars
             PROVE  Ledger!Next \/ UNCHANGED Ledger!vars
  OBVIOUS
<1> USE DEF requests, tables, ghosts
<1>1. TypeOK /\ CreditOnce /\ AdjustOnce
  BY DEF IInv
<1>2. ASSUME UNCHANGED <<credits, applied, turn, exempt>>
      PROVE  UNCHANGED Ledger!vars
  BY <1>2, RunningSame DEF Running, Ledger!vars
<1>3. ASSUME NEW t \in Tenants, grantFreeTierIfNew(t) PROVE Ledger!OpenAccount(t)
  BY <1>3, RunningSame DEF Running, grantFreeTierIfNew, Ledger!OpenAccount
<1>4. ASSUME NEW p \in Turns, NEW t \in Tenants, creditsGuard(p, t) PROVE Ledger!Admit(t)
  BY <1>1, <1>4, RunningAdmit
     DEF creditsGuard, getBalance, Running, Ledger!Admit, Ledger!BalanceOf
<1>5. ASSUME NEW p \in Turns, NEW t \in Tenants, creditsGuardBypassed(p, t)
      PROVE  Ledger!AdmitStaff(t)
  BY <1>1, <1>5, RunningAdmit DEF creditsGuardBypassed, Running, Ledger!AdmitStaff
<1>6. ASSUME NEW p \in Turns, chargeTurn(p)
      PROVE  Ledger!Charge(turn[p]) /\ turn[p] \in Tenants
  BY <1>1, <1>6, RunningEnd, AmountsAssumption
     DEF chargeTurn, adjustBalance, getBalance, TypeOK, Running, Ledger!Charge,
         Ledger!BalanceOf
<1>7. ASSUME NEW p \in Turns, endUncharged(p) PROVE Ledger!Release
  <2>1. /\ turn[p] \in Tenants
        /\ Running' = [Running EXCEPT ![turn[p]] = @ - 1]
        /\ Running[turn[p]] > 0
    BY <1>1, <1>7, RunningEnd DEF endUncharged
  <2>2. \A t \in Tenants : Running[t] \in 0 .. Cardinality(Turns)
    BY RunningCount DEF Running
  <2>3. \A t \in Tenants : Running'[t] \in 0 .. Cardinality(Turns) /\ Running'[t] <= Running[t]
    BY <2>1, <2>2, RunningCount DEF Running
  <2>4. Running' \in [Tenants -> 0 .. Cardinality(Turns)]
    BY <2>3 DEF Running
  <2> QED
    BY <1>7, <2>3, <2>4 DEF endUncharged, Running, Ledger!Release
<1>8. ASSUME NEW d \in Deliveries, creditEvent(d) \/ creditError(d), applied' # applied
      PROVE  Ledger!Provision(delivery[d].event) /\ delivery[d].event \in Grants
  <2> DEFINE e == delivery[d].event
  <2>1. AtStep(d, "credit") /\ creditGrant(e) /\ turn' = turn /\ exempt' = exempt
    BY <1>8 DEF creditEvent, creditError, AtStep
  <2>2. e \in Grants /\ e \notin applied
    BY <1>1, <2>1, HandledEvent DEF AtStep, CreditOnce
  <2> QED
    BY <2>1, <2>2, GrantProvisions
<1>9. ASSUME NEW d \in Deliveries, Webhook(d)
      PROVE  Ledger!Next \/ UNCHANGED Ledger!vars
  <2>1. CASE applied' # applied /\ (creditEvent(d) \/ creditError(d))
    BY <1>8, <2>1 DEF Ledger!Next, Grants
  <2>2. CASE creditEvent(d) /\ applied' = applied
    <3>1. AtStep(d, "credit") /\ applied' = applied \cup {delivery[d].event}
      BY <2>2 DEF creditEvent, creditGrant, AtStep
    <3> QED
      BY <1>1, <2>2, <3>1 DEF CreditOnce
  <2>3. CASE creditError(d) /\ applied' = applied
    <3>1. AtStep(d, "credit") /\ ~ creditGrant(delivery[d].event)
      BY <1>1, <2>3 DEF creditError, creditGrant, AtStep, CreditOnce
    <3> QED
      BY <1>2, <2>3, <3>1 DEF creditError
  <2>4. CASE \/ \E e \in Events : webhookStart(d, e)
             \/ recordEvent(d) \/ recordError(d) \/ setPlanState(d)
    BY <1>2, <2>4 DEF webhookStart, recordEvent, recordError, setPlanState
  <2> QED
    BY <1>9, <2>1, <2>2, <2>3, <2>4 DEF Webhook
<1>10. ASSUME NEW a \in Adjustments, adjust[a] = "new", creditGrant(a),
              turn' = turn, exempt' = exempt
       PROVE  Ledger!Next
  <2>1. a \in Grants /\ a \notin applied
    BY <1>1, <1>10 DEF AdjustOnce, Grants
  <2> QED
    BY <1>10, <2>1, GrantProvisions DEF Ledger!Next, Grants
<1>11. ASSUME NEW a \in Adjustments, adminCreditsPost(a) PROVE Ledger!Next
  BY <1>10, <1>11 DEF adminCreditsPost
<1>12. ASSUME NEW a \in Adjustments, writeAudit(a) PROVE UNCHANGED Ledger!vars
  BY <1>2, <1>12 DEF writeAudit
<1>13. ASSUME NEW a \in Adjustments, adjustError(a)
       PROVE  Ledger!Next \/ UNCHANGED Ledger!vars
  BY <1>2, <1>10, <1>13 DEF adjustError
<1>14. ASSUME NEW t \in Tenants, NEW state \in Plans, adminSetPlanPost(t, state)
       PROVE  UNCHANGED Ledger!vars
  BY <1>2, <1>14 DEF adminSetPlanPost
<1>15. CASE crash
  <2>1. Ledger!Release
    BY <1>15, RunningCrash DEF crash, Running, Ledger!Release
  <2> QED
    BY <2>1 DEF Ledger!Next
<1>16. CASE UNCHANGED vars
  BY <1>2, <1>16 DEF vars
<1> QED
  BY <1>3, <1>4, <1>5, <1>6, <1>7, <1>9, <1>11, <1>12, <1>13, <1>14, <1>15, <1>16
     DEF Next, Turn, Admin, Ledger!Next

\* The statements, deliveries, failures and crashes of credits and billing
\* implement the ledger: each grant is credited at most once and exactly, the
\* free tier opens accounts only, admitted turns are charged at most once.
THEOREM CreditsImplementLedger == Spec => ImplementsLedger
  BY CreditsInvariant, LedgerInit, LedgerStep, PTL DEF Spec, ImplementsLedger, Ledger!Spec

(***************************************************************************)
(* The debt bound, of the ledger: it follows from what the ledger promises *)
(* alone.  The bound is not inductive; what is left of a balance once      *)
(* every running turn has been charged is.                                 *)
(***************************************************************************)

MaxOpen == Cardinality(Turns)

\* A balance is either covered down to its running turns, or was positive when
\* the last of at most MaxOpen turns was admitted.
Covered ==
    \A t \in Tenants \ exempt :
        LET rest == getBalance(t) - Cost * Running[t]
        IN  rest >= 0 \/ rest >= 1 - Cost * MaxOpen

\* The ledger's assumptions hold of the constants of credits and billing.
LEMMA LedgerConstantsHold == Ledger!LedgerConstants
<1>1. Cardinality(Turns) \in Nat \ {0}
  BY RequestsAssumption, FS_CardinalityType, FS_EmptySet
<1> QED
  BY <1>1, GrantsAssumption, AmountsAssumption DEF Ledger!LedgerConstants

\* ... and what the arithmetic below needs of them.
LEMMA LedgerNumbers ==
    /\ Cost \in Nat \ {0} /\ MaxOpen \in Nat \ {0}
    /\ Running \in [Tenants -> 0 .. MaxOpen]
    /\ Running' \in [Tenants -> 0 .. MaxOpen]
<1>1. MaxOpen \in Nat \ {0}
  BY RequestsAssumption, FS_CardinalityType, FS_EmptySet DEF MaxOpen
<1>2. ASSUME NEW t \in Tenants
      PROVE  Cardinality(RunningTurns(t)') \in 0 .. Cardinality(Turns)
  <2>1. RunningTurns(t)' \in SUBSET Turns
    BY DEF RunningTurns
  <2> QED
    BY <2>1, RequestsAssumption, FS_Subset, FS_CardinalityType
<1> QED
  BY <1>1, <1>2, RunningCount, AmountsAssumption DEF Running, MaxOpen

\* The price of n turns grows with n.
LEMMA PriceGrows ==
    ASSUME NEW m \in Nat, NEW n \in Nat, m <= n
    PROVE  /\ Cost * m \in Nat
           /\ Cost * m <= Cost * n
           /\ Cost * (m + 1) = Cost * m + Cost
<1>1. Cost \in Nat /\ Cost > 0
  BY LedgerNumbers
<1>2. Cost * m \in Nat /\ Cost * (m + 1) = Cost * m + Cost
  BY <1>1, SMT
<1>3. PICK k \in Nat : n = m + k
  <2>1. n - m \in Nat /\ n = m + (n - m)
    BY SMT
  <2> QED
    BY <2>1
<1>4. Cost * n = Cost * m + Cost * k /\ Cost * k \in Nat
  BY <1>1, <1>3, SMT
<1> QED
  BY <1>1, <1>2, <1>4, SMT

\* A ledger's state is well typed: the accounts, the grants and, since turns are
\* counted, the running turns.
LEMMA LedgerTypes ==
    Ledger!TypeOK <=> /\ credits \in [Tenants -> Int \cup {NoRow}]
                      /\ applied \subseteq Grants
                      /\ exempt \subseteq Tenants
  BY RunningCount DEF Ledger!TypeOK

\* What each action of the ledger does to a balance and to its running turns.
LEMMA LedgerShapes ==
    ASSUME Ledger!TypeOK, [Ledger!Next]_(Ledger!vars), NEW s \in Tenants
    PROVE  /\ exempt \subseteq exempt'
           /\ getBalance(s) \in Int /\ getBalance(s)' \in Int
           /\ \/ getBalance(s)' >= getBalance(s) /\ Running'[s] <= Running[s]
              \/ /\ getBalance(s) > 0 /\ getBalance(s)' = getBalance(s)
                 /\ Running[s] < MaxOpen /\ Running'[s] = Running[s] + 1
              \/ /\ getBalance(s)' = getBalance(s) - Cost
                 /\ Running[s] > 0 /\ Running'[s] = Running[s] - 1
              \/ s \in exempt'
<1> DEFINE b == getBalance(s)
           Less == getBalance(s)' >= b /\ Running'[s] <= Running[s]
<1>1. /\ credits \in [Tenants -> Int \cup {NoRow}] /\ NoRow \notin Int
      /\ b \in Int /\ Cost \in Nat /\ FreeTier \in Nat
      /\ Running \in [Tenants -> Nat]
  <2>1. Running \in [Tenants -> Nat] /\ Cost \in Nat
    BY LedgerNumbers
  <2> QED
    BY <2>1, LedgerTypes, AmountsAssumption DEF getBalance
<1>2. ASSUME NEW t \in Tenants, Ledger!OpenAccount(t)
      PROVE  exempt' = exempt /\ getBalance(s)' \in Int /\ Less
  <2>1. exempt' = exempt /\ Running' = Running
        /\ credits[t] = NoRow /\ credits' = [credits EXCEPT ![t] = FreeTier]
    BY <1>2 DEF Ledger!OpenAccount, Running
  <2> QED
    BY <1>1, <2>1 DEF getBalance
<1>3. ASSUME NEW g \in Grants, Ledger!Provision(g)
      PROVE  exempt' = exempt /\ getBalance(s)' \in Int /\ Less
  <2>1. /\ exempt' = exempt /\ Running' = Running
        /\ credits' = [credits EXCEPT ![Owner[g]] = getBalance(Owner[g]) + Amount[g]]
        /\ Owner[g] \in Tenants /\ Amount[g] \in Nat
    BY <1>3, GrantsAssumption DEF Ledger!Provision, Ledger!BalanceOf, Running, getBalance
  <2> QED
    BY <1>1, <2>1 DEF getBalance
<1>4. ASSUME NEW t \in Tenants, Ledger!Admit(t)
      PROVE  /\ exempt' = exempt /\ getBalance(s)' \in Int
             /\ \/ Less
                \/ /\ b > 0 /\ getBalance(s)' = b
                   /\ Running[s] < MaxOpen /\ Running'[s] = Running[s] + 1
  <2>1. /\ exempt' = exempt /\ credits' = credits
        /\ getBalance(t) > 0 /\ Running[t] < MaxOpen
        /\ Running' = [Running EXCEPT ![t] = @ + 1]
    BY <1>4 DEF Ledger!Admit, Ledger!BalanceOf, Running, getBalance, MaxOpen
  <2> QED
    BY <1>1, <2>1 DEF getBalance
<1>5. ASSUME NEW t \in Tenants, Ledger!AdmitStaff(t)
      PROVE  exempt' = exempt \cup {t} /\ getBalance(s)' \in Int /\ (Less \/ s \in exempt')
  <2>1. /\ exempt' = exempt \cup {t} /\ credits' = credits
        /\ Running' = [Running EXCEPT ![t] = @ + 1]
    BY <1>5 DEF Ledger!AdmitStaff, Running
  <2> QED
    BY <1>1, <2>1 DEF getBalance
<1>6. ASSUME NEW t \in Tenants, Ledger!Charge(t)
      PROVE  /\ exempt' = exempt /\ getBalance(s)' \in Int
             /\ \/ Less
                \/ /\ getBalance(s)' = b - Cost
                   /\ Running[s] > 0 /\ Running'[s] = Running[s] - 1
  <2>1. /\ exempt' = exempt /\ Running[t] > 0
        /\ credits' = [credits EXCEPT ![t] = getBalance(t) - Cost]
        /\ Running' = [Running EXCEPT ![t] = @ - 1]
    BY <1>6 DEF Ledger!Charge, Ledger!BalanceOf, Running, getBalance
  <2> QED
    BY <1>1, <2>1 DEF getBalance
<1>7. CASE Ledger!Release
  <2>1. exempt' = exempt /\ credits' = credits /\ Running'[s] <= Running[s]
    BY <1>7 DEF Ledger!Release, Running
  <2> QED
    BY <1>1, <2>1 DEF getBalance
<1>8. CASE UNCHANGED Ledger!vars
  <2>1. exempt' = exempt /\ credits' = credits /\ Running' = Running
    BY <1>8 DEF Ledger!vars, Running
  <2> QED
    BY <1>1, <2>1 DEF getBalance
<1> HIDE DEF b, Less
<1> QED
  BY <1>1, <1>2, <1>3, <1>4, <1>5, <1>6, <1>7, <1>8 DEF Ledger!Next, b, Less

\* The ledger is well typed.
THEOREM LedgerTypeCorrect == Ledger!Spec => []Ledger!TypeOK
<1>1. Ledger!Init => Ledger!TypeOK
  BY LedgerTypes DEF Ledger!Init
<1>2. Ledger!TypeOK /\ [Ledger!Next]_(Ledger!vars) => Ledger!TypeOK'
  <2> SUFFICES ASSUME Ledger!TypeOK, [Ledger!Next]_(Ledger!vars)
               PROVE  Ledger!TypeOK'
    OBVIOUS
  <2>1. /\ credits \in [Tenants -> Int \cup {NoRow}]
        /\ applied \subseteq Grants /\ exempt \subseteq Tenants
        /\ Cost \in Int /\ FreeTier \in Int
        /\ Owner \in [Grants -> Tenants] /\ Amount \in [Grants -> Nat]
    BY LedgerTypes, AmountsAssumption, GrantsAssumption
  <2>2. /\ credits' \in [Tenants -> Int \cup {NoRow}]
        /\ applied' \subseteq Grants /\ exempt' \subseteq Tenants
    <3> USE DEF Ledger!BalanceOf
    <3>1. ASSUME NEW t \in Tenants,
                 \/ Ledger!OpenAccount(t) \/ Ledger!Admit(t) \/ Ledger!AdmitStaff(t)
                 \/ Ledger!Charge(t)
          PROVE  <2>2
      BY <2>1, <3>1
         DEF Ledger!OpenAccount, Ledger!Admit, Ledger!AdmitStaff, Ledger!Charge
    <3>2. ASSUME NEW g \in Grants, Ledger!Provision(g) PROVE <2>2
      BY <2>1, <3>2 DEF Ledger!Provision
    <3>3. CASE Ledger!Release \/ UNCHANGED Ledger!vars
      BY <2>1, <3>3 DEF Ledger!Release, Ledger!vars
    <3> QED
      BY <3>1, <3>2, <3>3 DEF Ledger!Next
  <2>3. Running' \in [Tenants -> 0 .. Cardinality(Turns)]
    BY LedgerNumbers DEF MaxOpen
  <2> QED
    BY <2>2, <2>3 DEF Ledger!TypeOK, Running
<1> QED
  BY <1>1, <1>2, PTL DEF Ledger!Spec

\* A ledger with no account and no turn is covered.
LEMMA CoveredInit == Ledger!Init => Covered
<1> SUFFICES ASSUME Ledger!Init, NEW t \in Tenants
             PROVE  getBalance(t) - Cost * Running[t] >= 0
  BY DEF Covered
<1>1. getBalance(t) = 0 /\ Running[t] = 0
  BY DEF Ledger!Init, getBalance, Running
<1> QED
  BY <1>1, LedgerNumbers

\* Admitting needs a positive balance, charging takes the price from both sides,
\* everything else only adds to what is left.
LEMMA CoveredStep == Ledger!TypeOK /\ Covered /\ [Ledger!Next]_(Ledger!vars) => Covered'
<1> SUFFICES ASSUME Ledger!TypeOK, Covered, [Ledger!Next]_(Ledger!vars),
                    NEW s \in Tenants, s \notin exempt'
             PROVE  LET rest == getBalance(s)' - Cost * Running'[s]
                    IN  rest >= 0 \/ rest >= 1 - Cost * MaxOpen
  BY DEF Covered, MaxOpen
<1> DEFINE b == getBalance(s)
           c == getBalance(s)'
           o == Running[s]
           q == Running'[s]
<1>1. /\ b \in Int /\ c \in Int /\ s \notin exempt
      /\ \/ c >= b /\ q <= o
         \/ b > 0 /\ c = b /\ o < MaxOpen /\ q = o + 1
         \/ c = b - Cost /\ o > 0 /\ q = o - 1
  BY LedgerShapes
<1>2. o \in Nat /\ q \in Nat /\ MaxOpen \in Nat /\ Cost \in Nat
  BY LedgerNumbers
<1>3. b - Cost * o >= 0 \/ b - Cost * o >= 1 - Cost * MaxOpen
  BY <1>1 DEF Covered
<1> HIDE DEF b, c, o, q
<1>4. Cost * o \in Nat /\ Cost * q \in Nat /\ Cost * MaxOpen \in Nat
  BY <1>2, PriceGrows
<1>5. CASE c >= b /\ q <= o
  <2>1. Cost * q <= Cost * o
    BY <1>2, <1>5, PriceGrows
  <2> QED
    BY <1>1, <1>3, <1>4, <1>5, <2>1 DEF c, q
<1>6. CASE b > 0 /\ c = b /\ o < MaxOpen /\ q = o + 1
  <2>1. q <= MaxOpen
    BY <1>2, <1>6
  <2>2. Cost * q <= Cost * MaxOpen
    BY <1>2, <2>1, PriceGrows
  <2> QED
    BY <1>1, <1>4, <1>6, <2>2 DEF c, q
<1>7. CASE c = b - Cost /\ o > 0 /\ q = o - 1
  <2>1. o = q + 1 /\ q <= q
    BY <1>2, <1>7
  <2>2. Cost * (q + 1) = Cost * q + Cost
    BY <1>2, <2>1, PriceGrows
  <2>3. Cost * o = Cost * q + Cost
    BY <2>1, <2>2
  <2> QED
    BY <1>1, <1>2, <1>3, <1>4, <1>7, <2>3 DEF c, q
<1> QED
  BY <1>1, <1>5, <1>6, <1>7

\* A covered ledger is within the bound.
LEMMA CoveredBounds == Ledger!TypeOK /\ Covered => Ledger!DebtBounded
<1> SUFFICES ASSUME Ledger!TypeOK, Covered, NEW t \in Tenants, t \notin exempt
             PROVE  getBalance(t) > - (Cost * MaxOpen)
  BY DEF Ledger!DebtBounded, Ledger!BalanceOf, getBalance, MaxOpen
<1> DEFINE b == getBalance(t)
           due == Cost * Running[t]
           limit == Cost * MaxOpen
<1>1. b - due >= 0 \/ b - due >= 1 - limit
  BY DEF Covered
<1>2. Running[t] \in Nat /\ MaxOpen \in Nat \ {0} /\ Cost \in Nat \ {0}
  BY LedgerNumbers
<1>3. due \in Nat
  BY <1>2, PriceGrows
<1>4. limit \in Nat /\ limit > 0
  <2>1. Cost * 1 <= Cost * MaxOpen /\ Cost * 1 = Cost /\ Cost * MaxOpen \in Nat
    BY <1>2, PriceGrows
  <2> QED
    BY <1>2, <2>1
<1>5. b \in Int
  BY LedgerTypes, AmountsAssumption DEF getBalance
<1> HIDE DEF b, due, limit
<1>6. b > - limit
  BY <1>1, <1>3, <1>4, <1>5
<1> QED
  BY <1>6 DEF b, limit

\* Prepaid accounts: for any price, any number of concurrent turns and any
\* grants, a tenant without staff turns never owes the price of MaxOpen turns.
THEOREM LedgerDebtBounded == Ledger!Spec => []Ledger!DebtBounded
  BY LedgerTypeCorrect, CoveredInit, CoveredStep, CoveredBounds, PTL DEF Ledger!Spec

\* The guard reads the balance once and the charge follows the turn, so turns
\* running at the same time can leave a debt: below the price of all of them,
\* for any price and any number of turns, unless a turn of the tenant was exempt.
THEOREM DebtIsBounded == Spec => []DebtBounded
<1>1. Ledger!DebtBounded => DebtBounded
  BY DEF Ledger!DebtBounded, Ledger!BalanceOf, DebtBounded, getBalance
<1>2. Spec => Ledger!Spec
  BY CreditsImplementLedger DEF ImplementsLedger
<1> QED
  BY <1>1, <1>2, LedgerDebtBounded, PTL
===============================================================================
