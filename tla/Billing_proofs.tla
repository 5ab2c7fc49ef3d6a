--------------------------- MODULE Billing_proofs ---------------------------
(***************************************************************************)
(* The safety of the billing for any number of accounts, checkouts,        *)
(* subscriptions and webhook requests.                                     *)
(***************************************************************************)
EXTENDS Billing, TLAPS

\* What a checkout request holds: the customer it opens a session for is the
\* one of its account's row, or will be unless somebody else's is there.
CheckoutInv ==
  \A r \in Checkouts :
    /\ rpc[r] \notin {"start", "end"} => account[r] \in Accounts
    /\ rpc[r] = "insert" => found[r] # None
    /\ rpc[r] = "reread" => customerRow[account[r]] # None
    /\ rpc[r] = "session" => found[r] # None /\ found[r] = customerRow[account[r]]

\* A session stands between the two: it is for a customer of the database.
SessionInv ==
  \A r \in Checkouts :
    sessions[r] # None => \E a \in Accounts : customerRow[a] = sessions[r]

\* Only a subscription that exists has events, and it has a status.
EventInv ==
  /\ \A e \in sent : subscriber[e.sub] # None
  /\ \A s \in Subscriptions : subscriber[s] # None => Version(s) >= 1

\* What a webhook request holds: a snapshot Stripe did give, and the account
\* whose customer the subscription belongs to.
DeliveryInv ==
  \A d \in Deliveries :
    /\ pc[d] # "idle" => event[d] \in Event /\ subscriber[event[d].sub] # None
    /\ pc[d] \in {"resolve", "persist"} => snapshot[d] \in 1..Version(event[d].sub)
    /\ pc[d] = "persist" => /\ owner[d] \in Accounts
                            /\ customerRow[owner[d]] = subscriber[event[d].sub]

\* A row is of an account that has a customer.
RowInv == \A a \in Accounts : rowSub[a] # None => customerRow[a] # None

IInv ==
  /\ CheckoutInv
  /\ SessionInv
  /\ EventInv
  /\ DeliveryInv
  /\ RowInv
  /\ EverySubscriberIsKnown
  /\ RowIsOwnSnapshot

-----------------------------------------------------------------------------
(* Type correctness.                                                       *)

USE NoneAssumption, ChangesAssumption, FaultsAssumption

\* The initial states are well typed.
LEMMA InitTypeOK == Init => TypeOK
  BY DEF Init, TypeOK, Event, NoEvent, DeliveryPc, CheckoutPc

\* What Stripe does keeps the types of what it has.
LEMMA StripeCreatesTypeOK ==
  ASSUME TypeOK, NEW a \in Accounts, NEW c \in Customers, StripeCreates(a, c)
  PROVE  /\ keyed' \in [Accounts -> Customers \cup {None}]
         /\ made' \subseteq Customers
<1>1. CASE keyed[a] # None  BY <1>1 DEF StripeCreates, TypeOK
<1>2. CASE keyed[a] = None  BY <1>2 DEF StripeCreates, TypeOK
<1>3. QED  BY <1>1, <1>2

\* The row takes an id and a snapshot together.
LEMMA UpsertTypeOK ==
  ASSUME TypeOK, NEW a \in Accounts, NEW s \in Subscriptions, NEW v \in Nat \ {0}, Upsert(a, s, v)
  PROVE  /\ rowSub' \in [Accounts -> Subscriptions \cup {None}]
         /\ rowVersion' \in [Accounts -> Nat]
         /\ \A b \in Accounts : rowSub'[b] = None <=> rowVersion'[b] = 0
<1>1. s # None  OBVIOUS
<1>2. CASE \E b \in Accounts : rowSub[b] = s
  <2>1. rowVersion' = [b \in Accounts |-> IF rowSub[b] = s THEN v ELSE rowVersion[b]]
          /\ rowSub' = rowSub
    BY <1>2 DEF Upsert
  <2>2. rowVersion' \in [Accounts -> Nat]  BY <2>1 DEF TypeOK
  <2>3. ASSUME NEW b \in Accounts PROVE rowSub'[b] = None <=> rowVersion'[b] = 0
    BY <1>1, <2>1 DEF TypeOK
  <2>4. QED  BY <2>1, <2>2, <2>3 DEF TypeOK
<1>3. CASE ~ \E b \in Accounts : rowSub[b] = s
  <2>1. rowSub' = [rowSub EXCEPT ![a] = s] /\ rowVersion' = [rowVersion EXCEPT ![a] = v]
    BY <1>3 DEF Upsert
  <2>2. rowSub' \in [Accounts -> Subscriptions \cup {None}] /\ rowVersion' \in [Accounts -> Nat]
    BY <2>1 DEF TypeOK
  <2>3. ASSUME NEW b \in Accounts PROVE rowSub'[b] = None <=> rowVersion'[b] = 0
    BY <1>1, <2>1 DEF TypeOK
  <2>4. QED  BY <2>2, <2>3
<1>4. QED  BY <1>2, <1>3

\* Every step keeps the types; a row gets a snapshot whenever it gets an id.
LEMMA NextTypeOK == TypeOK /\ IInv /\ [Next]_vars => TypeOK'
<1> SUFFICES ASSUME TypeOK, IInv, [Next]_vars PROVE TypeOK'  OBVIOUS
<1> USE DEF TypeOK, Event, NoEvent, DeliveryPc, CheckoutPc,
            stripeVars, eventVars, rowVars, deliveryVars, checkoutVars,
            Proceed, Finds, EndCheckout, Goto, EndDelivery
<1>1. ASSUME NEW r \in Checkouts, NEW a \in Accounts, StartCheckout(r, a) PROVE TypeOK'
  <2>1. CASE IsPro(a)  BY <1>1, <2>1 DEF StartCheckout
  <2>2. CASE ~IsPro(a)
    <3>1. rpc' \in [Checkouts -> CheckoutPc]
      <4>1. rpc' = [rpc EXCEPT ![r] = "findCustomer"]  BY <1>1, <2>2 DEF StartCheckout
      <4>2. QED  BY <4>1
    <3>2. account' \in [Checkouts -> Accounts \cup {None}]  BY <1>1, <2>2 DEF StartCheckout
    <3>3. QED  BY <1>1, <3>1, <3>2 DEF StartCheckout
  <2>3. QED  BY <2>1, <2>2
<1>2. ASSUME NEW r \in Checkouts, FindCustomer(r) PROVE TypeOK'
  <2>1. account[r] \in Accounts  BY <1>2 DEF FindCustomer, IInv, CheckoutInv
  <2>2. customerRow[account[r]] \in Customers \cup {None}  BY <2>1
  <2>3. QED  BY <1>2, <2>2 DEF FindCustomer
<1>3. ASSUME NEW r \in Checkouts, CreateCustomer(r) PROVE TypeOK'
  <2>1. PICK c \in Customers : StripeCreates(account[r], c) /\ Finds(r, c)
    BY <1>3 DEF CreateCustomer
  <2>2. account[r] \in Accounts  BY <1>3 DEF CreateCustomer, IInv, CheckoutInv
  <2>3. keyed' \in [Accounts -> Customers \cup {None}] /\ made' \subseteq Customers
    BY <2>1, <2>2, StripeCreatesTypeOK
  <2>4. QED  BY <1>3, <2>1, <2>3 DEF CreateCustomer
<1>4. ASSUME NEW r \in Checkouts, InsertCustomer(r) PROVE TypeOK'
  BY <1>4 DEF InsertCustomer, AfterCustomerConflict
<1>5. ASSUME NEW r \in Checkouts, RereadCustomer(r) PROVE TypeOK'
  <2>1. account[r] \in Accounts  BY <1>5 DEF RereadCustomer, IInv, CheckoutInv
  <2>2. customerRow[account[r]] \in Customers \cup {None}  BY <2>1
  <2>3. QED  BY <1>5, <2>2 DEF RereadCustomer
<1>6. ASSUME NEW r \in Checkouts, CreateSession(r) PROVE TypeOK'
  BY <1>6 DEF CreateSession
<1>7. ASSUME NEW r \in Checkouts, CheckoutFault(r) PROVE TypeOK'
  <2>1. account[r] \in Accounts  BY <1>7 DEF CheckoutFault, IInv, CheckoutInv
  <2>2. keyed' \in [Accounts -> Customers \cup {None}] /\ made' \subseteq Customers
    BY <1>7, <2>1, StripeCreatesTypeOK DEF CheckoutFault
  <2>3. QED  BY <1>7, <2>2 DEF CheckoutFault
<1>8. ASSUME NEW a \in Accounts, KeyExpires(a) PROVE TypeOK'
  BY <1>8 DEF KeyExpires
<1>9. ASSUME NEW r \in Checkouts, NEW s \in Subscriptions, NEW st \in Statuses,
             CompleteCheckout(r, s, st)
      PROVE TypeOK'
  BY <1>9 DEF CompleteCheckout
<1>10. ASSUME NEW s \in Subscriptions, NEW st \in Statuses, ChangeSubscription(s, st) PROVE TypeOK'
  <2>1. history[s] \in Seq(Statuses)  OBVIOUS
  <2>2. Append(history[s], st) \in Seq(Statuses)  BY <2>1
  <2>3. history' \in [Subscriptions -> Seq(Statuses)]
    BY <1>10, <2>2 DEF ChangeSubscription
  <2>4. Version(s) \in Nat  BY <2>1 DEF Version
  <2>5. [sub |-> s, version |-> Version(s) + 1] \in Event
    BY <1>10, <2>4 DEF ChangeSubscription
  <2>6. sent' \subseteq Event  BY <1>10, <2>5 DEF ChangeSubscription
  <2>7. QED  BY <1>10, <2>3, <2>6 DEF ChangeSubscription
<1>11. ASSUME NEW d \in Deliveries, NEW e \in Event, Receive(d, e) PROVE TypeOK'
  BY <1>11 DEF Receive
<1>12. ASSUME NEW d \in Deliveries, Fetch(d) PROVE TypeOK'
  <2>1. event[d] \in Event  BY <1>12 DEF Fetch, IInv, DeliveryInv
  <2>2. history[event[d].sub] \in Seq(Statuses)  BY <2>1
  <2>3. Version(event[d].sub) \in Nat  BY <2>2 DEF Version
  <2>4. snapshot' \in [Deliveries -> Nat]  BY <1>12, <2>3 DEF Fetch, CanonicalSnapshot
  <2>5. QED  BY <1>12, <2>4 DEF Fetch
<1>13. ASSUME NEW d \in Deliveries, Resolve(d) PROVE TypeOK'
  <2>1. owner' \in [Deliveries -> Accounts \cup {None}] /\ pc' \in [Deliveries -> DeliveryPc]
    BY <1>13 DEF Resolve
  <2>2. QED  BY <1>13, <2>1 DEF Resolve
<1>14. ASSUME NEW d \in Deliveries, Persist(d) PROVE TypeOK'
  <2> DEFINE e == event[d]  a == owner[d]  v == snapshot[d]
  <2>1. e \in Event /\ a \in Accounts  BY <1>14 DEF Persist, IInv, DeliveryInv
  <2>2. v \in Nat \ {0}
    <3>1. v \in 1..Version(e.sub)  BY <1>14 DEF Persist, IInv, DeliveryInv
    <3>2. QED  BY <3>1
  <2>3. pc' \in [Deliveries -> DeliveryPc]  BY <1>14 DEF Persist
  <2>4. CASE Conflict(e, a)  BY <1>14, <2>3, <2>4 DEF Persist
  <2>5. CASE ~Conflict(e, a)
    <3>1. ledger' \subseteq Event  BY <1>14, <2>1, <2>5 DEF Persist
    <3>2. Upsert(a, e.sub, v)  BY <1>14, <2>5 DEF Persist
    <3>3. e.sub \in Subscriptions  BY <2>1
    <3>4. rowSub' \in [Accounts -> Subscriptions \cup {None}]
            /\ rowVersion' \in [Accounts -> Nat]
            /\ \A b \in Accounts : rowSub'[b] = None <=> rowVersion'[b] = 0
      BY <3>2, <3>3, <2>1, <2>2, UpsertTypeOK
    <3>5. QED  BY <1>14, <2>3, <3>1, <3>4 DEF Persist
  <2>6. QED  BY <2>4, <2>5
<1>15. ASSUME NEW d \in Deliveries, Answer(d) PROVE TypeOK'
  <2>1. event[d] \in Event  BY <1>15 DEF Answer, IInv, DeliveryInv
  <2>2. sent' \subseteq Event /\ acked' \subseteq Event  BY <1>15, <2>1 DEF Answer
  <2>3. QED  BY <1>15, <2>2 DEF Answer
<1>16. ASSUME NEW d \in Deliveries, DeliveryFault(d) PROVE TypeOK'
  BY <1>16 DEF DeliveryFault
<1>17. CASE UNCHANGED vars
  BY <1>17 DEF vars
<1>18. QED
  BY <1>1, <1>2, <1>3, <1>4, <1>5, <1>6, <1>7, <1>8, <1>9, <1>10, <1>11, <1>12, <1>13, <1>14,
     <1>15, <1>16, <1>17
     DEF Next, CheckoutStep, DeliveryStep

-----------------------------------------------------------------------------
(* The inductive invariant.                                                *)

\* The initial states satisfy the inductive invariant.
LEMMA InitIInv == Init => IInv
  BY DEF Init, IInv, CheckoutInv, SessionInv, EventInv, DeliveryInv, RowInv, EverySubscriberIsKnown,
         RowIsOwnSnapshot

\* Every step keeps the inductive invariant.
LEMMA NextIInv == TypeOK /\ IInv /\ [Next]_vars => IInv'
<1> SUFFICES ASSUME TypeOK, IInv, [Next]_vars PROVE IInv'  OBVIOUS
<1> USE DEF TypeOK, Event, NoEvent, DeliveryPc, CheckoutPc,
            stripeVars, eventVars, rowVars, deliveryVars, checkoutVars,
            Proceed, Finds, EndCheckout, Goto, EndDelivery, Version,
            IInv, CheckoutInv, SessionInv, EventInv, DeliveryInv, RowInv, EverySubscriberIsKnown,
            RowIsOwnSnapshot
<1>1. ASSUME NEW r \in Checkouts, NEW a \in Accounts, StartCheckout(r, a) PROVE IInv'
  BY <1>1 DEF StartCheckout
<1>2. ASSUME NEW r \in Checkouts, FindCustomer(r) PROVE IInv'
  BY <1>2 DEF FindCustomer
<1>3. ASSUME NEW r \in Checkouts, CreateCustomer(r) PROVE IInv'
  <2>1. PICK c \in Customers : found' = [found EXCEPT ![r] = c]  BY <1>3 DEF CreateCustomer
  <2>2. rpc' = [rpc EXCEPT ![r] = "insert"] /\ account[r] \in Accounts
          /\ UNCHANGED <<account, customerRow>>
    BY <1>3 DEF CreateCustomer
  <2>3. CheckoutInv'  BY <2>1, <2>2
  <2>4. SessionInv' /\ EventInv' /\ DeliveryInv' /\ EverySubscriberIsKnown' /\ RowInv'
          /\ RowIsOwnSnapshot'
    BY <1>3 DEF CreateCustomer
  <2>5. QED  BY <2>3, <2>4
<1>4. ASSUME NEW r \in Checkouts, InsertCustomer(r) PROVE IInv'
  <2>1. account[r] \in Accounts /\ found[r] # None  BY <1>4 DEF InsertCustomer
  <2>2. CASE customerRow[account[r]] = None
    <3>1. customerRow' = [customerRow EXCEPT ![account[r]] = found[r]] /\ rpc' = [rpc EXCEPT ![r] = "session"]
      BY <1>4, <2>2 DEF InsertCustomer
    <3>2. \A a \in Accounts : customerRow[a] # None => customerRow'[a] = customerRow[a]
      BY <2>1, <2>2, <3>1
    <3>3. UNCHANGED <<account, found, sessions, subscriber, history, sent, rowSub, rowVersion,
                      pc, event, snapshot, owner>>
      BY <1>4 DEF InsertCustomer
    <3>4. CheckoutInv'  BY <2>1, <3>1, <3>2, <3>3
    <3>5. \A c \in Customers :
            (\E a \in Accounts : customerRow[a] = c) => \E a \in Accounts : customerRow'[a] = c
      BY <3>2
    <3>6. SessionInv' /\ EverySubscriberIsKnown'
      <4>1. \A q \in Checkouts : sessions[q] \in Customers \cup {None}  OBVIOUS
      <4>2. \A s \in Subscriptions : subscriber[s] \in Customers \cup {None}  OBVIOUS
      <4>3. SessionInv'  BY <3>3, <3>5, <4>1
      <4>4. EverySubscriberIsKnown'  BY <3>3, <3>5, <4>2
      <4>5. QED  BY <4>3, <4>4
    <3>7. EventInv'  BY <3>3
    <3>8. DeliveryInv'
      <4>1. ASSUME NEW d \in Deliveries, pc[d] = "persist"
            PROVE  customerRow'[owner[d]] = subscriber[event[d].sub]
        BY <3>2, <4>1
      <4>2. QED  BY <3>3, <4>1
    <3>9. RowInv' /\ RowIsOwnSnapshot'  BY <3>2, <3>3
    <3>10. QED  BY <3>4, <3>6, <3>7, <3>8, <3>9
  <2>3. CASE customerRow[account[r]] # None
    BY <1>4, <2>1, <2>3 DEF InsertCustomer, AfterCustomerConflict
  <2>4. QED  BY <2>2, <2>3
<1>5. ASSUME NEW r \in Checkouts, RereadCustomer(r) PROVE IInv'
  BY <1>5 DEF RereadCustomer
<1>6. ASSUME NEW r \in Checkouts, CreateSession(r) PROVE IInv'
  <2>1. account[r] \in Accounts /\ found[r] = customerRow[account[r]]
    BY <1>6 DEF CreateSession
  <2>2. SessionInv'  BY <1>6, <2>1 DEF CreateSession
  <2>3. CheckoutInv'  BY <1>6 DEF CreateSession
  <2>4. EventInv' /\ DeliveryInv'  BY <1>6 DEF CreateSession
  <2>5. EverySubscriberIsKnown' /\ RowInv' /\ RowIsOwnSnapshot'  BY <1>6 DEF CreateSession
  <2>6. QED  BY <2>2, <2>3, <2>4, <2>5
<1>7. ASSUME NEW r \in Checkouts, CheckoutFault(r) PROVE IInv'
  BY <1>7 DEF CheckoutFault, StripeCreates
<1>8. ASSUME NEW a \in Accounts, KeyExpires(a) PROVE IInv'
  BY <1>8 DEF KeyExpires
<1>9. ASSUME NEW r \in Checkouts, NEW s \in Subscriptions, NEW st \in Statuses,
             CompleteCheckout(r, s, st)
      PROVE IInv'
  <2>1. sessions[r] # None /\ subscriber[s] = None  BY <1>9 DEF CompleteCheckout
  <2>2. subscriber' = [subscriber EXCEPT ![s] = sessions[r]]
          /\ history' = [history EXCEPT ![s] = <<st>>]
    BY <1>9 DEF CompleteCheckout
  <2>3. \A t \in Subscriptions :
          t # s => subscriber'[t] = subscriber[t] /\ Version(t)' = Version(t)
    BY <2>2
  <2>4. subscriber'[s] = sessions[r] /\ Version(s)' = 1  BY <2>2
  <2> HIDE DEF Version
  <2>5. CheckoutInv' /\ SessionInv'  BY <1>9 DEF CompleteCheckout
  <2>6. EventInv'
    <3>1. sent' = sent \cup {[sub |-> s, version |-> 0], [sub |-> s, version |-> 1]}
      BY <1>9 DEF CompleteCheckout
    <3>2. QED  BY <2>1, <2>3, <2>4, <3>1
  <2>7. DeliveryInv'
    <3>1. UNCHANGED <<pc, event, snapshot, owner, customerRow>>  BY <1>9 DEF CompleteCheckout
    <3>2. \A d \in Deliveries : pc[d] # "idle" => event[d].sub \in Subscriptions /\ event[d].sub # s
      BY <2>1
    <3>3. QED  BY <2>3, <3>1, <3>2
  <2>8. EverySubscriberIsKnown'
    <3>1. UNCHANGED customerRow  BY <1>9 DEF CompleteCheckout
    <3>2. ASSUME NEW t \in Subscriptions, subscriber'[t] # None
          PROVE  \E a \in Accounts : customerRow[a] = subscriber'[t]
      <4>1. CASE t = s  BY <2>1, <2>4, <4>1
      <4>2. CASE t # s  BY <2>3, <3>2, <4>2
      <4>3. QED  BY <4>1, <4>2
    <3>3. QED  BY <3>1, <3>2
  <2>9. RowInv' /\ RowIsOwnSnapshot'
    <3>1. UNCHANGED <<rowSub, rowVersion, customerRow>>  BY <1>9 DEF CompleteCheckout
    <3>2. \A a \in Accounts : rowSub[a] # s
      <4>1. SUFFICES ASSUME NEW a \in Accounts, rowSub[a] = s PROVE FALSE  OBVIOUS
      <4>2. customerRow[a] # None /\ subscriber[s] = customerRow[a]  BY <4>1
      <4>3. QED  BY <2>1, <4>2
    <3>3. QED  BY <2>3, <3>1, <3>2
  <2>10. QED  BY <2>5, <2>6, <2>7, <2>8, <2>9
<1>10. ASSUME NEW s \in Subscriptions, NEW st \in Statuses, ChangeSubscription(s, st) PROVE IInv'
  BY <1>10 DEF ChangeSubscription
<1>11. ASSUME NEW d \in Deliveries, NEW e \in Event, Receive(d, e) PROVE IInv'
  BY <1>11 DEF Receive
<1>12. ASSUME NEW d \in Deliveries, Fetch(d) PROVE IInv'
  BY <1>12 DEF Fetch, CanonicalSnapshot
<1>13. ASSUME NEW d \in Deliveries, Resolve(d) PROVE IInv'
  BY <1>13 DEF Resolve
<1>14. ASSUME NEW d \in Deliveries, Persist(d) PROVE IInv'
  <2> DEFINE e == event[d]  a == owner[d]  v == snapshot[d]
  <2>1. /\ e \in Event /\ a \in Accounts
        /\ v \in 1..Version(e.sub)
        /\ customerRow[a] = subscriber[e.sub] /\ subscriber[e.sub] # None
    BY <1>14 DEF Persist
  <2>2. CheckoutInv' /\ SessionInv' /\ EventInv' /\ EverySubscriberIsKnown'
    BY <1>14 DEF Persist
  <2>3. DeliveryInv'  BY <1>14 DEF Persist
  <2>4. RowInv' /\ RowIsOwnSnapshot'
    <3>1. UNCHANGED <<subscriber, customerRow, history>>  BY <1>14 DEF Persist
    <3>2. CASE Conflict(e, a)  BY <1>14, <3>1, <3>2 DEF Persist
    <3>3. CASE ~Conflict(e, a)
      <4>1. Upsert(a, e.sub, v)  BY <1>14, <3>3 DEF Persist
      <4>2. CASE \E b \in Accounts : rowSub[b] = e.sub
        <5>1. rowSub' = rowSub
                /\ rowVersion' = [b \in Accounts |-> IF rowSub[b] = e.sub THEN v ELSE rowVersion[b]]
          BY <4>1, <4>2 DEF Upsert
        <5>2. QED  BY <2>1, <3>1, <5>1
      <4>3. CASE ~ \E b \in Accounts : rowSub[b] = e.sub
        <5>1. rowSub' = [rowSub EXCEPT ![a] = e.sub] /\ rowVersion' = [rowVersion EXCEPT ![a] = v]
          BY <4>1, <4>3 DEF Upsert
        <5>2. QED  BY <2>1, <3>1, <5>1
      <4>4. QED  BY <4>2, <4>3
    <3>4. QED  BY <3>2, <3>3
  <2>5. QED  BY <2>2, <2>3, <2>4
<1>15. ASSUME NEW d \in Deliveries, Answer(d) PROVE IInv'
  BY <1>15 DEF Answer
<1>16. ASSUME NEW d \in Deliveries, DeliveryFault(d) PROVE IInv'
  BY <1>16 DEF DeliveryFault
<1>17. CASE UNCHANGED vars
  BY <1>17 DEF vars
<1>18. QED
  BY <1>1, <1>2, <1>3, <1>4, <1>5, <1>6, <1>7, <1>8, <1>9, <1>10, <1>11, <1>12, <1>13, <1>14,
     <1>15, <1>16, <1>17
     DEF Next, CheckoutStep, DeliveryStep

\* IInv holds in every state, for every value of the constants.
THEOREM Safety == Spec => [](TypeOK /\ IInv)
  BY InitTypeOK, NextTypeOK, InitIInv, NextIInv, PTL DEF Spec

\* Every variable keeps its type.
THEOREM TypeCorrect == Spec => []TypeOK
  BY Safety, PTL

\* However checkouts race and keys lapse, the database knows every customer
\* that has a subscription.
THEOREM SubscribersKnown == Spec => []EverySubscriberIsKnown
<1>1. IInv => EverySubscriberIsKnown  BY DEF IInv
<1>2. QED  BY <1>1, Safety, PTL

\* Nobody is Pro but by a snapshot of a subscription of their own customer.
THEOREM SnapshotsOwned == Spec => []RowIsOwnSnapshot
<1>1. IInv => RowIsOwnSnapshot  BY DEF IInv
<1>2. QED  BY <1>1, Safety, PTL

=============================================================================
