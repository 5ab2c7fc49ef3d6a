------------------------------ MODULE Billing ------------------------------
(***************************************************************************)
(* The billing of apps/api: POST /billing/checkout with its                *)
(* ensureBillingCustomer, POST /webhooks/stripe, and the entitlement that  *)
(* is resolved from the Subscription row alone.                            *)
(*                                                                         *)
(* Stripe is external: customers under an idempotency key, Checkout        *)
(* sessions that become subscriptions, and one event per change, sent      *)
(* until it is answered with a 2xx.  history[s] is the statuses that       *)
(* subscription s has had, so that a snapshot of it is a position in       *)
(* there.  As elsewhere, pc[d] is the next await of webhook request d and  *)
(* rpc[r] that of checkout request r.                                      *)
(***************************************************************************)
EXTENDS Naturals, Sequences, FiniteSets

CONSTANTS
  Accounts,       \* the Accounts of the product
  Customers,      \* ids Stripe may give a customer
  Subscriptions,  \* ids Stripe may give a subscription
  Deliveries,     \* slots for webhook requests that are handled at once
  Checkouts,      \* checkout requests users send: a bound on their number
  None,           \* null, in every column
  Statuses,       \* the subscription statuses Stripe gives here
  MaxChanges,     \* bound on the statuses a subscription goes through
  MaxFaults       \* bound on failing awaits and answers that get lost

ASSUME NoneAssumption == None \notin Accounts \cup Customers \cup Subscriptions
ASSUME ChangesAssumption == MaxChanges \in Nat \ {0}
ASSUME FaultsAssumption == MaxFaults \in Nat

VARIABLES
  keyed,        \* Stripe: the customer an account's idempotency key still stands for
  made,         \* Stripe: the customers created
  sessions,     \* Stripe: the customer of the session a checkout request opened
  subscriber,   \* Stripe: the customer a subscription belongs to
  history,      \* Stripe: its statuses so far
  sent, acked,  \* Stripe: the events not yet, and already, answered with a 2xx
  customerRow,  \* BillingCustomer.stripeCustomerId by account
  rowSub, rowVersion,  \* Subscription by account: its id, the snapshot it holds
  ledger,       \* the BillingWebhookEvent rows
  pc, event, snapshot, owner,  \* per webhook request
  rpc, account, found,         \* per checkout request
  faults

stripeVars   == <<keyed, made, sessions, subscriber, history>>
eventVars    == <<sent, acked>>
rowVars      == <<rowSub, rowVersion, ledger>>
deliveryVars == <<pc, event, snapshot, owner>>
checkoutVars == <<rpc, account, found>>
vars == <<keyed, made, sessions, subscriber, history, sent, acked, customerRow, rowSub,
          rowVersion, ledger, pc, event, snapshot, owner, rpc, account, found, faults>>

\* Version 0 is the checkout.session.completed of a subscription, any other
\* the customer.subscription event of that change.
Event == [sub : Subscriptions, version : 0..MaxChanges]
NoEvent == [sub |-> None, version |-> 0]

DeliveryPc == {"idle", "fetch", "resolve", "persist", "ok", "failed"}
CheckoutPc == {"start", "findCustomer", "createCustomer", "insert", "reread", "session", "end"}

TypeOK ==
  /\ keyed \in [Accounts -> Customers \cup {None}]
  /\ made \subseteq Customers
  /\ sessions \in [Checkouts -> Customers \cup {None}]
  /\ subscriber \in [Subscriptions -> Customers \cup {None}]
  /\ history \in [Subscriptions -> Seq(Statuses)]
  /\ sent \subseteq Event /\ acked \subseteq Event
  /\ customerRow \in [Accounts -> Customers \cup {None}]
  /\ rowSub \in [Accounts -> Subscriptions \cup {None}]
  /\ rowVersion \in [Accounts -> Nat]
  /\ \A a \in Accounts : rowSub[a] = None <=> rowVersion[a] = 0
  /\ ledger \subseteq Event
  /\ pc \in [Deliveries -> DeliveryPc]
  /\ event \in [Deliveries -> Event \cup {NoEvent}]
  /\ snapshot \in [Deliveries -> Nat]
  /\ owner \in [Deliveries -> Accounts \cup {None}]
  /\ rpc \in [Checkouts -> CheckoutPc]
  /\ account \in [Checkouts -> Accounts \cup {None}]
  /\ found \in [Checkouts -> Customers \cup {None}]
  /\ faults \in Nat

Init ==
  /\ keyed = [a \in Accounts |-> None]
  /\ made = {}
  /\ sessions = [r \in Checkouts |-> None]
  /\ subscriber = [s \in Subscriptions |-> None]
  /\ history = [s \in Subscriptions |-> <<>>]
  /\ sent = {} /\ acked = {}
  /\ customerRow = [a \in Accounts |-> None]
  /\ rowSub = [a \in Accounts |-> None]
  /\ rowVersion = [a \in Accounts |-> 0]
  /\ ledger = {}
  /\ pc = [d \in Deliveries |-> "idle"]
  /\ event = [d \in Deliveries |-> NoEvent]
  /\ snapshot = [d \in Deliveries |-> 0]
  /\ owner = [d \in Deliveries |-> None]
  /\ rpc = [r \in Checkouts |-> "start"]
  /\ account = [r \in Checkouts |-> None]
  /\ found = [r \in Checkouts |-> None]
  /\ faults = 0

-----------------------------------------------------------------------------
(* Entitlement.                                                            *)

\* PRO_STATUSES: any other status is Free.
ProStatuses == {"active", "trialing", "past_due"}

\* resolveEntitlement of the Subscription row, which requireEntitlement,
\* GET /billing and the checkout ask.
IsPro(a) == rowSub[a] # None /\ history[rowSub[a]][rowVersion[a]] \in ProStatuses

-----------------------------------------------------------------------------
(* POST /billing/checkout and ensureBillingCustomer.                       *)

Proceed(r, label) == rpc' = [rpc EXCEPT ![r] = label]
Finds(r, c) == found' = [found EXCEPT ![r] = c]

\* The request is answered, and its locals are gone.
EndCheckout(r) ==
  /\ Proceed(r, "end")
  /\ account' = [account EXCEPT ![r] = None]
  /\ Finds(r, None)

\* The entitlement check: 409 ALREADY_PRO.
StartCheckout(r, a) ==
  /\ rpc[r] = "start"
  /\ IF IsPro(a)
     THEN Proceed(r, "end") /\ UNCHANGED account
     ELSE Proceed(r, "findCustomer") /\ account' = [account EXCEPT ![r] = a]
  /\ UNCHANGED <<stripeVars, eventVars, customerRow, rowVars, deliveryVars, found, faults>>

FindCustomer(r) ==
  /\ rpc[r] = "findCustomer"
  /\ Finds(r, customerRow[account[r]])
  /\ Proceed(r, IF customerRow[account[r]] # None THEN "session" ELSE "createCustomer")
  /\ UNCHANGED <<stripeVars, eventVars, customerRow, rowVars, deliveryVars, account, faults>>

\* customers.create under the key polaris-customer:<accountId>
StripeCreates(a, c) ==
  IF keyed[a] # None
  THEN c = keyed[a] /\ UNCHANGED <<keyed, made>>
  ELSE /\ c \notin made
       /\ made' = made \cup {c}
       /\ keyed' = [keyed EXCEPT ![a] = c]

CreateCustomer(r) ==
  /\ rpc[r] = "createCustomer"
  /\ \E c \in Customers : StripeCreates(account[r], c) /\ Finds(r, c)
  /\ Proceed(r, "insert")
  /\ UNCHANGED <<sessions, subscriber, history, eventVars, customerRow, rowVars, deliveryVars,
                 account, faults>>

\* Mutant: the loser of the race goes on with the customer it made.
KeepOwnCustomer == "session"

\* accountId is unique: the loser reads the winner's row.
AfterCustomerConflict == "reread"

InsertCustomer(r) ==
  /\ rpc[r] = "insert"
  /\ IF customerRow[account[r]] = None
     THEN customerRow' = [customerRow EXCEPT ![account[r]] = found[r]] /\ Proceed(r, "session")
     ELSE UNCHANGED customerRow /\ Proceed(r, AfterCustomerConflict)
  /\ UNCHANGED <<stripeVars, eventVars, rowVars, deliveryVars, account, found, faults>>

RereadCustomer(r) ==
  /\ rpc[r] = "reread"
  /\ Finds(r, customerRow[account[r]])
  /\ Proceed(r, "session")
  /\ UNCHANGED <<stripeVars, eventVars, customerRow, rowVars, deliveryVars, account, faults>>

CreateSession(r) ==
  /\ rpc[r] = "session"
  /\ sessions' = [sessions EXCEPT ![r] = found[r]]
  /\ EndCheckout(r)
  /\ UNCHANGED <<keyed, made, subscriber, history, eventVars, customerRow, rowVars,
                 deliveryVars, faults>>

\* An await fails: a 500.  Stripe may have created the customer all the same.
CheckoutFault(r) ==
  /\ faults < MaxFaults
  /\ rpc[r] \notin {"start", "end"}
  /\ faults' = faults + 1
  /\ \/ UNCHANGED <<keyed, made>>
     \/ rpc[r] = "createCustomer" /\ \E c \in Customers : StripeCreates(account[r], c)
  /\ EndCheckout(r)
  /\ UNCHANGED <<sessions, subscriber, history, eventVars, customerRow, rowVars, deliveryVars>>

-----------------------------------------------------------------------------
(* Stripe.                                                                 *)

Version(s) == Len(history[s])

\* An idempotency key is forgotten after a day.
KeyExpires(a) ==
  /\ keyed[a] # None
  /\ keyed' = [keyed EXCEPT ![a] = None]
  /\ UNCHANGED <<made, sessions, subscriber, history, eventVars, customerRow, rowVars,
                 deliveryVars, checkoutVars, faults>>

\* The user pays: a subscription, which does not start canceled.
CompleteCheckout(r, s, st) ==
  /\ sessions[r] # None
  /\ subscriber[s] = None
  /\ st # "canceled"
  /\ sessions' = [sessions EXCEPT ![r] = None]
  /\ subscriber' = [subscriber EXCEPT ![s] = sessions[r]]
  /\ history' = [history EXCEPT ![s] = <<st>>]
  /\ sent' = sent \cup {[sub |-> s, version |-> 0], [sub |-> s, version |-> 1]}
  /\ UNCHANGED <<keyed, made, acked, customerRow, rowVars, deliveryVars, checkoutVars, faults>>

\* A renewal, a failed payment, a cancellation in the Portal: "canceled" is final.
ChangeSubscription(s, st) ==
  /\ subscriber[s] # None
  /\ Version(s) < MaxChanges
  /\ history[s][Version(s)] \notin {"canceled", st}
  /\ history' = [history EXCEPT ![s] = Append(@, st)]
  /\ sent' = sent \cup {[sub |-> s, version |-> Version(s) + 1]}
  /\ UNCHANGED <<keyed, made, sessions, subscriber, acked, customerRow, rowVars, deliveryVars,
                 checkoutVars, faults>>

-----------------------------------------------------------------------------
(* POST /webhooks/stripe                                                   *)

Goto(d, label) == pc' = [pc EXCEPT ![d] = label]

EndDelivery(d) ==
  /\ Goto(d, "idle")
  /\ event' = [event EXCEPT ![d] = NoEvent]
  /\ snapshot' = [snapshot EXCEPT ![d] = 0]
  /\ owner' = [owner EXCEPT ![d] = None]

\* SUPPORTED_SUBSCRIPTION_EVENT_TYPES: any other event is acknowledged and
\* dropped before anything is read from it.
Supported(e) == e.version > 0

\* Stripe delivers in any order, and an event it has had no answer for again.
Receive(d, e) ==
  /\ pc[d] = "idle"
  /\ e \in sent
  /\ event' = [event EXCEPT ![d] = e]
  /\ Goto(d, IF Supported(e) THEN "fetch" ELSE "ok")
  /\ UNCHANGED <<stripeVars, eventVars, customerRow, rowVars, snapshot, owner, checkoutVars, faults>>

\* Mutant: the payload is believed.
SnapshotInPayload(e) == e.version

\* getSubscription: the subscription as it is now, whatever the event says.
CanonicalSnapshot(e) == Version(e.sub)

Fetch(d) ==
  /\ pc[d] = "fetch"
  /\ snapshot' = [snapshot EXCEPT ![d] = CanonicalSnapshot(event[d])]
  /\ Goto(d, "resolve")
  /\ UNCHANGED <<stripeVars, eventVars, customerRow, rowVars, event, owner, checkoutVars, faults>>

\* findByStripeCustomerId of the canonical customer; 502 if there is none.
Resolve(d) ==
  /\ pc[d] = "resolve"
  /\ \/ \E a \in Accounts :
          /\ customerRow[a] = subscriber[event[d].sub]
          /\ owner' = [owner EXCEPT ![d] = a]
          /\ Goto(d, "persist")
     \/ /\ \A a \in Accounts : customerRow[a] # subscriber[event[d].sub]
        /\ UNCHANGED owner
        /\ Goto(d, "failed")
  /\ UNCHANGED <<stripeVars, eventVars, customerRow, rowVars, event, snapshot, checkoutVars, faults>>

\* Mutant: only an existing row takes the snapshot.
UpsertInTwoSteps(a, s, v) ==
  IF rowSub[a] = s
  THEN rowVersion' = [rowVersion EXCEPT ![a] = v] /\ UNCHANGED rowSub
  ELSE rowSub' = [rowSub EXCEPT ![a] = s] /\ UNCHANGED rowVersion

\* upsertByProviderSubscriptionId: the update leaves the account alone.
Upsert(a, s, v) ==
  IF \E b \in Accounts : rowSub[b] = s
  THEN /\ rowVersion' = [b \in Accounts |-> IF rowSub[b] = s THEN v ELSE rowVersion[b]]
       /\ UNCHANGED rowSub
  ELSE /\ rowSub' = [rowSub EXCEPT ![a] = s]
       /\ rowVersion' = [rowVersion EXCEPT ![a] = v]

\* P2002: the event is in the ledger already, or the account has the row of
\* another subscription (Subscription.accountId is unique).
Conflict(e, a) ==
  \/ e \in ledger
  \/ rowSub[a] \notin {None, e.sub}

\* The transaction.  Any conflict rolls it back and counts as a duplicate.
Persist(d) ==
  /\ pc[d] = "persist"
  /\ IF Conflict(event[d], owner[d])
     THEN UNCHANGED rowVars
     ELSE /\ ledger' = ledger \cup {event[d]}
          /\ Upsert(owner[d], event[d].sub, snapshot[d])
  /\ Goto(d, "ok")
  /\ UNCHANGED <<stripeVars, eventVars, customerRow, event, snapshot, owner, checkoutVars, faults>>

\* The answer: after a 2xx Stripe sends the event no more.
Answer(d) ==
  /\ pc[d] \in {"ok", "failed"}
  /\ IF pc[d] = "ok"
     THEN sent' = sent \ {event[d]} /\ acked' = acked \cup {event[d]}
     ELSE UNCHANGED eventVars
  /\ EndDelivery(d)
  /\ UNCHANGED <<stripeVars, customerRow, rowVars, checkoutVars, faults>>

\* An await fails, or the answer is lost: the event will come again.
DeliveryFault(d) ==
  /\ faults < MaxFaults
  /\ pc[d] # "idle"
  /\ faults' = faults + 1
  /\ EndDelivery(d)
  /\ UNCHANGED <<stripeVars, eventVars, customerRow, rowVars, checkoutVars>>

-----------------------------------------------------------------------------

CheckoutStep(r) ==
  \/ FindCustomer(r) \/ CreateCustomer(r) \/ InsertCustomer(r) \/ RereadCustomer(r)
  \/ CreateSession(r)

DeliveryStep(d) == Fetch(d) \/ Resolve(d) \/ Persist(d) \/ Answer(d)

Next ==
  \/ \E r \in Checkouts :
       \/ \E a \in Accounts : StartCheckout(r, a)
       \/ CheckoutStep(r) \/ CheckoutFault(r)
       \/ \E s \in Subscriptions, st \in Statuses : CompleteCheckout(r, s, st)
  \/ \E a \in Accounts : KeyExpires(a)
  \/ \E s \in Subscriptions, st \in Statuses : ChangeSubscription(s, st)
  \/ \E d \in Deliveries :
       \/ \E e \in Event : Receive(d, e)
       \/ DeliveryStep(d) \/ DeliveryFault(d)

Spec == Init /\ [][Next]_vars

(***************************************************************************)
(* Fairness: Stripe sends every event until it is acknowledged, and a      *)
(* request that has begun ends.                                            *)
(***************************************************************************)
Fairness ==
  /\ \A e \in Event : WF_vars(\E d \in Deliveries : Receive(d, e))
  /\ \A d \in Deliveries : WF_vars(DeliveryStep(d))

FairSpec == Spec /\ Fairness

-----------------------------------------------------------------------------
(* Properties.                                                             *)

\* "Checkout always creates a BillingCustomer before a Subscription can exist"
\* (stripe-webhook.ts:65-67): however the checkouts race, and whenever the
\* idempotency key lapses, no session is opened for a customer that the
\* database does not know.
EverySubscriberIsKnown ==
  \A s \in Subscriptions :
    subscriber[s] # None => \E a \in Accounts : customerRow[a] = subscriber[s]

\* The snapshot of a row is one of a subscription of the account's own
\* customer, and was true at some time: nobody is Pro on account of another's
\* payment, or of a status that was never given (stripe-webhook.ts:50-54).
RowIsOwnSnapshot ==
  \A a \in Accounts :
    rowSub[a] # None => /\ subscriber[rowSub[a]] = customerRow[a]
                        /\ rowVersion[a] \in 1..Version(rowSub[a])

\* In the end the row tells what Stripe tells, however often events fail, get
\* lost on the way back or come in another order, provided that they are
\* processed one at a time and the account never has a second subscription.
OneAtATime == Cardinality({d \in Deliveries : pc[d] # "idle"}) <= 1
OneSubscription ==
  \A s, t \in Subscriptions : subscriber[s] = subscriber[t] /\ subscriber[s] # None => s = t
RowIsCurrent(s) == \E a \in Accounts : rowSub[a] = s /\ rowVersion[a] = Version(s)
RowsConverge ==
  [](OneAtATime /\ OneSubscription)
    => \A s \in Subscriptions : subscriber[s] # None ~> RowIsCurrent(s)

\* An event is answered 200 only if it was processed, or was before ("Duplicate
\* delivery of an already-processed Event", stripe-webhook.ts:91-93).
AcknowledgedIsProcessed == \A e \in acked : Supported(e) => e \in ledger

=============================================================================
