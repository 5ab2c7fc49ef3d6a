--------------------------- MODULE Session_proofs ---------------------------
(***************************************************************************)
(* Who may see what, for any number of users, resources and requests at    *)
(* once, and any bound on the faults.                                      *)
(***************************************************************************)
EXTENDS Session, TLAPS

\* What App.vue knows of the session from the moment Clerk has loaded on.
AuthInv ==
  /\ isSignedIn <=> clerkLoaded /\ user # None
  /\ redirecting => clerkLoaded /\ ~isAuthLoaded
  /\ clerkLoaded => tokenGetter

\* What a request has passed by the await it is at.  Only the loser of an
\* insert comes to read again, and accounts are never removed.
RequestInv ==
  \A r \in Requests :
    /\ pc[r] # "idle" => resource[r] \in Resources
    /\ pc[r] \notin {"idle", "verify", "done"} => token[r] \in Users
    /\ pc[r] = "reread" => token[r] \in accounts
    /\ pc[r] = "entitled" => Owner[resource[r]] = token[r]

IInv ==
  /\ AuthInv
  /\ RequestInv
  /\ ConflictIsHidden
  /\ OnlyVerifiedServed
  /\ NoOracle

USE NoneAssumption, RouteAssumption, OwnerAssumption, FaultsAssumption

-----------------------------------------------------------------------------
(* The steps of a request on the server.                                   *)

\* Its steps keep the types, whatever they answer.
LEMMA ServerTypeOK ==
  ASSUME TypeOK, IInv, NEW r \in Requests, ServerStep(r)
  PROVE  TypeOK'
<1>1. /\ UNCHANGED <<clerkVars, authVars, routeVars, token, resource>>
      /\ pc[r] \in ServerPc
  BY DEF ServerStep, Serve, AwaitFails, Verify, VerifyInvalid, FindAccount, InsertAccount,
         RereadAccount, UpdateProfile, CheckEmail, CheckOwner, CheckEntitlement, Goto, Reply,
         ServerPc
<1>2. /\ pc' \in [Requests -> RequestPc] /\ answer' \in [Requests -> Answers]
      /\ \A q \in Requests : answer'[q] # "none" <=> pc'[q] = "done"
  <2>1. \/ \E label \in ServerPc : Goto(r, label)
        \/ \E what \in Answers \ {"none"} : Reply(r, what)
    BY DEF ServerStep, Serve, AwaitFails, Verify, VerifyInvalid, FindAccount, InsertAccount,
           RereadAccount, UpdateProfile, CheckEmail, CheckOwner, CheckEntitlement,
           ServerPc, Answers
  <2>2. CASE \E label \in ServerPc : Goto(r, label)
    BY <1>1, <2>2 DEF Goto, TypeOK, RequestPc, ServerPc
  <2>3. CASE \E what \in Answers \ {"none"} : Reply(r, what)
    BY <2>3 DEF Reply, TypeOK, RequestPc
  <2>4. QED  BY <2>1, <2>2, <2>3
<1>3. /\ accounts' \subseteq Users /\ rowVerified' \in [Users -> BOOLEAN]
      /\ principal' \in [Requests -> BOOLEAN]
  <2>1. CASE Verify(r)
    <3>1. UNCHANGED accountVars  BY <2>1 DEF Verify
    <3>2. CASE token[r] = None  BY <2>1, <3>1, <3>2 DEF Verify, TypeOK, accountVars
    <3>3. CASE token[r] # None
      <4>1. principal' = [principal EXCEPT ![r] = token[r] \in verified]
        BY <2>1, <3>3 DEF Verify
      <4>2. CASE token[r] \in verified
        <5>1. principal' = [principal EXCEPT ![r] = TRUE]  BY <4>1, <4>2, Zenon
        <5>2. QED  BY <3>1, <5>1 DEF TypeOK, accountVars
      <4>3. CASE token[r] \notin verified
        <5> DEFINE v == token[r] \in verified
        <5>0. v = FALSE  BY <4>3
        <5> HIDE DEF v
        <5>1. principal' = [principal EXCEPT ![r] = FALSE]
          <6>1. principal' = [principal EXCEPT ![r] = v]  BY <4>1 DEF v
          <6>2. QED  BY <5>0, <6>1
        <5>2. QED  BY <3>1, <5>1 DEF TypeOK, accountVars
      <4>4. QED  BY <4>2, <4>3
    <3>4. QED  BY <3>2, <3>3
  <2>2. CASE InsertAccount(r)
    BY <2>2 DEF InsertAccount, TypeOK, accountVars, IInv, RequestInv
  <2>3. CASE UpdateProfile(r)  BY <2>3 DEF UpdateProfile, TypeOK
  <2>4. CASE UNCHANGED <<accountVars, principal>>  BY <2>4 DEF accountVars, TypeOK
  <2>5. QED
    BY <2>1, <2>2, <2>3, <2>4 DEF ServerStep, Serve, AwaitFails, VerifyInvalid, FindAccount,
       RereadAccount, CheckEmail, CheckOwner, CheckEntitlement
<1>4. faults' \in Nat /\ hit' \subseteq Requests
  BY DEF ServerStep, Serve, AwaitFails, Strike, faultVars, TypeOK
<1>5. QED  BY <1>1, <1>2, <1>3, <1>4 DEF TypeOK, clerkVars, authVars, routeVars

\* One request moves: what it has passed is kept, and so is what it may answer.
LEMMA ServerIInv ==
  ASSUME TypeOK, IInv, NEW r \in Requests, ServerStep(r)
  PROVE  IInv'
<1>1. /\ UNCHANGED <<clerkVars, authVars, token, resource>>
      /\ \A q \in Requests : q # r => pc'[q] = pc[q] /\ answer'[q] = answer[q]
                                      /\ principal'[q] = principal[q]
      /\ hit \subseteq hit' /\ accounts \subseteq accounts'
  <2>1. /\ UNCHANGED <<clerkVars, authVars, token, resource>>
        /\ hit \subseteq hit' /\ accounts \subseteq accounts'
    BY DEF ServerStep, Serve, AwaitFails, Verify, VerifyInvalid, FindAccount, InsertAccount,
           RereadAccount, UpdateProfile, CheckEmail, CheckOwner, CheckEntitlement, Goto, Reply,
           Strike, faultVars, accountVars
  <2>2. \A q \in Requests : q # r => pc'[q] = pc[q] /\ answer'[q] = answer[q]
    BY DEF ServerStep, Serve, AwaitFails, Verify, VerifyInvalid, FindAccount, InsertAccount,
           RereadAccount, UpdateProfile, CheckEmail, CheckOwner, CheckEntitlement, Goto, Reply,
           TypeOK
  <2>3. \A q \in Requests : q # r => principal'[q] = principal[q]
    BY DEF ServerStep, Serve, AwaitFails, Verify, VerifyInvalid, FindAccount, InsertAccount,
           RereadAccount, UpdateProfile, CheckEmail, CheckOwner, CheckEntitlement, TypeOK
  <2>4. QED  BY <2>1, <2>2, <2>3
<1>2. AuthInv'  BY <1>1 DEF clerkVars, authVars, IInv, AuthInv
<1>3. SUFFICES
        /\ pc'[r] # "idle" => resource[r] \in Resources
        /\ pc'[r] \notin {"idle", "verify", "done"} => token[r] \in Users
        /\ pc'[r] = "reread" => token[r] \in accounts'
        /\ pc'[r] = "entitled" => Owner[resource[r]] = token[r]
        /\ answer'[r] = "error" => r \in hit'
        /\ pc'[r] \in {"owned", "entitled"} \/ answer'[r] \in {"served", "notFound", "notEntitled"}
             => principal'[r]
        /\ answer'[r] = "notEntitled" => Owner[resource[r]] = token[r]
  <2>1. RequestInv'  BY <1>1, <1>3 DEF IInv, RequestInv
  <2>2. ConflictIsHidden'  BY <1>1, <1>3 DEF IInv, ConflictIsHidden
  <2>3. OnlyVerifiedServed'  BY <1>1, <1>3 DEF IInv, OnlyVerifiedServed
  <2>4. NoOracle'  BY <1>1, <1>3 DEF IInv, NoOracle
  <2>5. QED  BY <1>2, <2>1, <2>2, <2>3, <2>4 DEF IInv
<1>4. (pc[r] # "idle" /\ resource[r] \in Resources /\ answer[r] = "none") \/ pc[r] = "done"
  BY DEF TypeOK, Answers, IInv, RequestInv, ServerStep, Serve, AwaitFails, Verify, VerifyInvalid,
         FindAccount, InsertAccount, RereadAccount, UpdateProfile, CheckEmail, CheckOwner,
         CheckEntitlement
<1> USE DEF TypeOK, IInv, RequestInv, ConflictIsHidden, OnlyVerifiedServed, NoOracle, Goto, Reply
<1>5. CASE Verify(r)  BY <1>4, <1>5 DEF Verify
<1>6. CASE VerifyInvalid(r)  BY <1>4, <1>6 DEF VerifyInvalid
<1>7. CASE FindAccount(r)  BY <1>4, <1>7 DEF FindAccount
<1>8. CASE InsertAccount(r)  BY <1>1, <1>4, <1>8 DEF InsertAccount, accountVars
<1>9. CASE RereadAccount(r)  BY <1>4, <1>9 DEF RereadAccount
<1>10. CASE UpdateProfile(r)  BY <1>4, <1>10 DEF UpdateProfile
<1>11. CASE CheckEmail(r)  BY <1>4, <1>11 DEF CheckEmail
<1>12. CASE CheckOwner(r)  BY <1>4, <1>12 DEF CheckOwner
<1>13. CASE CheckEntitlement(r)  BY <1>4, <1>13 DEF CheckEntitlement
<1>14. CASE AwaitFails(r)  BY <1>4, <1>14 DEF AwaitFails, Strike
<1>15. QED
  BY <1>5, <1>6, <1>7, <1>8, <1>9, <1>10, <1>11, <1>12, <1>13, <1>14 DEF ServerStep, Serve

-----------------------------------------------------------------------------
(* The steps of the browser.                                               *)

\* What App.vue does by itself, while no request moves.
BrowserStep ==
  \/ \E to \in Routes : Navigate(to)
  \/ \E u \in Users : SignIn(u) \/ ChangeEmail(u)
  \/ SignOut \/ LoadClerk \/ FinishLoading \/ FinishNavigation

\* It leaves what is on the server alone.
LEMMA BrowserLeavesRequests ==
  ASSUME BrowserStep
  PROVE  UNCHANGED <<accountVars, requestVars, faultVars>>
  BY DEF BrowserStep, Navigate, SignIn, ChangeEmail, SignOut, LoadClerk, FinishLoading,
         FinishNavigation

\* It keeps the types of the session and of the routes, and what is known of
\* the session from the moment Clerk has loaded on.
LEMMA BrowserKeeps ==
  ASSUME TypeOK, IInv, BrowserStep
  PROVE  TypeOK' /\ IInv'
<1>1. UNCHANGED <<accountVars, requestVars, faultVars>>  BY BrowserLeavesRequests
<1>2. IInv' <=> AuthInv'
  BY <1>1 DEF accountVars, requestVars, faultVars, IInv, RequestInv, ConflictIsHidden,
     OnlyVerifiedServed, NoOracle
<1>3. SUFFICES AuthInv' /\ TypeOK'  BY <1>2
<1> USE DEF TypeOK, IInv, AuthInv, accountVars, requestVars, faultVars, clerkVars, authVars,
            routeVars
<1>4. CASE \E to \in Routes : Navigate(to)
  BY <1>1, <1>4 DEF Navigate, Guard, Routes
<1>5. CASE \E u \in Users : SignIn(u)  BY <1>1, <1>5 DEF SignIn
<1>6. CASE \E u \in Users : ChangeEmail(u)  BY <1>1, <1>6 DEF ChangeEmail
<1>7. CASE SignOut  BY <1>1, <1>7 DEF SignOut, RedirectIfProtected, Routes
<1>8. CASE LoadClerk  BY <1>1, <1>8 DEF LoadClerk, RedirectIfProtected, Render, Routes, Protected
<1>9. CASE FinishLoading  BY <1>1, <1>9 DEF FinishLoading, Render
<1>10. CASE FinishNavigation  BY <1>1, <1>10 DEF FinishNavigation, Render
<1>11. QED
  BY <1>4, <1>5, <1>6, <1>7, <1>8, <1>9, <1>10 DEF BrowserStep

\* A page sends a request: its own slot is the only one that changes.
LEMMA RequestKeeps ==
  ASSUME TypeOK, IInv, NEW r \in Requests, NEW x \in Resources, Request(r, x)
  PROVE  TypeOK' /\ IInv'
<1>1. UNCHANGED <<clerkVars, accountVars, authVars, current, pending, principal, answer, faultVars>>
      /\ pc[r] = "idle" /\ pc' = [pc EXCEPT ![r] = "verify"] /\ Mounted /\ fetch' = "sent"
      /\ resource' = [resource EXCEPT ![r] = x]
  BY DEF Request
<1>2. token' \in [Requests -> Users \cup {None}] /\ \A q \in Requests : q # r => token'[q] = token[q]
  BY DEF Request, TypeOK
<1>3. TypeOK'
  BY <1>1, <1>2 DEF TypeOK, clerkVars, accountVars, authVars, faultVars, Mounted, RequestPc,
     ServerPc
<1>4. answer[r] = "none"  BY <1>1 DEF TypeOK
<1>5. AuthInv'  BY <1>1 DEF IInv, AuthInv, clerkVars, authVars
<1>6. RequestInv'  BY <1>1, <1>2 DEF TypeOK, IInv, RequestInv, accountVars
<1>7. ConflictIsHidden' /\ OnlyVerifiedServed' /\ NoOracle'
  BY <1>1, <1>2, <1>4 DEF TypeOK, IInv, ConflictIsHidden, OnlyVerifiedServed, NoOracle, faultVars
<1>8. QED  BY <1>3, <1>5, <1>6, <1>7 DEF IInv

\* The answer has arrived, or is lost, and its slot is free again.
LEMMA ReturnKeeps ==
  ASSUME TypeOK, IInv, NEW r \in Requests, Deliver(r) \/ LoseAnswer(r)
  PROVE  TypeOK' /\ IInv'
<1>1. UNCHANGED <<clerkVars, accountVars, authVars, current>> /\ Free(r) /\ hit' = hit \ {r}
      /\ faults' \in Nat
      /\ pending' \in Routes \cup {None}
      /\ \/ fetch' = fetch
         \/ fetch = "sent" /\ fetch' = "failed"
  <2>1. CASE Deliver(r)  BY <2>1 DEF Deliver, RedirectIfProtected, TypeOK, Routes
  <2>2. CASE LoseAnswer(r)  BY <2>2 DEF LoseAnswer, TypeOK
  <2>3. QED  BY <2>1, <2>2
<1>2. TypeOK'
  BY <1>1 DEF TypeOK, clerkVars, accountVars, authVars, Free, RequestPc, Answers
<1>3. AuthInv'  BY <1>1 DEF IInv, AuthInv, clerkVars, authVars
<1>4. RequestInv'  BY <1>1 DEF TypeOK, IInv, RequestInv, accountVars, Free
<1>5. ConflictIsHidden' /\ OnlyVerifiedServed' /\ NoOracle'
  BY <1>1 DEF TypeOK, IInv, ConflictIsHidden, OnlyVerifiedServed, NoOracle, Free
<1>6. QED  BY <1>2, <1>3, <1>4, <1>5 DEF IInv

-----------------------------------------------------------------------------
(* The theorems.                                                           *)

LEMMA NextCases ==
  ASSUME Next
  PROVE  \/ \E r \in Requests : ServerStep(r) \/ Deliver(r) \/ LoseAnswer(r)
         \/ \E r \in Requests, x \in Resources : Request(r, x)
         \/ BrowserStep
  BY DEF Next, BrowserStep

LEMMA InitInv == Init => TypeOK /\ IInv
<1> SUFFICES ASSUME Init PROVE TypeOK /\ IInv
  OBVIOUS
<1>1. TypeOK  BY DEF Init, TypeOK, RequestPc, Answers
<1>2. IInv
  BY DEF Init, IInv, AuthInv, RequestInv, ConflictIsHidden, OnlyVerifiedServed, NoOracle
<1>3. QED  BY <1>1, <1>2

LEMMA NextInv == TypeOK /\ IInv /\ [Next]_vars => TypeOK' /\ IInv'
<1> SUFFICES ASSUME TypeOK, IInv, [Next]_vars PROVE TypeOK' /\ IInv'
  OBVIOUS
<1>1. CASE UNCHANGED vars
  BY <1>1 DEF vars, TypeOK, IInv, AuthInv, RequestInv, ConflictIsHidden, OnlyVerifiedServed,
     NoOracle
<1>2. CASE \E r \in Requests : ServerStep(r) \/ Deliver(r) \/ LoseAnswer(r)
  BY <1>2, ServerTypeOK, ServerIInv, ReturnKeeps
<1>3. CASE \E r \in Requests, x \in Resources : Request(r, x)  BY <1>3, RequestKeeps
<1>4. CASE BrowserStep  BY <1>4, BrowserKeeps
<1>5. QED  BY <1>1, <1>2, <1>3, <1>4, NextCases

LEMMA Invariance == Spec => [](TypeOK /\ IInv)
  BY InitInv, NextInv, PTL DEF Spec

\* The variables have their types: in particular a page that fetches is only
\* on screen once the session is known.
THEOREM TypeCorrect == Spec => []TypeOK
  BY Invariance, PTL

\* The loser of the race to insert an account's row is served like the winner
\* (upsertByAuthSubject).
THEOREM ConflictsAreHidden == Spec => []ConflictIsHidden
<1>1. IInv => ConflictIsHidden  BY DEF IInv
<1>2. QED  BY <1>1, Invariance, PTL

\* Nothing is done for an address that Clerk did not call verified in the very
\* request (requireVerifiedEmail).
THEOREM OnlyVerifiedAreServed == Spec => []OnlyVerifiedServed
<1>1. IInv => OnlyVerifiedServed  BY DEF IInv
<1>2. QED  BY <1>1, Invariance, PTL

\* A missing entitlement is said only of one's own resource
\* (requireOwnedAnalysis before requireEntitlement).
THEOREM NothingToldOfOthers == Spec => []NoOracle
<1>1. IInv => NoOracle  BY DEF IInv
<1>2. QED  BY <1>1, Invariance, PTL

\* A request of a visitor who is signed in carries his token: App.vue installs
\* the getter before it mounts a page (LoadClerk).
THEOREM TokensOfSignedIn == Spec => TokenOfSignedIn
<1>1. TypeOK /\ IInv /\ [Next]_vars =>
        [\A r \in Requests :
           pc[r] = "idle" /\ pc'[r] = "verify" /\ user # None => token'[r] = user]_vars
  <2> SUFFICES ASSUME TypeOK, IInv, Next, NEW r \in Requests,
                      pc[r] = "idle", pc'[r] = "verify"
               PROVE  token'[r] = user
    OBVIOUS
  <2>1. CASE BrowserStep  BY <2>1, BrowserLeavesRequests DEF requestVars
  <2>2. ASSUME NEW q \in Requests, ServerStep(q)
        PROVE  FALSE
    BY <2>2 DEF ServerStep, Serve, AwaitFails, Verify, VerifyInvalid, FindAccount, InsertAccount,
       RereadAccount, UpdateProfile, CheckEmail, CheckOwner, CheckEntitlement, Goto, Reply, TypeOK
  <2>3. ASSUME NEW q \in Requests, Deliver(q) \/ LoseAnswer(q)
        PROVE  FALSE
    BY <2>3 DEF Deliver, LoseAnswer, Free, TypeOK
  <2>4. ASSUME NEW q \in Requests, NEW x \in Resources, Request(q, x)
        PROVE  token'[r] = user
    BY <2>4 DEF Request, Mounted, TypeOK, IInv, AuthInv
  <2>5. QED  BY <2>1, <2>2, <2>3, <2>4, NextCases
<1>2. QED  BY <1>1, Invariance, PTL DEF Spec, TokenOfSignedIn

\* Only a 401 sends a visitor with a session to the sign-in page: neither the
\* guard nor a watcher of App.vue does, whenever the session becomes known.
THEOREM SignedInStay == Spec => SignedInStaysIn
<1>1. TypeOK /\ IInv /\ [Next]_vars =>
        [user # None /\ user' # None /\ current # "sign-in"
           /\ pending # "sign-in" /\ pending' = "sign-in"
         => \E r \in Requests : answer[r] = "unauthorized" /\ answer'[r] = "none"]_vars
  <2> SUFFICES ASSUME TypeOK, IInv, Next, user # None, user' # None,
                      pending # "sign-in", pending' = "sign-in"
               PROVE  \E r \in Requests : answer[r] = "unauthorized" /\ answer'[r] = "none"
    OBVIOUS
  <2>1. CASE BrowserStep
    <3>1. ASSUME NEW to \in Routes, Navigate(to)
          PROVE  FALSE
      BY <3>1 DEF Navigate, Guard, Protected, TypeOK, IInv, AuthInv
    <3>2. ASSUME NEW u \in Users, SignIn(u) \/ ChangeEmail(u)
          PROVE  FALSE
      BY <3>2 DEF SignIn, ChangeEmail, routeVars
    <3>3. CASE SignOut  BY <3>3 DEF SignOut
    <3>4. CASE LoadClerk  BY <3>4 DEF LoadClerk
    <3>5. CASE FinishLoading  BY <3>5 DEF FinishLoading
    <3>6. CASE FinishNavigation  BY <3>6 DEF FinishNavigation, Routes
    <3>7. QED  BY <2>1, <3>1, <3>2, <3>3, <3>4, <3>5, <3>6 DEF BrowserStep
  <2>2. ASSUME NEW q \in Requests, ServerStep(q)
        PROVE  FALSE
    BY <2>2 DEF ServerStep, routeVars
  <2>3. ASSUME NEW q \in Requests, Deliver(q)
        PROVE  answer[q] = "unauthorized" /\ answer'[q] = "none"
    BY <2>3 DEF Deliver, Rejections, Free, TypeOK
  <2>4. ASSUME NEW q \in Requests, LoseAnswer(q)
        PROVE  FALSE
    BY <2>4 DEF LoseAnswer
  <2>5. ASSUME NEW q \in Requests, NEW x \in Resources, Request(q, x)
        PROVE  FALSE
    BY <2>5 DEF Request
  <2>6. QED  BY <2>1, <2>2, <2>3, <2>4, <2>5, NextCases
<1>2. QED  BY <1>1, Invariance, PTL DEF Spec, SignedInStaysIn
=============================================================================
