------------------------------ MODULE Session ------------------------------
(***************************************************************************)
(* Who may see what: the session in the browser (App.vue, the router and   *)
(* apiFetch of apps/web) composed with what every protected request goes   *)
(* through in apps/api (the authenticate and requireVerifiedEmail hooks,   *)
(* requireOwned..., requireEntitlement) and with the account it provisions.*)
(*                                                                         *)
(* Clerk is external: it has a session or not, it may be out, and a token  *)
(* may have expired.  current is the route on screen and pending the one a *)
(* navigation under way leads to: the component of a route is loaded       *)
(* lazily, so much can happen before it is there.                          *)
(***************************************************************************)
EXTENDS Naturals

CONSTANTS
  Users,      \* the subjects who sign in in this browser
  Resources,  \* ids of Projects and Analyses a request may name
  Owner,      \* whose they are: None if there is no such row
  Requests,   \* slots for requests that are under way at once
  None,       \* null
  MaxFaults   \* bound on outages, failing awaits and lost connections

ASSUME NoneAssumption == None \notin Users \cup Resources
ASSUME OwnerAssumption == DOMAIN Owner = Resources
ASSUME FaultsAssumption == MaxFaults \in Nat

VARIABLES
  user, verified,     \* Clerk: the browser's session, the verified addresses
  accounts,           \* the Account rows, by authSubject
  rowVerified,        \* Account.emailVerified
  clerkLoaded, tokenGetter,  \* isLoaded of useAuth, tokenGetter of the client
  isAuthLoaded, isSignedIn,  \* auth-state.ts
  redirecting,        \* the isLoaded watcher awaits its router.replace
  current, pending,   \* the route, and where a navigation leads to
  fetch,              \* the first request of the page on screen
  pc, token, principal, resource, answer,  \* per request
  faults, hit

clerkVars   == <<user, verified>>
accountVars == <<accounts, rowVerified>>
authVars    == <<clerkLoaded, tokenGetter, isAuthLoaded, isSignedIn, redirecting>>
routeVars   == <<current, pending, fetch>>
requestVars == <<pc, token, principal, resource, answer>>
faultVars   == <<faults, hit>>
vars == <<user, verified, accounts, rowVerified, clerkLoaded, tokenGetter, isAuthLoaded,
          isSignedIn, redirecting, current, pending, fetch, pc, token, principal,
          resource, answer, faults, hit>>

\* "page" stands for the protected pages that fetch as they are mounted,
\* "form" for those that do not (upload, new project, account), "sign-in" for
\* the two that need no session.
Protected == {"page", "form"}
Routes == Protected \cup {"sign-in"}

ASSUME RouteAssumption == None \notin Routes

ServerPc == {"verify", "find", "insert", "reread", "profile", "email", "owned", "entitled"}
RequestPc == ServerPc \cup {"idle", "done"}

\* 401, 503, 403 EMAIL_VERIFICATION_REQUIRED, 404, 403 ENTITLEMENT_REQUIRED,
\* 500, and what the route answers.
Answers == {"none", "unauthorized", "unavailable", "unverified", "notFound",
            "notEntitled", "error", "served"}

TypeOK ==
  /\ user \in Users \cup {None} /\ verified \subseteq Users
  /\ accounts \subseteq Users
  /\ rowVerified \in [Users -> BOOLEAN]
  /\ clerkLoaded \in BOOLEAN /\ tokenGetter \in BOOLEAN
  /\ isAuthLoaded \in BOOLEAN /\ isSignedIn \in BOOLEAN /\ redirecting \in BOOLEAN
  /\ isAuthLoaded => clerkLoaded /\ ~redirecting /\ (isSignedIn <=> user # None)
  /\ current \in Routes \cup {"start"}
  /\ pending \in Routes \cup {None}
  /\ fetch \in {"none", "due", "sent", "failed"}
  /\ fetch # "none" => isAuthLoaded /\ current = "page"
  /\ pc \in [Requests -> RequestPc]
  /\ token \in [Requests -> Users \cup {None}]
  /\ principal \in [Requests -> BOOLEAN]
  /\ resource \in [Requests -> Resources \cup {None}]
  /\ answer \in [Requests -> Answers]
  /\ \A r \in Requests : answer[r] # "none" <=> pc[r] = "done"
  /\ faults \in Nat
  /\ hit \subseteq Requests

\* A tab is opened at any URL, with or without a session.
Init ==
  /\ user \in Users \cup {None} /\ verified \in SUBSET Users
  /\ accounts = {} /\ rowVerified = [u \in Users |-> FALSE]
  /\ clerkLoaded = FALSE /\ tokenGetter = FALSE
  /\ isAuthLoaded = FALSE /\ isSignedIn = FALSE /\ redirecting = FALSE
  /\ current = "start" /\ pending \in Routes /\ fetch = "none"
  /\ pc = [r \in Requests |-> "idle"]
  /\ token = [r \in Requests |-> None]
  /\ principal = [r \in Requests |-> FALSE]
  /\ resource = [r \in Requests |-> None]
  /\ answer = [r \in Requests |-> "none"]
  /\ faults = 0 /\ hit = {}

Strike(r) ==
  /\ faults < MaxFaults
  /\ faults' = faults + 1
  /\ hit' = hit \cup {r}

-----------------------------------------------------------------------------
(* The hooks of the protected scope, then the route.                       *)

Goto(r, label) == pc' = [pc EXCEPT ![r] = label] /\ UNCHANGED <<token, resource, answer>>

Reply(r, what) ==
  /\ pc' = [pc EXCEPT ![r] = "done"]
  /\ answer' = [answer EXCEPT ![r] = what]
  /\ UNCHANGED <<token, resource>>

\* The principal of this request says what Clerk says of the address now.
Verify(r) ==
  /\ pc[r] = "verify"
  /\ IF token[r] = None
     THEN Reply(r, "unauthorized") /\ UNCHANGED principal
     ELSE /\ Goto(r, "find")
          /\ principal' = [principal EXCEPT ![r] = token[r] \in verified]
  /\ UNCHANGED accountVars

\* A session that has been ended, or a token that has expired.
VerifyInvalid(r) ==
  /\ pc[r] = "verify" /\ token[r] # None /\ token[r] # user
  /\ Reply(r, "unauthorized")
  /\ UNCHANGED <<principal, accountVars>>

\* getOrCreateByAuthSubject: the upsert looks for the row, and inserts one.
FindAccount(r) ==
  /\ pc[r] = "find"
  /\ Goto(r, IF token[r] \in accounts THEN "profile" ELSE "insert")
  /\ UNCHANGED <<principal, accountVars>>

\* Mutant: a conflict is an error like any other.
InsertOrFail(r) ==
  /\ pc[r] = "insert"
  /\ IF token[r] \in accounts
     THEN Reply(r, "error") /\ UNCHANGED accountVars
     ELSE /\ accounts' = accounts \cup {token[r]}
          /\ rowVerified' = [rowVerified EXCEPT ![token[r]] = principal[r]]
          /\ Goto(r, "profile")
  /\ UNCHANGED principal

\* The loser of a race gets a CONFLICT.
InsertAccount(r) ==
  /\ pc[r] = "insert"
  /\ IF token[r] \in accounts
     THEN Goto(r, "reread") /\ UNCHANGED accountVars
     ELSE /\ accounts' = accounts \cup {token[r]}
          /\ rowVerified' = [rowVerified EXCEPT ![token[r]] = principal[r]]
          /\ Goto(r, "profile")
  /\ UNCHANGED principal

RereadAccount(r) ==
  /\ pc[r] = "reread"
  /\ IF token[r] \in accounts THEN Goto(r, "profile") ELSE Reply(r, "error")
  /\ UNCHANGED <<principal, accountVars>>

\* updateProfile, if the row differs.
UpdateProfile(r) ==
  /\ pc[r] = "profile"
  /\ rowVerified' = [rowVerified EXCEPT ![token[r]] = principal[r]]
  /\ Goto(r, "email")
  /\ UNCHANGED <<accounts, principal>>

\* Mutant: the row is asked, not the principal.
CheckRowEmail(r) ==
  /\ pc[r] = "email"
  /\ IF rowVerified[token[r]] THEN Goto(r, "owned") ELSE Reply(r, "unverified")
  /\ UNCHANGED <<principal, accountVars>>

CheckEmail(r) ==
  /\ pc[r] = "email"
  /\ IF principal[r] THEN Goto(r, "owned") ELSE Reply(r, "unverified")
  /\ UNCHANGED <<principal, accountVars>>

\* requireOwnedProject, requireOwnedAnalysis: the row is looked up by its id
\* and its owner.  The lists (GET /projects) are of what one owns.
CheckOwner(r) ==
  /\ pc[r] = "owned"
  /\ IF Owner[resource[r]] = token[r] THEN Goto(r, "entitled") ELSE Reply(r, "notFound")
  /\ UNCHANGED <<principal, accountVars>>

\* Most routes ask for no entitlement; requireEntitlement may refuse.
CheckEntitlement(r) ==
  /\ pc[r] = "entitled"
  /\ \E what \in {"served", "notEntitled"} : Reply(r, what)
  /\ UNCHANGED <<principal, accountVars>>

\* An await fails: an outage of Clerk, a token that expired on its way, a
\* profile that is not refreshed, which is ignored, or the error boundary.
AwaitFails(r) ==
  /\ CASE pc[r] = "verify" /\ token[r] # None -> \E what \in {"unavailable", "unauthorized"} : Reply(r, what)
       [] pc[r] = "profile" -> Goto(r, "email")
       [] pc[r] \in {"find", "insert", "reread", "owned", "entitled"} -> Reply(r, "error")
       [] OTHER -> FALSE
  /\ Strike(r)
  /\ UNCHANGED <<principal, accountVars>>

Serve(r) ==
  /\ \/ Verify(r) \/ VerifyInvalid(r)
     \/ FindAccount(r) \/ InsertAccount(r) \/ RereadAccount(r) \/ UpdateProfile(r)
     \/ CheckEmail(r) \/ CheckOwner(r) \/ CheckEntitlement(r)
  /\ UNCHANGED faultVars

-----------------------------------------------------------------------------
(* The browser.                                                            *)

\* <AppShell v-else>: nothing is mounted before isAuthLoaded.
Mounted == isAuthLoaded /\ current = "page"
Render(loaded, route) == fetch' = IF loaded /\ route = "page" THEN "due" ELSE "none"

\* Mutant: the guard judges a signed-in user by the initial values.
HastyGuard(to) == IF to \in Protected /\ ~isSignedIn THEN "sign-in" ELSE to

\* router.beforeEach: where a navigation really leads to.
Guard(to) == IF to \in Protected /\ isAuthLoaded /\ ~isSignedIn THEN "sign-in" ELSE to

\* A link, or the history buttons, which also work while the page is blank.
\* Nothing leads a visitor with a session to the sign-in page by itself.
Navigate(to) ==
  /\ to = "sign-in" => user = None
  /\ pending' = Guard(to)
  /\ UNCHANGED <<clerkVars, accountVars, authVars, current, fetch, requestVars, faultVars>>

FinishNavigation ==
  /\ pending # None
  /\ current' = pending /\ pending' = None
  /\ Render(isAuthLoaded, pending)
  /\ UNCHANGED <<clerkVars, accountVars, authVars, requestVars, faultVars>>

\* redirectToSignInIfProtected; a route that is only on its way is not seen.
RedirectIfProtected == pending' = IF current \in Protected THEN "sign-in" ELSE pending

\* Mutant: the getter is only installed for a visitor who is signed in.
LoadSignedInOnly ==
  /\ ~clerkLoaded
  /\ clerkLoaded' = TRUE /\ tokenGetter' = (user # None)
  /\ isSignedIn' = (user # None)
  /\ RedirectIfProtected
  /\ redirecting' = (user = None /\ current \in Protected)
  /\ isAuthLoaded' = ~redirecting'
  /\ Render(isAuthLoaded', current)
  /\ UNCHANGED <<clerkVars, accountVars, current, requestVars, faultVars>>

\* The isLoaded watcher, up to its await.
LoadClerk ==
  /\ ~clerkLoaded
  /\ clerkLoaded' = TRUE /\ tokenGetter' = TRUE
  /\ isSignedIn' = (user # None)
  /\ IF user = None THEN RedirectIfProtected ELSE UNCHANGED pending
  /\ redirecting' = (user = None /\ current \in Protected)
  /\ isAuthLoaded' = ~redirecting'
  /\ Render(isAuthLoaded', current)
  /\ UNCHANGED <<clerkVars, accountVars, current, requestVars, faultVars>>

\* The redirect has ended, or another navigation has taken its place.
FinishLoading ==
  /\ redirecting /\ pending # "sign-in"
  /\ redirecting' = FALSE /\ isAuthLoaded' = TRUE
  /\ Render(TRUE, current)
  /\ UNCHANGED <<clerkVars, accountVars, clerkLoaded, tokenGetter, isSignedIn,
                 current, pending, requestVars, faultVars>>

\* The session begins or ends, here or in another tab: the clerkSignedIn watcher.
SignIn(u) ==
  /\ user = None
  /\ user' = u /\ isSignedIn' = clerkLoaded
  /\ UNCHANGED <<verified, accountVars, clerkLoaded, tokenGetter, isAuthLoaded, redirecting,
                 routeVars, requestVars, faultVars>>

SignOut ==
  /\ user # None
  /\ user' = None /\ isSignedIn' = FALSE
  /\ IF isAuthLoaded THEN RedirectIfProtected ELSE UNCHANGED pending
  /\ UNCHANGED <<verified, accountVars, clerkLoaded, tokenGetter, isAuthLoaded, redirecting,
                 current, fetch, requestVars, faultVars>>

\* The primary address is verified, or replaced by one that is not.
ChangeEmail(u) ==
  /\ verified' = IF u \in verified THEN verified \ {u} ELSE verified \cup {u}
  /\ UNCHANGED <<user, accountVars, authVars, routeVars, requestVars, faultVars>>

\* apiFetch: the token is the one of the session there is now.  The await of
\* getToken is part of the step: what runs meanwhile finds the request made
\* either before it or after it.
Request(r, x) ==
  /\ Mounted /\ pc[r] = "idle"
  /\ pc' = [pc EXCEPT ![r] = "verify"]
  /\ token' = [token EXCEPT ![r] = IF tokenGetter THEN user ELSE None]
  /\ resource' = [resource EXCEPT ![r] = x]
  /\ fetch' = "sent"
  /\ UNCHANGED <<clerkVars, accountVars, authVars, current, pending, principal, answer, faultVars>>

Free(r) ==
  /\ pc' = [pc EXCEPT ![r] = "idle"]
  /\ token' = [token EXCEPT ![r] = None]
  /\ principal' = [principal EXCEPT ![r] = FALSE]
  /\ resource' = [resource EXCEPT ![r] = None]
  /\ answer' = [answer EXCEPT ![r] = "none"]

\* Mutant: only the guard of the next navigation notices.
RejectsNone == {}

\* The answers apiFetch calls its authenticationFailureHandler for.
Rejections == {"unauthorized"}

\* Whichever page is on screen by now.
Deliver(r) ==
  /\ pc[r] = "done"
  /\ IF answer[r] \in Rejections THEN RedirectIfProtected ELSE UNCHANGED pending
  /\ Free(r)
  /\ hit' = hit \ {r}
  /\ UNCHANGED <<clerkVars, accountVars, authVars, current, fetch, faults>>

\* The connection breaks: the page shows an error.
LoseAnswer(r) ==
  /\ pc[r] = "done"
  /\ faults < MaxFaults /\ faults' = faults + 1
  /\ fetch' = IF fetch = "sent" THEN "failed" ELSE fetch
  /\ Free(r)
  /\ hit' = hit \ {r}
  /\ UNCHANGED <<clerkVars, accountVars, authVars, current, pending>>

-----------------------------------------------------------------------------
ServerStep(r) ==
  /\ Serve(r) \/ AwaitFails(r)
  /\ UNCHANGED <<clerkVars, authVars, routeVars>>

Next ==
  \/ \E r \in Requests :
       \/ ServerStep(r) \/ Deliver(r) \/ LoseAnswer(r)
       \/ \E x \in Resources : Request(r, x)
  \/ \E to \in Routes : Navigate(to)
  \/ \E u \in Users : SignIn(u) \/ ChangeEmail(u)
  \/ SignOut \/ LoadClerk \/ FinishLoading \/ FinishNavigation

\* Requests are answered, lazy components arrive, and the page that was
\* mounted sends its first request.
Fairness ==
  /\ \A r \in Requests :
       /\ WF_vars(Serve(r) /\ UNCHANGED <<clerkVars, authVars, routeVars>>)
       /\ WF_vars(Deliver(r))
  /\ WF_vars(\E r \in Requests, x \in Resources : fetch = "due" /\ Request(r, x))
  /\ WF_vars(FinishNavigation) /\ WF_vars(FinishLoading)

Spec == Init /\ [][Next]_vars /\ Fairness

-----------------------------------------------------------------------------
(* What the session is for.                                                *)

\* Two first requests of one account, sent at once, race to insert its row:
\* the loser is served like the winner, and nobody sees a 500 unless an
\* await of his own failed.
ConflictIsHidden == \A r \in Requests : answer[r] = "error" => r \in hit

\* What a route does is done only for an address that Clerk called verified
\* in this very request, whatever the row of the account still says.
OnlyVerifiedServed ==
  \A r \in Requests :
    pc[r] \in {"owned", "entitled"} \/ answer[r] \in {"served", "notFound", "notEntitled"}
      => principal[r]

\* Of a resource that is another's, and of one that does not exist, the
\* answer is the same: a missing entitlement is said only of one's own.
NoOracle ==
  \A r \in Requests :
    answer[r] = "notEntitled" => Owner[resource[r]] = token[r]

\* A page never sends a request without a token while the visitor is signed
\* in: it would look like a bad session.
TokenOfSignedIn ==
  [][\A r \in Requests :
       pc[r] = "idle" /\ pc'[r] = "verify" /\ user # None => token'[r] = user]_vars

\* A visitor with a session is sent to the sign-in page only by a 401 of the
\* server: not by an outage, nor while the session is not known yet.
SignedInStaysIn ==
  [][user # None /\ user' # None /\ current # "sign-in"
       /\ pending # "sign-in" /\ pending' = "sign-in"
     => \E r \in Requests : answer[r] = "unauthorized" /\ answer'[r] = "none"]_vars

\* A visitor without a session does not stay on a page that fetches: unless
\* the connection fails, the redirect or the 401 of its own request ends it.
SignedOutLeaves ==
  (Mounted /\ user = None) ~> (current # "page" \/ user # None \/ fetch = "failed")

=============================================================================
