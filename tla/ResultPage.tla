----------------------------- MODULE ResultPage -----------------------------
(***************************************************************************)
(* The AI part of AnalysisResultPage.vue with useAIExplanation, against    *)
(* the routes and the worker that move the row it polls.                   *)
(*                                                                         *)
(* loop[s] is where the polling loop started in s is, Opening for the one  *)
(* of the page itself and r for the one of retry r; rpc[r] is where the    *)
(* browser is with retry r, route[r] where the server is with it.  A reply *)
(* under way holds what the server read, however long ago.                 *)
(*                                                                         *)
(* The worker is AiExplanation's, with one activation at a time and its    *)
(* writes of an attempt in one step, cut off where an await fails or the   *)
(* process dies; recoverAiExplanationEnqueue is one step too.  What other  *)
(* interleavings of theirs come to, and the Analyzer's failure over its    *)
(* own result, are the matter of AiExplanation.                            *)
(***************************************************************************)
EXTENDS AiAnswer, Lifecycle, JobQueue

CONSTANTS
  Outputs,    \* the answers of the model that are tried
  Errors,     \* the errors of the SDK that are tried
  Requests,   \* clicks on the retry button, in their order: a bound on their number
  Opening,    \* the loop the page starts as it opens
  Attempts,   \* AI_EXPLANATION_JOB_OPTIONS.attempts (3)
  MaxVisits,  \* bound on the times the page is opened
  MaxFaults   \* bound on lost calls, failing awaits and dying processes

ASSUME RequestsAssumption == Requests \subseteq Nat /\ Opening \notin Requests
ASSUME ErrorsAssumption == Errors \subseteq SdkErrors
ASSUME BoundsAssumption == Attempts \in Nat \ {0} /\ MaxVisits \in Nat /\ MaxFaults \in Nat
ASSUME NoneAssumption ==
  /\ None \notin [tab : Tabs, search : Values \cup {None}]
  /\ \A output \in Outputs : assignFindingIds(output) # None

VARIABLES
  status, aiStatus,     \* the Analysis row
  stored,               \* the explanation of its record
  job, due,             \* the job; the Analyzer handler has yet to schedule it
  mendable,             \* it has failed for what another attempt may mend
  entitled,             \* the account's plan allows a retry
  open, visits,         \* the page is mounted; how often it was
  analysis, set,        \* its other requests: loading, loaded or failed
  shownStatus, shown,   \* aiStatus and aiExplanation of the composable
  error, stuck, streak,
  loop, got,            \* per loop: where it is, what the reply under way says
  timer,                \* the loop whose pending timeout the variable timer holds
  rpc, route, seen,     \* per retry: browser, server, the status the route has read
  faults

rowVars    == <<status, aiStatus, mendable>>
serverVars == <<rowVars, stored, job, due, entitled>>
routeVars  == <<route, seen>>
loadVars   == <<open, visits, analysis, set>>
refVars    == <<shownStatus, shown, error, stuck, streak>>
loopVars   == <<loop, got, timer>>
vars == <<status, aiStatus, mendable, stored, job, due, entitled, open, visits, analysis, set,
          shownStatus, shown, error, stuck, streak, loop, got, timer, rpc, route, seen,
          faults>>

TerminalStatuses == {"success", "failed"}
StuckThreshold == 2

Loops == Requests \cup {Opening}
LoopPc == {"none", "poll", "reply", "timer", "fetch", "answer"}
RetryPc == {"idle", "posted", "accepted", "refused", "forbidden", "done"}
RoutePc == {"none", "check", "recover", "mark"}

\* What the model's answers are as explanations, and those that are stored.
Explanations == {assignFindingIds(output) : output \in Outputs}
Grounded == {result \in Explanations : validateGrounding(result)}

TypeOK ==
  /\ status \in Explainable /\ aiStatus \in AIStatus
  /\ stored \in {None} \cup Explanations
  /\ aiStatus = "success" => stored # None
  /\ job \in Job /\ due \in BOOLEAN /\ entitled \in BOOLEAN
  /\ mendable \in BOOLEAN /\ (mendable => aiStatus = "failed")
  /\ open \in BOOLEAN /\ visits \in Nat
  /\ analysis \in {"loading", "failed"} /\ set \in {"loading", "loaded", "failed"}
  /\ shownStatus \in AIStatus
  /\ shown \in {None, stored}
  /\ error \in {"none", "entitlement", "other"}
  /\ stuck \in BOOLEAN /\ streak \in Nat
  /\ loop \in [Loops -> LoopPc]
  /\ got \in [Loops -> AIStatus \cup {"none", "error", "explanation"}]
  /\ timer \in Loops \cup {None}
  /\ rpc \in [Requests -> RetryPc]
  /\ route \in [Requests -> RoutePc] /\ seen \in [Requests -> Explainable]
  /\ faults \in Nat

\* The refs and the requests of an instance of the page as its setup runs,
\* and what is left of them when it has gone.
Page(opened) ==
  /\ open' = opened /\ analysis' = "loading" /\ set' = "loading"
  /\ shownStatus' = "not_requested" /\ shown' = None
  /\ error' = "none" /\ stuck' = FALSE /\ streak' = 0
  /\ loop' = [s \in Loops |-> IF opened /\ s = Opening THEN "poll" ELSE "none"]
  /\ got' = [s \in Loops |-> "none"]
  /\ timer' = None

\* The ObservationSet is stored, its explanation about to be scheduled.
Init ==
  /\ status = "analyzer_result_ready" /\ aiStatus = "not_requested" /\ stored = None
  /\ job = NoJob /\ due = TRUE /\ mendable = FALSE /\ entitled \in BOOLEAN
  /\ open = FALSE /\ visits = 0 /\ analysis = "loading" /\ set = "loading"
  /\ shownStatus = "not_requested" /\ shown = None
  /\ error = "none" /\ stuck = FALSE /\ streak = 0
  /\ loop = [s \in Loops |-> "none"]
  /\ got = [s \in Loops |-> "none"]
  /\ timer = None
  /\ rpc = [r \in Requests |-> "idle"]
  /\ route = [r \in Requests |-> "none"]
  /\ seen = [r \in Requests |-> "completed"]
  /\ faults = 0

Strike == faults < MaxFaults /\ faults' = faults + 1

-----------------------------------------------------------------------------
(* The server.                                                             *)

pageVars    == <<loadVars, refVars, loopVars>>
requestVars == <<rpc, routeVars>>

\* persistAiExplanationFailure, and the two columns of its success.
RecordFailure(why) ==
  /\ status' = "completed" /\ aiStatus' = "failed"
  /\ mendable' = (why \in Passing \ UnnamedStatuses)

Store(explanation) ==
  /\ stored' = explanation
  /\ status' = "completed" /\ aiStatus' = "success" /\ mendable' = FALSE

\* A same-status update of aiStatus, anchored on the status read before.
MarkQueued(anchor) ==
  IF status = anchor THEN aiStatus' = "queued" /\ mendable' = FALSE /\ UNCHANGED status
                     ELSE UNCHANGED rowVars

\* recoverAiExplanationEnqueue: the job waits, again or for the first time,
\* unless there is a record, an attempt runs, or the job ended without a word;
\* then its failure is recorded.
Finalizes == stored = None /\ Finished(job) /\ aiStatus = "running"
Enqueues  == stored = None /\ ~Finalizes /\ job.state # "active"
Recovered ==
  IF ~Enqueues THEN job ELSE IF Finished(job) THEN Retried(job) ELSE Added(job)

\* scheduleInitialAiExplanation.  Its mark comes before the first claim or has
\* no effect; it swallows its faults, before the enqueue or after it.
Schedule ==
  /\ due /\ due' = FALSE
  /\ job' = Recovered
  /\ IF Finalizes THEN RecordFailure("unreported")
     ELSE IF Enqueues THEN MarkQueued("analyzer_result_ready") ELSE UNCHANGED rowVars
  /\ UNCHANGED <<stored, entitled, pageVars, requestVars, faults>>

ScheduleFails ==
  /\ due /\ due' = FALSE
  /\ Strike
  /\ job' \in {job, Recovered}
  /\ UNCHANGED <<rowVars, stored, entitled, pageVars, requestVars>>

\* An explaining Analysis is only taken over by a later activation.
TakesPart == stored = None /\ (status # "explaining" \/ job.started > 0)

\* BullMQ delivers the job and the handler claims the Analysis, or returns: a
\* take-over leaves the columns as they are.
Activate ==
  /\ job.state = "waiting"
  /\ IF ~TakesPart
     THEN job' = Completed(Activated(job)) /\ UNCHANGED rowVars
     ELSE /\ job' = Activated(job)
          /\ IF status = "explaining" THEN UNCHANGED rowVars
             ELSE status' = "explaining" /\ aiStatus' = "running" /\ mendable' = FALSE
  /\ UNCHANGED <<stored, due, entitled, pageVars, requestVars, faults>>

\* An await before the claim fails, or the process dies there.
ActivateFails ==
  /\ job.state = "waiting"
  /\ Strike
  /\ \/ job' = FailedAttempt(Activated(job), Attempts, FALSE)
     \/ job' = Stalled(Activated(job))
  /\ UNCHANGED <<rowVars, stored, due, entitled, pageVars, requestVars>>

\* The size guard, the provider, the schema and the grounding.
Failures ==
  Errors \cup {"tooLarge"} \cup (IF Explanations = Grounded THEN {} ELSE {"ungrounded"})

IsLast(why) == IsFatal(Code(why)) \/ job.started >= Attempts

\* handleNonRetryableAiFailure, or handleRetryableAiFailure, whose last attempt
\* is the one whose attemptsStarted says so.
FailAttempt(why) ==
  /\ job' = FailedAttempt(job, Attempts, IsFatal(Code(why)))
  /\ IF IsLast(why) THEN RecordFailure(why) ELSE UNCHANGED rowVars
  /\ UNCHANGED stored

Succeed(explanation) == Store(explanation) /\ job' = Completed(job)

Attempt ==
  /\ job.state = "active"
  /\ \/ \E why \in Failures : FailAttempt(why)
     \/ \E explanation \in Grounded : Succeed(explanation)
  /\ UNCHANGED <<due, entitled, pageVars, requestVars, faults>>

\* The failure of a last attempt is not recorded, or at the second try, which
\* a fatal one has if the attempts are used as well; the job just fails.
LoseFailure(why) ==
  /\ IsLast(why)
  /\ job' = FailedAttempt(job, Attempts, FALSE)
  /\ \/ UNCHANGED rowVars
     \/ IsFatal(Code(why)) /\ job.started >= Attempts /\ RecordFailure(why)
  /\ UNCHANGED stored

\* The execution's update after the commit fails, inside the same try block.
FailAfterStore(explanation) ==
  /\ job' = FailedAttempt(job, Attempts, FALSE)
  /\ IF IsLast("other") THEN stored' = explanation /\ RecordFailure("other")
                        ELSE Store(explanation)

\* The process dies, before or after what it has to write.
Die ==
  /\ job' = Stalled(job)
  /\ \/ UNCHANGED <<rowVars, stored>>
     \/ \E why \in Failures : IsLast(why) /\ RecordFailure(why) /\ UNCHANGED stored
     \/ \E explanation \in Grounded : Store(explanation)

AttemptStruck ==
  /\ job.state = "active"
  /\ Strike
  /\ \/ FailAttempt("other")
     \/ \E why \in Failures \cup {"other"} : LoseFailure(why)
     \/ \E explanation \in Grounded : FailAfterStore(explanation)
     \/ Die
  /\ UNCHANGED <<due, entitled, pageVars, requestVars>>

-----------------------------------------------------------------------------
(* Opening and leaving the page.                                           *)

Open ==
  /\ ~open
  /\ visits < MaxVisits /\ visits' = visits + 1
  /\ Page(TRUE)
  /\ UNCHANGED <<serverVars, requestVars, faults>>

\* A reply that comes after the page has gone changes nothing (cancelled); a
\* retry it has posted goes on.
Leave ==
  /\ open
  /\ Page(FALSE)
  /\ rpc' = [r \in Requests |-> IF rpc[r] = "idle" THEN "idle" ELSE "done"]
  /\ UNCHANGED <<serverVars, visits, routeVars, faults>>

\* Only its failure matters: until its answer comes, and after it, the page
\* shows what else it has.
LoadAnalysis ==
  /\ open /\ analysis = "loading"
  /\ analysis' = "failed" /\ Strike
  /\ UNCHANGED <<serverVars, open, visits, set, refVars, loopVars, requestVars>>

LoadObservations ==
  /\ open /\ set = "loading"
  /\ \/ set' = "loaded" /\ UNCHANGED faults
     \/ set' = "failed" /\ Strike
  /\ UNCHANGED <<serverVars, open, visits, analysis, refVars, loopVars, requestVars>>

-----------------------------------------------------------------------------
(* A polling loop of useAIExplanation.                                     *)

Step(s, label) == loop' = [loop EXCEPT ![s] = label] /\ UNCHANGED timer
Say(s, what)   == got' = [got EXCEPT ![s] = what]

\* GET /analyses/:id, or the loss of it.
ServePoll(s) ==
  /\ loop[s] = "poll"
  /\ Step(s, "reply")
  /\ \/ Say(s, aiStatus) /\ UNCHANGED faults
     \/ Say(s, "error") /\ Strike
  /\ UNCHANGED <<serverVars, loadVars, refVars, requestVars>>

IsStuck(s) == got[s] = "not_requested" /\ streak + 1 >= StuckThreshold

\* Mutant: a success is noticed and its explanation not fetched.
EndAtTerminal(s) == IF IsStuck(s) \/ got[s] \in TerminalStatuses THEN "none" ELSE "timer"

AfterPoll(s) ==
  IF IsStuck(s) \/ got[s] = "failed" THEN "none"
  ELSE IF got[s] = "success" THEN "fetch" ELSE "timer"

\* What poll() does with its answer, up to the next await.
ReceivePoll(s) ==
  /\ loop[s] = "reply"
  /\ got[s] # "error"
  /\ shownStatus' = got[s]
  /\ streak' = IF got[s] = "not_requested" THEN streak + 1 ELSE 0
  /\ stuck' = (stuck \/ IsStuck(s))
  /\ loop' = [loop EXCEPT ![s] = AfterPoll(s)]
  /\ timer' = IF AfterPoll(s) = "timer" THEN s ELSE timer
  /\ Say(s, "none")
  /\ UNCHANGED <<serverVars, loadVars, shown, error, requestVars, faults>>

Fire(s) ==
  /\ loop[s] = "timer"
  /\ loop' = [loop EXCEPT ![s] = "poll"]
  /\ timer' = IF timer = s THEN None ELSE timer
  /\ UNCHANGED <<serverVars, loadVars, refVars, got, requestVars, faults>>

\* GET /analyses/:id/explanation: 409 for a failure, 404 without a record.
ServeFetch(s) ==
  /\ loop[s] = "fetch"
  /\ Step(s, "answer")
  /\ \/ /\ Say(s, IF aiStatus # "failed" /\ stored # None THEN "explanation" ELSE "error")
        /\ UNCHANGED faults
     \/ Say(s, "error") /\ Strike
  /\ UNCHANGED <<serverVars, loadVars, refVars, requestVars>>

ReceiveExplanation(s) ==
  /\ loop[s] = "answer"
  /\ got[s] = "explanation"
  /\ shown' = stored
  /\ Step(s, "none") /\ Say(s, "none")
  /\ UNCHANGED <<serverVars, loadVars, shownStatus, error, stuck, streak, requestVars, faults>>

\* Either request failed: the loop ends.
ReceiveError(s) ==
  /\ loop[s] \in {"reply", "answer"}
  /\ got[s] = "error"
  /\ error' = "other"
  /\ Step(s, "none") /\ Say(s, "none")
  /\ UNCHANGED <<serverVars, loadVars, shownStatus, shown, stuck, streak, requestVars, faults>>

-----------------------------------------------------------------------------
(* The retry.                                                              *)

SetOnScreen == analysis # "failed" /\ set = "loaded"

\* The button of AIStatusPanel.
RetryOffered ==
  /\ open /\ SetOnScreen
  /\ shownStatus = "failed" \/ (shownStatus = "not_requested" /\ stuck)

ExplanationShown ==
  open /\ SetOnScreen /\ shownStatus = "success" /\ shown # None

ClickRetry(r) ==
  /\ RetryOffered
  /\ rpc[r] = "idle" /\ \A q \in Requests : q < r => rpc[q] # "idle"
  /\ rpc' = [rpc EXCEPT ![r] = "posted"]
  /\ route' = [route EXCEPT ![r] = "check"]
  /\ error' = "none" /\ shown' = None /\ stuck' = FALSE /\ streak' = 0
  /\ UNCHANGED <<serverVars, loadVars, shownStatus, loopVars, seen, faults>>

AlreadyExplained == stored # None

\* The route is through: the browser, if it still waits, has its answer.
Answer(r, what) ==
  /\ rpc' = [rpc EXCEPT ![r] = IF rpc[r] = "posted" THEN what ELSE rpc[r]]
  /\ route' = [route EXCEPT ![r] = "none"]
  /\ seen' = [seen EXCEPT ![r] = "completed"]

\* The route reads the row; entitlement first, then whether there is a record.
CheckRetry(r) ==
  /\ route[r] = "check"
  /\ IF ~entitled THEN Answer(r, "forbidden")
     ELSE IF AlreadyExplained THEN Answer(r, "refused")
     ELSE /\ route' = [route EXCEPT ![r] = "recover"]
          /\ seen' = [seen EXCEPT ![r] = status]
          /\ UNCHANGED rpc
  /\ UNCHANGED <<serverVars, pageVars, faults>>

RecoverRetry(r) ==
  /\ route[r] = "recover"
  /\ job' = Recovered
  /\ IF Finalizes THEN RecordFailure("unreported") ELSE UNCHANGED rowVars
  /\ IF Enqueues THEN route' = [route EXCEPT ![r] = "mark"] /\ UNCHANGED <<rpc, seen>>
                 ELSE Answer(r, "accepted")
  /\ UNCHANGED <<stored, due, entitled, pageVars, faults>>

\* Meanwhile the worker may have been through a whole run.
MarkRetry(r) ==
  /\ route[r] = "mark"
  /\ MarkQueued(seen[r])
  /\ Answer(r, "accepted")
  /\ UNCHANGED <<stored, job, due, entitled, pageVars, faults>>

\* The call or its answer is lost, or the route fails on its way.
LoseRetry(r) ==
  /\ route[r] # "none"
  /\ Strike
  /\ \/ Answer(r, "refused")
     \/ rpc[r] = "posted" /\ rpc' = [rpc EXCEPT ![r] = "refused"] /\ UNCHANGED routeVars
  /\ UNCHANGED <<serverVars, pageVars>>

TimerCleared ==
  [s \in Loops |-> IF s = timer /\ loop[s] = "timer" THEN "none" ELSE loop[s]]

\* Mutant: the loop a retry finds is left to go on by itself.
TimerClearedOnly(r) == loop' = TimerCleared

\* clearTimeout(timer); void poll()
Restart(r) == loop' = [TimerCleared EXCEPT ![r] = "poll"]

RetryAccepted(r) ==
  /\ rpc[r] = "accepted"
  /\ Restart(r)
  /\ rpc' = [rpc EXCEPT ![r] = "done"]
  /\ timer' = None
  /\ UNCHANGED <<serverVars, loadVars, refVars, got, routeVars, faults>>

RetryRefused(r) ==
  /\ rpc[r] \in {"refused", "forbidden"}
  /\ error' = IF rpc[r] = "forbidden" THEN "entitlement" ELSE "other"
  /\ rpc' = [rpc EXCEPT ![r] = "done"]
  /\ UNCHANGED <<serverVars, loadVars, shownStatus, shown, stuck, streak, loopVars,
                 routeVars, faults>>

-----------------------------------------------------------------------------

Worker == Activate \/ Attempt
Route(r) == CheckRetry(r) \/ RecoverRetry(r) \/ MarkRetry(r)
Load == LoadAnalysis \/ LoadObservations
LoopStep(s) ==
  \/ ServePoll(s) \/ ReceivePoll(s) \/ Fire(s)
  \/ ServeFetch(s) \/ ReceiveExplanation(s) \/ ReceiveError(s)
RetryStep(r) ==
  \/ Route(r) \/ RetryAccepted(r) \/ RetryRefused(r)

Next ==
  \/ Schedule \/ ScheduleFails \/ Worker \/ ActivateFails \/ AttemptStruck
  \/ Open \/ Leave \/ Load
  \/ \E s \in Loops : LoopStep(s)
  \/ \E r \in Requests : ClickRetry(r) \/ RetryStep(r) \/ LoseRetry(r)

Spec == Init /\ [][Next]_vars

(***************************************************************************)
(* Fairness: a request is answered or fails, its callback runs, a timeout  *)
(* fires, the worker works.  Nobody has to click, and nothing has to       *)
(* schedule the explanation.                                               *)
(***************************************************************************)
Fairness ==
  /\ WF_vars(Worker)
  /\ WF_vars(LoadObservations)
  /\ \A s \in Loops : WF_vars(LoopStep(s))
  /\ WF_vars(\E r \in Requests : RetryStep(r))

FairSpec == Spec /\ Fairness

-----------------------------------------------------------------------------
(* Properties.                                                             *)

\* Every reference the user can click leads somewhere, and to a table that
\* holds its row; one of a source IP and a path to the row of the path where
\* the selection has kept it.  A time is found in the granularity that is on,
\* and else one click further (validate-references.ts, aiReferenceResolver.ts,
\* the tables' filters, TimeTable.vue).
EvidenceIsFound ==
  shown # None =>
    \A g \in References(shown), granularity \in Granularities :
      LET view == resolveAiReference(g)
      IN  /\ view # None
          /\ Dimension[g] \notin {"source-ip-path"} \cup (Granularities \ {granularity}) =>
               g \in Rows(view, granularity)
          /\ Dimension[g] = "source-ip-path" =>
               {p \in Groups : Dimension[p] = "path" /\ Shown[p] = Shown[g]}
                 \subseteq Rows(view, granularity)

\* No explanation is given up before its attempts are used, by a failure or by
\* a process that died, for what another attempt may mend: an outage, a limit,
\* a late answer, or an answer of the model that does not hold.  The two
\* statuses that the adapter has no name for are excepted: they are final
\* (ai-retry-classification.ts, openai-responses-adapter.ts).
FailureIsEarned ==
  mendable => job.made + job.stalls >= Attempts

\* While the page has neither an outcome nor an error to show, a loop is
\* polling or a retry is under way, however clicks, timeouts and late answers
\* of two loops interleave (useAIExplanation.ts: one timer for every loop).
WaitingIsPolled ==
  open /\ error = "none" /\ ~stuck /\ shownStatus \notin TerminalStatuses =>
    \/ \E s \in Loops : loop[s] # "none"
    \/ \E r \in Requests : rpc[r] \in {"posted", "accepted", "refused", "forbidden"}

\* The row waits for a job that has ended: the failure was not recorded, or a
\* late mark says queued.  The page offers no retry then.
Stranded ==
  /\ aiStatus \in {"queued", "running"} /\ job.state \notin {"waiting", "active"}
  /\ \A r \in Requests : route[r] = "none"

NoticeShown == open /\ SetOnScreen /\ error = "entitlement"

\* An open page comes to show the explanation, the retry button or the notice
\* of the plan, also when the explanation was never scheduled.  It need not if
\* the row is stranded, nor after a request of its own that was lost or
\* refused: of any error but that of the plan the page says nothing.
Settles ==
  open ~> \/ ~open \/ analysis = "failed" \/ set = "failed"
          \/ ExplanationShown \/ RetryOffered \/ NoticeShown
          \/ error = "other" \/ Stranded
=============================================================================
