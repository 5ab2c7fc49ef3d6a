------------------------- MODULE ResultPage_proofs -------------------------
(***************************************************************************)
(* Proofs about ResultPage: types, and the three safety invariants of the  *)
(* run result_page, for any number of retries, attempts and lost calls and *)
(* any set of answers.                                                     *)
(*                                                                         *)
(* The server moves as if there were no page, and the page sees of it only *)
(* what a reply says, so the invariant falls into one of the row and its   *)
(* job (ServerInv), one of the page (PageInv), and ShownInv and PollInv    *)
(* between them.                                                           *)
(***************************************************************************)
EXTENDS ResultPage, JobQueue_proofs

\* The row: a success has its explanation, which has passed the grounding; what
\* might be mended has failed.
RowInv ==
  /\ status \in Explainable /\ aiStatus \in AIStatus
  /\ stored \in {None} \cup Grounded
  /\ aiStatus = "success" => stored # None
  /\ mendable \in BOOLEAN /\ (mendable => aiStatus = "failed")

\* The attempts of a job that have ended, and that none is forgotten: what has
\* begun has ended, but for the active one.
Spent(j) == j.made + j.stalls
Balanced(j) == j.started = IF j.state = "active" THEN Spent(j) + 1 ELSE Spent(j)
JobInv == job \in Job /\ Balanced(job) /\ (job.state = "active" => stored = None)

ServerInv ==
  /\ RowInv /\ JobInv
  /\ due \in BOOLEAN /\ entitled \in BOOLEAN
  /\ FailureIsEarned

\* The types of the page and of the routes, and what an answered poll says.
PageInv ==
  /\ open \in BOOLEAN /\ visits \in Nat
  /\ analysis \in {"loading", "failed"} /\ set \in {"loading", "loaded", "failed"}
  /\ shownStatus \in AIStatus
  /\ error \in {"none", "entitlement", "other"}
  /\ stuck \in BOOLEAN /\ streak \in Nat
  /\ loop \in [Loops -> LoopPc]
  /\ got \in [Loops -> AIStatus \cup {"none", "error", "explanation"}]
  /\ \A s \in Loops : loop[s] = "reply" => got[s] \in AIStatus \cup {"error"}
  /\ timer \in Loops \cup {None}
  /\ rpc \in [Requests -> RetryPc]
  /\ route \in [Requests -> RoutePc] /\ seen \in [Requests -> Explainable]
  /\ faults \in Nat

\* An explanation on screen is the stored one.
ShownInv == shown \in {None, stored}

Polling == {"poll", "reply", "timer"}
UnderWay == {"posted", "accepted", "refused", "forbidden"}

\* A loop that fetches the explanation will not poll again: it does not count.
PollInv ==
  open /\ error = "none" /\ ~stuck /\ shownStatus \notin TerminalStatuses =>
    \/ \E s \in Loops : loop[s] \in Polling
    \/ \E r \in Requests : rpc[r] \in UnderWay

IInv == ServerInv /\ PageInv /\ ShownInv /\ PollInv

-----------------------------------------------------------------------------
(* What the operators return.                                              *)

\* An activation begins an attempt, and nothing else does; an operation on a
\* job that is not active ends none.
LEMMA JobBegins ==
  ASSUME NEW j \in Job, j.state # "active", Balanced(j)
  PROVE  /\ Added(j) \in Job /\ Balanced(Added(j)) /\ Spent(Added(j)) = Spent(j)
         /\ Added(j).state # "active"
         /\ Retried(j) \in Job /\ Balanced(Retried(j)) /\ Spent(Retried(j)) = Spent(j)
         /\ Retried(j).state # "active"
         /\ Activated(j) \in Job /\ Balanced(Activated(j)) /\ Spent(Activated(j)) = Spent(j)
         /\ Activated(j).state = "active"
<1> USE DEF Job
<1>1. Added(j) \in Job /\ Retried(j) \in Job /\ Activated(j) \in Job
  <2>1. FALSE \in BOOLEAN /\ 0 \in Nat  OBVIOUS
  <2>2. QED  BY <2>1, JobClosed
<1>2. /\ Added(j).started = j.started /\ Added(j).made = j.made /\ Added(j).stalls = j.stalls
      /\ Added(j).state # "active"
  BY DEF Added
<1>3. /\ Retried(j).started = j.started /\ Retried(j).made = j.made /\ Retried(j).stalls = j.stalls
      /\ Retried(j).state = "waiting"
  BY DEF Retried
<1>4. /\ Activated(j).started = j.started + 1 /\ Activated(j).made = j.made
      /\ Activated(j).stalls = j.stalls /\ Activated(j).state = "active"
  BY DEF Activated
<1>5. j.started = j.made + j.stalls  BY DEF Balanced, Spent
<1>6. QED  BY <1>1, <1>2, <1>3, <1>4, <1>5 DEF Balanced, Spent

\* Every way out of the active state counts the attempt.
LEMMA JobEnds ==
  ASSUME NEW j \in Job, j.state = "active", Balanced(j),
         NEW unrecoverable \in BOOLEAN,
         NEW e, e \in {Completed(j), FailedAttempt(j, Attempts, unrecoverable), Stalled(j)}
  PROVE  /\ e \in Job /\ Balanced(e) /\ e.state # "active"
         /\ Spent(e) = j.started /\ Spent(e) >= Spent(j)
<1>0. Attempts \in Nat  BY BoundsAssumption
<1>1. e \in Job  BY <1>0, JobClosed
<1>2. e.started = j.started /\ e.state # "active"
  <2>1. Completed(j).started = j.started /\ Completed(j).state = "completed"
    BY DEF Job, Completed
  <2>2. /\ FailedAttempt(j, Attempts, unrecoverable).started = j.started
        /\ FailedAttempt(j, Attempts, unrecoverable).state \in {"waiting", "failed"}
    BY DEF Job, FailedAttempt
  <2>3. Stalled(j).started = j.started /\ Stalled(j).state \in {"waiting", "failed"}
    BY DEF Job, Stalled
  <2>4. QED  BY <2>1, <2>2, <2>3
<1>3. \/ e.made = j.made + 1 /\ e.stalls = j.stalls
      \/ e.made = j.made /\ e.stalls = j.stalls + 1
  <2>1. Completed(j).made = j.made + 1 /\ Completed(j).stalls = j.stalls
    BY DEF Job, Completed
  <2>2. /\ FailedAttempt(j, Attempts, unrecoverable).made = j.made + 1
        /\ FailedAttempt(j, Attempts, unrecoverable).stalls = j.stalls
    BY DEF Job, FailedAttempt
  <2>3. Stalled(j).made = j.made /\ Stalled(j).stalls = j.stalls + 1
    BY DEF Job, Stalled
  <2>4. QED  BY <2>1, <2>2, <2>3
<1>4. j.started = j.made + j.stalls + 1 /\ j.made \in Nat /\ j.stalls \in Nat
  BY DEF Balanced, Spent, Job
<1>5. Spent(e) = j.started /\ Spent(e) >= Spent(j)  BY <1>3, <1>4 DEF Spent
<1>6. QED  BY <1>1, <1>2, <1>5 DEF Balanced

\* What another attempt may mend is retried, but for the two statuses without
\* a name: the handler's list of codes and the adapter's classification agree
\* (ai-retry-classification.ts).
LEMMA PassingIsRetried ==
  ASSUME NEW why \in Passing \ UnnamedStatuses
  PROVE  ~IsFatal(Code(why))
<1>1. CASE why = "ungrounded"  BY <1>1 DEF IsFatal, Code, NonRetryable
<1>2. CASE why # "ungrounded"
  <2>1. why \in SdkErrors /\ why # "tooLarge"  BY <1>2 DEF Passing, SdkErrors
  <2>2. Code(why) = classifyOpenAIError[why]  BY <1>2, <2>1 DEF Code
  <2>3. classifyOpenAIError[why] \in
          {"AI_PROVIDER_TIMEOUT", "AI_PROVIDER_UNAVAILABLE", "AI_PROVIDER_RATE_LIMITED",
           "AI_RESPONSE_INVALID"}
    BY <1>2, <2>1 DEF Passing, UnnamedStatuses, classifyOpenAIError
  <2>4. QED  BY <2>2, <2>3 DEF IsFatal, NonRetryable
<1>3. QED  BY <1>1, <1>2

\* The grounding resolves every reference an explanation holds.
LEMMA GroundedResolves ==
  ASSUME NEW e, validateGrounding(e)
  PROVE  References(e) \subseteq Groups
  BY DEF validateGrounding, GroundedFinding, Resolve, References

\* A group leads to a view, whose table has the row that was referred to: of
\* a pair the row of its path, of a time the row if its granularity is on
\* (resolveAiReference, the tables' filters, TimeTable.vue).
LEMMA GroupIsFound ==
  ASSUME NEW g \in Groups, NEW granularity \in Granularities
  PROVE  LET view == resolveAiReference(g)
         IN  /\ view # None
             /\ Dimension[g] \notin {"source-ip-path"} \cup (Granularities \ {granularity}) =>
                  g \in Rows(view, granularity)
             /\ Dimension[g] = "source-ip-path" =>
                  {p \in Groups : Dimension[p] = "path" /\ Shown[p] = Shown[g]}
                    \subseteq Rows(view, granularity)
<1> DEFINE view == resolveAiReference(g)
           search == IF Dimension[g] \in {"time:1m", "time:5m"} THEN None ELSE Shown[g]
<1>1. view = [tab |-> TabOf[Dimension[g]], search |-> search]  BY DEF resolveAiReference
<1>2. Dimension[g] \in Dimensions  BY DimensionAssumption
<1>3. TabOf[Dimension[g]] \in Tabs  BY <1>2 DEF TabOf, Tabs, Dimensions
<1>4. search \in Values \cup {None}  BY DEF Values
<1>5. view # None
  <2>1. view \in [tab : Tabs, search : Values \cup {None}]  BY <1>1, <1>3, <1>4
  <2>2. QED  BY <2>1, NoneAssumption
<1>6. view.tab = TabOf[Dimension[g]] /\ view.search = search  BY <1>1
<1>7. ASSUME Dimension[g] \notin {"source-ip-path"} \cup (Granularities \ {granularity})
      PROVE  g \in Rows(view, granularity)
  <2>1. g \in TabGroups(view.tab, granularity)  BY <1>6, <1>7 DEF TabGroups
  <2>2. matches(Shown[g], view.search)
    BY <1>6, IncludesAssumption DEF matches
  <2>3. QED  BY <2>1, <2>2 DEF Rows
<1>8. ASSUME Dimension[g] = "source-ip-path", NEW p \in Groups,
             Dimension[p] = "path", Shown[p] = Shown[g]
      PROVE  p \in Rows(view, granularity)
  <2>1. TabOf["path"] = "path" /\ TabOf["source-ip-path"] = "path"  BY DEF TabOf, Dimensions
  <2>2. p \in TabGroups(view.tab, granularity)
    BY <1>6, <1>8, <2>1 DEF TabGroups, Granularities
  <2>3. matches(Shown[p], view.search)  BY <1>6, <1>8, IncludesAssumption DEF matches
  <2>4. QED  BY <2>2, <2>3 DEF Rows
<1>9. QED  BY <1>5, <1>7, <1>8

-----------------------------------------------------------------------------
(* The invariant: the server.                                              *)

LEMMA InitHolds == Init => IInv
<1> SUFFICES ASSUME Init  PROVE IInv  OBVIOUS
<1>1. ServerInv
  <2>1. NoJob.state = "absent" /\ Balanced(NoJob)  BY DEF NoJob, Balanced, Spent
  <2>2. QED
    BY <2>1, NoJobIsJob
    DEF Init, ServerInv, RowInv, JobInv, AIStatus, Explainable, FailureIsEarned
<1>2. PageInv
  BY DEF Init, PageInv, AIStatus, Explainable, Loops, LoopPc, RetryPc, RoutePc
<1>3. ShownInv /\ PollInv  BY DEF Init, ShownInv, PollInv
<1>4. QED  BY <1>1, <1>2, <1>3 DEF IInv

\* What the row and its job are cannot tell whether a page looks at them.
LEMMA ServerStutters ==
  ASSUME ServerInv, UNCHANGED serverVars
  PROVE  ServerInv' /\ (ShownInv /\ UNCHANGED shown => ShownInv')
<1>1. RowInv' /\ JobInv'
  BY DEF ServerInv, RowInv, JobInv, Balanced, serverVars, rowVars
<1>2. QED  BY <1>1 DEF ServerInv, ShownInv, serverVars, rowVars, FailureIsEarned

\* What the writes of a row leave: a failure, an explanation, a late mark, or
\* the row as it was.
LEMMA RowHolds ==
  ASSUME RowInv
  PROVE  /\ \A why : RecordFailure(why) /\ stored' \in {stored} \cup Grounded => RowInv'
         /\ \A explanation \in Grounded : Store(explanation) => RowInv'
         /\ \A anchor : MarkQueued(anchor) /\ UNCHANGED stored =>
              RowInv' /\ (mendable' => mendable)
         /\ UNCHANGED <<rowVars, stored>> => RowInv'
<1>1. None \notin Grounded  BY NoneAssumption DEF Grounded, Explanations
<1>2. ASSUME NEW why, RecordFailure(why), stored' \in {stored} \cup Grounded  PROVE RowInv'
  <2>1. status' = "completed" /\ aiStatus' = "failed" /\ mendable' \in BOOLEAN
    BY <1>2 DEF RecordFailure
  <2>2. QED  BY <1>2, <2>1 DEF RowInv, AIStatus, Explainable, Grounded, Explanations
<1>3. ASSUME NEW explanation \in Grounded, Store(explanation)  PROVE RowInv'
  BY <1>1, <1>3 DEF RowInv, Store, AIStatus, Explainable, Grounded, Explanations
<1>4. ASSUME NEW anchor, MarkQueued(anchor), UNCHANGED stored
      PROVE  RowInv' /\ (mendable' => mendable)
  BY <1>4 DEF RowInv, MarkQueued, rowVars, AIStatus, Explainable, Grounded, Explanations
<1>5. ASSUME UNCHANGED <<rowVars, stored>>  PROVE RowInv'
  BY <1>5 DEF RowInv, rowVars, Grounded, Explanations
<1>6. QED  BY <1>2, <1>3, <1>4, <1>5

\* A failure that was earned stays so, as no operation forgets an attempt.
LEMMA EarnedStays ==
  ASSUME JobInv, FailureIsEarned, job' \in Job, Spent(job') >= Spent(job),
         mendable' => mendable \/ Spent(job') >= Attempts
  PROVE  FailureIsEarned'
<1>1. Spent(job) \in Nat /\ Spent(job') \in Nat /\ Attempts \in Nat
  BY BoundsAssumption DEF JobInv, Spent, Job
<1>2. QED  BY <1>1 DEF FailureIsEarned, Spent

\* The job after a recovery, which leaves one that is active alone.
LEMMA RecoveredHolds ==
  ASSUME JobInv, UNCHANGED stored, job' \in {job, Recovered}
  PROVE  JobInv' /\ Spent(job') = Spent(job)
<1>1. CASE job' = job  BY <1>1 DEF JobInv, Balanced
<1>2. CASE job' = Recovered /\ Enqueues
  <2>1. job.state # "active" /\ job' \in {Retried(job), Added(job)}
    BY <1>2 DEF Recovered, Enqueues
  <2>2. job' \in Job /\ job'.state # "active" /\ Balanced(job') /\ Spent(job') = Spent(job)
    BY <2>1, JobBegins DEF JobInv
  <2>3. QED  BY <2>2 DEF JobInv, Balanced
<1>3. CASE job' = Recovered /\ ~Enqueues  BY <1>1, <1>3 DEF Recovered
<1>4. QED  BY <1>1, <1>2, <1>3

\* Scheduling and a retry keep what the row and its job know.
LEMMA EnqueueKeepsServer ==
  ASSUME ServerInv,
         Schedule \/ ScheduleFails \/ (\E r \in Requests : Route(r) \/ LoseRetry(r))
  PROVE  ServerInv' /\ stored' = stored
<1>1. /\ UNCHANGED <<stored, entitled>> /\ due' \in BOOLEAN
      /\ job' \in {job, Recovered}
      /\ RecordFailure("unreported") \/ (\E anchor : MarkQueued(anchor)) \/ UNCHANGED rowVars
  BY DEF ServerInv, Schedule, ScheduleFails, Route, CheckRetry, RecoverRetry, MarkRetry, LoseRetry,
         serverVars
<1>2. JobInv' /\ Spent(job') = Spent(job)  BY <1>1, RecoveredHolds DEF ServerInv
<1>3. RowInv' /\ (mendable' => mendable)
  <2>1. CASE RecordFailure("unreported")
    BY <1>1, <2>1, RowHolds DEF ServerInv, RecordFailure, Passing
  <2>2. CASE \E anchor : MarkQueued(anchor)  BY <1>1, <2>2, RowHolds DEF ServerInv
  <2>3. CASE UNCHANGED rowVars  BY <1>1, <2>3, RowHolds DEF ServerInv, rowVars
  <2>4. QED  BY <1>1, <2>1, <2>2, <2>3
<1>4. FailureIsEarned'
  <2>1. Spent(job) \in Nat  BY DEF ServerInv, JobInv, Spent, Job
  <2>2. QED  BY <1>2, <1>3, <2>1, EarnedStays DEF ServerInv, JobInv
<1>5. QED  BY <1>1, <1>2, <1>3, <1>4 DEF ServerInv

\* So do the delivery of the job and a fault before the claim.
LEMMA ActivateKeepsServer ==
  ASSUME ServerInv, Activate \/ ActivateFails
  PROVE  ServerInv' /\ stored' = stored
<1>1. UNCHANGED <<stored, due, entitled>>  BY DEF Activate, ActivateFails
<1>2. job \in Job /\ job.state = "waiting" /\ Balanced(job)
  BY DEF Activate, ActivateFails, ServerInv, JobInv
<1> DEFINE active == Activated(job)
<1>3. /\ active \in Job /\ Balanced(active) /\ Spent(active) = Spent(job)
      /\ active.state = "active"
  BY <1>2, JobBegins
<1> HIDE DEF active
<1>4. CASE job' \in {Completed(active), FailedAttempt(active, Attempts, FALSE), Stalled(active)}
  <2>1. job' \in Job /\ Balanced(job') /\ job'.state # "active" /\ Spent(job') >= Spent(job)
    BY <1>3, <1>4, JobEnds
  <2>2. UNCHANGED rowVars
    BY <1>3, <2>1 DEF Activate, ActivateFails, active
  <2>3. RowInv' /\ (mendable' => mendable)
    BY <1>1, <2>2, RowHolds DEF ServerInv, rowVars
  <2>4. JobInv'  BY <2>1 DEF JobInv, Balanced
  <2>5. FailureIsEarned'  BY <2>1, <2>3, EarnedStays DEF ServerInv
  <2>6. QED  BY <1>1, <2>3, <2>4, <2>5 DEF ServerInv
<1>5. CASE /\ Activate /\ TakesPart /\ job' = active
           /\ \/ UNCHANGED rowVars
              \/ status' = "explaining" /\ aiStatus' = "running" /\ mendable' = FALSE
  <2>1. JobInv'  BY <1>1, <1>3, <1>5 DEF JobInv, Balanced, TakesPart
  <2>2. RowInv' /\ (mendable' => mendable)
    <3>1. CASE UNCHANGED rowVars  BY <1>1, <3>1, RowHolds DEF ServerInv, rowVars
    <3>2. CASE status' = "explaining" /\ aiStatus' = "running" /\ mendable' = FALSE
      BY <1>1, <3>2 DEF ServerInv, RowInv, AIStatus, Explainable, Grounded, Explanations
    <3>3. QED  BY <1>5, <3>1, <3>2
  <2>3. Spent(job') >= Spent(job)
    BY <1>2, <1>3, <1>5 DEF Spent, Job
  <2>4. FailureIsEarned'  BY <1>3, <1>5, <2>2, <2>3, EarnedStays DEF ServerInv
  <2>5. QED  BY <1>1, <2>1, <2>2, <2>4 DEF ServerInv
<1>6. QED  BY <1>4, <1>5 DEF Activate, ActivateFails, active

\* An attempt stores what is grounded, or fails for a cause that counts,
\* whatever strikes it.
LEMMA AttemptKeepsServer ==
  ASSUME ServerInv, Attempt \/ AttemptStruck
  PROVE  ServerInv' /\ stored = None
<1>1. job \in Job /\ job.state = "active" /\ Balanced(job) /\ stored = None
  BY DEF Attempt, AttemptStruck, ServerInv, JobInv
<1>2. UNCHANGED <<due, entitled>>  BY DEF Attempt, AttemptStruck
<1> DEFINE fatal(why) == IsFatal(Code(why))
<1>3. /\ \/ job' = Completed(job) \/ job' = Stalled(job)
         \/ \E unrecoverable \in BOOLEAN : job' = FailedAttempt(job, Attempts, unrecoverable)
      /\ \/ UNCHANGED <<rowVars, stored>>
         \/ \E explanation \in Grounded : Store(explanation)
         \/ \E why : /\ RecordFailure(why) /\ stored' \in {stored} \cup Grounded
                     /\ fatal(why) \/ job.started >= Attempts
  <2>1. ASSUME NEW why, FailAttempt(why)
        PROVE  /\ job' = FailedAttempt(job, Attempts, fatal(why)) /\ UNCHANGED stored
               /\ UNCHANGED rowVars
                  \/ (RecordFailure(why) /\ (fatal(why) \/ job.started >= Attempts))
    BY <2>1 DEF FailAttempt, IsLast
  <2>2. \A why : fatal(why) \in BOOLEAN  BY DEF IsFatal
  <2>3. CASE Attempt
    BY <2>1, <2>2, <2>3 DEF Attempt, Succeed, Store
  <2>4. CASE AttemptStruck
    <3>1. CASE FailAttempt("other")  BY <2>1, <2>2, <3>1
    <3>2. ASSUME NEW why, LoseFailure(why)
          PROVE  /\ job' = FailedAttempt(job, Attempts, FALSE) /\ UNCHANGED stored
                 /\ UNCHANGED rowVars
                    \/ (RecordFailure(why) /\ (fatal(why) \/ job.started >= Attempts))
      BY <3>2 DEF LoseFailure, IsLast
    <3>3. ASSUME NEW explanation \in Grounded, FailAfterStore(explanation)
          PROVE  /\ job' = FailedAttempt(job, Attempts, FALSE)
                 /\ \/ Store(explanation)
                    \/ /\ RecordFailure("other") /\ stored' = explanation
                       /\ fatal("other") \/ job.started >= Attempts
      BY <3>3 DEF FailAfterStore, IsLast
    <3>4. CASE Die  BY <3>4 DEF Die, IsLast
    <3>5. QED  BY <2>4, <3>1, <3>2, <3>3, <3>4 DEF AttemptStruck
  <2>5. QED  BY <2>3, <2>4
<1>4. /\ job' \in Job /\ Balanced(job') /\ job'.state # "active"
      /\ Spent(job') = job.started /\ Spent(job') >= Spent(job)
  BY <1>1, <1>3, JobEnds
<1>5. JobInv'  BY <1>4 DEF JobInv, Balanced
<1>6. RowInv'  BY <1>3, RowHolds DEF ServerInv
<1>7. mendable' => mendable \/ Spent(job') >= Attempts
  <2>1. CASE UNCHANGED <<rowVars, stored>>  BY <2>1 DEF rowVars
  <2>2. CASE \E explanation \in Grounded : Store(explanation)  BY <2>2 DEF Store
  <2>3. ASSUME NEW why, RecordFailure(why), fatal(why) \/ job.started >= Attempts, mendable'
        PROVE  Spent(job') >= Attempts
    <3>1. why \in Passing \ UnnamedStatuses  BY <2>3 DEF RecordFailure
    <3>2. ~fatal(why)  BY <3>1, PassingIsRetried
    <3>3. QED  BY <1>4, <2>3, <3>2
  <2>4. QED  BY <1>3, <2>1, <2>2, <2>3
<1>8. FailureIsEarned'  BY <1>4, <1>7, EarnedStays DEF ServerInv
<1>9. QED  BY <1>1, <1>2, <1>5, <1>6, <1>8 DEF ServerInv

-----------------------------------------------------------------------------
(* The invariant: the page.                                                *)

\* The server's steps leave the page as it is.
LEMMA ServerStep ==
  ASSUME IInv, Schedule \/ ScheduleFails \/ Worker \/ ActivateFails \/ AttemptStruck
  PROVE  IInv'
<1>1. UNCHANGED <<pageVars, requestVars>> /\ faults' \in {faults, faults + 1}
  BY DEF Schedule, ScheduleFails, Worker, Activate, ActivateFails, Attempt, AttemptStruck, Strike
<1>2. ServerInv' /\ (stored' = stored \/ stored = None)
  BY EnqueueKeepsServer, ActivateKeepsServer, AttemptKeepsServer DEF IInv, Worker
<1>3. PageInv'
  BY <1>1 DEF IInv, PageInv, pageVars, loadVars, refVars, loopVars, requestVars, routeVars
<1>4. ShownInv'
  BY <1>1, <1>2 DEF IInv, ShownInv, pageVars, refVars
<1>5. PollInv'
  BY <1>1 DEF IInv, PollInv, pageVars, loadVars, refVars, loopVars, requestVars
<1>6. QED  BY <1>2, <1>3, <1>4, <1>5 DEF IInv

\* The page is opened, left, or has its other requests answered.
LEMMA LoadStep ==
  ASSUME IInv, Open \/ Leave \/ Load
  PROVE  IInv'
<1>1. UNCHANGED serverVars  BY DEF Open, Leave, Load, LoadAnalysis, LoadObservations
<1>2. ServerInv' /\ (UNCHANGED shown => ShownInv')  BY <1>1, ServerStutters DEF IInv
<1>3. Opening \in Loops  BY DEF Loops
<1>4. CASE Open
  <2>1. PageInv'
    <3>1. /\ open' \in BOOLEAN
          /\ analysis' = "loading" /\ set' = "loading" /\ shownStatus' \in AIStatus
          /\ error' = "none" /\ stuck' \in BOOLEAN /\ streak' = 0 /\ timer' = None
      BY <1>4 DEF Open, Page, AIStatus
    <3>2. /\ loop' \in [Loops -> LoopPc] /\ \A s \in Loops : loop'[s] \in {"poll", "none"}
          /\ got' \in [Loops -> AIStatus \cup {"none", "error", "explanation"}]
      BY <1>4 DEF Open, Page, LoopPc
    <3>3. UNCHANGED <<rpc, route, seen>>  BY <1>4 DEF Open, requestVars, routeVars
    <3>4. visits' \in Nat /\ faults' \in Nat  BY <1>4 DEF Open, IInv, PageInv
    <3>5. QED  BY <3>1, <3>2, <3>3, <3>4 DEF IInv, PageInv
  <2>2. loop'[Opening] \in Polling  BY <1>3, <1>4 DEF Open, Page, Polling
  <2>3. PollInv'  BY <1>3, <2>2 DEF PollInv
  <2>4. ShownInv'  BY <1>4 DEF Open, Page, ShownInv
  <2>5. QED  BY <1>2, <2>1, <2>3, <2>4 DEF IInv
<1>5. CASE Leave
  <2>1. PageInv'
    BY <1>5 DEF Leave, Page, IInv, PageInv, AIStatus, LoopPc, RetryPc, routeVars
  <2>2. PollInv' /\ ShownInv'  BY <1>5 DEF Leave, Page, PollInv, ShownInv
  <2>3. QED  BY <1>2, <2>1, <2>2 DEF IInv
<1>6. CASE Load
  <2>1. UNCHANGED <<open, visits, refVars, loopVars, rpc, route, seen>>
    BY <1>6 DEF Load, LoadAnalysis, LoadObservations, requestVars, routeVars
  <2>2. PageInv'
    BY <1>6, <2>1 DEF Load, LoadAnalysis, LoadObservations, Strike, IInv, PageInv, refVars, loopVars
  <2>3. PollInv' /\ UNCHANGED shown  BY <2>1 DEF IInv, PollInv, refVars, loopVars
  <2>4. QED  BY <1>2, <2>2, <2>3 DEF IInv
<1>7. QED  BY <1>4, <1>5, <1>6

\* A loop that stops polling has shown an outcome, an error or the retry
\* button; nothing else it does ends the polling of another.
LEMMA LoopKeeps ==
  ASSUME IInv, NEW s \in Loops, LoopStep(s)
  PROVE  IInv'
<1>1. UNCHANGED <<serverVars, open, visits, analysis, set, rpc, route, seen>>
  BY DEF LoopStep, ServePoll, ReceivePoll, Fire, ServeFetch, ReceiveExplanation, ReceiveError, loadVars,
         requestVars, routeVars
<1>2. ServerInv' /\ (UNCHANGED shown => ShownInv')  BY <1>1, ServerStutters DEF IInv
<1>3. ShownInv'
  <2>1. shown' \in {shown, stored} /\ UNCHANGED stored
    BY <1>1 DEF LoopStep, ServePoll, ReceivePoll, Fire, ServeFetch, ReceiveExplanation, ReceiveError,
                refVars, serverVars
  <2>2. QED  BY <2>1 DEF IInv, ShownInv
<1>4. \A q \in Loops : q # s => loop'[q] = loop[q]
  BY DEF LoopStep, ServePoll, ReceivePoll, Fire, ServeFetch, ReceiveExplanation, ReceiveError, Step,
         IInv, PageInv
<1>5. aiStatus \in AIStatus /\ loop \in [Loops -> LoopPc]  BY DEF IInv, ServerInv, RowInv, PageInv
<1> USE DEF IInv, PageInv, Step, Say, Strike, refVars
<1>6. CASE ServePoll(s)
  <2>1. PageInv'  BY <1>1, <1>5, <1>6 DEF ServePoll, LoopPc
  <2>2. loop'[s] \in Polling  BY <1>5, <1>6 DEF ServePoll, Polling
  <2>3. QED  BY <1>2, <1>3, <2>1, <2>2 DEF PollInv
<1>7. CASE ReceivePoll(s)
  <2>1. got[s] \in AIStatus /\ shownStatus' = got[s]  BY <1>7 DEF ReceivePoll
  <2>2. AfterPoll(s) \in {"none", "fetch", "timer"} /\ loop' = [loop EXCEPT ![s] = AfterPoll(s)]
    BY <1>7 DEF ReceivePoll, AfterPoll
  <2>3. streak' \in Nat /\ stuck' \in BOOLEAN  BY <1>7 DEF ReceivePoll, IsStuck
  <2>4. timer' \in Loops \cup {None} /\ UNCHANGED <<error, faults>>  BY <1>7 DEF ReceivePoll
  <2>5. PageInv'  BY <1>1, <1>7, <2>1, <2>2, <2>3, <2>4 DEF ReceivePoll, LoopPc
  <2>6. CASE AfterPoll(s) = "timer"
    <3>1. loop'[s] \in Polling  BY <2>2, <2>6 DEF Polling
    <3>2. QED  BY <1>2, <1>3, <2>5, <3>1 DEF PollInv
  <2>7. CASE AfterPoll(s) # "timer"
    <3>1. stuck' \/ got[s] \in TerminalStatuses
      BY <1>7, <2>7 DEF ReceivePoll, AfterPoll, TerminalStatuses
    <3>2. PollInv'  BY <2>1, <3>1 DEF PollInv
    <3>3. QED  BY <1>2, <1>3, <2>5, <3>2
  <2>8. QED  BY <2>6, <2>7
<1>8. CASE Fire(s)
  <2>1. PageInv'  BY <1>1, <1>5, <1>8 DEF Fire, LoopPc
  <2>2. loop'[s] \in Polling  BY <1>5, <1>8 DEF Fire, Polling
  <2>3. QED  BY <1>2, <1>3, <2>1, <2>2 DEF PollInv
<1>9. CASE ServeFetch(s)
  <2>1. PageInv'  BY <1>1, <1>5, <1>9 DEF ServeFetch, LoopPc
  <2>2. PollInv'  BY <1>1, <1>4, <1>9 DEF ServeFetch, PollInv, Polling
  <2>3. QED  BY <1>2, <1>3, <2>1, <2>2
<1>10. CASE ReceiveExplanation(s)
  <2>1. PageInv'  BY <1>1, <1>5, <1>10 DEF ReceiveExplanation, LoopPc
  <2>2. PollInv'  BY <1>1, <1>4, <1>10 DEF ReceiveExplanation, PollInv, Polling
  <2>3. QED  BY <1>2, <1>3, <2>1, <2>2
<1>11. CASE ReceiveError(s)
  <2>1. PageInv'  BY <1>1, <1>5, <1>11 DEF ReceiveError, LoopPc
  <2>2. PollInv'  BY <1>11 DEF ReceiveError, PollInv
  <2>3. QED  BY <1>2, <1>3, <2>1, <2>2
<1>12. QED  BY <1>6, <1>7, <1>8, <1>9, <1>10, <1>11 DEF LoopStep

\* A click says nothing, a refusal an error; what is accepted polls.
LEMMA RetryKeeps ==
  ASSUME IInv, NEW r \in Requests, ClickRetry(r) \/ RetryStep(r) \/ LoseRetry(r)
  PROVE  IInv'
<1>1. CASE Route(r) \/ LoseRetry(r)
  <2>1. UNCHANGED pageVars /\ faults' \in {faults, faults + 1}
    BY <1>1 DEF Route, CheckRetry, RecoverRetry, MarkRetry, LoseRetry, Strike
  <2>2. /\ rpc' \in [Requests -> RetryPc]
        /\ \A q \in Requests : rpc[q] \in UnderWay => rpc'[q] \in UnderWay
    BY <1>1 DEF Route, CheckRetry, RecoverRetry, MarkRetry, LoseRetry, Answer, IInv, PageInv,
                RetryPc, UnderWay
  <2>3. route' \in [Requests -> RoutePc] /\ seen' \in [Requests -> Explainable]
    BY <1>1 DEF Route, CheckRetry, RecoverRetry, MarkRetry, LoseRetry, Answer, IInv, PageInv,
                ServerInv, RowInv, RoutePc, Explainable, routeVars
  <2>4. PageInv'
    BY <2>1, <2>2, <2>3 DEF IInv, PageInv, pageVars, loadVars, refVars, loopVars
  <2>5. ServerInv' /\ stored' = stored  BY <1>1, EnqueueKeepsServer DEF IInv
  <2>6. ShownInv'  BY <2>1, <2>5 DEF IInv, ShownInv, pageVars, refVars
  <2>7. PollInv'
    BY <2>1, <2>2 DEF IInv, PollInv, pageVars, loadVars, refVars, loopVars
  <2>8. QED  BY <2>4, <2>5, <2>6, <2>7 DEF IInv
<1>2. CASE ClickRetry(r) \/ RetryAccepted(r) \/ RetryRefused(r)
  <2>1. UNCHANGED <<serverVars, loadVars, shownStatus, got, seen, faults>>
    BY <1>2 DEF ClickRetry, RetryAccepted, RetryRefused, refVars, loopVars, routeVars
  <2>2. ServerInv'  BY <2>1, ServerStutters DEF IInv
  <2>3. shown' \in {shown, None} /\ UNCHANGED stored
    BY <1>2, <2>1 DEF ClickRetry, RetryAccepted, RetryRefused, refVars, serverVars
  <2>4. ShownInv'  BY <2>3 DEF IInv, ShownInv
  <2>5. CASE ClickRetry(r)
    <3>1. PageInv'
      BY <2>1, <2>5 DEF ClickRetry, IInv, PageInv, RetryPc, RoutePc, loopVars, loadVars
    <3>2. rpc'[r] \in UnderWay  BY <2>5 DEF ClickRetry, IInv, PageInv, UnderWay
    <3>3. QED  BY <2>2, <2>4, <3>1, <3>2 DEF IInv, PollInv
  <2>6. CASE RetryAccepted(r)
    <3>1. r \in Loops  BY DEF Loops
    <3>2. TimerCleared \in [Loops -> LoopPc]
          /\ \A s \in Loops : TimerCleared[s] = "reply" => loop[s] = "reply"
      BY DEF TimerCleared, IInv, PageInv, LoopPc
    <3>3. loop' = [TimerCleared EXCEPT ![r] = "poll"]  BY <2>6 DEF RetryAccepted, Restart
    <3> HIDE DEF TimerCleared
    <3>4. PageInv'
      BY <2>1, <2>6, <3>1, <3>2, <3>3
      DEF RetryAccepted, IInv, PageInv, RetryPc, LoopPc, refVars, loadVars, routeVars
    <3>5. loop'[r] \in Polling  BY <3>1, <3>2, <3>3 DEF Polling
    <3>6. QED  BY <2>2, <2>4, <3>1, <3>4, <3>5 DEF IInv, PollInv
  <2>7. CASE RetryRefused(r)
    <3>1. PageInv' /\ error' # "none"
      BY <2>1, <2>7 DEF RetryRefused, IInv, PageInv, RetryPc, loopVars, loadVars, routeVars
    <3>2. QED  BY <2>2, <2>4, <3>1 DEF IInv, PollInv
  <2>8. QED  BY <1>2, <2>5, <2>6, <2>7
<1>3. QED  BY <1>1, <1>2 DEF RetryStep

LEMMA StutterKeeps == IInv /\ UNCHANGED vars => IInv'
<1> SUFFICES ASSUME IInv, UNCHANGED vars  PROVE IInv'  OBVIOUS
<1>1. ServerInv' /\ ShownInv'  BY ServerStutters DEF IInv, vars, serverVars, rowVars
<1>2. PageInv' /\ PollInv'  BY DEF IInv, PageInv, PollInv, vars
<1>3. QED  BY <1>1, <1>2 DEF IInv

LEMMA NextHolds == IInv /\ [Next]_vars => IInv'
  BY ServerStep, LoadStep, LoopKeeps, RetryKeeps, StutterKeeps DEF Next

\* The invariant holds throughout.
LEMMA Invariant == Spec => []IInv
  BY InitHolds, NextHolds, PTL DEF Spec

-----------------------------------------------------------------------------
(* The theorems.                                                           *)

\* Type correctness, of the rows and of the refs of the page.
THEOREM TypeCorrect == Spec => []TypeOK
<1>1. IInv => TypeOK
  BY DEF IInv, ServerInv, RowInv, JobInv, PageInv, ShownInv, TypeOK, Grounded
<1>2. QED  BY <1>1, Invariant, PTL

\* Every reference of an explanation on screen leads to its row, whatever the
\* provider answers (validate-references.ts, aiReferenceResolver.ts).
THEOREM EvidenceShown == Spec => []EvidenceIsFound
<1>1. IInv => EvidenceIsFound
  <2>1. SUFFICES ASSUME IInv, shown # None, NEW g \in References(shown),
                        NEW granularity \in Granularities
        PROVE  LET view == resolveAiReference(g)
               IN  /\ view # None
                   /\ Dimension[g] \notin {"source-ip-path"} \cup (Granularities \ {granularity})
                        => g \in Rows(view, granularity)
                   /\ Dimension[g] = "source-ip-path" =>
                        {p \in Groups : Dimension[p] = "path" /\ Shown[p] = Shown[g]}
                          \subseteq Rows(view, granularity)
    BY DEF EvidenceIsFound
  <2>2. validateGrounding(shown)
    BY <2>1 DEF IInv, ShownInv, ServerInv, RowInv, Grounded
  <2>3. g \in Groups  BY <2>1, <2>2, GroundedResolves
  <2>4. QED  BY <2>3, GroupIsFound
<1>2. QED  BY <1>1, Invariant, PTL

\* What another attempt may mend fails the explanation only at the last one.
THEOREM FailuresEarned == Spec => []FailureIsEarned
<1>1. IInv => FailureIsEarned  BY DEF IInv, ServerInv
<1>2. QED  BY <1>1, Invariant, PTL

\* While there is nothing to show, something is asked for.
THEOREM NeverSilent == Spec => []WaitingIsPolled
<1>1. IInv => WaitingIsPolled
  BY DEF IInv, PollInv, WaitingIsPolled, Polling, UnderWay
<1>2. QED  BY <1>1, Invariant, PTL
=============================================================================
