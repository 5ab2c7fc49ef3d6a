------------------------------- MODULE Upload -------------------------------
(***************************************************************************)
(* From the file a user picks to the job of the Analyzer: the upload page  *)
(* and the processing page of apps/web, POST /projects/:id/analyses, POST  *)
(* /analyses/:id/upload and GET /analyses/:id of apps/api, the Storage and *)
(* the transaction they write to.                                          *)
(*                                                                         *)
(* The storage key of an upload is a random one, so the object of request  *)
(* r is called r.  pc[r] is the next await of the server's handler; the    *)
(* browser may give the request up while the handler goes on.  What the    *)
(* two workers do to an enqueued Analysis is AnalyzerWorker and            *)
(* AiExplanation: here it is any transition the repository accepts.        *)
(***************************************************************************)
EXTENDS Lifecycle, Naturals

CONSTANTS
  Analyses,   \* ids POST /projects/:id/analyses may give: a bound on their number
  Requests,   \* upload requests the browser sends: a bound on their number
  None,       \* null
  MaxFaults   \* bound on failing awaits, crashes and lost answers

ASSUME NoneAssumption == None \notin Analyses \cup Requests
ASSUME FaultsAssumption == MaxFaults \in Nat

VARIABLES
  status,     \* Analysis.status, "none" while there is no row
  row,        \* UploadedAccessLog.storageKey of an Analysis, None without a row
  objects,    \* the objects of the Storage
  swept,      \* the Analyses whose object the retention sweep has removed
  queued,     \* the Analyses whose Analyzer job has been added
  pc, target, answer,  \* per upload request: next await, its Analysis, the answer
  awaiting,   \* the requests the browser still waits for
  page,       \* the page on screen
  subject,    \* its Analysis: pendingAnalysisId of the form, else the route's
  sent,       \* the request that keeps the form's button disabled
  polled,     \* the Analysis the mounted processing page polls, None if it has stopped
  faults, hit \* faults so far, and the requests that suffered one

dbVars      == <<status, row, swept>>
requestVars == <<pc, target, answer>>
browserVars == <<awaiting, page, subject, sent, polled>>
faultVars   == <<faults, hit>>
vars == <<status, row, swept, objects, queued, pc, target, answer,
          awaiting, page, subject, sent, polled, faults, hit>>

UploadPc == {"idle", "status", "row", "put", "discard", "persist", "compensate",
             "enqueue", "done"}
InProgress == UploadPc \ {"idle", "done"}

\* "notQueued" is the 202 with enqueueFailed, "refused" any error response.
Answers == {"none", "accepted", "notQueued", "refused"}

TypeOK ==
  /\ status \in [Analyses -> AnalysisStatus \cup {"none"}]
  /\ row \in [Analyses -> Requests \cup {None}]
  /\ \A a \in Analyses : row[a] = None <=> status[a] \in {"none", "created"}
  /\ \A a \in swept : row[a] # None
  /\ swept \subseteq Analyses
  /\ objects \subseteq Requests
  /\ queued \subseteq Analyses
  /\ pc \in [Requests -> UploadPc]
  /\ target \in [Requests -> Analyses \cup {None}]
  /\ \A r \in Requests : target[r] = None <=> pc[r] = "idle"
  /\ answer \in [Requests -> Answers]
  /\ awaiting \subseteq Requests
  /\ page \in {"overview", "form", "processing", "result"}
  /\ subject \in Analyses \cup {None}
  /\ sent \in Requests \cup {None}
  /\ sent # None => page = "form" /\ sent \in awaiting /\ target[sent] = subject
  /\ polled \in Analyses \cup {None}
  /\ polled # None => page = "processing"
  /\ faults \in Nat
  /\ hit \subseteq Requests

Init ==
  /\ status = [a \in Analyses |-> "none"]
  /\ row = [a \in Analyses |-> None]
  /\ swept = {} /\ objects = {} /\ queued = {}
  /\ pc = [r \in Requests |-> "idle"]
  /\ target = [r \in Requests |-> None]
  /\ answer = [r \in Requests |-> "none"]
  /\ awaiting = {}
  /\ page = "overview" /\ subject = None /\ sent = None /\ polled = None
  /\ faults = 0 /\ hit = {}

Strike(struck) ==
  /\ faults < MaxFaults
  /\ faults' = faults + 1
  /\ hit' = hit \cup struck

-----------------------------------------------------------------------------
(* POST /analyses/:id/upload.                                              *)

Goto(r, label) == pc' = [pc EXCEPT ![r] = label] /\ UNCHANGED <<target, answer>>

Reply(r, what) ==
  /\ pc' = [pc EXCEPT ![r] = "done"]
  /\ answer' = [answer EXCEPT ![r] = what]
  /\ UNCHANGED target

\* 409 unless the Analysis awaits its upload.
CheckStatus(r) ==
  /\ pc[r] = "status"
  /\ IF status[target[r]] = "created" THEN Goto(r, "row") ELSE Reply(r, "refused")
  /\ UNCHANGED <<dbVars, objects, queued, browserVars, faultVars>>

\* 409 if there is a row already, 400 if the form holds no file.
CheckRow(r) ==
  /\ pc[r] = "row"
  /\ \/ row[target[r]] = None /\ Goto(r, "put")
     \/ Reply(r, "refused")
  /\ UNCHANGED <<dbVars, objects, queued, browserVars, faultVars>>

\* The stream is stored to its end, or to the size limit; what was too large
\* or empty is discarded.
PutObject(r) ==
  /\ pc[r] = "put"
  /\ objects' = objects \cup {r}
  /\ \E next \in {"persist", "discard"} : Goto(r, next)
  /\ UNCHANGED <<dbVars, queued, browserVars, faultVars>>

\* Mutant: with a key made of the analysisId alone, the objects are shared.
DeleteSharedObject(r) ==
  /\ pc[r] \in {"discard", "compensate"}
  /\ objects' = objects \ {r, row[target[r]]}
  /\ Reply(r, "refused")
  /\ UNCHANGED <<dbVars, queued, browserVars, faultVars>>

\* bestEffortDelete, after which the request is refused.
DeleteOwnObject(r) ==
  /\ pc[r] \in {"discard", "compensate"}
  /\ objects' = objects \ {r}
  /\ Reply(r, "refused")
  /\ UNCHANGED <<dbVars, queued, browserVars, faultVars>>

\* Mutant: analysisId is not unique.
AlwaysCommits(r) == CanTransition(status[target[r]], "uploaded")

\* persistUploadedAccessLog: the row, unique by analysisId, and the status.
Commits(r) ==
  /\ row[target[r]] = None
  /\ CanTransition(status[target[r]], "uploaded")

Commit(r) ==
  /\ row' = [row EXCEPT ![target[r]] = r]
  /\ status' = [status EXCEPT ![target[r]] = "uploaded"]
  /\ UNCHANGED swept

\* Mutant: a conflict is answered without the compensating delete.
PersistLeavesObject(r) ==
  /\ pc[r] = "persist"
  /\ IF Commits(r) THEN Commit(r) /\ Goto(r, "enqueue")
                   ELSE UNCHANGED dbVars /\ Reply(r, "refused")
  /\ UNCHANGED <<objects, queued, browserVars, faultVars>>

Persist(r) ==
  /\ pc[r] = "persist"
  /\ IF Commits(r) THEN Commit(r) /\ Goto(r, "enqueue")
                   ELSE UNCHANGED dbVars /\ Goto(r, "compensate")
  /\ UNCHANGED <<objects, queued, browserVars, faultVars>>

Enqueue(r) ==
  /\ pc[r] = "enqueue"
  /\ queued' = queued \cup {target[r]}
  /\ Reply(r, "accepted")
  /\ UNCHANGED <<dbVars, objects, browserVars, faultVars>>

\* An await of the handler fails.  A write may have been done all the same:
\* only its answer is missing.
ReadFails(r) ==
  /\ pc[r] \in {"status", "row"}
  /\ Reply(r, "refused")
  /\ UNCHANGED <<dbVars, objects, queued>>

PutFails(r) ==
  /\ pc[r] = "put"
  /\ objects' \in {objects, objects \cup {r}}
  /\ Reply(r, "refused")
  /\ UNCHANGED <<dbVars, queued>>

DeleteFails(r) ==
  /\ pc[r] \in {"discard", "compensate"}
  /\ Reply(r, "refused")
  /\ UNCHANGED <<dbVars, objects, queued>>

PersistFails(r) ==
  /\ pc[r] = "persist"
  /\ \/ Commits(r) /\ Commit(r)
     \/ UNCHANGED dbVars
  /\ Goto(r, "compensate")
  /\ UNCHANGED <<objects, queued>>

EnqueueFails(r) ==
  /\ pc[r] = "enqueue"
  /\ queued' \in {queued, queued \cup {target[r]}}
  /\ Reply(r, "notQueued")
  /\ UNCHANGED <<dbVars, objects>>

Fail(r) ==
  /\ \/ ReadFails(r) \/ PutFails(r) \/ DeleteFails(r) \/ PersistFails(r) \/ EnqueueFails(r)
  /\ Strike({r})
  /\ UNCHANGED browserVars

\* The API's process dies with every request in it.
Crash ==
  LET struck == {r \in Requests : pc[r] \in InProgress}
  IN /\ struck # {}
     /\ pc' = [r \in Requests |-> IF r \in struck THEN "done" ELSE pc[r]]
     /\ Strike(struck)
     /\ UNCHANGED <<dbVars, objects, queued, target, answer, browserVars>>

Handle(r) ==
  \/ CheckStatus(r) \/ CheckRow(r) \/ PutObject(r) \/ DeleteOwnObject(r)
  \/ Persist(r) \/ Enqueue(r)

-----------------------------------------------------------------------------
(* The workers.                                                            *)

Advance(a) ==
  /\ a \in queued
  /\ status[a] # "completed"
  /\ \E next \in AnalysisStatus :
       /\ <<status[a], next>> \in AllowedTransitions
       /\ status' = [status EXCEPT ![a] = next]
  /\ UNCHANGED <<row, swept, objects, queued, requestVars, browserVars, faultVars>>

\* Once the outcome is there the raw log goes.
RemoveRawLog(a) ==
  /\ a \in queued
  /\ status[a] \notin {"uploaded", "analyzing"}
  /\ row[a] \in objects
  /\ objects' = objects \ {row[a]}
  /\ UNCHANGED <<dbVars, queued, requestVars, browserVars, faultVars>>

\* It also goes with the sweep that finds the row past its expiresAt, whatever
\* has become of the Analysis by then.
Sweep(a) ==
  /\ row[a] \in objects
  /\ objects' = objects \ {row[a]}
  /\ swept' = swept \cup {a}
  /\ UNCHANGED <<status, row, queued, requestVars, browserVars, faultVars>>

-----------------------------------------------------------------------------
(* The browser.                                                            *)

OpenForm ==
  /\ page = "overview"
  /\ page' = "form"
  /\ UNCHANGED <<dbVars, objects, queued, requestVars, awaiting, subject, sent, polled, faultVars>>

Send(r, a) ==
  /\ pc[r] = "idle"
  /\ pc' = [pc EXCEPT ![r] = "status"]
  /\ target' = [target EXCEPT ![r] = a]
  /\ awaiting' = awaiting \cup {r}
  /\ sent' = r
  /\ subject' = a
  /\ UNCHANGED <<answer, page, polled>>

\* onSubmit: an Analysis is created unless this visit has one already.
Submit(r) ==
  /\ page = "form" /\ sent = None
  /\ IF subject # None
     THEN Send(r, subject) /\ UNCHANGED status
     ELSE \E a \in Analyses :
            /\ status[a] = "none"
            /\ status' = [status EXCEPT ![a] = "created"]
            /\ Send(r, a)
  /\ UNCHANGED <<row, swept, objects, queued, faultVars>>

\* The answer of createAnalysis is lost: the page does not know its Analysis.
LoseAnalysis(a) ==
  /\ page = "form" /\ sent = None /\ subject = None
  /\ status[a] = "none"
  /\ status' = [status EXCEPT ![a] = "created"]
  /\ Strike({})
  /\ UNCHANGED <<row, swept, objects, queued, requestVars, browserVars>>

\* Mutant: isSubmitting is reset where a request succeeds, not in a finally.
GiveUpSilently(r) ==
  /\ awaiting' = awaiting \ {r}
  /\ UNCHANGED <<page, subject, sent, polled>>

\* Only the form that sent the request has its button enabled again.
GiveUp(r) ==
  /\ awaiting' = awaiting \ {r}
  /\ sent' = IF sent = r THEN None ELSE sent
  /\ UNCHANGED <<page, subject, polled>>

\* The router keeps the component of a processing page that is on screen, and
\* with it the composable and the Analysis it was set up with.
ShowProcessing(a) ==
  /\ page' = "processing" /\ subject' = a /\ sent' = None
  /\ polled' = IF page = "processing" THEN polled ELSE a

\* A 202, with its job or without, opens the processing page, even if the user
\* has left the form since.
Deliver(r) ==
  /\ r \in awaiting /\ answer[r] # "none"
  /\ IF answer[r] = "refused"
     THEN GiveUp(r)
     ELSE awaiting' = awaiting \ {r} /\ ShowProcessing(target[r])
  /\ UNCHANGED <<dbVars, objects, queued, requestVars, faultVars>>

\* The server died: the connection is reset.
NoAnswer(r) ==
  /\ r \in awaiting /\ pc[r] = "done" /\ answer[r] = "none"
  /\ GiveUp(r)
  /\ UNCHANGED <<dbVars, objects, queued, requestVars, faultVars>>

\* The connection breaks, whatever the server is doing.
LoseAnswer(r) ==
  /\ r \in awaiting
  /\ GiveUp(r)
  /\ Strike({})
  /\ UNCHANGED <<dbVars, objects, queued, requestVars>>

Leave ==
  /\ page # "overview"
  /\ page' = "overview" /\ subject' = None /\ sent' = None /\ polled' = None
  /\ UNCHANGED <<dbVars, objects, queued, requestVars, awaiting, faultVars>>

\* The list may have been read when the Analysis was still in an earlier status.
OpenAnalysis(a) ==
  /\ page = "overview" /\ status[a] # "none"
  /\ \/ ShowProcessing(a)
     \/ /\ status[a] \notin {"created", "uploaded", "analyzing"}
        /\ page' = "result" /\ subject' = a
        /\ UNCHANGED <<sent, polled>>
  /\ UNCHANGED <<dbVars, objects, queued, requestVars, awaiting, faultVars>>


TerminalStatuses == {"analyzer_result_ready", "failed", "completed"}

\* A poll that reads another status only sets the timer of the next.  The page
\* that follows is that of the Analysis in the route, polled or not.
Poll ==
  /\ polled # None
  /\ status[polled] \in TerminalStatuses
  /\ page' = "result" /\ polled' = None
  /\ UNCHANGED <<dbVars, objects, queued, requestVars, awaiting, subject, sent, faultVars>>

\* A poll that fails is the last.
PollFails ==
  /\ polled # None
  /\ polled' = None
  /\ Strike({})
  /\ UNCHANGED <<dbVars, objects, queued, requestVars, awaiting, page, subject, sent>>

-----------------------------------------------------------------------------
Next ==
  \/ \E r \in Requests :
       \/ Handle(r) \/ Fail(r) \/ Submit(r) \/ Deliver(r) \/ NoAnswer(r) \/ LoseAnswer(r)
  \/ \E a \in Analyses :
       \/ Advance(a) \/ RemoveRawLog(a) \/ Sweep(a) \/ LoseAnalysis(a) \/ OpenAnalysis(a)
  \/ Crash \/ OpenForm \/ Leave \/ Poll \/ PollFails

\* The server goes on with what it has begun, a connection ends in an answer
\* or an error, the timers of the browser fire, and the workers do what
\* AnalyzerWorker and AiExplanation show of them.
Fairness ==
  /\ \A r \in Requests : WF_vars(Handle(r)) /\ WF_vars(Deliver(r)) /\ WF_vars(NoAnswer(r))
  /\ \A a \in Analyses : WF_vars(Advance(a))
  /\ WF_vars(Poll)

Spec == Init /\ [][Next]_vars /\ Fairness

-----------------------------------------------------------------------------
(* What the upload is for.                                                 *)

\* What AnalyzerWorker starts from: a job is added only for an Analysis whose
\* row is committed and whose object is in the Storage, where it stays until
\* the Analysis is decided or its row expires.  A retry, a second request at
\* work or the compensating delete of another upload could break it.
EnqueuedIsReady ==
  \A a \in queued :
    /\ row[a] # None
    /\ status[a] \in {"uploaded", "analyzing"} /\ a \notin swept => row[a] \in objects

\* Of the requests a user's retries put to work for one Analysis, at most one
\* is told that its file was accepted, and it is its file that is analysed.
OneUploadAccepted ==
  \A r \in Requests : answer[r] \in {"accepted", "notQueued"} => row[target[r]] = r

\* An object that no row names, which no sweep will ever find, is only left
\* by a request that was cut off or whose own storage call failed.
OrphanNeedsFault ==
  \A r \in objects : row[target[r]] = r \/ pc[r] \in InProgress \/ r \in hit


\* The button of the form does not stay disabled: every submission ends,
\* whatever becomes of the server, the connection or the request.
SubmitReturns == (sent # None) ~> (sent = None)

=============================================================================
