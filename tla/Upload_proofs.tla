--------------------------- MODULE Upload_proofs ---------------------------
(***************************************************************************)
(* The safety of the upload for any number of Analyses and requests, and   *)
(* any bound on the faults.                                                *)
(***************************************************************************)
EXTENDS Upload, TLAPS

\* What a request has done by the await it is at.  Its object is its own, so
\* only the request itself, the worker of its row or the sweep removes it.
RequestInv ==
  \A r \in Requests :
    /\ answer[r] # "none" => pc[r] = "done"
    /\ pc[r] = "enqueue" => row[target[r]] = r
    /\ pc[r] = "persist" => r \in objects
    /\ pc[r] = "enqueue" => r \in objects \/ target[r] \in swept
    /\ pc[r] \in {"idle", "status", "row"} => r \notin objects

\* The row of an Analysis names a request that uploaded for it and has got
\* past the transaction, whatever it knows of its outcome.
RowInv ==
  \A a \in Analyses :
    row[a] # None =>
      target[row[a]] = a /\ pc[row[a]] \in {"enqueue", "compensate", "done"}

\* The request that added the job has nothing left to do, and with it nothing
\* left to undo: without this conjunct a compensating delete could still come.
QueueInv ==
  \A a \in queued :
    /\ row[a] # None
    /\ pc[row[a]] = "done"
    /\ status[a] \in {"uploaded", "analyzing"} /\ a \notin swept => row[a] \in objects

IInv ==
  /\ RequestInv
  /\ RowInv
  /\ QueueInv
  /\ OneUploadAccepted
  /\ OrphanNeedsFault

USE NoneAssumption, FaultsAssumption

-----------------------------------------------------------------------------
(* Type correctness.                                                       *)

\* The initial states are well typed.
LEMMA InitTypeOK == Init => TypeOK
<1> SUFFICES ASSUME Init PROVE TypeOK  OBVIOUS
<1>1. /\ status \in [Analyses -> AnalysisStatus \cup {"none"}]
      /\ row \in [Analyses -> Requests \cup {None}]
      /\ \A a \in Analyses : row[a] = None <=> status[a] \in {"none", "created"}
  BY DEF Init
<1>2. /\ pc \in [Requests -> UploadPc]
      /\ target \in [Requests -> Analyses \cup {None}]
      /\ \A r \in Requests : target[r] = None <=> pc[r] = "idle"
      /\ answer \in [Requests -> Answers]
  BY DEF Init, UploadPc, Answers
<1>3. QED  BY <1>1, <1>2 DEF Init, TypeOK

\* A request moved on keeps the types of what is kept per request.
LEMMA GotoTypeOK ==
  ASSUME TypeOK, NEW r \in Requests, pc[r] # "idle", NEW label \in UploadPc \ {"idle"},
         Goto(r, label) \/ \E what \in Answers : Reply(r, what)
  PROVE  /\ pc' \in [Requests -> UploadPc]
         /\ target' = target
         /\ \A q \in Requests : target'[q] = None <=> pc'[q] = "idle"
         /\ answer' \in [Requests -> Answers]
  BY DEF TypeOK, Goto, Reply, UploadPc

\* The row and the status are written together.
LEMMA CommitTypeOK ==
  ASSUME TypeOK, NEW r \in Requests, pc[r] # "idle", Commit(r)
  PROVE  /\ status' \in [Analyses -> AnalysisStatus \cup {"none"}]
         /\ row' \in [Analyses -> Requests \cup {None}]
         /\ \A a \in Analyses : row'[a] = None <=> status'[a] \in {"none", "created"}
         /\ swept' \subseteq Analyses /\ \A a \in swept' : row'[a] # None
<1>1. target[r] \in Analyses  BY DEF TypeOK
<1>2. QED  BY <1>1 DEF TypeOK, Commit, AnalysisStatus

\* What the handler's own steps leave alone in the browser.
LEMMA HandlerTypeOK ==
  ASSUME TypeOK, UNCHANGED browserVars, target' = target,
         /\ status' \in [Analyses -> AnalysisStatus \cup {"none"}]
         /\ row' \in [Analyses -> Requests \cup {None}]
         /\ \A a \in Analyses : row'[a] = None <=> status'[a] \in {"none", "created"}
         /\ swept' \subseteq Analyses /\ \A a \in swept' : row'[a] # None,
         objects' \subseteq Requests, queued' \subseteq Analyses,
         pc' \in [Requests -> UploadPc],
         \A r \in Requests : target'[r] = None <=> pc'[r] = "idle",
         answer' \in [Requests -> Answers], faults' \in Nat, hit' \subseteq Requests
  PROVE  TypeOK'
  BY DEF TypeOK, browserVars

\* Every step keeps the types.
LEMMA NextTypeOK == TypeOK /\ IInv /\ [Next]_vars => TypeOK'
<1> SUFFICES ASSUME TypeOK, IInv, [Next]_vars PROVE TypeOK'  OBVIOUS
<1>1. ASSUME NEW r \in Requests, Handle(r) PROVE TypeOK'
  <2>1. CASE CheckStatus(r)
    BY <2>1 DEF CheckStatus, TypeOK, Goto, Reply, UploadPc, Answers,
                dbVars, browserVars, faultVars
  <2>2. CASE CheckRow(r)
    BY <2>2 DEF CheckRow, TypeOK, Goto, Reply, UploadPc, Answers,
                dbVars, browserVars, faultVars
  <2>3. CASE PutObject(r)
    BY <2>3 DEF PutObject, TypeOK, Goto, UploadPc, dbVars, browserVars, faultVars
  <2>4. CASE DeleteOwnObject(r)
    BY <2>4 DEF DeleteOwnObject, TypeOK, Reply, UploadPc, Answers,
                dbVars, browserVars, faultVars
  <2>5. CASE Persist(r)
    <3>1. pc[r] # "idle" /\ UNCHANGED <<objects, queued, browserVars, faultVars>>
      BY <2>5 DEF Persist
    <3>2. Goto(r, "enqueue") \/ Goto(r, "compensate")  BY <2>5 DEF Persist
    <3>3. "enqueue" \in UploadPc \ {"idle"} /\ "compensate" \in UploadPc \ {"idle"}
      BY DEF UploadPc
    <3>4. /\ pc' \in [Requests -> UploadPc] /\ target' = target
          /\ \A q \in Requests : target'[q] = None <=> pc'[q] = "idle"
          /\ answer' \in [Requests -> Answers]
      BY <3>1, <3>2, <3>3, GotoTypeOK
    <3>5. /\ status' \in [Analyses -> AnalysisStatus \cup {"none"}]
          /\ row' \in [Analyses -> Requests \cup {None}]
          /\ \A a \in Analyses : row'[a] = None <=> status'[a] \in {"none", "created"}
          /\ swept' \subseteq Analyses /\ \A a \in swept' : row'[a] # None
      <4>1. CASE Commit(r)  BY <3>1, <4>1, CommitTypeOK
      <4>2. CASE UNCHANGED dbVars  BY <4>2 DEF TypeOK, dbVars
      <4>3. QED  BY <2>5, <4>1, <4>2 DEF Persist
    <3>6. QED  BY <3>1, <3>4, <3>5, HandlerTypeOK DEF TypeOK, faultVars
  <2>6. CASE Enqueue(r)
    BY <2>6 DEF Enqueue, TypeOK, Reply, UploadPc, Answers, dbVars, browserVars, faultVars
  <2>7. QED  BY <1>1, <2>1, <2>2, <2>3, <2>4, <2>5, <2>6 DEF Handle
<1>2. ASSUME NEW r \in Requests, Fail(r) PROVE TypeOK'
  <2>1. faults' \in Nat /\ hit' \subseteq Requests /\ UNCHANGED browserVars
    BY <1>2 DEF Fail, Strike, TypeOK
  <2>2. pc[r] # "idle" /\ (PersistFails(r) => Goto(r, "compensate"))
    BY <1>2 DEF Fail, ReadFails, PutFails, DeleteFails, PersistFails, EnqueueFails
  <2>3. Goto(r, "compensate") \/ \E what \in Answers : Reply(r, what)
    <3>1. "refused" \in Answers /\ "notQueued" \in Answers  BY DEF Answers
    <3>2. QED
      BY <1>2, <3>1 DEF Fail, ReadFails, PutFails, DeleteFails, PersistFails, EnqueueFails
  <2>4. "compensate" \in UploadPc \ {"idle"}  BY DEF UploadPc
  <2>5. /\ pc' \in [Requests -> UploadPc] /\ target' = target
        /\ \A q \in Requests : target'[q] = None <=> pc'[q] = "idle"
        /\ answer' \in [Requests -> Answers]
    BY <2>2, <2>3, <2>4, GotoTypeOK
  <2>6. /\ status' \in [Analyses -> AnalysisStatus \cup {"none"}]
        /\ row' \in [Analyses -> Requests \cup {None}]
        /\ \A a \in Analyses : row'[a] = None <=> status'[a] \in {"none", "created"}
        /\ swept' \subseteq Analyses /\ \A a \in swept' : row'[a] # None
    <3>1. CASE Commit(r)  BY <2>2, <3>1, CommitTypeOK
    <3>2. CASE UNCHANGED dbVars  BY <3>2 DEF TypeOK, dbVars
    <3>3. QED
      BY <1>2, <3>1, <3>2 DEF Fail, ReadFails, PutFails, DeleteFails, PersistFails, EnqueueFails
  <2>7. objects' \subseteq Requests
    BY <1>2 DEF Fail, ReadFails, PutFails, DeleteFails, PersistFails, EnqueueFails, TypeOK
  <2>8. queued' \subseteq Analyses
    <3>1. target[r] \in Analyses  BY <2>2 DEF TypeOK
    <3>2. QED
      BY <1>2, <3>1 DEF Fail, ReadFails, PutFails, DeleteFails, PersistFails, EnqueueFails, TypeOK
  <2>9. QED  BY <2>1, <2>5, <2>6, <2>7, <2>8, HandlerTypeOK
<1>3. ASSUME NEW r \in Requests, Submit(r) PROVE TypeOK'
  <2>1. CASE subject # None
    BY <1>3, <2>1 DEF Submit, Send, TypeOK, UploadPc, faultVars
  <2>2. CASE subject = None
    <3>1. PICK a \in Analyses : /\ status[a] = "none"
                                /\ status' = [status EXCEPT ![a] = "created"]
                                /\ Send(r, a)
      BY <1>3, <2>2 DEF Submit
    <3>2. /\ status' \in [Analyses -> AnalysisStatus \cup {"none"}]
          /\ \A b \in Analyses : row[b] = None <=> status'[b] \in {"none", "created"}
      BY <3>1 DEF TypeOK, AnalysisStatus
    <3>3. page = "form" /\ UNCHANGED <<row, swept, objects, queued, faultVars>>  BY <1>3 DEF Submit
    <3>4. /\ pc' \in [Requests -> UploadPc]
          /\ target' \in [Requests -> Analyses \cup {None}]
          /\ \A q \in Requests : target'[q] = None <=> pc'[q] = "idle"
      BY <3>1 DEF Send, TypeOK, UploadPc
    <3>5. sent' \in awaiting' /\ target'[sent'] = subject' /\ page' = "form"
      BY <3>1, <3>3 DEF Send, TypeOK
    <3>6. QED  BY <3>1, <3>2, <3>3, <3>4, <3>5 DEF Send, TypeOK, faultVars
  <2>3. QED  BY <2>1, <2>2
<1>4. ASSUME NEW r \in Requests, Deliver(r) PROVE TypeOK'
  <2>1. target[r] \in Analyses
    BY <1>4 DEF Deliver, IInv, RequestInv, TypeOK
  <2>2. UNCHANGED <<dbVars, objects, queued, requestVars, faultVars>>  BY <1>4 DEF Deliver
  <2>3. CASE GiveUp(r)
    BY <2>2, <2>3 DEF GiveUp, TypeOK, dbVars, requestVars, faultVars
  <2>4. CASE awaiting' = awaiting \ {r} /\ ShowProcessing(target[r])
    BY <2>1, <2>2, <2>4 DEF ShowProcessing, TypeOK, dbVars, requestVars, faultVars
  <2>5. QED  BY <1>4, <2>3, <2>4 DEF Deliver
<1>5. ASSUME NEW r \in Requests, NoAnswer(r) PROVE TypeOK'
  BY <1>5 DEF NoAnswer, GiveUp, TypeOK, dbVars, requestVars, faultVars
<1>6. ASSUME NEW r \in Requests, LoseAnswer(r) PROVE TypeOK'
  BY <1>6 DEF LoseAnswer, GiveUp, Strike, TypeOK, dbVars, requestVars
<1>7. ASSUME NEW a \in Analyses, Advance(a) PROVE TypeOK'
  <2>1. PICK next \in AnalysisStatus : /\ <<status[a], next>> \in AllowedTransitions
                                       /\ status' = [status EXCEPT ![a] = next]
    BY <1>7 DEF Advance
  <2>2. next # "created" /\ row[a] # None
    BY <1>7, <2>1 DEF Advance, AllowedTransitions, IInv, QueueInv
  <2>3. next # "none"  BY DEF AnalysisStatus
  <2>4. /\ status' \in [Analyses -> AnalysisStatus \cup {"none"}]
        /\ \A b \in Analyses : row[b] = None <=> status'[b] \in {"none", "created"}
    BY <2>1, <2>2, <2>3 DEF TypeOK
  <2>5. UNCHANGED <<row, swept, objects, queued, requestVars, browserVars, faultVars>>
    BY <1>7 DEF Advance
  <2>6. QED  BY <2>4, <2>5 DEF TypeOK, requestVars, browserVars, faultVars
<1>8. ASSUME NEW a \in Analyses, RemoveRawLog(a) PROVE TypeOK'
  BY <1>8 DEF RemoveRawLog, TypeOK, dbVars, requestVars, browserVars, faultVars
<1>9. ASSUME NEW a \in Analyses, LoseAnalysis(a) PROVE TypeOK'
  BY <1>9 DEF LoseAnalysis, Strike, TypeOK, AnalysisStatus, requestVars, browserVars
<1>10. ASSUME NEW a \in Analyses, OpenAnalysis(a) PROVE TypeOK'
  BY <1>10 DEF OpenAnalysis, ShowProcessing, TypeOK, dbVars, requestVars, faultVars
<1>11. CASE Crash
  <2>1. pc' \in [Requests -> UploadPc] /\ \A r \in Requests : target[r] = None <=> pc'[r] = "idle"
    BY <1>11 DEF Crash, TypeOK, UploadPc, InProgress
  <2>2. faults' \in Nat /\ hit' \subseteq Requests  BY <1>11 DEF Crash, Strike, TypeOK
  <2>3. UNCHANGED <<dbVars, objects, queued, target, answer, browserVars>>  BY <1>11 DEF Crash
  <2>4. QED  BY <2>1, <2>2, <2>3, HandlerTypeOK DEF TypeOK, dbVars
<1>12. CASE OpenForm
  BY <1>12 DEF OpenForm, TypeOK, dbVars, requestVars, faultVars
<1>13. CASE Leave
  BY <1>13 DEF Leave, TypeOK, dbVars, requestVars, faultVars
<1>14. CASE Poll
  BY <1>14 DEF Poll, TypeOK, dbVars, requestVars, faultVars
<1>15. CASE PollFails
  <2>1. faults' \in Nat /\ hit' \subseteq Requests  BY <1>15 DEF PollFails, Strike, TypeOK
  <2>2. QED  BY <1>15, <2>1 DEF PollFails, TypeOK, dbVars, requestVars
<1>16. CASE UNCHANGED vars
  BY <1>16 DEF vars, TypeOK
<1>17. ASSUME NEW a \in Analyses, Sweep(a) PROVE TypeOK'
  BY <1>17 DEF Sweep, TypeOK, requestVars, browserVars, faultVars
<1>18. QED
  BY <1>1, <1>2, <1>3, <1>4, <1>5, <1>6, <1>7, <1>8, <1>9, <1>10, <1>11, <1>12, <1>13,
     <1>14, <1>15, <1>16, <1>17 DEF Next

-----------------------------------------------------------------------------
(* The inductive invariant.                                                *)

\* Before anything is sent there is no row, no object and no job.
LEMMA InitIInv == Init => IInv
  BY DEF Init, IInv, RequestInv, RowInv, QueueInv, OneUploadAccepted, OrphanNeedsFault

\* What only the browser sees, and a fault more, break none of it.
LEMMA BrowserIInv ==
  ASSUME TypeOK, IInv, UNCHANGED <<dbVars, objects, queued, requestVars>>, hit \subseteq hit'
  PROVE  IInv'
<1> USE DEF dbVars, requestVars
<1>1. RequestInv'  BY DEF IInv, RequestInv
<1>2. RowInv'  BY DEF IInv, RowInv
<1>3. QueueInv'  BY DEF IInv, QueueInv
<1>4. OneUploadAccepted'  BY DEF IInv, OneUploadAccepted
<1>5. OrphanNeedsFault'  BY DEF IInv, OrphanNeedsFault
<1>6. QED  BY <1>1, <1>2, <1>3, <1>4, <1>5 DEF IInv

\* A request that is answered or moved on without touching the database: its
\* object may be stored or removed, and only its own.
LEMMA OwnObjectIInv ==
  ASSUME TypeOK, IInv, NEW r \in Requests, UNCHANGED <<dbVars, queued>>,
         pc[r] \in {"status", "row", "put", "discard", "compensate"},
         objects' \in {objects, objects \cup {r}, objects \ {r}}, hit \subseteq hit',
         \/ Reply(r, "refused")
         \/ \E label \in {"row", "put", "persist", "discard"} : Goto(r, label),
         pc'[r] \in {"status", "row"} => r \notin objects',
         pc'[r] = "persist" => r \in objects',
         pc'[r] = "done" => r \notin objects' \/ r \in hit',
         pc[r] = "compensate" => pc'[r] = "done"
  PROVE  IInv'
<1>1. /\ pc' = [pc EXCEPT ![r] = pc'[r]] /\ target' = target
      /\ pc'[r] \in {"row", "put", "persist", "discard", "done"}
  BY DEF Goto, Reply, TypeOK
<1>2. \A q \in Requests : q # r => answer'[q] = answer[q] /\ pc'[q] = pc[q]
  BY DEF Goto, Reply, TypeOK
<1>3. answer'[r] = (IF pc'[r] = "done" THEN "refused" ELSE "none")
  BY DEF Goto, Reply, TypeOK, IInv, RequestInv, Answers
<1>4. \A q \in Requests : q # r => (q \in objects' <=> q \in objects)  OBVIOUS
<1>5. \A a \in Analyses : row[a] = r => pc[r] = "compensate"  BY DEF IInv, RowInv, TypeOK
<1> USE DEF dbVars
<1>6. RequestInv'  BY <1>1, <1>2, <1>3, <1>4 DEF IInv, RequestInv
<1>7. RowInv'
  <2> SUFFICES ASSUME NEW a \in Analyses, row[a] # None
               PROVE  target[row[a]] = a /\ pc'[row[a]] \in {"enqueue", "compensate", "done"}
    BY <1>1 DEF RowInv
  <2>1. row[a] \in Requests /\ target[row[a]] = a
    BY DEF IInv, RowInv, TypeOK
  <2>2. CASE row[a] = r  BY <1>1, <1>5, <2>1, <2>2
  <2>3. CASE row[a] # r  BY <1>2, <2>1, <2>3 DEF IInv, RowInv
  <2>4. QED  BY <2>2, <2>3
<1>8. QueueInv'
  <2> SUFFICES ASSUME NEW a \in queued
               PROVE  /\ row[a] # None /\ pc'[row[a]] = "done"
                      /\ status[a] \in {"uploaded", "analyzing"} /\ a \notin swept => row[a] \in objects'
    BY DEF QueueInv
  <2>1. row[a] \in Requests /\ row[a] # None /\ pc[row[a]] = "done"
    BY DEF IInv, QueueInv, TypeOK
  <2>2. row[a] # r  BY <2>1
  <2>3. QED  BY <1>2, <1>4, <2>1, <2>2 DEF IInv, QueueInv
<1>9. OneUploadAccepted'  BY <1>1, <1>2, <1>3 DEF IInv, OneUploadAccepted
<1>10. OrphanNeedsFault'
  <2> SUFFICES ASSUME NEW q \in objects'
               PROVE  row[target[q]] = q \/ pc'[q] \in InProgress \/ q \in hit'
    BY <1>1 DEF OrphanNeedsFault
  <2>1. q \in Requests  BY DEF TypeOK
  <2>2. CASE q = r  BY <1>1, <2>2 DEF InProgress, UploadPc
  <2>3. CASE q # r  BY <1>2, <1>4, <2>1, <2>3 DEF IInv, OrphanNeedsFault
  <2>4. QED  BY <2>2, <2>3
<1>11. QED  BY <1>6, <1>7, <1>8, <1>9, <1>10 DEF IInv

\* The transaction, with an outcome the handler knows or not.  A row it writes
\* is the first of its Analysis, so that no other request had one.
LEMMA PersistIInv ==
  ASSUME TypeOK, IInv, NEW r \in Requests, pc[r] = "persist",
         UNCHANGED <<objects, queued>>, hit \subseteq hit',
         \/ Commits(r) /\ Commit(r) /\ (Goto(r, "enqueue") \/ Goto(r, "compensate"))
         \/ UNCHANGED dbVars /\ Goto(r, "compensate")
  PROVE  IInv'
<1>1. /\ pc' = [pc EXCEPT ![r] = pc'[r]] /\ UNCHANGED <<target, answer>>
      /\ pc'[r] \in {"enqueue", "compensate"}
  BY DEF Goto, TypeOK
<1>2. r \in objects /\ target[r] \in Analyses /\ answer[r] = "none"
  BY DEF IInv, RequestInv, TypeOK, Answers
<1>3. \A a \in Analyses : row[a] # r  BY DEF IInv, RowInv, TypeOK
<1>4. CASE Commits(r) /\ Commit(r)
  <2>1. /\ row[target[r]] = None /\ row' = [row EXCEPT ![target[r]] = r]
        /\ status' = [status EXCEPT ![target[r]] = "uploaded"] /\ swept' = swept
    BY <1>4 DEF Commits, Commit
  <2>2. /\ row'[target[r]] = r
        /\ \A a \in Analyses : a # target[r] => row'[a] = row[a] /\ status'[a] = status[a]
    BY <1>2, <2>1 DEF TypeOK
  <2>3. target[r] \notin queued  BY <2>1 DEF IInv, QueueInv
  <2>4. \A q \in Requests : q # r /\ target[q] \in Analyses /\ row[target[q]] = q =>
                             row'[target[q]] = q
    BY <2>1, <2>2
  <2>5. RequestInv'
    <3> SUFFICES ASSUME NEW q \in Requests
                 PROVE  /\ answer[q] # "none" => pc'[q] = "done"
                        /\ pc'[q] = "enqueue" => row'[target[q]] = q
                        /\ pc'[q] = "persist" => q \in objects
                        /\ pc'[q] = "enqueue" => q \in objects \/ target[q] \in swept
                        /\ pc'[q] \in {"idle", "status", "row"} => q \notin objects
      BY <1>1, <2>1 DEF RequestInv
    <3>1. CASE q = r  BY <1>1, <1>2, <2>2, <3>1 DEF TypeOK
    <3>2. CASE q # r
      <4>1. pc'[q] = pc[q]  BY <1>1, <3>2 DEF TypeOK
      <4>2. pc[q] = "enqueue" => target[q] \in Analyses  BY DEF TypeOK
      <4>3. QED  BY <2>4, <3>2, <4>1, <4>2 DEF IInv, RequestInv
    <3>3. QED  BY <3>1, <3>2
  <2>6. RowInv'
    <3> SUFFICES ASSUME NEW a \in Analyses, row'[a] # None
                 PROVE  target[row'[a]] = a /\ pc'[row'[a]] \in {"enqueue", "compensate", "done"}
      BY <1>1 DEF RowInv
    <3>1. CASE a = target[r]  BY <1>1, <2>2, <3>1 DEF TypeOK
    <3>2. CASE a # target[r]
      <4>1. row'[a] = row[a] /\ row[a] # r /\ row[a] \in Requests
        BY <1>3, <2>2, <3>2 DEF TypeOK
      <4>2. QED  BY <1>1, <4>1 DEF IInv, RowInv, TypeOK
    <3>3. QED  BY <3>1, <3>2
  <2>7. QueueInv'
    <3> SUFFICES ASSUME NEW a \in queued
                 PROVE  /\ row'[a] # None /\ pc'[row'[a]] = "done"
                        /\ status'[a] \in {"uploaded", "analyzing"} /\ a \notin swept => row'[a] \in objects
      BY <2>1 DEF QueueInv
    <3>1. a \in Analyses /\ a # target[r]  BY <2>3 DEF TypeOK
    <3>2. row'[a] = row[a] /\ status'[a] = status[a] /\ row[a] # r /\ row[a] \in Requests
      BY <1>3, <2>2, <3>1 DEF IInv, QueueInv, TypeOK
    <3>3. QED  BY <1>1, <3>2 DEF IInv, QueueInv, TypeOK
  <2>8. OneUploadAccepted'
    <3> SUFFICES ASSUME NEW q \in Requests, answer[q] \in {"accepted", "notQueued"}
                 PROVE  row'[target[q]] = q
      BY <1>1 DEF OneUploadAccepted
    <3>1. row[target[q]] = q /\ pc[q] = "done"
      BY DEF IInv, OneUploadAccepted, RequestInv
    <3>2. q # r /\ target[q] \in Analyses  BY <3>1 DEF TypeOK
    <3>3. QED  BY <2>4, <3>1, <3>2
  <2>9. OrphanNeedsFault'
    <3> SUFFICES ASSUME NEW q \in objects
                 PROVE  row'[target[q]] = q \/ pc'[q] \in InProgress \/ q \in hit'
      BY <1>1 DEF OrphanNeedsFault
    <3>1. q \in Requests  BY DEF TypeOK
    <3>2. CASE q = r  BY <2>2, <3>2
    <3>3. CASE q # r
      <4>1. pc'[q] = pc[q]  BY <1>1, <3>3 DEF TypeOK
      <4>2. pc[q] \notin {"idle"}  BY <3>1 DEF IInv, RequestInv
      <4>3. target[q] \in Analyses  BY <3>1, <4>2 DEF TypeOK
      <4>4. QED  BY <2>4, <3>1, <3>3, <4>1, <4>3 DEF IInv, OrphanNeedsFault
    <3>4. QED  BY <3>2, <3>3
  <2>10. QED  BY <2>5, <2>6, <2>7, <2>8, <2>9 DEF IInv
<1>5. CASE UNCHANGED dbVars /\ Goto(r, "compensate")
  <2>1. /\ UNCHANGED <<status, row, swept>> /\ pc'[r] = "compensate"
        /\ \A q \in Requests : q # r => pc'[q] = pc[q]
    BY <1>1, <1>5 DEF dbVars, Goto, TypeOK
  <2>2. RequestInv'  BY <1>1, <1>2, <2>1 DEF IInv, RequestInv
  <2>3. RowInv'  BY <1>1, <1>3, <2>1 DEF IInv, RowInv, TypeOK
  <2>4. QueueInv'  BY <1>1, <1>3, <2>1 DEF IInv, QueueInv, TypeOK
  <2>5. OneUploadAccepted'  BY <1>1, <2>1 DEF IInv, OneUploadAccepted
  <2>6. OrphanNeedsFault'
    BY <1>1, <2>1 DEF IInv, OrphanNeedsFault, InProgress, UploadPc, TypeOK
  <2>7. QED  BY <2>2, <2>3, <2>4, <2>5, <2>6 DEF IInv
<1>6. QED  BY <1>4, <1>5

\* The enqueue, or the failure of it: the object of the row is in the Storage,
\* or swept, and its request is through.
LEMMA EnqueueIInv ==
  ASSUME TypeOK, IInv, NEW r \in Requests, pc[r] = "enqueue",
         UNCHANGED <<dbVars, objects>>, hit \subseteq hit',
         queued' \in {queued, queued \cup {target[r]}},
         Reply(r, "accepted") \/ Reply(r, "notQueued")
  PROVE  IInv'
<1>1. /\ row[target[r]] = r /\ (r \in objects \/ target[r] \in swept)
      /\ target[r] \in Analyses
  BY DEF IInv, RequestInv, TypeOK
<1>2. /\ pc' = [pc EXCEPT ![r] = "done"] /\ UNCHANGED <<status, row, swept, target>>
      /\ \A q \in Requests : q # r => answer'[q] = answer[q] /\ pc'[q] = pc[q]
      /\ pc'[r] = "done"
  BY DEF Reply, dbVars, TypeOK
<1>3. RequestInv'  BY <1>1, <1>2 DEF IInv, RequestInv
<1>4. RowInv'  BY <1>1, <1>2 DEF IInv, RowInv, TypeOK
<1>5. QueueInv'  BY <1>1, <1>2 DEF IInv, QueueInv, TypeOK
<1>6. OneUploadAccepted'  BY <1>1, <1>2 DEF IInv, OneUploadAccepted
<1>7. OrphanNeedsFault'  BY <1>1, <1>2 DEF IInv, OrphanNeedsFault, TypeOK
<1>8. QED  BY <1>3, <1>4, <1>5, <1>6, <1>7 DEF IInv

\* A request is sent for an Analysis, new or not: it has no object yet, and
\* neither row nor job is there for an Analysis just created.
LEMMA SendIInv ==
  ASSUME TypeOK, IInv, NEW r \in Requests, NEW a \in Analyses, Send(r, a),
         UNCHANGED <<row, swept, objects, queued, hit>>,
         \/ UNCHANGED status
         \/ \E b \in Analyses : status[b] = "none" /\ status' = [status EXCEPT ![b] = "created"]
  PROVE  IInv'
<1>1. /\ pc[r] = "idle" /\ r \notin objects /\ answer[r] = "none"
      /\ pc'[r] = "status" /\ UNCHANGED answer
      /\ \A q \in Requests : q # r => pc'[q] = pc[q] /\ target'[q] = target[q]
  BY DEF Send, IInv, RequestInv, TypeOK, Answers
<1>2. \A b \in Analyses : row[b] # r  BY <1>1 DEF IInv, RowInv, TypeOK
<1>3. \A b \in queued : status'[b] = status[b]  BY DEF IInv, QueueInv, TypeOK
<1>4. RequestInv'  BY <1>1 DEF IInv, RequestInv
<1>5. RowInv'  BY <1>1, <1>2 DEF IInv, RowInv, TypeOK
<1>6. QueueInv'  BY <1>1, <1>2, <1>3 DEF IInv, QueueInv, TypeOK
<1>7. OneUploadAccepted'  BY <1>1 DEF IInv, OneUploadAccepted
<1>8. OrphanNeedsFault'  BY <1>1 DEF IInv, OrphanNeedsFault, TypeOK
<1>9. QED  BY <1>4, <1>5, <1>6, <1>7, <1>8 DEF IInv

\* A worker moves the status of an enqueued Analysis, and never back to where
\* the object is still needed.
LEMMA AdvanceIInv ==
  ASSUME TypeOK, IInv, NEW a \in Analyses, Advance(a)
  PROVE  IInv'
<1>1. UNCHANGED <<row, swept, objects, queued, pc, target, answer, hit>>
  BY DEF Advance, requestVars, faultVars
<1>2. \A b \in queued : status'[b] \in {"uploaded", "analyzing"} =>
                          status[b] \in {"uploaded", "analyzing"}
  <2>1. PICK next \in AnalysisStatus : /\ <<status[a], next>> \in AllowedTransitions
                                       /\ status' = [status EXCEPT ![a] = next]
    BY DEF Advance
  <2>2. row[a] # None  BY DEF Advance, IInv, QueueInv
  <2>3. status[a] # "created"  BY <2>2 DEF TypeOK
  <2>4. next \in {"uploaded", "analyzing"} => status[a] \in {"uploaded", "analyzing"}
    BY <2>1, <2>3 DEF AllowedTransitions
  <2>5. QED  BY <2>1, <2>4 DEF TypeOK
<1>3. RequestInv' /\ RowInv'  BY <1>1 DEF IInv, RequestInv, RowInv
<1>4. QueueInv'  BY <1>1, <1>2 DEF IInv, QueueInv
<1>5. OneUploadAccepted' /\ OrphanNeedsFault'
  BY <1>1 DEF IInv, OneUploadAccepted, OrphanNeedsFault
<1>6. QED  BY <1>3, <1>4, <1>5 DEF IInv

\* The object that goes is the one of a decided Analysis, whose request is
\* through, and no other Analysis has it.
LEMMA RemoveRawLogIInv ==
  ASSUME TypeOK, IInv, NEW a \in Analyses, RemoveRawLog(a)
  PROVE  IInv'
<1>1. /\ UNCHANGED <<status, row, swept, queued, pc, target, answer, hit>>
      /\ objects' = objects \ {row[a]} /\ row[a] # None /\ pc[row[a]] = "done"
      /\ status[a] \notin {"uploaded", "analyzing"} /\ target[row[a]] = a
  BY DEF RemoveRawLog, dbVars, requestVars, faultVars, IInv, QueueInv, RowInv
<1>2. RequestInv'  BY <1>1 DEF IInv, RequestInv
<1>3. RowInv'  BY <1>1 DEF IInv, RowInv
<1>4. QueueInv'
  <2>1. \A b \in queued : b # a => row[b] # row[a]
    BY <1>1 DEF IInv, QueueInv, RowInv, TypeOK
  <2>2. QED  BY <1>1, <2>1 DEF IInv, QueueInv
<1>5. OneUploadAccepted' /\ OrphanNeedsFault'
  BY <1>1 DEF IInv, OneUploadAccepted, OrphanNeedsFault
<1>6. QED  BY <1>2, <1>3, <1>4, <1>5 DEF IInv

\* An object the sweep takes leaves its Analysis marked as swept.
LEMMA SweepIInv ==
  ASSUME TypeOK, IInv, NEW a \in Analyses, Sweep(a)
  PROVE  IInv'
<1>1. /\ UNCHANGED <<status, row, queued, pc, target, answer, hit>>
      /\ objects' = objects \ {row[a]} /\ swept' = swept \cup {a}
      /\ row[a] # None /\ target[row[a]] = a
      /\ pc[row[a]] \in {"enqueue", "compensate", "done"}
  BY DEF Sweep, requestVars, faultVars, IInv, RowInv, TypeOK
<1>2. RequestInv'  BY <1>1 DEF IInv, RequestInv
<1>3. RowInv'  BY <1>1 DEF IInv, RowInv
<1>4. QueueInv'
  <2>1. \A b \in queued : b # a => row[b] # row[a]
    BY <1>1 DEF IInv, QueueInv, RowInv, TypeOK
  <2>2. QED  BY <1>1, <2>1 DEF IInv, QueueInv
<1>5. OneUploadAccepted' /\ OrphanNeedsFault'
  BY <1>1 DEF IInv, OneUploadAccepted, OrphanNeedsFault
<1>6. QED  BY <1>2, <1>3, <1>4, <1>5 DEF IInv

\* A crash ends the requests at work and remembers which they were.
LEMMA CrashIInv ==
  ASSUME TypeOK, IInv, Crash
  PROVE  IInv'
<1>1. /\ UNCHANGED <<status, row, swept, objects, queued, target, answer>>
      /\ \A r \in Requests : pc'[r] = (IF pc[r] \in InProgress THEN "done" ELSE pc[r])
      /\ hit' = hit \cup {r \in Requests : pc[r] \in InProgress}
  BY DEF Crash, Strike, dbVars
<1>2. RequestInv'  BY <1>1 DEF IInv, RequestInv, InProgress, UploadPc, TypeOK
<1>3. RowInv'  BY <1>1 DEF IInv, RowInv, InProgress, UploadPc, TypeOK
<1>4. QueueInv'  BY <1>1 DEF IInv, QueueInv, InProgress, UploadPc, TypeOK
<1>5. OneUploadAccepted' /\ OrphanNeedsFault'
  BY <1>1 DEF IInv, OneUploadAccepted, OrphanNeedsFault, TypeOK
<1>6. QED  BY <1>2, <1>3, <1>4, <1>5 DEF IInv

\* Every step keeps the inductive invariant.
LEMMA NextIInv == TypeOK /\ IInv /\ [Next]_vars => IInv'
<1> SUFFICES ASSUME TypeOK, IInv, [Next]_vars PROVE IInv'  OBVIOUS
<1>1. ASSUME NEW r \in Requests, Handle(r) PROVE IInv'
  <2>1. CASE CheckStatus(r)
    <3>1. pc'[r] \in {"row", "done"} /\ r \notin objects
      BY <2>1 DEF CheckStatus, Goto, Reply, TypeOK, IInv, RequestInv
    <3>2. QED  BY <2>1, <3>1, OwnObjectIInv DEF CheckStatus, faultVars
  <2>2. CASE CheckRow(r)
    <3>1. pc'[r] \in {"put", "done"} /\ r \notin objects
      BY <2>2 DEF CheckRow, Goto, Reply, TypeOK, IInv, RequestInv
    <3>2. QED  BY <2>2, <3>1, OwnObjectIInv DEF CheckRow, faultVars
  <2>3. CASE PutObject(r)
    <3>1. pc'[r] \in {"persist", "discard"} /\ r \in objects'
      BY <2>3 DEF PutObject, Goto, TypeOK
    <3>2. QED  BY <2>3, <3>1, OwnObjectIInv DEF PutObject, faultVars
  <2>4. CASE DeleteOwnObject(r)
    <3>1. pc'[r] = "done" /\ r \notin objects'  BY <2>4 DEF DeleteOwnObject, Reply, TypeOK
    <3>2. QED  BY <2>4, <3>1, OwnObjectIInv DEF DeleteOwnObject, faultVars
  <2>5. CASE Persist(r)
    BY <2>5, PersistIInv DEF Persist, faultVars
  <2>6. CASE Enqueue(r)
    BY <2>6, EnqueueIInv DEF Enqueue, faultVars
  <2>7. QED  BY <1>1, <2>1, <2>2, <2>3, <2>4, <2>5, <2>6 DEF Handle
<1>2. ASSUME NEW r \in Requests, Fail(r) PROVE IInv'
  <2>1. r \in hit' /\ hit \subseteq hit'  BY <1>2 DEF Fail, Strike
  <2>2. CASE ReadFails(r)
    <3>1. pc'[r] = "done"  BY <2>2 DEF ReadFails, Reply, TypeOK
    <3>2. QED  BY <2>1, <2>2, <3>1, OwnObjectIInv DEF ReadFails
  <2>3. CASE PutFails(r)
    <3>1. pc'[r] = "done"  BY <2>3 DEF PutFails, Reply, TypeOK
    <3>2. QED  BY <2>1, <2>3, <3>1, OwnObjectIInv DEF PutFails
  <2>4. CASE DeleteFails(r)
    <3>1. pc'[r] = "done"  BY <2>4 DEF DeleteFails, Reply, TypeOK
    <3>2. QED  BY <2>1, <2>4, <3>1, OwnObjectIInv DEF DeleteFails
  <2>5. CASE PersistFails(r)
    BY <2>1, <2>5, PersistIInv DEF PersistFails
  <2>6. CASE EnqueueFails(r)
    BY <2>1, <2>6, EnqueueIInv DEF EnqueueFails
  <2>7. QED  BY <1>2, <2>2, <2>3, <2>4, <2>5, <2>6 DEF Fail
<1>3. ASSUME NEW r \in Requests, Submit(r) PROVE IInv'
  <2>1. CASE subject # None
    <3>1. subject \in Analyses  BY <2>1 DEF TypeOK
    <3>2. QED  BY <1>3, <2>1, <3>1, SendIInv DEF Submit, faultVars
  <2>2. CASE subject = None
    BY <1>3, <2>2, SendIInv DEF Submit, faultVars
  <2>3. QED  BY <2>1, <2>2
<1>4. ASSUME NEW r \in Requests, Deliver(r) \/ NoAnswer(r) \/ LoseAnswer(r) PROVE IInv'
  BY <1>4, BrowserIInv DEF Deliver, NoAnswer, LoseAnswer, Strike, faultVars
<1>5. ASSUME NEW a \in Analyses, Advance(a) PROVE IInv'
  BY <1>5, AdvanceIInv
<1>6. ASSUME NEW a \in Analyses, RemoveRawLog(a) PROVE IInv'
  BY <1>6, RemoveRawLogIInv
<1>7. ASSUME NEW a \in Analyses, LoseAnalysis(a) PROVE IInv'
  <2>1. /\ UNCHANGED <<row, swept, objects, queued, pc, target, answer>> /\ hit \subseteq hit'
        /\ \A b \in queued : status'[b] = status[b]
    BY <1>7 DEF LoseAnalysis, Strike, requestVars, IInv, QueueInv, TypeOK
  <2>2. RequestInv' /\ RowInv'  BY <2>1 DEF IInv, RequestInv, RowInv
  <2>3. QueueInv'  BY <2>1 DEF IInv, QueueInv
  <2>4. OneUploadAccepted' /\ OrphanNeedsFault'
    BY <2>1 DEF IInv, OneUploadAccepted, OrphanNeedsFault
  <2>5. QED  BY <2>2, <2>3, <2>4 DEF IInv
<1>8. ASSUME NEW a \in Analyses, OpenAnalysis(a) PROVE IInv'
  BY <1>8, BrowserIInv DEF OpenAnalysis, faultVars
<1>9. CASE Crash
  BY <1>9, CrashIInv
<1>10. CASE OpenForm \/ Leave \/ Poll \/ PollFails
  BY <1>10, BrowserIInv DEF OpenForm, Leave, Poll, PollFails, Strike, faultVars
<1>11. CASE UNCHANGED vars
  BY <1>11, BrowserIInv DEF vars, dbVars, requestVars
<1>12. ASSUME NEW a \in Analyses, Sweep(a) PROVE IInv'
  BY <1>12, SweepIInv
<1>13. QED
  BY <1>1, <1>2, <1>3, <1>4, <1>5, <1>6, <1>7, <1>8, <1>9, <1>10, <1>11, <1>12 DEF Next

-----------------------------------------------------------------------------
(* The theorems.                                                           *)

\* Types and the inductive invariant hold in every reachable state.
LEMMA Invariance == Spec => [](TypeOK /\ IInv)
<1>1. Init => TypeOK /\ IInv  BY InitTypeOK, InitIInv
<1>2. (TypeOK /\ IInv) /\ [Next]_vars => (TypeOK /\ IInv)'  BY NextTypeOK, NextIInv
<1>3. QED  BY <1>1, <1>2, PTL DEF Spec

\* Upload.tla's TypeOK, with what ties a row to its status and the disabled
\* button to a request, for every number of Analyses, requests and faults.
THEOREM TypeCorrect == Spec => []TypeOK
<1>1. TypeOK /\ IInv => TypeOK  OBVIOUS
<1>2. QED  BY <1>1, Invariance, PTL

\* Whoever uploads, retries, fails or crashes: an enqueued Analysis has its
\* committed row and, until it is decided or the retention sweep comes for an
\* expired row, its object (routes/analyses.ts, cleanup-job-handler.ts).
THEOREM EnqueuedAreReady == Spec => []EnqueuedIsReady
<1>1. TypeOK /\ IInv => EnqueuedIsReady  BY DEF IInv, QueueInv, EnqueuedIsReady
<1>2. QED  BY <1>1, Invariance, PTL

\* Of any number of requests for one Analysis at most one is accepted, and its
\* object is the one the row names (persist-upload.ts).
THEOREM OneUploadIsAccepted == Spec => []OneUploadAccepted
<1>1. TypeOK /\ IInv => OneUploadAccepted  BY DEF IInv
<1>2. QED  BY <1>1, Invariance, PTL

\* No object is left behind but by a fault: every refusal has discarded what
\* its request stored (bestEffortDelete of routes/analyses.ts).
THEOREM OrphansNeedFaults == Spec => []OrphanNeedsFault
<1>1. TypeOK /\ IInv => OrphanNeedsFault  BY DEF IInv
<1>2. QED  BY <1>1, Invariance, PTL
=============================================================================
