----------------------------- MODULE Lifecycle -----------------------------
(***************************************************************************)
(* The vocabulary shared by every module about one Analysis: the statuses  *)
(* of packages/domain, and the guard every writer of Analysis.status goes  *)
(* through (packages/db/src/status-transition.ts).                         *)
(***************************************************************************)

AnalysisStatus ==
  {"created", "uploaded", "analyzing", "analyzer_result_ready",
   "explaining", "completed", "failed"}

\* null until the Analyzer's outcome is persisted.
AnalyzerStatus == {"null", "success", "partial", "failed"}

AIStatus == {"not_requested", "queued", "running", "success", "failed"}

\* The statuses in which there is a result and the AI side may be at work.
Explainable == {"analyzer_result_ready", "explaining", "completed"}

\* The statuses of an AnalysisExecution row, "none" when there is no row yet.
\* "success" also stands for "partial", which no reader tells apart.
ExecutionStatus == {"none", "queued", "running", "success", "failed"}

AllowedTransitions ==
  {<<"created", "uploaded">>, <<"created", "failed">>,
   <<"uploaded", "analyzing">>, <<"uploaded", "failed">>,
   <<"analyzing", "analyzer_result_ready">>, <<"analyzing", "failed">>,
   <<"analyzer_result_ready", "explaining">>,
   <<"analyzer_result_ready", "completed">>,
   <<"analyzer_result_ready", "failed">>,
   <<"explaining", "completed">>, <<"explaining", "failed">>,
   <<"completed", "explaining">>}

\* assertValidAnalysisStatusTransition: FALSE is DbError('INVALID_DATA').
CanTransition(from, to) == from = to \/ <<from, to>> \in AllowedTransitions

=============================================================================
