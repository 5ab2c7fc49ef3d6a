------------------------------ MODULE AiAnswer ------------------------------
(***************************************************************************)
(* What becomes of the provider's answer: the adapter's classification of  *)
(* errors (packages/ai), the schema, the finding ids and the grounding the *)
(* worker puts it through, and where apps/web lands the user who follows   *)
(* one of its references.  Pure operators; ResultPage has the behaviour.   *)
(*                                                                         *)
(* A text is "text" or "blank": what trim() leaves of it decides.  The     *)
(* references of a finding are a set of group ids.                         *)
(***************************************************************************)
EXTENDS Naturals, Sequences

CONSTANTS
  Groups,     \* the group ids of the ObservationSet
  Dimension,  \* the prefix of a group id: which of the eight arrays holds it
  Shown,      \* the value its row shows; for a source-ip-path group its path
  Includes,   \* <<v, w>>: searching for w keeps a row that shows v
  Ghosts,     \* group ids a model makes up
  None        \* null

Dimensions == {"path", "source-ip", "source-ip-path", "status", "method", "user-agent",
               "time:1m", "time:5m"}
GroupIds == Groups \cup Ghosts
Values == {Shown[g] : g \in Groups}

ASSUME GroupsAssumption == Groups \cap Ghosts = {} /\ None \notin GroupIds
ASSUME DimensionAssumption == Dimension \in [Groups -> Dimensions]
ASSUME IncludesAssumption == \A g \in Groups : <<Shown[g], Shown[g]>> \in Includes

-----------------------------------------------------------------------------
(* The provider's errors.                                                  *)

\* What responses.parse() and the schema's own parse may throw: the classes
\* of the SDK, its other APIErrors by status, a ZodError, the rest.
SdkErrors == {"timeout", "connection", "rateLimit", "authentication", "permission",
              "badRequest", "unprocessable", "internalServer", "api5xx", "api429",
              "api408", "api409", "apiOther", "zod", "other"}

\* The statuses the adapter has no name for.
UnnamedStatuses == {"api408", "api409", "apiOther"}

classifyOpenAIError ==
  [e \in SdkErrors |->
     CASE e = "timeout"                                    -> "AI_PROVIDER_TIMEOUT"
       [] e \in {"connection", "internalServer", "api5xx"} -> "AI_PROVIDER_UNAVAILABLE"
       [] e \in {"rateLimit", "api429"}                    -> "AI_PROVIDER_RATE_LIMITED"
       [] e \in {"authentication", "permission"}           -> "AI_PROVIDER_AUTH_FAILED"
       [] e \in {"badRequest", "unprocessable"} \cup UnnamedStatuses -> "AI_PROVIDER_INVALID_REQUEST"
       [] e = "zod"                                        -> "AI_RESPONSE_INVALID"
       [] e = "other"                                      -> "AI_INTERNAL_ERROR"]

\* What makes an attempt fail; "unreported" is a failure recorded for a job
\* that has ended without one.  Another attempt may mend what is in Passing,
\* the statuses 408 (timeout) and 409 (conflict) among it.
Causes == SdkErrors \cup {"tooLarge", "ungrounded", "unreported"}
Passing == {"timeout", "connection", "internalServer", "api5xx", "rateLimit", "api429",
            "api408", "api409", "zod", "ungrounded"}

\* The code the handler sees and the AnalysisExecution gets.
Code(cause) ==
  CASE cause = "tooLarge"   -> "AI_INPUT_TOO_LARGE"
    [] cause = "ungrounded" -> "AI_REFERENCE_INVALID"
    [] OTHER                -> classifyOpenAIError[cause]

NonRetryable == {"AI_PROVIDER_AUTH_FAILED", "AI_PROVIDER_INVALID_REQUEST",
                 "AI_PROVIDER_UNSUPPORTED", "AI_INPUT_TOO_LARGE"}

\* Mutant: what the schema or the grounding rejects is not worth a retry.
AnswersAreFinal(code) ==
  code \in NonRetryable \cup {"AI_RESPONSE_INVALID", "AI_REFERENCE_INVALID"}

IsFatal(code) == code \in NonRetryable

-----------------------------------------------------------------------------
(* The answer, and what makes it an explanation.                           *)

Text == {"text", "blank"}

\* A finding of the model has no id yet.
ModelFinding == [title : Text, observation : Text, references : SUBSET GroupIds]
ModelOutput(maxFindings) ==
  [summary : Text, reason : Text, references : SUBSET GroupIds,
   findings : UNION {[1..n -> ModelFinding] : n \in 0..maxFindings}]

\* finding-1, finding-2, ... in the order the model returned them.
assignFindingIds(output) ==
  [output EXCEPT !.findings =
     [i \in DOMAIN @ |-> [id |-> i, title |-> @[i].title, observation |-> @[i].observation,
                          references |-> @[i].references]]]

Resolve(references) == references \subseteq Groups

GroundedFinding(finding) ==
  /\ finding.title = "text" /\ finding.observation = "text"
  /\ finding.references # {} /\ Resolve(finding.references)

\* Mutant: what the urgency refers to is not looked up.
GroundedFindingsOnly(result) ==
  /\ result.summary = "text" /\ result.reason = "text"
  /\ \A i \in DOMAIN result.findings : GroundedFinding(result.findings[i])

\* Without a finding the urgency needs no reference.
validateGrounding(result) ==
  /\ result.summary = "text"
  /\ \A i \in DOMAIN result.findings : GroundedFinding(result.findings[i])
  /\ result.reason = "text"
  /\ result.findings # <<>> => result.references # {}
  /\ Resolve(result.references)

References(explanation) ==
  explanation.references
    \cup UNION {explanation.findings[i].references : i \in DOMAIN explanation.findings}

-----------------------------------------------------------------------------
(* Following a reference on the result page.                               *)

Tabs == {"path", "sourceIp", "status", "method", "userAgent", "time"}

\* A pair of source IP and path has no tab of its own.
TabOf ==
  [d \in Dimensions |->
     CASE d \in {"path", "source-ip-path"} -> "path"
       [] d = "source-ip"                  -> "sourceIp"
       [] d = "status"                     -> "status"
       [] d = "method"                     -> "method"
       [] d = "user-agent"                 -> "userAgent"
       [] d \in {"time:1m", "time:5m"}     -> "time"]

\* None if the id is in no array; a time is not searched for.
resolveAiReference(g) ==
  IF g \notin Groups THEN None
  ELSE [tab    |-> TabOf[Dimension[g]],
        search |-> IF Dimension[g] \in {"time:1m", "time:5m"} THEN None ELSE Shown[g]]

matches(value, search) == search = None \/ <<value, search>> \in Includes

\* The time table has one of two granularities.  It opens with the minutes and
\* keeps what the user has chosen for as long as the time tab is on screen;
\* following a reference leaves it alone.
Granularities == {"time:1m", "time:5m"}

TabGroups(tab, granularity) ==
  {g \in Groups : /\ TabOf[Dimension[g]] = tab
                  /\ Dimension[g] # "source-ip-path"
                  /\ Dimension[g] \in Granularities => Dimension[g] = granularity}

Rows(view, granularity) ==
  {g \in TabGroups(view.tab, granularity) : matches(Shown[g], view.search)}
=============================================================================
