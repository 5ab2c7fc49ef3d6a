--------------------------- MODULE AnalyzerPipeline ---------------------------
(****************************************************************************)
(* analyzeAccessLog (packages/analyzer/src/analyze.ts): one pass over a     *)
(* stream of lines, and then the ObservationSet built from the aggregation  *)
(* and checked, or a classified failure.  The modules it extends hold the   *)
(* stages; here is the order in which they run and how each may end it.     *)
(****************************************************************************)
EXTENDS Selection, Redaction

CONSTANTS
  Lines,            \* the lines a log may have
  MaxLines,         \* bound on the length of the log
  Configs,          \* the configurations the analysis may be called with
  KnownEntries,     \* the known information dataset: [id, matchType, pattern]
  StartsWith        \* <<path, pattern>> when the path starts with the pattern

\* What a line holds where it is neither missing nor unconvertible.
Queries == Seq([key : Keys, value : Values \union {None}])
RequestLines == [method : Nat, path : Nat, query : Queries \union {None}]
Referrers == [host : Hosts, query : Queries]

ASSUME LinesAssumption ==
  Lines \subseteq [format : Formats, sourceIp : Nat \union {None}, time : Int \union {None, Bad},
                   request : RequestLines \union {None, Bad}, status : Nat \union {None, Bad},
                   bytes : Nat \union {None, Bad}, referrer : Referrers \union {None, Bad},
                   userAgent : Nat \union {None}]

\* Every limit has a value.
ASSUME ConfigsAssumption ==
  \A c \in Configs : DOMAIN c.axisLimit = Reasons /\ DOMAIN c.totalLimit = Views

\* An entry of the dataset is known by its id.
ASSUME KnownEntriesAssumption ==
  \A a, b \in KnownEntries : a.id = b.id => a = b

VARIABLES
  config,        \* the resolved configuration
  phase,         \* "validating", "reading" or "done"
  log,           \* the lines the stream has delivered
  summary,       \* the ParseSummaryBuilder
  excluded,      \* the ExclusionSummaryBuilder: how often each rule applied
  aggregation,   \* the AggregationEngine: the groups of every view
  result         \* the AnalyzeAccessLogResult

vars == <<config, phase, log, summary, excluded, aggregation, result>>

\* AnalyzerErrorCode, but for 'PARSER_FAILED', which nothing sets.
ErrorCodes ==
  {"PARSER_NO_VALID_LINES", "ANALYZER_INVALID_CONFIGURATION", "ANALYZER_AGGREGATION_FAILED",
   "ANALYZER_REDACTION_SAFETY_FAILURE", "ANALYZER_OBSERVATION_SET_INVALID",
   "ANALYZER_INTERNAL_ERROR"}

ASSUME NoneIsNoErrorCode == None \notin ErrorCodes

NoResult == [status |-> "none", errorCode |-> None, parseSummary |-> None, observationSet |-> None]

Init ==
  /\ config \in Configs
  /\ phase = "validating"
  /\ log = <<>>
  /\ summary = NoLines
  /\ excluded = [count |-> 0, byRule |-> EmptyBag]
  /\ aggregation = NothingAggregated
  /\ result = NoResult

-----------------------------------------------------------------------------
(* Validation of the configuration, and the one exception boundary.         *)

\* A limit is a non-negative integer; 0 selects nothing.
ConfigValid ==
  /\ config.sampleLimit \in Nat
  /\ \A axis \in DOMAIN config.axisLimit : config.axisLimit[axis] \in Nat
  /\ \A view \in DOMAIN config.totalLimit : config.totalLimit[view] \in Nat

Ends(outcome) == phase' = "done" /\ result' = outcome

\* mapAnalyzerFailure: the parse summary is there once the whole log was read.
Fails(code, parseSummary) ==
  Ends([NoResult EXCEPT !.status = "failed", !.errorCode = code, !.parseSummary = parseSummary])

Validate ==
  /\ phase = "validating"
  /\ IF ConfigValid
     THEN phase' = "reading" /\ UNCHANGED result
     ELSE Fails("ANALYZER_INVALID_CONFIGURATION", None)
  /\ UNCHANGED <<config, log, summary, excluded, aggregation>>

-----------------------------------------------------------------------------
(* Reading: parse, count, exclude or aggregate.                             *)

PathMatches(path, matchType, pattern) ==
  IF matchType = "exact" THEN path = pattern ELSE <<path, pattern>> \in StartsWith

RuleMatches(entry, rule) ==
  IF rule.target = "path"
  THEN entry.path # None /\ PathMatches(entry.path, rule.matchType, rule.value)
  ELSE entry.sourceIp # None /\ entry.sourceIp = rule.value

\* checkExclusion: the first rule that applies excludes the entry.
RulesFor(entry) == {i \in DOMAIN config.rules : RuleMatches(entry, config.rules[i])}
RuleFor(entry) == config.rules[Min(RulesFor(entry))]

Usable(line) == line.format # "blank" /\ ParseStatus(line) # "failed"
IsExcluded(line) == RulesFor(Normalized(line)) # {}

\* The next line of the stream, if the log goes on.
Delivers(line) ==
  /\ phase = "reading"
  /\ Len(log) < MaxLines
  /\ log' = Append(log, line)

SkipLine(line) ==
  /\ Delivers(line)
  /\ line.format = "blank"
  /\ UNCHANGED <<config, phase, summary, excluded, aggregation, result>>

CountFailedLine(line) ==
  /\ Delivers(line)
  /\ line.format # "blank" /\ ~Usable(line)
  /\ summary' = Counted(summary, line)
  /\ UNCHANGED <<config, phase, excluded, aggregation, result>>

ExcludeEntry(line) ==
  /\ Delivers(line)
  /\ Usable(line) /\ IsExcluded(line)
  /\ summary' = Counted(summary, line)
  /\ excluded' = [count  |-> excluded.count + 1,
                  byRule |-> excluded.byRule (+) SetToBag({RuleFor(Normalized(line)).id})]
  /\ UNCHANGED <<config, phase, aggregation, result>>

ConsumeEntry(line) ==
  /\ Delivers(line)
  /\ Usable(line) /\ ~IsExcluded(line)
  /\ summary' = Counted(summary, line)
  /\ aggregation' = Consume(aggregation, Normalized(line), config.sampleLimit)
  /\ UNCHANGED <<config, phase, excluded, result>>

\* consume throws (a Map or a Set that is full): the summary builder is lost.
AggregationFails(line) ==
  /\ Delivers(line)
  /\ Usable(line) /\ ~IsExcluded(line)
  /\ Fails("ANALYZER_AGGREGATION_FAILED", None)
  /\ UNCHANGED <<config, summary, excluded, aggregation>>

\* The stream throws.
SourceFails ==
  /\ phase = "reading"
  /\ Fails("ANALYZER_INTERNAL_ERROR", None)
  /\ UNCHANGED <<config, log, summary, excluded, aggregation>>

-----------------------------------------------------------------------------
(* buildObservationSet, once the log is read.                               *)

Groups(view) == aggregation[view]

KnownIds(path) ==
  {e.id : e \in {e \in KnownEntries : PathMatches(path, e.matchType, e.pattern)}}

\* The keys of the groups that annotateAggregationSet annotates.
Known(view) ==
  CASE view = "paths" -> {path \in DOMAIN Groups(view) : KnownIds(path) # {}}
    [] view = "sourceIpPaths" -> {key \in DOMAIN Groups(view) : KnownIds(key[2]) # {}}
    [] OTHER -> {}

Selections ==
  [view \in Selected |->
     SelectGroups(view, Groups(view), Known(view), config.axisLimit, config.totalLimit[view])]

Wholes == [view \in KeptWhole |-> KeepAllUpToLimit(view, Groups(view), config.totalLimit[view])]

\* Mutant: an omitted group is counted for one of its ids only.
OmittedOnce(paths) ==
  LET omitted(id) == {path \in DOMAIN Groups("paths") \ paths : KnownIds(path) = {id}}
  IN  [id \in {id \in {e.id : e \in KnownEntries} : omitted(id) # {}} |-> Cardinality(omitted(id))]

\* computeKnownInformationOmissions: how often each id is on an omitted path.
Omissions(paths) ==
  LET omitted(id) == {path \in DOMAIN Groups("paths") \ paths : id \in KnownIds(path)}
  IN  [id \in {id \in {e.id : e \in KnownEntries} : omitted(id) # {}} |-> Cardinality(omitted(id))]

\* resolveReferences: a pair refers to the groups of its parts that were kept.
Resolved(pairs, part, kept) == {pair \in pairs : pair[part] \in kept}

ObservationSet ==
  LET selections == Selections
      wholes == Wholes
      kept(view) == DOMAIN selections[view].reasons
      sample(path, field) == Groups("paths")[path][field]
  IN  [overview     |-> Groups("overview")["all"],
       excluded     |-> excluded,
       reasons      |-> [view \in Selected |-> selections[view].reasons],
       whole        |-> [view \in KeptWhole |-> wholes[view].kept],
       truncation   |-> [view \in Views |->
                           IF view \in Selected THEN selections[view].truncation
                                                ELSE wholes[view].truncation],
       pathRefs     |-> Resolved(kept("sourceIpPaths"), 2, kept("paths")),
       sourceIpRefs |-> Resolved(kept("sourceIpPaths"), 1, kept("sourceIps")),
       queries      |-> [path \in kept("paths") |-> RedactSampleQueries(sample(path, "sampleQueries"))],
       referrers    |-> [path \in kept("paths") |-> RedactSampleReferrers(sample(path, "sampleReferrers"))],
       matchedPaths |-> Cardinality(Known("paths")),
       matchedIds   |-> UNION {KnownIds(path) : path \in Known("paths")},
       omissions    |-> Omissions(kept("paths"))]

\* assertQueryFullyRedacted held of every sample.
RedactionSafe(set) ==
  \A path \in DOMAIN set.queries : set.queries[path].safe /\ set.referrers[path].safe

\* validateObservationSet: references, truncation arithmetic and reasons.  Its
\* other checks are left out: the ids of the groups are their keys here, no
\* group has a field of another kind, and the schema version is a constant.
IsValid(set) ==
  /\ \A pair \in set.pathRefs : pair[2] \in DOMAIN set.reasons["paths"]
  /\ \A pair \in set.sourceIpRefs : pair[1] \in DOMAIN set.reasons["sourceIps"]
  /\ \A view \in Views : LET t == set.truncation[view]
                         IN  t.selectedGroups + t.omittedGroups = t.totalGroups
  /\ \A view \in Selected : \A key \in DOMAIN set.reasons[view] :
       set.reasons[view][key] \subseteq Reasons

\* The outcome for a log that has a usable line.
Outcome(set) ==
  IF ~RedactionSafe(set) THEN Fails("ANALYZER_REDACTION_SAFETY_FAILURE", summary)
  ELSE IF ~IsValid(set) THEN Fails("ANALYZER_OBSERVATION_SET_INVALID", summary)
  ELSE Ends([NoResult EXCEPT !.status = DerivedStatus(summary),
                             !.parseSummary = summary,
                             !.observationSet = set])

EndOfLog ==
  /\ phase = "reading"
  /\ IF DerivedStatus(summary) = "failed"
     THEN Fails("PARSER_NO_VALID_LINES", summary)
     ELSE Outcome(ObservationSet)
  /\ UNCHANGED <<config, log, summary, excluded, aggregation>>

Next ==
  \/ Validate
  \/ \E line \in Lines :
       \/ SkipLine(line) \/ CountFailedLine(line)
       \/ ExcludeEntry(line) \/ ConsumeEntry(line) \/ AggregationFails(line)
  \/ SourceFails
  \/ EndOfLog

Spec == Init /\ [][Next]_vars

-----------------------------------------------------------------------------
(* Properties.                                                              *)

TypeOK ==
  /\ config \in Configs
  /\ phase \in {"validating", "reading", "done"}
  /\ log \in Seq(Lines)
  /\ summary \in [total : Nat, parsed : Nat, partial : Nat, failed : Nat,
                  warnings : {summary.warnings}]
  /\ excluded \in [count : Nat, byRule : {excluded.byRule}]
  /\ DOMAIN aggregation = AllViews
  /\ result.status \in {"none", "failed", "partial", "success"}
  /\ (phase = "done") = (result.status # "none")

\* Nothing is lost and nothing counted twice on the way from the stream to the
\* overview: every line that is not blank is parsed, partial or failed, and
\* every entry is in the overview or among the excluded ones
\* (parse-access-log.ts:30-40, analyze.ts:85-96).
EveryLineAccounted ==
  /\ summary.total = summary.parsed + summary.partial + summary.failed
  /\ Groups("overview")["all"]["requestCount"] + excluded.count = summary.parsed + summary.partial
  /\ result.errorCode # "ANALYZER_AGGREGATION_FAILED" =>
       summary.total = Cardinality({i \in DOMAIN log : log[i].format # "blank"})

\* The entries that are aggregated, by the line they come from.  The code keeps
\* none of them.
Entries ==
  [i \in {i \in DOMAIN log : Usable(log[i]) /\ ~IsExcluded(log[i])} |-> Normalized(log[i])]

InBucket(time, start, minutes) ==
  LET ticks == minutes * MinuteTicks
  IN  time # None /\ start % ticks = 0 /\ time \in start .. start + ticks - 1

Belongs(view, key, entry) ==
  CASE view = "oneMinute" -> InBucket(entry.timestamp, key, 1)
    [] view = "fiveMinute" -> InBucket(entry.timestamp, key, 5)
    [] OTHER -> KeyOf(view, entry) = key

\* What each kind of field says of the values its entries have, by their line.
IsTallyOf(tally, values) ==
  /\ BagToSet(tally) = ToSet(values) \ {None}
  /\ \A v \in BagToSet(tally) :
       Copies(v, tally) = Cardinality({i \in DOMAIN values : values[i] = v})

\* The distinct values a sample of this limit keeps, in the order they came.
IsSampleOf(sample, values, limit) ==
  LET came == ToSet(values) \ {None}
      NoLater(v) == {w \in came : \E j \in DOMAIN values :
                       values[j] = w /\ \A i \in DOMAIN values : values[i] = v => j <= i}
  IN  /\ sample \in Seq(came)
      /\ Len(sample) = Min({limit, Cardinality(came)})
      /\ \A i \in DOMAIN sample : Cardinality(NoLater(sample[i])) = i

IsSpanOf(seen, times) ==
  LET came == ToSet(times) \ {None}
  IN  seen = IF came = {} THEN NotSeen ELSE [first |-> Min(came), last |-> Max(came)]

IsSummaryOf(responses, sizes) ==
  LET sized == {i \in DOMAIN sizes : sizes[i] # None}
      came == {sizes[i] : i \in sized}
  IN  responses = IF sized = {} THEN NoResponses
                  ELSE [count |-> Cardinality(sized),
                        total |-> MapThenSumSet(LAMBDA i : sizes[i], sized),
                        min   |-> Min(came),
                        max   |-> Max(came)]

IsExact(field, kept, entries, sampleLimit) ==
  LET noted == [i \in DOMAIN entries |-> Noted(field, entries[i])]
      part(name) == [i \in DOMAIN entries |-> entries[i][name]]
  IN  /\ field = "requestCount" => kept = Cardinality(DOMAIN entries)
      /\ field \in Tallies => IsTallyOf(kept, noted)
      /\ field \in Samples => IsSampleOf(kept, noted, sampleLimit)
      /\ field = "seen" => IsSpanOf(kept, part("timestamp"))
      /\ field = "responses" => IsSummaryOf(kept, part("responseBytes"))

\* What was summed up one entry at a time, with every entry forgotten, is what
\* the entries together say: every entry with the key is in the one group of
\* the key, every group has entries, and every field of it is exact
\* (aggregation-engine.ts:12-16; first-n-sample.ts:1-10; time-bucket.ts:3).
AggregationIsExact ==
  result.errorCode # "ANALYZER_AGGREGATION_FAILED" =>
    LET entries == Entries
    IN  \A view \in AllViews :
          /\ \A i \in DOMAIN entries : KeyOf(view, entries[i]) # None =>
               \E key \in DOMAIN Groups(view) : Belongs(view, key, entries[i])
          /\ \A key \in DOMAIN Groups(view) :
               LET members == Restrict(entries, {i \in DOMAIN entries : Belongs(view, key, entries[i])})
               IN  /\ DOMAIN members # {} \/ view = "overview"
                   /\ \A field \in Fields[view] :
                        IsExact(field, Groups(view)[key][field], members, config.sampleLimit)

Analyzed == result.observationSet # None
Set == result.observationSet

\* Nothing that deserves its place is left out: as long as the view has room, a
\* group is omitted only if every axis that applies to it is full of groups
\* that count for as much, and the representatives are full; and a view that
\* is full gives no place to other groups while one picked for known
\* information is omitted (select-groups.ts:32-37, 96-98).
OmissionIsDeserved ==
  Analyzed => \A view \in Selected :
    LET reasons == Set.reasons[view]
        holders(reason) == {key \in DOMAIN reasons : reason \in reasons[key]}
        score(axis, key) == Score(axis, Groups(view)[key], key \in Known(view))
        better(axis, key) == {k \in DOMAIN Groups(view) :
                                score(axis, k) # None /\ score(axis, k) >= score(axis, key)} \ {key}
    IN  \A key \in DOMAIN Groups(view) \ DOMAIN reasons :
          IF Cardinality(DOMAIN reasons) < config.totalLimit[view]
          THEN /\ Cardinality(holders("representative")) = config.axisLimit["representative"]
               /\ \A axis \in Axes(view) : score(axis, key) # None =>
                    Cardinality(holders(axis) \intersect better(axis, key)) = config.axisLimit[axis]
          ELSE /\ Cardinality(DOMAIN reasons) = config.totalLimit[view]
               /\ /\ key \in Known(view) /\ "known_information" \in Axes(view)
                  /\ Cardinality(better("known_information", key)) < config.axisLimit["known_information"]
                  => DOMAIN reasons = holders("known_information")

\* A match with known information that did not survive the limits is still
\* there to be counted: of every entry of the dataset, the paths of the log it
\* matches are the kept ones and the omissions (known-information-omissions.ts
\* :5-10).
KnownInformationTraceable ==
  Analyzed => \A known \in KnownEntries :
    LET matched == {e.path : e \in {e \in ToSet(Entries) :
                       e.path # None /\ PathMatches(e.path, known.matchType, known.pattern)}}
        kept == matched \intersect DOMAIN Set.reasons["paths"]
        omitted == IF known.id \in DOMAIN Set.omissions THEN Set.omissions[known.id] ELSE 0
    IN  /\ Cardinality(matched) = Cardinality(kept) + omitted
        /\ known.id \in Set.matchedIds <=> matched # {}

\* The checks on the finished set, a net for programming errors, catch nothing:
\* every view adds up to the keys of the log, whatever the limits
\* (validate-observation-set.ts:100-103; select-groups.ts:82-87).
ValidatorCatchesNothing ==
  /\ result.errorCode # "ANALYZER_OBSERVATION_SET_INVALID"
  /\ Analyzed => \A view \in Views :
       Set.truncation[view].totalGroups =
         Cardinality({KeyOf(view, entry) : entry \in ToSet(Entries)} \ {None})

\* No value of a sensitive parameter leaves the analyzer, in a query or in the
\* query of a referrer, in whatever form the client wrote the name
\* (redact-query.ts:5-9).  A name is what the redactor decodes: a first key
\* behind a "?" of its own, ??token=a, is another name and is kept.
SensitiveNeverKept ==
  Analyzed => \A path \in DOMAIN Set.queries :
    \A query \in ToSet(Set.queries[path].kept)
                 \union {r.query : r \in ToSet(Set.referrers[path].kept)} :
      \A i \in DOMAIN query :
        Decoded[query[i].key] \in Sensitive \union {Bad} => query[i].value \in {None, Redacted}

\* The two ways in which the check reads a query otherwise than the redactor.
Repeats(query) == RepeatedBare(query) \/ RepeatedFirst(query)

\* The check of the redaction refuses an analysis only for a query, of a request
\* or of a referrer, that repeats a sensitive parameter: it has the name with a
\* value, and once more without one, or in its first key behind a "?" of its own
\* (build-observation-set.ts:52-60).
RefusedForRepetitionOnly ==
  result.errorCode = "ANALYZER_REDACTION_SAFETY_FAILURE" =>
    \E entry \in ToSet(Entries) :
      \/ entry.query # None /\ Repeats(entry.query)
      \/ entry.referrer \notin {None, Bad} /\ Repeats(entry.referrer.query)

=============================================================================
