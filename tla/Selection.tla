------------------------------ MODULE Selection ------------------------------
(****************************************************************************)
(* Which groups of a view are kept in an ObservationSet                     *)
(* (packages/analyzer/src/selection): the best of every axis, some          *)
(* representatives of the rest, and no more than the view's total limit.    *)
(*                                                                          *)
(* A selection gives every kept group the reasons it was kept for.  The     *)
(* order in which the kept groups are listed is left out.                   *)
(****************************************************************************)
EXTENDS Aggregation, FiniteSetsExt

CONSTANT Post    \* the method POST

Axes(view) ==
  CASE view = "paths" ->
         {"known_information", "request_count", "distinct_source_ip",
          "status_4xx", "status_5xx", "method_post", "response_size"}
    [] view = "sourceIps" ->
         {"request_count", "distinct_path", "status_4xx", "status_5xx", "method_post"}
    [] view = "sourceIpPaths" ->
         {"known_information", "request_count", "status_4xx", "status_5xx", "method_post"}
    [] view = "userAgents" -> {"request_count", "distinct_path", "distinct_source_ip"}

Reasons == {"representative"} \union UNION {Axes(view) : view \in Selected}

-----------------------------------------------------------------------------
(* What a group counts for on an axis: None if the axis does not apply.     *)

Positive(n) == IF n > 0 THEN n ELSE None

Distinct(tally) == Cardinality(BagToSet(tally))

StatusClass(group, from, to) ==
  MapThenSumSet(LAMBDA status : group.statuses[status],
                {status \in BagToSet(group.statuses) : status \in from..to})

Score(axis, group, known) ==
  CASE axis = "known_information" -> IF known THEN group.requestCount ELSE None
    [] axis = "request_count" -> group.requestCount
    [] axis = "distinct_source_ip" -> Positive(Distinct(group.sourceIps))
    [] axis = "distinct_path" -> Positive(Distinct(group.paths))
    [] axis = "status_4xx" -> Positive(StatusClass(group, 400, 499))
    [] axis = "status_5xx" -> Positive(StatusClass(group, 500, 599))
    [] axis = "method_post" -> Positive(Copies(Post, group.methods))
    [] axis = "response_size" -> IF group.responses.count > 0 THEN group.responses.total ELSE None

-----------------------------------------------------------------------------
(* Orders.  The key breaks every tie, so that each of them is total.        *)

KeyBefore(view, a, b) ==
  IF view = "sourceIpPaths" THEN a[1] < b[1] \/ (a[1] = b[1] /\ a[2] < b[2]) ELSE a < b

\* sort and slice(0, limit): the keys that fewer than limit keys come before.
FirstOf(keys, Before(_, _), limit) ==
  {key \in keys : Cardinality({k \in keys : Before(k, key)}) < limit}

HigherFirst(view, value, a, b) ==
  value[a] > value[b] \/ (value[a] = value[b] /\ KeyBefore(view, a, b))

RequestCounts(groups) == [key \in DOMAIN groups |-> groups[key].requestCount]

\* The priority over the total limit: known information, then request count.
PriorityBefore(view, counts, reasons, a, b) ==
  LET known(key) == "known_information" \in reasons[key]
  IN  IF known(a) # known(b) THEN known(a) ELSE HigherFirst(view, counts, a, b)

-----------------------------------------------------------------------------
(* selectGroups.                                                            *)

\* Mutant: what was never a candidate is not counted as omitted.
TruncationOfCandidates(total, candidates, kept) ==
  [totalGroups |-> total, selectedGroups |-> kept, omittedGroups |-> candidates - kept]

Truncation(total, candidates, kept) ==
  [totalGroups |-> total, selectedGroups |-> kept, omittedGroups |-> total - kept]

\* Mutant: over the total limit only the request count matters.
KeptByCount(view, groups, reasons, candidates, limit) ==
  FirstOf(candidates, LAMBDA a, b : HigherFirst(view, RequestCounts(groups), a, b), limit)

KeptOf(view, groups, reasons, candidates, limit) ==
  FirstOf(candidates, LAMBDA a, b : PriorityBefore(view, RequestCounts(groups), reasons, a, b), limit)

\* The groups an axis picks.
Picked(view, groups, known, axis, limit) ==
  LET score == [key \in DOMAIN groups |-> Score(axis, groups[key], key \in known)]
      applies == {key \in DOMAIN groups : score[key] # None}
  IN  FirstOf(applies, LAMBDA a, b : HigherFirst(view, score, a, b), limit)

SelectGroups(view, groups, known, axisLimit, totalLimit) ==
  LET picked == [axis \in Axes(view) |-> Picked(view, groups, known, axis, axisLimit[axis])]
      rest == DOMAIN groups \ UNION {picked[axis] : axis \in Axes(view)}
      representatives ==
        FirstOf(rest, LAMBDA a, b : KeyBefore(view, a, b), axisLimit["representative"])
      reasons == [key \in DOMAIN groups |->
                    {axis \in Axes(view) : key \in picked[axis]}
                      \union {r \in {"representative"} : key \in representatives}]
      candidates == {key \in DOMAIN groups : reasons[key] # {}}
      kept == IF Cardinality(candidates) <= totalLimit
              THEN candidates
              ELSE KeptOf(view, groups, reasons, candidates, totalLimit)
  IN  [reasons    |-> [key \in kept |-> reasons[key]],
       truncation |-> Truncation(Cardinality(DOMAIN groups), Cardinality(candidates),
                                 Cardinality(kept))]

\* keepAllUpToLimit: a view of few groups is kept whole, or its largest are.
KeepAllUpToLimit(view, groups, limit) ==
  LET kept == FirstOf(DOMAIN groups, LAMBDA a, b : HigherFirst(view, RequestCounts(groups), a, b), limit)
      total == Cardinality(DOMAIN groups)
  IN  [kept |-> kept, truncation |-> Truncation(total, total, Cardinality(kept))]

=============================================================================
