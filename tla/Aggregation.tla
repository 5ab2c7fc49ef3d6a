----------------------------- MODULE Aggregation -----------------------------
(****************************************************************************)
(* The incremental aggregation of access log entries                        *)
(* (packages/analyzer/src/aggregation): one entry in, every view updated,   *)
(* the entry forgotten.                                                     *)
(*                                                                          *)
(* Each view groups the entries by a key and keeps of each group the fields *)
(* its aggregator has; an entry without the key is skipped.  A tally is a   *)
(* bag: it stands for the Set of distinct values and the Map of counts that *)
(* the code adds to together.  Strings are numbers, in the order in which   *)
(* the code compares them; times are in ticks.                              *)
(****************************************************************************)
EXTENDS AccessLog, Integers, Sequences, SequencesExt

CONSTANT MinuteTicks    \* ticks in a minute

ASSUME MinuteTicksAssumption == MinuteTicks \in Nat \ {0}
ASSUME NoneIsNoKey == None # "all"
ASSUME NoneIsNoNumber == None \notin Int

Selected == {"paths", "sourceIps", "sourceIpPaths", "userAgents"}
KeptWhole == {"statuses", "methods", "oneMinute", "fiveMinute"}
Views == Selected \union KeptWhole

\* The whole log is one group of its own: the overview.
AllViews == Views \union {"overview"}

Samples == {"sampleSourceIps", "sampleQueries", "sampleReferrers"}
Tallies == {"sourceIps", "paths", "userAgents", "queries", "methods", "statuses", "hosts", "times"}

Fields ==
  [paths         |-> {"requestCount", "sourceIps", "userAgents", "queries", "methods", "statuses",
                      "hosts", "responses", "seen", "times"} \union Samples,
   sourceIps     |-> {"requestCount", "paths", "userAgents", "methods", "statuses", "responses",
                      "seen", "times"},
   sourceIpPaths |-> {"requestCount", "queries", "userAgents", "methods", "statuses", "seen", "times"},
   statuses      |-> {"requestCount", "paths", "sourceIps", "seen"},
   methods       |-> {"requestCount", "paths", "sourceIps", "seen"},
   userAgents    |-> {"requestCount", "paths", "sourceIps", "methods", "statuses", "seen"},
   oneMinute     |-> {"requestCount", "sourceIps", "paths", "methods", "statuses"},
   fiveMinute    |-> {"requestCount", "sourceIps", "paths", "methods", "statuses"},
   overview      |-> {"requestCount", "sourceIps", "paths", "userAgents", "statuses", "methods",
                      "responses", "seen"}]

-----------------------------------------------------------------------------
(* Keys.                                                                    *)

\* Mutant: rounded to the nearest bucket.
RoundToBucket(time, minutes) ==
  LET ticks == minutes * MinuteTicks IN ((time + ticks \div 2) \div ticks) * ticks

FloorToBucket(time, minutes) ==
  LET ticks == minutes * MinuteTicks IN (time \div ticks) * ticks

Bucket(time, minutes) == IF time = None THEN None ELSE FloorToBucket(time, minutes)

ViewKey(view, entry) ==
  CASE view = "paths" -> entry.path
    [] view = "sourceIps" -> entry.sourceIp
    [] view = "sourceIpPaths" ->
         IF None \in {entry.sourceIp, entry.path} THEN None ELSE <<entry.sourceIp, entry.path>>
    [] view = "statuses" -> entry.status
    [] view = "methods" -> entry.method
    [] view = "userAgents" -> entry.userAgent
    [] view = "oneMinute" -> Bucket(entry.timestamp, 1)
    [] view = "fiveMinute" -> Bucket(entry.timestamp, 5)

KeyOf(view, entry) == IF view = "overview" THEN "all" ELSE ViewKey(view, entry)

-----------------------------------------------------------------------------
(* Accumulators.                                                            *)

NoResponses == [count |-> 0, total |-> 0, min |-> None, max |-> None]
NotSeen == [first |-> None, last |-> None]

Lower(old, new) == IF old = None \/ new < old THEN new ELSE old
Higher(old, new) == IF old = None \/ new > old THEN new ELSE old

Copies(value, tally) == IF BagIn(value, tally) THEN tally[value] ELSE 0

Tallied(tally, value) == IF value = None THEN tally ELSE tally (+) SetToBag({value})

AddResponse(responses, bytes) ==
  IF bytes = None THEN responses
  ELSE [count |-> responses.count + 1,
        total |-> responses.total + bytes,
        min   |-> Lower(responses.min, bytes),
        max   |-> Higher(responses.max, bytes)]

SawAt(seen, time) ==
  IF time = None THEN seen
  ELSE [first |-> Lower(seen.first, time), last |-> Higher(seen.last, time)]

\* FirstNSample: the first distinct values, in the order they came.
Sampled(sample, value, limit) ==
  IF value = None \/ Contains(sample, value) \/ Len(sample) >= limit
  THEN sample
  ELSE Append(sample, value)

HostOf(referrer) ==
  CASE referrer = None -> None
    [] referrer = Bad -> "(unparsable)"
    [] OTHER -> referrer.host

\* What an entry adds to a tally or to a sample.
Noted(field, entry) ==
  CASE field \in {"sourceIps", "sampleSourceIps"} -> entry.sourceIp
    [] field = "paths" -> entry.path
    [] field = "userAgents" -> entry.userAgent
    [] field \in {"queries", "sampleQueries"} -> entry.query
    [] field = "methods" -> entry.method
    [] field = "statuses" -> entry.status
    [] field = "hosts" -> HostOf(entry.referrer)
    [] field = "sampleReferrers" -> entry.referrer
    [] field = "times" -> Bucket(entry.timestamp, 5)

EmptyField(field) ==
  IF field = "requestCount" THEN 0
  ELSE IF field = "responses" THEN NoResponses
  ELSE IF field = "seen" THEN NotSeen
  ELSE IF field \in Samples THEN <<>> ELSE EmptyBag

WithValue(field, old, entry, sampleLimit) ==
  CASE field = "responses" -> AddResponse(old, entry.responseBytes)
    [] field = "seen" -> SawAt(old, entry.timestamp)
    [] field \in Samples -> Sampled(old, Noted(field, entry), sampleLimit)
    [] field \in Tallies -> Tallied(old, Noted(field, entry))

AddTo(field, old, entry, sampleLimit) ==
  IF field = "requestCount" THEN old + 1 ELSE WithValue(field, old, entry, sampleLimit)

-----------------------------------------------------------------------------
(* consume: the entry goes to the group of its key, in every view.          *)

EmptyGroup(view) == [field \in Fields[view] |-> EmptyField(field)]

Grown(view, group, entry, sampleLimit) ==
  [field \in Fields[view] |-> AddTo(field, group[field], entry, sampleLimit)]

ConsumeInto(view, groups, entry, sampleLimit) ==
  LET key == KeyOf(view, entry)
      old == IF key \in DOMAIN groups THEN groups[key] ELSE EmptyGroup(view)
  IN  IF key = None
      THEN groups
      ELSE [k \in DOMAIN groups \union {key} |->
              IF k = key THEN Grown(view, old, entry, sampleLimit) ELSE groups[k]]

NothingAggregated ==
  [view \in AllViews |->
     IF view = "overview" THEN [k \in {"all"} |-> EmptyGroup(view)] ELSE <<>>]

Consume(aggregation, entry, sampleLimit) ==
  [view \in AllViews |-> ConsumeInto(view, aggregation[view], entry, sampleLimit)]

=============================================================================
