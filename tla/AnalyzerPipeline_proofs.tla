----------------------- MODULE AnalyzerPipeline_proofs -----------------------
(****************************************************************************)
(* Proofs about AnalyzerPipeline, for any set of lines, configurations and  *)
(* limits: its type invariant, that every line is accounted for, that the   *)
(* groups say what the entries say, that a group is left out only for what  *)
(* deserves its place, that known information is traceable, that the final  *)
(* validation finds nothing, and what the redaction keeps and refuses.      *)
(****************************************************************************)
EXTENDS AnalyzerPipeline, FiniteSetTheorems, FunctionTheorems, SequenceTheorems,
        WellFoundedInduction, TLAPS

Requests == aggregation["overview"]["all"]["requestCount"]

\* The non-blank lines among the first ones.
Counts(lines) == {i \in DOMAIN lines : lines[i].format # "blank"}

\* What the type invariant and the account rest on: the overview is a group
\* from the start, and the summary is complete while the stream goes on.
Account ==
  /\ DOMAIN aggregation["overview"] = {"all"}
  /\ Requests \in Nat
  /\ summary.total = summary.parsed + summary.partial + summary.failed
  /\ Requests + excluded.count = summary.parsed + summary.partial
  /\ phase # "done" => result = NoResult
  /\ result.errorCode # "ANALYZER_AGGREGATION_FAILED" \/ phase # "done" =>
       summary.total = Cardinality(Counts(log))

IInv == TypeOK /\ Account

-----------------------------------------------------------------------------
(* Lemmas about the operators.                                              *)

\* One more entry is one more request of the overview, whatever it holds.
LEMMA ConsumeCounts ==
  ASSUME NEW groups, NEW entry, NEW limit,
         DOMAIN groups["overview"] = {"all"},
         groups["overview"]["all"]["requestCount"] \in Nat
  PROVE  /\ DOMAIN Consume(groups, entry, limit) = AllViews
         /\ DOMAIN Consume(groups, entry, limit)["overview"] = {"all"}
         /\ Consume(groups, entry, limit)["overview"]["all"]["requestCount"]
              = groups["overview"]["all"]["requestCount"] + 1
<1> DEFINE old == groups["overview"]["all"]
<1>1. KeyOf("overview", entry) = "all"
  BY DEF KeyOf
<1>2. "overview" \in AllViews
  BY DEF AllViews
<1>3. "requestCount" \in Fields["overview"]
  BY DEF Fields
<1>4. ConsumeInto("overview", groups["overview"], entry, limit)
        = [k \in {"all"} |-> Grown("overview", old, entry, limit)]
  BY <1>1, NoneIsNoKey DEF ConsumeInto
<1>5. Grown("overview", old, entry, limit)["requestCount"] = old["requestCount"] + 1
  BY <1>3 DEF Grown, AddTo
<1> QED  BY <1>2, <1>4, <1>5 DEF Consume

\* A line more is counted once, under the status it has.
LEMMA CountedOnce ==
  ASSUME NEW line, summary \in [total : Nat, parsed : Nat, partial : Nat, failed : Nat,
                                warnings : {summary.warnings}],
         summary.total = summary.parsed + summary.partial + summary.failed
  PROVE  LET after == Counted(summary, line)
         IN  /\ after \in [total : Nat, parsed : Nat, partial : Nat, failed : Nat,
                           warnings : {after.warnings}]
             /\ after.total = summary.total + 1
             /\ after.parsed + after.partial
                  = summary.parsed + summary.partial + IF ParseStatus(line) = "failed" THEN 0 ELSE 1
             /\ after.total = after.parsed + after.partial + after.failed
<1>1. ParseStatus(line) \in {"failed", "partial", "parsed"}
  BY DEF ParseStatus
<1> QED  BY <1>1 DEF Counted

LEMMA CountsFinite ==
  ASSUME NEW S, NEW lines \in Seq(S)
  PROVE  /\ IsFiniteSet(Counts(lines))
         /\ Cardinality(Counts(lines)) \in Nat
<1>1. Counts(lines) \subseteq 1..Len(lines)
  BY DEF Counts
<1>2. IsFiniteSet(1..Len(lines))
  BY FS_Interval
<1> QED  BY <1>1, <1>2, FS_Subset, FS_CardinalityType

\* A line that is appended is counted unless it is blank.
LEMMA CountsAppend ==
  ASSUME NEW S, NEW lines \in Seq(S), NEW line \in S
  PROVE  Cardinality(Counts(Append(lines, line)))
           = Cardinality(Counts(lines)) + IF line.format = "blank" THEN 0 ELSE 1
<1> DEFINE n == Len(lines) + 1
<1>1. n \notin Counts(lines)
  BY DEF Counts
<1>2. CASE line.format = "blank"
  <2>1. Counts(Append(lines, line)) = Counts(lines)
    BY <1>2 DEF Counts
  <2> QED  BY <1>2, <2>1, CountsFinite
<1>3. CASE line.format # "blank"
  <2>1. Counts(Append(lines, line)) = Counts(lines) \union {n}
    BY <1>3 DEF Counts
  <2> QED  BY <1>1, <1>3, <2>1, CountsFinite, FS_AddElement
<1> QED  BY <1>2, <1>3

-----------------------------------------------------------------------------
(* The invariant.                                                           *)

LEMMA NothingRequested ==
  /\ DOMAIN NothingAggregated = AllViews
  /\ DOMAIN NothingAggregated["overview"] = {"all"}
  /\ NothingAggregated["overview"]["all"]["requestCount"] = 0
<1>1. "overview" \in AllViews /\ "requestCount" \in Fields["overview"]
  BY DEF AllViews, Fields
<1>2. EmptyField("requestCount") = 0
  BY DEF EmptyField
<1> QED  BY <1>1, <1>2 DEF NothingAggregated, EmptyGroup

LEMMA InitIInv ==
  ASSUME Init
  PROVE  IInv
<1>1. Counts(<<>>) = {} /\ Cardinality({}) = 0
  BY FS_EmptySet DEF Counts
<1>2. Account
  <2>1. Requests = 0 /\ log = <<>> /\ result = NoResult /\ phase = "validating"
    BY NothingRequested DEF Init, Requests
  <2>2. DOMAIN aggregation["overview"] = {"all"}
    BY NothingRequested DEF Init
  <2>3. summary.total = 0 /\ summary.parsed = 0 /\ summary.partial = 0 /\ summary.failed = 0
    BY DEF Init, NoLines
  <2>4. excluded.count = 0
    BY DEF Init
  <2>5. Cardinality(Counts(log)) = 0
    BY <1>1, <2>1
  <2> QED  BY <2>1, <2>2, <2>3, <2>4, <2>5 DEF Account
<1>3. TypeOK
  BY NothingRequested DEF Init, TypeOK, NoLines, NoResult
<1> QED  BY <1>2, <1>3 DEF IInv

\* A failure is an outcome of the analysis.
LEMMA FailsEnds ==
  ASSUME IInv, phase # "done", NEW code, NEW parseSummary, Fails(code, parseSummary)
  PROVE  /\ phase' = "done"
         /\ result'.status = "failed"
         /\ result'.errorCode = code
BY DEF IInv, Account, Fails, Ends, NoResult

LEMMA NextIInv ==
  ASSUME IInv, [Next]_vars
  PROVE  IInv'
<1> USE DEF IInv
<1>1. CASE Validate
  <2>1. UNCHANGED <<config, log, summary, excluded, aggregation>>
    BY <1>1 DEF Validate
  <2>2. CASE ConfigValid
    BY <1>1, <2>1, <2>2 DEF Validate, TypeOK, Account, Requests, NoResult
  <2>3. CASE ~ConfigValid
    <3>1. phase # "done" /\ Fails("ANALYZER_INVALID_CONFIGURATION", None)
      BY <1>1, <2>3 DEF Validate
    <3> QED  BY <2>1, <3>1, FailsEnds DEF TypeOK, Account, Requests
  <2> QED  BY <2>2, <2>3
<1>2. ASSUME NEW line \in Lines, SkipLine(line)
      PROVE  IInv'
  <2>1. Cardinality(Counts(log')) = Cardinality(Counts(log))
    BY <1>2, CountsAppend, CountsFinite DEF SkipLine, Delivers, TypeOK
  <2> QED  BY <1>2, <2>1 DEF SkipLine, Delivers, TypeOK, Account, Requests
<1>3. ASSUME NEW line \in Lines, CountFailedLine(line)
      PROVE  IInv'
  <2>1. /\ log' = Append(log, line) /\ line.format # "blank"
        /\ summary' = Counted(summary, line)
        /\ UNCHANGED <<config, phase, excluded, aggregation, result>>
        /\ phase = "reading"
    BY <1>3 DEF CountFailedLine, Delivers
  <2>2. ParseStatus(line) = "failed"
    BY <1>3 DEF CountFailedLine, Usable
  <2>3. Cardinality(Counts(log')) = Cardinality(Counts(log)) + 1 /\ log' \in Seq(Lines)
    BY <2>1, CountsAppend DEF TypeOK
  <2>4. /\ summary' \in [total : Nat, parsed : Nat, partial : Nat, failed : Nat,
                          warnings : {summary'.warnings}]
        /\ summary'.total = summary.total + 1
        /\ summary'.parsed + summary'.partial = summary.parsed + summary.partial + 0
        /\ summary'.total = summary'.parsed + summary'.partial + summary'.failed
    BY <2>1, <2>2, CountedOnce DEF TypeOK, Account
  <2>6. TypeOK'
    BY <2>1, <2>3, <2>4 DEF TypeOK
  <2>7. /\ summary.total \in Nat /\ summary.parsed \in Nat /\ summary.partial \in Nat
        /\ summary.failed \in Nat /\ excluded.count \in Nat
    BY DEF TypeOK
  <2>8. /\ phase' # "done" /\ result' = NoResult
        /\ Cardinality(Counts(log)) = summary.total
    BY <2>1 DEF Account
  <2>9. /\ Requests' \in Nat
        /\ Requests' + excluded'.count = summary'.parsed + summary'.partial
    BY <2>1, <2>4, <2>7 DEF Account, Requests
  <2>10. summary'.total = Cardinality(Counts(log'))
    BY <2>3, <2>4, <2>8
  <2>11. Account'
    BY <2>1, <2>4, <2>8, <2>9, <2>10 DEF Account
  <2> QED  BY <2>6, <2>11
<1>4. ASSUME NEW line \in Lines, ExcludeEntry(line)
      PROVE  IInv'
  <2>1. /\ log' = Append(log, line) /\ line.format # "blank"
        /\ summary' = Counted(summary, line)
        /\ excluded' \in [count : Nat, byRule : {excluded'.byRule}]
        /\ excluded'.count = excluded.count + 1
        /\ UNCHANGED <<config, phase, aggregation, result>>
        /\ phase = "reading"
    BY <1>4 DEF ExcludeEntry, Delivers, Usable, TypeOK
  <2>2. ParseStatus(line) # "failed"
    BY <1>4 DEF ExcludeEntry, Usable
  <2>3. Cardinality(Counts(log')) = Cardinality(Counts(log)) + 1 /\ log' \in Seq(Lines)
    BY <2>1, CountsAppend DEF TypeOK
  <2>4. /\ summary' \in [total : Nat, parsed : Nat, partial : Nat, failed : Nat,
                          warnings : {summary'.warnings}]
        /\ summary'.total = summary.total + 1
        /\ summary'.parsed + summary'.partial = summary.parsed + summary.partial + 1
        /\ summary'.total = summary'.parsed + summary'.partial + summary'.failed
    BY <2>1, <2>2, CountedOnce DEF TypeOK, Account
  <2>6. TypeOK'
    BY <2>1, <2>3, <2>4 DEF TypeOK
  <2>7. /\ summary.total \in Nat /\ summary.parsed \in Nat /\ summary.partial \in Nat
        /\ summary.failed \in Nat /\ excluded.count \in Nat
    BY DEF TypeOK
  <2>8. /\ phase' # "done" /\ result' = NoResult
        /\ Cardinality(Counts(log)) = summary.total
    BY <2>1 DEF Account
  <2>9. /\ Requests' \in Nat
        /\ Requests' + excluded'.count = summary'.parsed + summary'.partial
    <3>1. Requests' = Requests /\ excluded'.count = excluded.count + 1
      BY <2>1 DEF Requests
    <3>2. Requests \in Nat /\ Requests + excluded.count = summary.parsed + summary.partial
      BY DEF Account
    <3>3. summary'.parsed + summary'.partial = summary.parsed + summary.partial + 1
      BY <2>4
    <3> QED  BY <3>1, <3>2, <3>3, <2>7
  <2>10. summary'.total = Cardinality(Counts(log'))
    BY <2>3, <2>4, <2>8
  <2>11. Account'
    BY <2>1, <2>4, <2>8, <2>9, <2>10 DEF Account
  <2> QED  BY <2>6, <2>11
<1>5. ASSUME NEW line \in Lines, ConsumeEntry(line)
      PROVE  IInv'
  <2>1. /\ log' = Append(log, line) /\ line.format # "blank"
        /\ summary' = Counted(summary, line)
        /\ aggregation' = Consume(aggregation, Normalized(line), config.sampleLimit)
        /\ UNCHANGED <<config, phase, excluded, result>>
        /\ phase = "reading"
    BY <1>5 DEF ConsumeEntry, Delivers, Usable
  <2>2. ParseStatus(line) # "failed"
    BY <1>5 DEF ConsumeEntry, Usable
  <2>3. Cardinality(Counts(log')) = Cardinality(Counts(log)) + 1 /\ log' \in Seq(Lines)
    BY <2>1, CountsAppend DEF TypeOK
  <2>4. /\ summary' \in [total : Nat, parsed : Nat, partial : Nat, failed : Nat,
                          warnings : {summary'.warnings}]
        /\ summary'.total = summary.total + 1
        /\ summary'.parsed + summary'.partial = summary.parsed + summary.partial + 1
        /\ summary'.total = summary'.parsed + summary'.partial + summary'.failed
    BY <2>1, <2>2, CountedOnce DEF TypeOK, Account
  <2>5. /\ DOMAIN aggregation' = AllViews
        /\ DOMAIN aggregation'["overview"] = {"all"}
        /\ Requests' = Requests + 1
    BY <2>1, ConsumeCounts DEF Account, Requests
  <2>6. TypeOK'
    BY <2>1, <2>3, <2>4, <2>5 DEF TypeOK
  <2>7. /\ summary.total \in Nat /\ summary.parsed \in Nat /\ summary.partial \in Nat
        /\ summary.failed \in Nat /\ excluded.count \in Nat
    BY DEF TypeOK
  <2>8. /\ phase' # "done" /\ result' = NoResult
        /\ Cardinality(Counts(log)) = summary.total
    BY <2>1 DEF Account
  <2>9. /\ Requests' \in Nat
        /\ Requests' + excluded'.count = summary'.parsed + summary'.partial
    <3>1. Requests' = Requests + 1 /\ excluded'.count = excluded.count
      BY <2>5, <2>1
    <3>2. Requests \in Nat /\ Requests + excluded.count = summary.parsed + summary.partial
      BY DEF Account
    <3>3. summary'.parsed + summary'.partial = summary.parsed + summary.partial + 1
      BY <2>4
    <3> QED  BY <3>1, <3>2, <3>3, <2>7
  <2>10. summary'.total = Cardinality(Counts(log'))
    BY <2>3, <2>4, <2>8
  <2>11. Account'
    BY <2>1, <2>4, <2>5, <2>8, <2>9, <2>10 DEF Account
  <2> QED  BY <2>6, <2>11
<1>6. ASSUME NEW line \in Lines, AggregationFails(line)
      PROVE  IInv'
  <2>1. /\ phase # "done" /\ Fails("ANALYZER_AGGREGATION_FAILED", None)
        /\ log' \in Seq(Lines)
        /\ UNCHANGED <<config, summary, excluded, aggregation>>
    BY <1>6 DEF AggregationFails, Delivers, TypeOK
  <2> QED  BY <2>1, FailsEnds DEF TypeOK, Account, Requests
<1>7. CASE SourceFails
  <2>1. /\ phase # "done" /\ Fails("ANALYZER_INTERNAL_ERROR", None)
        /\ UNCHANGED <<config, log, summary, excluded, aggregation>>
    BY <1>7 DEF SourceFails
  <2> QED  BY <2>1, FailsEnds DEF TypeOK, Account, Requests
<1>8. CASE EndOfLog
  <2>1. phase = "reading" /\ UNCHANGED <<config, log, summary, excluded, aggregation>>
    BY <1>8 DEF EndOfLog
  <2>2. ASSUME NEW code, NEW counted, Fails(code, counted)
        PROVE  IInv'
    BY <2>1, <2>2, FailsEnds DEF TypeOK, Account, Requests
  <2>3. CASE Ends([NoResult EXCEPT !.status = DerivedStatus(summary),
                                   !.parseSummary = summary,
                                   !.observationSet = ObservationSet])
    <3>1. DerivedStatus(summary) \in {"failed", "partial", "success"}
      BY DEF DerivedStatus
    <3>2. phase' = "done" /\ result'.status = DerivedStatus(summary)
      BY <2>3 DEF Ends, NoResult
    <3> QED  BY <2>1, <3>1, <3>2 DEF TypeOK, Account, Requests
  <2> QED  BY <1>8, <2>2, <2>3 DEF EndOfLog, Outcome
<1>9. CASE UNCHANGED vars
  BY <1>9 DEF vars, TypeOK, Account, Requests
<1> QED  BY <1>1, <1>2, <1>3, <1>4, <1>5, <1>6, <1>7, <1>8, <1>9 DEF Next

LEMMA Inductive == Spec => []IInv
<1>1. Init => IInv
  BY InitIInv
<1>2. IInv /\ [Next]_vars => IInv'
  BY NextIInv
<1> QED  BY <1>1, <1>2, PTL DEF Spec

\* The builder, the engine and the result keep their shape, and the promise of
\* analyzeAccessLog resolves with an outcome, never without one.
THEOREM TypeCorrect == Spec => []TypeOK
<1>1. IInv => TypeOK
  BY DEF IInv
<1> QED  BY <1>1, Inductive, PTL

\* However long the log, whatever its lines and wherever the analysis stops,
\* every line is counted once and every entry is aggregated or excluded.
THEOREM AllAccounted == Spec => []EveryLineAccounted
<1>1. IInv => EveryLineAccounted
  BY DEF IInv, Account, Requests, Counts, EveryLineAccounted, Groups
<1> QED  BY <1>1, Inductive, PTL

-----------------------------------------------------------------------------
(* Numbers: induction, buckets, sums, bounds.                               *)

\* A set of natural numbers has a least one.
LEMMA LeastNat ==
  ASSUME NEW S \in SUBSET Nat, S # {}
  PROVE  \E m \in S : \A n \in S : m <= n
<1> DEFINE R == {ss \in Nat \X Nat : ss[1] < ss[2]}
<1>1. IsWellFoundedOn(R, Nat)
  BY NatLessThanWellFounded DEF OpToRel
<1>2. PICK x \in S : \A y \in S : ~ (<<y, x>> \in R)
  BY <1>1, WFMin
<1>3. ASSUME NEW y \in S
      PROVE  x <= y
  <2>1. <<y, x>> \in Nat \X Nat /\ ~ (<<y, x>> \in R)
    BY <1>2
  <2>2. ~ (<<y, x>>[1] < <<y, x>>[2])
    BY <2>1
  <2> QED  BY <2>2
<1> QED  BY <1>3

\* Induction, for a set: what holds 0 and every successor holds all of Nat.
LEMMA Induct ==
  ASSUME NEW S, 0 \in S, \A n \in Nat : n \in S => n + 1 \in S
  PROVE  Nat \subseteq S
<1> DEFINE B == Nat \ S
<1>1. SUFFICES ASSUME B # {}
               PROVE  FALSE
  OBVIOUS
<1>2. PICK m \in B : \A n \in B : m <= n
  BY LeastNat, <1>1
<1>3. m # 0 /\ m \in Nat
  BY <1>2
<1>4. m - 1 \in Nat /\ m - 1 \notin B
  BY <1>3, <1>2
<1> QED  BY <1>3, <1>4, <1>2


\* What \div and % say of each other.
LEMMA Division ==
  ASSUME NEW t \in Int, NEW d \in Nat \ {0}
  PROVE  /\ t \div d \in Int /\ t % d \in Nat
         /\ t = d * (t \div d) + (t % d) /\ 0 <= t % d /\ t % d < d
OBVIOUS


\* A time is rounded down to a bucket exactly if it lies in the bucket.
LEMMA BucketIsKey ==
  ASSUME NEW t \in Int, NEW d \in Nat \ {0}, NEW s \in Int
  PROVE  (t \div d) * d = s <=> s % d = 0 /\ t \in s .. s + d - 1
<1> DEFINE q == t \div d
           p == s \div d
<1>1. q \in Int /\ t = d * q + (t % d) /\ 0 <= t % d /\ t % d < d /\ t % d \in Int
  BY Division
<1>2. p \in Int /\ s = d * p + (s % d) /\ 0 <= s % d /\ s % d < d /\ s % d \in Int
  BY Division
<1> HIDE DEF p, q
<1>3. \A x, y \in Int : x < y => d * x + d <= d * y
  OBVIOUS
<1>4. ASSUME q * d = s
      PROVE  s % d = 0 /\ t \in s .. s + d - 1
  <2>1. p = q
   BY <1>1, <1>2, <1>3, <1>4
  <2> QED BY <1>1, <1>2, <1>4, <2>1
<1>5. ASSUME s % d = 0, t \in s .. s + d - 1
      PROVE  q * d = s
  <2>1. p = q
   BY <1>1, <1>2, <1>3, <1>5
  <2> QED BY <1>1, <1>2, <1>5, <2>1
<1> QED BY <1>4, <1>5 DEF q

\* The sum of the values of f on a set.
SumOf(f, S) == MapThenSumSet(LAMBDA x : f[x], S)

\* The units of the values of f on a set: as many as their sum.
Units(f, S) == {u \in S \X Nat : u[2] < f[u[1]]}

\* One more element brings the units of its value.
LEMMA UnitsOfOne ==
  ASSUME NEW f, NEW S, IsFiniteSet(S), NEW x, x \notin S, f[x] \in Nat,
         IsFiniteSet(Units(f, S))
  PROVE  /\ IsFiniteSet(Units(f, S \union {x}))
         /\ Cardinality(Units(f, S \union {x})) = Cardinality(Units(f, S)) + f[x]
<1> DEFINE one == {x} \X (0 .. f[x] - 1)
<1>1. Units(f, S \union {x}) = Units(f, S) \union one
  BY DEF Units
<1>2. Units(f, S) \cap one = {}
  BY DEF Units
<1>3. IsFiniteSet(0 .. f[x] - 1) /\ Cardinality(0 .. f[x] - 1) = f[x]
  BY FS_Interval
<1>4. IsFiniteSet({x}) /\ Cardinality({x}) = 1
  BY FS_Singleton
<1>5. IsFiniteSet(one) /\ Cardinality(one) = f[x]
  <2> DEFINE A == {x}
             B == 0 .. f[x] - 1
  <2>1. IsFiniteSet(A) /\ IsFiniteSet(B) /\ Cardinality(A) = 1 /\ Cardinality(B) = f[x]
    BY <1>3, <1>4
  <2> HIDE DEF A, B
  <2>2. IsFiniteSet(A \X B) /\ Cardinality(A \X B) = Cardinality(A) * Cardinality(B)
    BY <2>1, FS_Product
  <2>3. IsFiniteSet(A \X B) /\ Cardinality(A \X B) = f[x]
    BY <2>1, <2>2
  <2> QED  BY <2>3 DEF A, B
<1>6. Cardinality(Units(f, S) \cap one) = 0
  BY <1>2, FS_EmptySet
<1>7. Cardinality(Units(f, S)) \in Nat
  BY FS_CardinalityType
<1> DEFINE old == Units(f, S)
<1>8. IsFiniteSet(old) /\ Cardinality(old) \in Nat /\ Cardinality(old \cap one) = 0
  BY <1>6, <1>7
<1> HIDE DEF one, old
<1>9. /\ IsFiniteSet(old \cup one)
      /\ Cardinality(old \cup one)
           = Cardinality(old) + Cardinality(one) - Cardinality(old \cap one)
  BY <1>5, <1>8, FS_Union
<1>10. Cardinality(old \cup one) = Cardinality(old) + f[x]
  BY <1>5, <1>8, <1>9
<1> QED  BY <1>1, <1>9, <1>10 DEF old

\* The units of finitely many values are finitely many.
LEMMA UnitsFinite ==
  ASSUME NEW S, IsFiniteSet(S), NEW f, \A x \in S : f[x] \in Nat
  PROVE  IsFiniteSet(Units(f, S)) /\ Cardinality(Units(f, S)) \in Nat
<1> DEFINE P == {n \in Nat : \A T \in SUBSET S : Cardinality(T) = n => IsFiniteSet(Units(f, T))}
<1>1. 0 \in P
  <2>1. SUFFICES ASSUME NEW T \in SUBSET S, Cardinality(T) = 0
                 PROVE  IsFiniteSet(Units(f, T))
    OBVIOUS
  <2>2. IsFiniteSet(T)
    BY FS_Subset
  <2>3. T = {}
    BY <2>1, <2>2, FS_EmptySet
  <2>4. Units(f, T) = {}
    BY <2>3 DEF Units
  <2> QED  BY <2>4, FS_EmptySet
<1>2. ASSUME NEW n \in Nat, n \in P
      PROVE  n + 1 \in P
  <2>1. SUFFICES ASSUME NEW T \in SUBSET S, Cardinality(T) = n + 1
                 PROVE  IsFiniteSet(Units(f, T))
    OBVIOUS
  <2>2. IsFiniteSet(T)
    BY FS_Subset
  <2>3. PICK x \in T : TRUE
    BY <2>1, <2>2, FS_EmptySet
  <2> DEFINE U == T \ {x}
  <2>4. IsFiniteSet(U) /\ Cardinality(U) = n /\ U \in SUBSET S
    <3>1. IsFiniteSet(U) /\ Cardinality(U) = Cardinality(T) - 1
      BY <2>2, <2>3, FS_RemoveElement
    <3> QED  BY <2>1, <3>1
  <2>5. IsFiniteSet(Units(f, U))
    BY <1>2, <2>4
  <2>6. T = U \union {x} /\ x \notin U /\ f[x] \in Nat
    BY <2>3
  <2> HIDE DEF U
  <2>7. IsFiniteSet(Units(f, U \union {x}))
    BY <2>4, <2>5, <2>6, UnitsOfOne
  <2> QED  BY <2>6, <2>7
<1>3. Nat \subseteq P
  <2> HIDE DEF P
  <2> QED  BY <1>1, <1>2, Induct
<1>4. Cardinality(S) \in Nat
  BY FS_CardinalityType
<1>5. IsFiniteSet(Units(f, S))
  BY <1>3, <1>4
<1> QED  BY <1>5, FS_CardinalityType

\* The sum of natural numbers, in whatever order CHOOSE takes them, is the
\* number of their units.
LEMMA SumIsUnits ==
  ASSUME NEW S, IsFiniteSet(S), NEW f, \A x \in S : f[x] \in Nat
  PROVE  SumOf(f, S) = Cardinality(Units(f, S))
<1> DEFINE c(s) == CHOOSE x \in s : TRUE
           Solves(g) == g = [s \in SUBSET S |-> IF s = {} THEN 0 ELSE f[c(s)] + g[s \ {c(s)}]]
           units == [s \in SUBSET S |-> Cardinality(Units(f, s))]
           iter == CHOOSE g : Solves(g)
<1>1. ASSUME NEW s \in SUBSET S
      PROVE  units[s] = IF s = {} THEN 0 ELSE f[c(s)] + units[s \ {c(s)}]
  <2>1. CASE s = {}
    <3>1. Units(f, s) = {}
      BY <2>1 DEF Units
    <3> QED  BY <2>1, <3>1, FS_EmptySet
  <2>2. CASE s # {}
    <3> DEFINE x == c(s)
               r == s \ {x}
    <3>1. x \in s /\ x \notin r /\ s = r \union {x} /\ r \in SUBSET S /\ f[x] \in Nat
      BY <2>2
    <3>2. IsFiniteSet(r)
      BY <3>1, FS_Subset
    <3>3. IsFiniteSet(Units(f, r)) /\ Cardinality(Units(f, r)) \in Nat
      <4> HIDE DEF r, x
      <4> QED  BY <3>1, <3>2, UnitsFinite
    <3>4. Cardinality(Units(f, r \union {x})) = Cardinality(Units(f, r)) + f[x]
      <4> HIDE DEF r, x
      <4> QED  BY <3>1, <3>2, <3>3, UnitsOfOne
    <3>5. units[s] = units[r] + f[x]
      BY <3>1, <3>4
    <3>6. units[r] = Cardinality(Units(f, r))
      BY <3>1
    <3> QED  BY <2>2, <3>1, <3>3, <3>5, <3>6
  <2> QED  BY <2>1, <2>2
<1>2. Solves(units)
  <2> HIDE DEF units, c
  <2>1. units = [s \in SUBSET S |-> units[s]]
    BY DEF units
  <2> QED  BY <1>1, <2>1
<1>3. Solves(iter)
  <2> HIDE DEF units, Solves
  <2> QED  BY <1>2
<1>4. SumOf(f, S) = iter[S]
  BY DEF SumOf, MapThenSumSet, MapThenFoldSet
<1> HIDE DEF iter
<1> DEFINE P == {n \in Nat : \A s \in SUBSET S : Cardinality(s) = n => iter[s] = units[s]}
<1>5. 0 \in P
  <2>1. SUFFICES ASSUME NEW s \in SUBSET S, Cardinality(s) = 0
                 PROVE  iter[s] = units[s]
    OBVIOUS
  <2>2. s = {}
    BY <2>1, FS_Subset, FS_EmptySet
  <2>3. iter[s] = 0
    BY <1>3, <2>2
  <2>4. units[s] = 0
    BY <1>1, <2>2
  <2> QED  BY <2>3, <2>4
<1>6. ASSUME NEW n \in Nat, n \in P
      PROVE  n + 1 \in P
  <2>1. SUFFICES ASSUME NEW s \in SUBSET S, Cardinality(s) = n + 1
                 PROVE  iter[s] = units[s]
    <3> HIDE DEF units
    <3> QED  OBVIOUS
  <2>2. s # {} /\ c(s) \in s
    BY <2>1, FS_EmptySet
  <2>3. IsFiniteSet(s)
    BY FS_Subset
  <2>4. s \ {c(s)} \in SUBSET S /\ Cardinality(s \ {c(s)}) = n
    <3> DEFINE x == c(s)
    <3>1. x \in s
      BY <2>2
    <3> HIDE DEF x
    <3>2. Cardinality(s \ {x}) = Cardinality(s) - 1
      BY <2>3, <3>1, FS_RemoveElement
    <3>3. Cardinality(s \ {x}) = n
      BY <2>1, <3>2
    <3> QED  BY <3>3 DEF x
  <2>5. iter[s \ {c(s)}] = units[s \ {c(s)}]
    <3> HIDE DEF units, c
    <3> QED  BY <1>6, <2>4
  <2>6. iter[s] = f[c(s)] + iter[s \ {c(s)}]
    <3> HIDE DEF units, c
    <3> QED  BY <1>3, <2>2
  <2>7. units[s] = f[c(s)] + units[s \ {c(s)}]
    <3> HIDE DEF units, c
    <3> QED  BY <1>1, <2>2
  <2> QED  BY <2>5, <2>6, <2>7
<1>7. Nat \subseteq P
  <2> HIDE DEF P
  <2> QED  BY <1>5, <1>6, Induct
<1>8. Cardinality(S) \in Nat
  BY FS_CardinalityType
<1>9. iter[S] = units[S]
  BY <1>7, <1>8
<1> QED  BY <1>4, <1>9

\* It is a natural number,
LEMMA SumType ==
  ASSUME NEW S, IsFiniteSet(S), NEW f, \A x \in S : f[x] \in Nat
  PROVE  SumOf(f, S) \in Nat
BY SumIsUnits, UnitsFinite

\* 0 for no value,
LEMMA SumEmpty ==
  ASSUME NEW f
  PROVE  SumOf(f, {}) = 0
<1>1. Units(f, {}) = {}
  BY DEF Units
<1> QED  BY <1>1, SumIsUnits, FS_EmptySet

\* larger by the value of one more element,
LEMMA SumAdd ==
  ASSUME NEW S, IsFiniteSet(S), NEW f, NEW x, x \notin S,
         \A y \in S \union {x} : f[y] \in Nat
  PROVE  SumOf(f, S \union {x}) = SumOf(f, S) + f[x]
<1>1. IsFiniteSet(S \union {x})
  BY FS_AddElement
<1>2. SumOf(f, S \union {x}) = Cardinality(Units(f, S \union {x}))
  BY <1>1, SumIsUnits
<1> QED  BY <1>2, SumIsUnits, UnitsFinite, UnitsOfOne

\* and the same for the same values.
LEMMA SumSame ==
  ASSUME NEW S, IsFiniteSet(S), NEW f, NEW g, \A x \in S : f[x] \in Nat /\ g[x] = f[x]
  PROVE  SumOf(g, S) = SumOf(f, S)
<1>1. Units(g, S) = Units(f, S)
  BY DEF Units
<1> QED  BY <1>1, SumIsUnits

\* The values of a function on a finite set are finitely many.
LEMMA ImageFinite ==
  ASSUME NEW S, IsFiniteSet(S), NEW f
  PROVE  IsFiniteSet({f[x] : x \in S})
<1> DEFINE T == {f[x] : x \in S}
           g == [x \in S |-> f[x]]
<1>1. g \in Surjection(S, T)
  BY DEF Surjection
<1> QED  BY <1>1, FS_Surjection

\* Finitely many numbers have a least and a greatest.
LEMMA Bounded ==
  ASSUME NEW S \in SUBSET Int, IsFiniteSet(S), S # {}
  PROVE  \E low, high \in S : \A x \in S : low <= x /\ x <= high
<1> DEFINE Has(T) == T # {} => \E low, high \in T : \A x \in T : low <= x /\ x <= high
           P == {n \in Nat : \A T \in SUBSET S : Cardinality(T) = n => Has(T)}
<1>1. 0 \in P
  BY FS_EmptySet, FS_Subset
<1>2. ASSUME NEW n \in Nat, n \in P
      PROVE  n + 1 \in P
  <2>1. SUFFICES ASSUME NEW T \in SUBSET S, Cardinality(T) = n + 1
                 PROVE  Has(T)
    OBVIOUS
  <2>2. IsFiniteSet(T)
    BY FS_Subset
  <2>3. PICK x \in T : TRUE
    <3>1. Cardinality(T) # 0
      BY <2>1
    <3> QED  BY <3>1, FS_EmptySet
  <2> DEFINE U == T \ {x}
  <2>4. Cardinality(U) = n /\ U \in SUBSET S /\ T = U \union {x} /\ x \in Int
    <3>1. Cardinality(U) = Cardinality(T) - 1
      BY <2>2, <2>3, FS_RemoveElement
    <3> QED  BY <2>1, <2>3, <3>1
  <2>5. Has(U)
    BY <1>2, <2>4
  <2> HIDE DEF U
  <2>6. CASE U = {}
    BY <2>4, <2>6
  <2>7. CASE U # {}
    <3>1. PICK low \in U, high \in U : \A y \in U : low <= y /\ y <= high
      BY <2>5, <2>7
    <3>2. low \in Int /\ high \in Int /\ \A y \in U : y \in Int
      BY <2>4
    <3>3. CASE x < low
      <4>1. \A y \in T : x <= y /\ y <= high
        BY <2>4, <3>1, <3>2, <3>3
      <4> QED  BY <2>4, <4>1
    <3>4. CASE x > high
      <4>1. \A y \in T : low <= y /\ y <= x
        BY <2>4, <3>1, <3>2, <3>4
      <4> QED  BY <2>4, <4>1
    <3>5. CASE ~(x < low) /\ ~(x > high)
      <4>1. \A y \in T : low <= y /\ y <= high
        BY <2>4, <3>1, <3>2, <3>5
      <4> QED  BY <2>4, <4>1
    <3> QED  BY <3>3, <3>4, <3>5
  <2> QED  BY <2>6, <2>7
<1>3. Nat \subseteq P
  <2> HIDE DEF P
  <2> QED  BY <1>1, <1>2, Induct
<1>4. Cardinality(S) \in Nat
  BY FS_CardinalityType
<1>5. Has(S)
  BY <1>3, <1>4
<1> QED  BY <1>5

\* Min and Max are those two.
LEMMA MinMax ==
  ASSUME NEW S \in SUBSET Int, IsFiniteSet(S), S # {}
  PROVE  /\ Min(S) \in S /\ \A x \in S : Min(S) <= x
         /\ Max(S) \in S /\ \A x \in S : x <= Max(S)
<1>1. (\E x \in S : \A y \in S : x =< y) /\ (\E x \in S : \A y \in S : x >= y)
  BY Bounded
<1> QED  BY <1>1 DEF Min, Max

\* And nothing else is.
LEMMA MinMaxIs ==
  ASSUME NEW S \in SUBSET Int, NEW m \in S
  PROVE  /\ (\A x \in S : m <= x) => Min(S) = m
         /\ (\A x \in S : x <= m) => Max(S) = m
<1>1. ASSUME \A x \in S : m <= x
      PROVE  Min(S) = m
  <2>1. Min(S) \in S /\ \A y \in S : Min(S) =< y
    BY <1>1 DEF Min
  <2>2. Min(S) \in Int /\ m \in Int /\ Min(S) =< m /\ m <= Min(S)
    BY <1>1, <2>1
  <2> QED  BY <2>2
<1>2. ASSUME \A x \in S : x <= m
      PROVE  Max(S) = m
  <2>1. Max(S) \in S /\ \A y \in S : Max(S) >= y
    BY <1>2 DEF Max
  <2>2. Max(S) \in Int /\ m \in Int /\ Max(S) >= m /\ m >= Max(S)
    BY <1>2, <2>1
  <2> QED  BY <2>2
<1> QED  BY <1>1, <1>2

\* The lesser of two numbers.
LEMMA MinOfTwo ==
  ASSUME NEW a \in Int, NEW b \in Int
  PROVE  Min({a, b}) = IF a <= b THEN a ELSE b
<1>1. CASE a <= b
  BY <1>1, MinMaxIs
<1>2. CASE ~(a <= b)
  <2>1. \A x \in {a, b} : b <= x
    BY <1>2
  <2> QED  BY <1>2, <2>1, MinMaxIs
<1> QED  BY <1>1, <1>2

\* ahead gives every key those that come before it: a strict total order.
IsOrder(keys, ahead) ==
  /\ ahead \in [keys -> SUBSET keys]
  /\ \A k \in keys : k \notin ahead[k]
  /\ \A j, k, l \in keys : j \in ahead[k] /\ k \in ahead[l] => j \in ahead[l]
  /\ \A j, k \in keys : j # k => j \in ahead[k] \/ k \in ahead[j]

\* The keys that fewer than limit others come before.
AreFirst(first, keys, ahead, limit) == first = {k \in keys : Cardinality(ahead[k]) < limit}

\* As many keys come first as the limit lets, and every other key comes after
\* all of them.
LEMMA FirstOnes ==
  ASSUME NEW keys, IsFiniteSet(keys), NEW limit \in Nat, NEW ahead, IsOrder(keys, ahead),
         NEW first, AreFirst(first, keys, ahead, limit)
  PROVE  /\ IsFiniteSet(first)
         /\ Cardinality(first) = IF Cardinality(keys) <= limit THEN Cardinality(keys) ELSE limit
         /\ Cardinality(keys) <= limit => first = keys
         /\ \A k \in keys \ first : first \subseteq ahead[k] /\ Cardinality(first) = limit
<1> USE DEF IsOrder, AreFirst
<1> DEFINE rank == [k \in keys |-> Cardinality(ahead[k])]
           n == Cardinality(keys)
<1>1. n \in Nat /\ IsFiniteSet(0 .. n - 1) /\ Cardinality(0 .. n - 1) = n
  <2>1. n \in Nat
    BY FS_CardinalityType
  <2> QED  BY <2>1, FS_Interval
<1>2. ASSUME NEW k \in keys
      PROVE  IsFiniteSet(ahead[k]) /\ rank[k] = Cardinality(ahead[k]) /\ rank[k] \in 0 .. n - 1
  <2>1. ahead[k] \in SUBSET (keys \ {k})
    OBVIOUS
  <2>2. IsFiniteSet(keys \ {k}) /\ Cardinality(keys \ {k}) = n - 1
    BY FS_RemoveElement
  <2>3. IsFiniteSet(ahead[k]) /\ Cardinality(ahead[k]) <= n - 1
    BY <2>1, <2>2, FS_Subset
  <2>4. Cardinality(ahead[k]) \in Nat
    BY <2>3, FS_CardinalityType
  <2> QED  BY <1>1, <2>3, <2>4
<1>3. ASSUME NEW j \in keys, NEW k \in keys, j \in ahead[k]
      PROVE  rank[j] < rank[k]
  <2>1. ahead[j] \in SUBSET ahead[k] /\ ahead[j] # ahead[k]
    BY <1>3
  <2>2. Cardinality(ahead[j]) <= Cardinality(ahead[k]) /\ Cardinality(ahead[j]) # Cardinality(ahead[k])
    BY <1>2, <2>1, FS_Subset
  <2>3. rank[j] <= rank[k] /\ rank[j] # rank[k] /\ rank[j] \in Int /\ rank[k] \in Int
    <3>1. rank[j] \in 0 .. n - 1 /\ rank[k] \in 0 .. n - 1
      BY <1>2
    <3> QED  BY <1>1, <2>2, <3>1
  <2> HIDE DEF rank
  <2> QED  BY <2>3
<1> HIDE DEF rank
<1>4. rank \in Injection(keys, 0 .. n - 1)
  <2>1. rank \in [keys -> 0 .. n - 1]
    BY <1>2 DEF rank
  <2>2. ASSUME NEW j \in keys, NEW k \in keys, rank[j] = rank[k]
        PROVE  j = k
    <3>1. rank[j] \in Int /\ rank[k] \in Int
      BY <1>1, <2>1
    <3> QED  BY <1>3, <2>2, <3>1
  <2> QED  BY <2>1, <2>2 DEF Injection, IsInjective
<1>5. rank \in Surjection(keys, 0 .. n - 1)
  BY <1>1, <1>4, FS_Injection
<1> DEFINE m == IF n <= limit THEN n ELSE limit
           places == [k \in first |-> rank[k]]
<1>6. first = {k \in keys : rank[k] < limit}
  BY <1>2
<1>7. m \in Nat /\ IsFiniteSet(0 .. m - 1) /\ Cardinality(0 .. m - 1) = m
  <2>1. m \in Nat
    BY <1>1
  <2> HIDE DEF m
  <2> QED  BY <2>1, FS_Interval
<1>8. places \in Bijection(first, 0 .. m - 1)
  <2>1. \A k \in first : rank[k] \in 0 .. m - 1
    <3>1. SUFFICES ASSUME NEW k \in first
                   PROVE  rank[k] \in 0 .. m - 1
      OBVIOUS
    <3>2. k \in keys /\ rank[k] < limit
      BY <1>6
    <3>3. rank[k] \in 0 .. n - 1
      BY <1>2, <3>2
    <3> QED  BY <1>1, <3>2, <3>3
  <2>2. \A i \in 0 .. m - 1 : \E k \in first : rank[k] = i
    <3>1. SUFFICES ASSUME NEW i \in 0 .. m - 1
                   PROVE  \E k \in first : rank[k] = i
      OBVIOUS
    <3>2. i \in 0 .. n - 1 /\ i < limit
      BY <1>1
    <3>3. PICK k \in keys : rank[k] = i
      BY <1>5, <3>2 DEF Surjection
    <3> QED  BY <1>6, <3>2, <3>3
  <2>3. \A j, k \in first : rank[j] = rank[k] => j = k
    BY <1>4, <1>6 DEF Injection, IsInjective
  <2> HIDE DEF m
  <2>4. places \in [first -> 0 .. m - 1]
    BY <2>1
  <2>5. \A j, k \in first : places[j] = places[k] => j = k
    BY <2>3
  <2>6. \A i \in 0 .. m - 1 : \E k \in first : places[k] = i
    BY <2>2
  <2> HIDE DEF places
  <2> QED  BY <2>4, <2>5, <2>6 DEF Bijection, Injection, Surjection, IsInjective
<1>9. IsFiniteSet(first) /\ Cardinality(first) = m
  <2>1. first \in SUBSET keys
    OBVIOUS
  <2>2. IsFiniteSet(first)
    BY <2>1, FS_Subset
  <2>3. ExistsBijection(first, 0 .. m - 1)
    BY <1>8 DEF ExistsBijection
  <2> HIDE DEF m
  <2>4. Cardinality(0 .. m - 1) = Cardinality(first)
    BY <2>2, <2>3, FS_Bijection
  <2> QED  BY <1>7, <2>2, <2>4
<1>10. n <= limit => first = keys
  <2>1. SUFFICES ASSUME n <= limit
                 PROVE  \A k \in keys : rank[k] < limit
    BY <1>6
  <2>2. \A k \in keys : rank[k] \in 0 .. n - 1
    BY <1>2
  <2> HIDE DEF n
  <2> QED  BY <1>1, <2>1, <2>2
<1>11. ASSUME NEW k \in keys \ first
       PROVE  first \subseteq ahead[k] /\ Cardinality(first) = limit
  <2>1. rank[k] \in Int /\ ~(rank[k] < limit)
    <3>1. rank[k] \in 0 .. n - 1
      BY <1>2
    <3> QED  BY <1>1, <1>6, <3>1
  <2>2. ASSUME NEW j \in first
        PROVE  j \in ahead[k]
    <3>1. j \in keys /\ rank[j] < limit /\ j # k
      BY <1>6
    <3>2. rank[j] \in Int
      <4>1. rank[j] \in 0 .. n - 1
        BY <1>2, <3>1
      <4> QED  BY <1>1, <4>1
    <3>3. k \notin ahead[j]
      BY <1>3, <2>1, <3>1, <3>2
    <3> QED  BY <3>1, <3>3
  <2>3. ~(n <= limit)
    BY <1>10
  <2> QED  BY <1>9, <2>2, <2>3
<1> QED  BY <1>9, <1>10, <1>11

-----------------------------------------------------------------------------
(* Accumulators: what each kind of field says of all the values so far.     *)

\* What an entry can be.
EntryType ==
  [sourceIp : Nat \union {None}, timestamp : Int \union {None}, method : Nat \union {None},
   path : Nat \union {None}, query : Queries \union {None}, status : Nat \union {None},
   responseBytes : Nat \union {None}, referrer : Referrers \union {None, Bad},
   userAgent : Nat \union {None}]

\* A line of the log is normalized to an entry.
LEMMA NormalizedType ==
  ASSUME NEW line \in Lines
  PROVE  Normalized(line) \in EntryType
<1>1. /\ line.sourceIp \in Nat \union {None} /\ line.time \in Int \union {None, Bad}
      /\ line.request \in RequestLines \union {None, Bad} /\ line.status \in Nat \union {None, Bad}
      /\ line.bytes \in Nat \union {None, Bad} /\ line.referrer \in Referrers \union {None, Bad}
      /\ line.userAgent \in Nat \union {None}
  BY LinesAssumption
<1>2. /\ Converted(line.time) \in Int \union {None}
      /\ Converted(line.status) \in Nat \union {None}
      /\ Converted(line.bytes) \in Nat \union {None}
  BY <1>1 DEF Converted
<1>3. /\ RequestPart(line.request, "method") \in Nat \union {None}
      /\ RequestPart(line.request, "path") \in Nat \union {None}
      /\ RequestPart(line.request, "query") \in Queries \union {None}
  BY <1>1 DEF RequestPart, RequestLines
<1>4. /\ Captured(line, "referrer") \in Referrers \union {None, Bad}
      /\ Captured(line, "userAgent") \in Nat \union {None}
  BY <1>1 DEF Captured
<1> QED  BY <1>1, <1>2, <1>3, <1>4 DEF Normalized, EntryType

\* The values of the lines so far and that of one more line.
With(values, n, v) == [i \in DOMAIN values \union {n} |-> IF i = n THEN v ELSE values[i]]

\* One more value tallied: the copies of every value are still their count.
LEMMA TallyGrows ==
  ASSUME NEW values, IsFiniteSet(DOMAIN values), NEW n, n \notin DOMAIN values,
         NEW v, NEW tally, IsTallyOf(tally, values)
  PROVE  IsTallyOf(Tallied(tally, v), With(values, n, v))
<1> DEFINE more == With(values, n, v)
           at(w) == {i \in DOMAIN values : values[i] = w}
           at2(w) == {i \in DOMAIN more : more[i] = w}
<1>1. /\ BagToSet(tally) = ToSet(values) \ {None}
      /\ \A w \in BagToSet(tally) : Copies(w, tally) = Cardinality(at(w))
  BY DEF IsTallyOf
<1>2. ToSet(more) = ToSet(values) \union {v} /\ DOMAIN more = DOMAIN values \union {n}
      /\ more[n] = v /\ \A i \in DOMAIN values : more[i] = values[i]
  BY DEF With, ToSet
<1> HIDE DEF more
<1>3. ASSUME NEW w, w # v
      PROVE  at2(w) = at(w)
  BY <1>2, <1>3
<1>4. at2(v) = at(v) \union {n} /\ n \notin at(v)
  BY <1>2
<1>5. IsFiniteSet(at(v)) /\ Cardinality(at(v)) \in Nat
  <2>1. at(v) \in SUBSET DOMAIN values
    OBVIOUS
  <2> QED  BY <2>1, FS_Subset, FS_CardinalityType
<1>6. Cardinality(at2(v)) = Cardinality(at(v)) + 1
  <2> HIDE DEF at, at2
  <2> QED  BY <1>4, <1>5, FS_AddElement
<1>7. v \notin ToSet(values) => Cardinality(at(v)) = 0
  <2>1. v \notin ToSet(values) => at(v) = {}
    BY DEF ToSet
  <2> QED  BY <2>1, FS_EmptySet
<1> HIDE DEF at, at2
<1>8. CASE v = None
  <2>1. Tallied(tally, v) = tally
    BY <1>8 DEF Tallied
  <2>2. \A w \in BagToSet(tally) : Copies(w, tally) = Cardinality(at2(w))
    BY <1>1, <1>3, <1>8
  <2>3. BagToSet(tally) = ToSet(more) \ {None}
    BY <1>1, <1>2, <1>8
  <2> QED  BY <2>1, <2>2, <2>3 DEF IsTallyOf, more, at2
<1>9. CASE v # None
  <2> DEFINE after == Tallied(tally, v)
  <2>1. /\ BagToSet(after) = BagToSet(tally) \union {v}
        /\ \A w \in BagToSet(tally) : w # v => after[w] = tally[w] + 0
        /\ after[v] = Copies(v, tally) + 1
    BY <1>9 DEF Tallied, BagToSet, SetToBag, (+), Copies, BagIn
  <2>2. BagToSet(after) = ToSet(more) \ {None}
    BY <1>1, <1>2, <1>9, <2>1
  <2>3. Copies(v, after) = Cardinality(at2(v))
    <3>1. Copies(v, tally) = Cardinality(at(v))
      BY <1>1, <1>7, <1>9 DEF Copies, BagIn
    <3>2. Copies(v, after) = after[v]
      BY <2>1 DEF Copies, BagIn
    <3> QED  BY <1>6, <2>1, <3>1, <3>2
  <2>4. ASSUME NEW w \in BagToSet(tally), w # v
        PROVE  Copies(w, after) = Cardinality(at2(w))
    <3>1. Copies(w, tally) = tally[w] /\ Copies(w, after) = after[w]
      BY <2>1 DEF Copies, BagIn
    <3>2. Copies(w, tally) = Cardinality(at(w)) /\ at2(w) = at(w)
      BY <1>1, <1>3, <2>4
    <3>3. Cardinality(at(w)) \in Nat
      <4>1. at(w) \in SUBSET DOMAIN values
        BY DEF at
      <4> QED  BY <4>1, FS_Subset, FS_CardinalityType
    <3>4. after[w] = Cardinality(at(w)) + 0
      BY <2>1, <2>4, <3>1, <3>2
    <3>5. after[w] = Cardinality(at(w))
      BY <3>3, <3>4
    <3> QED  BY <3>1, <3>2, <3>5
  <2> HIDE DEF after
  <2>5. \A w \in BagToSet(after) : Copies(w, after) = Cardinality(at2(w))
    BY <2>1, <2>3, <2>4
  <2> QED  BY <2>2, <2>5 DEF IsTallyOf, more, at2, after
<1> QED  BY <1>8, <1>9

\* One more time seen: the first and the last are still those of all.
LEMMA SpanGrows ==
  ASSUME NEW values, IsFiniteSet(DOMAIN values), NEW n, n \notin DOMAIN values,
         \A i \in DOMAIN values : values[i] \in Int \union {None},
         NEW v \in Int \union {None}, NEW seen, IsSpanOf(seen, values)
  PROVE  IsSpanOf(SawAt(seen, v), With(values, n, v))
<1> DEFINE came == ToSet(values) \ {None}
           came2 == ToSet(With(values, n, v)) \ {None}
<1>1. came \in SUBSET Int /\ IsFiniteSet(came)
  <2>1. came \in SUBSET Int
    BY DEF ToSet
  <2>2. IsFiniteSet(ToSet(values))
    BY ImageFinite DEF ToSet
  <2> QED  BY <2>1, <2>2, FS_Subset
<1>2. came2 = (came \union {v}) \ {None}
  BY DEF With, ToSet
<1>3. seen = IF came = {} THEN NotSeen ELSE [first |-> Min(came), last |-> Max(came)]
  BY DEF IsSpanOf
<1> HIDE DEF came
<1>4. SUFFICES SawAt(seen, v) = IF came2 = {} THEN NotSeen ELSE [first |-> Min(came2), last |-> Max(came2)]
  BY DEF IsSpanOf
<1> HIDE DEF came2
<1>5. CASE v = None
  <2>1. came2 = came
    BY <1>1, <1>2, <1>5, NoneIsNoNumber
  <2> QED  BY <1>3, <1>5, <2>1 DEF SawAt
<1>6. CASE v # None
  <2>1. came2 = came \union {v} /\ v \in Int /\ came2 \in SUBSET Int
    BY <1>1, <1>2, <1>6, NoneIsNoNumber
  <2>2. CASE came = {}
    <3>1. came2 = {v} /\ Min(came2) = v /\ Max(came2) = v
      BY <2>1, <2>2, MinMaxIs
    <3>2. SawAt(seen, v) = [first |-> v, last |-> v]
      BY <1>3, <1>6, <2>2 DEF SawAt, NotSeen, Lower, Higher
    <3> QED  BY <3>1, <3>2
  <2>3. CASE came # {}
    <3> DEFINE low == Min(came)
               high == Max(came)
    <3>1. low \in came /\ high \in came /\ \A x \in came : low <= x /\ x <= high
      BY <1>1, <2>3, MinMax
    <3>2. seen.first = low /\ seen.last = high
      BY <1>3, <2>3
    <3> HIDE DEF low, high
    <3>3. low \in Int /\ high \in Int /\ low # None /\ high # None /\ low \in came2 /\ high \in came2
      BY <1>1, <2>1, <3>1, NoneIsNoNumber
    <3>4. Min(came2) = IF v < low THEN v ELSE low
      <4>1. v < low => \A x \in came2 : v <= x
        BY <1>1, <2>1, <3>1, <3>3
      <4>2. ~(v < low) => \A x \in came2 : low <= x
        BY <1>1, <2>1, <3>1, <3>3
      <4> QED  BY <2>1, <3>3, <4>1, <4>2, MinMaxIs
    <3>5. Max(came2) = IF v > high THEN v ELSE high
      <4>1. v > high => \A x \in came2 : x <= v
        BY <1>1, <2>1, <3>1, <3>3
      <4>2. ~(v > high) => \A x \in came2 : x <= high
        BY <1>1, <2>1, <3>1, <3>3
      <4> QED  BY <2>1, <3>3, <4>1, <4>2, MinMaxIs
    <3>6. SawAt(seen, v) = [first |-> IF v < low THEN v ELSE low, last |-> IF v > high THEN v ELSE high]
      BY <1>6, <3>2, <3>3 DEF SawAt, Lower, Higher
    <3> QED  BY <2>1, <3>4, <3>5, <3>6
  <2> QED  BY <2>2, <2>3
<1> QED  BY <1>5, <1>6

\* One more size: count, total, least and greatest are still those of all.
LEMMA SummaryGrows ==
  ASSUME NEW values, IsFiniteSet(DOMAIN values), NEW n, n \notin DOMAIN values,
         \A i \in DOMAIN values : values[i] \in Nat \union {None},
         NEW v \in Nat \union {None}, NEW responses, IsSummaryOf(responses, values)
  PROVE  IsSummaryOf(AddResponse(responses, v), With(values, n, v))
<1> DEFINE more == With(values, n, v)
           sized == {i \in DOMAIN values : values[i] # None}
           came == {values[i] : i \in sized}
           sized2 == {i \in DOMAIN more : more[i] # None}
           came2 == {more[i] : i \in sized2}
           Summary(count, total, low, high) ==
             [count |-> count, total |-> total, min |-> low, max |-> high]
<1>1. /\ DOMAIN more = DOMAIN values \union {n} /\ more[n] = v
      /\ \A i \in DOMAIN values : more[i] = values[i]
  BY DEF With
<1>2. responses = IF sized = {} THEN NoResponses
                  ELSE Summary(Cardinality(sized), SumOf(values, sized), Min(came), Max(came))
  BY DEF IsSummaryOf, SumOf
<1>3. SUFFICES AddResponse(responses, v)
                 = IF sized2 = {} THEN NoResponses
                   ELSE Summary(Cardinality(sized2), SumOf(more, sized2), Min(came2), Max(came2))
  BY DEF IsSummaryOf, SumOf
<1>4. IsFiniteSet(sized) /\ Cardinality(sized) \in Nat
  <2>1. sized \in SUBSET DOMAIN values
    OBVIOUS
  <2> QED  BY <2>1, FS_Subset, FS_CardinalityType
<1>5. came \in SUBSET Int /\ IsFiniteSet(came)
  <2>1. came \in SUBSET Int
    OBVIOUS
  <2> HIDE DEF sized
  <2> QED  BY <1>4, <2>1, ImageFinite
<1>6. n \notin sized /\ \A i \in sized : values[i] \in Nat /\ more[i] = values[i] /\ more[i] \in Nat
  BY <1>1
<1>7. CASE v = None
  <2>1. sized2 = sized
    BY <1>1, <1>7
  <2>2. came2 = came
    <3> HIDE DEF sized, sized2, more
    <3> QED  BY <1>6, <2>1
  <2>3. SumOf(more, sized) = SumOf(values, sized)
    <3> HIDE DEF sized, more
    <3> QED  BY <1>4, <1>6, SumSame
  <2>4. AddResponse(responses, v) = responses
    BY <1>7 DEF AddResponse
  <2> HIDE DEF more, sized, sized2, came, came2
  <2> QED  BY <1>2, <2>1, <2>2, <2>3, <2>4
<1>8. CASE v # None
  <2>1. sized2 = sized \union {n} /\ v \in Nat
    BY <1>1, <1>8
  <2>2. came2 = came \union {v}
    <3> HIDE DEF sized, sized2, more
    <3> QED  BY <1>1, <1>6, <2>1
  <2>3. SumOf(more, sized2) = SumOf(values, sized) + v
    <3>1. SumOf(more, sized) = SumOf(values, sized)
      <4> HIDE DEF sized, more
      <4> QED  BY <1>4, <1>6, SumSame
    <3>2. \A i \in sized \union {n} : more[i] \in Nat
      BY <1>1, <1>6, <2>1
    <3>3. SumOf(more, sized \union {n}) = SumOf(more, sized) + more[n]
      <4> HIDE DEF sized, more
      <4> QED  BY <1>4, <1>6, <3>2, SumAdd
    <3> HIDE DEF sized, sized2, more
    <3> QED  BY <1>1, <2>1, <3>1, <3>3
  <2>4. Cardinality(sized2) = Cardinality(sized) + 1
    <3> HIDE DEF sized, sized2
    <3> QED  BY <1>4, <1>6, <2>1, FS_AddElement
  <2>5. came2 \in SUBSET Int /\ sized2 # {}
    <3> HIDE DEF came, sized2, sized, came2
    <3> QED  BY <1>5, <2>1, <2>2
  <2>6. CASE sized = {}
    <3>1. came2 = {v} /\ Min(came2) = v /\ Max(came2) = v
      <4>1. came2 = {v}
        BY <2>2, <2>6
      <4> HIDE DEF came2
      <4> QED  BY <2>1, <4>1, MinMaxIs
    <3>2. Cardinality(sized) = 0 /\ SumOf(values, sized) = 0
      BY <2>6, FS_EmptySet, SumEmpty
    <3> HIDE DEF came, sized2, sized, came2, more
    <3>3. AddResponse(responses, v) = Summary(1, v, v, v)
      BY <1>2, <1>8, <2>1, <2>6 DEF AddResponse, NoResponses, Lower, Higher
    <3>4. Cardinality(sized2) = 1 /\ SumOf(more, sized2) = v
      BY <2>1, <2>3, <2>4, <3>2
    <3> QED  BY <2>5, <3>1, <3>3, <3>4
  <2>7. CASE sized # {}
    <3>1. came # {}
      BY <2>7
    <3> HIDE DEF came, sized2, sized, came2, more
    <3> DEFINE low == Min(came)
               high == Max(came)
    <3>2. low \in came /\ high \in came /\ \A x \in came : low <= x /\ x <= high
      BY <1>5, <3>1, MinMax
    <3>3. responses = Summary(Cardinality(sized), SumOf(values, sized), low, high)
      BY <1>2, <2>7
    <3> HIDE DEF low, high
    <3>4. low \in Int /\ high \in Int /\ low # None /\ high # None /\ low \in came2 /\ high \in came2
      BY <1>5, <2>2, <3>2, NoneIsNoNumber
    <3>5. Min(came2) = IF v < low THEN v ELSE low
      <4>1. v < low => \A x \in came2 : v <= x
        BY <1>5, <2>1, <2>2, <3>2, <3>4
      <4>2. ~(v < low) => \A x \in came2 : low <= x
        BY <1>5, <2>1, <2>2, <3>2, <3>4
      <4> QED  BY <2>1, <2>2, <2>5, <3>4, <4>1, <4>2, MinMaxIs
    <3>6. Max(came2) = IF v > high THEN v ELSE high
      <4>1. v > high => \A x \in came2 : x <= v
        BY <1>5, <2>1, <2>2, <3>2, <3>4
      <4>2. ~(v > high) => \A x \in came2 : x <= high
        BY <1>5, <2>1, <2>2, <3>2, <3>4
      <4> QED  BY <2>1, <2>2, <2>5, <3>4, <4>1, <4>2, MinMaxIs
    <3>7. AddResponse(responses, v)
            = Summary(Cardinality(sized) + 1, SumOf(values, sized) + v,
                      IF v < low THEN v ELSE low, IF v > high THEN v ELSE high)
      BY <1>8, <3>3, <3>4 DEF AddResponse, Lower, Higher
    <3> HIDE DEF Summary
    <3> QED  BY <2>3, <2>4, <2>5, <3>5, <3>6, <3>7
  <2> QED  BY <2>6, <2>7
<1> QED  BY <1>7, <1>8

\* The values of a sample that came no later than v.
NoLater(values, v) ==
  {w \in ToSet(values) \ {None} : \E j \in DOMAIN values :
     values[j] = w /\ \A i \in DOMAIN values : values[i] = v => j <= i}

\* One more value sampled: the sample still holds the first distinct values, as
\* many as its limit lets, in the order in which they came.
LEMMA SampleGrows ==
  ASSUME NEW values, DOMAIN values \in SUBSET Nat, IsFiniteSet(DOMAIN values),
         NEW n \in Nat, \A i \in DOMAIN values : i < n,
         NEW v, NEW limit \in Nat, NEW sample, IsSampleOf(sample, values, limit)
  PROVE  IsSampleOf(Sampled(sample, v, limit), With(values, n, v), limit)
<1> DEFINE more == With(values, n, v)
           came == ToSet(values) \ {None}
           came2 == ToSet(more) \ {None}
           after == Sampled(sample, v, limit)
<1>1. /\ DOMAIN more = DOMAIN values \union {n} /\ more[n] = v
      /\ \A i \in DOMAIN values : more[i] = values[i]
      /\ n \notin DOMAIN values
  BY DEF With
<1>2. came2 = (came \union {v}) \ {None}
  <2> HIDE DEF more
  <2>1. ToSet(more) = ToSet(values) \union {v}
    BY <1>1 DEF ToSet
  <2> QED  BY <2>1
<1>3. IsFiniteSet(came) /\ Cardinality(came) \in Nat
  <2>1. IsFiniteSet(ToSet(values))
    BY ImageFinite DEF ToSet
  <2> QED  BY <2>1, FS_Subset, FS_CardinalityType
<1>4. \A w \in came : \E j \in DOMAIN values : values[j] = w
  BY DEF ToSet
<1>5. /\ sample \in Seq(came)
      /\ Len(sample) = Min({limit, Cardinality(came)})
      /\ \A i \in DOMAIN sample : Cardinality(NoLater(values, sample[i])) = i
  BY DEF IsSampleOf, NoLater
<1>6. Len(sample) = IF limit <= Cardinality(came) THEN limit ELSE Cardinality(came)
  <2>1. Min({limit, Cardinality(came)})
          = IF limit <= Cardinality(came) THEN limit ELSE Cardinality(came)
    <3> HIDE DEF came
    <3> QED  BY <1>3, MinOfTwo
  <2> QED  BY <1>5, <2>1
<1>7. SUFFICES /\ after \in Seq(came2)
               /\ Len(after) = Min({limit, Cardinality(came2)})
               /\ \A i \in DOMAIN after : Cardinality(NoLater(more, after[i])) = i
  BY DEF IsSampleOf, NoLater
<1>8. ASSUME NEW w \in came
      PROVE  NoLater(more, w) = NoLater(values, w)
  <2>1. PICK k \in DOMAIN values : values[k] = w
    BY <1>4
  <2>2. ASSUME NEW u \in NoLater(more, w)
        PROVE  u \in NoLater(values, w)
    <3>1. PICK j \in DOMAIN more : more[j] = u /\ \A i \in DOMAIN more : more[i] = w => j <= i
      BY <2>2 DEF NoLater
    <3>2. j <= k
      BY <1>1, <2>1, <3>1
    <3>3. j \in DOMAIN values
      BY <1>1, <3>2
    <3>4. u \in came
      BY <1>1, <2>2, <3>1, <3>3 DEF NoLater, ToSet
    <3> QED  BY <1>1, <3>1, <3>3, <3>4 DEF NoLater
  <2>3. ASSUME NEW u \in NoLater(values, w)
        PROVE  u \in NoLater(more, w)
    <3>1. PICK j \in DOMAIN values : values[j] = u /\ \A i \in DOMAIN values : values[i] = w => j <= i
      BY <2>3 DEF NoLater
    <3>2. u \in came2
      BY <1>2, <2>3 DEF NoLater
    <3>3. j \in DOMAIN more /\ more[j] = u /\ \A i \in DOMAIN more : more[i] = w => j <= i
      BY <1>1, <3>1
    <3> HIDE DEF more
    <3> QED  BY <3>2, <3>3 DEF NoLater
  <2> QED  BY <2>2, <2>3
<1> HIDE DEF more, came, came2
<1>9. \A i \in DOMAIN sample : sample[i] \in came
  BY <1>5
<1>10. ASSUME Len(sample) < limit, NEW w \in came
       PROVE  Contains(sample, w)
  <2> DEFINE places == 1 .. Len(sample)
  <2>1. Len(sample) \in Nat /\ Len(sample) = Cardinality(came)
    BY <1>3, <1>5, <1>6, <1>10
  <2>2. IsFiniteSet(places) /\ Cardinality(places) = Cardinality(came)
    BY <2>1, FS_Interval
  <2>3. sample \in Injection(places, came)
    <3>1. sample \in [places -> came] /\ DOMAIN sample = places
      BY <1>5
    <3>2. ASSUME NEW i \in places, NEW j \in places, sample[i] = sample[j]
          PROVE  i = j
      <4>1. Cardinality(NoLater(values, sample[i])) = i /\ Cardinality(NoLater(values, sample[j])) = j
        BY <1>5, <3>1
      <4> QED  BY <3>2, <4>1
    <3> HIDE DEF places
    <3> QED  BY <3>1, <3>2 DEF Injection, IsInjective
  <2> HIDE DEF places
  <2>4. sample \in Surjection(places, came)
    BY <1>3, <2>2, <2>3, FS_Injection
  <2>5. \E i \in places : sample[i] = w
    BY <1>10, <2>4 DEF Surjection
  <2> QED  BY <2>5 DEF Contains, places
<1>11. CASE v = None \/ v \in came
  <2>1. came2 = came
    BY <1>2, <1>11 DEF came
  <2>2. after = sample
    <3>1. CASE v = None
      BY <3>1 DEF Sampled
    <3>2. CASE v \in came
      <4>1. Len(sample) >= limit \/ Contains(sample, v)
        <5>1. Len(sample) \in Nat
          BY <1>5
        <5> QED  BY <1>10, <3>2, <5>1
      <4> QED  BY <4>1 DEF Sampled
    <3> QED  BY <1>11, <3>1, <3>2
  <2> HIDE DEF after
  <2> QED  BY <1>5, <1>8, <1>9, <2>1, <2>2
<1>12. CASE v # None /\ v \notin came
  <2>1. came2 = came \union {v} /\ came \in SUBSET came2
    BY <1>2, <1>12 DEF came
  <2>2. Cardinality(came2) = Cardinality(came) + 1
    BY <1>3, <1>12, <2>1, FS_AddElement
  <2>3. Len(sample) \in Nat /\ ~Contains(sample, v)
    <3>1. Len(sample) \in Nat /\ DOMAIN sample = 1 .. Len(sample)
      BY <1>5
    <3>2. \A i \in 1 .. Len(sample) : sample[i] # v
      BY <1>9, <1>12, <3>1
    <3> QED  BY <3>1, <3>2 DEF Contains
  <2>4. Min({limit, Cardinality(came2)})
          = IF limit <= Cardinality(came) + 1 THEN limit ELSE Cardinality(came) + 1
    BY <1>3, <2>2, MinOfTwo
  <2>5. CASE Len(sample) >= limit
    <3>1. after = sample
      BY <2>5 DEF Sampled
    <3>2. Len(sample) = limit /\ limit <= Cardinality(came) + 1
      BY <1>3, <1>6, <2>3, <2>5
    <3>3. sample \in Seq(came2)
      BY <1>5, <2>1
    <3> HIDE DEF after
    <3> QED  BY <1>5, <1>8, <1>9, <2>4, <3>1, <3>2, <3>3
  <2>6. CASE ~(Len(sample) >= limit)
    <3>1. after = Append(sample, v)
      BY <1>12, <2>3, <2>6 DEF Sampled
    <3>2. Len(sample) = Cardinality(came) /\ Cardinality(came) + 1 <= limit
      BY <1>3, <1>6, <2>3, <2>6
    <3>3. sample \in Seq(came2) /\ v \in came2
      BY <1>5, <2>1
    <3>4. /\ Append(sample, v) \in Seq(came2)
          /\ Len(Append(sample, v)) = Cardinality(came) + 1
          /\ \A i \in 1 .. Len(sample) : Append(sample, v)[i] = sample[i]
          /\ Append(sample, v)[Len(sample) + 1] = v
      BY <3>2, <3>3
    <3>5. NoLater(more, v) = came2
      <4>1. \A i \in DOMAIN more : more[i] = v => i = n
        <5>1. \A i \in DOMAIN values : values[i] # v
          BY <1>12 DEF came, ToSet
        <5> QED  BY <1>1, <5>1
      <4>2. \A w \in came2 : \E j \in DOMAIN more : more[j] = w /\ j <= n
        <5>1. SUFFICES ASSUME NEW w \in came2
                       PROVE  \E j \in DOMAIN more : more[j] = w /\ j <= n
          OBVIOUS
        <5>2. CASE w = v
          BY <1>1, <5>2
        <5>3. CASE w # v
          <6>1. w \in came
            BY <2>1, <5>3
          <6>2. PICK j \in DOMAIN values : values[j] = w
            BY <1>4, <6>1
          <6> QED  BY <1>1, <6>2
        <5> QED  BY <5>2, <5>3
      <4> QED  BY <4>1, <4>2 DEF NoLater, came2
    <3>6. ASSUME NEW i \in DOMAIN Append(sample, v)
          PROVE  Cardinality(NoLater(more, Append(sample, v)[i])) = i
      <4>1. i \in 1 .. Len(sample) \/ i = Len(sample) + 1
        BY <2>3, <3>4
      <4>2. CASE i \in 1 .. Len(sample)
        <5>1. sample[i] \in came /\ i \in DOMAIN sample
          BY <1>5, <4>2
        <5> QED  BY <1>5, <1>8, <3>4, <4>2, <5>1
      <4>3. CASE i = Len(sample) + 1
        BY <2>2, <3>2, <3>4, <3>5, <4>3
      <4> QED  BY <4>1, <4>2, <4>3
    <3>7. Min({limit, Cardinality(came2)}) = Cardinality(came) + 1
      BY <1>3, <2>4, <3>2
    <3> HIDE DEF after
    <3> QED  BY <3>1, <3>4, <3>6, <3>7
  <2> QED  BY <2>5, <2>6
<1> QED  BY <1>11, <1>12

\* The fields of all views.
AllFields == {"requestCount", "responses", "seen"} \union Samples \union Tallies

\* Entries by the line they come from.
AreEntries(entries) ==
  /\ DOMAIN entries \in SUBSET Nat /\ IsFiniteSet(DOMAIN entries)
  /\ \A i \in DOMAIN entries : entries[i] \in EntryType

\* Which accumulator a field is.
LEMMA AddToField ==
  ASSUME NEW field, NEW old, NEW e, NEW limit
  PROVE  /\ field = "requestCount" => AddTo(field, old, e, limit) = old + 1
         /\ field \in Tallies => AddTo(field, old, e, limit) = Tallied(old, Noted(field, e))
         /\ field \in Samples => AddTo(field, old, e, limit) = Sampled(old, Noted(field, e), limit)
         /\ field = "seen" => AddTo(field, old, e, limit) = SawAt(old, e.timestamp)
         /\ field = "responses" => AddTo(field, old, e, limit) = AddResponse(old, e.responseBytes)
BY DEF AddTo, WithValue, Tallies, Samples

\* A field is of one kind.
LEMMA FieldKinds ==
  ASSUME NEW field \in AllFields
  PROVE  \/ field = "requestCount" /\ field \notin Tallies \union Samples
         \/ field \in Tallies /\ field \notin Samples \union {"requestCount", "seen", "responses"}
         \/ field \in Samples /\ field \notin Tallies \union {"requestCount", "seen", "responses"}
         \/ field = "seen" /\ field \notin Tallies \union Samples
         \/ field = "responses" /\ field \notin Tallies \union Samples
BY DEF AllFields, Tallies, Samples

\* Whatever its kind, a field stays exact when an entry is added to it.
LEMMA FieldGrows ==
  ASSUME NEW entries, AreEntries(entries), NEW n \in Nat, \A i \in DOMAIN entries : i < n,
         NEW e \in EntryType, NEW limit \in Nat, NEW field \in AllFields, NEW kept,
         IsExact(field, kept, entries, limit)
  PROVE  IsExact(field, AddTo(field, kept, e, limit), With(entries, n, e), limit)
<1> DEFINE more == With(entries, n, e)
           noted == [i \in DOMAIN entries |-> Noted(field, entries[i])]
           part(name) == [i \in DOMAIN entries |-> entries[i][name]]
           after == AddTo(field, kept, e, limit)
<1>1. /\ DOMAIN entries \in SUBSET Nat /\ IsFiniteSet(DOMAIN entries)
      /\ \A i \in DOMAIN entries : entries[i] \in EntryType
      /\ n \notin DOMAIN entries
  BY DEF AreEntries
<1>2. /\ DOMAIN more = DOMAIN entries \union {n}
      /\ [i \in DOMAIN more |-> Noted(field, more[i])] = With(noted, n, Noted(field, e))
      /\ [i \in DOMAIN more |-> more[i]["timestamp"]] = With(part("timestamp"), n, e["timestamp"])
      /\ [i \in DOMAIN more |-> more[i]["responseBytes"]]
           = With(part("responseBytes"), n, e["responseBytes"])
  <2>1. DOMAIN more = DOMAIN entries \union {n}
    BY DEF With
  <2>2. [i \in DOMAIN more |-> Noted(field, more[i])] = With(noted, n, Noted(field, e))
    BY <1>1 DEF With
  <2>3. [i \in DOMAIN more |-> more[i]["timestamp"]] = With(part("timestamp"), n, e["timestamp"])
    BY <1>1 DEF With
  <2>4. [i \in DOMAIN more |-> more[i]["responseBytes"]]
           = With(part("responseBytes"), n, e["responseBytes"])
    BY <1>1 DEF With
  <2> QED  BY <2>1, <2>2, <2>3, <2>4
<1>3. /\ DOMAIN noted = DOMAIN entries /\ \A name : DOMAIN part(name) = DOMAIN entries
      /\ \A i \in DOMAIN entries : part("timestamp")[i] \in Int \union {None}
      /\ \A i \in DOMAIN entries : part("responseBytes")[i] \in Nat \union {None}
      /\ e["timestamp"] \in Int \union {None} /\ e["responseBytes"] \in Nat \union {None}
  BY <1>1 DEF EntryType
<1> HIDE DEF more
<1>4. CASE field = "requestCount"
  <2>1. kept = Cardinality(DOMAIN entries) /\ after = kept + 1
    BY <1>4, AddToField DEF IsExact
  <2>2. Cardinality(DOMAIN more) = Cardinality(DOMAIN entries) + 1
    BY <1>1, <1>2, FS_AddElement
  <2> QED  BY <1>4, <2>1, <2>2, FieldKinds DEF IsExact, more
<1>5. CASE field \in Tallies
  <2>1. IsTallyOf(kept, noted)
    BY <1>5 DEF IsExact
  <2>2. IsTallyOf(Tallied(kept, Noted(field, e)), With(noted, n, Noted(field, e)))
    <3> HIDE DEF noted
    <3> QED  BY <1>1, <1>3, <2>1, TallyGrows
  <2>3. after = Tallied(kept, Noted(field, e))
    BY <1>5, AddToField
  <2> HIDE DEF after, noted
  <2>4. IsTallyOf(after, [i \in DOMAIN more |-> Noted(field, more[i])])
    BY <1>2, <2>2, <2>3
  <2> QED  BY <1>5, <2>4, FieldKinds DEF IsExact, more, after
<1>6. CASE field \in Samples
  <2>1. IsSampleOf(kept, noted, limit)
    BY <1>6 DEF IsExact
  <2>2. IsSampleOf(Sampled(kept, Noted(field, e), limit), With(noted, n, Noted(field, e)), limit)
    <3> HIDE DEF noted
    <3> QED  BY <1>1, <1>3, <2>1, SampleGrows
  <2>3. after = Sampled(kept, Noted(field, e), limit)
    BY <1>6, AddToField
  <2> HIDE DEF after, noted
  <2>4. IsSampleOf(after, [i \in DOMAIN more |-> Noted(field, more[i])], limit)
    BY <1>2, <2>2, <2>3
  <2> QED  BY <1>6, <2>4, FieldKinds DEF IsExact, more, after
<1>7. CASE field = "seen"
  <2>1. IsSpanOf(kept, part("timestamp"))
    BY <1>7 DEF IsExact
  <2>2. IsSpanOf(SawAt(kept, e["timestamp"]), With(part("timestamp"), n, e["timestamp"]))
    <3> HIDE DEF part
    <3> QED  BY <1>1, <1>3, <2>1, SpanGrows
  <2>3. after = SawAt(kept, e["timestamp"])
    BY <1>7, AddToField
  <2> HIDE DEF after, part
  <2>4. IsSpanOf(after, [i \in DOMAIN more |-> more[i]["timestamp"]])
    BY <1>2, <2>2, <2>3
  <2> QED  BY <1>7, <2>4, FieldKinds DEF IsExact, more, after
<1>8. CASE field = "responses"
  <2>1. IsSummaryOf(kept, part("responseBytes"))
    BY <1>8 DEF IsExact
  <2>2. IsSummaryOf(AddResponse(kept, e["responseBytes"]), With(part("responseBytes"), n, e["responseBytes"]))
    <3> HIDE DEF part
    <3> QED  BY <1>1, <1>3, <2>1, SummaryGrows
  <2>3. after = AddResponse(kept, e["responseBytes"])
    BY <1>8, AddToField
  <2> HIDE DEF after, part
  <2>4. IsSummaryOf(after, [i \in DOMAIN more |-> more[i]["responseBytes"]])
    BY <1>2, <2>2, <2>3
  <2> QED  BY <1>8, <2>4, FieldKinds DEF IsExact, more, after
<1> QED  BY <1>4, <1>5, <1>6, <1>7, <1>8, FieldKinds

\* A field starts exact, for no entry.
LEMMA FieldBegins ==
  ASSUME NEW entries, DOMAIN entries = {}, NEW limit, NEW field \in AllFields,
         limit \in Nat \/ field \notin Samples
  PROVE  IsExact(field, EmptyField(field), entries, limit)
<1> DEFINE noted == [i \in DOMAIN entries |-> Noted(field, entries[i])]
           part(name) == [i \in DOMAIN entries |-> entries[i][name]]
<1>1. /\ DOMAIN noted = {} /\ ToSet(noted) = {}
      /\ \A name : DOMAIN part(name) = {} /\ ToSet(part(name)) = {}
  BY DEF ToSet
<1>2. Cardinality({}) = 0
  BY FS_EmptySet
<1>3. field = "requestCount" => EmptyField(field) = Cardinality(DOMAIN entries)
  BY <1>2 DEF EmptyField
<1>4. field \in Tallies => IsTallyOf(EmptyField(field), noted)
  <2>1. SUFFICES ASSUME field \in Tallies
                 PROVE  IsTallyOf(EmptyField(field), noted)
    OBVIOUS
  <2>2. EmptyField(field) = EmptyBag
    BY <2>1, FieldKinds DEF EmptyField
  <2>3. BagToSet(EmptyBag) = {}
    BY DEF EmptyBag, SetToBag, BagToSet
  <2> HIDE DEF noted
  <2> QED  BY <1>1, <2>2, <2>3 DEF IsTallyOf
<1>5. field \in Samples => IsSampleOf(EmptyField(field), noted, limit)
  <2>1. SUFFICES ASSUME field \in Samples
                 PROVE  IsSampleOf(<<>>, noted, limit)
    BY FieldKinds DEF EmptyField
  <2>2. Min({limit, 0}) = 0
    <3>1. limit \in Nat
      BY <2>1
    <3> QED  BY <3>1, MinOfTwo
  <2> HIDE DEF noted
  <2>3. <<>> \in Seq(ToSet(noted) \ {None}) /\ Len(<<>>) = 0 /\ DOMAIN <<>> = {}
    OBVIOUS
  <2>4. ToSet(noted) \ {None} = {}
    BY <1>1
  <2>5. Cardinality(ToSet(noted) \ {None}) = 0
    BY <1>2, <2>4
  <2> QED  BY <2>2, <2>3, <2>5 DEF IsSampleOf
<1>6. field = "seen" => IsSpanOf(EmptyField(field), part("timestamp"))
  <2> HIDE DEF part
  <2> QED  BY <1>1 DEF IsSpanOf, EmptyField
<1>7. field = "responses" => IsSummaryOf(EmptyField(field), part("responseBytes"))
  <2> HIDE DEF part
  <2> QED  BY <1>1 DEF IsSummaryOf, EmptyField
<1> QED  BY <1>3, <1>4, <1>5, <1>6, <1>7 DEF IsExact

-----------------------------------------------------------------------------
(* Groups: every view groups the entries exactly.                           *)

\* The entries of a group, and the keys of the groups there must be.
Members(view, key, entries) ==
  Restrict(entries, {i \in DOMAIN entries : KeyOf(view, entries[i]) = key})

\* The keys that the entries have; the overview has its own.
KeysOf(view, entries) ==
  IF view = "overview" THEN {"all"} ELSE {KeyOf(view, entries[i]) : i \in DOMAIN entries} \ {None}

\* The groups of a view are those of the entries, and exact in every field.
AreExact(view, groups, entries, limit) ==
  /\ DOMAIN groups = KeysOf(view, entries)
  /\ \A key \in DOMAIN groups, field \in Fields[view] :
       IsExact(field, groups[key][field], Members(view, key, entries), limit)

\* Every view has fields of the known kinds.
LEMMA FieldsOfViews ==
  ASSUME NEW view \in AllViews
  PROVE  Fields[view] \subseteq AllFields
BY DEF AllViews, Views, Selected, KeptWhole, Fields, AllFields, Samples, Tallies

\* The entries of a group are entries.
LEMMA MembersAreEntries ==
  ASSUME NEW entries, AreEntries(entries), NEW view, NEW key
  PROVE  AreEntries(Members(view, key, entries))
<1> DEFINE D == {i \in DOMAIN entries : KeyOf(view, entries[i]) = key}
<1>1. D \in SUBSET DOMAIN entries
  OBVIOUS
<1>2. IsFiniteSet(D)
  BY <1>1, FS_Subset DEF AreEntries
<1>3. DOMAIN Members(view, key, entries) = D /\ \A i \in D : Members(view, key, entries)[i] = entries[i]
  BY DEF Members, Restrict
<1> QED  BY <1>1, <1>2, <1>3 DEF AreEntries

\* One more entry belongs to the group of its key and to no other.
LEMMA MembersGrow ==
  ASSUME NEW entries, NEW n, n \notin DOMAIN entries, NEW e, NEW view, NEW key
  PROVE  Members(view, key, With(entries, n, e))
           = IF KeyOf(view, e) = key THEN With(Members(view, key, entries), n, e)
                                     ELSE Members(view, key, entries)
<1> DEFINE more == With(entries, n, e)
           D == {i \in DOMAIN entries : KeyOf(view, entries[i]) = key}
           D2 == {i \in DOMAIN more : KeyOf(view, more[i]) = key}
<1>1. /\ DOMAIN more = DOMAIN entries \union {n} /\ more[n] = e
      /\ \A i \in DOMAIN entries : more[i] = entries[i]
  BY DEF With
<1>2. Members(view, key, more) = [i \in D2 |-> more[i]]
  BY DEF Members, Restrict
<1>3. Members(view, key, entries) = [i \in D |-> entries[i]]
  BY DEF Members, Restrict
<1> HIDE DEF more
<1>4. CASE KeyOf(view, e) = key
  <2>1. D2 = D \union {n} /\ n \notin D
    BY <1>1, <1>4
  <2>2. [i \in D2 |-> more[i]] = With([i \in D |-> entries[i]], n, e)
    <3>1. \A i \in D : more[i] = entries[i]
      BY <1>1
    <3> HIDE DEF D, D2
    <3> QED  BY <1>1, <2>1, <3>1 DEF With
  <2> QED  BY <1>2, <1>3, <1>4, <2>2 DEF more
<1>5. CASE KeyOf(view, e) # key
  <2>1. D2 = D
    BY <1>1, <1>5
  <2>2. [i \in D2 |-> more[i]] = [i \in D |-> entries[i]]
    BY <1>1, <2>1
  <2> QED  BY <1>2, <1>3, <1>5, <2>2 DEF more
<1> QED  BY <1>4, <1>5

\* The views start exact, for no entry,
LEMMA GroupsBegin ==
  ASSUME NEW entries, DOMAIN entries = {}, NEW limit, NEW view \in AllViews
  PROVE  AreExact(view, NothingAggregated[view], entries, limit)
<1>1. DOMAIN NothingAggregated[view] = KeysOf(view, entries)
  BY DEF NothingAggregated, KeysOf
<1>2. ASSUME NEW key \in DOMAIN NothingAggregated[view], NEW field \in Fields[view]
      PROVE  IsExact(field, NothingAggregated[view][key][field], Members(view, key, entries), limit)
  <2>1. view = "overview" /\ NothingAggregated[view][key][field] = EmptyField(field)
    BY <1>2 DEF NothingAggregated, EmptyGroup
  <2>2. DOMAIN Members(view, key, entries) = {}
    BY DEF Members, Restrict
  <2>3. field \in AllFields /\ field \notin Samples
    BY <2>1, FieldsOfViews DEF Fields, Samples
  <2> QED  BY <2>1, <2>2, <2>3, FieldBegins
<1> QED  BY <1>1, <1>2 DEF AreExact

\* and each stays exact when it consumes one more.
LEMMA GroupsGrow ==
  ASSUME NEW entries, AreEntries(entries), NEW n \in Nat, \A i \in DOMAIN entries : i < n,
         NEW e \in EntryType, NEW limit \in Nat, NEW view \in AllViews, NEW groups,
         AreExact(view, groups, entries, limit)
  PROVE  AreExact(view, ConsumeInto(view, groups, e, limit), With(entries, n, e), limit)
<1> DEFINE more == With(entries, n, e)
           key == KeyOf(view, e)
           old == IF key \in DOMAIN groups THEN groups[key] ELSE EmptyGroup(view)
           after == ConsumeInto(view, groups, e, limit)
<1>1. /\ n \notin DOMAIN entries
      /\ DOMAIN more = DOMAIN entries \union {n} /\ more[n] = e
      /\ \A i \in DOMAIN entries : more[i] = entries[i]
  BY DEF With, AreEntries
<1>2. /\ DOMAIN groups = KeysOf(view, entries)
      /\ \A k \in DOMAIN groups, field \in Fields[view] :
           IsExact(field, groups[k][field], Members(view, k, entries), limit)
  BY DEF AreExact
<1>3. view = "overview" => key = "all"
  BY DEF KeyOf
<1> HIDE DEF more, key
<1>4. KeysOf(view, more) = KeysOf(view, entries) \union ({key} \ {None})
  <2>1. CASE view = "overview"
    BY <1>3, <2>1 DEF KeysOf
  <2>2. CASE view # "overview"
    BY <1>1, <2>2 DEF KeysOf, key
  <2> QED  BY <2>1, <2>2
<1>5. ASSUME NEW k, k # key
      PROVE  Members(view, k, more) = Members(view, k, entries)
  BY <1>1, <1>5, MembersGrow DEF more, key
<1>6. CASE key = None
  <2>1. after = groups
    BY <1>6 DEF ConsumeInto, key
  <2>2. KeysOf(view, more) = KeysOf(view, entries)
    BY <1>4, <1>6
  <2>3. None \notin DOMAIN groups
    BY <1>2, NoneIsNoKey DEF KeysOf
  <2>4. \A k \in DOMAIN groups : Members(view, k, more) = Members(view, k, entries)
    BY <1>5, <1>6, <2>3
  <2> QED  BY <1>2, <2>1, <2>2, <2>4 DEF AreExact, more
<1>7. CASE key # None
  <2>1. after = [k \in DOMAIN groups \union {key} |->
                   IF k = key THEN Grown(view, old, e, limit) ELSE groups[k]]
    BY <1>7 DEF ConsumeInto, key
  <2>2. DOMAIN after = KeysOf(view, more)
    BY <1>2, <1>4, <1>7, <2>1
  <2>3. ASSUME NEW field \in Fields[view]
        PROVE  IsExact(field, after[key][field], Members(view, key, more), limit)
    <3>1. field \in AllFields
      BY FieldsOfViews
    <3>2. after[key][field] = AddTo(field, old[field], e, limit)
      BY <2>1 DEF Grown
    <3>3. Members(view, key, more) = With(Members(view, key, entries), n, e)
      BY <1>1, MembersGrow DEF more, key
    <3>4. AreEntries(Members(view, key, entries)) /\ \A i \in DOMAIN Members(view, key, entries) : i < n
      BY MembersAreEntries DEF Members, Restrict
    <3>5. IsExact(field, old[field], Members(view, key, entries), limit)
      <4>1. CASE key \in DOMAIN groups
        BY <1>2, <4>1
      <4>2. CASE key \notin DOMAIN groups
        <5>1. DOMAIN Members(view, key, entries) = {}
          <6>1. view # "overview"
            BY <1>2, <1>3, <4>2 DEF KeysOf
          <6>2. \A i \in DOMAIN entries : KeyOf(view, entries[i]) # key
            BY <1>2, <1>7, <4>2, <6>1 DEF KeysOf
          <6> QED  BY <6>2 DEF Members, Restrict
        <5>2. old[field] = EmptyField(field)
          BY <4>2 DEF EmptyGroup
        <5> QED  BY <3>1, <5>1, <5>2, FieldBegins
      <4> QED  BY <4>1, <4>2
    <3> HIDE DEF old, after
    <3>6. IsExact(field, AddTo(field, old[field], e, limit), With(Members(view, key, entries), n, e), limit)
      BY <3>1, <3>4, <3>5, FieldGrows
    <3> QED  BY <3>2, <3>3, <3>6
  <2>4. ASSUME NEW k \in DOMAIN after, k # key, NEW field \in Fields[view]
        PROVE  IsExact(field, after[k][field], Members(view, k, more), limit)
    <3>1. k \in DOMAIN groups /\ after[k] = groups[k]
      BY <2>1, <2>4
    <3> QED  BY <1>2, <1>5, <2>4, <3>1
  <2> HIDE DEF after
  <2> QED  BY <2>2, <2>3, <2>4 DEF AreExact, more, after
<1> QED  BY <1>6, <1>7

-----------------------------------------------------------------------------
(* The invariant of what was read and of what came of it.                   *)

\* What has been read is aggregated exactly, until consume throws.
Exactness ==
  result.errorCode # "ANALYZER_AGGREGATION_FAILED" =>
    \A view \in AllViews : AreExact(view, aggregation[view], Entries, config.sampleLimit)

\* The set was put together: it is the result, or it was refused.
Checked ==
  \/ Analyzed
  \/ result.errorCode \in {"ANALYZER_REDACTION_SAFETY_FAILURE", "ANALYZER_OBSERVATION_SET_INVALID"}

\* The limits have been checked by then, and the set that was put together is the
\* one that what was read still gives: nothing changes afterwards.
Outcomes ==
  /\ phase = "reading" \/ Checked => ConfigValid
  /\ Analyzed => Set = ObservationSet /\ result.errorCode \notin ErrorCodes
  /\ result.errorCode = "ANALYZER_REDACTION_SAFETY_FAILURE" => ~RedactionSafe(ObservationSet)
  /\ result.errorCode = "ANALYZER_OBSERVATION_SET_INVALID" => ~IsValid(ObservationSet)

\* The entries of a log are normalized lines of it.
LEMMA EntriesAre ==
  ASSUME log \in Seq(Lines)
  PROVE  /\ AreEntries(Entries)
         /\ \A i \in DOMAIN Entries : i \in 1 .. Len(log) /\ Entries[i] = Normalized(log[i])
<1> DEFINE D == {i \in DOMAIN log : Usable(log[i]) /\ ~IsExcluded(log[i])}
<1>1. D \in SUBSET (1 .. Len(log)) /\ Len(log) \in Nat /\ \A i \in D : log[i] \in Lines
  OBVIOUS
<1>2. IsFiniteSet(D)
  BY <1>1, FS_Interval, FS_Subset
<1>3. DOMAIN Entries = D /\ \A i \in D : Entries[i] = Normalized(log[i])
  BY DEF Entries
<1>4. \A i \in D : Entries[i] \in EntryType
  BY <1>1, <1>3, NormalizedType
<1>5. D \in SUBSET Nat
  BY <1>1
<1> HIDE DEF D
<1> QED  BY <1>1, <1>2, <1>3, <1>4, <1>5 DEF AreEntries

\* They are fixed by the log and the rules.
LEMMA EntriesStay ==
  ASSUME UNCHANGED <<config, log>>
  PROVE  Entries' = Entries
BY DEF Entries, IsExcluded, RulesFor, RuleMatches

\* One more line is one more entry if it is usable and no rule excludes it.
LEMMA EntriesAppend ==
  ASSUME log \in Seq(Lines), NEW line \in Lines, log' = Append(log, line), UNCHANGED config
  PROVE  Entries' = IF Usable(line) /\ ~IsExcluded(line)
                    THEN With(Entries, Len(log) + 1, Normalized(line)) ELSE Entries
<1> DEFINE n == Len(log) + 1
           Counted2(l) == Usable(l) /\ ~IsExcluded(l)
           D == {i \in DOMAIN log : Counted2(log[i])}
           D2 == {i \in DOMAIN log' : Counted2(log'[i])}
<1>1. /\ DOMAIN log' = DOMAIN log \union {n} /\ n \notin DOMAIN log
      /\ log'[n] = line /\ \A i \in DOMAIN log : log'[i] = log[i]
  OBVIOUS
<1>2. Entries = [i \in D |-> Normalized(log[i])]
  BY DEF Entries
<1>3. Entries' = [i \in D2 |-> Normalized(log'[i])]
  BY DEF Entries, IsExcluded, RulesFor, RuleMatches
<1> HIDE DEF Counted2
<1>4. CASE Counted2(line)
  <2>1. D2 = D \union {n} /\ n \notin D
    BY <1>1, <1>4
  <2>2. \A i \in D : log'[i] = log[i]
    BY <1>1
  <2> HIDE DEF D, D2, n
  <2>3. [i \in D2 |-> Normalized(log'[i])] = With([i \in D |-> Normalized(log[i])], n, Normalized(line))
    BY <1>1, <2>1, <2>2 DEF With
  <2> QED  BY <1>2, <1>3, <1>4, <2>3 DEF Counted2, n
<1>5. CASE ~Counted2(line)
  <2>1. D2 = D
    BY <1>1, <1>5
  <2>2. \A i \in D : log'[i] = log[i]
    BY <1>1
  <2> HIDE DEF D, D2, n
  <2>3. [i \in D2 |-> Normalized(log'[i])] = [i \in D |-> Normalized(log[i])]
    BY <2>1, <2>2
  <2> QED  BY <1>2, <1>3, <1>5, <2>3 DEF Counted2
<1> QED  BY <1>4, <1>5

\* The set that would be put together is fixed by what was read.
LEMMA SetStays ==
  ASSUME UNCHANGED <<config, excluded, aggregation>>
  PROVE  ObservationSet' = ObservationSet
BY DEF ObservationSet, Selections, Wholes, Groups, Known, Omissions

\* The inductive invariant of the aggregation and of what comes of it.
EInv == IInv /\ Exactness /\ Outcomes

\* Without a result there is neither a set nor an error.
LEMMA NoResultIsNone ==
  ASSUME result = NoResult
  PROVE  ~Analyzed /\ result.errorCode \notin ErrorCodes
BY NoneIsNoErrorCode DEF NoResult, Analyzed

\* A failure has its code and no set.
LEMMA FailureSays ==
  ASSUME NEW code, NEW parseSummary, Fails(code, parseSummary)
  PROVE  /\ phase' = "done" /\ ~Analyzed' /\ result'.errorCode = code
BY DEF Fails, Ends, NoResult, Analyzed

\* Nothing is aggregated of nothing read.
LEMMA InitEInv ==
  ASSUME Init, IInv
  PROVE  EInv
<1>1. log = <<>> /\ phase = "validating" /\ result = NoResult
  BY DEF Init
<1>2. DOMAIN Entries = {}
  BY <1>1 DEF Entries
<1>3. Exactness
  BY <1>2, GroupsBegin DEF Init, Exactness
<1>4. Outcomes
  BY <1>1, NoResultIsNone DEF Outcomes, Checked, ErrorCodes
<1> QED  BY <1>3, <1>4 DEF EInv

\* What has been read stays exact, and so does what it says of the outcome.
LEMMA NothingReadEInv ==
  ASSUME EInv, UNCHANGED <<config, log, excluded, aggregation>>
  PROVE  /\ \/ Exactness'
            \/ result.errorCode = "ANALYZER_AGGREGATION_FAILED" /\ result'.errorCode # "ANALYZER_AGGREGATION_FAILED"
         /\ ObservationSet' = ObservationSet
         /\ ConfigValid' = ConfigValid
<1>1. Entries' = Entries
  BY EntriesStay
<1>2. ObservationSet' = ObservationSet
  BY SetStays
<1>3. ConfigValid' = ConfigValid
  BY DEF ConfigValid
<1>4. ASSUME result.errorCode # "ANALYZER_AGGREGATION_FAILED"
      PROVE  Exactness'
  <2>1. \A view \in AllViews : AreExact(view, aggregation[view], Entries, config.sampleLimit)
    BY <1>4 DEF EInv, Exactness
  <2> QED  BY <1>1, <2>1 DEF Exactness
<1>5. ASSUME result'.errorCode = "ANALYZER_AGGREGATION_FAILED"
      PROVE  Exactness'
  BY <1>5 DEF Exactness
<1> QED  BY <1>2, <1>3, <1>4, <1>5

\* One more line, and the groups are exact for the entries there are then.
LEMMA LineEInv ==
  ASSUME EInv, NEW line \in Lines, Delivers(line), UNCHANGED config,
         aggregation' = IF Usable(line) /\ ~IsExcluded(line)
                        THEN Consume(aggregation, Normalized(line), config.sampleLimit)
                        ELSE aggregation
  PROVE  Exactness'
<1>1. /\ log \in Seq(Lines) /\ log' = Append(log, line) /\ phase = "reading"
      /\ DOMAIN aggregation = AllViews /\ config.sampleLimit \in Nat
  BY DEF EInv, IInv, TypeOK, Delivers, Outcomes, ConfigValid
<1>2. \A view \in AllViews : AreExact(view, aggregation[view], Entries, config.sampleLimit)
  <2>1. result.errorCode \notin ErrorCodes
    BY <1>1, NoResultIsNone DEF EInv, IInv, Account
  <2> QED  BY <2>1 DEF EInv, Exactness, ErrorCodes
<1>3. CASE Usable(line) /\ ~IsExcluded(line)
  <2> DEFINE n == Len(log) + 1
             e == Normalized(line)
  <2>1. Entries' = With(Entries, n, e) /\ e \in EntryType
    BY <1>1, <1>3, EntriesAppend, NormalizedType
  <2>2. AreEntries(Entries) /\ n \in Nat /\ \A i \in DOMAIN Entries : i < n
    BY <1>1, EntriesAre
  <2>3. \A view \in AllViews : aggregation'[view] = ConsumeInto(view, aggregation[view], e, config.sampleLimit)
    BY <1>3 DEF Consume
  <2> HIDE DEF n, e
  <2>4. ASSUME NEW view \in AllViews
        PROVE  AreExact(view, aggregation'[view], Entries', config.sampleLimit)
    <3>1. AreExact(view, ConsumeInto(view, aggregation[view], e, config.sampleLimit), With(Entries, n, e),
                   config.sampleLimit)
      BY <1>1, <1>2, <2>1, <2>2, GroupsGrow
    <3> QED  BY <2>1, <2>3, <3>1
  <2> QED  BY <2>4 DEF Exactness
<1>4. CASE ~(Usable(line) /\ ~IsExcluded(line))
  <2>1. Entries' = Entries /\ aggregation' = aggregation
    BY <1>1, <1>4, EntriesAppend
  <2> QED  BY <1>2, <2>1 DEF Exactness
<1> QED  BY <1>3, <1>4

\* No step breaks the invariant.
LEMMA NextEInv ==
  ASSUME EInv, IInv', [Next]_vars
  PROVE  EInv'
<1> SUFFICES Exactness' /\ Outcomes'
  BY DEF EInv
<1>1. CASE Validate
  <2>1. /\ UNCHANGED <<config, log, excluded, aggregation>> /\ result = NoResult
    BY <1>1 DEF Validate, EInv, IInv, Account
  <2>2. result.errorCode \notin ErrorCodes /\ ~Analyzed
    BY <2>1, NoResultIsNone
  <2>3. Exactness' /\ ConfigValid' = ConfigValid
    BY <2>1, <2>2, NothingReadEInv DEF ErrorCodes
  <2>4. CASE ConfigValid
    <3>1. result' = result
      BY <1>1, <2>4 DEF Validate
    <3>2. ~Analyzed'
      BY <2>2, <3>1 DEF Analyzed
    <3> QED  BY <2>2, <2>3, <2>4, <3>1, <3>2 DEF Outcomes, Checked, ErrorCodes
  <2>5. CASE ~ConfigValid
    <3>1. Fails("ANALYZER_INVALID_CONFIGURATION", None)
      BY <1>1, <2>5 DEF Validate
    <3> QED  BY <2>3, <3>1, FailureSays DEF Outcomes, Checked
  <2> QED  BY <2>4, <2>5
<1>2. ASSUME NEW line \in Lines,
             SkipLine(line) \/ CountFailedLine(line) \/ ExcludeEntry(line) \/ ConsumeEntry(line)
      PROVE  Exactness' /\ Outcomes'
  <2>1. /\ Delivers(line) /\ UNCHANGED <<config, phase, result>>
    BY <1>2 DEF SkipLine, CountFailedLine, ExcludeEntry, ConsumeEntry
  <2>2. aggregation' = IF Usable(line) /\ ~IsExcluded(line)
                       THEN Consume(aggregation, Normalized(line), config.sampleLimit)
                       ELSE aggregation
    BY <1>2 DEF SkipLine, CountFailedLine, ExcludeEntry, ConsumeEntry, Usable
  <2>3. Exactness'
    BY <2>1, <2>2, LineEInv
  <2>4. phase = "reading" /\ result' = NoResult
    BY <2>1 DEF Delivers, EInv, IInv, Account
  <2>5. ~Analyzed' /\ result'.errorCode \notin ErrorCodes
    BY <2>4, NoneIsNoErrorCode DEF NoResult, Analyzed
  <2>6. ConfigValid'
    BY <2>1, <2>4 DEF EInv, Outcomes, ConfigValid
  <2> QED  BY <2>3, <2>5, <2>6 DEF Outcomes, Checked, ErrorCodes
<1>3. ASSUME NEW line \in Lines, AggregationFails(line)
      PROVE  Exactness' /\ Outcomes'
  <2>1. Fails("ANALYZER_AGGREGATION_FAILED", None)
    BY <1>3 DEF AggregationFails
  <2> QED  BY <2>1, FailureSays DEF Exactness, Outcomes, Checked
<1>4. CASE SourceFails
  <2>1. /\ UNCHANGED <<config, log, excluded, aggregation>> /\ result = NoResult
        /\ Fails("ANALYZER_INTERNAL_ERROR", None)
    BY <1>4 DEF SourceFails, EInv, IInv, Account
  <2>2. Exactness'
    BY <2>1, NoResultIsNone, NothingReadEInv DEF ErrorCodes
  <2> QED  BY <2>1, <2>2, FailureSays DEF Outcomes, Checked
<1>5. CASE EndOfLog
  <2>1. /\ UNCHANGED <<config, log, excluded, aggregation>> /\ result = NoResult
        /\ phase = "reading"
    BY <1>5 DEF EndOfLog, EInv, IInv, Account
  <2>2. Exactness' /\ ObservationSet' = ObservationSet /\ ConfigValid'
    <3>1. ConfigValid
      BY <2>1 DEF EInv, Outcomes
    <3> QED  BY <2>1, <3>1, NoResultIsNone, NothingReadEInv DEF ErrorCodes
  <2>3. CASE Fails("PARSER_NO_VALID_LINES", summary)
    BY <2>2, <2>3, FailureSays DEF Outcomes, Checked
  <2>4. CASE ~RedactionSafe(ObservationSet) /\ Fails("ANALYZER_REDACTION_SAFETY_FAILURE", summary)
    BY <2>2, <2>4, FailureSays DEF Outcomes, Checked
  <2>5. CASE ~IsValid(ObservationSet) /\ Fails("ANALYZER_OBSERVATION_SET_INVALID", summary)
    BY <2>2, <2>5, FailureSays DEF Outcomes, Checked
  <2>6. CASE Ends([NoResult EXCEPT !.status = DerivedStatus(summary),
                                   !.parseSummary = summary,
                                   !.observationSet = ObservationSet])
    <3>1. phase' = "done" /\ result'.errorCode = None /\ result'.observationSet = ObservationSet
      BY <2>6 DEF Ends, NoResult
    <3>2. Set' = ObservationSet
      BY <3>1 DEF Set
    <3> QED  BY <2>2, <3>1, <3>2, NoneIsNoErrorCode DEF Outcomes, Checked, ErrorCodes
  <2> QED  BY <1>5, <2>3, <2>4, <2>5, <2>6 DEF EndOfLog, Outcome
<1>6. CASE UNCHANGED vars
  <2>1. UNCHANGED <<config, phase, log, excluded, aggregation, result>>
    BY <1>6 DEF vars
  <2>2. /\ \/ Exactness'
           \/ result.errorCode = "ANALYZER_AGGREGATION_FAILED" /\ result'.errorCode # "ANALYZER_AGGREGATION_FAILED"
        /\ ObservationSet' = ObservationSet
        /\ ConfigValid' = ConfigValid
    BY <2>1, NothingReadEInv
  <2>3. Analyzed' = Analyzed /\ Set' = Set
    BY <2>1 DEF Analyzed, Set
  <2>4. Exactness'
    BY <2>1, <2>2
  <2> QED  BY <2>1, <2>2, <2>3, <2>4 DEF EInv, Outcomes, Checked
<1> QED  BY <1>1, <1>2, <1>3, <1>4, <1>5, <1>6 DEF Next

\* What is read is exact in every reachable state.
LEMMA ReadExactly == Spec => []EInv
<1>1. Init => EInv
  BY InitIInv, InitEInv
<1>2. EInv /\ [Next]_vars => EInv'
  <2>1. EInv /\ [Next]_vars => IInv'
    BY NextIInv DEF EInv
  <2> QED  BY <2>1, NextEInv
<1> QED  BY <1>1, <1>2, PTL DEF Spec

-----------------------------------------------------------------------------
(* Exactness, as the property states it.                                    *)

\* A bucket is the group of its entries under the key they all have.
LEMMA BelongsIsKey ==
  ASSUME NEW view \in AllViews, NEW e \in EntryType, NEW key,
         view \in {"oneMinute", "fiveMinute"} => key \in Int
  PROVE  Belongs(view, key, e) <=> KeyOf(view, e) = key
<1>1. ASSUME NEW minutes \in {1, 5}, key \in Int
      PROVE  InBucket(e.timestamp, key, minutes) <=> Bucket(e.timestamp, minutes) = key
  <2> DEFINE ticks == minutes * MinuteTicks
  <2>1. ticks \in Nat \ {0} /\ e.timestamp \in Int \union {None}
    BY <1>1, MinuteTicksAssumption DEF EntryType
  <2>2. CASE e.timestamp = None
    BY <1>1, <2>2, NoneIsNoNumber DEF InBucket, Bucket
  <2>3. CASE e.timestamp # None
    <3>1. (e.timestamp \div ticks) * ticks = key
            <=> key % ticks = 0 /\ e.timestamp \in key .. key + ticks - 1
      <4> HIDE DEF ticks
      <4> QED  BY <1>1, <2>1, <2>3, BucketIsKey
    <3> QED  BY <2>3, <3>1 DEF InBucket, Bucket, FloorToBucket
  <2> QED  BY <2>2, <2>3
<1>2. CASE view \in {"oneMinute", "fiveMinute"}
  <2>1. KeyOf("oneMinute", e) = Bucket(e.timestamp, 1) /\ KeyOf("fiveMinute", e) = Bucket(e.timestamp, 5)
    BY DEF KeyOf, ViewKey
  <2> QED  BY <1>1, <1>2, <2>1 DEF Belongs
<1>3. CASE view \notin {"oneMinute", "fiveMinute"}
  BY <1>3 DEF Belongs
<1> QED  BY <1>2, <1>3

\* What the key of a group can be.
LEMMA KeyType ==
  ASSUME NEW entries, AreEntries(entries), NEW view \in AllViews, NEW key \in KeysOf(view, entries)
  PROVE  /\ key # None
         /\ view \in {"paths", "sourceIps", "userAgents", "statuses", "methods"} => key \in Nat
         /\ view = "sourceIpPaths" => key \in Nat \X Nat
         /\ view \in {"oneMinute", "fiveMinute"} => key \in Int
<1>1. key # None
  BY NoneIsNoKey DEF KeysOf
<1>2. CASE view = "overview"
  BY <1>1, <1>2
<1>3. CASE view # "overview"
  <2>1. PICK i \in DOMAIN entries : KeyOf(view, entries[i]) = key
    BY <1>3 DEF KeysOf
  <2>2. entries[i] \in EntryType
    BY DEF AreEntries
  <2>3. ViewKey(view, entries[i]) = key
    BY <1>3, <2>1 DEF KeyOf
  <2>4. view \in {"paths", "sourceIps", "userAgents", "statuses", "methods"} => key \in Nat
    BY <1>1, <2>2, <2>3 DEF ViewKey, EntryType
  <2>5. view = "sourceIpPaths" => key \in Nat \X Nat
    BY <1>1, <2>2, <2>3 DEF ViewKey, EntryType
  <2>6. ASSUME view \in {"oneMinute", "fiveMinute"}
        PROVE  key \in Int
    <3>1. PICK minutes \in {1, 5} : key = Bucket(entries[i].timestamp, minutes)
      BY <2>3, <2>6 DEF ViewKey
    <3>2. entries[i].timestamp \in Int /\ key = FloorToBucket(entries[i].timestamp, minutes)
      BY <1>1, <2>2, <3>1 DEF EntryType, Bucket
    <3> DEFINE ticks == minutes * MinuteTicks
    <3>3. ticks \in Nat \ {0}
      BY MinuteTicksAssumption
    <3>4. key = (entries[i].timestamp \div ticks) * ticks
      BY <3>2 DEF FloorToBucket
    <3> HIDE DEF ticks
    <3> QED  BY <3>2, <3>3, <3>4
  <2> QED  BY <1>1, <2>4, <2>5, <2>6
<1> QED  BY <1>2, <1>3

\* The invariant says what the property says.
LEMMA ExactnessSays ==
  ASSUME EInv
  PROVE  AggregationIsExact
<1> DEFINE entries == Entries
<1>1. SUFFICES ASSUME result.errorCode # "ANALYZER_AGGREGATION_FAILED", NEW view \in AllViews
      PROVE /\ \A i \in DOMAIN entries : KeyOf(view, entries[i]) # None =>
                 \E key \in DOMAIN Groups(view) : Belongs(view, key, entries[i])
            /\ \A key \in DOMAIN Groups(view) :
                 LET members == Restrict(entries, {i \in DOMAIN entries : Belongs(view, key, entries[i])})
                 IN  /\ DOMAIN members # {} \/ view = "overview"
                     /\ \A field \in Fields[view] :
                          IsExact(field, Groups(view)[key][field], members, config.sampleLimit)
  BY DEF AggregationIsExact
<1>2. /\ AreEntries(entries)
      /\ DOMAIN Groups(view) = KeysOf(view, entries)
      /\ \A key \in DOMAIN Groups(view), field \in Fields[view] :
           IsExact(field, Groups(view)[key][field], Members(view, key, entries), config.sampleLimit)
  BY <1>1, EntriesAre DEF EInv, IInv, TypeOK, Exactness, AreExact, Groups
<1> HIDE DEF entries
<1>3. ASSUME NEW key \in DOMAIN Groups(view), NEW i \in DOMAIN entries
      PROVE  Belongs(view, key, entries[i]) <=> KeyOf(view, entries[i]) = key
  BY <1>2, KeyType, BelongsIsKey DEF AreEntries
<1>4. ASSUME NEW i \in DOMAIN entries, KeyOf(view, entries[i]) # None
      PROVE  \E key \in DOMAIN Groups(view) : Belongs(view, key, entries[i])
  <2>1. KeyOf(view, entries[i]) \in DOMAIN Groups(view)
    BY <1>2, <1>4 DEF KeysOf, KeyOf
  <2> QED  BY <1>3, <2>1
<1>5. ASSUME NEW key \in DOMAIN Groups(view)
      PROVE  LET members == Restrict(entries, {i \in DOMAIN entries : Belongs(view, key, entries[i])})
             IN  /\ DOMAIN members # {} \/ view = "overview"
                 /\ \A field \in Fields[view] :
                      IsExact(field, Groups(view)[key][field], members, config.sampleLimit)
  <2>1. {i \in DOMAIN entries : Belongs(view, key, entries[i])}
          = {i \in DOMAIN entries : KeyOf(view, entries[i]) = key}
    BY <1>3
  <2>2. Restrict(entries, {i \in DOMAIN entries : Belongs(view, key, entries[i])})
          = Members(view, key, entries)
    BY <2>1 DEF Members
  <2>3. DOMAIN Members(view, key, entries) # {} \/ view = "overview"
    BY <1>2 DEF Members, Restrict, KeysOf
  <2> QED  BY <1>2, <2>2, <2>3
<1> QED  BY <1>4, <1>5

-----------------------------------------------------------------------------
(* Selection: orders, scores, and what is left out.                         *)

\* The keys a view is ordered by: a number, or a pair of them.
AreKeys(view, keys) ==
  /\ IsFiniteSet(keys)
  /\ \A key \in keys : IF view = "sourceIpPaths" THEN key \in Nat \X Nat ELSE key \in Int

\* The keys of a view are in a strict total order,
LEMMA KeyOrder ==
  ASSUME NEW view, NEW keys, AreKeys(view, keys)
  PROVE  /\ \A a \in keys : ~KeyBefore(view, a, a)
         /\ \A a, b, c \in keys : KeyBefore(view, a, b) /\ KeyBefore(view, b, c) => KeyBefore(view, a, c)
         /\ \A a, b \in keys : a # b => KeyBefore(view, a, b) \/ KeyBefore(view, b, a)
<1>1. CASE view = "sourceIpPaths"
  <2>1. \A a \in keys : a = <<a[1], a[2]>> /\ a[1] \in Nat /\ a[2] \in Nat
    BY <1>1 DEF AreKeys
  <2>2. \A a \in keys : ~KeyBefore(view, a, a)
    BY <1>1, <2>1 DEF KeyBefore
  <2>3. \A a, b, c \in keys : KeyBefore(view, a, b) /\ KeyBefore(view, b, c) => KeyBefore(view, a, c)
    BY <1>1, <2>1 DEF KeyBefore
  <2>4. \A a, b \in keys : a # b => KeyBefore(view, a, b) \/ KeyBefore(view, b, a)
    BY <1>1, <2>1 DEF KeyBefore
  <2> QED  BY <2>2, <2>3, <2>4
<1>2. CASE view # "sourceIpPaths"
  <2>1. \A a \in keys : a \in Int
    BY <1>2 DEF AreKeys
  <2> QED  BY <1>2, <2>1 DEF KeyBefore
<1> QED  BY <1>1, <1>2

\* as they are by value, with the key to break the ties.
LEMMA ValueOrder ==
  ASSUME NEW view, NEW keys, AreKeys(view, keys), NEW value, \A k \in keys : value[k] \in Int
  PROVE  /\ \A a \in keys : ~HigherFirst(view, value, a, a)
         /\ \A a, b, c \in keys :
              HigherFirst(view, value, a, b) /\ HigherFirst(view, value, b, c) => HigherFirst(view, value, a, c)
         /\ \A a, b \in keys : a # b => HigherFirst(view, value, a, b) \/ HigherFirst(view, value, b, a)
<1>1. \A a \in keys : ~HigherFirst(view, value, a, a)
  BY KeyOrder DEF HigherFirst
<1>2. \A a, b, c \in keys :
        HigherFirst(view, value, a, b) /\ HigherFirst(view, value, b, c) => HigherFirst(view, value, a, c)
  BY KeyOrder DEF HigherFirst
<1>3. \A a, b \in keys : a # b => HigherFirst(view, value, a, b) \/ HigherFirst(view, value, b, a)
  BY KeyOrder DEF HigherFirst
<1> QED  BY <1>1, <1>2, <1>3

\* FirstOf in each of the three orders.
FirstInKey(view, keys, limit) ==
  {key \in keys : Cardinality({k \in keys : KeyBefore(view, k, key)}) < limit}

FirstInValue(view, value, keys, limit) ==
  {key \in keys : Cardinality({k \in keys : HigherFirst(view, value, k, key)}) < limit}

FirstInPriority(view, counts, reasons, keys, limit) ==
  {key \in keys : Cardinality({k \in keys : PriorityBefore(view, counts, reasons, k, key)}) < limit}

\* The first by key: as many as the limit lets, if any other is left out.
LEMMA FirstByKey ==
  ASSUME NEW view, NEW keys, AreKeys(view, keys), NEW limit \in Nat,
         NEW first, first = FirstInKey(view, keys, limit)
  PROVE  \A k \in keys \ first : Cardinality(first) = limit
<1> DEFINE ahead == [key \in keys |-> {k \in keys : KeyBefore(view, k, key)}]
<1>1. /\ ahead \in [keys -> SUBSET keys]
      /\ \A j, k \in keys : j \in ahead[k] <=> KeyBefore(view, j, k)
      /\ AreFirst(first, keys, ahead, limit)
  BY DEF AreFirst, FirstInKey, FirstInValue, FirstInPriority
<1> HIDE DEF ahead
<1>2. IsOrder(keys, ahead)
  BY <1>1, KeyOrder DEF IsOrder
<1>3. IsFiniteSet(keys)
  BY DEF AreKeys
<1> QED  BY <1>1, <1>2, <1>3, FirstOnes

\* The first by value: likewise, and before every other.
LEMMA FirstByValue ==
  ASSUME NEW view, NEW keys, AreKeys(view, keys), NEW limit \in Nat,
         NEW value, \A k \in keys : value[k] \in Int,
         NEW first, first = FirstInValue(view, value, keys, limit)
  PROVE  \A k \in keys \ first :
           Cardinality(first) = limit /\ \A j \in first : HigherFirst(view, value, j, k)
<1> DEFINE ahead == [key \in keys |-> {k \in keys : HigherFirst(view, value, k, key)}]
<1>1. /\ ahead \in [keys -> SUBSET keys]
      /\ \A j, k \in keys : j \in ahead[k] <=> HigherFirst(view, value, j, k)
      /\ AreFirst(first, keys, ahead, limit)
  BY DEF AreFirst, FirstInKey, FirstInValue, FirstInPriority
<1> HIDE DEF ahead
<1>2. IsOrder(keys, ahead)
  BY <1>1, ValueOrder DEF IsOrder
<1>3. IsFiniteSet(keys)
  BY DEF AreKeys
<1>4. \A k \in keys \ first : first \subseteq ahead[k] /\ Cardinality(first) = limit
  BY <1>1, <1>2, <1>3, FirstOnes
<1> QED  BY <1>1, <1>4

\* The first by priority: likewise, and never more than the limit.
LEMMA FirstByPriority ==
  ASSUME NEW view, NEW keys, AreKeys(view, keys), NEW limit \in Nat,
         NEW counts, \A k \in keys : counts[k] \in Int, NEW reasons,
         NEW first, first = FirstInPriority(view, counts, reasons, keys, limit)
  PROVE  /\ Cardinality(first) = IF Cardinality(keys) <= limit THEN Cardinality(keys) ELSE limit
         /\ \A k \in keys \ first, j \in first : PriorityBefore(view, counts, reasons, j, k)
<1> DEFINE ahead == [key \in keys |-> {k \in keys : PriorityBefore(view, counts, reasons, k, key)}]
           known(key) == "known_information" \in reasons[key]
           higher(a, b) == HigherFirst(view, counts, a, b)
<1>1. /\ ahead \in [keys -> SUBSET keys]
      /\ \A j, k \in keys : j \in ahead[k] <=> PriorityBefore(view, counts, reasons, j, k)
      /\ AreFirst(first, keys, ahead, limit)
  BY DEF AreFirst, FirstInKey, FirstInValue, FirstInPriority
<1>2. \A j, k \in keys : PriorityBefore(view, counts, reasons, j, k)
                           <=> IF known(j) # known(k) THEN known(j) ELSE higher(j, k)
  BY DEF PriorityBefore
<1>3. /\ \A a \in keys : ~higher(a, a)
      /\ \A a, b, c \in keys : higher(a, b) /\ higher(b, c) => higher(a, c)
      /\ \A a, b \in keys : a # b => higher(a, b) \/ higher(b, a)
  BY ValueOrder
<1> HIDE DEF ahead, higher
<1>4. IsOrder(keys, ahead)
  <2>1. \A k \in keys : k \notin ahead[k]
    BY <1>1, <1>2, <1>3
  <2>2. \A j, k, l \in keys : j \in ahead[k] /\ k \in ahead[l] => j \in ahead[l]
    BY <1>1, <1>2, <1>3
  <2>3. \A j, k \in keys : j # k => j \in ahead[k] \/ k \in ahead[j]
    BY <1>1, <1>2, <1>3
  <2> QED  BY <1>1, <2>1, <2>2, <2>3 DEF IsOrder
<1>5. IsFiniteSet(keys)
  BY DEF AreKeys
<1>6. /\ Cardinality(first) = IF Cardinality(keys) <= limit THEN Cardinality(keys) ELSE limit
      /\ \A k \in keys \ first : first \subseteq ahead[k]
  BY <1>1, <1>4, <1>5, FirstOnes
<1> QED  BY <1>1, <1>6

\* The keys of the entries can be ordered.
LEMMA KeysAreKeys ==
  ASSUME NEW entries, AreEntries(entries), NEW view \in Views
  PROVE  AreKeys(view, KeysOf(view, entries))
<1> DEFINE keys == KeysOf(view, entries)
           image == {KeyOf(view, entries[i]) : i \in DOMAIN entries}
           key == [i \in DOMAIN entries |-> KeyOf(view, entries[i])]
<1>1. IsFiniteSet(keys)
  <2>1. IsFiniteSet(DOMAIN entries)
    BY DEF AreEntries
  <2>2. image = {key[i] : i \in DOMAIN entries}
    OBVIOUS
  <2>3. IsFiniteSet({key[i] : i \in DOMAIN entries})
    <3> HIDE DEF key
    <3> QED  BY <2>1, ImageFinite
  <2>4. keys \in SUBSET image
    BY DEF KeysOf, Views, Selected, KeptWhole
  <2> HIDE DEF keys, image
  <2> QED  BY <2>2, <2>3, <2>4, FS_Subset
<1>2. ASSUME NEW k \in keys
      PROVE  IF view = "sourceIpPaths" THEN k \in Nat \X Nat ELSE k \in Int
  BY KeyType DEF Views, Selected, KeptWhole, AllViews
<1> QED  BY <1>1, <1>2 DEF AreKeys

\* The counts in a tally are numbers,
LEMMA TallyType ==
  ASSUME NEW values, IsFiniteSet(DOMAIN values), NEW tally, IsTallyOf(tally, values)
  PROVE  /\ IsFiniteSet(BagToSet(tally)) /\ Distinct(tally) \in Nat
         /\ \A v : Copies(v, tally) \in Nat
         /\ \A v \in BagToSet(tally) : tally[v] \in Nat
<1>1. IsFiniteSet(BagToSet(tally)) /\ Distinct(tally) \in Nat
  <2>1. IsFiniteSet(ToSet(values))
    BY ImageFinite DEF ToSet
  <2>2. BagToSet(tally) \in SUBSET ToSet(values)
    BY DEF IsTallyOf
  <2> QED  BY <2>1, <2>2, FS_Subset, FS_CardinalityType DEF Distinct
<1>2. ASSUME NEW v \in BagToSet(tally)
      PROVE  Copies(v, tally) \in Nat
  <2> DEFINE at == {i \in DOMAIN values : values[i] = v}
  <2>1. Copies(v, tally) = Cardinality(at)
    BY DEF IsTallyOf
  <2>2. at \in SUBSET DOMAIN values
    OBVIOUS
  <2> HIDE DEF at
  <2> QED  BY <2>1, <2>2, FS_Subset, FS_CardinalityType
<1>3. \A v : v \notin BagToSet(tally) => Copies(v, tally) = 0
  BY DEF Copies, BagIn
<1>4. \A v \in BagToSet(tally) : tally[v] = Copies(v, tally)
  BY DEF Copies, BagIn
<1> QED  BY <1>1, <1>2, <1>3, <1>4

\* and so is the total of a summary.
LEMMA SummaryType ==
  ASSUME NEW values, IsFiniteSet(DOMAIN values),
         \A i \in DOMAIN values : values[i] \in Nat \union {None},
         NEW responses, IsSummaryOf(responses, values)
  PROVE  responses.total \in Nat
<1> DEFINE sized == {i \in DOMAIN values : values[i] # None}
<1>1. IsFiniteSet(sized) /\ \A i \in sized : values[i] \in Nat
  <2>1. sized \in SUBSET DOMAIN values
    OBVIOUS
  <2> QED  BY <2>1, FS_Subset
<1>2. responses.total = IF sized = {} THEN 0 ELSE SumOf(values, sized)
  BY DEF IsSummaryOf, SumOf, NoResponses
<1> HIDE DEF sized
<1> QED  BY <1>1, <1>2, SumType

\* What the axes look at is a number, or it does not apply.
LEMMA ScoreType ==
  ASSUME NEW entries, AreEntries(entries), NEW view \in Selected, NEW group, NEW limit,
         \A field \in Fields[view] : IsExact(field, group[field], entries, limit)
  PROVE  /\ group.requestCount \in Nat
         /\ \A axis \in Axes(view) : \A known : Score(axis, group, known) \in Int \union {None}
<1> DEFINE noted(field) == [i \in DOMAIN entries |-> Noted(field, entries[i])]
           sizes == [i \in DOMAIN entries |-> entries[i]["responseBytes"]]
<1>1. /\ IsFiniteSet(DOMAIN entries) /\ \A field : DOMAIN noted(field) = DOMAIN entries
      /\ DOMAIN sizes = DOMAIN entries /\ \A i \in DOMAIN entries : sizes[i] \in Nat \union {None}
  BY DEF AreEntries, EntryType
<1>2. group.requestCount \in Nat
  <2>1. "requestCount" \in Fields[view]
    BY DEF Fields, Selected
  <2>2. group["requestCount"] = Cardinality(DOMAIN entries)
    BY <2>1 DEF IsExact
  <2> QED  BY <1>1, <2>2, FS_CardinalityType
<1>3. ASSUME NEW field \in Fields[view] \cap Tallies
      PROVE  /\ IsFiniteSet(BagToSet(group[field])) /\ Distinct(group[field]) \in Nat
             /\ \A v : Copies(v, group[field]) \in Nat
             /\ \A v \in BagToSet(group[field]) : group[field][v] \in Nat
  <2>1. IsTallyOf(group[field], noted(field))
    BY DEF IsExact
  <2> HIDE DEF noted
  <2> QED  BY <1>1, <2>1, TallyType
<1>4. \A n \in Nat : Positive(n) \in Int \union {None}
  BY DEF Positive
<1>5. ASSUME NEW from, NEW to, "statuses" \in Fields[view]
      PROVE  StatusClass(group, from, to) \in Nat
  <2> DEFINE S == {status \in BagToSet(group.statuses) : status \in from..to}
             statuses == group.statuses
  <2>1. IsFiniteSet(BagToSet(statuses)) /\ \A v \in BagToSet(statuses) : statuses[v] \in Nat
    BY <1>3, <1>5 DEF Tallies
  <2>2. S \in SUBSET BagToSet(statuses)
    OBVIOUS
  <2>3. IsFiniteSet(S) /\ \A v \in S : statuses[v] \in Nat
    BY <2>1, <2>2, FS_Subset
  <2>4. StatusClass(group, from, to) = SumOf(statuses, S)
    BY DEF StatusClass, SumOf
  <2> HIDE DEF S, statuses
  <2> QED  BY <2>3, <2>4, SumType
<1> HIDE DEF noted
<1>6. ASSUME NEW axis \in Axes(view), NEW known
      PROVE  Score(axis, group, known) \in Int \union {None}
  <2>1. CASE axis \in {"known_information", "request_count"}
    BY <1>2, <2>1 DEF Score
  <2>2. CASE axis = "distinct_source_ip"
    <3>1. "sourceIps" \in Fields[view] \cap Tallies
      BY <2>2 DEF Axes, Fields, Tallies, Selected
    <3> QED  BY <1>3, <1>4, <2>2, <3>1 DEF Score
  <2>3. CASE axis = "distinct_path"
    <3>1. "paths" \in Fields[view] \cap Tallies
      BY <2>3 DEF Axes, Fields, Tallies, Selected
    <3> QED  BY <1>3, <1>4, <2>3, <3>1 DEF Score
  <2>4. CASE axis \in {"status_4xx", "status_5xx"}
    <3>1. "statuses" \in Fields[view]
      BY <2>4 DEF Axes, Fields, Selected
    <3> QED  BY <1>4, <1>5, <2>4, <3>1 DEF Score
  <2>5. CASE axis = "method_post"
    <3>1. "methods" \in Fields[view] \cap Tallies
      BY <2>5 DEF Axes, Fields, Tallies, Selected
    <3> QED  BY <1>3, <1>4, <2>5, <3>1 DEF Score
  <2>6. CASE axis = "response_size"
    <3>1. "responses" \in Fields[view]
      BY <2>6 DEF Axes, Fields, Selected
    <3>2. IsSummaryOf(group["responses"], sizes)
      BY <3>1 DEF IsExact
    <3> HIDE DEF sizes
    <3>3. group.responses.total \in Nat
      BY <1>1, <3>2, SummaryType
    <3> QED  BY <2>6, <3>3 DEF Score
  <2> QED  BY <2>1, <2>2, <2>3, <2>4, <2>5, <2>6 DEF Axes, Selected
<1> QED  BY <1>2, <1>6

\* The parts of selectGroups, for a view as it is.
AxisLimitsOk(view, axisLimit) ==
  \A axis \in Axes(view) \union {"representative"} : axisLimit[axis] \in Nat

\* The picks of the axes; the rest, the representatives among it, the reasons of
\* every group, the candidates and the kept ones.
PickedOn(view, groups, known, axisLimit) ==
  [axis \in Axes(view) |-> Picked(view, groups, known, axis, axisLimit[axis])]

RestOf(view, groups, known, axisLimit) ==
  DOMAIN groups \ UNION {PickedOn(view, groups, known, axisLimit)[axis] : axis \in Axes(view)}

RepresentativesOf(view, groups, known, axisLimit) ==
  FirstOf(RestOf(view, groups, known, axisLimit), LAMBDA a, b : KeyBefore(view, a, b),
          axisLimit["representative"])

ReasonsOf(view, groups, known, axisLimit) ==
  [key \in DOMAIN groups |->
     {axis \in Axes(view) : key \in PickedOn(view, groups, known, axisLimit)[axis]}
       \union {r \in {"representative"} : key \in RepresentativesOf(view, groups, known, axisLimit)}]

CandidatesOf(view, groups, known, axisLimit) ==
  {key \in DOMAIN groups : ReasonsOf(view, groups, known, axisLimit)[key] # {}}

KeptGroups(view, groups, known, axisLimit, totalLimit) ==
  IF Cardinality(CandidatesOf(view, groups, known, axisLimit)) <= totalLimit
  THEN CandidatesOf(view, groups, known, axisLimit)
  ELSE KeptOf(view, groups, ReasonsOf(view, groups, known, axisLimit),
              CandidatesOf(view, groups, known, axisLimit), totalLimit)

\* selectGroups, put together of its parts.
LEMMA SelectGroupsIs ==
  ASSUME NEW view, NEW groups, NEW known, NEW axisLimit, NEW totalLimit
  PROVE  LET kept == KeptGroups(view, groups, known, axisLimit, totalLimit)
             selection == SelectGroups(view, groups, known, axisLimit, totalLimit)
         IN  /\ selection.reasons = [key \in kept |-> ReasonsOf(view, groups, known, axisLimit)[key]]
             /\ selection.truncation.totalGroups = Cardinality(DOMAIN groups)
             /\ selection.truncation.selectedGroups = Cardinality(kept)
             /\ selection.truncation.omittedGroups = Cardinality(DOMAIN groups) - Cardinality(kept)
BY DEF SelectGroups, KeptGroups, CandidatesOf, ReasonsOf, RepresentativesOf, RestOf, PickedOn, Truncation

\* Only groups are kept.
LEMMA KeptAreGroups ==
  ASSUME NEW view, NEW groups, NEW known, NEW axisLimit, NEW totalLimit
  PROVE  KeptGroups(view, groups, known, axisLimit, totalLimit) \in SUBSET DOMAIN groups
BY DEF KeptGroups, CandidatesOf, KeptOf, FirstOf

\* A representative is not the pick of an axis.
LEMMA RepresentativeIsNoAxis ==
  ASSUME NEW view \in Selected
  PROVE  "representative" \notin Axes(view)
BY DEF Selected, Axes

\* What an axis leaves out, it leaves out for as many others that count for as
\* much.
LEMMA PickedDeserve ==
  ASSUME NEW view, NEW groups, AreKeys(view, DOMAIN groups), NEW known, NEW axis, NEW limit \in Nat,
         \A key \in DOMAIN groups : Score(axis, groups[key], key \in known) \in Int \union {None},
         NEW key \in DOMAIN groups, key \notin Picked(view, groups, known, axis, limit),
         Score(axis, groups[key], key \in known) # None
  PROVE  /\ Cardinality(Picked(view, groups, known, axis, limit)) = limit
         /\ \A k \in Picked(view, groups, known, axis, limit) :
              /\ k \in DOMAIN groups /\ k # key /\ Score(axis, groups[k], k \in known) # None
              /\ Score(axis, groups[k], k \in known) >= Score(axis, groups[key], key \in known)
<1> DEFINE score == [k \in DOMAIN groups |-> Score(axis, groups[k], k \in known)]
           applies == {k \in DOMAIN groups : score[k] # None}
           picked == Picked(view, groups, known, axis, limit)
<1>1. picked = FirstInValue(view, score, applies, limit)
  BY DEF Picked, FirstOf, FirstInValue
<1>2. AreKeys(view, applies) /\ \A k \in applies : score[k] \in Int
  <2>1. applies \in SUBSET DOMAIN groups
    OBVIOUS
  <2> HIDE DEF applies
  <2>2. IsFiniteSet(applies)
    BY <2>1, FS_Subset DEF AreKeys
  <2>3. AreKeys(view, applies)
    BY <2>1, <2>2 DEF AreKeys
  <2> QED  BY <2>3 DEF applies
<1>3. /\ \A k \in DOMAIN groups : score[k] = Score(axis, groups[k], k \in known)
      /\ picked \subseteq applies /\ applies \subseteq DOMAIN groups /\ key \in applies /\ key \notin picked
      /\ \A k \in applies : score[k] # None
  BY <1>1 DEF FirstInValue
<1> HIDE DEF applies, score, picked
<1>4. Cardinality(picked) = limit /\ \A j \in picked : HigherFirst(view, score, j, key)
  BY <1>1, <1>2, <1>3, FirstByValue
<1>5. ASSUME NEW k \in picked
      PROVE  k \in DOMAIN groups /\ k # key /\ score[k] # None /\ score[k] >= score[key]
  BY <1>2, <1>3, <1>4, ValueOrder DEF HigherFirst
<1> QED  BY <1>3, <1>4, <1>5 DEF picked

\* What is known of the groups of a view before some are selected.
Selectable(view, groups, known, axisLimit, totalLimit) ==
  /\ view \in Selected /\ AreKeys(view, DOMAIN groups)
  /\ totalLimit \in Nat /\ \A axis \in Reasons : axisLimit[axis] \in Nat
  /\ known \subseteq DOMAIN groups
  /\ \A key \in DOMAIN groups :
       /\ groups[key].requestCount \in Int
       /\ \A axis \in Axes(view) : Score(axis, groups[key], key \in known) \in Int \union {None}

\* The other groups that count for as much on an axis.
Better(axis, groups, known, key) ==
  {k \in DOMAIN groups : /\ Score(axis, groups[k], k \in known) # None
                         /\ Score(axis, groups[k], k \in known) >= Score(axis, groups[key], key \in known)}
    \ {key}

Holders(reasons, reason) == {key \in DOMAIN reasons : reason \in reasons[key]}

\* The reasons are those of the axes and one more.
LEMMA AxesAreReasons ==
  ASSUME NEW view \in Selected
  PROVE  Axes(view) \subseteq Reasons /\ "representative" \in Reasons
<1>1. Axes(view) \in {Axes(v) : v \in Selected}
  OBVIOUS
<1> QED  BY <1>1 DEF Reasons

\* The groups that have a reason are those that were picked for it.
LEMMA ReasonsAre ==
  ASSUME NEW view \in Selected, NEW groups, NEW known, NEW axisLimit, NEW axis \in Axes(view),
         NEW key \in DOMAIN groups
  PROVE  LET reasons == ReasonsOf(view, groups, known, axisLimit)[key]
         IN  /\ axis \in reasons <=> key \in Picked(view, groups, known, axis, axisLimit[axis])
             /\ "representative" \in reasons <=>
                  key \in RepresentativesOf(view, groups, known, axisLimit)
             /\ reasons \subseteq Reasons
BY RepresentativeIsNoAxis, AxesAreReasons DEF ReasonsOf, PickedOn

\* While there is room, what is omitted found every axis that applies to it full
\* of groups that count for as much, and the representatives full.
LEMMA RoomForMore ==
  ASSUME NEW view, NEW groups, NEW known, NEW axisLimit, NEW totalLimit,
         Selectable(view, groups, known, axisLimit, totalLimit),
         NEW reasons,
         reasons = [key \in CandidatesOf(view, groups, known, axisLimit) |->
                      ReasonsOf(view, groups, known, axisLimit)[key]],
         NEW key \in DOMAIN groups \ DOMAIN reasons
  PROVE  /\ Cardinality(Holders(reasons, "representative")) = axisLimit["representative"]
         /\ \A axis \in Axes(view) : Score(axis, groups[key], key \in known) # None =>
              Cardinality(Holders(reasons, axis) \intersect Better(axis, groups, known, key))
                = axisLimit[axis]
<1> DEFINE candidates == CandidatesOf(view, groups, known, axisLimit)
           all == ReasonsOf(view, groups, known, axisLimit)
           picked(axis) == Picked(view, groups, known, axis, axisLimit[axis])
           rest == RestOf(view, groups, known, axisLimit)
           representatives == RepresentativesOf(view, groups, known, axisLimit)
<1>1. /\ view \in Selected /\ AreKeys(view, DOMAIN groups)
      /\ \A axis \in Axes(view) : axisLimit[axis] \in Nat
      /\ axisLimit["representative"] \in Nat
      /\ \A k \in DOMAIN groups, axis \in Axes(view) :
           Score(axis, groups[k], k \in known) \in Int \union {None}
  BY AxesAreReasons DEF Selectable
<1>2. /\ DOMAIN reasons = candidates /\ candidates = {k \in DOMAIN groups : all[k] # {}}
      /\ \A k \in candidates : reasons[k] = all[k]
  BY DEF CandidatesOf
<1>3. /\ rest = DOMAIN groups \ UNION {picked(axis) : axis \in Axes(view)}
      /\ representatives = FirstInKey(view, rest, axisLimit["representative"])
  BY DEF RestOf, PickedOn, RepresentativesOf, FirstOf, FirstInKey
<1>4. \A axis \in Axes(view) : picked(axis) \subseteq DOMAIN groups
  BY DEF Picked, FirstOf
<1>5. representatives \subseteq rest /\ rest \subseteq DOMAIN groups
  BY <1>3 DEF FirstInKey
<1>6. ASSUME NEW axis \in Axes(view)
      PROVE  Holders(reasons, axis) = picked(axis)
  <2>1. \A k \in DOMAIN groups : axis \in all[k] <=> k \in picked(axis)
    BY <1>1, ReasonsAre
  <2> HIDE DEF all, picked, candidates
  <2> QED  BY <1>2, <1>4, <2>1 DEF Holders
<1>7. Holders(reasons, "representative") = representatives
  <2>1. \A k \in DOMAIN groups : "representative" \in all[k] <=> k \in representatives
    BY <1>1 DEF ReasonsOf, Axes, Selected
  <2> HIDE DEF all, representatives, candidates
  <2> QED  BY <1>2, <1>5, <2>1 DEF Holders
<1>8. key \in DOMAIN groups /\ key \notin candidates /\ all[key] = {}
  BY <1>2
<1>9. ASSUME NEW axis \in Axes(view), Score(axis, groups[key], key \in known) # None
      PROVE  Cardinality(Holders(reasons, axis) \intersect Better(axis, groups, known, key))
               = axisLimit[axis]
  <2>1. key \notin picked(axis)
    BY <1>1, <1>8, ReasonsAre
  <2>2. /\ Cardinality(picked(axis)) = axisLimit[axis]
        /\ \A k \in picked(axis) :
              /\ k \in DOMAIN groups /\ k # key /\ Score(axis, groups[k], k \in known) # None
              /\ Score(axis, groups[k], k \in known) >= Score(axis, groups[key], key \in known)
    BY <1>1, <1>8, <1>9, <2>1, PickedDeserve
  <2> HIDE DEF picked
  <2>3. picked(axis) \intersect Better(axis, groups, known, key) = picked(axis)
    BY <2>2 DEF Better
  <2> QED  BY <1>6, <2>2, <2>3
<1>10. Cardinality(representatives) = axisLimit["representative"]
  <2>1. key \in rest /\ key \notin representatives
    <3>1. \A axis \in Axes(view) : key \notin picked(axis)
      BY <1>1, <1>8, ReasonsAre
    <3>2. key \notin representatives
      BY <1>8 DEF ReasonsOf
    <3> HIDE DEF picked, representatives, rest
    <3> QED  BY <1>3, <1>8, <3>1, <3>2
  <2>2. AreKeys(view, rest)
    <3> HIDE DEF rest
    <3> QED  BY <1>1, <1>5, FS_Subset DEF AreKeys
  <2> HIDE DEF representatives, rest
  <2> QED  BY <1>1, <1>3, <2>1, <2>2, FirstByKey
<1> QED  BY <1>7, <1>9, <1>10

\* Known information that deserves its axis is not omitted for other groups.
LEMMA KnownComeFirst ==
  ASSUME NEW view, NEW groups, NEW known, NEW axisLimit, NEW totalLimit,
         Selectable(view, groups, known, axisLimit, totalLimit),
         NEW kept, kept = KeptGroups(view, groups, known, axisLimit, totalLimit),
         NEW key \in DOMAIN groups \ kept,
         key \in known, "known_information" \in Axes(view),
         Cardinality(Better("known_information", groups, known, key)) < axisLimit["known_information"],
         NEW k \in kept
  PROVE  k \in Picked(view, groups, known, "known_information", axisLimit["known_information"])
<1> DEFINE axis == "known_information"
           limit == axisLimit[axis]
           picked == Picked(view, groups, known, axis, limit)
           candidates == CandidatesOf(view, groups, known, axisLimit)
           all == ReasonsOf(view, groups, known, axisLimit)
           counts == RequestCounts(groups)
<1>1. /\ view \in Selected /\ AreKeys(view, DOMAIN groups) /\ axis \in Axes(view)
      /\ limit \in Nat /\ totalLimit \in Nat
      /\ \A j \in DOMAIN groups : groups[j].requestCount \in Int
      /\ \A j \in DOMAIN groups : Score(axis, groups[j], j \in known) \in Int \union {None}
  BY AxesAreReasons DEF Selectable
<1>2. Score(axis, groups[key], key \in known) # None
  BY <1>1, NoneIsNoNumber DEF Score
<1>3. key \in picked
  <2>1. SUFFICES ASSUME key \notin picked
                 PROVE  FALSE
    OBVIOUS
  <2>2. /\ Cardinality(picked) = limit
        /\ \A j \in picked :
              /\ j \in DOMAIN groups /\ j # key /\ Score(axis, groups[j], j \in known) # None
              /\ Score(axis, groups[j], j \in known) >= Score(axis, groups[key], key \in known)
    BY <1>1, <1>2, <2>1, PickedDeserve
  <2> DEFINE better == Better(axis, groups, known, key)
  <2>3. picked \in SUBSET better
    BY <2>2 DEF Better
  <2>4. IsFiniteSet(better)
    <3>1. better \in SUBSET DOMAIN groups
      BY DEF Better
    <3> HIDE DEF better
    <3> QED  BY <1>1, <3>1, FS_Subset DEF AreKeys
  <2>5. Cardinality(better) \in Nat /\ Cardinality(picked) <= Cardinality(better)
    <3> HIDE DEF better, picked
    <3> QED  BY <2>3, <2>4, FS_Subset, FS_CardinalityType
  <2> QED  BY <1>1, <2>2, <2>5
<1>4. candidates = {j \in DOMAIN groups : all[j] # {}}
  BY DEF CandidatesOf
<1>5. \A j \in DOMAIN groups : axis \in all[j] <=> j \in picked
  BY <1>1, ReasonsAre
<1>6. key \in candidates
  BY <1>3, <1>4, <1>5
<1>7. kept = KeptOf(view, groups, all, candidates, totalLimit)
  BY <1>6 DEF KeptGroups
<1>8. kept = FirstInPriority(view, counts, all, candidates, totalLimit)
  BY <1>7 DEF KeptOf, FirstOf, FirstInPriority
<1>9. AreKeys(view, candidates) /\ \A j \in candidates : counts[j] \in Int
  <2>1. candidates \in SUBSET DOMAIN groups
    BY <1>4
  <2> HIDE DEF candidates
  <2>2. AreKeys(view, candidates)
    BY <1>1, <2>1, FS_Subset DEF AreKeys
  <2> QED  BY <1>1, <2>1, <2>2 DEF RequestCounts
<1> HIDE DEF candidates, counts, all, picked
<1>10. PriorityBefore(view, counts, all, k, key)
  BY <1>1, <1>6, <1>8, <1>9, FirstByPriority
<1>11. axis \in all[key]
  BY <1>3, <1>5
<1>12. axis \in all[k]
  BY <1>10, <1>11 DEF PriorityBefore
<1>13. k \in DOMAIN groups
  BY <1>4, <1>8 DEF FirstInPriority
<1> QED  BY <1>5, <1>12, <1>13 DEF picked

-----------------------------------------------------------------------------
(* The set that is put together of what was read.                           *)

\* Once the log is read, the groups are what the entries say they are.
LEMMA Readable ==
  ASSUME EInv, result.errorCode # "ANALYZER_AGGREGATION_FAILED", ConfigValid
  PROVE  /\ AreEntries(Entries)
         /\ \A view \in Views :
              /\ DOMAIN Groups(view) = KeysOf(view, Entries)
              /\ AreKeys(view, DOMAIN Groups(view))
              /\ config.totalLimit[view] \in Nat
         /\ \A view \in Selected :
              Selectable(view, Groups(view), Known(view), config.axisLimit, config.totalLimit[view])
<1>1. AreEntries(Entries)
  BY EntriesAre DEF EInv, IInv, TypeOK
<1>2. ASSUME NEW view \in Views
      PROVE  /\ AreExact(view, Groups(view), Entries, config.sampleLimit)
             /\ DOMAIN Groups(view) = KeysOf(view, Entries)
             /\ AreKeys(view, DOMAIN Groups(view))
             /\ config.totalLimit[view] \in Nat
  <2>1. AreExact(view, Groups(view), Entries, config.sampleLimit)
    BY DEF EInv, Exactness, AllViews, Groups
  <2>2. DOMAIN Groups(view) = KeysOf(view, Entries)
    BY <2>1 DEF AreExact
  <2>3. AreKeys(view, DOMAIN Groups(view))
    BY <1>1, <2>2, KeysAreKeys
  <2>4. config \in Configs
    BY DEF EInv, IInv, TypeOK
  <2>5. config.totalLimit[view] \in Nat
    BY <2>4, ConfigsAssumption DEF ConfigValid
  <2> QED  BY <2>1, <2>2, <2>3, <2>5
<1>3. ASSUME NEW view \in Selected
      PROVE  Selectable(view, Groups(view), Known(view), config.axisLimit, config.totalLimit[view])
  <2>1. view \in Views /\ view \in AllViews
    BY DEF Views, AllViews
  <2>2. \A axis \in Reasons : config.axisLimit[axis] \in Nat
    <3>1. config \in Configs
      BY DEF EInv, IInv, TypeOK
    <3> QED  BY <3>1, ConfigsAssumption DEF ConfigValid
  <2>3. Known(view) \subseteq DOMAIN Groups(view)
    BY DEF Known, Selected
  <2>4. ASSUME NEW key \in DOMAIN Groups(view)
        PROVE  /\ Groups(view)[key].requestCount \in Int
               /\ \A axis \in Axes(view) :
                    Score(axis, Groups(view)[key], key \in Known(view)) \in Int \union {None}
    <3>1. \A field \in Fields[view] :
            IsExact(field, Groups(view)[key][field], Members(view, key, Entries), config.sampleLimit)
      BY <1>2, <2>1 DEF AreExact
    <3>2. AreEntries(Members(view, key, Entries))
      BY <1>1, MembersAreEntries
    <3>3. /\ Groups(view)[key].requestCount \in Nat
          /\ \A axis \in Axes(view) : \A known :
               Score(axis, Groups(view)[key], known) \in Int \union {None}
      BY <3>1, <3>2, ScoreType
    <3> QED  BY <3>3
  <2> QED  BY <1>2, <2>1, <2>2, <2>3, <2>4 DEF Selectable
<1> QED  BY <1>1, <1>2, <1>3

\* The kept groups of a view, and the set as it is put together.
Kept(view) == KeptGroups(view, Groups(view), Known(view), config.axisLimit, config.totalLimit[view])

\* The parts of the set, each from the groups that were kept.
LEMMA SetIs ==
  /\ \A view \in Selected : ObservationSet.reasons[view] =
       [key \in Kept(view) |-> ReasonsOf(view, Groups(view), Known(view), config.axisLimit)[key]]
  /\ \A view \in Selected :
       LET t == ObservationSet.truncation[view]
       IN  /\ t.totalGroups = Cardinality(DOMAIN Groups(view))
           /\ t.selectedGroups = Cardinality(Kept(view))
           /\ t.omittedGroups = Cardinality(DOMAIN Groups(view)) - Cardinality(Kept(view))
  /\ \A view \in KeptWhole :
       LET t == ObservationSet.truncation[view]
           kept == KeepAllUpToLimit(view, Groups(view), config.totalLimit[view]).kept
       IN  /\ t.totalGroups = Cardinality(DOMAIN Groups(view))
           /\ t.selectedGroups = Cardinality(kept)
           /\ t.omittedGroups = Cardinality(DOMAIN Groups(view)) - Cardinality(kept)
  /\ ObservationSet.pathRefs = Resolved(Kept("sourceIpPaths"), 2, Kept("paths"))
  /\ ObservationSet.sourceIpRefs = Resolved(Kept("sourceIpPaths"), 1, Kept("sourceIps"))
  /\ ObservationSet.queries =
       [path \in Kept("paths") |-> RedactSampleQueries(Groups("paths")[path]["sampleQueries"])]
  /\ ObservationSet.referrers =
       [path \in Kept("paths") |-> RedactSampleReferrers(Groups("paths")[path]["sampleReferrers"])]
  /\ ObservationSet.matchedIds = UNION {KnownIds(path) : path \in Known("paths")}
  /\ ObservationSet.omissions = Omissions(Kept("paths"))
<1> DEFINE kept(view) == DOMAIN Selections[view].reasons
           sample(path, field) == Groups("paths")[path][field]
<1>1. \A view \in Selected :
        Selections[view] = SelectGroups(view, Groups(view), Known(view), config.axisLimit, config.totalLimit[view])
  BY DEF Selections
<1>2. \A view \in Selected :
        /\ Selections[view].reasons =
             [key \in Kept(view) |-> ReasonsOf(view, Groups(view), Known(view), config.axisLimit)[key]]
        /\ Selections[view].truncation.totalGroups = Cardinality(DOMAIN Groups(view))
        /\ Selections[view].truncation.selectedGroups = Cardinality(Kept(view))
        /\ Selections[view].truncation.omittedGroups
             = Cardinality(DOMAIN Groups(view)) - Cardinality(Kept(view))
  BY <1>1, SelectGroupsIs DEF Kept
<1>3. \A view \in Selected : kept(view) = Kept(view)
  BY <1>2
<1>4. kept("paths") = Kept("paths") /\ kept("sourceIps") = Kept("sourceIps")
      /\ kept("sourceIpPaths") = Kept("sourceIpPaths")
  BY <1>3 DEF Selected
<1> HIDE DEF kept
<1>5. /\ ObservationSet.reasons = [view \in Selected |-> Selections[view].reasons]
      /\ ObservationSet.truncation =
           [view \in Views |-> IF view \in Selected THEN Selections[view].truncation
                                                    ELSE Wholes[view].truncation]
      /\ ObservationSet.pathRefs = Resolved(kept("sourceIpPaths"), 2, kept("paths"))
      /\ ObservationSet.sourceIpRefs = Resolved(kept("sourceIpPaths"), 1, kept("sourceIps"))
      /\ ObservationSet.queries =
           [path \in kept("paths") |-> RedactSampleQueries(sample(path, "sampleQueries"))]
      /\ ObservationSet.referrers =
           [path \in kept("paths") |-> RedactSampleReferrers(sample(path, "sampleReferrers"))]
      /\ ObservationSet.matchedIds = UNION {KnownIds(path) : path \in Known("paths")}
      /\ ObservationSet.omissions = Omissions(kept("paths"))
  BY DEF ObservationSet, kept
<1>6. ASSUME NEW view \in Selected
      PROVE  LET t == ObservationSet.truncation[view]
             IN  /\ t.totalGroups = Cardinality(DOMAIN Groups(view))
                 /\ t.selectedGroups = Cardinality(Kept(view))
                 /\ t.omittedGroups = Cardinality(DOMAIN Groups(view)) - Cardinality(Kept(view))
  <2>1. ObservationSet.truncation[view] = Selections[view].truncation
    BY <1>5 DEF Views
  <2> QED  BY <1>2, <2>1
<1>7. ASSUME NEW view \in KeptWhole
      PROVE  LET t == ObservationSet.truncation[view]
                 whole == KeepAllUpToLimit(view, Groups(view), config.totalLimit[view]).kept
             IN  /\ t.totalGroups = Cardinality(DOMAIN Groups(view))
                 /\ t.selectedGroups = Cardinality(whole)
                 /\ t.omittedGroups = Cardinality(DOMAIN Groups(view)) - Cardinality(whole)
  <2>1. ObservationSet.truncation[view] = KeepAllUpToLimit(view, Groups(view), config.totalLimit[view]).truncation
    BY <1>5 DEF Views, Wholes, Selected, KeptWhole
  <2> DEFINE whole == KeepAllUpToLimit(view, Groups(view), config.totalLimit[view])
             total == Cardinality(DOMAIN Groups(view))
  <2>2. whole.truncation = Truncation(total, total, Cardinality(whole.kept))
    BY DEF KeepAllUpToLimit
  <2> HIDE DEF whole, total
  <2>3. ObservationSet.truncation[view] = Truncation(total, total, Cardinality(whole.kept))
    BY <2>1, <2>2 DEF whole
  <2> QED  BY <2>3 DEF Truncation, whole, total
<1>8. \A view \in Selected : ObservationSet.reasons[view] =
        [key \in Kept(view) |-> ReasonsOf(view, Groups(view), Known(view), config.axisLimit)[key]]
  BY <1>2, <1>5
<1> QED  BY <1>4, <1>5, <1>6, <1>7, <1>8

\* The net is never needed: a set that is put together is valid.
LEMMA SetIsValid ==
  ASSUME EInv, result.errorCode # "ANALYZER_AGGREGATION_FAILED", ConfigValid
  PROVE  IsValid(ObservationSet)
<1>1. ASSUME NEW view \in Views, NEW kept \in SUBSET DOMAIN Groups(view)
      PROVE  Cardinality(kept) \in Nat /\ Cardinality(DOMAIN Groups(view)) \in Nat
  <2>1. IsFiniteSet(DOMAIN Groups(view))
    BY Readable DEF AreKeys
  <2> QED  BY <2>1, FS_Subset, FS_CardinalityType
<1>2. ASSUME NEW view \in Views
      PROVE  LET t == ObservationSet.truncation[view]
             IN  t.selectedGroups + t.omittedGroups = t.totalGroups
  <2>1. CASE view \in Selected
    <3>1. Kept(view) \in SUBSET DOMAIN Groups(view)
      BY KeptAreGroups DEF Kept
    <3>2. Cardinality(Kept(view)) \in Nat /\ Cardinality(DOMAIN Groups(view)) \in Nat
      BY <1>1, <3>1
    <3> QED  BY <2>1, <3>2, SetIs
  <2>2. CASE view \in KeptWhole
    <3> DEFINE kept == KeepAllUpToLimit(view, Groups(view), config.totalLimit[view]).kept
    <3>1. kept \in SUBSET DOMAIN Groups(view)
      BY DEF KeepAllUpToLimit, FirstOf
    <3>2. Cardinality(kept) \in Nat /\ Cardinality(DOMAIN Groups(view)) \in Nat
      BY <1>1, <3>1
    <3>3. LET t == ObservationSet.truncation[view]
          IN  /\ t.totalGroups = Cardinality(DOMAIN Groups(view))
              /\ t.selectedGroups = Cardinality(kept)
              /\ t.omittedGroups = Cardinality(DOMAIN Groups(view)) - Cardinality(kept)
      BY <2>2, SetIs
    <3> HIDE DEF kept
    <3> QED  BY <3>2, <3>3
  <2> QED  BY <2>1, <2>2 DEF Views
<1>3. ASSUME NEW view \in Selected
      PROVE  /\ DOMAIN ObservationSet.reasons[view] = Kept(view)
             /\ \A key \in Kept(view) : ObservationSet.reasons[view][key] \subseteq Reasons
  <2>1. ObservationSet.reasons[view] =
          [key \in Kept(view) |-> ReasonsOf(view, Groups(view), Known(view), config.axisLimit)[key]]
    BY SetIs
  <2>2. Kept(view) \in SUBSET DOMAIN Groups(view)
    BY KeptAreGroups DEF Kept
  <2>3. \A key \in DOMAIN Groups(view) :
          ReasonsOf(view, Groups(view), Known(view), config.axisLimit)[key] \subseteq Reasons
    BY AxesAreReasons DEF ReasonsOf
  <2> QED  BY <2>1, <2>2, <2>3
<1>4. /\ \A pair \in ObservationSet.pathRefs : pair[2] \in DOMAIN ObservationSet.reasons["paths"]
      /\ \A pair \in ObservationSet.sourceIpRefs : pair[1] \in DOMAIN ObservationSet.reasons["sourceIps"]
  <2>1. /\ DOMAIN ObservationSet.reasons["paths"] = Kept("paths")
        /\ DOMAIN ObservationSet.reasons["sourceIps"] = Kept("sourceIps")
    BY <1>3 DEF Selected
  <2>2. /\ ObservationSet.pathRefs = Resolved(Kept("sourceIpPaths"), 2, Kept("paths"))
        /\ ObservationSet.sourceIpRefs = Resolved(Kept("sourceIpPaths"), 1, Kept("sourceIps"))
    BY SetIs
  <2> QED  BY <2>1, <2>2 DEF Resolved
<1> QED  BY <1>2, <1>3, <1>4 DEF IsValid

\* An analysis that delivered a set was read to its end.
LEMMA AnalyzedSays ==
  ASSUME EInv, Analyzed
  PROVE  /\ Set = ObservationSet /\ ConfigValid /\ result.errorCode # "ANALYZER_AGGREGATION_FAILED"
BY DEF EInv, Outcomes, Checked, ErrorCodes


\* The totals of the views are those of the log, and the net catches nothing.
LEMMA ValidatorSays ==
  ASSUME EInv
  PROVE  ValidatorCatchesNothing
<1>1. result.errorCode # "ANALYZER_OBSERVATION_SET_INVALID"
  <2>1. SUFFICES ASSUME result.errorCode = "ANALYZER_OBSERVATION_SET_INVALID"
                 PROVE  FALSE
    OBVIOUS
  <2>2. ~IsValid(ObservationSet) /\ ConfigValid
    BY <2>1 DEF EInv, Outcomes, Checked
  <2> QED  BY <2>1, <2>2, SetIsValid
<1>2. ASSUME Analyzed, NEW view \in Views
      PROVE  Set.truncation[view].totalGroups =
               Cardinality({KeyOf(view, entry) : entry \in ToSet(Entries)} \ {None})
  <2>1. Set = ObservationSet /\ ConfigValid /\ result.errorCode # "ANALYZER_AGGREGATION_FAILED"
    BY <1>2, AnalyzedSays
  <2>2. DOMAIN Groups(view) = KeysOf(view, Entries)
    BY <2>1, Readable
  <2>3. KeysOf(view, Entries) = {KeyOf(view, entry) : entry \in ToSet(Entries)} \ {None}
    <3>1. view # "overview"
      BY DEF Views, Selected, KeptWhole
    <3> QED  BY <3>1 DEF KeysOf, ToSet
  <2>4. ObservationSet.truncation[view].totalGroups = Cardinality(DOMAIN Groups(view))
    BY SetIs DEF Views
  <2> QED  BY <2>1, <2>2, <2>3, <2>4
<1> QED  BY <1>1, <1>2 DEF ValidatorCatchesNothing

\* The omissions are deserved, whether the limits bite or not.
LEMMA OmissionSays ==
  ASSUME EInv
  PROVE  OmissionIsDeserved
<1>1. SUFFICES ASSUME Analyzed, NEW view \in Selected, NEW key \in DOMAIN Groups(view) \ DOMAIN Set.reasons[view]
      PROVE  LET reasons == Set.reasons[view]
                 better(axis) == Better(axis, Groups(view), Known(view), key)
             IN  IF Cardinality(DOMAIN reasons) < config.totalLimit[view]
                 THEN /\ Cardinality(Holders(reasons, "representative")) = config.axisLimit["representative"]
                      /\ \A axis \in Axes(view) : Score(axis, Groups(view)[key], key \in Known(view)) # None =>
                           Cardinality(Holders(reasons, axis) \intersect better(axis)) = config.axisLimit[axis]
                 ELSE /\ Cardinality(DOMAIN reasons) = config.totalLimit[view]
                      /\ /\ key \in Known(view) /\ "known_information" \in Axes(view)
                         /\ Cardinality(better("known_information")) < config.axisLimit["known_information"]
                         => DOMAIN reasons = Holders(reasons, "known_information")
  BY DEF OmissionIsDeserved, Holders, Better
<1> DEFINE groups == Groups(view)
           known == Known(view)
           axisLimit == config.axisLimit
           totalLimit == config.totalLimit[view]
           reasons == Set.reasons[view]
           kept == Kept(view)
           all == ReasonsOf(view, groups, known, axisLimit)
           candidates == CandidatesOf(view, groups, known, axisLimit)
<1>2. /\ Set = ObservationSet /\ ConfigValid /\ result.errorCode # "ANALYZER_AGGREGATION_FAILED"
  BY <1>1, AnalyzedSays
<1>3. Selectable(view, groups, known, axisLimit, totalLimit)
  BY <1>2, Readable
<1>4. /\ kept = KeptGroups(view, groups, known, axisLimit, totalLimit)
      /\ reasons = [k \in kept |-> all[k]] /\ DOMAIN reasons = kept
      /\ kept \in SUBSET DOMAIN groups
  BY <1>2, SetIs, KeptAreGroups DEF Kept
<1>5. key \in DOMAIN groups \ kept
  BY <1>1, <1>4
<1>6. /\ totalLimit \in Nat /\ AreKeys(view, DOMAIN groups) /\ IsFiniteSet(DOMAIN groups)
      /\ \A k \in DOMAIN groups : groups[k].requestCount \in Int
  BY <1>3 DEF Selectable, AreKeys
<1> HIDE DEF groups, known, axisLimit, totalLimit, reasons, kept
<1>7. /\ candidates \in SUBSET DOMAIN groups /\ IsFiniteSet(candidates) /\ Cardinality(candidates) \in Nat
  <2>1. candidates \in SUBSET DOMAIN groups
    BY DEF CandidatesOf
  <2> HIDE DEF candidates
  <2> QED  BY <1>6, <2>1, FS_Subset, FS_CardinalityType
<1>8. kept = IF Cardinality(candidates) <= totalLimit THEN candidates
             ELSE FirstInPriority(view, RequestCounts(groups), all, candidates, totalLimit)
  BY <1>4 DEF KeptGroups, KeptOf, FirstOf, FirstInPriority
<1>9. Cardinality(candidates) > totalLimit => Cardinality(kept) = totalLimit
  <2>1. SUFFICES ASSUME Cardinality(candidates) > totalLimit
                 PROVE  Cardinality(kept) = totalLimit
    OBVIOUS
  <2>2. AreKeys(view, candidates)
    BY <1>6, <1>7 DEF AreKeys
  <2>3. \A k \in candidates : RequestCounts(groups)[k] \in Int
    BY <1>6, <1>7 DEF RequestCounts
  <2> HIDE DEF candidates, all
  <2> QED  BY <1>6, <1>7, <1>8, <2>1, <2>2, <2>3, FirstByPriority
<1>10. ASSUME Cardinality(kept) < totalLimit
       PROVE  /\ Cardinality(Holders(reasons, "representative")) = axisLimit["representative"]
              /\ \A axis \in Axes(view) : Score(axis, groups[key], key \in known) # None =>
                   Cardinality(Holders(reasons, axis) \intersect Better(axis, groups, known, key))
                     = axisLimit[axis]
  <2>1. kept = candidates
    BY <1>6, <1>7, <1>8, <1>9, <1>10
  <2>2. reasons = [k \in candidates |-> all[k]] /\ key \in DOMAIN groups \ DOMAIN reasons
    BY <1>4, <1>5, <2>1
  <2> QED  BY <1>3, <2>2, RoomForMore
<1>11. ASSUME ~(Cardinality(kept) < totalLimit)
       PROVE  Cardinality(kept) = totalLimit
  BY <1>6, <1>7, <1>8, <1>9, <1>11
<1>12. ASSUME key \in known, "known_information" \in Axes(view),
              Cardinality(Better("known_information", groups, known, key)) < axisLimit["known_information"]
       PROVE  DOMAIN reasons = Holders(reasons, "known_information")
  <2>1. ASSUME NEW k \in kept
        PROVE  "known_information" \in reasons[k]
    <3>1. k \in Picked(view, groups, known, "known_information", axisLimit["known_information"])
      BY <1>3, <1>4, <1>5, <1>12, KnownComeFirst
    <3>2. "known_information" \in all[k]
      BY <1>1, <1>4, <1>12, <3>1, ReasonsAre
    <3> QED  BY <1>4, <3>2
  <2> QED  BY <1>4, <2>1 DEF Holders
<1> QED  BY <1>4, <1>10, <1>11, <1>12 DEF groups, known, axisLimit, totalLimit, reasons

-----------------------------------------------------------------------------
(* Redaction.                                                               *)

\* A value of a sensitive parameter does not survive redactQuery, nor does any
\* value whose name cannot be read; every other part stays as it was written.
THEOREM RedactionRemoves ==
  ASSUME NEW query \in Queries,
         RedactQuery(query) # Dropped,
         NEW i \in DOMAIN query
  PROVE  LET part == RedactQuery(query).value[i]
         IN  /\ Decoded[part.key] \in Sensitive \union {Bad} => part.value \in {None, Redacted}
             /\ Decoded[part.key] \notin Sensitive => part = query[i]
<1>1. CanDecode(query)
  BY DEF RedactQuery
<1>2. RedactQuery(query).value[i] = RedactPart(query[i])
  BY <1>1 DEF RedactQuery
<1>3. query[i] \in [key : Keys, value : Values \union {None}]
  <2>1. i \in 1..Len(query)
    BY DEF Queries
  <2> QED  BY <2>1, ElementOfSeq DEF Queries
<1>4. RedactPart(query[i]).key = query[i].key
  BY <1>3 DEF RedactPart
<1>5. CASE MustGo(query[i])
  BY <1>2, <1>3, <1>4, <1>5 DEF RedactPart, MustGo
<1>6. CASE ~MustGo(query[i])
  BY <1>1, <1>2, <1>3, <1>6 DEF RedactPart, MustGo, HasValue, CanDecode
<1> QED  BY <1>5, <1>6

\* The check of a redacted query fails exactly if a name that was redacted is
\* there once more, without a value or in a first key behind a "?": it finds no
\* other fault with redactQuery, and these always.
THEOREM CheckRefusesRepetition ==
  ASSUME NEW query \in Queries,
         RedactQuery(query) # Dropped
  PROVE  FullyRedacted(RedactQuery(query).value, RedactQuery(query).names)
           <=> ~Repeats(query)
<1> DEFINE output == RedactQuery(query).value
           names == RedactQuery(query).names
<1>1. /\ output = [i \in DOMAIN query |-> RedactPart(query[i])]
      /\ names = {Decoded[query[i].key] : i \in {j \in DOMAIN query : MustGo(query[j])}}
  BY DEF RedactQuery
<1>2. ASSUME NEW i \in DOMAIN query
      PROVE  /\ output[i].key = query[i].key
             /\ output[i].value = IF MustGo(query[i]) THEN Redacted ELSE query[i].value
  <2>1. output[i] = RedactPart(query[i])
    BY <1>1
  <2>2. query[i] \in [key : Keys, value : Values \union {None}]
    <3>1. i \in 1..Len(query)
      BY DEF Queries
    <3> QED  BY <3>1, ElementOfSeq DEF Queries
  <2> QED  BY <2>1, <2>2 DEF RedactPart
<1>3. ASSUME NEW i \in DOMAIN query
      PROVE  CheckedName(output, i) = CheckedName(query, i)
  BY <1>2 DEF CheckedName
<1>4. ASSUME NEW i \in DOMAIN query, MustGo(query[i])
      PROVE  Decoded[query[i].key] \in names
  BY <1>1, <1>4
<1>5. None # Redacted
  BY RedactionConstants DEF Redacted
<1>6. ASSUME RepeatedBare(query)
      PROVE  ~FullyRedacted(output, names)
  <2>1. PICK i, j \in DOMAIN query : /\ MustGo(query[i])
                                     /\ ~HasValue(query[j])
                                     /\ CheckedName(query, j) = Decoded[query[i].key]
    BY <1>6 DEF RepeatedBare
  <2>2. CheckedName(output, j) \in names
    BY <1>3, <1>4, <2>1
  <2>3. output[j].value = None
    BY <1>2, <2>1 DEF MustGo, HasValue
  <2> QED  BY <1>1, <1>5, <2>2, <2>3 DEF FullyRedacted
<1>7. ASSUME RepeatedFirst(query)
      PROVE  ~FullyRedacted(output, names)
  <2>1. PICK i \in DOMAIN query : /\ MustGo(query[i])
                                  /\ FirstRead[query[1].key] = Decoded[query[i].key]
                                  /\ ~MustGo(query[1])
                                  /\ query[1].value \notin {None, Redacted}
    BY <1>7 DEF RepeatedFirst
  <2>2. 1 \in DOMAIN query
    BY DEF Queries
  <2>3. CheckedName(output, 1) \in names
    <3>1. CheckedName(query, 1) = Decoded[query[i].key]
      BY <2>1 DEF CheckedName
    <3> QED  BY <1>3, <1>4, <2>1, <2>2, <3>1
  <2>4. output[1].value = query[1].value
    BY <1>2, <2>1, <2>2
  <2> QED  BY <1>1, <2>1, <2>2, <2>3, <2>4 DEF FullyRedacted
<1>8. ASSUME ~Repeats(query)
      PROVE  FullyRedacted(output, names)
  <2>1. SUFFICES ASSUME NEW j \in DOMAIN query, CheckedName(output, j) \in names
                 PROVE  output[j].value = Redacted
    BY <1>1 DEF FullyRedacted
  <2>2. PICK i \in DOMAIN query : MustGo(query[i]) /\ CheckedName(query, j) = Decoded[query[i].key]
    BY <1>1, <1>3, <2>1
  <2>3. HasValue(query[j])
    BY <1>8, <2>2 DEF Repeats, RepeatedBare
  <2>4. CASE MustGo(query[j])
    BY <1>2, <2>4
  <2>5. CASE ~MustGo(query[j])
    <3>1. j = 1
      BY <2>2, <2>3, <2>5 DEF CheckedName, MustGo
    <3>2. query[1].value \in {None, Redacted}
      BY <1>8, <2>2, <2>5, <3>1 DEF Repeats, RepeatedFirst, CheckedName
    <3> QED  BY <1>2, <2>3, <2>5, <3>1, <3>2 DEF HasValue
  <2> QED  BY <2>4, <2>5
<1> QED  BY <1>6, <1>7, <1>8 DEF Repeats

\* A match is kept or counted as an omission.
LEMMA TraceSays ==
  ASSUME EInv
  PROVE  KnownInformationTraceable
<1>1. SUFFICES ASSUME Analyzed, NEW known \in KnownEntries
      PROVE LET matched == {e.path : e \in {e \in ToSet(Entries) :
                              e.path # None /\ PathMatches(e.path, known.matchType, known.pattern)}}
                kept == matched \intersect DOMAIN Set.reasons["paths"]
                omitted == IF known.id \in DOMAIN Set.omissions THEN Set.omissions[known.id] ELSE 0
            IN  /\ Cardinality(matched) = Cardinality(kept) + omitted
                /\ known.id \in Set.matchedIds <=> matched # {}
  BY DEF KnownInformationTraceable
<1> DEFINE paths == DOMAIN Groups("paths")
           matched == {e.path : e \in {e \in ToSet(Entries) :
                         e.path # None /\ PathMatches(e.path, known.matchType, known.pattern)}}
           kept == matched \intersect DOMAIN Set.reasons["paths"]
           omitted == {path \in paths \ Kept("paths") : known.id \in KnownIds(path)}
<1>2. /\ Set = ObservationSet /\ ConfigValid /\ result.errorCode # "ANALYZER_AGGREGATION_FAILED"
  BY <1>1, AnalyzedSays
<1>3. paths = KeysOf("paths", Entries) /\ IsFiniteSet(paths)
  BY <1>2, Readable DEF AreKeys, Views, Selected
<1>4. /\ DOMAIN Set.reasons["paths"] = Kept("paths") /\ Kept("paths") \in SUBSET paths
      /\ Set.omissions = Omissions(Kept("paths"))
      /\ Set.matchedIds = UNION {KnownIds(path) : path \in Known("paths")}
  BY <1>2, SetIs, KeptAreGroups DEF Selected, Kept
<1>5. paths = {e.path : e \in {e \in ToSet(Entries) : e.path # None}}
  BY <1>3 DEF KeysOf, KeyOf, ViewKey, ToSet
<1>6. \A path : known.id \in KnownIds(path) <=> PathMatches(path, known.matchType, known.pattern)
  BY KnownEntriesAssumption DEF KnownIds
<1>7. matched = {path \in paths : known.id \in KnownIds(path)}
  BY <1>5, <1>6
<1>8. Known("paths") = {path \in paths : KnownIds(path) # {}}
  BY DEF Known
<1>9. known.id \in Set.matchedIds <=> matched # {}
  <2> HIDE DEF matched, paths
  <2> QED  BY <1>4, <1>7, <1>8
<1>10. /\ known.id \in DOMAIN Set.omissions <=> omitted # {}
       /\ known.id \in DOMAIN Set.omissions => Set.omissions[known.id] = Cardinality(omitted)
  <2>1. known.id \in {e.id : e \in KnownEntries}
    OBVIOUS
  <2> QED  BY <1>4, <2>1 DEF Omissions
<1>11. Cardinality(matched) = Cardinality(kept) + Cardinality(omitted)
  <2>1. kept = matched \intersect Kept("paths") /\ omitted = matched \ Kept("paths")
    BY <1>4, <1>7
  <2>2. matched \in SUBSET paths
    BY <1>7
  <2> HIDE DEF matched, kept, omitted, paths
  <2>3. IsFiniteSet(matched) /\ Cardinality(matched) \in Nat
    BY <1>3, <2>2, FS_Subset, FS_CardinalityType
  <2>4. Cardinality(matched \ Kept("paths")) = Cardinality(matched) - Cardinality(matched \intersect Kept("paths"))
    BY <2>3, FS_Difference
  <2>5. Cardinality(matched \intersect Kept("paths")) \in Nat
    <3>1. matched \intersect Kept("paths") \in SUBSET matched
      OBVIOUS
    <3> QED  BY <2>3, <3>1, FS_Subset, FS_CardinalityType
  <2> QED  BY <2>1, <2>3, <2>4, <2>5
<1>12. omitted = {} => Cardinality(omitted) = 0
  BY FS_EmptySet
<1> HIDE DEF matched, kept, omitted
<1>13. Cardinality(matched) = Cardinality(kept)
         + IF known.id \in DOMAIN Set.omissions THEN Set.omissions[known.id] ELSE 0
  BY <1>10, <1>11, <1>12
<1> QED  BY <1>9, <1>13 DEF matched, kept

\* What is sampled of a path is what its entries hold.
LEMMA SamplesAre ==
  ASSUME EInv, result.errorCode # "ANALYZER_AGGREGATION_FAILED", NEW path \in DOMAIN Groups("paths"),
         NEW field \in {"sampleQueries", "sampleReferrers"}
  PROVE  LET sample == Groups("paths")[path][field]
         IN  \A i \in DOMAIN sample :
               sample[i] # None /\ \E entry \in ToSet(Entries) : entry \in EntryType /\ Noted(field, entry) = sample[i]
<1> DEFINE members == Members("paths", path, Entries)
           noted == [i \in DOMAIN members |-> Noted(field, members[i])]
           sample == Groups("paths")[path][field]
           came == ToSet(noted) \ {None}
<1>1. AreEntries(Entries)
  BY EntriesAre DEF EInv, IInv, TypeOK
<1>2. IsExact(field, sample, members, config.sampleLimit)
  <2>1. "paths" \in AllViews /\ field \in Fields["paths"]
    BY DEF AllViews, Views, Selected, Fields, Samples
  <2> QED  BY <2>1 DEF EInv, Exactness, AreExact, Groups
<1>3. IsSampleOf(sample, noted, config.sampleLimit)
  BY <1>2 DEF IsExact, Samples
<1>4. \A i \in DOMAIN members : members[i] \in ToSet(Entries) /\ members[i] \in EntryType
  BY <1>1 DEF Members, Restrict, AreEntries, ToSet
<1>5. \A v \in came : v # None /\ \E entry \in ToSet(Entries) : entry \in EntryType /\ Noted(field, entry) = v
  <2> HIDE DEF members
  <2> QED  BY <1>4 DEF ToSet
<1>6. sample \in Seq(came)
  BY <1>3 DEF IsSampleOf
<1>7. \A i \in DOMAIN sample : sample[i] \in came
  <2> HIDE DEF came, sample
  <2> QED  BY <1>6
<1> QED  BY <1>5, <1>7

\* The sampled queries are queries of entries,
LEMMA QueriesAre ==
  ASSUME EInv, result.errorCode # "ANALYZER_AGGREGATION_FAILED", NEW path \in DOMAIN Groups("paths")
  PROVE  LET sample == Groups("paths")[path]["sampleQueries"]
         IN  \A i \in DOMAIN sample :
               /\ sample[i] \in Queries
               /\ \E entry \in ToSet(Entries) : entry.query # None /\ entry.query = sample[i]
<1> DEFINE sample == Groups("paths")[path]["sampleQueries"]
<1>1. SUFFICES ASSUME NEW i \in DOMAIN sample
      PROVE  /\ sample[i] \in Queries
             /\ \E entry \in ToSet(Entries) : entry.query # None /\ entry.query = sample[i]
  OBVIOUS
<1>2. PICK entry \in ToSet(Entries) : entry \in EntryType /\ Noted("sampleQueries", entry) = sample[i]
  BY SamplesAre
<1>3. sample[i] # None
  BY SamplesAre
<1>4. Noted("sampleQueries", entry) = entry.query
  BY DEF Noted
<1> QED  BY <1>2, <1>3, <1>4 DEF EntryType

\* and the sampled referrers are theirs, but for those that are no URL.
LEMMA ReferrersAre ==
  ASSUME EInv, result.errorCode # "ANALYZER_AGGREGATION_FAILED", NEW path \in DOMAIN Groups("paths")
  PROVE  LET sample == Groups("paths")[path]["sampleReferrers"]
         IN  \A i \in DOMAIN sample : sample[i] # Bad =>
               /\ sample[i] \in Referrers
               /\ \E entry \in ToSet(Entries) : entry.referrer \notin {None, Bad} /\ entry.referrer = sample[i]
<1> DEFINE sample == Groups("paths")[path]["sampleReferrers"]
<1>1. SUFFICES ASSUME NEW i \in DOMAIN sample, sample[i] # Bad
      PROVE  /\ sample[i] \in Referrers
             /\ \E entry \in ToSet(Entries) : entry.referrer \notin {None, Bad} /\ entry.referrer = sample[i]
  OBVIOUS
<1>2. PICK entry \in ToSet(Entries) : entry \in EntryType /\ Noted("sampleReferrers", entry) = sample[i]
  BY SamplesAre
<1>3. sample[i] # None
  BY SamplesAre
<1>4. Noted("sampleReferrers", entry) = entry.referrer
  BY DEF Noted
<1> QED  BY <1>1, <1>2, <1>3, <1>4 DEF EntryType

\* A query that was kept is one that was redacted.
LEMMA KeptQueries ==
  ASSUME NEW samples, NEW query \in ToSet(RedactSampleQueries(samples).kept)
  PROVE  \E i \in DOMAIN samples : /\ RedactQuery(samples[i]) # Dropped
                                   /\ query = RedactQuery(samples[i]).value
<1> DEFINE results == [i \in DOMAIN samples |-> RedactQuery(samples[i])]
           kept == {i \in DOMAIN results : results[i] # Dropped}
<1>1. RedactSampleQueries(samples).kept = [i \in kept |-> results[i].value]
  BY DEF RedactSampleQueries, RedactionSummary
<1>2. PICK i \in kept : query = results[i].value
  BY <1>1 DEF ToSet
<1> QED  BY <1>2

\* And so is the query of a referrer that was kept.
LEMMA KeptReferrers ==
  ASSUME NEW samples, NEW referrer \in ToSet(RedactSampleReferrers(samples).kept)
  PROVE  \E i \in DOMAIN samples : /\ samples[i] # Bad /\ RedactQuery(samples[i].query) # Dropped
                                   /\ referrer.query = RedactQuery(samples[i].query).value
<1> DEFINE results == [i \in DOMAIN samples |-> RedactReferrer(samples[i])]
           kept == {i \in DOMAIN results : results[i] # Dropped}
<1>1. RedactSampleReferrers(samples).kept = [i \in kept |-> results[i].value]
  BY DEF RedactSampleReferrers, RedactionSummary
<1>2. PICK i \in kept : referrer = results[i].value
  BY <1>1 DEF ToSet
<1>3. i \in DOMAIN samples /\ RedactReferrer(samples[i]) # Dropped /\ referrer = RedactReferrer(samples[i]).value
  BY <1>2
<1>4. samples[i] # Bad /\ RedactQuery(samples[i].query) # Dropped
  BY <1>3 DEF RedactReferrer
<1>5. RedactReferrer(samples[i]).value.query = RedactQuery(samples[i].query).value
  BY <1>4 DEF RedactReferrer, RedactQuery
<1> QED  BY <1>3, <1>4, <1>5

\* What is kept of a sample has been redacted.
LEMMA SensitiveSays ==
  ASSUME EInv
  PROVE  SensitiveNeverKept
<1>1. SUFFICES ASSUME Analyzed, NEW path \in DOMAIN Set.queries,
                      NEW query \in ToSet(Set.queries[path].kept)
                                      \union {r.query : r \in ToSet(Set.referrers[path].kept)},
                      NEW i \in DOMAIN query,
                      Decoded[query[i].key] \in Sensitive \union {Bad}
               PROVE  query[i].value \in {None, Redacted}
  BY DEF SensitiveNeverKept
<1>2. /\ Set = ObservationSet /\ result.errorCode # "ANALYZER_AGGREGATION_FAILED"
  BY <1>1, AnalyzedSays
<1> DEFINE queries == Groups("paths")[path]["sampleQueries"]
           referrers == Groups("paths")[path]["sampleReferrers"]
<1>3. /\ path \in Kept("paths") /\ path \in DOMAIN Groups("paths")
      /\ Set.queries[path] = RedactSampleQueries(queries)
      /\ Set.referrers[path] = RedactSampleReferrers(referrers)
  BY <1>1, <1>2, SetIs, KeptAreGroups DEF Kept
<1>4. \E written \in Queries : RedactQuery(written) # Dropped /\ query = RedactQuery(written).value
  <2>1. CASE query \in ToSet(Set.queries[path].kept)
    <3>1. PICK j \in DOMAIN queries : RedactQuery(queries[j]) # Dropped /\ query = RedactQuery(queries[j]).value
      BY <1>3, <2>1, KeptQueries
    <3>2. queries[j] \in Queries
      BY <1>2, <1>3, QueriesAre
    <3> QED  BY <3>1, <3>2
  <2>2. CASE query \in {r.query : r \in ToSet(Set.referrers[path].kept)}
    <3>1. PICK r \in ToSet(RedactSampleReferrers(referrers).kept) : query = r.query
      BY <1>3, <2>2
    <3>2. PICK j \in DOMAIN referrers : /\ referrers[j] # Bad /\ RedactQuery(referrers[j].query) # Dropped
                                        /\ r.query = RedactQuery(referrers[j].query).value
      BY <3>1, KeptReferrers
    <3>3. referrers[j] \in Referrers
      BY <1>2, <1>3, <3>2, ReferrersAre
    <3>4. referrers[j].query \in Queries
      BY <3>3 DEF Referrers
    <3> QED  BY <3>1, <3>2, <3>4
  <2> QED  BY <1>1, <2>1, <2>2
<1>5. PICK written \in Queries : RedactQuery(written) # Dropped /\ query = RedactQuery(written).value
  BY <1>4
<1>6. i \in DOMAIN written
  BY <1>5 DEF RedactQuery
<1> QED  BY <1>1, <1>5, <1>6, RedactionRemoves

\* What the check refuses repeats a name that was redacted.
LEMMA RefusalSays ==
  ASSUME EInv
  PROVE  RefusedForRepetitionOnly
<1>1. SUFFICES ASSUME result.errorCode = "ANALYZER_REDACTION_SAFETY_FAILURE"
               PROVE  \E entry \in ToSet(Entries) :
                        \/ entry.query # None /\ Repeats(entry.query)
                        \/ entry.referrer \notin {None, Bad} /\ Repeats(entry.referrer.query)
  BY DEF RefusedForRepetitionOnly
<1>2. ~RedactionSafe(ObservationSet)
  BY <1>1 DEF EInv, Outcomes
<1>3. PICK path \in Kept("paths") : ~(ObservationSet.queries[path].safe /\ ObservationSet.referrers[path].safe)
  BY <1>2, SetIs DEF RedactionSafe
<1> DEFINE queries == Groups("paths")[path]["sampleQueries"]
           referrers == Groups("paths")[path]["sampleReferrers"]
<1>4. path \in DOMAIN Groups("paths")
  BY KeptAreGroups DEF Kept
<1>5. \/ ~RedactSampleQueries(queries).safe
      \/ ~RedactSampleReferrers(referrers).safe
  BY <1>3, SetIs
<1>6. CASE ~RedactSampleQueries(queries).safe
  <2>1. PICK i \in DOMAIN queries :
          /\ RedactQuery(queries[i]) # Dropped
          /\ ~FullyRedacted(RedactQuery(queries[i]).value, RedactQuery(queries[i]).names)
    BY <1>6 DEF RedactSampleQueries, RedactionSummary
  <2>2. queries[i] \in Queries
    BY <1>1, <1>4, QueriesAre
  <2>3. Repeats(queries[i])
    BY <2>1, <2>2, CheckRefusesRepetition
  <2> QED  BY <1>1, <1>4, <2>3, QueriesAre
<1>7. CASE ~RedactSampleReferrers(referrers).safe
  <2>1. PICK i \in DOMAIN referrers :
          /\ RedactReferrer(referrers[i]) # Dropped
          /\ ~FullyRedacted(RedactReferrer(referrers[i]).value.query, RedactReferrer(referrers[i]).names)
    BY <1>7 DEF RedactSampleReferrers, RedactionSummary
  <2>2. referrers[i] # Bad /\ RedactQuery(referrers[i].query) # Dropped
    BY <2>1 DEF RedactReferrer
  <2>3. /\ RedactReferrer(referrers[i]).value.query = RedactQuery(referrers[i].query).value
        /\ RedactReferrer(referrers[i]).names = RedactQuery(referrers[i].query).names
    BY <2>2 DEF RedactReferrer, RedactQuery
  <2>4. referrers[i] \in Referrers /\ referrers[i].query \in Queries
    BY <1>1, <1>4, <2>2, ReferrersAre DEF Referrers
  <2>5. Repeats(referrers[i].query)
    BY <2>1, <2>2, <2>3, <2>4, CheckRefusesRepetition
  <2> QED  BY <1>1, <1>4, <2>2, <2>5, ReferrersAre
<1> QED  BY <1>5, <1>6, <1>7

-----------------------------------------------------------------------------
(* What an analysis may claim, for every log and every configuration.       *)

\* However long the log, whatever its lines and the rules that exclude some, the
\* groups that were summed up one entry at a time are those of the entries: one
\* for every key, with every count, tally, sample, span and size exact.
THEOREM Exact == Spec => []AggregationIsExact
<1>1. EInv => AggregationIsExact
  BY ExactnessSays
<1> QED  BY <1>1, ReadExactly, PTL

\* For all limits of the axes and of the views: a group is left out only for
\* groups that count for as much, and none that known information picked is left
\* out while another group has a place.
THEOREM NothingBetterOmitted == Spec => []OmissionIsDeserved
<1>1. EInv => OmissionIsDeserved
  BY OmissionSays
<1> QED  BY <1>1, ReadExactly, PTL

\* Every match with an entry of the known information, kept or omitted, can be
\* counted from the set.
THEOREM Traceable == Spec => []KnownInformationTraceable
<1>1. EInv => KnownInformationTraceable
  BY TraceSays
<1> QED  BY <1>1, ReadExactly, PTL

\* validateObservationSet accepts every set that buildObservationSet makes, and
\* the totals of a set are the numbers of keys in the log.
THEOREM NetUnused == Spec => []ValidatorCatchesNothing
<1>1. EInv => ValidatorCatchesNothing
  BY ValidatorSays
<1> QED  BY <1>1, ReadExactly, PTL

\* No value of a sensitive parameter is in a set, whatever the log held.
THEOREM NoSensitiveValue == Spec => []SensitiveNeverKept
<1>1. EInv => SensitiveNeverKept
  BY SensitiveSays
<1> QED  BY <1>1, ReadExactly, PTL

\* An analysis is refused for its redaction only if one query of the log repeats a
\* sensitive parameter in one of the two forms the redactor leaves alone.
THEOREM OneReasonToRefuse == Spec => []RefusedForRepetitionOnly
<1>1. EInv => RefusedForRepetitionOnly
  BY RefusalSays
<1> QED  BY <1>1, ReadExactly, PTL

=============================================================================
