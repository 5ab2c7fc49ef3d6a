------------------------------ MODULE Redaction ------------------------------
(****************************************************************************)
(* The redaction of the sampled query strings and referrers of an           *)
(* ObservationSet (packages/analyzer/src/redaction, and the check of it in  *)
(* observation-set/build-observation-set.ts).                               *)
(*                                                                          *)
(* A query string is the sequence of its "&"-separated parts.  A part is    *)
(* [key, value], with value = None when it has no "=".  Decoded says what   *)
(* decodeURIComponent and toLowerCase make of a key: a parameter name, or   *)
(* Bad when the key cannot be decoded.  A referrer is Bad when it is no     *)
(* URL, else [host, query].                                                 *)
(****************************************************************************)
EXTENDS AccessLog, Sequences

CONSTANTS
  Keys,        \* the keys of query parameters, as the client wrote them
  Values,      \* their values
  Hosts,       \* the hosts of referrers
  Names,       \* the parameter names keys may decode to
  Sensitive,   \* the names whose values must not be kept
  Decoded,     \* the name a key decodes to, or Bad
  FirstRead    \* the name URLSearchParams reads for it at the start of a query

ASSUME RedactionConstants ==
  /\ Sensitive \subseteq Names
  /\ Decoded \in [Keys -> Names \union {Bad}]
  /\ FirstRead \in [Keys -> Names \union {Bad}]
  /\ Bad \notin Names
  /\ None # "[REDACTED]"

Redacted == "[REDACTED]"
Dropped == [kind |-> "dropped"]

-----------------------------------------------------------------------------
(* redactQuery and redactReferrer.                                          *)

HasValue(part) == part.value # None

\* Mutant: the key is compared as it was written.
MustGoAsWritten(part) == HasValue(part) /\ part.key \in Sensitive

MustGo(part) == HasValue(part) /\ Decoded[part.key] \in Sensitive

\* One key that cannot be decoded drops the sample.
CanDecode(query) ==
  \A i \in DOMAIN query : HasValue(query[i]) => Decoded[query[i].key] # Bad

RedactPart(part) == IF MustGo(part) THEN [part EXCEPT !.value = Redacted] ELSE part

RedactQuery(query) ==
  IF CanDecode(query)
  THEN [kind  |-> "redacted",
        value |-> [i \in DOMAIN query |-> RedactPart(query[i])],
        names |-> {Decoded[query[i].key] : i \in {j \in DOMAIN query : MustGo(query[j])}}]
  ELSE Dropped

\* A referrer's own query is redacted like any other.
RedactReferrer(referrer) ==
  IF referrer = Bad
  THEN Dropped
  ELSE LET redacted == RedactQuery(referrer.query)
       IN  IF redacted = Dropped
           THEN Dropped
           ELSE [redacted EXCEPT !.value = [host |-> referrer.host, query |-> redacted.value]]

-----------------------------------------------------------------------------
(* assertQueryFullyRedacted: every parameter of a name that was redacted    *)
(* has the value "[REDACTED]".  It reads the query again with               *)
(* URLSearchParams, which gives a part without "=" the empty value, and     *)
(* takes a "?" at the very start of the query for no part of the first key. *)

CheckedName(query, i) ==
  IF i = 1 THEN FirstRead[query[i].key] ELSE Decoded[query[i].key]

\* Mutant: the output is searched for the names, which it keeps.
NoNameLeft(query, names) == \A i \in DOMAIN query : CheckedName(query, i) \notin names

FullyRedacted(query, names) ==
  \A i \in DOMAIN query : CheckedName(query, i) \in names => query[i].value = Redacted

\* What the check takes for a leak: a name that was redacted is there again,
\* without a value, which the redactor leaves as it is ...
RepeatedBare(query) ==
  \E i, j \in DOMAIN query :
    /\ MustGo(query[i])
    /\ ~HasValue(query[j]) /\ CheckedName(query, j) = Decoded[query[i].key]

\* ... or there again in the first key behind a "?", where the redactor reads
\* another name, one that is not sensitive.
RepeatedFirst(query) ==
  \E i \in DOMAIN query :
    /\ MustGo(query[i])
    /\ FirstRead[query[1].key] = Decoded[query[i].key]
    /\ ~MustGo(query[1])
    /\ query[1].value \notin {None, Redacted}

-----------------------------------------------------------------------------
(* The samples of a path: what is kept, what the RedactionSummaryBuilder    *)
(* has seen, and whether the check let every sample pass.                   *)

RedactionSummary(results, safe) ==
  LET kept == {i \in DOMAIN results : results[i] # Dropped}
  IN  [kept     |-> [i \in kept |-> results[i].value],
       dropped  |-> Cardinality(DOMAIN results \ kept),
       redacted |-> Cardinality({i \in kept : results[i].names # {}}),
       names    |-> UNION {results[i].names : i \in kept},
       safe     |-> safe]

RedactSampleQueries(samples) ==
  LET results == [i \in DOMAIN samples |-> RedactQuery(samples[i])]
      passes(r) == r = Dropped \/ FullyRedacted(r.value, r.names)
  IN  RedactionSummary(results, \A i \in DOMAIN results : passes(results[i]))

RedactSampleReferrers(samples) ==
  LET results == [i \in DOMAIN samples |-> RedactReferrer(samples[i])]
      passes(r) == r = Dropped \/ FullyRedacted(r.value.query, r.names)
  IN  RedactionSummary(results, \A i \in DOMAIN results : passes(results[i]))

=============================================================================
