------------------------------ MODULE AccessLog ------------------------------
(****************************************************************************)
(* From a line of an access log to an entry, and the count of the lines     *)
(* (packages/analyzer/src: parse-access-log, parser, normalizer, summary).  *)
(*                                                                          *)
(* A line has the format the parser chain finds it in and its raw fields: a *)
(* field is None when the log has "-" or nothing there, Bad when it does    *)
(* not convert, and else the value it converts to.  A request is            *)
(* [method, path, query].                                                   *)
(****************************************************************************)
EXTENDS Naturals, FiniteSets, Bags

CONSTANTS
  None,    \* a field that is not there
  Bad      \* a field that cannot be converted, or a referrer that is no URL

\* What becomes of a line: no line at all, an unsupported one, or one of the
\* two formats.
Formats == {"blank", "other", "common", "combined"}

-----------------------------------------------------------------------------
(* normalizeFields: what does not convert is left out, with a warning.      *)

Converted(raw) == IF raw = Bad THEN None ELSE raw

\* An empty method, path or query is left out like a missing one: a request has
\* None there.
RequestPart(request, part) == IF request \in {None, Bad} THEN None ELSE request[part]

\* Only a combined line has the last two fields.
Captured(line, field) == IF line.format = "combined" THEN line[field] ELSE None

Normalized(line) ==
  [sourceIp      |-> line.sourceIp,
   timestamp     |-> Converted(line.time),
   method        |-> RequestPart(line.request, "method"),
   path          |-> RequestPart(line.request, "path"),
   query         |-> RequestPart(line.request, "query"),
   status        |-> Converted(line.status),
   responseBytes |-> Converted(line.bytes),
   referrer      |-> Captured(line, "referrer"),
   userAgent     |-> Captured(line, "userAgent")]

Warnings(line) ==
  {code \in {"INVALID_TIMESTAMP", "MALFORMED_REQUEST_LINE", "INVALID_STATUS", "INVALID_RESPONSE_BYTES"} :
     Bad = CASE code = "INVALID_TIMESTAMP" -> line.time
             [] code = "MALFORMED_REQUEST_LINE" -> line.request
             [] code = "INVALID_STATUS" -> line.status
             [] code = "INVALID_RESPONSE_BYTES" -> line.bytes}

-----------------------------------------------------------------------------
(* parseLine and the ParseSummaryBuilder.                                   *)

ParseStatus(line) ==
  IF line.format = "other" THEN "failed"
  ELSE IF Warnings(line) # {} THEN "partial" ELSE "parsed"

WarningsOf(line) ==
  IF line.format = "other" THEN {"PARSER_UNSUPPORTED_FORMAT"} ELSE Warnings(line)

NoLines == [total |-> 0, parsed |-> 0, partial |-> 0, failed |-> 0, warnings |-> EmptyBag]

\* Mutant: a partial line counts as parsed as well.
CountedTwice(summary, line) ==
  [total    |-> summary.total + 1,
   parsed   |-> summary.parsed + IF ParseStatus(line) # "failed" THEN 1 ELSE 0,
   partial  |-> summary.partial + IF ParseStatus(line) = "partial" THEN 1 ELSE 0,
   failed   |-> summary.failed + IF ParseStatus(line) = "failed" THEN 1 ELSE 0,
   warnings |-> summary.warnings (+) SetToBag(WarningsOf(line))]

Counted(summary, line) ==
  [total    |-> summary.total + 1,
   parsed   |-> summary.parsed + IF ParseStatus(line) = "parsed" THEN 1 ELSE 0,
   partial  |-> summary.partial + IF ParseStatus(line) = "partial" THEN 1 ELSE 0,
   failed   |-> summary.failed + IF ParseStatus(line) = "failed" THEN 1 ELSE 0,
   warnings |-> summary.warnings (+) SetToBag(WarningsOf(line))]

\* deriveAnalyzerStatus.
DerivedStatus(summary) ==
  IF summary.parsed + summary.partial = 0 THEN "failed"
  ELSE IF summary.partial + summary.failed > 0 THEN "partial" ELSE "success"

=============================================================================
