-------------------------- MODULE MCAnalyzerPipeline --------------------------
(****************************************************************************)
(* An instance of AnalyzerPipeline for TLC.  Paths, addresses and agents    *)
(* are numbers in the order of the strings they stand for; a minute has two *)
(* ticks.                                                                   *)
(****************************************************************************)
EXTENDS AnalyzerPipeline

Part(key, value) == [key |-> key, value |-> value]

\* token=t&q=x ; TOKEN=t ; q=x ; a key that does not decode
Token   == <<Part("token", "t"), Part("q", "x")>>
Encoded == <<Part("%74OKEN", "t")>>
Plain   == <<Part("q", "x")>>
Garbled == <<Part("%", "x")>>
\* token=t&token
Repeated == <<Part("token", "t"), Part("token", None)>>

\* ?token=x&token=t
Doubtful == <<Part("?token", "x"), Part("token", "t")>>

MCKeys == {"token", "%74OKEN", "?token", "q", "%"}
MCDecoded == [k \in MCKeys |-> CASE k = "token" -> "token" [] k = "%74OKEN" -> "token"
                                 [] k = "?token" -> "?token"
                                 [] k = "q" -> "q" [] k = "%" -> Bad]
MCFirstRead == [MCDecoded EXCEPT !["?token"] = "token"]

Get  == 1
MCPost == 2

Request(method, path, query) == [method |-> method, path |-> path, query |-> query]
Line(format, ip, time, request, status, bytes, referrer, agent) ==
  [format |-> format, sourceIp |-> ip, time |-> time, request |-> request,
   status |-> status, bytes |-> bytes, referrer |-> referrer, userAgent |-> agent]
Nothing(format) == Line(format, None, None, None, None, None, None, None)

\* Paths: 1 = "/", 2 = "/.git/a", 3 = "/.git/b", 4 = "/health"
MCStartsWith == {<<2, 20>>, <<3, 20>>, <<1, 10>>, <<2, 10>>, <<3, 10>>, <<4, 10>>}
MCKnownEntries ==
  {[id |-> "git", matchType |-> "prefix", pattern |-> 20],
   [id |-> "file", matchType |-> "exact", pattern |-> 3]}

Hit     == Line("combined", 1, 0, Request(Get, 1, Token), 200, 7, Bad, 1)
Late    == Line("combined", 2, 9, Request(Get, 1, Encoded), 404, 3,
                [host |-> "a", query |-> Token], 2)
Form    == Line("combined", 1, 11, Request(MCPost, 2, None), 500, 0,
                [host |-> "a", query |-> <<>>], None)
Known3  == Line("common", 2, 12, Request(Get, 3, Garbled), 404, None, None, None)
Partial == Line("combined", None, Bad, Bad, Bad, Bad, None, 1)
Health  == Line("common", 1, 3, Request(Get, 4, Plain), 200, 1, None, None)
Double  == Line("common", 1, 5, Request(Get, 1, Repeated), 200, 1, None, None)
Odd     == Line("combined", 2, 5, Request(Get, 1, Plain), 200, 1,
                [host |-> "a", query |-> Doubtful], 2)

MCLines == {Hit, Late, Form, Known3, Partial, Health, Double, Odd,
            Nothing("other"), Nothing("blank")}
RepeatedLines == {Hit, Double}

Config(sample, axis, known, total, rules) ==
  [sampleLimit |-> sample,
   axisLimit   |-> [r \in Reasons |-> IF r = "known_information" THEN known ELSE axis],
   totalLimit  |-> [v \in Views |-> total],
   rules       |-> rules]

Exclude == [id |-> "health", target |-> "path", matchType |-> "exact", value |-> 4]
ExcludeIp == [id |-> "host", target |-> "sourceIp", matchType |-> "exact", value |-> 1]

MCConfigs ==
  {Config(1, 1, 2, 2, <<Exclude, ExcludeIp>>),
   Config(2, 1, 1, 1, <<>>),
   Config(1, 0, 1, 3, <<Exclude>>),
   Config(-1, 1, 1, 1, <<>>)}

OneConfig == {Config(2, 1, 1, 2, <<>>)}

=============================================================================
