---------------------------- MODULE MCResultPage ----------------------------
(***************************************************************************)
(* An instance of ResultPage for TLC: a log of one path and one source IP, *)
(* a pair whose path the selection has cut, a time in both resolutions.    *)
(* The search for /a keeps /a/b too.                                       *)
(***************************************************************************)
EXTENDS ResultPage

MCGroups == {"path:a", "path:ab", "source-ip:x", "source-ip-path:xa", "source-ip-path:xc",
             "status:404", "method:GET", "user-agent:u", "time:1m:0", "time:5m:0"}
MCDimension ==
  [g \in MCGroups |->
     CASE g \in {"path:a", "path:ab"} -> "path"
       [] g = "source-ip:x" -> "source-ip"
       [] g \in {"source-ip-path:xa", "source-ip-path:xc"} -> "source-ip-path"
       [] g = "status:404" -> "status"
       [] g = "method:GET" -> "method"
       [] g = "user-agent:u" -> "user-agent"
       [] g = "time:1m:0" -> "time:1m"
       [] g = "time:5m:0" -> "time:5m"]
MCShown ==
  [g \in MCGroups |->
     CASE g \in {"path:a", "source-ip-path:xa"} -> "/a"
       [] g = "path:ab" -> "/a/b"
       [] g = "source-ip-path:xc" -> "/c"
       [] OTHER -> g]
MCIncludes == {<<v, v>> : v \in Values} \cup {<<"/a/b", "/a">>}

Finding(references) == [title |-> "text", observation |-> "text", references |-> references]
Output(references, findings) ==
  [summary |-> "text", reason |-> "text", references |-> references, findings |-> findings]

\* An answer that refers to every group, one without findings, and answers
\* that make up a group, leave a text blank or name no evidence.
MCOutputs ==
  {Output(MCGroups \ {"path:a"}, <<Finding({"path:a"}), Finding(MCGroups)>>),
   Output({}, <<>>),
   Output({"ghost"}, <<>>),
   Output({"path:a"}, <<Finding({"path:a", "ghost"})>>),
   Output({"path:a"}, <<Finding({})>>),
   Output({}, <<Finding({"path:a"})>>),
   [Output({}, <<>>) EXCEPT !.summary = "blank"],
   Output({"path:a"}, <<[Finding({"path:a"}) EXCEPT !.title = "blank"]>>)}
=============================================================================
