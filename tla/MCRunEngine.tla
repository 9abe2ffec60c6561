----------------------------- MODULE MCRunEngine -----------------------------
(* Five scenes: a run that uses two tools and whose row can be deleted; a   *)
(* walk through runs that share timestamps while one is made between them   *)
(* and any is deleted; a walk through two evaluations that are made and     *)
(* settle; two writers of one MCP server; a run that resolves the server    *)
(* one writer is editing.  Pages of one row, exports of two.                *)
EXTENDS RunEngine

MCRunIds  == 1..3
MCNewRuns == {2}
MCEvalIds == 4..5
MCLagging == {2, 4}
MCTimes   == 1..2
MCPages   == [list |-> 1, export |-> 2]

MCToolRun  == [old |-> {}, runs |-> {2}, evals |-> {}, deleted |-> {}, raws |-> 2, tools |-> Tools,
               walks |-> FALSE, editors |-> {}]
MCRunWalk  == [old |-> {1, 3}, runs |-> {2}, evals |-> {}, deleted |-> {}, raws |-> 0, tools |-> {},
               walks |-> TRUE, editors |-> {}]
MCEvalWalk == [old |-> {}, runs |-> {}, evals |-> {4, 5}, deleted |-> {4}, raws |-> 0, tools |-> {},
               walks |-> TRUE, editors |-> {}]
MCMcpEdit  == [MCToolRun EXCEPT !.raws = 0, !.tools = {}, !.runs = {}, !.editors = Writers]
MCMcpRun   == [MCToolRun EXCEPT !.raws = 0, !.tools = {}, !.editors = {CHOOSE w \in Writers : TRUE}]
MCScenes   == {MCToolRun, MCRunWalk, MCEvalWalk, MCMcpEdit, MCMcpRun}

MCLower == [auth |-> "auth", AUTH |-> "auth"]
MCUrls  == {[scheme |-> "https", host |-> "public"], [scheme |-> "http", host |-> "private"],
            [scheme |-> "https", host |-> "rebound"]}
=============================================================================
