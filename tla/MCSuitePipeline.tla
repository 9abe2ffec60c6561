--------------------------- MODULE MCSuitePipeline ---------------------------
(***************************************************************************)
(* SuitePipeline with two cases, two repeats each: c1 is judged and has a  *)
(* text check, c2 opts out of the judge and checks the tool calls.  In a    *)
(* scene of its own, FallbackPlan: the command line compares the arms of a  *)
(* suite file of those cases and saves a plan, while a user edits the file. *)
(***************************************************************************)
EXTENDS SuitePipeline, FallbackPlan

MCOrder == <<"c1", "c2">>

Entry(f) == Check(f)

\* a mapping of names to numbers
Mapping(fields) ==
    (<<>> :> [t |-> "map", v |-> 0])
        @@ [path \in {<<k>> : k \in DOMAIN fields} |-> [t |-> "num", v |-> fields[path[1]]]]

MCSuite ==
    [c1 |-> [checks |-> <<Entry([contains |-> [lit |-> <<"yes">>], case_sensitive |-> FALSE])>>,
             judged |-> TRUE, expected |-> TRUE, critical |-> TRUE],
     c2 |-> [checks |-> <<Entry([tool_sequence |-> [lit |-> <<{"b"}, {"b", "c"}>>]]),
                          Entry([tool_called |-> [map |-> [name |-> {"b"},
                                    args |-> Mapping([n |-> 1]),
                                    max_times |-> 1]]])>>,
             judged |-> FALSE, expected |-> FALSE, critical |-> FALSE]]

Called(name, n, bad) ==
    [name |-> name, failed |-> bad,
     input |-> Mapping([n |-> n, m |-> 0])]
Said(words, ms, calls) ==
    [words |-> words, chars |-> Len(words), padded |-> FALSE, doc |-> NoValue, ms |-> ms,
     calls |-> calls]

Right == Said(<<"Yes">>, 1, <<Called("b", 2, FALSE), Called("a", 1, FALSE), Called("b", 1, FALSE)>>)
Wrong == Said(<<"no">>, 2, <<Called("b", 1, FALSE), Called("a", 1, TRUE)>>)
MCAnswers == [c1 |-> {"right", "wrong"}, c2 |-> {"right", "wrong"}]
MCAnswerOf == [right |-> Right, wrong |-> Wrong]

MCJudges == <<{0, 12}, {12}>>
MCProbeReports == <<{[reference |-> 0, empty |-> 0]}, {[reference |-> 12, empty |-> Err]}>>

MCFold == [w \in {"Yes", "yes", "no"} |-> IF w = "Yes" THEN "yes" ELSE w]
MCFamily == [m1 |-> "x", m2 |-> "y", m3 |-> "x"]
MCBar == [rate |-> 0, latency |-> Unset, cost |-> Unset]
MCBars == {MCBar, [rate |-> 8, latency |-> <<3, 2>>, cost |-> Unset],
           [rate |-> 8, latency |-> Unset, cost |-> <<2, 1>>]}

Ask == [c1 |-> "q1", c2 |-> "q2"]
MCTag ==
    [id |-> "e0", kind |-> "suite", status |-> "running", result |-> NoResult, questions |-> Ask, name |-> Nothing, model |-> "m1", prompt |-> "p1",
     inference |-> "i", tools |-> "t", baseline |-> FALSE, axes |-> [model |-> "m1", prompt |-> "p1"],
     bar |-> Nothing, critical |-> {"c1"}, judges |-> {"m3"}, usesTools |-> TRUE, repeats |-> 2]

Line(c, st, score) == [id |-> c, status |-> st, passed |-> st = "passed", score |-> score]
Kept(s1, s2, score, cost, p95) ==
    [cases |-> <<Line("c1", s1, Nothing), Line("c2", s2, Nothing)>>, score |-> score,
     casesPassed |-> Cardinality({k \in 1..2 : <<s1, s2>>[k] = "passed"}),
     cost |-> cost, latency |-> [p50 |-> 1, p95 |-> p95]]
Arm(id, model, prompt, st, res) ==
    [MCTag EXCEPT !.id = id, !.model = model, !.prompt = prompt,
                  !.axes = [model |-> model, prompt |-> prompt], !.status = st, !.result = res]
Named(a, name) == [a EXCEPT !.name = name]

Whole == Kept("passed", "passed", 100, 3, 1)
Half  == Kept("passed", "failed", 50, Nothing, 2)
Unsure == Kept("judge_error", "passed", Nothing, 1, 1)
Base(res, st) == [Arm("e1", "m2", "p1", st, res) EXCEPT !.baseline = TRUE]

MCOthers ==
    {<<Base(Whole, "completed")>>, <<Base(Half, "completed")>>, <<Base(Unsure, "completed")>>,
     <<Base(NoResult, "cancelled")>>,
     <<[Base([Whole EXCEPT !.cases = <<@[1]>>, !.casesPassed = 1], "completed") EXCEPT !.questions = [c1 |-> "q1"]]>>,
     <<Arm("e2", "m1", "p2", "completed", Half)>>,
     <<Named(Arm("e3", "m1", "p2", "completed", Half), "x"),
       Named(Arm("e4", "m2", "p1", "completed", Whole), "y"),
       Named(Arm("e5", "m2", "p2", "completed", Kept("failed", "failed", 10, 2, 1)), "z")>>}

\* suite files, and what is asked of them
Planned(id, checks) ==
    [id |-> id, ask |-> Ask[id], checks |-> checks, judged |-> checks = 1, critical |-> id = "c1"]
Declared(name, model, text, file) ==
    [name |-> name, flagged |-> FALSE, set |-> [s \in {"model"} |-> model], text |-> text, file |-> file]
ArmList == <<Declared("primary", "m1", Nothing, "main.md"), Declared("spare", "m2", "terse", Nothing)>>
ArmsFile ==
    [cases |-> <<Planned("c1", 1), Planned("c2", 1)>>, repeats |-> 1,
     config |-> [model |-> "m1", inference |-> [t |-> 0]], judges |-> <<"m3">>, capped |-> TRUE,
     arms |-> ArmList, matrix |-> Nothing, baseline |-> Nothing,
     bar |-> [MCBar EXCEPT !.rate = 8], appendable |-> TRUE]
\* the cases ask the same, and one of them is checked otherwise
StricterFile == [ArmsFile EXCEPT !.cases[2] = Planned("c2", 2), !.baseline = "spare"]
PlainFile == [ArmsFile EXCEPT !.arms = Nothing, !.capped = FALSE, !.appendable = FALSE]
Variant(name, set, text) == [name |-> name, set |-> set, text |-> text, file |-> Nothing]
GridFile ==
    [ArmsFile EXCEPT !.arms = Nothing,
        !.matrix = [models |-> <<Variant("a", [model |-> "m1"], Nothing),
                                Variant("b", [model |-> "m2"], Nothing)>>,
                    prompts |-> <<Variant("p", NoAxes, "terse"), Variant("q", NoAxes, "main")>>,
                    baseline |-> "a/q"]]
OtherBar == [ArmsFile EXCEPT !.bar = Nothing]
TwiceFlagged == [ArmsFile EXCEPT !.arms = [k \in 1..2 |-> [ArmList[k] EXCEPT !.flagged = TRUE]]]
MCSuiteFiles == {ArmsFile, StricterFile, PlainFile, GridFile, OtherBar, TwiceFlagged, Nothing}

Invoked(all, arms, baseline) ==
    [all |-> all, arms |-> arms, baseline |-> baseline, flags |-> NoAxes, requireReady |-> TRUE,
     save |-> TRUE, maxAge |-> 1]
MCInvocations ==
    {Invoked(TRUE, <<>>, Nothing), [Invoked(TRUE, <<>>, "spare") EXCEPT !.flags = [inference |-> [t |-> 1]]],
     Invoked(FALSE, <<"m1", "m2">>, "m2")}
MCArmResults ==
    {[status |-> "completed", passed |-> {"c1", "c2"}], [status |-> "completed", passed |-> {"c1"}],
     [status |-> "error", passed |-> {}]}
MCNewSuite == [PlainFile EXCEPT !.cases = <<Planned("c2", 1)>>]
MCPromotedCase == Planned("c2", 1)
MCIds == <<"e1", "e2">>

VARIABLE scene

InitialFiles == {ArmsFile, PlainFile, GridFile}

MCInit ==
    /\ Init /\ PlanInit
    /\ scene \in {"evaluation", "plan"}
    /\ promptFiles = [f \in Confined |-> "main"]
    /\ IF scene = "plan" THEN kind = "suite" /\ suiteFile \in InitialFiles ELSE suiteFile = Nothing

Evaluating == scene = "evaluation" /\ Next /\ UNCHANGED <<planVars, scene>>

\* between commands and edits nothing has to happen
Planning ==
    /\ scene = "plan"
    /\ PlanStep \/ (command.pc = "idle" /\ UNCHANGED planVars)
    /\ UNCHANGED <<vars, scene>>

MCNext == Evaluating \/ Planning

MCSpec == MCInit /\ [][MCNext]_<<vars, planVars, scene>>
=============================================================================
