---------------------------- MODULE FallbackPlan ----------------------------
(***************************************************************************)
(* A suite file, the commands that compare the arms it declares, and the   *)
(* fallback plan they save (arms.py, plan.py, suite_edit.py, and `eval     *)
(* --all-arms`, `eval --arm`, `compare`, `plan check`, `promote` and       *)
(* `init` of cli/).  The file and its prompt files are edited at any time, *)
(* while the arms of a command run as well.                                *)
(*                                                                         *)
(* A command keeps nothing but what it writes; `plan check` writes nothing *)
(* and is an operator, CheckExit.                                          *)
(*                                                                         *)
(* A suite file is                                                         *)
(*   [cases, repeats, config, judges, capped, arms, matrix, baseline, bar, *)
(*    appendable]                                                          *)
(* with `cases` a sequence of [id, ask, checks, judged, critical] (checks  *)
(* by their number), `config` and every override a function from settings  *)
(* (model, prompt, inference), `judges` the grader and the panel, `capped` *)
(* whether it has a max_cost_usd, and `appendable` whether a case can be   *)
(* added to its text.  An entry of `arms` or of an axis of `matrix` is     *)
(* [name, flagged, set, text, file], its prompt inline or in a file.       *)
(* An evaluation is what ArmComparison compares, with its `cases`.         *)
(***************************************************************************)
EXTENDS ArmComparison

CONSTANTS
    SuiteFiles,      \* what a user may make of the suite file, Nothing for removing it
    Confined,        \* the prompt files inside its directory
    Texts,           \* what a user may put in a prompt file, Nothing for removing it
    Invocations,     \* arguments of `eval` and `compare`: see Prepare
    ArmResults,      \* what an arm's evaluation may end with: [status, passed]
    PromotedCase,    \* the case `promote` makes of a stored run
    NewSuite,        \* the suite file it makes of it when there is none
    StarterSuite,    \* the one `init` writes
    Priced,          \* models with a price
    MaxSuiteRuns, MaxChecks, MaxPanel, MaxArms,   \* limits of the request and of a comparison
    EvaluationIds,   \* ids history gives, in order: bounds the evaluations
    MaxEdits         \* bounds the edits of files

\* what the schema of a suite file leaves: lists, and arms with names
FileFits(file) ==
    LET listed(entries) == entries \in Seq(ToSet(entries))
    IN  /\ {"cases", "arms", "matrix"} \subseteq DOMAIN file
        /\ listed(file.cases)
        /\ file.arms # Nothing =>
              listed(file.arms) /\ \A k \in DOMAIN file.arms : file.arms[k].name # Nothing
        /\ file.matrix # Nothing =>
              /\ listed(file.matrix.models) /\ listed(file.matrix.prompts)
              /\ \A model \in ToSet(file.matrix.models), prompt \in ToSet(file.matrix.prompts) :
                    model.name \o "/" \o prompt.name # Nothing

ASSUME FilesAssumption ==
    \A file \in (SuiteFiles \cup {NewSuite, StarterSuite}) \ {Nothing} : FileFits(file)

ASSUME InvocationsAssumption ==
    \A invocation \in Invocations :
        invocation.arms \in Seq(ToSet(invocation.arms)) /\ invocation.maxAge \in Int

\* ids are given once
ASSUME IdsAssumption ==
    /\ EvaluationIds \in Seq(ToSet(EvaluationIds))
    /\ \A i, j \in DOMAIN EvaluationIds : EvaluationIds[i] = EvaluationIds[j] => i = j

VARIABLES
    suiteFile, promptFiles,
    promoting,      \* what `promote` has read of the suite file, or Nothing
    evaluations,    \* the history: finished suite evaluations
    command,        \* the command that runs arms
    plan,           \* the plan file, or Nothing
    origin,         \* how it was made: evaluations, files, flags and exit code
    age,            \* days since
    edits

planVars == <<suiteFile, promptFiles, promoting, evaluations, command, plan, origin, age, edits>>

IdleCommand == [pc |-> "idle"]

PlanInit ==
    /\ suiteFile \in SuiteFiles
    /\ promptFiles \in [Confined -> Texts]
    /\ promoting = Nothing
    /\ evaluations = <<>>
    /\ command = IdleCommand
    /\ plan = Nothing /\ origin = Nothing
    /\ age = 0 /\ edits = 0

(***************************************************************************)
(* The request a file makes (evals/schemas.py, build_suite_request).       *)
(***************************************************************************)
\* {**base, **over}
Merged(base, over) ==
    [s \in DOMAIN base \cup DOMAIN over |-> IF s \in DOMAIN over THEN over[s] ELSE base[s]]

\* `inference` merges setting by setting
Overlay(base, over) ==
    IF "inference" \in DOMAIN over \cap DOMAIN base
    THEN [Merged(base, over) EXCEPT !.inference = Merged(base.inference, over.inference)]
    ELSE Merged(base, over)

Setting(config, name) == IF name \in DOMAIN config THEN config[name] ELSE Nothing

CasesAccepted(file) ==
    LET ids == {file.cases[k].id : k \in DOMAIN file.cases}
        checks == Sum([k \in DOMAIN file.cases |-> file.cases[k].checks])
    IN  /\ file.cases # <<>>
        /\ Cardinality(ids) = Len(file.cases)
        /\ Len(file.cases) * file.repeats <= MaxSuiteRuns
        /\ checks * file.repeats <= MaxChecks
        /\ \A k \in DOMAIN file.cases : file.cases[k].judged \/ file.cases[k].checks > 0

JudgesAccepted(file) ==
    /\ Len(file.judges) <= 1 + MaxPanel
    /\ Cardinality(ToSet(file.judges)) = Len(file.judges)

Accepted(file, config) ==
    /\ Setting(config, "model") # Nothing
    /\ CasesAccepted(file) /\ JudgesAccepted(file)
    /\ file.capped => config.model \in Priced

\* flags lie over the arm's overrides and those over the file's run_config
ArmRequest(file, arm, flags) ==
    [cases |-> file.cases, repeats |-> file.repeats, judges |-> file.judges, bar |-> file.bar,
     config |-> Overlay(Overlay(file.config, arm.overrides), flags),
     name |-> arm.name, baseline |-> arm.baseline, axes |-> arm.axes]

(***************************************************************************)
(* The arms a file declares (arms.py).                                     *)
(***************************************************************************)
Declares(file) == file.arms # Nothing \/ file.matrix # Nothing

\* a prompt file is read in the suite file's directory and nowhere else
Readable(entry, texts) ==
    /\ entry.text = Nothing \/ entry.file = Nothing
    /\ entry.file # Nothing => entry.file \in Confined /\ texts[entry.file] # Nothing

PromptText(entry, texts) == IF entry.file = Nothing THEN entry.text ELSE texts[entry.file]

Overrides(entry, texts) ==
    LET prompt == PromptText(entry, texts)
    IN  IF prompt = Nothing THEN entry.set ELSE Merged(entry.set, [s \in {"prompt"} |-> prompt])

Entries(file) ==
    IF file.arms # Nothing THEN ToSet(file.arms)
    ELSE ToSet(file.matrix.models) \cup ToSet(file.matrix.prompts)

NoAxes == [a \in {} |-> Nothing]

FromList(entries, texts) ==
    [k \in DOMAIN entries |->
        [name |-> entries[k].name, overrides |-> Overrides(entries[k], texts),
         baseline |-> entries[k].flagged, axes |-> NoAxes]]

\* every model with every prompt, model by model
FromMatrix(models, prompts, texts) ==
    [k \in 1..(Len(models) * Len(prompts)) |->
        LET model == models[((k - 1) \div Len(prompts)) + 1]
            prompt == prompts[((k - 1) % Len(prompts)) + 1]
        IN  [name |-> model.name \o "/" \o prompt.name,
             overrides |-> Merged(Overrides(model, texts), Overrides(prompt, texts)),
             baseline |-> FALSE,
             axes |-> [model |-> model.name, prompt |-> prompt.name]]]

Listed(file, texts) ==
    IF file.arms # Nothing THEN FromList(file.arms, texts)
    ELSE FromMatrix(file.matrix.models, file.matrix.prompts, texts)

ArmNames(arms) == {arms[k].name : k \in DOMAIN arms}

\* `baseline:` of the file or of the matrix
Asked(file) == IF file.arms # Nothing THEN file.baseline ELSE file.matrix.baseline

\* exactly one: the one asked for, else the flagged, else the first
WithBaseline(arms, asked) ==
    LET flagged == SelectInSeq(arms, LAMBDA a : a.baseline)
        chosen == CASE asked # Nothing                  -> asked
                    [] asked = Nothing /\ flagged # 0 -> arms[flagged].name
                    [] OTHER                          -> arms[1].name
    IN  [k \in DOMAIN arms |-> [arms[k] EXCEPT !.baseline = arms[k].name = chosen]]

\* expand does not raise
Usable(file, texts) ==
    Declares(file) =>
        /\ file.arms = Nothing \/ file.matrix = Nothing
        /\ file.matrix # Nothing =>
              file.baseline = Nothing /\ Len(file.matrix.models) > 1 /\ Len(file.matrix.prompts) > 1
        /\ \A entry \in Entries(file) : Readable(entry, texts)
        /\ LET arms == Listed(file, texts)
           IN  /\ Len(arms) \in 2..MaxArms
               /\ Cardinality(ArmNames(arms)) = Len(arms)
               /\ Cardinality({k \in DOMAIN arms : arms[k].baseline}) <= 1
               /\ Asked(file) \in {Nothing} \cup ArmNames(arms)

Expand(file, texts) == WithBaseline(Listed(file, texts), Asked(file))

(***************************************************************************)
(* Arms of a command: declared, or ad hoc models.                          *)
(***************************************************************************)
AdHoc(model) ==
    [name |-> Nothing, overrides |-> [s \in {"model"} |-> model], baseline |-> FALSE, axes |-> NoAxes]

\* --baseline over the file's own; an ad hoc one is resolved by the comparison
ArmsOf(invocation, file, texts) ==
    IF ~invocation.all THEN [k \in DOMAIN invocation.arms |-> AdHoc(invocation.arms[k])]
    ELSE IF invocation.baseline = Nothing THEN Expand(file, texts)
    ELSE WithBaseline(Expand(file, texts), invocation.baseline)

Requests(invocation, file, texts) ==
    LET arms == ArmsOf(invocation, file, texts)
    IN  [k \in DOMAIN arms |-> ArmRequest(file, arms[k], invocation.flags)]

\* build_arm_requests raises nothing
Buildable(invocation, file, texts) ==
    /\ invocation.all => Declares(file) /\ Usable(file, texts)
    /\ invocation.baseline # Nothing =>
          invocation.baseline \in IF invocation.all THEN ArmNames(Listed(file, texts))
                                  ELSE ToSet(invocation.arms)
    /\ ~invocation.all => Cardinality(ToSet(invocation.arms)) = Len(invocation.arms)
    /\ \A k \in DOMAIN Requests(invocation, file, texts) :
          Accepted(file, Requests(invocation, file, texts)[k].config)

\* cli/main.py: what is refused before the file is read
Invocable(invocation) ==
    /\ invocation.all => invocation.arms = <<>> /\ DOMAIN invocation.flags \subseteq {"inference"}
    /\ ~invocation.all => invocation.arms # <<>> /\ "model" \notin DOMAIN invocation.flags
    /\ invocation.requireReady \/ invocation.save => invocation.all \/ invocation.baseline # Nothing
    /\ invocation.maxAge >= 1

\* what `eval` accepts: the suite file is read once and for all; the arms' prompt
\* files, here only to see that the requests can be built
Accepting ==
    {invocation \in Invocations :
        /\ Invocable(invocation) /\ suiteFile # Nothing
        /\ Accepted(suiteFile, Overlay(suiteFile.config, invocation.flags))
        /\ Buildable(invocation, suiteFile, promptFiles)}

Prepare(invocation) ==
    /\ command.pc = "idle"
    /\ command' = [pc |-> "prepared", invocation |-> invocation, file |-> suiteFile]
    /\ UNCHANGED <<suiteFile, promptFiles, promoting, evaluations, plan, origin, age, edits>>

\* compare_arms builds them again, from the prompt files as they are by now
BuildRequests ==
    /\ command.pc = "prepared"
    /\ command' = IF Buildable(command.invocation, command.file, promptFiles)
                  THEN [pc |-> "arms", invocation |-> command.invocation, file |-> command.file,
                        texts |-> promptFiles, ran |-> 0]
                  ELSE IdleCommand
    /\ UNCHANGED <<suiteFile, promptFiles, promoting, evaluations, plan, origin, age, edits>>

ToRun == Requests(command.invocation, command.file, command.texts)

CaseLine(case, passed) ==
    [id |-> case.id, status |-> IF passed THEN "passed" ELSE "failed", passed |-> passed,
     score |-> Nothing]

ArmResult(request, outcome) ==
    IF outcome.status # "completed" THEN NoResult
    ELSE LET lines == [k \in DOMAIN request.cases |->
                          CaseLine(request.cases[k], request.cases[k].id \in outcome.passed)]
         IN  [cases |-> lines, score |-> Nothing, cost |-> Nothing, latency |-> Nothing,
              casesPassed |-> Cardinality({k \in DOMAIN lines : lines[k].passed})]

ArmEvaluation(request, outcome, id) ==
    [id |-> id, kind |-> "suite", status |-> outcome.status, result |-> ArmResult(request, outcome),
     cases |-> request.cases,
     questions |-> [c \in {request.cases[k].id : k \in DOMAIN request.cases} |->
                       request.cases[SelectInSeq(request.cases, LAMBDA x : x.id = c)].ask],
     name |-> request.name, model |-> request.config.model,
     prompt |-> Setting(request.config, "prompt"), inference |-> Setting(request.config, "inference"),
     tools |-> Nothing, usesTools |-> FALSE,
     baseline |-> request.baseline, axes |-> request.axes, bar |-> request.bar,
     critical |-> {request.cases[k].id : k \in {m \in DOMAIN request.cases : request.cases[m].critical}},
     judges |-> ToSet(request.judges), repeats |-> request.repeats]

\* arms run in sequence, each an evaluation of its own, and a failed one does
\* not stop the others
RunArm(outcome) ==
    /\ command.pc = "arms" /\ command.ran < Len(ToRun)
    /\ Len(evaluations) < Len(EvaluationIds)
    /\ evaluations' = Append(evaluations, ArmEvaluation(ToRun[command.ran + 1], outcome,
                                              EvaluationIds[Len(evaluations) + 1]))
    /\ command' = [command EXCEPT !.ran = @ + 1]
    /\ UNCHANGED <<suiteFile, promptFiles, promoting, plan, origin, age, edits>>

\* Ctrl-C: no comparison, no plan
Interrupt ==
    /\ command.pc = "arms" /\ command.ran < Len(ToRun)
    /\ command' = IdleCommand
    /\ UNCHANGED <<suiteFile, promptFiles, promoting, evaluations, plan, origin, age, edits>>

(***************************************************************************)
(* The plan (plan.py).                                                     *)
(***************************************************************************)
Pin(arm) == [label |-> Label(arm), model |-> arm.model, prompt |-> arm.prompt, evaluation |-> arm.id]

Ready(comparison, k) ==
    comparison.verdicts[k] # Nothing /\ comparison.verdicts[k].status = "ready"

\* a plan made of a comparison that has a baseline, fallbacks in ranking order
PlanFor(cases, comparison, arms, maxAge) ==
    [maxAge |-> maxAge, cases |-> cases,
     bar |-> ResolveBar(arms, comparison.baseline, Nothing),
     baseline |-> Pin(arms[comparison.baseline]),
     fallbacks |-> LET ready == Keep(comparison.ranking, {k \in DOMAIN comparison.verdicts :
                                    Ready(comparison, k)})
                   IN  [k \in DOMAIN ready |-> Pin(arms[ready[k]])],
     evidence |-> {Label(arms[k]) : k \in {m \in DOMAIN comparison.verdicts :
                      comparison.verdicts[m] # Nothing /\ ~Ready(comparison, m)}}]

\* a mutant: the fingerprint is of the file as it is when the plan is saved
BuildPlanOfFile(comparison, arms, maxAge) ==
    PlanFor(IF suiteFile = Nothing THEN <<>> ELSE suiteFile.cases, comparison, arms, maxAge)

\* the suite's fingerprint is that of the first evaluation's cases
BuildPlan(comparison, arms, maxAge) == PlanFor(arms[1].cases, comparison, arms, maxAge)

\* readiness_failures
Unready(comparison) == {k \in DOMAIN comparison.verdicts : ~Ready(comparison, k)}

FirstFailure(arms) ==
    LET failed == SelectInSeq(arms, LAMBDA a : a.status # "completed")
    IN  IF failed = 0 THEN "ok" ELSE IF arms[failed].status = "cancelled" THEN "cancelled" ELSE "failed"

\* with --require-ready, a command that passed so far and has an unready arm does not
ExitOf(comparison, code, requireReady) ==
    IF requireReady /\ code = "ok" /\ Unready(comparison) # {} THEN "gate" ELSE code

\* _present: the plan is written whatever the verdicts are, if there is a baseline
Present(comparison, arms, invocation, code, files) ==
    IF ~invocation.save \/ comparison.baseline = 0 THEN UNCHANGED <<plan, origin, age>>
    ELSE /\ plan' = BuildPlan(comparison, arms, invocation.maxAge)
         /\ origin' = [all |-> files.all, file |-> files.file, texts |-> files.texts,
                       ids |-> [k \in DOMAIN arms |-> arms[k].id],
                                requireReady |-> invocation.requireReady,
                                exit |-> ExitOf(comparison, code, invocation.requireReady)]
         /\ age' = 0

\* the tagged arm, or the one --baseline names
CompareArms ==
    /\ command.pc = "arms" /\ command.ran = Len(ToRun)
    /\ LET invocation == command.invocation
           made == SubSeq(evaluations, Len(evaluations) - command.ran + 1, Len(evaluations))
           requested == IF invocation.all THEN Nothing ELSE invocation.baseline
       IN  Present(Compare(made, requested, Nothing), made, invocation, FirstFailure(made),
                   [all |-> invocation.all, file |-> command.file, texts |-> command.texts])
    /\ command' = IdleCommand
    /\ UNCHANGED <<suiteFile, promptFiles, promoting, evaluations, edits>>

\* `compare`: evaluations that ran before, in the order they are named
CompareStored(arms, invocation) ==
    /\ command.pc = "idle"
    /\ Refusal(arms, invocation.baseline) = Nothing
    /\ Present(Compare(arms, invocation.baseline, Nothing), arms, invocation, "ok",
               [all |-> FALSE, file |-> Nothing, texts |-> Nothing])
    /\ UNCHANGED <<suiteFile, promptFiles, promoting, evaluations, command, edits>>

Identity(file, arm) ==
    LET config == Merged(file.config, arm.overrides)
    IN  <<Setting(config, "model"), Setting(config, "prompt")>>

ArmChanged(entry, file, arms) ==
    \A k \in DOMAIN arms :
        arms[k].name = entry.label => Identity(file, arms[k]) # <<entry.model, entry.prompt>>

BarOf(file) == IF file.bar = Nothing THEN DefaultBar ELSE file.bar

Pinned(of) == {of.baseline} \cup ToSet(of.fallbacks)

\* plan.check: <<code, stale>>; a missing suite file leaves nothing else to check
Findings(of, file, texts) ==
    LET when(holds, code, stale) == IF holds THEN {<<code, stale>>} ELSE {}
    IN  when(age > of.maxAge, "expired", TRUE)
        \cup when(of.fallbacks = <<>>, "no_fallback", FALSE)
        \cup IF file = Nothing THEN {<<"unverifiable", TRUE>>}
             ELSE when(file.cases # of.cases, "suite_changed", TRUE)
                  \cup when(BarOf(file) # of.bar, "bar_changed", TRUE)
                  \cup IF ~Declares(file) THEN {<<"unverifiable", FALSE>>}
                       ELSE when(\E entry \in Pinned(of) :
                                    ArmChanged(entry, file, Expand(file, texts)),
                                 "arm_changed", TRUE)

\* a suite that is no longer valid, or declares arms that are not usable, is an error
CheckExit ==
    CASE suiteFile # Nothing /\ ~(Accepted(suiteFile, suiteFile.config)
                                     /\ Usable(suiteFile, promptFiles)) -> "failed"
      [] OTHER -> IF \E found \in Findings(plan, suiteFile, promptFiles) : found[2]
                  THEN "gate" ELSE "ok"

(***************************************************************************)
(* Editing.                                                                *)
(***************************************************************************)
Edit ==
    /\ edits < MaxEdits /\ edits' = edits + 1
    /\ \/ suiteFile' \in SuiteFiles \ {suiteFile} /\ UNCHANGED promptFiles
       \/ /\ \E f \in Confined, text \in Texts :
                text # promptFiles[f] /\ promptFiles' = [promptFiles EXCEPT ![f] = text]
          /\ UNCHANGED suiteFile
    /\ UNCHANGED <<promoting, evaluations, command, plan, origin, age>>

\* `promote --suite`: the file is read, the case added to what was read, and
\* the whole written back
PromoteRead ==
    /\ promoting = Nothing
    /\ edits < MaxEdits /\ edits' = edits + 1
    /\ promoting' = [read |-> suiteFile]
    /\ UNCHANGED <<suiteFile, promptFiles, evaluations, command, plan, origin, age>>

Promoted(file) ==
    IF file = Nothing THEN NewSuite ELSE [file EXCEPT !.cases = Append(@, PromotedCase)]

\* append_case: refused for an id in use, for a text the case does not fit, and
\* when the result would not be valid; new_suite_text when there was no file
Promote ==
    /\ promoting # Nothing
    /\ LET file == promoting.read
       IN  suiteFile' = IF /\ file # Nothing => file.appendable
                           /\ Accepted(Promoted(file), Promoted(file).config)
                        THEN Promoted(file) ELSE suiteFile
    /\ promoting' = Nothing
    /\ UNCHANGED <<promptFiles, evaluations, command, plan, origin, age, edits>>

\* `init`: never over an existing file, unless forced
WriteStarter(force) ==
    /\ edits < MaxEdits /\ edits' = edits + 1
    /\ suiteFile # Nothing => force
    /\ suiteFile' = StarterSuite
    /\ UNCHANGED <<promptFiles, promoting, evaluations, command, plan, origin, age>>

\* a plan older than it may be is not told apart by how much
NextDay ==
    /\ plan # Nothing /\ age <= plan.maxAge
    /\ age' = age + 1
    /\ UNCHANGED <<suiteFile, promptFiles, promoting, evaluations, command, plan, origin, edits>>

PlanStep ==
    \/ \E invocation \in Accepting : Prepare(invocation)
    \/ \E invocation \in Invocations, a, b \in ToSet(evaluations) :
          a # b /\ CompareStored(<<a, b>>, invocation)
    \/ BuildRequests \/ (\E outcome \in ArmResults : RunArm(outcome)) \/ Interrupt
    \/ CompareArms
    \/ Edit \/ PromoteRead \/ Promote \/ (\E force \in BOOLEAN : WriteStarter(force)) \/ NextDay

PlanSpec == PlanInit /\ [][PlanStep]_planVars

(***************************************************************************)
(* The property.                                                           *)
(***************************************************************************)
StoredAs(id) == evaluations[SelectInSeq(evaluations, LAMBDA e : e.id = id)]

\* evaluations that ran the same cases: `compare` takes any with the same
\* questions, and fingerprints the first
OneSuite == \A k \in DOMAIN origin.ids : StoredAs(origin.ids[k]).cases = StoredAs(origin.ids[1]).cases

\* what the arms of that name would run now
RunsNow(label) ==
    LET requests == Requests([all |-> TRUE, baseline |-> Nothing, flags |-> NoAxes],
                             suiteFile, promptFiles)
    IN  {<<requests[k].config.model, Setting(requests[k].config, "prompt")>> :
            k \in {m \in DOMAIN requests : requests[m].name = label}}

\* plan.py: behind every fallback of a plan that checks out there is a stored
\* evaluation of the very cases the file holds now, ready by the bar the file
\* states now, and what the file's arm of that name would run is what was judged.
TrustedPlanHolds ==
    plan # Nothing /\ OneSuite /\ CheckExit = "ok" =>
        /\ age <= plan.maxAge
        /\ \A pin \in ToSet(plan.fallbacks) :
              LET ran == StoredAs(pin.evaluation)
              IN  /\ ran.cases = suiteFile.cases
                  /\ AgainstBaseline(StoredAs(plan.baseline.evaluation), ran, BarOf(suiteFile)).status
                         = "ready"
                  /\ Declares(suiteFile) => RunsNow(pin.label) = {<<ran.model, ran.prompt>>}

\* docs/suites.md "re-running --all-arms and saving again is what makes a stale
\* plan current": it does, unless a file was edited since the command read it.
FreshPlanIsCurrent ==
    plan # Nothing /\ origin.all /\ suiteFile = origin.file /\ promptFiles = origin.texts
        /\ age <= plan.maxAge => CheckExit = "ok"

\* docs/cli.md --require-ready: with a baseline the command passes exactly when
\* every other arm became a fallback (and, run here, every arm completed).
RequireReadyIsHonest ==
    plan # Nothing /\ origin.requireReady =>
        (origin.exit = "ok" <=>
            /\ Len(plan.fallbacks) = Len(origin.ids) - 1
            /\ origin.file # Nothing =>
                  \A k \in DOMAIN origin.ids : StoredAs(origin.ids[k]).status = "completed")

PlanIsTrusted == TrustedPlanHolds /\ FreshPlanIsCurrent /\ RequireReadyIsHonest
=============================================================================
