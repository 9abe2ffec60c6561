----------------------------- MODULE Assertions -----------------------------
(***************************************************************************)
(* The deterministic checks of a suite case (evals/assertions.py): how a   *)
(* check is written, and its verdict on one answer.                        *)
(*                                                                         *)
(* An answer is what the checks look at:                                   *)
(*   [words, chars, padded, doc, ms, calls]                                *)
(* its words in order, its length, whether white space surrounds it, the   *)
(* JSON value it parses to (NoValue when it does not), how long the run    *)
(* took, and the transcript: calls [name, input, failed] in order.  A      *)
(* glob, a regex and a JSON Schema are the set of what they accept.        *)
(* `detail` texts are left out.                                            *)
(***************************************************************************)
EXTENDS Integers, Sequences, FiniteSets, SequencesExt, TLC

CONSTANTS
    Fold,     \* casefold, on words
    NoValue   \* an optional field that is not set

(***************************************************************************)
(* Writing a check.  An entry is a function from field names; the value of *)
(* a shorthand key is [lit |-> value], or [map |-> fields] for a mapping.  *)
(***************************************************************************)
MainField ==
    [ contains |-> "value", not_contains |-> "value", regex |-> "pattern",
      equals |-> "value", json_valid |-> NoValue, json_schema |-> "schema",
      max_length |-> "value", min_length |-> "value", max_latency_ms |-> "value",
      tool_called |-> "name", tool_not_called |-> "name", tool_sequence |-> "tools",
      max_tool_calls |-> "value", no_tool_errors |-> NoValue ]

\* {contains: x} -> {type: contains, value: x}; NoValue is a ValueError
ExpandShorthand(entry) ==
    LET kinds == DOMAIN entry \cap DOMAIN MainField
        kind  == CHOOSE k \in kinds : TRUE
        given == entry[kind]
        main  == MainField[kind]
        rest  == [f \in DOMAIN entry \ {kind} |-> entry[f]] @@ [type |-> kind]
    IN  CASE "type" \in DOMAIN entry -> entry
          [] "type" \notin DOMAIN entry /\ Cardinality(kinds) # 1 -> NoValue
          [] OTHER ->
               CASE main = NoValue -> IF given = [lit |-> TRUE] THEN rest ELSE NoValue
                 [] main # NoValue /\ DOMAIN given = {"map"} /\ kind # "json_schema" ->
                        given.map @@ rest
                 [] OTHER -> (main :> given.lit) @@ rest

\* the fields a check has when the file leaves them out
Defaults ==
    [case_sensitive |-> TRUE, strip |-> TRUE, unit |-> "chars", mode |-> "subsequence",
     args |-> NoValue, times |-> NoValue, min_times |-> NoValue, max_times |-> NoValue]

Check(entry) == ExpandShorthand(entry) @@ Defaults

(***************************************************************************)
(* Checks on the text.                                                     *)
(***************************************************************************)
Folded(words, caseSensitive) ==
    IF caseSensitive THEN words ELSE [i \in DOMAIN words |-> Fold[words[i]]]

\* str.find of a run of words
Occurs(part, words) ==
    \E i \in 0..(Len(words) - Len(part)) :
        \A k \in DOMAIN part : words[i + k] = part[k]

LengthIn(answer, unit) == IF unit = "words" THEN Len(answer.words) ELSE answer.chars

CheckOutput(check, answer) ==
    LET found == Occurs(Folded(check.value, check.case_sensitive),
                        Folded(answer.words, check.case_sensitive))
    IN  CASE check.type = "contains"     -> found
          [] check.type = "not_contains" -> ~found
          [] check.type = "regex"        -> \E i \in DOMAIN answer.words :
                                                answer.words[i] \in check.pattern
          [] check.type = "equals"       ->
                 /\ Folded(answer.words, check.case_sensitive)
                      = Folded(check.value, check.case_sensitive)
                 /\ check.strip \/ ~answer.padded
          [] check.type = "json_valid"   -> answer.doc # NoValue
          [] check.type = "json_schema"  -> answer.doc # NoValue /\ answer.doc \in check.schema
          [] check.type = "max_length"   -> LengthIn(answer, check.unit) <= check.value
          [] check.type = "min_length"   -> LengthIn(answer, check.unit) >= check.value
          [] check.type = "max_latency_ms" -> answer.ms <= check.value

(***************************************************************************)
(* Checks on the tool calls.  An input and the args of a check are trees:  *)
(* a function from paths of keys, <<>> the root, to nodes [t, v].  A       *)
(* mapping's keys are the paths below it; v is the length of a list, a     *)
(* scalar's value, and under "re" the strings a regex is found in.         *)
(***************************************************************************)
\* every node that is asked for is there and fits; others are ignored
ArgsMatch(expected, actual) ==
    \A path \in DOMAIN expected :
        /\ path \in DOMAIN actual
        /\ LET asked == expected[path]
               given == actual[path]
           IN  CASE asked.t = "re"  -> given.t = "str" /\ given.v \in asked.v
                 [] asked.t = "map" -> given.t = "map"
                 [] OTHER           -> given = asked    \* a boolean never equals a number

\* (at least, at most) matching calls
Bounds(check) ==
    CASE check.times # NoValue -> <<check.times, check.times>>
      [] check.times = NoValue /\ check.min_times = NoValue /\ check.max_times = NoValue ->
             <<1, NoValue>>
      [] OTHER -> <<IF check.min_times = NoValue THEN 0 ELSE check.min_times, check.max_times>>

\* `all(any(... for name in remaining) for pattern in tools)` over one iterator:
\* each pattern consumes names up to its first match
Consumed(calls, tools) ==
    FoldLeft(LAMBDA k, call : IF k < Len(tools) /\ call.name \in tools[k + 1]
                              THEN k + 1 ELSE k,
             0, calls)

CheckTools(check, calls) ==
    CASE check.type = "tool_called" ->
             LET matching == SelectSeq(calls, LAMBDA c :
                     /\ c.name \in check.name
                     /\ check.args = NoValue \/ ArgsMatch(check.args, c.input))
                 count == Len(matching)
                 bound == Bounds(check)
             IN  count >= bound[1] /\ (bound[2] = NoValue \/ count <= bound[2])
      [] check.type = "tool_not_called" -> \A i \in DOMAIN calls : calls[i].name \notin check.name
      [] check.type = "tool_sequence" ->
             IF check.mode = "exact"
             THEN /\ Len(calls) = Len(check.tools)
                  /\ \A i \in DOMAIN calls : calls[i].name \in check.tools[i]
             ELSE Consumed(calls, check.tools) = Len(check.tools)
      [] check.type = "max_tool_calls" -> Len(calls) <= check.value
      [] check.type = "no_tool_errors" -> \A i \in DOMAIN calls : ~calls[i].failed

ToolChecks == {"tool_called", "tool_not_called", "tool_sequence", "max_tool_calls",
               "no_tool_errors"}

\* one verdict per check, in the case's order
Evaluate(checks, answer) ==
    [i \in DOMAIN checks |->
        [type   |-> checks[i].type,
         passed |-> IF checks[i].type \in ToolChecks
                    THEN CheckTools(checks[i], answer.calls)
                    ELSE CheckOutput(checks[i], answer)]]
=============================================================================
