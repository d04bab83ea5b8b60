---------------------------- MODULE TriggerLogic ----------------------------
(* The trigger of a scenario: its logic expression, how it is accepted when a   *)
(* scenario is saved (scenarios/schemas/scenario.validators.ts), and how it is   *)
(* evaluated when a schedule fires, a device was updated or a command was        *)
(* executed (common/services/conditions-evaluator.service.ts,                    *)
(* scenarios/scenarios-execution.service.ts).                                    *)
(*                                                                             *)
(* The state is a request that is written token by token and saved with a list  *)
(* of trigger sources; the properties compare the evaluator with the reading of  *)
(* the expression that its author has in mind.                                   *)
EXTENDS Integers, FiniteSets, Sequences, SequencesExt

CONSTANTS
    Devices,
    Items,          \* names of controls, measurements and commands
    Settings,
    Nothing,        \* a section without conditions, a context without commands
    Sources,        \* the trigger sources that requests list
    MaxSources,
    MaxTokens       \* bound on the length of an expression

VARIABLES
    logic,      \* the expression, a sequence of tokens
    sources,    \* the sources it was saved with
    saved

triggerVars == <<logic, sources, saved>>

(* -------------------------------- Expressions ----------------------------- *)

Token(kind, n) == [kind |-> kind, n |-> n]
Operands == {Token("operand", n) : n \in 0..MaxSources}
Operators == {Token("AND", 0), Token("OR", 0)}
Open == Token("(", 0)
Close == Token(")", 0)
Tokens == Operands \cup Operators \cup {Open, Close}

\* The regular expression of validateTriggerLogic says which token follows which;
\* it does not count the parentheses.
Starts(t) == t = Open \/ t \in Operands
Follows(t, next) == IF t = Open \/ t \in Operators THEN Starts(next)
                    ELSE next = Close \/ next \in Operators
Viable(tokens) == /\ tokens # <<>> => Starts(tokens[1])
                  /\ \A i \in 1..Len(tokens)-1 : Follows(tokens[i], tokens[i+1])
Matches(tokens) == /\ tokens # <<>> /\ Viable(tokens)
                   /\ Last(tokens) = Close \/ Last(tokens) \in Operands

Positions(tokens, S) == {i \in 1..Len(tokens) : tokens[i] \in S}

\* Fault: an operand may name a source that is not there.
AcceptsAnyOperand(tokens, n) ==
    Matches(tokens) /\ Cardinality(Positions(tokens, Operands)) = n
\* validateTriggerLogic, for n sources.
Accepts(tokens, n) ==
    /\ Matches(tokens)
    /\ Cardinality(Positions(tokens, Operands)) = n
    /\ \A i \in Positions(tokens, Operands) : tokens[i].n <= n

(* -------------------------------- The parser ------------------------------ *)

\* A nested array is written as its elements in parentheses.
Group(items) == <<Open>> \o items \o <<Close>>

\* A call of parseTriggerExpression: what it has parsed, and the groups that wait
\* for the next operator or its end. One group is taken as it is.
Call(parsed, waiting, groups) == [parsed |-> parsed, waiting |-> waiting, groups |-> groups]
NewCall == Call(<<>>, <<>>, 0)
Flushed(call) == call.parsed \o (IF call.groups > 1 THEN Group(call.waiting) ELSE call.waiting)

\* The call that shifts tokens, those it was called from, and whether the
\* outermost one has met a closing parenthesis: it ignores what follows.
Parser(call, callers, ended) == [call |-> call, callers |-> callers, ended |-> ended]
NewParser == Parser(NewCall, <<>>, FALSE)
Calling(p) == Parser(NewCall, Append(p.callers, p.call), p.ended)
Returning(p) ==
    IF p.callers = <<>> THEN Parser(p.call, <<>>, TRUE)
    ELSE LET caller == Last(p.callers)
             back == Call(caller.parsed, caller.waiting \o Group(Flushed(p.call)), caller.groups + 1)
         IN  Parser(back, Front(p.callers), p.ended)
ParsingOperator(p, t) == Parser(Call(Append(Flushed(p.call), t), <<>>, 0), p.callers, p.ended)
ParsingOperand(p, t) ==
    Parser(Call(Append(p.call.parsed, t), p.call.waiting, p.call.groups), p.callers, p.ended)

\* Fault: a closing parenthesis is passed over instead of ending the group.
ParseTokenFlat(p, t) ==
    CASE t = Open -> Calling(p)
      [] t \in Operators -> ParsingOperator(p, t)
      [] t \in Operands -> ParsingOperand(p, t)
      [] OTHER -> p
\* The loop of parseTriggerExpression.
ParseToken(p, t) ==
    CASE p.ended -> p
      [] ~p.ended /\ t = Open -> Calling(p)
      [] ~p.ended /\ t = Close -> Returning(p)
      [] ~p.ended /\ t \in Operators -> ParsingOperator(p, t)
      [] OTHER -> ParsingOperand(p, t)

\* The end of the tokens ends the calls one after the other, as ")" does.
Parsed(p, tokens) ==
    LET after[k \in 0..Len(tokens)] == IF k = 0 THEN p ELSE ParseToken(after[k-1], tokens[k])
    IN  after[Len(tokens)]
Parse(tokens) ==
    LET p == Parsed(NewParser, tokens)
    IN  Flushed(Parsed(p, [k \in DOMAIN p.callers |-> Close]).call)

(* ------------------------------- The evaluator ---------------------------- *)

\* A condition past the sources is undefined, which counts as unmet in || and &&
\* but is told apart where the first result is awaited.
Verdicts == {"met", "unmet", "undefined"}
Verdict(b) == IF b THEN "met" ELSE "unmet"
ConditionOf(n, conditions) ==
    IF n \in DOMAIN conditions THEN Verdict(conditions[n]) ELSE "undefined"

\* Fault: a conjunction asks whether both sides are alike.
CombineAlike(operator, result, condition) ==
    CASE operator = "OR"  -> IF result = "met" THEN result ELSE condition
      [] operator = "AND" -> Verdict(result = condition)
\* result ||= condition, result &&= condition
Combine(operator, result, condition) ==
    CASE operator = "OR"  -> IF result = "met" THEN result ELSE condition
      [] operator = "AND" -> IF result = "met" THEN condition ELSE result

\* A call of evaluateExpression: the operators count from left to right, without
\* precedence.
Loop(result, operator) == [result |-> result, operator |-> operator]
NewLoop == Loop("undefined", "none")
Judging(loop, condition) ==
    Loop(IF loop.result # "undefined" /\ loop.operator # "none"
         THEN Combine(loop.operator, loop.result, condition) ELSE condition,
         loop.operator)

\* The loop that takes the next item, and those it was called from: a group is
\* evaluated by a loop of its own, whose result is the condition.
Evaluator(loop, outer) == [loop |-> loop, outer |-> outer]
EvaluateItem(e, item, conditions) ==
    CASE item = Open -> Evaluator(NewLoop, Append(e.outer, e.loop))
      [] item = Close -> Evaluator(Judging(Last(e.outer), e.loop.result), Front(e.outer))
      [] item \in Operators -> Evaluator(Loop(e.loop.result, item.kind), e.outer)
      [] OTHER -> Evaluator(Judging(e.loop, ConditionOf(item.n, conditions)), e.outer)
Evaluated(e, items, conditions) ==
    LET after[k \in 0..Len(items)] ==
            IF k = 0 THEN e ELSE EvaluateItem(after[k-1], items[k], conditions)
    IN  after[Len(items)]

\* evaluateTriggerExpression
Evaluate(tokens, conditions) ==
    Evaluated(Evaluator(NewLoop, <<>>), Parse(tokens), conditions).loop.result

(* ------------------------------ The conditions ---------------------------- *)

Contents == UNION {[S -> Settings] : S \in SUBSET Items}

\* Fault: no commands meet every condition on commands.
MeetsAbsent(conditions, payload) ==
    conditions # Nothing /\ payload # Nothing =>
        \A k \in DOMAIN conditions : k \in DOMAIN payload /\ payload[k] = conditions[k]
\* meetsConditions
Meets(conditions, payload) ==
    conditions # Nothing =>
        /\ payload # Nothing
        /\ \A k \in DOMAIN conditions : k \in DOMAIN payload /\ payload[k] = conditions[k]

\* deviceConditionIsMet, of the stored payloads of the source's device.
DeviceConditionIsMet(source, device, commands) ==
    /\ Meets(source.controls, device.controls)
    /\ Meets(source.measurements, device.measurements)
    /\ Meets(source.commands, commands)

\* extractConditions: the commands of the event are compared with the conditions
\* of every source, whichever device executed them.
Conditions(list, context, devices) ==
    [i \in DOMAIN list |->
        IF list[i].type = "cron" THEN context.scheduled
        ELSE DeviceConditionIsMet(list[i], devices[list[i].device], context.commands)]

\* execute: whether the actions of the scenario are carried out.
Executes(context, devices) == Evaluate(logic, Conditions(sources, context, devices)) = "met"

\* getDeviceTriggeredScenarios: an event of device d is for the scenarios that name it.
TriggeredBy(d) == \E i \in DOMAIN sources : sources[i].type = "device" /\ sources[i].device = d

(* ------------------------------ Specification ----------------------------- *)

TriggerInit == logic = <<>> /\ sources = <<>> /\ saved = FALSE

\* The author adds a token; what no longer matches is left as it is.
Write(t) == /\ ~saved /\ Len(logic) < MaxTokens /\ Viable(logic)
            /\ logic' = Append(logic, t)
            /\ UNCHANGED <<sources, saved>>

\* validateCronTriggerSource, validateDeviceExternalId and validateTriggerLogic:
\* one cron source, and conditions for each device source.
ValidSources(list) ==
    /\ Cardinality({i \in DOMAIN list : list[i].type = "cron"}) <= 1
    /\ \A i \in DOMAIN list : list[i].type = "device" =>
           \E c \in {list[i].controls, list[i].measurements, list[i].commands} :
               c # Nothing /\ c # <<>>
Save(list) == /\ ~saved /\ ValidSources(list) /\ Accepts(logic, Len(list))
              /\ sources' = list /\ saved' = TRUE
              /\ UNCHANGED logic

TriggerNext ==
    \/ \E t \in Tokens : Write(t)
    \/ \E n \in 1..MaxSources : \E list \in [1..n -> Sources] : Save(list)

TriggerSpec == TriggerInit /\ [][TriggerNext]_triggerVars

(* --------------------------- What the author means ------------------------ *)

Balance(tokens, i, j) == Cardinality({k \in i..j : tokens[k] = Open})
                         - Cardinality({k \in i..j : tokens[k] = Close})
\* Every closing parenthesis closes one.
NoSurplus(tokens) == \A i \in 1..Len(tokens) : Balance(tokens, 1, i) >= 0
\* Parentheses that were left open are closed at the end.
Closed(tokens) == tokens \o [i \in 1..Balance(tokens, 1, Len(tokens)) |-> Close]

\* The last operator outside parentheses is applied to what is left and right of
\* it; without one, the tokens from i to j are one operand or in parentheses.
Reading(tokens, met) ==
    LET reads[s \in (1..Len(tokens)+1) \X (0..Len(tokens))] ==
            LET i == s[1]
                j == s[2]
                outer == {k \in i..j : tokens[k] \in Operators /\ Balance(tokens, i, k) = 0}
                last == Max(outer)
                left == reads[<<i, last - 1>>]
                right == reads[<<last + 1, j>>]
            IN  CASE outer # {} -> IF tokens[last].kind = "OR" THEN left \/ right ELSE left /\ right
                  [] outer = {} /\ i < j -> reads[<<i + 1, j - 1>>]
                  [] OTHER -> tokens[i].n \in met
    IN  reads[<<1, Len(tokens)>>]

Sensible == saved /\ NoSurplus(logic) /\ Token("operand", 0) \notin ToSet(logic)

(* -------------------------------- Properties ------------------------------ *)

(* Whatever is accepted when a scenario is saved is evaluated the way it reads: *)
(* parentheses first, operators from left to right, and parentheses left open   *)
(* close at the end (evaluateTriggerExpression). Operand 0 and a closing        *)
(* parenthesis too many are accepted as well, and are left out here.            *)
EvaluatesAsRead ==
    Sensible => \A conditions \in [1..Len(sources) -> BOOLEAN] :
        LET read == Closed(logic)
        IN  Evaluate(logic, conditions) = Verdict(Reading(read, {i \in DOMAIN conditions : conditions[i]}))

(* One more source that is met never keeps a scenario from being executed,      *)
(* whatever expression was accepted: there is no negation, and what is undefined*)
(* does not act as one (evaluateExpression).                                    *)
MoreIsMore ==
    saved => \A conditions \in [1..Len(sources) -> BOOLEAN], i \in 1..Len(sources) :
        Evaluate(logic, conditions) = "met" =>
            Evaluate(logic, [conditions EXCEPT ![i] = TRUE]) = "met"

DeviceStates == [controls : Contents, measurements : Contents]

(* A command is not remembered: with sources that all wait for commands, neither*)
(* a schedule nor an update of a device executes a scenario, for no accepted    *)
(* expression at all (execute, extractConditions).                              *)
CommandsPass ==
    saved /\ (\A i \in DOMAIN sources : sources[i].type = "device" /\ sources[i].commands # Nothing)
    => \A devices \in [Devices -> DeviceStates], scheduled \in BOOLEAN :
           ~Executes([scheduled |-> scheduled, commands |-> Nothing], devices)

(* A condition on the commands of a device is about that device: dto/common.dto *)
(* says of it that it is "matched against the command that has just been        *)
(* executed - e.g. a button press of a remote" and that it is one of "the       *)
(* device commands conditions".                                                 *)
OwnCommands ==
    Sensible => \A devices \in [Devices -> DeviceStates], commands \in Contents, d \in Devices :
        TriggeredBy(d) =>
        LET context == [scheduled |-> FALSE, commands |-> commands]
            own == [i \in DOMAIN sources |->
                       /\ Conditions(sources, context, devices)[i]
                       /\ sources[i].commands # Nothing => sources[i].device = d]
        IN  Executes(context, devices) => Evaluate(logic, own) = "met"
=============================================================================
