---------------------------- MODULE PosturePolicy ----------------------------
(***************************************************************************)
(* Posture policy: rules over facts, each with a verdict                   *)
(* (internal/posturepolicy/model.go and evaluate.go).                      *)
(*                                                                         *)
(* A fact was observed with a value, or is unknown or unavailable.  A JSON *)
(* value is a record of its type and content; numbers are numerals, lists  *)
(* of strings are sets.  Days are numbers.                                 *)
(***************************************************************************)
EXTENDS Decimal, FiniteSets

NoValue == [type |-> "none", v |-> 0]
Observed(value) == [state |-> "observed", value |-> value]
Unknown == [state |-> "unknown", value |-> NoValue]
Unavailable == [state |-> "unavailable", value |-> NoValue]

Value(type, v) == [type |-> type, v |-> v]
Condition(op, expected) == [op |-> op, expected |-> expected]
Selector(fact, yes, no) == [fact |-> fact, applicable |-> yes, not |-> no]


------------------------------------------------------------------------------
(* Validation                                                              *)

ValidCondition(c) ==
  \/ c.op \in {"equals", "at_least", "at_most"} /\ c.expected.type # "none"
  \/ c.op = "non_empty" /\ c.expected.type = "none"

ValidRule(rule, version) ==
  /\ ValidCondition(rule.condition)
  /\ rule.selected => /\ version = 2
                      /\ ValidCondition(rule.selector.applicable)
                      /\ ValidCondition(rule.selector.not)
  /\ rule.severity \in {"critical", "high", "medium", "low", "informational"}

\* Profile.Validate: a rule and an exception are named once, and an exception
\* names a rule.
ValidProfile(p) ==
  /\ p.version \in {1, 2}
  /\ \A i \in DOMAIN p.rules : ValidRule(p.rules[i], p.version)
  /\ \A i, j \in DOMAIN p.rules : p.rules[i].id = p.rules[j].id => i = j
  /\ \A e \in DOMAIN p.exceptions : \E i \in DOMAIN p.rules : p.rules[i].id = p.exceptions[e].rule
  /\ \A e, f \in DOMAIN p.exceptions : p.exceptions[e].rule = p.exceptions[f].rule => e = f

------------------------------------------------------------------------------
(* Evaluation.  A comparison answers yes, no or error.                     *)

Answer(b) == IF b THEN "yes" ELSE "no"

SameValue(a, b) ==
  /\ a.type = b.type
  /\ IF a.type = "number" THEN CompareNumbers(a.v, b.v) = 0 ELSE a.v = b.v

Matches(c, v) ==
  CASE c.op = "equals" -> Answer(SameValue(v, c.expected))
    [] c.op = "non_empty" -> Answer(\/ v.type = "string" /\ v.v # ""
                                    \/ v.type = "list" /\ v.v # {})
    [] c.op \in {"at_least", "at_most"} ->
         IF v.type # "number" \/ c.expected.type # "number" THEN "error"
         ELSE Answer(IF c.op = "at_least" THEN CompareNumbers(v.v, c.expected.v) >= 0
                                          ELSE CompareNumbers(v.v, c.expected.v) <= 0)

\* Mutant: what cannot be decided counts as applicable.
ApplicabilityByDefault(selector, fact) ==
  IF fact.state = "observed" /\ Matches(selector.not, fact.value) = "yes"
  THEN "not-applicable" ELSE "applicable"

\* evaluateApplicability: both conditions are evaluated, and must not both hold.
Applicability(selector, fact) ==
  IF fact.state # "observed" THEN fact.state
  ELSE LET yes == Matches(selector.applicable, fact.value)
           no == Matches(selector.not, fact.value)
       IN  CASE "error" \in {yes, no} \/ (yes = "yes" /\ no = "yes") -> "error"
             [] yes = "yes" /\ no = "no" -> "applicable"
             [] yes = "no" /\ no = "yes" -> "not-applicable"
             [] yes = "no" /\ no = "no" -> "unresolved"

\* The status of a rule that does not apply.
InapplicableStatus(decision) == IF decision = "unresolved" THEN "unknown" ELSE decision

RuleStatus(rule, fact) ==
  IF fact.state # "observed" THEN fact.state
  ELSE CASE Matches(rule.condition, fact.value) = "error" -> "error"
         [] Matches(rule.condition, fact.value) = "yes" -> "pass"
         [] Matches(rule.condition, fact.value) = "no" ->
              IF rule.severity = "informational" THEN "warning" ELSE "fail"

\* Mutant: an exception without its expiry.
ExcusedForEver(p, rule, asOf) == \E e \in DOMAIN p.exceptions : p.exceptions[e].rule = rule.id

\* An exception covers a mismatch up to the end of the day it expires.
Excused(p, rule, asOf) ==
  \E e \in DOMAIN p.exceptions : /\ p.exceptions[e].rule = rule.id
                                /\ asOf < p.exceptions[e].expires + 1

InputFact(facts, name) == IF name \in DOMAIN facts THEN facts[name] ELSE Unknown

Verdict(p, rule, facts, asOf) ==
  LET decision == IF rule.selected
                  THEN Applicability(rule.selector, InputFact(facts, rule.selector.fact))
                  ELSE "applicable"
      status == RuleStatus(rule, InputFact(facts, rule.fact))
  IN  IF decision # "applicable" THEN InapplicableStatus(decision)
      ELSE IF status \in {"fail", "warning"} /\ Excused(p, rule, asOf) THEN "excepted"
      ELSE status

\* Evaluate: no report at all when the profile is invalid or a rule cannot be
\* evaluated.
Evaluable(p, facts, asOf) ==
  ValidProfile(p) /\ \A i \in DOMAIN p.rules : Verdict(p, p.rules[i], facts, asOf) # "error"
Evaluate(p, facts, asOf) == [i \in DOMAIN p.rules |-> Verdict(p, p.rules[i], facts, asOf)]
=============================================================================
