---------------------------- MODULE RuleCompiler ----------------------------
(***************************************************************************)
(* From a rule's condition to the *_rules maps: the rules generator turns  *)
(* the condition tree into postfix tokens (AST.py, postfix.py), and        *)
(* userspace selects, sorts and terminates the rules of each event type    *)
(* (rules_organizer.hpp, rules_into_bpf_maps.cpp).  Everything is a pure   *)
(* operator; Holds is the meaning that the tokens must preserve.           *)
(*                                                                         *)
(* A condition is a record: op is "PRED", "AND", "OR" or "NOT", pred the   *)
(* predicate of a PRED, children the operands of the others.               *)
(***************************************************************************)
EXTENDS Naturals, Sequences
LOCAL INSTANCE SequencesExt

CONSTANTS MaxRuleId,      \* __INT_MAX__, the id of the end rule
          RuntimeVersion, \* OWLSM_VERSION_STR; versions are naturals, 0 is unset
          EnabledProbes   \* the event types whose probe the configuration enables

-----------------------------------------------------------------------------
\* What a condition means for an event, given what its predicates are worth.
RECURSIVE Holds(_, _)
Holds(e, truth) ==
    CASE e.op = "PRED" -> truth[e.pred]
      [] e.op = "NOT"  -> ~Holds(e.children[1], truth)
      [] e.op = "AND"  -> \A i \in DOMAIN e.children : Holds(e.children[i], truth)
      [] e.op = "OR"   -> \E i \in DOMAIN e.children : Holds(e.children[i], truth)

\* A nested node with the operator of its parent dissolves into it.
flattened(op, children) ==
    FlattenSeq([i \in DOMAIN children |->
        IF children[i].op = op THEN children[i].children ELSE <<children[i]>>])

RECURSIVE convert_condition(_)
convert_condition(e) ==
    IF e.op = "PRED" THEN e
    ELSE LET converted == [i \in DOMAIN e.children |-> convert_condition(e.children[i])]
             kids == IF e.op = "NOT" THEN converted ELSE flattened(e.op, converted)
         IN IF e.op # "NOT" /\ Len(kids) = 1 THEN kids[1]
            ELSE [op |-> e.op, pred |-> e.pred, children |-> kids]

token(op, pred) == [operator_type |-> op, pred_idx |-> pred, result |-> "UNKNOWN"]

\* The operands one after the other, then one operator fewer than operands.
RECURSIVE condition_expr_to_postfix(_)
condition_expr_to_postfix(e) ==
    IF e.op = "PRED" THEN <<token("PREDICATE", e.pred)>>
    ELSE LET operands == FlattenSeq([i \in DOMAIN e.children |-> condition_expr_to_postfix(e.children[i])])
             count == IF e.op = "NOT" THEN 1 ELSE Len(e.children) - 1
         IN operands \o [i \in 1..count |-> token(e.op, e.pred)]

-----------------------------------------------------------------------------
\* A rule of the configuration has an id, the event types it applies to, its
\* version range and its tokens.
end_rule == [id |-> MaxRuleId, is_end_of_rules |-> TRUE, tokens |-> <<>>]

convertRule(r) == [id |-> r.id, is_end_of_rules |-> FALSE, tokens |-> r.tokens]

VersionOK(r) ==
    /\ r.min_version # 0 => RuntimeVersion >= r.min_version
    /\ r.max_version # 0 => RuntimeVersion <= r.max_version

ConfigOrder(s) == s

sort_rules(s) == SortSeq(s, LAMBDA a, b : a.id < b.id)

\* The map of one event type; its probe being disabled leaves it empty.
organize_rules(rules, event) ==
    IF event \notin EnabledProbes THEN <<>>
    ELSE LET chosen == SelectSeq(rules, LAMBDA r : event \in r.applied_events /\ VersionOK(r))
         IN sort_rules([i \in DOMAIN chosen |-> convertRule(chosen[i])] \o <<end_rule>>)
=============================================================================
