--------------------------- MODULE PostfixMachine ---------------------------
(***************************************************************************)
(* What evaluating a list of postfix rules against an event promises: the  *)
(* tokens of a rule act on a stack of truth values, every predicate is     *)
(* worth what it is worth for this event, and the first rule that leaves   *)
(* exactly TRUE decides.  There is no laziness, no cache and no memory     *)
(* shared with anyone: RuleMatching, which has all three, implements this. *)
(***************************************************************************)
EXTENDS Naturals, Sequences

CONSTANTS Truths,   \* what the predicates may be worth: a set of functions to BOOLEAN
          Maps      \* the rule lists that may be loaded

VARIABLES rules,    \* the rule list
          pc,       \* "idle", "rule", "token" or "done"
          truth,    \* the event: what each predicate is worth
          rule,     \* number of the rule being evaluated
          tok,      \* number of its next token
          values,   \* the stack of truth values
          matched   \* the rule that decided, 0 if none did

pvars == <<rules, pc, truth, rule, tok, values, matched>>

Init ==
    /\ rules \in Maps
    /\ pc = "idle"
    /\ truth \in Truths
    /\ rule = 1 /\ tok = 1 /\ values = <<>> /\ matched = 0

Begin(t) ==
    /\ pc = "idle"
    /\ pc' = "rule" /\ truth' = t /\ rule' = 1 /\ tok' = 1
    /\ values' = <<>> /\ matched' = 0
    /\ UNCHANGED rules

StartRule ==
    /\ pc = "rule"
    /\ IF rule <= Len(rules) /\ ~rules[rule].is_end_of_rules
         THEN pc' = "token" ELSE pc' = "done"
    /\ tok' = 1 /\ values' = <<>>
    /\ UNCHANGED <<rules, truth, rule, matched>>

NextRule ==
    /\ pc' = "rule" /\ rule' = rule + 1 /\ tok' = 1 /\ values' = <<>>
    /\ UNCHANGED <<rules, truth, matched>>

\* The values an operator takes from the stack, and what it leaves.
Arity(op) == CASE op = "PREDICATE" -> 0 [] op = "NOT" -> 1 [] OTHER -> 2

Top(k) == values[Len(values) - k]

Outcome(t) ==
    CASE t.operator_type = "PREDICATE" -> truth[t.pred_idx]
      [] t.operator_type = "NOT" -> ~Top(0)
      [] t.operator_type = "AND" -> Top(1) /\ Top(0)
      [] t.operator_type = "OR" -> Top(1) \/ Top(0)

EvalToken ==
    /\ pc = "token" /\ tok <= Len(rules[rule].tokens)
    /\ LET t == rules[rule].tokens[tok]
           n == Arity(t.operator_type)
       IN IF Len(values) < n
            THEN NextRule
            ELSE /\ values' = Append(SubSeq(values, 1, Len(values) - n), Outcome(t))
                 /\ tok' = tok + 1
                 /\ UNCHANGED <<rules, pc, truth, rule, matched>>

FinishRule ==
    /\ pc = "token" /\ tok > Len(rules[rule].tokens)
    /\ IF values = <<TRUE>>
         THEN /\ pc' = "done" /\ matched' = rule /\ values' = <<>> /\ tok' = 1
              /\ UNCHANGED <<rules, truth, rule>>
         ELSE NextRule

Return ==
    /\ pc = "done"
    /\ pc' = "idle"
    /\ UNCHANGED <<rules, truth, rule, tok, values, matched>>

Next == \/ \E t \in Truths : Begin(t)
        \/ StartRule \/ EvalToken \/ FinishRule \/ Return

Spec == Init /\ [][Next]_pvars
=============================================================================
