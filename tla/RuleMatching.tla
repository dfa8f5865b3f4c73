---------------------------- MODULE RuleMatching ----------------------------
(***************************************************************************)
(* The in-kernel rule evaluator: event_and_rule_matcher.bpf.h and .bpf.c,  *)
(* run by generic_tail_call through bpf_for_each_map_elem.  One CPU is     *)
(* modelled, because everything the evaluator writes is per-CPU memory:    *)
(* the evaluation stack (helper_stack) and the predicate results cache,    *)
(* whose entries are valid for the event whose time stamp they carry.      *)
(*                                                                         *)
(* Evaluations nest: while a task's hook is evaluating, a softirq on the   *)
(* same CPU may run inet_conn_request, which evaluates with the same       *)
(* stack and cache and finishes before the task's hook continues.  Depth   *)
(* is how deep they may nest; 1 is a CPU without softirqs.                 *)
(***************************************************************************)
EXTENDS Naturals, Sequences

CONSTANTS Preds,      \* predicate ids: keys of predicates_map
          Truths,     \* what eval_pred returns for each predicate, per kind of event
          Configs,    \* names of the rule configurations that may be loaded
          MapOf,      \* the contents of the *_rules map under each of them
          MaxTokens,  \* MAX_TOKENS_PER_RULE, the size of the stack
          Depth,      \* how deep evaluations nest on the CPU
          Horizon     \* bound: events evaluated

NoPred == "none"      \* the pred_idx -1 of a token that only carries a result
Ops == {"PREDICATE", "AND", "OR", "NOT"}
Results == {"UNKNOWN", "TRUE", "FALSE"}

TokenT == [operator_type : Ops, pred_idx : Preds \union {NoPred}, result : Results]

\* A token as the rule maps hold it: predicates and bare operators, no result.
LoadedToken(t) ==
    /\ t \in TokenT /\ t.result = "UNKNOWN"
    /\ t.operator_type = "PREDICATE" <=> t.pred_idx # NoPred

ASSUME ConstantsOK ==
    /\ MaxTokens \in Nat \ {0} /\ Depth \in Nat \ {0} /\ Horizon \in Nat
    /\ NoPred \notin Preds
    /\ Truths # {} /\ Truths \subseteq [Preds -> BOOLEAN]
    /\ MapOf \in [Configs -> Seq([id : Nat, is_end_of_rules : BOOLEAN, tokens : Seq(TokenT)])]
    /\ \A c \in Configs : \A r \in DOMAIN MapOf[c] :
          /\ Len(MapOf[c][r].tokens) <= MaxTokens
          /\ \A i \in DOMAIN MapOf[c][r].tokens : LoadedToken(MapOf[c][r].tokens[i])

VARIABLES config,                    \* the configuration that was loaded
          helper_stack,              \* per-CPU eval_stack: tokens and stack_pointer
          predicates_results_cache,  \* per-CPU: time and result of each predicate
          clock,                     \* bpf_ktime_get_ns
          level,                     \* the evaluation that runs, 0 if none
          evals                      \* the evaluations begun and not yet returned

vars == <<config, helper_stack, predicates_results_cache, clock, level, evals>>

rules == MapOf[config]

IdleEval(t) == [pc |-> "idle", time |-> 0, truth |-> t, rule |-> 1, tok |-> 1, matched |-> 0]

Init ==
    /\ config \in Configs
    /\ helper_stack = [stack_pointer |-> 0,
                       tokens |-> [i \in 0..(MaxTokens - 1) |->
                           [operator_type |-> "PREDICATE", pred_idx |-> NoPred, result |-> "UNKNOWN"]]]
    /\ predicates_results_cache = [p \in Preds |-> [time |-> 0, result |-> "UNKNOWN"]]
    /\ clock = 0
    /\ level = 0
    /\ \E t \in Truths : evals = [l \in 1..Depth |-> IdleEval(t)]

(***************************************************************************)
(* The stack: stack_push fails when it is full, stack_pop when empty.  A   *)
(* pop leaves the token in the array.                                      *)
(***************************************************************************)
CanPop(n) == helper_stack.stack_pointer >= n

Popped(k) == helper_stack.tokens[helper_stack.stack_pointer - k]

CanPush(sp) == sp < MaxTokens

stack_push(sp, t) ==
    [stack_pointer |-> sp + 1, tokens |-> [helper_stack.tokens EXCEPT ![sp] = t]]

ResultToken(v) == [operator_type |-> "PREDICATE", pred_idx |-> NoPred, result |-> v]

(***************************************************************************)
(* Predicates.  A token that carries a result is worth it; otherwise the   *)
(* cache answers if its entry has the event's time; otherwise eval_pred    *)
(* does, and the answer is cached.                                         *)
(***************************************************************************)
CachedForAnyEvent(p, time, cache) == cache[p].result

get_cached_pred_result(p, time, cache) ==
    IF time # 0 /\ cache[p].time = time THEN cache[p].result ELSE "UNKNOWN"

eval_pred(p, truth) == IF truth[p] THEN "TRUE" ELSE "FALSE"

get_pred_evaluation(t, e, cache) ==
    IF t.result # "UNKNOWN" THEN t.result
    ELSE LET cached == get_cached_pred_result(t.pred_idx, e.time, cache)
         IN IF cached # "UNKNOWN" THEN cached ELSE eval_pred(t.pred_idx, e.truth)

StampWithoutResult(t, e, cache) ==
    IF t.result # "UNKNOWN" \/ e.time = 0 \/ cache[t.pred_idx].time = e.time THEN cache
    ELSE [cache EXCEPT ![t.pred_idx] = [time |-> e.time, result |-> cache[t.pred_idx].result]]

set_cached_pred_result(t, e, cache) ==
    IF \/ t.result # "UNKNOWN"
       \/ e.time = 0
       \/ get_cached_pred_result(t.pred_idx, e.time, cache) # "UNKNOWN"
      THEN cache
      ELSE [cache EXCEPT ![t.pred_idx] = [time |-> e.time, result |-> eval_pred(t.pred_idx, e.truth)]]

(***************************************************************************)
(* One step per element of the rule map and per token.  An interrupt can   *)
(* come between steps.                                                     *)
(***************************************************************************)
cur == evals[level]

Go(e) == evals' = [evals EXCEPT ![level] = e]

NextRule ==
    Go([pc |-> "rule", time |-> cur.time, truth |-> cur.truth,
        rule |-> cur.rule + 1, tok |-> 1, matched |-> 0])

NextToken ==
    Go([pc |-> "token", time |-> cur.time, truth |-> cur.truth,
        rule |-> cur.rule, tok |-> cur.tok + 1, matched |-> 0])

\* A hook's tail call enters the matcher with its event, at the bottom or
\* on top of the evaluation that it interrupted.
Begin(t) ==
    /\ level < Depth /\ clock < Horizon
    /\ clock' = clock + 1
    /\ level' = level + 1
    /\ evals' = [evals EXCEPT ![level + 1] =
                   [pc |-> "rule", time |-> clock + 1, truth |-> t, rule |-> 1, tok |-> 1, matched |-> 0]]
    /\ UNCHANGED <<config, helper_stack, predicates_results_cache>>

ResetStack == [stack_pointer |-> 0, tokens |-> helper_stack.tokens]

\* The map element is the end marker, or evaluation of the rule begins.
StartRule ==
    /\ level > 0 /\ cur.pc = "rule"
    /\ IF cur.rule <= Len(rules) /\ ~rules[cur.rule].is_end_of_rules
         THEN /\ helper_stack' = ResetStack
              /\ Go([pc |-> "token", time |-> cur.time, truth |-> cur.truth,
                     rule |-> cur.rule, tok |-> 1, matched |-> 0])
         ELSE /\ Go([pc |-> "done", time |-> cur.time, truth |-> cur.truth,
                     rule |-> cur.rule, tok |-> 1, matched |-> 0])
              /\ UNCHANGED helper_stack
    /\ UNCHANGED <<config, predicates_results_cache, clock, level>>

\* Pushes t on what is left of the stack, or gives the rule up.
PushOrFail(sp, t) ==
    IF CanPush(sp)
      THEN helper_stack' = stack_push(sp, t) /\ NextToken
      ELSE helper_stack' = [stack_pointer |-> sp, tokens |-> helper_stack.tokens] /\ NextRule

EvalPredicate(t) ==
    /\ PushOrFail(helper_stack.stack_pointer, t)
    /\ UNCHANGED predicates_results_cache

\* b is evaluated only if a, which is worth "decisive" when it settles the
\* result, does not.
EvalBinary(decisive) ==
    LET b == Popped(1)
        a == Popped(2)
        a_res == get_pred_evaluation(a, cur, predicates_results_cache)
        after_a == set_cached_pred_result(a, cur, predicates_results_cache)
        sp == helper_stack.stack_pointer - 2
    IN IF a_res = decisive
         THEN /\ predicates_results_cache' = after_a
              /\ PushOrFail(sp, ResultToken(decisive))
         ELSE /\ predicates_results_cache' = set_cached_pred_result(b, cur, after_a)
              /\ PushOrFail(sp, ResultToken(get_pred_evaluation(b, cur, after_a)))

EvalNot ==
    LET a == Popped(1)
        a_res == get_pred_evaluation(a, cur, predicates_results_cache)
    IN /\ predicates_results_cache' = set_cached_pred_result(a, cur, predicates_results_cache)
       /\ PushOrFail(helper_stack.stack_pointer - 1,
                     ResultToken(IF a_res = "TRUE" THEN "FALSE" ELSE "TRUE"))

\* A failed pop leaves what the successful one before it took: the stack
\* pointer is 0.
Underflow ==
    /\ helper_stack' = [stack_pointer |-> 0, tokens |-> helper_stack.tokens]
    /\ NextRule
    /\ UNCHANGED predicates_results_cache

evaluate_token_against_event(t) ==
    \/ t.operator_type = "PREDICATE" /\ EvalPredicate(t)
    \/ t.operator_type = "AND" /\ IF CanPop(2) THEN EvalBinary("FALSE") ELSE Underflow
    \/ t.operator_type = "OR" /\ IF CanPop(2) THEN EvalBinary("TRUE") ELSE Underflow
    \/ t.operator_type = "NOT" /\ IF CanPop(1) THEN EvalNot ELSE Underflow

EvalToken ==
    /\ level > 0 /\ cur.pc = "token" /\ cur.tok <= Len(rules[cur.rule].tokens)
    /\ evaluate_token_against_event(rules[cur.rule].tokens[cur.tok])
    /\ UNCHANGED <<config, clock, level>>

\* The rule holds if one token is left and it is worth TRUE: the event takes
\* its action and id, and the walk over the map stops.
FinishRule ==
    /\ level > 0 /\ cur.pc = "token" /\ cur.tok > Len(rules[cur.rule].tokens)
    /\ IF helper_stack.stack_pointer # 1
         THEN NextRule /\ UNCHANGED <<helper_stack, predicates_results_cache>>
         ELSE LET last == Popped(1)
              IN /\ helper_stack' = [stack_pointer |-> 0, tokens |-> helper_stack.tokens]
                 /\ predicates_results_cache' = set_cached_pred_result(last, cur, predicates_results_cache)
                 /\ IF get_pred_evaluation(last, cur, predicates_results_cache) = "TRUE"
                      THEN Go([pc |-> "done", time |-> cur.time, truth |-> cur.truth,
                               rule |-> cur.rule, tok |-> 1, matched |-> cur.rule])
                      ELSE NextRule
    /\ UNCHANGED <<config, clock, level>>

\* The hook takes the decision and returns to what it interrupted.
Return ==
    /\ level > 0 /\ cur.pc = "done"
    /\ Go([pc |-> "idle", time |-> cur.time, truth |-> cur.truth,
           rule |-> cur.rule, tok |-> 1, matched |-> cur.matched])
    /\ level' = level - 1
    /\ UNCHANGED <<config, helper_stack, predicates_results_cache, clock>>

Next == \/ \E t \in Truths : Begin(t)
        \/ StartRule \/ EvalToken \/ FinishRule \/ Return

Spec == Init /\ [][Next]_vars

-----------------------------------------------------------------------------

\* An entry of predicates_results_cache that carries the time of an event
\* under evaluation is what eval_pred says of that event, whatever other
\* events interrupted it or were evaluated before it: the cache can be
\* stale, it is never wrong.
CacheIsCoherent ==
    \A l \in 1..level : \A p \in Preds :
        predicates_results_cache[p].time = evals[l].time
            => predicates_results_cache[p].result = eval_pred(p, evals[l].truth)

\* What the tokens on the stack are worth for the bottom evaluation's event.
Worth(t) == IF t.result # "UNKNOWN" THEN t.result = "TRUE" ELSE evals[1].truth[t.pred_idx]

Machine == INSTANCE PostfixMachine WITH
    Maps <- {MapOf[c] : c \in Configs},
    pc <- evals[1].pc, truth <- evals[1].truth,
    rule <- evals[1].rule, tok <- evals[1].tok, matched <- evals[1].matched,
    values <- IF evals[1].pc = "token"
                THEN [i \in 1..helper_stack.stack_pointer |-> Worth(helper_stack.tokens[i - 1])]
                ELSE <<>>

\* Laziness, the cache of predicate results and the shared stack are not
\* visible: every evaluation goes through the steps of a machine that
\* evaluates every predicate afresh, and decides the same.
ImplementsPostfixMachine == Machine!Spec
=============================================================================
