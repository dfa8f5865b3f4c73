------------------------ MODULE RuleMatchingProofs -------------------------
(***************************************************************************)
(* Proofs about RuleMatching, for all predicates, rule maps and events:    *)
(* the cache of predicate results is never wrong, however deep evaluations *)
(* nest, and on a CPU without softirqs the matcher implements the machine  *)
(* that evaluates every predicate afresh.                                  *)
(***************************************************************************)
EXTENDS RuleMatching, SequenceTheorems, TLAPS

Frame == [pc : {"idle", "rule", "token", "done"}, time : Nat, truth : Truths,
          rule : Nat \ {0}, tok : Nat \ {0}, matched : Nat]
CacheT == [Preds -> [time : Nat, result : Results]]
StackT == [stack_pointer : 0 .. MaxTokens, tokens : [0 .. (MaxTokens - 1) -> TokenT]]

\* A token that can be evaluated: it carries a result or names a predicate.
Meaningful(t) == t \in TokenT /\ (t.result # "UNKNOWN" \/ t.pred_idx \in Preds)

TypeInv ==
    /\ config \in Configs
    /\ helper_stack \in StackT
    /\ predicates_results_cache \in CacheT
    /\ clock \in Nat /\ level \in 0 .. Depth
    /\ evals \in [1 .. Depth -> Frame]

\* What is below the stack pointer was pushed.
StackInv ==
    \A i \in 0 .. (helper_stack.stack_pointer - 1) : Meaningful(helper_stack.tokens[i])

\* The evaluations up to level are under way, each at a token of a rule or
\* between rules, and none of them has matched before it is done.
ProgressInv ==
    \A l \in 1 .. Depth :
        /\ evals[l].pc = "idle" <=> l > level
        /\ evals[l].pc = "token" =>
              /\ evals[l].rule \in 1 .. Len(rules)
              /\ evals[l].tok <= Len(rules[evals[l].rule].tokens) + 1
        /\ evals[l].pc \in {"rule", "token"} => evals[l].matched = 0

\* Time stamps tell nested events apart, and none is from the future.
TimeInv ==
    /\ \A l \in 1 .. level : evals[l].time \in 1 .. clock
    /\ \A l, m \in 1 .. level : l < m => evals[l].time < evals[m].time
    /\ \A p \in Preds : predicates_results_cache[p].time <= clock

\* Entries of the cache that are for the event of e are right for it.
Coherent(e, cache) ==
    \A p \in Preds : cache[p].time = e.time => cache[p].result = eval_pred(p, e.truth)

MatchInv == TypeInv /\ StackInv /\ ProgressInv /\ TimeInv /\ CacheIsCoherent

-----------------------------------------------------------------------------
\* Predicates.

LEMMA EvalPredType ==
  ASSUME NEW p, NEW truth
  PROVE  eval_pred(p, truth) \in {"TRUE", "FALSE"}
BY DEF eval_pred

\* The value of a token, cached or not, is what it is worth for the event.
LEMMA EvaluationIsWorth ==
  ASSUME NEW cache \in CacheT, NEW e \in Frame, NEW t, Meaningful(t), Coherent(e, cache)
  PROVE  get_pred_evaluation(t, e, cache) =
           IF t.result # "UNKNOWN" THEN t.result ELSE eval_pred(t.pred_idx, e.truth)
<1>1. CASE t.result # "UNKNOWN"
  BY <1>1 DEF get_pred_evaluation
<1>2. CASE t.result = "UNKNOWN"
  <2>1. t.pred_idx \in Preds
    BY <1>2 DEF Meaningful
  <2>2. get_cached_pred_result(t.pred_idx, e.time, cache) \in
          {"UNKNOWN", eval_pred(t.pred_idx, e.truth)}
    BY <2>1 DEF get_cached_pred_result, Coherent
  <2>3. QED
    BY <1>2, <2>2 DEF get_pred_evaluation
<1>3. QED
  BY <1>1, <1>2

LEMMA EvaluationType ==
  ASSUME NEW cache \in CacheT, NEW e \in Frame, NEW t, Meaningful(t), Coherent(e, cache)
  PROVE  get_pred_evaluation(t, e, cache) \in {"TRUE", "FALSE"}
<1>1. t.result \in Results
  BY DEF Meaningful, TokenT
<1>2. QED
  BY <1>1, EvaluationIsWorth, EvalPredType DEF Results

\* Caching the value of a token for event e keeps the cache right for e, and
\* for every event with another time stamp.
LEMMA CachingIsCoherent ==
  ASSUME NEW cache \in CacheT, NEW e \in Frame, NEW t, Meaningful(t)
  PROVE  /\ set_cached_pred_result(t, e, cache) \in CacheT
         /\ \A p \in Preds :
              set_cached_pred_result(t, e, cache)[p].time \in {cache[p].time, e.time}
         /\ \A f \in Frame :
              Coherent(f, cache) /\ (f.time = e.time => f.truth = e.truth)
                => Coherent(f, set_cached_pred_result(t, e, cache))
<1> DEFINE new == set_cached_pred_result(t, e, cache)
           entry == [time |-> e.time, result |-> eval_pred(t.pred_idx, e.truth)]
<1>1. new = cache \/ (t.pred_idx \in Preds /\ new = [cache EXCEPT ![t.pred_idx] = entry])
  BY DEF set_cached_pred_result, Meaningful
<1>2. CASE new = cache
  BY <1>2
<1>3. CASE t.pred_idx \in Preds /\ new = [cache EXCEPT ![t.pred_idx] = entry]
  <2>1. entry \in [time : Nat, result : Results]
    BY EvalPredType DEF Frame, Results
  <2>2. new \in CacheT
    BY <1>3, <2>1 DEF CacheT
  <2>3. \A p \in Preds : new[p] = IF p = t.pred_idx THEN entry ELSE cache[p]
    BY <1>3 DEF CacheT
  <2>4. entry.time = e.time /\ entry.result = eval_pred(t.pred_idx, e.truth)
    OBVIOUS
  <2> HIDE DEF new, entry
  <2>5. \A p \in Preds : new[p].time \in {cache[p].time, e.time}
    BY <2>3, <2>4
  <2>6. ASSUME NEW f \in Frame, Coherent(f, cache), f.time = e.time => f.truth = e.truth
        PROVE  Coherent(f, new)
    BY <2>3, <2>4, <2>6 DEF Coherent
  <2>7. QED
    BY <2>2, <2>5, <2>6 DEF new
<1>4. QED
  BY <1>1, <1>2, <1>3

-----------------------------------------------------------------------------
\* The evaluator keeps MatchInv.

\* What the cache may become in a step of the evaluation e.
CacheStep(e, cache, new) ==
    /\ new \in CacheT
    /\ \A p \in Preds : new[p].time \in {cache[p].time, e.time}
    /\ \A f \in Frame : Coherent(f, cache) /\ (f.time = e.time => f.truth = e.truth)
                          => Coherent(f, new)

LEMMA CacheSteps ==
  ASSUME NEW cache \in CacheT, NEW e \in Frame, NEW t, Meaningful(t)
  PROVE  CacheStep(e, cache, set_cached_pred_result(t, e, cache))
BY CachingIsCoherent DEF CacheStep

LEMMA CacheStepsTwice ==
  ASSUME NEW cache, NEW mid, NEW new, NEW e \in Frame,
         CacheStep(e, cache, mid), CacheStep(e, mid, new)
  PROVE  CacheStep(e, cache, new)
BY DEF CacheStep

\* Where an evaluation may go: e is a legal successor of the running one.
Successor(e) ==
    /\ e \in Frame /\ e.pc # "idle"
    /\ e.time = cur.time /\ e.truth = cur.truth
    /\ e.pc = "token" => /\ e.rule \in 1 .. Len(rules)
                         /\ e.tok <= Len(rules[e.rule].tokens) + 1
    /\ e.pc \in {"rule", "token"} => e.matched = 0

\* A step of the running evaluation keeps the invariant if what it writes is
\* well formed.
LEMMA RunningStep ==
  ASSUME MatchInv, level > 0, level' = level, clock' = clock, config' = config,
         helper_stack' \in StackT, StackInv',
         CacheStep(cur, predicates_results_cache, predicates_results_cache'),
         NEW e, Successor(e), Go(e)
  PROVE  MatchInv'
<1>1. level \in 1 .. Depth /\ cur \in Frame /\ level \in Nat /\ Depth \in Nat
  BY ConstantsOK DEF MatchInv, TypeInv, cur
<1>2. TypeInv'
  BY <1>1 DEF MatchInv, TypeInv, Successor, Go, CacheStep
<1>3. \A l \in 1 .. Depth : evals'[l] = IF l = level THEN e ELSE evals[l]
  BY <1>1 DEF MatchInv, TypeInv, Go
<1>4. \A l \in 1 .. Depth : evals'[l].time = evals[l].time /\ evals'[l].truth = evals[l].truth
  BY <1>3 DEF Successor, cur
<1>5. ProgressInv'
  <2>1. rules' = rules
    BY DEF rules
  <2>2. SUFFICES ASSUME NEW l \in 1 .. Depth
                 PROVE  /\ evals'[l].pc = "idle" <=> l > level
                        /\ evals'[l].pc = "token" =>
                              /\ evals'[l].rule \in 1 .. Len(rules)
                              /\ evals'[l].tok <= Len(rules[evals'[l].rule].tokens) + 1
                        /\ evals'[l].pc \in {"rule", "token"} => evals'[l].matched = 0
    BY <2>1 DEF ProgressInv
  <2>3. CASE l = level
    BY <1>1, <1>3, <2>3 DEF Successor
  <2>4. CASE l # level
    BY <1>3, <2>4 DEF MatchInv, ProgressInv
  <2>5. QED
    BY <2>3, <2>4
<1>6. TimeInv'
  <2>1. \A l \in 1 .. level : l \in 1 .. Depth
    BY <1>1
  <2>2. cur.time \in 1 .. clock
    BY <1>1 DEF MatchInv, TimeInv, cur
  <2>3. clock \in Nat /\ predicates_results_cache \in CacheT
    BY DEF MatchInv, TypeInv
  <2>4. \A p \in Preds : predicates_results_cache'[p].time <= clock
    BY <2>2, <2>3 DEF CacheStep, MatchInv, TimeInv, CacheT
  <2>5. QED
    BY <1>4, <2>1, <2>4 DEF MatchInv, TimeInv
<1>7. CacheIsCoherent'
  <2>1. SUFFICES ASSUME NEW l \in 1 .. level
                 PROVE  Coherent(evals[l], predicates_results_cache')
    <3>1. level' = level /\ \A l \in 1 .. level : l \in 1 .. Depth
      BY <1>1
    <3>2. QED
      BY <1>4, <2>1, <3>1 DEF CacheIsCoherent, Coherent, eval_pred
  <2>2. l \in 1 .. Depth /\ evals[l] \in Frame
    BY <1>1 DEF MatchInv, TypeInv
  <2>3. Coherent(evals[l], predicates_results_cache)
    BY DEF MatchInv, CacheIsCoherent, Coherent
  <2>4. evals[l].time = cur.time => l = level
    <3>1. l < level => evals[l].time < evals[level].time
      BY <1>1 DEF MatchInv, TimeInv
    <3>2. evals[l].time \in Nat /\ evals[level].time \in Nat
      BY <1>1, <2>2 DEF Frame, cur
    <3>3. QED
      BY <1>1, <3>1, <3>2 DEF cur
  <2>5. QED
    BY <2>2, <2>3, <2>4 DEF CacheStep, cur
<1>8. QED
  BY <1>2, <1>5, <1>6, <1>7 DEF MatchInv

\* The tokens of the rule that is evaluated.
LEMMA RuleTokens ==
  ASSUME MatchInv, level > 0, cur.pc = "token"
  PROVE  /\ rules[cur.rule].tokens \in Seq(TokenT)
         /\ Len(rules[cur.rule].tokens) <= MaxTokens
         /\ \A i \in 1 .. Len(rules[cur.rule].tokens) : LoadedToken(rules[cur.rule].tokens[i])
<1>1. level \in 1 .. Depth
  BY ConstantsOK DEF MatchInv, TypeInv
<1>2. cur.rule \in 1 .. Len(rules)
  BY <1>1 DEF MatchInv, ProgressInv, cur
<1>3. /\ config \in Configs
      /\ rules \in Seq([id : Nat, is_end_of_rules : BOOLEAN, tokens : Seq(TokenT)])
  BY ConstantsOK DEF rules, MatchInv, TypeInv
<1>4. DOMAIN rules = 1 .. Len(rules)
  BY <1>3
<1>5. rules[cur.rule].tokens \in Seq(TokenT)
  <2>1. rules[cur.rule] \in [id : Nat, is_end_of_rules : BOOLEAN, tokens : Seq(TokenT)]
    BY <1>2, <1>3, ElementOfSeq
  <2>2. QED
    BY <2>1
<1>6. DOMAIN rules[cur.rule].tokens = 1 .. Len(rules[cur.rule].tokens)
  BY <1>5
<1>7. QED
  BY <1>2, <1>3, <1>4, <1>5, <1>6, ConstantsOK DEF rules

\* What PushOrFail does to the stack and to the evaluation.
LEMMA PushStep ==
  ASSUME MatchInv, level > 0, cur.pc = "token", cur.tok <= Len(rules[cur.rule].tokens),
         NEW sp \in 0 .. helper_stack.stack_pointer, NEW t, Meaningful(t),
         PushOrFail(sp, t)
  PROVE  /\ helper_stack' \in StackT /\ StackInv'
         /\ \E e : Successor(e) /\ Go(e)
<1>1. level \in 1 .. Depth /\ cur \in Frame
  BY ConstantsOK DEF MatchInv, TypeInv, cur
<1>2. /\ MaxTokens \in Nat \ {0}
      /\ helper_stack \in StackT
      /\ helper_stack.stack_pointer \in 0 .. MaxTokens
      /\ helper_stack.tokens \in [0 .. (MaxTokens - 1) -> TokenT]
      /\ t \in TokenT
  BY ConstantsOK DEF MatchInv, TypeInv, StackT, Meaningful
<1>3. /\ cur.rule \in 1 .. Len(rules) /\ cur.rule \in Nat \ {0} /\ cur.tok \in Nat \ {0}
      /\ cur.time \in Nat /\ cur.truth \in Truths
  BY <1>1 DEF MatchInv, ProgressInv, cur, Frame
<1>4. CASE CanPush(sp)
  <2>1. helper_stack' = [stack_pointer |-> sp + 1, tokens |-> [helper_stack.tokens EXCEPT ![sp] = t]]
    BY <1>4 DEF PushOrFail, stack_push
  <2>2. sp \in 0 .. (MaxTokens - 1)
    BY <1>2, <1>4 DEF CanPush
  <2>3. helper_stack' \in StackT
    BY <1>2, <2>1, <2>2 DEF StackT
  <2>4. \A i \in 0 .. (MaxTokens - 1) :
          helper_stack'.tokens[i] = IF i = sp THEN t ELSE helper_stack.tokens[i]
    BY <1>2, <2>1, <2>2
  <2>5. StackInv'
    <3>1. SUFFICES ASSUME NEW i \in 0 .. (helper_stack'.stack_pointer - 1)
                   PROVE  Meaningful(helper_stack'.tokens[i])
      BY DEF StackInv
    <3>2. helper_stack'.stack_pointer = sp + 1
      BY <2>1
    <3>3. i \in 0 .. (MaxTokens - 1) /\ (i = sp \/ i \in 0 .. (helper_stack.stack_pointer - 1))
      BY <1>2, <2>2, <3>2
    <3>4. QED
      BY <2>4, <3>3 DEF MatchInv, StackInv
  <2> DEFINE e == [pc |-> "token", time |-> cur.time, truth |-> cur.truth,
                   rule |-> cur.rule, tok |-> cur.tok + 1, matched |-> 0]
  <2>6. Go(e)
    BY <1>4 DEF PushOrFail, NextToken
  <2>7. rules[cur.rule].tokens \in Seq(TokenT)
    BY RuleTokens
  <2>8. Len(rules[cur.rule].tokens) \in Nat
    BY <2>7
  <2>9. Successor(e)
    BY <1>3, <2>8 DEF Successor, Frame
  <2>10. QED
    BY <2>3, <2>5, <2>6, <2>9
<1>5. CASE ~CanPush(sp)
  <2>1. helper_stack' = [stack_pointer |-> sp, tokens |-> helper_stack.tokens]
    BY <1>5 DEF PushOrFail
  <2>2. helper_stack' \in StackT
    BY <1>2, <2>1 DEF StackT
  <2>3. StackInv'
    BY <1>2, <2>1 DEF MatchInv, StackInv
  <2> DEFINE e == [pc |-> "rule", time |-> cur.time, truth |-> cur.truth,
                   rule |-> cur.rule + 1, tok |-> 1, matched |-> 0]
  <2>4. Go(e)
    BY <1>5 DEF PushOrFail, NextRule
  <2>5. Successor(e)
    BY <1>3 DEF Successor, Frame
  <2>6. QED
    BY <2>2, <2>3, <2>4, <2>5
<1>6. QED
  BY <1>4, <1>5

LEMMA NextRuleStep ==
  ASSUME MatchInv, level > 0, NextRule
  PROVE  \E e : Successor(e) /\ Go(e)
<1>1. cur \in Frame
  BY ConstantsOK DEF MatchInv, TypeInv, cur
<1> DEFINE e == [pc |-> "rule", time |-> cur.time, truth |-> cur.truth,
                 rule |-> cur.rule + 1, tok |-> 1, matched |-> 0]
<1>2. Successor(e)
  BY <1>1 DEF Successor, Frame
<1>3. QED
  BY <1>2 DEF NextRule

\* The tokens below the stack pointer, and emptying the stack.
LEMMA PoppedIsMeaningful ==
  ASSUME MatchInv, NEW k \in Nat \ {0}, helper_stack.stack_pointer >= k
  PROVE  Meaningful(Popped(k))
<1>1. helper_stack.stack_pointer \in 0 .. MaxTokens /\ MaxTokens \in Nat
  BY ConstantsOK DEF MatchInv, TypeInv, StackT
<1>2. helper_stack.stack_pointer - k \in 0 .. (helper_stack.stack_pointer - 1)
  BY <1>1
<1>3. QED
  BY <1>2 DEF MatchInv, StackInv, Popped

LEMMA EmptiedStack ==
  ASSUME MatchInv, helper_stack' = [stack_pointer |-> 0, tokens |-> helper_stack.tokens]
  PROVE  helper_stack' \in StackT /\ StackInv'
<1>1. MaxTokens \in Nat \ {0}
  BY ConstantsOK
<1>2. QED
  BY <1>1 DEF MatchInv, TypeInv, StackT, StackInv

LEMMA SameCache ==
  ASSUME MatchInv, NEW e
  PROVE  CacheStep(e, predicates_results_cache, predicates_results_cache)
BY DEF MatchInv, TypeInv, CacheStep

LEMMA ResultIsMeaningful ==
  ASSUME NEW v \in {"TRUE", "FALSE"}
  PROVE  Meaningful(ResultToken(v))
BY DEF Meaningful, ResultToken, TokenT, Ops, Results


\* What a step of the running evaluation writes, as RunningStep needs it.
WellFormed ==
    /\ helper_stack' \in StackT /\ StackInv'
    /\ CacheStep(cur, predicates_results_cache, predicates_results_cache')
    /\ \E e : Successor(e) /\ Go(e)

LEMMA BinaryStep ==
  ASSUME MatchInv, level > 0, cur.pc = "token", cur.tok <= Len(rules[cur.rule].tokens),
         CanPop(2), NEW d \in {"TRUE", "FALSE"}, EvalBinary(d)
  PROVE  WellFormed
<1> DEFINE b == Popped(1)
           a == Popped(2)
           cache == predicates_results_cache
           after_a == set_cached_pred_result(a, cur, cache)
           sp == helper_stack.stack_pointer - 2
<1>1. cur \in Frame /\ cache \in CacheT /\ helper_stack.stack_pointer \in Nat
  BY ConstantsOK DEF MatchInv, TypeInv, StackT, cur
<1>2. Meaningful(a) /\ Meaningful(b)
  BY <1>1, PoppedIsMeaningful DEF CanPop
<1>3. Coherent(cur, cache)
  BY <1>1 DEF MatchInv, TypeInv, CacheIsCoherent, Coherent, cur
<1>4. CacheStep(cur, cache, after_a)
  BY <1>1, <1>2, CacheSteps
<1>5. after_a \in CacheT /\ Coherent(cur, after_a)
  BY <1>1, <1>3, <1>4 DEF CacheStep
<1>6. sp \in 0 .. helper_stack.stack_pointer
  BY <1>1 DEF CanPop
<1>7. CASE get_pred_evaluation(a, cur, cache) = d
  <2>1. cache' = after_a /\ PushOrFail(sp, ResultToken(d))
    BY <1>7 DEF EvalBinary
  <2>2. Meaningful(ResultToken(d))
    BY ResultIsMeaningful
  <2> HIDE DEF sp
  <2>3. QED
    BY <1>4, <1>6, <2>1, <2>2, PushStep DEF WellFormed
<1>8. CASE get_pred_evaluation(a, cur, cache) # d
  <2> DEFINE v == get_pred_evaluation(b, cur, after_a)
             last == set_cached_pred_result(b, cur, after_a)
  <2>1. cache' = last /\ PushOrFail(sp, ResultToken(v))
    BY <1>8 DEF EvalBinary
  <2> HIDE DEF after_a, b, cache, sp
  <2>2. v \in {"TRUE", "FALSE"}
    BY <1>1, <1>2, <1>5, EvaluationType
  <2>3. CacheStep(cur, after_a, last)
    BY <1>1, <1>2, <1>5, CacheSteps
  <2> HIDE DEF v, last
  <2>4. CacheStep(cur, cache, last)
    BY <1>1, <1>4, <2>3, CacheStepsTwice
  <2>5. Meaningful(ResultToken(v))
    BY <2>2, ResultIsMeaningful
  <2>6. QED
    BY <1>6, <2>1, <2>4, <2>5, PushStep DEF WellFormed, cache
<1>9. QED
  BY <1>7, <1>8

LEMMA NotStep ==
  ASSUME MatchInv, level > 0, cur.pc = "token", cur.tok <= Len(rules[cur.rule].tokens),
         CanPop(1), EvalNot
  PROVE  WellFormed
<1> DEFINE a == Popped(1)
           v == IF get_pred_evaluation(a, cur, predicates_results_cache) = "TRUE"
                  THEN "FALSE" ELSE "TRUE"
           sp == helper_stack.stack_pointer - 1
<1>1. /\ cur \in Frame /\ predicates_results_cache \in CacheT
      /\ helper_stack.stack_pointer \in Nat
  BY ConstantsOK DEF MatchInv, TypeInv, StackT, cur
<1>2. Meaningful(a)
  BY <1>1, PoppedIsMeaningful DEF CanPop
<1>3. sp \in 0 .. helper_stack.stack_pointer
  BY <1>1 DEF CanPop
<1>4. /\ predicates_results_cache' = set_cached_pred_result(a, cur, predicates_results_cache)
      /\ PushOrFail(sp, ResultToken(v))
  BY DEF EvalNot
<1>5. Meaningful(ResultToken(v))
  BY ResultIsMeaningful
<1> HIDE DEF sp, v, a
<1>6. CacheStep(cur, predicates_results_cache, predicates_results_cache')
  BY <1>1, <1>2, <1>4, CacheSteps
<1>7. QED
  BY <1>3, <1>4, <1>5, <1>6, PushStep DEF WellFormed

LEMMA UnderflowStep ==
  ASSUME MatchInv, level > 0, Underflow
  PROVE  WellFormed
BY EmptiedStack, NextRuleStep, SameCache DEF Underflow, WellFormed

LEMMA EvalTokenStep ==
  ASSUME MatchInv, EvalToken
  PROVE  WellFormed
<1> DEFINE t == rules[cur.rule].tokens[cur.tok]
<1>1. /\ level > 0 /\ cur.pc = "token" /\ cur.tok <= Len(rules[cur.rule].tokens)
      /\ evaluate_token_against_event(t)
  BY DEF EvalToken
<1>2. cur \in Frame /\ helper_stack.stack_pointer \in Nat
  BY <1>1, ConstantsOK DEF MatchInv, TypeInv, StackT, cur
<1>3. LoadedToken(t)
  <2>1. Len(rules[cur.rule].tokens) \in Nat
    BY <1>1, RuleTokens
  <2>2. cur.tok \in 1 .. Len(rules[cur.rule].tokens)
    BY <1>1, <1>2, <2>1 DEF Frame
  <2>3. QED
    BY <1>1, <2>2, RuleTokens
<1> HIDE DEF t
<1>4. CASE t.operator_type = "PREDICATE" /\ EvalPredicate(t)
  <2>1. Meaningful(t)
    BY <1>3, <1>4 DEF LoadedToken, Meaningful, TokenT
  <2>2. helper_stack.stack_pointer \in 0 .. helper_stack.stack_pointer
    BY <1>2
  <2>3. QED
    BY <1>1, <1>4, <2>1, <2>2, PushStep, SameCache DEF EvalPredicate, WellFormed
<1>5. CASE Underflow
  BY <1>1, <1>5, UnderflowStep
<1>6. CASE CanPop(2) /\ (EvalBinary("FALSE") \/ EvalBinary("TRUE"))
  BY <1>1, <1>6, BinaryStep
<1>7. CASE CanPop(1) /\ EvalNot
  BY <1>1, <1>7, NotStep
<1>8. QED
  BY <1>1, <1>4, <1>5, <1>6, <1>7 DEF evaluate_token_against_event

LEMMA FinishRuleStep ==
  ASSUME MatchInv, FinishRule
  PROVE  WellFormed
<1>1. level > 0 /\ cur.pc = "token"
  BY DEF FinishRule
<1>2. /\ cur \in Frame /\ helper_stack.stack_pointer \in Nat
      /\ predicates_results_cache \in CacheT
  BY <1>1, ConstantsOK DEF MatchInv, TypeInv, StackT, cur
<1>3. CASE helper_stack.stack_pointer # 1
  <2>1. NextRule /\ UNCHANGED <<helper_stack, predicates_results_cache>>
    BY <1>3 DEF FinishRule
  <2>2. helper_stack' \in StackT /\ StackInv'
    BY <2>1 DEF MatchInv, TypeInv, StackInv
  <2>3. QED
    BY <1>1, <2>1, <2>2, NextRuleStep, SameCache DEF WellFormed
<1>4. CASE helper_stack.stack_pointer = 1
  <2>1. Meaningful(Popped(1))
    BY <1>4, PoppedIsMeaningful
  <2>2. /\ helper_stack' = [stack_pointer |-> 0, tokens |-> helper_stack.tokens]
        /\ predicates_results_cache' =
             set_cached_pred_result(Popped(1), cur, predicates_results_cache)
        /\ \/ Go([pc |-> "done", time |-> cur.time, truth |-> cur.truth,
                  rule |-> cur.rule, tok |-> 1, matched |-> cur.rule])
           \/ NextRule
    BY <1>4 DEF FinishRule
  <2>3. CacheStep(cur, predicates_results_cache, predicates_results_cache')
    BY <1>2, <2>1, <2>2, CacheSteps
  <2>4. Successor([pc |-> "done", time |-> cur.time, truth |-> cur.truth,
                   rule |-> cur.rule, tok |-> 1, matched |-> cur.rule])
    BY <1>2 DEF Successor, Frame
  <2>5. QED
    BY <1>1, <2>2, <2>3, <2>4, EmptiedStack, NextRuleStep DEF WellFormed
<1>5. QED
  BY <1>3, <1>4

LEMMA StartRuleStep ==
  ASSUME MatchInv, StartRule
  PROVE  WellFormed
<1>1. level > 0 /\ cur.pc = "rule" /\ UNCHANGED predicates_results_cache
  BY DEF StartRule
<1>2. cur \in Frame
  BY <1>1, ConstantsOK DEF MatchInv, TypeInv, cur
<1>3. CacheStep(cur, predicates_results_cache, predicates_results_cache')
  BY <1>1, SameCache
<1>4. rules \in Seq([id : Nat, is_end_of_rules : BOOLEAN, tokens : Seq(TokenT)])
  BY ConstantsOK DEF rules, MatchInv, TypeInv
<1>5. CASE cur.rule <= Len(rules) /\ ~rules[cur.rule].is_end_of_rules
  <2> DEFINE e == [pc |-> "token", time |-> cur.time, truth |-> cur.truth,
                   rule |-> cur.rule, tok |-> 1, matched |-> 0]
  <2>1. helper_stack' = ResetStack /\ Go(e)
    BY <1>5 DEF StartRule
  <2>2. cur.rule \in 1 .. Len(rules)
    BY <1>2, <1>4, <1>5 DEF Frame
  <2>3. rules[cur.rule].tokens \in Seq(TokenT)
    <3>1. rules[cur.rule] \in [id : Nat, is_end_of_rules : BOOLEAN, tokens : Seq(TokenT)]
      BY <1>4, <2>2, ElementOfSeq
    <3>2. QED
      BY <3>1
  <2>4. Len(rules[cur.rule].tokens) \in Nat
    BY <2>3
  <2>5. Successor(e)
    BY <1>2, <2>2, <2>4 DEF Successor, Frame
  <2>6. QED
    BY <1>3, <2>1, <2>5, EmptiedStack DEF WellFormed, ResetStack
<1>6. CASE ~(cur.rule <= Len(rules) /\ ~rules[cur.rule].is_end_of_rules)
  <2> DEFINE e == [pc |-> "done", time |-> cur.time, truth |-> cur.truth,
                   rule |-> cur.rule, tok |-> 1, matched |-> 0]
  <2>1. UNCHANGED helper_stack /\ Go(e)
    BY <1>6 DEF StartRule
  <2>2. Successor(e)
    BY <1>2 DEF Successor, Frame
  <2>3. helper_stack' \in StackT /\ StackInv'
    BY <2>1 DEF MatchInv, TypeInv, StackInv
  <2>4. QED
    BY <1>3, <2>1, <2>2, <2>3 DEF WellFormed
<1>7. QED
  BY <1>5, <1>6

\* A new event has a time of its own, which no entry of the cache carries.
LEMMA BeginStep ==
  ASSUME MatchInv, NEW t \in Truths, Begin(t)
  PROVE  MatchInv'
<1> DEFINE e == [pc |-> "rule", time |-> clock + 1, truth |-> t, rule |-> 1, tok |-> 1, matched |-> 0]
<1>1. /\ level < Depth /\ clock' = clock + 1 /\ level' = level + 1
      /\ evals' = [evals EXCEPT ![level + 1] = e]
      /\ UNCHANGED <<config, helper_stack, predicates_results_cache>>
  BY DEF Begin
<1>2. level \in Nat /\ Depth \in Nat /\ clock \in Nat /\ level + 1 \in 1 .. Depth
  BY <1>1, ConstantsOK DEF MatchInv, TypeInv
<1>3. e \in Frame
  BY <1>2 DEF Frame
<1>4. TypeInv'
  BY <1>1, <1>2, <1>3 DEF MatchInv, TypeInv
<1>5. \A l \in 1 .. Depth : evals'[l] = IF l = level + 1 THEN e ELSE evals[l]
  BY <1>1, <1>2 DEF MatchInv, TypeInv
<1>6. StackInv'
  BY <1>1 DEF MatchInv, StackInv
<1>7. ProgressInv'
  <2>1. rules' = rules
    BY <1>1 DEF rules
  <2>2. SUFFICES ASSUME NEW l \in 1 .. Depth
                 PROVE  /\ evals'[l].pc = "idle" <=> l > level + 1
                        /\ evals'[l].pc = "token" =>
                              /\ evals'[l].rule \in 1 .. Len(rules)
                              /\ evals'[l].tok <= Len(rules[evals'[l].rule].tokens) + 1
                        /\ evals'[l].pc \in {"rule", "token"} => evals'[l].matched = 0
    BY <1>1, <2>1 DEF ProgressInv
  <2>3. CASE l = level + 1
    BY <1>2, <1>5, <2>3
  <2>4. CASE l # level + 1
    BY <1>2, <1>5, <2>4 DEF MatchInv, ProgressInv
  <2>5. QED
    BY <2>3, <2>4
<1>8. /\ \A l \in 1 .. level : l \in 1 .. Depth /\ evals'[l] = evals[l] /\ evals[l].time \in 1 .. clock
      /\ evals'[level + 1] = e /\ e.time = clock + 1
  BY <1>2, <1>5 DEF MatchInv, TimeInv
<1>9. \A l \in 1 .. (level + 1) : l \in 1 .. level \/ l = level + 1
  BY <1>2
<1>10. \A p \in Preds : /\ predicates_results_cache[p].time \in Nat
                        /\ predicates_results_cache[p].time <= clock
  BY DEF MatchInv, TypeInv, TimeInv, CacheT
<1> HIDE DEF e
<1>11. TimeInv'
  <2>1. \A l \in 1 .. (level + 1) : evals'[l].time \in 1 .. (clock + 1)
    BY <1>2, <1>8, <1>9
  <2>2. ASSUME NEW l \in 1 .. (level + 1), NEW m \in 1 .. (level + 1), l < m
        PROVE  evals'[l].time < evals'[m].time
    <3>1. l \in 1 .. level
      BY <1>2, <2>2
    <3>2. CASE m = level + 1
      BY <1>2, <1>8, <3>1, <3>2
    <3>3. CASE m \in 1 .. level
      BY <1>8, <2>2, <3>1, <3>3 DEF MatchInv, TimeInv
    <3>4. QED
      BY <1>9, <3>2, <3>3
  <2>3. \A p \in Preds : predicates_results_cache'[p].time <= clock + 1
    BY <1>1, <1>2, <1>10
  <2>4. QED
    BY <1>1, <2>1, <2>2, <2>3 DEF TimeInv
<1>12. CacheIsCoherent'
  <2>1. SUFFICES ASSUME NEW l \in 1 .. (level + 1), NEW p \in Preds,
                        predicates_results_cache[p].time = evals'[l].time
                 PROVE  predicates_results_cache[p].result = eval_pred(p, evals'[l].truth)
    BY <1>1 DEF CacheIsCoherent, eval_pred
  <2>2. l # level + 1
    BY <1>2, <1>8, <1>10, <2>1
  <2>3. l \in 1 .. level
    BY <1>9, <2>2
  <2>4. QED
    BY <1>8, <2>1, <2>3 DEF MatchInv, CacheIsCoherent
<1>13. QED
  BY <1>4, <1>6, <1>7, <1>11, <1>12 DEF MatchInv

LEMMA ReturnStep ==
  ASSUME MatchInv, Return
  PROVE  MatchInv'
<1> DEFINE e == [pc |-> "idle", time |-> cur.time, truth |-> cur.truth,
                 rule |-> cur.rule, tok |-> 1, matched |-> cur.matched]
<1>1. /\ level > 0 /\ level' = level - 1
      /\ evals' = [evals EXCEPT ![level] = e]
      /\ UNCHANGED <<config, helper_stack, predicates_results_cache, clock>>
  BY DEF Return, Go
<1>2. level \in Nat /\ Depth \in Nat /\ level \in 1 .. Depth /\ cur \in Frame
  BY <1>1, ConstantsOK DEF MatchInv, TypeInv, cur
<1>3. e \in Frame
  BY <1>2 DEF Frame
<1>4. TypeInv'
  BY <1>1, <1>2, <1>3 DEF MatchInv, TypeInv
<1>5. \A l \in 1 .. Depth : evals'[l] = IF l = level THEN e ELSE evals[l]
  BY <1>1, <1>2 DEF MatchInv, TypeInv
<1>6. StackInv'
  BY <1>1 DEF MatchInv, StackInv
<1>7. ProgressInv'
  <2>1. rules' = rules
    BY <1>1 DEF rules
  <2>2. SUFFICES ASSUME NEW l \in 1 .. Depth
                 PROVE  /\ evals'[l].pc = "idle" <=> l > level - 1
                        /\ evals'[l].pc = "token" =>
                              /\ evals'[l].rule \in 1 .. Len(rules)
                              /\ evals'[l].tok <= Len(rules[evals'[l].rule].tokens) + 1
                        /\ evals'[l].pc \in {"rule", "token"} => evals'[l].matched = 0
    BY <1>1, <2>1 DEF ProgressInv
  <2>3. CASE l = level
    BY <1>2, <1>5, <2>3
  <2>4. CASE l # level
    BY <1>2, <1>5, <2>4 DEF MatchInv, ProgressInv
  <2>5. QED
    BY <2>3, <2>4
<1>8. \A l \in 1 .. (level - 1) : l \in 1 .. level /\ evals'[l] = evals[l]
  BY <1>2, <1>5
<1>9. TimeInv'
  BY <1>1, <1>8 DEF MatchInv, TimeInv
<1>10. CacheIsCoherent'
  BY <1>1, <1>8 DEF MatchInv, CacheIsCoherent, eval_pred
<1>11. QED
  BY <1>4, <1>6, <1>7, <1>9, <1>10 DEF MatchInv

LEMMA MatchInit ==
  ASSUME Init
  PROVE  MatchInv
<1>1. MaxTokens \in Nat \ {0} /\ Depth \in Nat \ {0}
  BY ConstantsOK
<1>2. PICK t \in Truths : evals = [l \in 1 .. Depth |-> IdleEval(t)]
  BY DEF Init
<1>3. TypeInv
  <2>1. IdleEval(t) \in Frame
    BY DEF IdleEval, Frame
  <2>2. helper_stack \in StackT
    BY <1>1 DEF Init, StackT, TokenT, Ops, Results
  <2>3. predicates_results_cache \in CacheT
    BY DEF Init, CacheT, Results
  <2>4. QED
    BY <1>1, <1>2, <2>1, <2>2, <2>3 DEF Init, TypeInv
<1>4. StackInv
  BY DEF Init, StackInv
<1>5. ProgressInv
  BY <1>1, <1>2 DEF Init, ProgressInv, IdleEval
<1>6. TimeInv /\ CacheIsCoherent
  BY DEF Init, TimeInv, CacheIsCoherent
<1>7. QED
  BY <1>3, <1>4, <1>5, <1>6 DEF MatchInv

LEMMA MatchStep ==
  ASSUME MatchInv, [Next]_vars
  PROVE  MatchInv'
<1>1. CASE UNCHANGED vars
  BY <1>1 DEF vars, MatchInv, TypeInv, StackInv, ProgressInv, TimeInv, CacheIsCoherent,
              rules, eval_pred
<1>2. CASE \E t \in Truths : Begin(t)
  BY <1>2, BeginStep
<1>3. CASE Return
  BY <1>3, ReturnStep
<1>4. CASE StartRule \/ EvalToken \/ FinishRule
  <2>1. level > 0 /\ UNCHANGED <<config, clock, level>>
    BY <1>4 DEF StartRule, EvalToken, FinishRule
  <2>2. WellFormed
    BY <1>4, StartRuleStep, EvalTokenStep, FinishRuleStep
  <2>3. PICK e : Successor(e) /\ Go(e)
    BY <2>2 DEF WellFormed
  <2>4. QED
    BY <2>1, <2>2, <2>3, RunningStep DEF WellFormed
<1>5. QED
  BY <1>1, <1>2, <1>3, <1>4 DEF Next

LEMMA MatchInvariant == Spec => []MatchInv
<1>1. Init => MatchInv
  BY MatchInit
<1>2. MatchInv /\ [Next]_vars => MatchInv'
  BY MatchStep
<1>3. QED
  BY <1>1, <1>2, PTL DEF Spec

\* predicates_results_cache is never wrong for an event under evaluation,
\* for any predicates, rule maps and events and however deep softirqs nest
\* evaluations on the CPU.
THEOREM CacheCorrect == Spec => []CacheIsCoherent
<1>1. MatchInv => CacheIsCoherent
  BY DEF MatchInv
<1>2. QED
  BY <1>1, MatchInvariant, PTL

-----------------------------------------------------------------------------
\* Without softirqs the matcher implements PostfixMachine.

\* What a token is worth for an event, and the stack of truth values that a
\* stack of tokens stands for.
ValueOf(t, truth) == IF t.result # "UNKNOWN" THEN t.result = "TRUE" ELSE truth[t.pred_idx]

ValuesOf(stack, truth) ==
    [i \in 1 .. stack.stack_pointer |-> ValueOf(stack.tokens[i - 1], truth)]

\* A stack all of whose tokens can be evaluated.
GoodStack(stack) ==
    /\ stack \in StackT
    /\ \A i \in 0 .. (stack.stack_pointer - 1) : Meaningful(stack.tokens[i])

LEMMA FunctionIsSequence ==
  ASSUME NEW n \in Nat, NEW S, NEW f \in [1 .. n -> S]
  PROVE  f \in Seq(S) /\ Len(f) = n
OBVIOUS

LEMMA ValueIsBoolean ==
  ASSUME NEW truth \in Truths, NEW t, Meaningful(t)
  PROVE  ValueOf(t, truth) \in BOOLEAN
<1>1. truth \in [Preds -> BOOLEAN]
  BY ConstantsOK
<1>2. QED
  BY <1>1 DEF ValueOf, Meaningful

LEMMA ValuesType ==
  ASSUME NEW stack, GoodStack(stack), NEW truth \in Truths
  PROVE  /\ ValuesOf(stack, truth) \in Seq(BOOLEAN)
         /\ Len(ValuesOf(stack, truth)) = stack.stack_pointer
         /\ stack.stack_pointer \in Nat
         /\ \A i \in 1 .. stack.stack_pointer :
              ValuesOf(stack, truth)[i] = ValueOf(stack.tokens[i - 1], truth)
<1>1. stack.stack_pointer \in Nat
  BY ConstantsOK DEF GoodStack, StackT
<1>2. ASSUME NEW i \in 1 .. stack.stack_pointer
      PROVE  ValueOf(stack.tokens[i - 1], truth) \in BOOLEAN
  <2>1. i - 1 \in 0 .. (stack.stack_pointer - 1)
    BY <1>1
  <2>2. QED
    BY <2>1, ValueIsBoolean DEF GoodStack
<1>3. ValuesOf(stack, truth) \in [1 .. stack.stack_pointer -> BOOLEAN]
  BY <1>2, Zenon DEF ValuesOf
<1>4. /\ ValuesOf(stack, truth) \in Seq(BOOLEAN)
      /\ Len(ValuesOf(stack, truth)) = stack.stack_pointer
  BY <1>1, <1>3, FunctionIsSequence
<1>5. \A i \in 1 .. stack.stack_pointer :
              ValuesOf(stack, truth)[i] = ValueOf(stack.tokens[i - 1], truth)
  BY Zenon DEF ValuesOf
<1>6. QED
  BY <1>1, <1>4, <1>5

\* The value of a token as the evaluator finds it is what the token is worth.
LEMMA EvaluationIsExact ==
  ASSUME NEW cache \in CacheT, NEW e \in Frame, Coherent(e, cache), NEW t, Meaningful(t)
  PROVE  get_pred_evaluation(t, e, cache) = IF ValueOf(t, e.truth) THEN "TRUE" ELSE "FALSE"
<1>1. t.result \in Results
  BY DEF Meaningful, TokenT
<1>2. get_pred_evaluation(t, e, cache) =
           IF t.result # "UNKNOWN" THEN t.result ELSE eval_pred(t.pred_idx, e.truth)
  BY EvaluationIsWorth
<1>3. QED
  BY <1>1, <1>2 DEF ValueOf, eval_pred, Results

\* Pushing a token on what is left of the stack.
LEMMA PushedValues ==
  ASSUME NEW stack, GoodStack(stack), NEW truth \in Truths,
         NEW sp \in 0 .. stack.stack_pointer, CanPush(sp), NEW t, Meaningful(t), NEW new,
         new = [stack_pointer |-> sp + 1, tokens |-> [stack.tokens EXCEPT ![sp] = t]],
         GoodStack(new)
  PROVE  ValuesOf(new, truth) = Append(SubSeq(ValuesOf(stack, truth), 1, sp), ValueOf(t, truth))
<1> DEFINE v == ValuesOf(stack, truth)
           w == ValuesOf(new, truth)
           rest == SubSeq(v, 1, sp)
           x == ValueOf(t, truth)
           want == Append(rest, x)
<1>1. /\ v \in Seq(BOOLEAN) /\ Len(v) = stack.stack_pointer /\ stack.stack_pointer \in Nat
      /\ \A i \in 1 .. stack.stack_pointer : v[i] = ValueOf(stack.tokens[i - 1], truth)
  BY ValuesType
<1>2. /\ w \in Seq(BOOLEAN) /\ Len(w) = new.stack_pointer
      /\ \A i \in 1 .. new.stack_pointer : w[i] = ValueOf(new.tokens[i - 1], truth)
  BY ValuesType
<1>3. new.stack_pointer = sp + 1
  OBVIOUS
<1>4. /\ stack.tokens \in [0 .. (MaxTokens - 1) -> TokenT]
      /\ MaxTokens \in Nat
      /\ sp \in 0 .. (MaxTokens - 1)
  BY <1>1, ConstantsOK DEF GoodStack, StackT, CanPush
<1>5. \A i \in 0 .. (MaxTokens - 1) :
        new.tokens[i] = IF i = sp THEN t ELSE stack.tokens[i]
  BY <1>4
<1>6. x \in BOOLEAN
  BY ValueIsBoolean
<1> HIDE DEF v, w, x
<1>7. /\ rest \in Seq(BOOLEAN) /\ Len(rest) = sp
      /\ \A i \in 1 .. sp : rest[i] = v[i]
  <2>1. \A i \in 1 .. sp : v[i] \in BOOLEAN
    BY <1>1, ElementOfSeq
  <2>2. QED
    BY <1>1, <2>1, SubSeqProperties
<1> HIDE DEF rest
<1>8. /\ want \in Seq(BOOLEAN) /\ Len(want) = sp + 1
      /\ \A i \in 1 .. sp : want[i] = rest[i]
      /\ want[sp + 1] = x
  BY <1>6, <1>7, AppendProperties
<1> HIDE DEF want
<1>9. ASSUME NEW i \in 1 .. (sp + 1) PROVE w[i] = want[i]
  <2>1. i - 1 \in 0 .. (MaxTokens - 1)
    BY <1>4
  <2>2. w[i] = ValueOf(new.tokens[i - 1], truth)
    BY <1>2, <1>3
  <2>3. CASE i = sp + 1
    <3>1. new.tokens[i - 1] = t
      BY <1>4, <1>5, <2>1, <2>3
    <3>2. QED
      BY <1>8, <2>2, <2>3, <3>1 DEF x
  <2>4. CASE i \in 1 .. sp
    <3>1. new.tokens[i - 1] = stack.tokens[i - 1]
      BY <1>4, <1>5, <2>1, <2>4
    <3>2. i \in 1 .. stack.stack_pointer
      BY <1>1, <2>4
    <3>3. QED
      BY <1>1, <1>7, <1>8, <2>2, <2>4, <3>1, <3>2
  <2>5. QED
    BY <1>4, <2>3, <2>4
<1>10. w = want
  BY <1>2, <1>3, <1>8, <1>9, SeqEqual
<1>11. QED
  BY <1>10 DEF w, want, rest, v, x

\* A rule has pushed at most one token for each that it has evaluated, so
\* that stack_push never fails.
PushedInv ==
    /\ evals[1].pc = "token" => helper_stack.stack_pointer <= evals[1].tok - 1
    /\ evals[1].pc = "done" => evals[1].tok = 1

\* The stack of values of the machine that the matcher implements.
MachineValues ==
    IF evals[1].pc = "token"
      THEN [i \in 1 .. helper_stack.stack_pointer |-> Worth(helper_stack.tokens[i - 1])]
      ELSE <<>>

\* The bottom evaluation, when it is the only one.
LEMMA BottomEval ==
  ASSUME MatchInv, Depth = 1
  PROVE  /\ evals[1] \in Frame
         /\ level \in {0, 1} /\ (level = 0 <=> evals[1].pc = "idle")
         /\ level > 0 => level = 1 /\ cur = evals[1]
         /\ GoodStack(helper_stack)
         /\ evals[1].pc = "token" => MachineValues = ValuesOf(helper_stack, evals[1].truth)
         /\ evals[1].pc # "token" => MachineValues = <<>>
<1>1. 1 \in 1 .. Depth /\ evals[1] \in Frame /\ level \in {0, 1}
  BY DEF MatchInv, TypeInv
<1>2. level = 0 <=> evals[1].pc = "idle"
  BY <1>1 DEF MatchInv, ProgressInv
<1>3. GoodStack(helper_stack)
  BY DEF MatchInv, TypeInv, StackInv, GoodStack
<1>4. evals[1].pc = "token" => MachineValues = ValuesOf(helper_stack, evals[1].truth)
  BY DEF MachineValues, ValuesOf, Worth, ValueOf
<1>5. QED
  BY <1>1, <1>2, <1>3, <1>4 DEF cur, MachineValues

LEMMA GoEffect ==
  ASSUME MatchInv, Depth = 1, level > 0, NEW e, Go(e)
  PROVE  evals'[1] = e
BY BottomEval DEF MatchInv, TypeInv, Go

\* An operator that takes n tokens and leaves u.
LEMMA OperatorStep ==
  ASSUME MatchInv, MatchInv', PushedInv, Depth = 1, EvalToken,
         NEW n \in {0, 1, 2}, n <= helper_stack.stack_pointer, NEW u, Meaningful(u),
         PushOrFail(helper_stack.stack_pointer - n, u)
  PROVE  /\ evals'[1] = [pc |-> "token", time |-> evals[1].time, truth |-> evals[1].truth,
                         rule |-> evals[1].rule, tok |-> evals[1].tok + 1, matched |-> 0]
         /\ helper_stack'.stack_pointer = helper_stack.stack_pointer - n + 1
         /\ Len(MachineValues) = helper_stack.stack_pointer
         /\ MachineValues' = Append(SubSeq(MachineValues, 1, Len(MachineValues) - n),
                                    ValueOf(u, evals[1].truth))
<1> DEFINE sp == helper_stack.stack_pointer - n
<1>1. /\ level > 0 /\ cur = evals[1] /\ evals[1].pc = "token" /\ evals[1] \in Frame
      /\ evals[1].tok <= Len(rules[evals[1].rule].tokens)
  BY BottomEval DEF EvalToken
<1>2. /\ helper_stack.stack_pointer \in Nat
      /\ Len(rules[evals[1].rule].tokens) <= MaxTokens
      /\ Len(rules[evals[1].rule].tokens) \in Nat
      /\ MaxTokens \in Nat
      /\ evals[1].tok \in Nat
  <2>1. rules[cur.rule].tokens \in Seq(TokenT) /\ Len(rules[cur.rule].tokens) <= MaxTokens
    BY <1>1, RuleTokens
  <2>2. QED
    BY <1>1, <2>1, ConstantsOK DEF MatchInv, TypeInv, StackT, Frame
<1>3. sp \in 0 .. helper_stack.stack_pointer /\ CanPush(sp)
  BY <1>1, <1>2 DEF PushedInv, CanPush
<1>4. /\ helper_stack' = [stack_pointer |-> sp + 1, tokens |-> [helper_stack.tokens EXCEPT ![sp] = u]]
      /\ NextToken
  BY <1>3 DEF PushOrFail, stack_push
<1> HIDE DEF sp
<1>5. evals'[1] = [pc |-> "token", time |-> evals[1].time, truth |-> evals[1].truth,
                   rule |-> evals[1].rule, tok |-> evals[1].tok + 1, matched |-> 0]
  BY <1>1, <1>4, GoEffect DEF NextToken
<1>6. GoodStack(helper_stack) /\ GoodStack(helper_stack')
  BY DEF MatchInv, TypeInv, StackInv, GoodStack
<1>7. evals[1].truth \in Truths
  BY <1>1 DEF Frame
<1>8. ValuesOf(helper_stack', evals[1].truth) =
        Append(SubSeq(ValuesOf(helper_stack, evals[1].truth), 1, sp), ValueOf(u, evals[1].truth))
  BY <1>3, <1>4, <1>6, <1>7, PushedValues
<1>9. MachineValues = ValuesOf(helper_stack, evals[1].truth)
  BY <1>1, BottomEval
<1>10. MachineValues' = ValuesOf(helper_stack', evals[1].truth)
  BY <1>5 DEF MachineValues, ValuesOf, Worth, ValueOf
<1>11. Len(MachineValues) = helper_stack.stack_pointer
  BY <1>6, <1>7, <1>9, ValuesType
<1>12. helper_stack'.stack_pointer = sp + 1
  BY <1>4
<1>13. QED
  BY <1>5, <1>8, <1>9, <1>10, <1>11, <1>12 DEF sp

\* What an operator should leave, from what the tokens it takes are worth.
Operand(k) == ValueOf(Popped(k), evals[1].truth)

Outcome(t) ==
    CASE t.operator_type = "PREDICATE" -> ValueOf(t, evals[1].truth)
      [] t.operator_type = "NOT" -> ~Operand(1)
      [] t.operator_type = "AND" -> Operand(2) /\ Operand(1)
      [] t.operator_type = "OR" -> Operand(2) \/ Operand(1)

Taken(t) == IF t.operator_type = "PREDICATE" THEN 0
            ELSE IF t.operator_type = "NOT" THEN 1 ELSE 2

\* The result of a lazy binary operator is that of the strict one.
LEMMA BinaryOutcome ==
  ASSUME MatchInv, Depth = 1, level > 0, CanPop(2), NEW d \in {"TRUE", "FALSE"}, EvalBinary(d)
  PROVE  \E v \in {"TRUE", "FALSE"} :
           /\ PushOrFail(helper_stack.stack_pointer - 2, ResultToken(v))
           /\ (v = "TRUE") <=> IF d = "FALSE" THEN Operand(2) /\ Operand(1)
                                              ELSE Operand(2) \/ Operand(1)
<1> DEFINE b == Popped(1)
           a == Popped(2)
           cache == predicates_results_cache
           after_a == set_cached_pred_result(a, cur, cache)
<1>1. /\ cur = evals[1] /\ cur \in Frame /\ cache \in CacheT
      /\ helper_stack.stack_pointer \in Nat
  BY BottomEval, ConstantsOK DEF MatchInv, TypeInv, StackT
<1>2. Meaningful(a) /\ Meaningful(b)
  BY <1>1, PoppedIsMeaningful DEF CanPop
<1>3. Coherent(cur, cache)
  BY <1>1 DEF MatchInv, TypeInv, CacheIsCoherent, Coherent, cur
<1>4. after_a \in CacheT /\ Coherent(cur, after_a)
  BY <1>1, <1>2, <1>3, CacheSteps DEF CacheStep
<1>5. get_pred_evaluation(a, cur, cache) = IF Operand(2) THEN "TRUE" ELSE "FALSE"
  BY <1>1, <1>2, <1>3, EvaluationIsExact DEF Operand
<1>6. get_pred_evaluation(b, cur, after_a) = IF Operand(1) THEN "TRUE" ELSE "FALSE"
  <2> HIDE DEF after_a
  <2>1. QED
    BY <1>1, <1>2, <1>4, EvaluationIsExact DEF Operand
<1>7. CASE get_pred_evaluation(a, cur, cache) = d
  <2>1. PushOrFail(helper_stack.stack_pointer - 2, ResultToken(d))
    BY <1>7 DEF EvalBinary
  <2>2. QED
    BY <1>5, <1>7, <2>1
<1>8. CASE get_pred_evaluation(a, cur, cache) # d
  <2> DEFINE v == get_pred_evaluation(b, cur, after_a)
  <2>1. PushOrFail(helper_stack.stack_pointer - 2, ResultToken(v))
    BY <1>8 DEF EvalBinary
  <2>2. QED
    BY <1>5, <1>6, <1>8, <2>1
<1>9. QED
  BY <1>7, <1>8

\* A token of the rule takes what its operator needs and leaves its outcome,
\* or the rule is given up because the stack holds too little.
LEMMA TokenEffect ==
  ASSUME MatchInv, Depth = 1, EvalToken,
         NEW t, t = rules[evals[1].rule].tokens[evals[1].tok]
  PROVE  /\ LoadedToken(t)
         /\ \/ helper_stack.stack_pointer < Taken(t) /\ Underflow
            \/ /\ helper_stack.stack_pointer >= Taken(t)
               /\ \E u : /\ Meaningful(u)
                         /\ PushOrFail(helper_stack.stack_pointer - Taken(t), u)
                         /\ ValueOf(u, evals[1].truth) = Outcome(t)
<1>1. /\ level > 0 /\ cur = evals[1] /\ cur \in Frame
      /\ evals[1].pc = "token" /\ evals[1].tok <= Len(rules[evals[1].rule].tokens)
      /\ evaluate_token_against_event(t)
  BY BottomEval DEF EvalToken
<1>2. LoadedToken(t)
  <2>1. Len(rules[cur.rule].tokens) \in Nat
    BY <1>1, RuleTokens
  <2>2. cur.tok \in 1 .. Len(rules[cur.rule].tokens)
    BY <1>1, <2>1 DEF Frame
  <2>3. QED
    BY <1>1, <2>2, RuleTokens
<1>3. /\ helper_stack.stack_pointer \in Nat /\ predicates_results_cache \in CacheT
      /\ evals[1].truth \in Truths
  BY <1>1, ConstantsOK DEF MatchInv, TypeInv, StackT, Frame
<1>4. ASSUME NEW v \in {"TRUE", "FALSE"}
      PROVE  /\ Meaningful(ResultToken(v))
             /\ ValueOf(ResultToken(v), evals[1].truth) = (v = "TRUE")
  BY ResultIsMeaningful DEF ValueOf, ResultToken
<1>5. ASSUME NEW k \in {1, 2}, helper_stack.stack_pointer >= k
      PROVE  Operand(k) \in BOOLEAN
  BY <1>3, <1>5, PoppedIsMeaningful, ValueIsBoolean DEF Operand
<1>6. CASE t.operator_type = "PREDICATE"
  <2>1. PushOrFail(helper_stack.stack_pointer, t)
    BY <1>1, <1>6 DEF evaluate_token_against_event, EvalPredicate
  <2>2. Meaningful(t)
    BY <1>2, <1>6 DEF LoadedToken, Meaningful, TokenT
  <2>3. Taken(t) = 0 /\ Outcome(t) = ValueOf(t, evals[1].truth)
    BY <1>6 DEF Taken, Outcome
  <2>4. helper_stack.stack_pointer - 0 = helper_stack.stack_pointer
    BY <1>3
  <2>5. QED
    BY <1>2, <1>3, <2>1, <2>2, <2>3, <2>4
<1>7. CASE t.operator_type = "NOT"
  <2>1. Taken(t) = 1 /\ Outcome(t) = ~Operand(1)
    BY <1>7 DEF Taken, Outcome
  <2>2. CASE ~CanPop(1)
    BY <1>1, <1>2, <1>3, <1>7, <2>1, <2>2 DEF evaluate_token_against_event, CanPop
  <2>3. CASE CanPop(1)
    <3> DEFINE v == IF get_pred_evaluation(Popped(1), cur, predicates_results_cache) = "TRUE"
                      THEN "FALSE" ELSE "TRUE"
    <3>1. PushOrFail(helper_stack.stack_pointer - 1, ResultToken(v))
      BY <1>1, <1>7, <2>3 DEF evaluate_token_against_event, EvalNot
    <3>2. Coherent(cur, predicates_results_cache)
      BY <1>1 DEF MatchInv, TypeInv, CacheIsCoherent, Coherent, cur
    <3>3. Meaningful(Popped(1))
      BY <2>3, PoppedIsMeaningful DEF CanPop
    <3>4. get_pred_evaluation(Popped(1), cur, predicates_results_cache)
            = IF Operand(1) THEN "TRUE" ELSE "FALSE"
      BY <1>1, <1>3, <3>2, <3>3, EvaluationIsExact DEF Operand
    <3>5. v \in {"TRUE", "FALSE"} /\ (v = "TRUE") = ~Operand(1)
      BY <3>4
    <3> HIDE DEF v
    <3>6. ValueOf(ResultToken(v), evals[1].truth) = Outcome(t)
      BY <1>4, <2>1, <3>5
    <3>7. helper_stack.stack_pointer >= 1
      BY <2>3 DEF CanPop
    <3>8. QED
      BY <1>2, <1>4, <2>1, <3>1, <3>5, <3>6, <3>7
  <2>4. QED
    BY <2>2, <2>3
<1>8. ASSUME NEW d \in {"TRUE", "FALSE"},
             t.operator_type = IF d = "FALSE" THEN "AND" ELSE "OR"
      PROVE  \/ helper_stack.stack_pointer < Taken(t) /\ Underflow
             \/ /\ helper_stack.stack_pointer >= Taken(t)
                /\ \E u : /\ Meaningful(u)
                          /\ PushOrFail(helper_stack.stack_pointer - Taken(t), u)
                          /\ ValueOf(u, evals[1].truth) = Outcome(t)
  <2> DEFINE want == IF d = "FALSE" THEN Operand(2) /\ Operand(1) ELSE Operand(2) \/ Operand(1)
  <2>1. Taken(t) = 2 /\ Outcome(t) = want
    BY <1>8 DEF Taken, Outcome
  <2>2. CASE ~CanPop(2)
    BY <1>1, <1>3, <1>8, <2>1, <2>2 DEF evaluate_token_against_event, CanPop
  <2>3. CASE CanPop(2)
    <3>1. EvalBinary(d)
      BY <1>1, <1>8, <2>3 DEF evaluate_token_against_event
    <3>2. PICK v \in {"TRUE", "FALSE"} :
                /\ PushOrFail(helper_stack.stack_pointer - 2, ResultToken(v))
                /\ (v = "TRUE") <=> want
      BY <1>1, <2>3, <3>1, BinaryOutcome
    <3>3. (v = "TRUE") = want
      BY <3>2
    <3> HIDE DEF want
    <3>4. ValueOf(ResultToken(v), evals[1].truth) = Outcome(t)
      BY <1>4, <2>1, <3>3
    <3>5. helper_stack.stack_pointer >= 2
      BY <2>3 DEF CanPop
    <3>6. QED
      BY <1>4, <2>1, <3>2, <3>4, <3>5
  <2>4. QED
    BY <2>2, <2>3
<1>9. t.operator_type \in Ops
  BY <1>2 DEF LoadedToken, TokenT
<1>10. CASE t.operator_type \in {"AND", "OR"}
  <2>1. t.operator_type = "AND" => t.operator_type = IF "FALSE" = "FALSE" THEN "AND" ELSE "OR"
    OBVIOUS
  <2>2. t.operator_type = "OR" => t.operator_type = IF "TRUE" = "FALSE" THEN "AND" ELSE "OR"
    OBVIOUS
  <2>3. QED
    BY <1>2, <1>8, <1>10, <2>1, <2>2
<1>11. QED
  BY <1>6, <1>7, <1>9, <1>10 DEF Ops

LEMMA NextRuleEffect ==
  ASSUME MatchInv, Depth = 1, level > 0, NextRule
  PROVE  evals'[1] = [pc |-> "rule", time |-> evals[1].time, truth |-> evals[1].truth,
                      rule |-> evals[1].rule + 1, tok |-> 1, matched |-> 0]
BY BottomEval, GoEffect DEF NextRule

LEMMA PushedStep ==
  ASSUME MatchInv, MatchInv', PushedInv, Depth = 1, [Next]_vars
  PROVE  PushedInv'
<1>1. CASE UNCHANGED vars
  BY <1>1 DEF vars, PushedInv
<1>2. CASE \E t \in Truths : Begin(t)
  BY <1>2, BottomEval DEF Begin, PushedInv, MatchInv, TypeInv
<1>3. CASE StartRule
  <2>1. level > 0
    BY <1>3 DEF StartRule
  <2>2. QED
    BY <1>3, <2>1, GoEffect DEF StartRule, PushedInv, ResetStack
<1>4. CASE EvalToken
  <2> DEFINE t == rules[evals[1].rule].tokens[evals[1].tok]
  <2>1. level > 0 /\ evals[1].pc = "token"
    BY <1>4, BottomEval DEF EvalToken
  <2>2. CASE Underflow
    BY <2>1, <2>2, NextRuleEffect DEF Underflow, PushedInv
  <2>3. CASE /\ helper_stack.stack_pointer >= Taken(t)
             /\ \E u : Meaningful(u) /\ PushOrFail(helper_stack.stack_pointer - Taken(t), u)
    <3>1. PICK u : Meaningful(u) /\ PushOrFail(helper_stack.stack_pointer - Taken(t), u)
      BY <2>3
    <3>2. Taken(t) \in {0, 1, 2}
      BY DEF Taken
    <3> HIDE DEF t
    <3>3. helper_stack.stack_pointer \in Nat /\ evals[1].tok \in Nat
      BY ConstantsOK, BottomEval DEF MatchInv, TypeInv, StackT, Frame
    <3>4. /\ evals'[1].pc = "token" /\ evals'[1].tok = evals[1].tok + 1
          /\ helper_stack'.stack_pointer = helper_stack.stack_pointer - Taken(t) + 1
      BY <1>4, <2>3, <3>1, <3>2, <3>3, OperatorStep
    <3>5. QED
      BY <2>1, <3>2, <3>3, <3>4 DEF PushedInv
  <2>4. QED
    BY <1>4, <2>2, <2>3, TokenEffect
<1>5. CASE FinishRule
  <2>1. level > 0
    BY <1>5 DEF FinishRule
  <2>2. CASE NextRule
    BY <2>1, <2>2, NextRuleEffect DEF PushedInv
  <2>3. CASE ~NextRule
    BY <1>5, <2>1, <2>3, GoEffect DEF FinishRule, PushedInv
  <2>4. QED
    BY <2>2, <2>3
<1>6. CASE Return
  <2>1. level > 0
    BY <1>6 DEF Return
  <2>2. QED
    BY <1>6, <2>1, GoEffect DEF Return, PushedInv
<1>7. QED
  BY <1>1, <1>2, <1>3, <1>4, <1>5, <1>6 DEF Next

\* Each step of the matcher is the machine's step of the same name.
LEMMA EvalTokenRefines ==
  ASSUME MatchInv, MatchInv', PushedInv, Depth = 1, EvalToken
  PROVE  Machine!EvalToken
<1> DEFINE t == rules[evals[1].rule].tokens[evals[1].tok]
           n == Machine!Arity(t.operator_type)
<1>1. /\ level > 0 /\ evals[1].pc = "token" /\ evals[1] \in Frame
      /\ evals[1].tok <= Len(rules[evals[1].rule].tokens)
      /\ rules' = rules /\ evals[1].matched = 0
      /\ helper_stack.stack_pointer \in Nat
  BY BottomEval, ConstantsOK DEF EvalToken, rules, MatchInv, TypeInv, StackT, ProgressInv
<1>2. GoodStack(helper_stack) /\ evals[1].truth \in Truths
      /\ MachineValues = ValuesOf(helper_stack, evals[1].truth)
  BY <1>1, BottomEval DEF Frame
<1>3. /\ Len(MachineValues) = helper_stack.stack_pointer
      /\ \A i \in 1 .. helper_stack.stack_pointer :
           MachineValues[i] = ValueOf(helper_stack.tokens[i - 1], evals[1].truth)
  BY <1>2, ValuesType
<1>4. LoadedToken(t)
  BY TokenEffect
<1>5. n = Taken(t) /\ n \in {0, 1, 2}
  BY <1>4 DEF Machine!Arity, Taken, LoadedToken, TokenT, Ops
<1>6. CASE helper_stack.stack_pointer < Taken(t) /\ Underflow
  <2>1. NextRule
    BY <1>6 DEF Underflow
  <2>2. evals'[1] = [pc |-> "rule", time |-> evals[1].time, truth |-> evals[1].truth,
                     rule |-> evals[1].rule + 1, tok |-> 1, matched |-> 0]
    BY <1>1, <2>1, NextRuleEffect
  <2>3. MachineValues' = <<>>
    BY <2>2 DEF MachineValues
  <2>4. Machine!NextRule
    BY <1>1, <2>2, <2>3 DEF Machine!NextRule, MachineValues
  <2>5. Len(MachineValues) < n
    BY <1>3, <1>5, <1>6
  <2>6. QED
    BY <1>1, <2>4, <2>5 DEF Machine!EvalToken, MachineValues
<1>7. ASSUME helper_stack.stack_pointer >= Taken(t),
             NEW u, Meaningful(u), PushOrFail(helper_stack.stack_pointer - Taken(t), u),
             ValueOf(u, evals[1].truth) = Outcome(t)
      PROVE  Machine!EvalToken
  <2>1. /\ evals'[1] = [pc |-> "token", time |-> evals[1].time, truth |-> evals[1].truth,
                        rule |-> evals[1].rule, tok |-> evals[1].tok + 1, matched |-> 0]
        /\ MachineValues' = Append(SubSeq(MachineValues, 1, Len(MachineValues) - n),
                                   ValueOf(u, evals[1].truth))
    <3> HIDE DEF t, n
    <3>1. Taken(t) \in {0, 1, 2} /\ Taken(t) <= helper_stack.stack_pointer
      BY <1>1, <1>5, <1>7
    <3>2. QED
      BY <1>5, <1>7, <3>1, OperatorStep
  <2>2. Machine!Outcome(t) = Outcome(t)
    <3>1. CASE t.operator_type = "PREDICATE"
      <4>1. t.result = "UNKNOWN"
        BY <1>4 DEF LoadedToken
      <4>2. Outcome(t) = evals[1].truth[t.pred_idx]
        BY <3>1, <4>1 DEF Outcome, ValueOf
      <4>3. QED
        BY <3>1, <4>2 DEF Machine!Outcome
    <3>2. CASE t.operator_type = "NOT"
      <4>1. MachineValues[Len(MachineValues) - 0] = Operand(1)
        BY <1>1, <1>3, <1>7, <3>2 DEF Operand, Popped, Taken
      <4>2. QED
        BY <3>2, <4>1 DEF Machine!Outcome, Machine!Top, Outcome, MachineValues
    <3>3. CASE t.operator_type \in {"AND", "OR"}
      <4>1. /\ MachineValues[Len(MachineValues) - 0] = Operand(1)
            /\ MachineValues[Len(MachineValues) - 1] = Operand(2)
        <5>1. helper_stack.stack_pointer >= 2
          BY <1>7, <3>3 DEF Taken
        <5>2. /\ helper_stack.stack_pointer - 0 \in 1 .. helper_stack.stack_pointer
              /\ helper_stack.stack_pointer - 1 \in 1 .. helper_stack.stack_pointer
              /\ (helper_stack.stack_pointer - 0) - 1 = helper_stack.stack_pointer - 1
              /\ (helper_stack.stack_pointer - 1) - 1 = helper_stack.stack_pointer - 2
          BY <1>1, <5>1
        <5>3. QED
          BY <1>3, <5>2 DEF Operand, Popped
      <4>2. QED
        BY <3>3, <4>1 DEF Machine!Outcome, Machine!Top, Outcome, MachineValues
    <3>4. QED
      BY <1>4, <3>1, <3>2, <3>3 DEF LoadedToken, TokenT, Ops
  <2>3. ~(Len(MachineValues) < n)
    BY <1>1, <1>3, <1>5, <1>7
  <2>4. MachineValues' = Append(SubSeq(MachineValues, 1, Len(MachineValues) - n), Machine!Outcome(t))
    BY <1>7, <2>1, <2>2
  <2>5. /\ evals'[1].tok = evals[1].tok + 1
        /\ UNCHANGED <<rules, evals[1].pc, evals[1].truth, evals[1].rule, evals[1].matched>>
    <3>1. evals'[1] = [pc |-> "token", time |-> evals[1].time, truth |-> evals[1].truth,
                       rule |-> evals[1].rule, tok |-> evals[1].tok + 1, matched |-> 0]
      BY <2>1
    <3>2. rules' = rules /\ evals[1].pc = "token" /\ evals[1].matched = 0
      BY <1>1
    <3>3. QED
      BY <3>1, <3>2
  <2>6. evals[1].pc = "token" /\ evals[1].tok <= Len(rules[evals[1].rule].tokens)
    BY <1>1
  <2>7. QED
    BY <2>3, <2>4, <2>5, <2>6, Zenon DEF Machine!EvalToken, MachineValues
<1>8. QED
  BY <1>6, <1>7, TokenEffect

LEMMA FinishRuleRefines ==
  ASSUME MatchInv, PushedInv, Depth = 1, FinishRule
  PROVE  Machine!FinishRule
<1>1. /\ level > 0 /\ cur = evals[1] /\ evals[1].pc = "token" /\ evals[1] \in Frame
      /\ evals[1].tok > Len(rules[evals[1].rule].tokens)
      /\ rules' = rules /\ evals[1].matched = 0
      /\ helper_stack.stack_pointer \in Nat /\ predicates_results_cache \in CacheT
  BY BottomEval, ConstantsOK DEF FinishRule, rules, MatchInv, TypeInv, StackT, ProgressInv
<1>2. GoodStack(helper_stack) /\ evals[1].truth \in Truths
      /\ MachineValues = ValuesOf(helper_stack, evals[1].truth)
  BY <1>1, BottomEval DEF Frame
<1>3. /\ MachineValues \in Seq(BOOLEAN)
      /\ Len(MachineValues) = helper_stack.stack_pointer
      /\ \A i \in 1 .. helper_stack.stack_pointer :
           MachineValues[i] = ValueOf(helper_stack.tokens[i - 1], evals[1].truth)
  BY <1>2, ValuesType
<1>4. ASSUME NextRule, MachineValues # <<TRUE>> PROVE Machine!FinishRule
  <2>1. evals'[1] = [pc |-> "rule", time |-> evals[1].time, truth |-> evals[1].truth,
                     rule |-> evals[1].rule + 1, tok |-> 1, matched |-> 0]
    BY <1>1, <1>4, NextRuleEffect
  <2>2. MachineValues' = <<>>
    BY <2>1 DEF MachineValues
  <2>3. Machine!NextRule
    BY <1>1, <2>1, <2>2 DEF Machine!NextRule, MachineValues
  <2>4. QED
    BY <1>1, <1>4, <2>3, Zenon DEF Machine!FinishRule, MachineValues
<1>5. CASE helper_stack.stack_pointer # 1
  <2>1. NextRule
    BY <1>5 DEF FinishRule
  <2>2. MachineValues # <<TRUE>>
    <3>1. Len(<<TRUE>>) = 1
      OBVIOUS
    <3>2. QED
      BY <1>3, <1>5, <3>1
  <2>3. QED
    BY <1>4, <2>1, <2>2
<1>6. CASE helper_stack.stack_pointer = 1
  <2>1. Meaningful(Popped(1))
    BY <1>6, PoppedIsMeaningful
  <2>2. Coherent(cur, predicates_results_cache)
    BY <1>1 DEF MatchInv, TypeInv, CacheIsCoherent, Coherent, cur
  <2>3. get_pred_evaluation(Popped(1), cur, predicates_results_cache)
          = IF ValueOf(Popped(1), evals[1].truth) THEN "TRUE" ELSE "FALSE"
    BY <1>1, <2>1, <2>2, EvaluationIsExact
  <2>4. MachineValues[1] = ValueOf(Popped(1), evals[1].truth)
    BY <1>3, <1>6 DEF Popped
  <2>5. ValueOf(Popped(1), evals[1].truth) \in BOOLEAN
    BY <1>2, <2>1, ValueIsBoolean
  <2>6. CASE ValueOf(Popped(1), evals[1].truth)
    <3>1. Go([pc |-> "done", time |-> evals[1].time, truth |-> evals[1].truth,
              rule |-> evals[1].rule, tok |-> 1, matched |-> evals[1].rule])
      BY <1>1, <1>6, <2>3, <2>6 DEF FinishRule
    <3>2. evals'[1] = [pc |-> "done", time |-> evals[1].time, truth |-> evals[1].truth,
              rule |-> evals[1].rule, tok |-> 1, matched |-> evals[1].rule]
      BY <1>1, <3>1, GoEffect
    <3>3. MachineValues = <<TRUE>>
      <4>1. <<TRUE>> \in Seq(BOOLEAN) /\ Len(<<TRUE>>) = 1 /\ <<TRUE>>[1] = TRUE
        OBVIOUS
      <4>2. \A i \in 1 .. Len(MachineValues) : MachineValues[i] = <<TRUE>>[i]
        <5>1. MachineValues[1] = TRUE
          BY <2>4, <2>5, <2>6
        <5>2. \A i \in 1 .. Len(MachineValues) : i = 1
          BY <1>3, <1>6
        <5>3. QED
          BY <4>1, <5>1, <5>2
      <4>3. QED
        BY <1>3, <1>6, <4>1, <4>2, SeqEqual
    <3>4. MachineValues' = <<>>
      BY <3>2 DEF MachineValues
    <3>5. /\ evals'[1].pc = "done" /\ evals'[1].matched = evals[1].rule /\ evals'[1].tok = 1
          /\ UNCHANGED <<rules, evals[1].truth, evals[1].rule>>
      <4>1. rules' = rules
        BY <1>1
      <4>2. QED
        BY <3>2, <4>1
    <3>6. evals[1].pc = "token" /\ evals[1].tok > Len(rules[evals[1].rule].tokens)
      BY <1>1
    <3>7. QED
      BY <3>3, <3>4, <3>5, <3>6, Zenon DEF Machine!FinishRule, MachineValues
  <2>7. CASE ~ValueOf(Popped(1), evals[1].truth)
    <3>1. NextRule
      BY <1>6, <2>3, <2>7 DEF FinishRule
    <3>2. MachineValues # <<TRUE>>
      <4>1. <<TRUE>>[1] = TRUE
        OBVIOUS
      <4>2. QED
        BY <2>4, <2>7, <4>1
    <3>3. QED
      BY <1>4, <3>1, <3>2
  <2>8. QED
    BY <2>6, <2>7
<1>7. QED
  BY <1>5, <1>6

LEMMA StartRuleRefines ==
  ASSUME MatchInv, Depth = 1, StartRule
  PROVE  Machine!StartRule
<1>1. /\ level > 0 /\ cur = evals[1] /\ evals[1].pc = "rule"
      /\ rules' = rules /\ evals[1].matched = 0
  BY BottomEval DEF StartRule, rules, MatchInv, TypeInv, ProgressInv
<1>2. CASE evals[1].rule <= Len(rules) /\ ~rules[evals[1].rule].is_end_of_rules
  <2>1. /\ helper_stack'.stack_pointer = 0
        /\ Go([pc |-> "token", time |-> evals[1].time, truth |-> evals[1].truth,
               rule |-> evals[1].rule, tok |-> 1, matched |-> 0])
    BY <1>1, <1>2 DEF StartRule, ResetStack
  <2>2. evals'[1] = [pc |-> "token", time |-> evals[1].time, truth |-> evals[1].truth,
                     rule |-> evals[1].rule, tok |-> 1, matched |-> 0]
    BY <1>1, <2>1, GoEffect
  <2>3. MachineValues' = <<>>
    BY <2>1, <2>2 DEF MachineValues
  <2>4. QED
    BY <1>1, <1>2, <2>2, <2>3 DEF Machine!StartRule, MachineValues
<1>3. CASE ~(evals[1].rule <= Len(rules) /\ ~rules[evals[1].rule].is_end_of_rules)
  <2>1. Go([pc |-> "done", time |-> evals[1].time, truth |-> evals[1].truth,
               rule |-> evals[1].rule, tok |-> 1, matched |-> 0])
    BY <1>1, <1>3 DEF StartRule
  <2>2. evals'[1] = [pc |-> "done", time |-> evals[1].time, truth |-> evals[1].truth,
                     rule |-> evals[1].rule, tok |-> 1, matched |-> 0]
    BY <1>1, <2>1, GoEffect
  <2>3. MachineValues' = <<>>
    BY <2>2 DEF MachineValues
  <2>4. QED
    BY <1>1, <1>3, <2>2, <2>3 DEF Machine!StartRule, MachineValues
<1>4. QED
  BY <1>2, <1>3

LEMMA BeginRefines ==
  ASSUME MatchInv, Depth = 1, NEW t \in Truths, Begin(t)
  PROVE  Machine!Begin(t)
<1>1. level = 0 /\ evals[1].pc = "idle" /\ rules' = rules
  BY BottomEval DEF Begin, rules
<1>2. evals'[1] = [pc |-> "rule", time |-> clock + 1, truth |-> t, rule |-> 1, tok |-> 1, matched |-> 0]
  BY <1>1 DEF Begin, MatchInv, TypeInv
<1>3. MachineValues' = <<>>
  BY <1>2 DEF MachineValues
<1>4. QED
  BY <1>1, <1>2, <1>3 DEF Machine!Begin, MachineValues

LEMMA ReturnRefines ==
  ASSUME MatchInv, PushedInv, Depth = 1, Return
  PROVE  Machine!Return
<1>1. /\ level > 0 /\ cur = evals[1] /\ evals[1].pc = "done" /\ rules' = rules
      /\ evals[1].tok = 1
  BY BottomEval DEF Return, rules, PushedInv
<1>2. evals'[1] = [pc |-> "idle", time |-> evals[1].time, truth |-> evals[1].truth,
                   rule |-> evals[1].rule, tok |-> 1, matched |-> evals[1].matched]
  BY <1>1, GoEffect DEF Return
<1>3. MachineValues = <<>> /\ MachineValues' = <<>>
  BY <1>1, <1>2 DEF MachineValues
<1>4. QED
  BY <1>1, <1>2, <1>3 DEF Machine!Return, MachineValues

\* On a CPU without softirqs the matcher, with its laziness, its cache of
\* predicate results and its shared stack, implements the machine that
\* evaluates every predicate of every rule afresh, whatever the predicates,
\* the rule maps (malformed ones included) and the events.
THEOREM MatcherCorrect ==
  ASSUME Depth = 1
  PROVE  Spec => ImplementsPostfixMachine
<1>1. Init => PushedInv
  BY ConstantsOK DEF Init, PushedInv, IdleEval
<1>2. Init => Machine!Init
  <2> SUFFICES ASSUME Init PROVE Machine!Init
    OBVIOUS
  <2>1. PICK t \in Truths : evals = [l \in 1 .. Depth |-> IdleEval(t)]
    BY DEF Init
  <2>2. evals[1] = IdleEval(t)
    BY <2>1
  <2>3. rules \in {MapOf[c] : c \in Configs}
    BY DEF Init, rules
  <2>4. MachineValues = <<>>
    BY <2>2 DEF MachineValues, IdleEval
  <2>5. QED
    BY <2>2, <2>3, <2>4 DEF Machine!Init, MachineValues, IdleEval
<1>3. MatchInv /\ MatchInv' /\ PushedInv /\ [Next]_vars => PushedInv'
  BY PushedStep
<1>4. MatchInv /\ MatchInv' /\ PushedInv /\ [Next]_vars => [Machine!Next]_(Machine!pvars)
  <2> SUFFICES ASSUME MatchInv, MatchInv', PushedInv, [Next]_vars
               PROVE  Machine!Next \/ UNCHANGED Machine!pvars
    OBVIOUS
  <2>1. CASE \E t \in Truths : Begin(t)
    BY <2>1, BeginRefines DEF Machine!Next
  <2>2. CASE StartRule
    BY <2>2, StartRuleRefines DEF Machine!Next
  <2>3. CASE EvalToken
    BY <2>3, EvalTokenRefines DEF Machine!Next
  <2>4. CASE FinishRule
    BY <2>4, FinishRuleRefines DEF Machine!Next
  <2>5. CASE Return
    BY <2>5, ReturnRefines DEF Machine!Next
  <2>6. CASE UNCHANGED vars
    <3>1. MachineValues' = MachineValues /\ rules' = rules
      BY <2>6 DEF vars, MachineValues, rules, Worth
    <3>2. QED
      BY <2>6, <3>1 DEF vars, Machine!pvars, MachineValues
  <2>7. QED
    BY <2>1, <2>2, <2>3, <2>4, <2>5, <2>6 DEF Next
<1>5. QED
  BY <1>1, <1>2, <1>3, <1>4, MatchInvariant, PTL DEF Spec, ImplementsPostfixMachine, Machine!Spec
=============================================================================
