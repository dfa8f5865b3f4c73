--------------------------- MODULE MCRuleMatching ---------------------------
(* Instances of RuleMatching over rule maps made by RuleCompiler. *)
EXTENDS RuleMatching, RuleCompiler

CONSTANTS p, q, Family   \* two predicates; which configurations are loaded

MCPreds == {p, q}
MCTruths == [MCPreds -> BOOLEAN]

Pred(x) == [op |-> "PRED", pred |-> x, children |-> <<>>]
Node(o, c) == [op |-> o, pred |-> NoPred, children |-> c]

Leaves == {Pred(x) : x \in MCPreds}
Simple == Leaves \union {Node("NOT", <<a>>) : a \in Leaves}
                 \union {Node(o, <<a, b>>) : o \in {"AND", "OR"}, a \in Leaves, b \in Leaves}
Compound == Simple
    \union {Node("NOT", <<a>>) : a \in Simple}
    \union {Node(o, <<a, b>>) : o \in {"AND", "OR"}, a \in Simple, b \in Simple}
    \union {Node(o, <<a, b, c>>) : o \in {"AND", "OR"}, a \in Leaves, b \in Simple, c \in {Pred(p)}}

RuleOf(id, e) ==
    [id |-> id, applied_events |-> {"READ"}, min_version |-> 0, max_version |-> 0,
     expr |-> e, tokens |-> condition_expr_to_postfix(convert_condition(e))]

\* Tokens that no generator writes, but that the configuration schema accepts.
Malformed(id, ts) ==
    [id |-> id, applied_events |-> {"READ"}, min_version |-> 0, max_version |-> 0,
     expr |-> Node("OR", <<>>), tokens |-> ts]

Deep == {<<RuleOf(7, Pred(q)), RuleOf(3, e)>> : e \in Compound}

Broken == {<<Malformed(1, ts), RuleOf(2, Pred(p)), RuleOf(3, Node("NOT", <<Pred(q)>>))>> :
    ts \in {<<token("PREDICATE", p), token("PREDICATE", q)>>, <<token("AND", NoPred)>>,
            <<token("PREDICATE", p), token("OR", NoPred)>>, <<token("NOT", NoPred)>>, <<>>}}

Selected ==
    {<<[RuleOf(2, Pred(p)) EXCEPT !.min_version = v], [RuleOf(1, Pred(q)) EXCEPT !.max_version = w],
       [RuleOf(0, Pred(p)) EXCEPT !.applied_events = {"WRITE"}], RuleOf(3, Node("NOT", <<Pred(q)>>))>> :
       v \in 0..3, w \in 0..3}

HighIds == {<<RuleOf(MaxRuleId + 1, Pred(p)), RuleOf(1, Pred(q))>>}

Few == {<<RuleOf(1, Node("AND", <<Pred(p), Pred(q)>>)), RuleOf(2, Node("NOT", <<Pred(p)>>))>>}

MCConfigs == CASE Family = "deep" -> Deep \union Broken \union Selected
               [] Family = "high" -> HighIds
               [] Family = "few" -> Few

MCMapOf == [c \in MCConfigs |-> organize_rules(c, "READ")]

-----------------------------------------------------------------------------
\* The rules that should decide a READ event: the condition holds, the rule
\* is for READ and the running version is in its range.
Candidates(c, truth) ==
    {i \in DOMAIN c : /\ Holds(c[i].expr, truth) /\ "READ" \in c[i].applied_events
                      /\ RuntimeVersion >= c[i].min_version
                      /\ c[i].max_version = 0 \/ RuntimeVersion <= c[i].max_version}

\* The decision of every evaluation, from compiling the conditions to the
\* lazy and cached evaluation in the kernel, is the one that the conditions
\* give: the matching rule of lowest id, or none if no condition holds.
FirstMatchWins ==
    \A l \in 1..level : evals[l].pc = "done" =>
        LET hits == Candidates(config, evals[l].truth) IN
        IF hits = {} THEN evals[l].matched = 0
        ELSE /\ evals[l].matched \in DOMAIN rules
             /\ \E i \in hits : /\ rules[evals[l].matched].id = config[i].id
                                /\ \A j \in hits : config[i].id <= config[j].id
=============================================================================
