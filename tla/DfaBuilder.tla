----------------------------- MODULE DfaBuilder -----------------------------
(***************************************************************************)
(* How user space turns the strings of the rules into the tables that the  *)
(* kernel walks (dfa_builder.cpp): the KMP automaton of a "contains"       *)
(* string, and for a regular expression the chain repetition -> Thompson   *)
(* automaton -> subset construction -> minimization -> numbering.          *)
(*                                                                         *)
(* A pattern is the tree that the parser builds, with a character class    *)
(* (a set of characters) at its leaves: a literal is a class of one.       *)
(* Repetitions {n}, {n,} and {n,m} are nodes of the tree; the parser       *)
(* expands them.  Up to the numbering, a state of a deterministic          *)
(* automaton is the set of states that it stands for: the order in which   *)
(* the code numbers them has no effect but on the numbers.                 *)
(***************************************************************************)
EXTENDS Integers, Sequences, FiniteSets, SequencesExt

CONSTANTS Chars,                  \* the alphabet
          MAX_REGEX_DFA_STATES    \* most states of the automaton of an expression

ASSUME DfaAssumption == MAX_REGEX_DFA_STATES \in Nat \ {0}

Unbounded == -1     \* the upper bound of {n,}
EPSILON == "eps"    \* the empty move

Class(s) == [type |-> "CHAR_CLASS", char_set |-> s, children |-> <<>>]
makeUnary(t, x) == [type |-> t, char_set |-> {}, children |-> <<x>>]
makeBinary(t, x, y) == [type |-> t, char_set |-> {}, children |-> <<x, y>>]
Repeat(x, n, k) == makeUnary("REPEAT", x) @@ [min |-> n, max |-> k]

-----------------------------------------------------------------------------
\* The parser's trees.  {n}: n copies; {n,}: n copies and a star; {n,m}: n
\* copies and m - n optional ones, joined from the left.
expandBoundedRepetition(atom, min_rep, max_rep) ==
    LET copies == [i \in 1..min_rep |-> atom]
        rest == IF max_rep = Unbounded THEN <<makeUnary("STAR", atom)>>
                ELSE [i \in 1..(max_rep - min_rep) |-> makeUnary("OPTIONAL", atom)]
        parts == copies \o rest
    IN FoldLeft(LAMBDA x, y : makeBinary("CONCAT", x, y), Head(parts), Tail(parts))

RECURSIVE Parsed(_)
Parsed(p) ==
    LET kids == [i \in DOMAIN p.children |-> Parsed(p.children[i])] IN
    IF p.type = "REPEAT" THEN expandBoundedRepetition(kids[1], p.min, p.max)
    ELSE [p EXCEPT !.children = kids]

\* {0} and {0,0} are refused by the parser.
RECURSIVE Parses(_)
Parses(p) == /\ \A i \in DOMAIN p.children : Parses(p.children[i])
             /\ p.type = "REPEAT" => ~(p.min = 0 /\ p.max = 0)

-----------------------------------------------------------------------------
\* Thompson's construction: an automaton under construction, with the entry
\* and the exit of its last fragment.
EmptyNfa == [count |-> 0, moves |-> {}, start |-> 0, accept |-> 0]

RECURSIVE buildNfaFromAst(_, _)
buildNfaFromAst(nfa, node) ==
    LET s == nfa.count
        a == nfa.count + 1
        two == [nfa EXCEPT !.count = @ + 2]
        inner == buildNfaFromAst(two, node.children[1])
        other == buildNfaFromAst(inner, node.children[2])
        Wrap(f, moves) == [f EXCEPT !.start = s, !.accept = a, !.moves = @ \union moves]
        Eps(x, y) == <<x, EPSILON, y>>
        in == Eps(s, inner.start)
        out == Eps(inner.accept, a)
        again == Eps(inner.accept, inner.start)
        skip == Eps(s, a)
    IN CASE node.type = "CHAR_CLASS" -> Wrap(two, {<<s, c, a>> : c \in node.char_set})
         [] node.type = "CONCAT" ->
              LET left == buildNfaFromAst(nfa, node.children[1])
                  right == buildNfaFromAst(left, node.children[2])
              IN [right EXCEPT !.start = left.start,
                               !.moves = @ \union {Eps(left.accept, right.start)}]
         [] node.type = "ALTERNATION" ->
              Wrap(other, {in, out, Eps(s, other.start), Eps(other.accept, a)})
         [] node.type = "STAR" -> Wrap(inner, {in, skip, again, out})
         [] node.type = "PLUS" -> Wrap(inner, {in, again, out})
         [] node.type = "OPTIONAL" -> Wrap(inner, {in, skip, out})

\* The search may begin anywhere: a state that loops on every character
\* leads into the pattern.
Unanchored(f) ==
    [f EXCEPT !.count = @ + 1, !.start = f.count,
              !.moves = @ \union {<<f.count, c, f.count>> : c \in Chars}
                          \union {<<f.count, EPSILON, f.start>>}]

-----------------------------------------------------------------------------
nfaMove(nfa, S, symbol) == {m[3] : m \in {t \in nfa.moves : t[1] \in S /\ t[2] = symbol}}

RECURSIVE epsilonClosure(_, _)
epsilonClosure(nfa, S) ==
    LET more == S \union nfaMove(nfa, S, EPSILON) IN
    IF more = S THEN S ELSE epsilonClosure(nfa, more)

\* The sets of states that are reachable from those in "found".
RECURSIVE Explore(_, _, _)
Explore(nfa, found, work) ==
    LET targets == {epsilonClosure(nfa, nfaMove(nfa, S, c)) : S \in work, c \in Chars} \ {{}}
        new == targets \ found
    IN IF new = {} THEN found ELSE Explore(nfa, found \union new, new)

\* The automaton: "Dead" stands for the missing move (-1).
Dead == {}
subsetConstruction(nfa) ==
    LET start == epsilonClosure(nfa, {nfa.start})
        states == Explore(nfa, {start}, {start})
    IN [states |-> states, start |-> start,
        accepting |-> {S \in states : nfa.accept \in S},
        delta |-> [S \in states |-> [c \in Chars |-> epsilonClosure(nfa, nfaMove(nfa, S, c))]]]

-----------------------------------------------------------------------------
\* Partition refinement: two states stay together while they were together
\* and move into the same groups.
Blocks(group) == {group[q] : q \in DOMAIN group}

\* Mutant: the signature leaves out the last character of the alphabet.
SplitOnMost(d, group) ==
    LET most == Chars \ {CHOOSE c \in Chars : TRUE} IN
    [q \in DOMAIN group |->
        {r \in DOMAIN group : /\ group[r] = group[q]
                              /\ \A c \in most : group[d[r][c]] = group[d[q][c]]}]

Split(d, group) ==
    [q \in DOMAIN group |->
        {r \in DOMAIN group : /\ group[r] = group[q]
                              /\ \A c \in Chars : group[d[r][c]] = group[d[q][c]]}]

RECURSIVE Refine(_, _)
Refine(d, group) ==
    LET next == Split(d, group) IN
    IF Cardinality(Blocks(next)) > Cardinality(Blocks(group)) THEN Refine(d, next) ELSE group

minimizeDfa(dfa) ==
    IF Cardinality(dfa.states) <= 1 THEN dfa
    ELSE LET all == dfa.states \union {Dead}
             d == [q \in all |-> IF q = Dead THEN [c \in Chars |-> Dead] ELSE dfa.delta[q]]
             group == Refine(d, [q \in all |-> IF q \in dfa.accepting THEN dfa.accepting
                                               ELSE all \ dfa.accepting])
             states == Blocks(group)
             Member(g) == CHOOSE q \in g : TRUE
         IN [states |-> states, start |-> group[dfa.start],
             accepting |-> {g \in states : Member(g) \in dfa.accepting},
             delta |-> [g \in states |-> [c \in Chars |-> group[d[Member(g)][c]]]]]

-----------------------------------------------------------------------------
\* The states that only lead to themselves and do not accept.
DeadStates(dfa) ==
    {q \in dfa.states \ dfa.accepting : \A c \in Chars : dfa.delta[q][c] = q}

\* 0 is the dead state, 1 the start, the others follow.  When no state is
\* dead a new one takes the 0.  A dead start gets both numbers in turn, and
\* the second is behind the end of the vector: what happens then is
\* undefined.
normalizeDfa(dfa) ==
    LET dead == DeadStates(dfa)
        zero == IF dead = {} THEN {} ELSE {CHOOSE q \in dead : TRUE}
        others == SetToSeq(dfa.states \ (zero \union {dfa.start}))
        total == Cardinality(dfa.states) + 1 - Cardinality(zero)
        remap == [q \in dfa.states |->
                    IF q = dfa.start THEN 1 ELSE IF q \in zero THEN 0
                    ELSE 1 + CHOOSE i \in DOMAIN others : others[i] = q]
        Of(n) == CHOOSE q \in dfa.states : remap[q] = n
    IN IF dfa.start \in zero THEN [outcome |-> "undefined"]
       ELSE IF total > MAX_REGEX_DFA_STATES THEN [outcome |-> "refused"]
       ELSE [outcome |-> "built",
             value |-> [n \in 0..(total - 1) |-> [c \in Chars |->
                          IF n = 0 THEN 0 ELSE remap[dfa.delta[Of(n)][c]]]],
             accepting_states |-> {remap[q] : q \in dfa.accepting}]

buildRegexDfa(pattern) ==
    LET fragment == buildNfaFromAst(EmptyNfa, Parsed(pattern))
        dfa == subsetConstruction(Unanchored(fragment))
    IN IF ~Parses(pattern) \/ Cardinality(dfa.states) > MAX_REGEX_DFA_STATES
         THEN [outcome |-> "refused"]
       ELSE LET result == normalizeDfa(minimizeDfa(dfa)) IN
            IF result.outcome = "built" /\ result.accepting_states = {}
              THEN [outcome |-> "refused"] ELSE result

-----------------------------------------------------------------------------
\* The KMP automaton: state s has read the first s characters of the string.
\* failure[i] is the length of the longest proper prefix of the string that
\* ends at i.
RECURSIVE Extend(_, _, _, _)
Extend(pattern, failure, k, c) ==
    IF pattern[k + 1] = c THEN k + 1
    ELSE IF k = 0 THEN 0 ELSE Extend(pattern, failure, failure[k], c)

failureOf(pattern) ==
    FoldLeft(LAMBDA f, c : Append(f, Extend(pattern, f, Last(f), c)), <<0>>, Tail(pattern))

\* Mutant: a mismatch starts again from nothing.
RestartKmpDfa(pattern) ==
    [outcome |-> "built", accepting_states |-> {Len(pattern)},
     value |-> [s \in 0..Len(pattern) |-> [c \in Chars |->
        IF s < Len(pattern) /\ pattern[s + 1] = c THEN s + 1 ELSE 0]]]

buildKmpDfa(pattern) ==
    LET n == Len(pattern)
        failure == IF pattern = <<>> THEN <<>> ELSE failureOf(pattern)
        row[s \in 0..n] ==
            [c \in Chars |-> IF s < n /\ pattern[s + 1] = c THEN s + 1
                             ELSE IF s = 0 THEN 0 ELSE row[failure[s]][c]]
    IN [outcome |-> "built", value |-> [s \in 0..n |-> row[s]], accepting_states |-> {n}]
=============================================================================
