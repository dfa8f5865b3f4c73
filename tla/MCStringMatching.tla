-------------------------- MODULE MCStringMatching --------------------------
(* Predicates for StringMatching, and what each of them means. *)
EXTENDS StringMatching

CONSTANT Family

\* Patterns: every pattern of one operator over the classes, and the ones of
\* two operators whose inner part is not a leaf.
Leaves == {Class({"a"}), Class({"b"}), Class({"a", "b"})}
Unary(S) == {makeUnary(t, x) : t \in {"STAR", "PLUS", "OPTIONAL"}, x \in S}
Repeated(S) == {Repeat(x, r[1], r[2]) : x \in S, r \in {<<2, 2>>, <<1, 2>>, <<0, 1>>, <<2, Unbounded>>}}
Binary(S, T) == {makeBinary(t, x, y) : t \in {"CONCAT", "ALTERNATION"}, x \in S, y \in T}
Inner == Unary(Leaves) \union Repeated(Leaves) \union Binary(Leaves, Leaves)
Outer == Leaves \union Inner \union Unary(Inner) \union Repeated(Inner)
         \union Binary(Inner, Leaves) \union Binary(Leaves, Inner)

\* A character before and after a repetition tells how often it repeats.
Framed == {makeBinary("CONCAT", makeBinary("CONCAT", Class({"b"}), Repeat(Class({"a"}), n, k)), Class({"b"})) :
              n \in 0..2, k \in {Unbounded, 1, 2}}

Needles == UNION {[1..n -> Chars] : n \in 0..MaxNeedle}
Literal(op) == {[operation |-> op, needle |-> n, pattern |-> Class({}), fieldref |-> FALSE] : n \in Needles}
Reference == {[operation |-> op, needle |-> <<>>, pattern |-> Class({}), fieldref |-> TRUE] :
                 op \in {"EXACT_MATCH", "STARTS_WITH", "ENDS_WITH"}}
Regex(S) == {[operation |-> "REGEX", needle |-> <<>>, pattern |-> p, fieldref |-> FALSE] : p \in S}

\* A repetition that the parser refuses, and two patterns without a word.
Odd == {Repeat(Class({"a"}), 0, 0), Class({}), makeBinary("CONCAT", Class({"a"}), Class({}))}

\* "all": every operation; "nullable": one pattern that matches the empty string.
MCPredicates ==
    CASE Family = "all" -> UNION {Literal(op) : op \in Operations \ {"REGEX"}}
                           \union Reference \union Regex(Outer \union Odd)
                           \union Regex({p \in Framed : p.children[1].children[2].max # Unbounded =>
                                           p.children[1].children[2].min <= p.children[1].children[2].max})
      [] Family = "nullable" -> Regex({makeUnary("STAR", Class({"a"}))})

-----------------------------------------------------------------------------
\* The language of a pattern, repetitions as they are written.
RECURSIVE Matches(_, _)
RECURSIVE Times(_, _, _)

Prefix(s, k) == SubSeq(s, 1, k)
Suffix(s, k) == SubSeq(s, k + 1, Len(s))

\* s is a concatenation of exactly n words of p.
Times(p, s, n) ==
    IF n = 0 THEN s = <<>>
    ELSE \E k \in 0..Len(s) : Matches(p, Prefix(s, k)) /\ Times(p, Suffix(s, k), n - 1)

\* More words than the length of s add only empty ones.
Between(p, s, n, k) == \E j \in n..k : Times(p, s, j)
Enough(s, n) == n + Len(s)

Matches(p, s) ==
    CASE p.type = "CHAR_CLASS" -> Len(s) = 1 /\ s[1] \in p.char_set
      [] p.type = "CONCAT" -> \E k \in 0..Len(s) : /\ Matches(p.children[1], Prefix(s, k))
                                                   /\ Matches(p.children[2], Suffix(s, k))
      [] p.type = "ALTERNATION" -> \E j \in 1..2 : Matches(p.children[j], s)
      [] p.type = "STAR" -> Between(p.children[1], s, 0, Enough(s, 0))
      [] p.type = "PLUS" -> Between(p.children[1], s, 1, Enough(s, 1))
      [] p.type = "OPTIONAL" -> Between(p.children[1], s, 0, 1)
      [] p.type = "REPEAT" -> Between(p.children[1], s, p.min,
                                      IF p.max = Unbounded THEN Enough(s, p.min) ELSE p.max)

Occurs(p, h) == \E j \in 1..(Len(h) + 1), k \in 0..Len(h) : Matches(p, SubSeq(h, j, k))

\* A regular expression that owLSM loaded answers TRUE for exactly the event
\* strings in which some part is a word of the expression, whatever the
\* expansion, the two automata, the minimization and the numbering did to it,
\* and however the walk in the kernel went.  Nothing is said of an expression
\* that matches the empty string on an empty event string: see
\* NullableMatchesAnything.
RegexIsExact ==
    /\ pc = "done" /\ pred.operation = "REGEX"
    /\ haystack # <<>> \/ ~Matches(pred.pattern, <<>>)
    => result = Occurs(pred.pattern, haystack)

\* The string operations answer by what their names say, for the string of
\* the rule and for the field it refers to.  The empty string is a case of
\* its own: it equals the empty event string, and nothing contains it, starts
\* or ends with it.
StringIsExact ==
    pc = "done" /\ pred.operation # "REGEX" =>
        LET n == needle
            places == {j \in 0..(Len(haystack) - Len(n)) : SubSeq(haystack, j + 1, j + Len(n)) = n}
        IN result = CASE pred.operation = "EXACT_MATCH" -> haystack = n
                      [] pred.operation = "CONTAINS" -> n # <<>> /\ places # {}
                      [] pred.operation = "STARTS_WITH" -> n # <<>> /\ 0 \in places
                      [] pred.operation = "ENDS_WITH" -> n # <<>> /\ Len(haystack) - Len(n) \in places

\* The tests of the builder say of a*: "matches empty string -> with
\* unanchored, matches any input", the empty one included; their own matcher
\* asks the start state, regex_dfa_search does not, so this fails for the
\* empty event string.
NullableMatchesAnything ==
    pc = "done" /\ pred.operation = "REGEX" => (Matches(pred.pattern, <<>>) => result)
=============================================================================
