--------------------------- MODULE MCDashCommand ---------------------------
(***************************************************************************)
(* Parse trees for DashCommand, and the text that a tree stands for.       *)
(***************************************************************************)
EXTENDS DashCommand, FiniteSets

-----------------------------------------------------------------------------
\* Nodes, as dash's parser builds them.

Cmd(args, redirect) == [type |-> "NCMD", args |-> args, redirect |-> redirect]
Wrap(type, n, redirect) == [type |-> type, n |-> n, redirect |-> redirect]
Not(n) == [type |-> "NNOT", com |-> n]
Pipe(list, backgnd) == [type |-> "NPIPE", cmdlist |-> list, backgnd |-> backgnd]
Bin(type, n1, n2) == [type |-> type, ch1 |-> n1, ch2 |-> n2]
ToFile == <<[type |-> "NTO", fname |-> <<"f">>]>>
ToFd == <<[type |-> "NTOFD", fname |-> <<"1">>]>>

\* Simple commands: plain, quoted with an argument, ending in an escaped '&',
\* with more arguments than are printed, and with a redirection.
a == Cmd(<<<<"a">>>>, <<>>)
b == Cmd(<<<<"b">>, <<"QUOTEMARK", "x", "QUOTEMARK">>>>, <<>>)
c == Cmd(<<<<"c">>, <<"ESC", "ESC">>, <<"EXPANSION", "y">>>>, <<>>)
amp == Cmd(<<<<"e">>, <<"ESC", "&">>>>, <<>>)
long == Cmd(<<<<"l">>, <<"1">>, <<"2">>, <<"3">>>>, <<>>)
file == Cmd(<<<<"g">>>>, ToFile)
dup == Cmd(<<<<"d">>>>, ToFd)
assign == Cmd(<<>>, <<>>)

\* Commands of which every part is printed.
Plain ==
  { a, c, file,
    Wrap("NBACKGND", b, <<>>),
    Wrap("NSUBSHELL", a, <<>>),
    Wrap("NSUBSHELL", Wrap("NSUBSHELL", b, <<>>), <<>>),
    Wrap("NBACKGND", Wrap("NSUBSHELL", Bin("NOR", a, b), <<>>), <<>>),
    Wrap("NSUBSHELL", Bin("NAND", file, c), <<>>),
    Not(b), Not(Wrap("NSUBSHELL", Bin("NSEMI", Wrap("NBACKGND", a, <<>>), b), <<>>)),
    Not(Pipe(<<a, b>>, FALSE)),
    Pipe(<<a, Wrap("NSUBSHELL", c, <<>>), file>>, FALSE) }

\* Commands of which some part is not, or in another place.
Partial ==
  { amp, long, dup, assign,
    Wrap("NSUBSHELL", a, ToFile), Wrap("NSUBSHELL", Bin("NSEMI", a, b), ToFile),
    Wrap("NREDIR", Bin("NSEMI", a, b), ToFile),
    Wrap("NREDIR", Pipe(<<a, b>>, FALSE), ToFile),
    Wrap("NSUBSHELL", Not(a), <<>>),
    Wrap("NSUBSHELL", Bin("NSEMI", a, Bin("NSEMI", b, c)), <<>>),
    Wrap("NSUBSHELL", Bin("NSEMI", Bin("NSEMI", a, b), c), <<>>),
    Wrap("NSUBSHELL", Bin("NAND", a, Not(b)), <<>>),
    Wrap("NSUBSHELL", Bin("NAND", Wrap("NSUBSHELL", a, <<>>), Pipe(<<a, b>>, FALSE)), <<>>),
    Wrap("NSUBSHELL", Pipe(<<a, b>>, FALSE), <<>>),
    Wrap("NBACKGND", Bin("NAND", a, b), <<>>),
    Pipe(<<a, b>>, TRUE), Pipe(<<a, b, a, c>>, FALSE),
    Pipe(<<Wrap("NSUBSHELL", Bin("NSEMI", a, b), <<>>), c>>, FALSE),
    [type |-> "NIF"] }

\* All trees of binary operators over given leaves, from left to right.
RECURSIVE Shapes(_)
Shapes(leaves) ==
  IF Len(leaves) = 1 THEN {leaves[1]}
  ELSE UNION { { Bin(op, t, u) : op \in Binary, t \in Shapes(SubSeq(leaves, 1, k)),
                                 u \in Shapes(SubSeq(leaves, k + 1, Len(leaves))) } :
               k \in 1 .. Len(leaves) - 1 }

\* The leaves of long lists: alternating plain commands.
Alternating(n) == [i \in 1 .. n |-> IF i % 2 = 0 THEN b ELSE a]

MCTrees ==
  LET leaves == Plain \cup Partial IN
  UNION { UNION { Shapes(<<x, y>>) : x, y \in leaves },
          UNION { Shapes(<<x, y, z>>) : x, z \in {a, amp}, y \in leaves },
          UNION { Shapes(Alternating(n)) : n \in 1 .. MAX_CHAIN_CMDS },
          { t \in Shapes(Alternating(MAX_CHAIN_CMDS + 1)) :
              t.ch2.type = "NCMD" \/ t.ch1.type = "NCMD" },
          leaves }

-----------------------------------------------------------------------------
\* What a tree stands for.

RECURSIVE Render(_)
RECURSIVE Stages(_)

Words(args) == FlattenSeq(args)
Files(redirect) ==
  FlattenSeq([i \in DOMAIN redirect |-> <<IF redirect[i].type = "NTO" THEN ">" ELSE ">&">> \o redirect[i].fname])

Stages(list) ==
  IF Len(list) = 1 THEN Render(list[1]) ELSE Render(list[1]) \o <<"|">> \o Stages(Tail(list))

\* An operand of '&&' or '||' that is itself a list was typed in braces.
Operand(op, n, lists) ==
  IF op # "NSEMI" /\ n.type \in lists THEN <<"{">> \o Render(n) \o <<"}">> ELSE Render(n)

Operator(type) == CASE type = "NSEMI" -> ";" [] type = "NAND" -> "&&" [] type = "NOR" -> "||"

\* A list that ends in the background needs no ';'.
RECURSIVE InBackground(_)
InBackground(n) ==
  IF n.type \in Binary THEN InBackground(n.ch2)
  ELSE n.type = "NBACKGND" \/ (n.type = "NPIPE" /\ n.backgnd)

Render(n) ==
  CASE n.type = "NCMD" -> (IF n.args = <<>> THEN <<"v=">> ELSE Words(n.args)) \o Files(n.redirect)
    [] n.type \in Binary ->
         Operand(n.type, n.ch1, {"NSEMI"})
           \o (IF n.type = "NSEMI" /\ InBackground(n.ch1) THEN <<>> ELSE <<Operator(n.type)>>)
           \o Operand(n.type, n.ch2, Binary)
    [] n.type = "NNOT" -> <<"!">> \o Render(n.com)
    [] n.type = "NSUBSHELL" -> <<"(">> \o Render(n.n) \o <<")">> \o Files(n.redirect)
    [] n.type = "NREDIR" -> Render(n.n) \o Files(n.redirect)
    [] n.type = "NBACKGND" -> Render(n.n) \o Files(n.redirect) \o <<"&">>
    [] n.type = "NPIPE" -> Stages(n.cmdlist) \o (IF n.backgnd THEN <<"&">> ELSE <<>>)
    [] OTHER -> <<"if">>

\* A text without dash's control characters.
RECURSIVE Cleaned(_)
Cleaned(s) ==
  IF s = <<>> THEN <<>>
  ELSE CASE Head(s) = "QUOTEMARK" -> <<"'">> \o Cleaned(Tail(s))
         [] Head(s) = "ESC" /\ Len(s) > 1 -> <<s[2]>> \o Cleaned(SubSeq(s, 3, Len(s)))
         [] Head(s) \in {"ESC", "EXPANSION"} -> Cleaned(Tail(s))
         [] OTHER -> <<Head(s)>> \o Cleaned(Tail(s))

\* The leaves of the list that a tree is.
RECURSIVE Leaves(_)
Leaves(n) == IF n.type \in Binary THEN Leaves(n.ch1) \o Leaves(n.ch2) ELSE <<n>>

-----------------------------------------------------------------------------
\* Properties.

\* s is t without some of its elements.
RECURSIVE IsSelection(_, _)
IsSelection(s, t) ==
  \/ s = <<>>
  \/ t # <<>> /\ IF Head(s) = Head(t) THEN IsSelection(Tail(s), Tail(t)) ELSE IsSelection(s, Tail(t))

Names == {"a", "b", "c", "d", "e", "g", "l"}
NamesIn(s) == SelectSeq(s, LAMBDA x : x \in Names)

Unbraced(s) == SelectSeq(s, LAMBDA x : x \notin {"{", "}"})

\* A list of at most MAX_CHAIN_CMDS printable commands is recorded exactly, but
\* for braces, in whatever way its operators nest, up to the capacity of the
\* text: the stack and the bound of the loop suffice for every shape of tree.
PlainIsExact ==
  phase = "done" /\ Len(Leaves(tree)) <= MAX_CHAIN_CMDS
    /\ (\A i \in DOMAIN Leaves(tree) : Leaves(tree)[i] \in Plain) =>
      cmd = Cleaned(First(Unbraced(Render(tree)), CMD_MAX - 1))

\* Whatever the tree, and however much of it does not fit, the commands that
\* are recorded are commands of the tree in the order in which they were typed.
NothingIsInvented ==
  phase = "done" => IsSelection(NamesIn(cmd), NamesIn(Render(tree)))

\* The logic of the command is visible: every command, operator and
\* redirection is in the text.
LogicIsVisible ==
  LET text == Cleaned(Render(tree))
  IN  phase = "done" /\ Len(Leaves(tree)) <= MAX_CHAIN_CMDS /\ Len(Render(tree)) < CMD_MAX =>
        \A x \in Range(text) :
          Cardinality({i \in DOMAIN text : text[i] = x}) = Cardinality({i \in DOMAIN cmd : cmd[i] = x})
=============================================================================
