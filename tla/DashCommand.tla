---------------------------- MODULE DashCommand ----------------------------
(***************************************************************************)
(* How exitList turns the parse tree that dash's list() returns into the   *)
(* text of the command: a walk over the binary operators with a stack of   *)
(* its own, a second walk inside a subshell, and the removal of dash's     *)
(* control characters, in place.                                           *)
(*                                                                         *)
(* The text is a sequence of symbols: a word, an operator, or one of the   *)
(* control characters, which occur inside words.  Blanks are left out.     *)
(***************************************************************************)
EXTENDS Naturals, Sequences, SequencesExt

CONSTANTS
  Trees,              \* parse trees that list() may return
  Capacities,         \* values of CMD_MAX
  MAX_CHAIN_CMDS,     \* entries of the stack of the walk
  MAX_SUBSHELL_CMDS,  \* entries of the stack of the walk in a subshell
  MaxLayers,          \* wrappers that unwrapToCommand takes off
  MaxStages,          \* stages of a pipeline that are printed
  MaxArgs,            \* arguments of a command that are printed
  MaxRedirects        \* redirections of a list that are printed

ASSUME BoundAssumption ==
  /\ {MAX_CHAIN_CMDS, MAX_SUBSHELL_CMDS, MaxLayers, MaxStages} \subseteq Nat \ {0}
  /\ {MaxArgs, MaxRedirects} \subseteq Nat
  /\ Capacities \subseteq Nat \ {0}

VARIABLES
  tree,     \* the tree
  CMD_MAX,  \* the capacity of the text
  phase,    \* "walk", "subshell", "sanitize" or "done"
  stack,    \* node_addrs and separators of walk_state
  iter,     \* iterations of the walk
  sub,      \* node_addrs and separators of subshell_state
  subIter,  \* iterations of the walk in the subshell
  closing,  \* what processSingleNode appends when the subshell is printed
  cmd,      \* the text
  r, w      \* the positions at which sanitizeDashText reads and writes

vars == <<tree, CMD_MAX, phase, stack, iter, sub, subIter, closing, cmd, r, w>>

Binary == {"NSEMI", "NAND", "NOR"}
Wrapper == {"NREDIR", "NBACKGND", "NSUBSHELL"}

\* At most n elements of a list.
First(s, n) == SubSeq(s, 1, IF Len(s) < n THEN Len(s) ELSE n)

-----------------------------------------------------------------------------
\* Appending.  Only the length of the text limits what is appended, so that
\* pieces may be put together first.

appendStr(out, str) == First(out \o str, CMD_MAX - 1)

Symbol == [NSEMI |-> ";", NAND |-> "&&", NOR |-> "||"]

\* Mutant: a ';' is printed whatever precedes it.
AlwaysSeparator(out, type) ==
  IF type = "none" THEN out ELSE appendStr(out, <<Symbol[type]>>)

\* No ';' follows an '&', be it the end of a background command or of an "&&"
\* whose right side printed nothing.  The words of the model do not end in one.
appendSeparator(out, type) ==
  IF type = "none" \/ (type = "NSEMI" /\ out # <<>> /\ Last(out) \in {"&", "&&"})
    THEN out ELSE appendStr(out, <<Symbol[type]>>)

\* A redirection to a file is its symbol and the file's name; duplicated file
\* descriptors and here-documents are not printed.
printRedirects(redir) ==
  FlattenSeq([i \in DOMAIN First(redir, MaxRedirects) |->
                IF redir[i].type = "NTO" THEN <<">">> \o redir[i].fname ELSE <<>>])

\* The name, at most MaxArgs arguments, the redirections of the command and
\* those of the wrapper around it.  Assignments are not printed, and a command
\* that is nothing else is not printed at all.
printNcmdWithRedir(n, extra) ==
  IF n.args = <<>> THEN <<>>
  ELSE FlattenSeq(First(n.args, MaxArgs + 1)) \o printRedirects(n.redirect) \o printRedirects(extra)

Parens(depth, p) == [i \in 1 .. (IF depth < 8 THEN depth ELSE 8) |-> p]

-----------------------------------------------------------------------------
\* unwrapToCommand: the wrappers around a command, at most MaxLayers of them,
\* and the node within.
RECURSIVE Layers(_, _)
Layers(n, max) ==
  CASE max > 0 /\ n.type = "NNOT"      -> <<n>> \o Layers(n.com, max - 1)
    [] max > 0 /\ n.type \in Wrapper -> <<n>> \o Layers(n.n, max - 1)
    [] OTHER -> <<n>>

Count(s, type) == Len(SelectSeq(s, LAMBDA n : n.type = type))

\* '!' is printed at once; of subshells, backgrounds and redirections it is
\* remembered how many, whether any, and the innermost.
unwrapToCommand(n) ==
  LET path   == Layers(n, MaxLayers)
      peeled == Front(path)
      nested == SelectSeq(peeled, LAMBDA x : x.type \in Wrapper)
  IN  [node |-> Last(path),
       text |-> [i \in 1 .. Count(peeled, "NNOT") |-> "!"],
       redir |-> IF nested = <<>> THEN <<>> ELSE Last(nested).redirect,
       depth |-> Count(peeled, "NSUBSHELL"),
       background |-> Count(peeled, "NBACKGND") > 0]

processPipeStage(n) ==
  LET u == unwrapToCommand(n) IN
  IF u.node.type # "NCMD" THEN u.text
  ELSE u.text \o Parens(u.depth, "(") \o printNcmdWithRedir(u.node, u.redir) \o Parens(u.depth, ")")

\* The stages of a pipeline with '|' between them, then its redirections.
printPipe(list, redir) ==
  FlattenSeq([i \in DOMAIN First(list, MaxStages) |->
                (IF i > 1 THEN <<"|">> ELSE <<>>) \o processPipeStage(list[i])])
    \o printRedirects(redir)

\* What processSingleNode prints last.
Closing(u) == Parens(u.depth, ")") \o (IF u.background THEN <<"&">> ELSE <<>>)

\* What it prints in between; a list in a subshell is left to SubshellIteration.
Body(u) ==
  CASE u.node.type = "NCMD"  -> printNcmdWithRedir(u.node, u.redir)
    [] u.node.type = "NPIPE" -> printPipe(u.node.cmdlist, u.redir)
    [] OTHER -> <<>>

processSingleNode(n, out) ==
  LET u == unwrapToCommand(n)
      opening == u.text \o Parens(u.depth, "(")
  IN  IF u.depth > 0 /\ u.node.type \in Binary
        THEN /\ cmd' = appendStr(out, opening)
             /\ phase' = "subshell" /\ closing' = Closing(u)
             /\ sub' = <<[node |-> u.node, sep |-> "none"]>> /\ subIter' = 0
        ELSE /\ cmd' = appendStr(out, opening \o Body(u) \o Closing(u))
             /\ UNCHANGED <<phase, sub, subIter, closing>>

-----------------------------------------------------------------------------
\* The walks.

Push(s, n, sep, max) == IF Len(s) < max THEN Append(s, [node |-> n, sep |-> sep]) ELSE s

\* Mutant: the right operand is printed first.
RightFirst(s, max) ==
  LET e == Last(s)
  IN  Push(Push(Front(s), e.node.ch1, e.sep, max), e.node.ch2, e.node.type, max)

\* A binary operator is replaced by its operands, the left one on top.
Expand(s, max) ==
  LET e == Last(s)
  IN  Push(Push(Front(s), e.node.ch2, e.node.type, max), e.node.ch1, e.sep, max)

\* processDfsIteration
DfsIteration ==
  /\ phase = "walk" /\ stack # <<>> /\ iter < 2 * MAX_CHAIN_CMDS
  /\ iter' = iter + 1
  /\ IF Last(stack).node.type \in Binary
       THEN /\ stack' = Expand(stack, MAX_CHAIN_CMDS)
            /\ UNCHANGED <<phase, sub, subIter, closing, cmd>>
       ELSE /\ stack' = Front(stack)
            /\ processSingleNode(Last(stack).node, appendSeparator(cmd, Last(stack).sep))
  /\ UNCHANGED <<tree, CMD_MAX, r, w>>

\* A leaf of a list in a subshell: one layer of redirection or background.
SubshellLeaf(n) ==
  CASE n.type = "NCMD" -> printNcmdWithRedir(n, <<>>)
    [] n.type \in {"NREDIR", "NBACKGND"} ->
         (IF n.n.type = "NCMD" THEN printNcmdWithRedir(n.n, n.redirect) ELSE <<>>)
           \o (IF n.type = "NBACKGND" THEN <<"&">> ELSE <<>>)
    [] OTHER -> <<>>

\* An iteration of processSubshellBinary.
SubshellIteration ==
  /\ phase = "subshell" /\ sub # <<>> /\ subIter < 2 * MAX_SUBSHELL_CMDS
  /\ subIter' = subIter + 1
  /\ IF Last(sub).node.type \in Binary
       THEN sub' = Expand(sub, MAX_SUBSHELL_CMDS) /\ UNCHANGED cmd
       ELSE /\ sub' = Front(sub)
            /\ cmd' = appendStr(appendSeparator(cmd, Last(sub).sep), SubshellLeaf(Last(sub).node))
  /\ UNCHANGED <<tree, CMD_MAX, phase, stack, iter, closing, r, w>>

\* The end of processSubshellBinary, and of the processSingleNode that called it.
SubshellEnds ==
  /\ phase = "subshell" /\ (sub = <<>> \/ subIter = 2 * MAX_SUBSHELL_CMDS)
  /\ cmd' = appendStr(cmd, closing)
  /\ phase' = "walk" /\ sub' = <<>> /\ closing' = <<>>
  /\ UNCHANGED <<tree, CMD_MAX, stack, iter, subIter, r, w>>

\* The end of exitList: without a text there is no tail call.
WalkEnds ==
  /\ phase = "walk" /\ (stack = <<>> \/ iter = 2 * MAX_CHAIN_CMDS)
  /\ phase' = IF cmd # <<>> THEN "sanitize" ELSE "done"
  /\ UNCHANGED <<tree, CMD_MAX, stack, iter, sub, subIter, closing, cmd, r, w>>

-----------------------------------------------------------------------------
\* sanitizeDashText

Control == {"EXPANSION"}  \* 0x82 to 0x87

\* What sanitizeOneChar does with the character c at r: a quote mark becomes a
\* quote, an escape goes and the next character stays as it is, the marks of an
\* expansion go, and everything else moves to w.
sanitizeOneChar(c) ==
  CASE c = "QUOTEMARK" -> [buf |-> [cmd EXCEPT ![w] = "'"], r |-> r + 1, w |-> w + 1]
    [] c = "ESC" /\ r < Len(cmd) ->
         [buf |-> [cmd EXCEPT ![w] = cmd[r + 1]], r |-> r + 2, w |-> w + 1]
    [] c \in Control \/ c = "ESC" -> [buf |-> cmd, r |-> r + 1, w |-> w]
    [] OTHER -> [buf |-> [cmd EXCEPT ![w] = c], r |-> r + 1, w |-> w + 1]

SanitizeStep ==
  /\ phase = "sanitize" /\ r <= Len(cmd)
  /\ LET next == sanitizeOneChar(cmd[r])
     IN  cmd' = next.buf /\ r' = next.r /\ w' = next.w
  /\ UNCHANGED <<tree, CMD_MAX, phase, stack, iter, sub, subIter, closing>>

\* The text ends where the last character was written.
sanitizeNullTerminate ==
  /\ phase = "sanitize" /\ r > Len(cmd)
  /\ cmd' = SubSeq(cmd, 1, w - 1)
  /\ phase' = "done"
  /\ UNCHANGED <<tree, CMD_MAX, stack, iter, sub, subIter, closing, r, w>>

-----------------------------------------------------------------------------
\* exitList up to its loop.
Init ==
  /\ tree \in Trees /\ CMD_MAX \in Capacities
  /\ phase = "walk" /\ stack = <<[node |-> tree, sep |-> "none"]>> /\ iter = 0
  /\ sub = <<>> /\ subIter = 0 /\ closing = <<>>
  /\ cmd = <<>> /\ r = 1 /\ w = 1

\* The program has ended.
Ended == phase = "done" /\ UNCHANGED vars

Next ==
  \/ DfsIteration \/ SubshellIteration \/ SubshellEnds \/ WalkEnds
  \/ SanitizeStep \/ sanitizeNullTerminate \/ Ended

Spec == Init /\ [][Next]_vars
=============================================================================
