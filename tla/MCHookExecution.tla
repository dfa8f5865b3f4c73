-------------------------- MODULE MCHookExecution ---------------------------
(* Small instances of HookExecution. *)
EXTENDS HookExecution, TLC

CONSTANT Chosen   \* the actions that the loaded rules take

\* One rule for a context of the file hooks and another action for connection
\* requests: where the two agree, a mixed-up event makes no difference.
MCRules == {[x \in Contexts |-> CASE x = ctx -> act[1] [] x = Conn -> act[2] [] OTHER -> "ALLOW_EVENT"] :
              ctx \in Contexts \ {Conn},
              act \in {pair \in Chosen \X (Chosen \ {"EXCLUDE_EVENT"}) : pair[1] # pair[2]}}

Symmetry == Permutations(Cpus) \union Permutations(Procs) \union Permutations(Images) \union Permutations(Modes)
=============================================================================
