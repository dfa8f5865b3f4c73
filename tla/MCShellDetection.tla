-------------------------- MODULE MCShellDetection --------------------------
(***************************************************************************)
(* A shell that /etc/shells lists by one of two paths, one that is not     *)
(* listed, and a file for an upgrade.                                      *)
(***************************************************************************)
EXTENDS ShellDetection

CONSTANTS f1, f2, f3

MCStart0 == [bash |-> f1, rbash |-> f1, zsh |-> f2]
=============================================================================
