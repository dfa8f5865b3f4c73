--------------------------- MODULE ShellCommands ---------------------------
(***************************************************************************)
(* The command that is recorded for an interactive shell: how the uprobes  *)
(* in bash, zsh and dash put it into the process cache and take it out     *)
(* again, and what fork, exec, exit, a reused pid and look-ups by other    *)
(* processes do to it.                                                     *)
(*                                                                         *)
(* A line that a shell reads is a number; lines remembers who read it and  *)
(* how.  The text of a line is the subject of module DashCommand.          *)
(***************************************************************************)
EXTENDS Naturals, Sequences, FiniteSets

CONSTANTS
  Pids,     \* process ids, from 1
  Envs,     \* behaviours of the environment, one of which holds in a run
  MaxExecs, \* bound: programs executed
  MaxUids,  \* bound: processes that ever exist
  MaxLines  \* bound: lines that are ever read

Shells == {"bash", "zsh", "dash"}

EnvChoices ==
  { "continued",     \* a command of two lines, the second at a further prompt
    "sourced",       \* a command that has the shell parse a file
    "notify",        \* zsh's line editor is entered while a command runs
    "exec",          \* an interactive shell executes another program
    "reuse",         \* a pid is used again
    "ringbuf_full",  \* a reservation in the ring buffer may fail
    "crowded",       \* active_shell_pids has no room for a further pid
    "preempt",       \* the uprobes of several processes interleave on a CPU
    "preexist" }     \* the shells are older than owLSM

ASSUME EnvAssumption == \A e \in Envs : e \subseteq EnvChoices

ASSUME BoundAssumption ==
  /\ MaxLines \in Nat /\ MaxExecs \in Nat /\ MaxUids \in Nat
  /\ IsFiniteSet(Pids) /\ Pids = 1 .. Cardinality(Pids) /\ Cardinality(Pids) <= MaxUids

VARIABLES
  env,        \* the behaviour of the environment
  task,       \* the process behind each pid
  alive,      \* alive_process_cache_map: unique id and command, by pid
  dead,       \* dead_process_cache_lru_map: the command, by unique id
  active,     \* active_shell_pids: the bits set for a pid, none for no entry
  exec_pids,  \* processes that executed a program and have not opened a file
  execs,      \* programs executed so far
  walk,       \* the line in walk_state of the CPU
  uids,       \* unique ids given so far
  lines       \* ghost: who read each line, and whether it was typed

vars == <<env, task, alive, dead, active, exec_pids, execs, walk, uids, lines>>

Uids == 1 .. MaxUids
NoEntry == [uid |-> 0, cmd |-> 0]

\* kind: a process is an interactive shell, a shell that runs a script, the
\* child that a shell forked, or another program.
\* pc: it runs a command, parses one, waits at the first or at a further prompt,
\* or is between two steps of exitList, of exit_hook or of a look-up.
\* ppid, puid: its parent.  ev: the unique id in its EXIT event.
NoTask == [uid |-> 0, prog |-> "bash", kind |-> "other", pc |-> "gone",
           typed |-> 0, ppid |-> 0, puid |-> 0, ev |-> 0]

Lives(p) == task[p].pc # "gone"

\* A program that was just executed opens a file, and so runs exec_hook, before
\* it gets anywhere; only a reservation that fails makes exec_hook come late.
Started(p) ==
  p \notin exec_pids \/ task[p].kind = "child" \/ "ringbuf_full" \in env

At(p, prog, pc) ==
  /\ task[p].prog = prog /\ task[p].kind # "other" /\ task[p].pc = pc
  /\ Started(p)

\* A shell that parses what nobody typed.
Parses(p) == task[p].kind = "script" \/ "sourced" \in env

\* The user, or a file, provides a line (external).
NewLine(p, typed) ==
  /\ Len(lines) < MaxLines
  /\ lines' = Append(lines, [uid |-> task[p].uid, typed |-> typed])

-----------------------------------------------------------------------------
\* process_cache.bpf.h and fill_event_structs.bpf.h

\* Mutant: the command stays.
KeepCommand(p) == alive

\* delete_shell_command_from_alive_process
Cleared(p) == [alive EXCEPT ![p].cmd = 0]

\* fill_event_process_from_cache, then update_shell_command_in_process.
Recorded(p, n) ==
  [alive EXCEPT ![p] = [uid |-> IF @.uid = 0 THEN task[p].uid ELSE @.uid, cmd |-> n]]

\* A process is cached unless it is already.
CachedOnce(p, uid) ==
  IF alive[p].uid # 0 THEN alive ELSE [alive EXCEPT ![p] = [uid |-> uid, cmd |-> 0]]

\* update_process_in_alive_process_cache with a process_t that was just filled.
CachedAnew(p, uid) == [alive EXCEPT ![p] = [uid |-> uid, cmd |-> 0]]

\* bpf_map_update_elem on active_shell_pids, which fails when it is full.
Marked(p, bits) ==
  IF active[p] # {} \/ "crowded" \notin env THEN [active EXCEPT ![p] = bits] ELSE active

-----------------------------------------------------------------------------
\* bash

\* The prompt that a shell shows next: a further one after half a command.
NextPrompt(p) == IF task[p].pc \in {"run2", "parse2"} THEN "prompt2" ELSE "prompt"

enter_readline(p) ==
  /\ At(p, "bash", "run") \/ At(p, "bash", "run2")
  /\ task[p].kind = "interactive"
  /\ task' = [task EXCEPT ![p].pc = NextPrompt(p)]
  /\ alive' = Cleared(p)
  /\ UNCHANGED <<env, dead, active, exec_pids, execs, walk, uids, lines>>

\* A line was read: the shell runs it, or asks for its continuation.
LineRead(p, more) ==
  \E pc \in {"run"} \cup (IF "continued" \in env /\ task[p].pc = "prompt" THEN {more} ELSE {}) :
    task' = [task EXCEPT ![p].pc = pc, ![p].typed = Len(lines')]

exit_readline(p) ==
  /\ At(p, "bash", "prompt") \/ At(p, "bash", "prompt2")
  /\ NewLine(p, TRUE)
  /\ LineRead(p, "run2")
  /\ alive' = Recorded(p, Len(lines'))
  /\ UNCHANGED <<env, dead, active, exec_pids, execs, walk, uids>>

\* readline, zleentry or list returns NULL: at the end of the input, or for an
\* empty command.
NothingRead(p) ==
  /\ task[p].pc \in {"prompt", "prompt2"}
  /\ task' = [task EXCEPT ![p].pc = "run", ![p].typed = 0]
  /\ UNCHANGED <<env, alive, dead, active, exec_pids, execs, walk, uids, lines>>

-----------------------------------------------------------------------------
\* zsh

HOOK_ZLEENTRY_ENTERED == 1
HOOK_PARSE_EVENT_ENTERED == 2

\* Mutant: the bits are not reset, so that one hook is enough the next time.
KeepBits(p, bit) ==
  /\ active' = Marked(p, active[p] \cup {bit})
  /\ alive' = IF Cardinality(active[p] \cup {bit}) = 2 THEN Cleared(p) ELSE alive

check_and_clear_if_both_hooks_entered(p, bit) ==
  IF active[p] \cup {bit} = {HOOK_ZLEENTRY_ENTERED, HOOK_PARSE_EVENT_ENTERED}
    THEN alive' = Cleared(p) /\ active' = [active EXCEPT ![p] = {}]
    ELSE active' = Marked(p, active[p] \cup {bit}) /\ UNCHANGED alive

enter_parse_event(p) ==
  /\ At(p, "zsh", "run")
  /\ \/ task[p].kind = "interactive" /\ task' = [task EXCEPT ![p].pc = "parse"]
     \/ Parses(p) /\ UNCHANGED task
  /\ check_and_clear_if_both_hooks_entered(p, HOOK_PARSE_EVENT_ENTERED)
  /\ UNCHANGED <<env, dead, exec_pids, execs, walk, uids, lines>>

enter_zleentry(p) ==
  /\ \/ /\ At(p, "zsh", "parse") \/ At(p, "zsh", "parse2")
        /\ task' = [task EXCEPT ![p].pc = NextPrompt(p)]
     \/ /\ At(p, "zsh", "run") /\ task[p].kind = "interactive" /\ "notify" \in env
        /\ UNCHANGED task
  /\ check_and_clear_if_both_hooks_entered(p, HOOK_ZLEENTRY_ENTERED)
  /\ UNCHANGED <<env, dead, exec_pids, execs, walk, uids, lines>>

exit_zleentry(p) ==
  /\ At(p, "zsh", "prompt") \/ At(p, "zsh", "prompt2")
  /\ NewLine(p, TRUE)
  /\ LineRead(p, "parse2")
  /\ alive' = Recorded(p, Len(lines'))
  /\ UNCHANGED <<env, dead, active, exec_pids, execs, walk, uids>>

-----------------------------------------------------------------------------
\* dash

\* setprompt(1); setprompt(2), for a continued command, is ignored.
enterSetprompt(p) ==
  /\ At(p, "dash", "run") /\ task[p].kind = "interactive"
  /\ task' = [task EXCEPT ![p].pc = "prompt"]
  /\ active' = Marked(p, {1})
  /\ alive' = Cleared(p)
  /\ UNCHANGED <<env, dead, exec_pids, execs, walk, uids, lines>>

\* walk_state belongs to the CPU: without preemption nobody comes between.
CpuIsFree == "preempt" \in env \/ \A q \in Pids : task[q].pc # "list2"

\* Mutant: every shell is taken for an interactive one.
AnyShell(p) == TRUE

IsActive(p) == active[p] # {}

\* exitList: the tree of the line that was read goes into walk_state.
exitList(p) ==
  LET typed == task[p].pc = "prompt" IN
  /\ At(p, "dash", "prompt") \/ (At(p, "dash", "run") /\ Parses(p))
  /\ CpuIsFree
  /\ NewLine(p, typed)
  /\ task' = [task EXCEPT ![p].pc = IF IsActive(p) THEN "list2" ELSE "run",
                          ![p].typed = IF typed THEN Len(lines') ELSE task[p].typed]
  /\ walk' = IF IsActive(p) THEN Len(lines') ELSE walk
  /\ UNCHANGED <<env, alive, dead, active, exec_pids, execs, uids>>

exitList_2(p) ==
  /\ At(p, "dash", "list2")
  /\ task' = [task EXCEPT ![p].pc = "run"]
  /\ alive' = Recorded(p, walk)
  /\ UNCHANGED <<env, dead, active, exec_pids, execs, walk, uids, lines>>

-----------------------------------------------------------------------------
\* The life of processes.  Module ProcessTracking has it in full; here is what
\* concerns the command.

\* Reservations that succeed and, in some environments, ones that fail.
Reserves == {TRUE} \cup (IF "ringbuf_full" \in env THEN {FALSE} ELSE {})

\* Mutant: the child starts as a copy of its parent, command included.
InheritCommand(p, q, uid) == [alive EXCEPT ![q] = [uid |-> uid, cmd |-> alive[p].cmd]]

\* What fork_hook caches: the parent unless it is cached, and the child.
ForkCached(p, q, uid) ==
  [CachedAnew(q, uid) EXCEPT ![p] = CachedOnce(p, task[p].uid)[p]]

\* fork_hook
Fork(p, q) ==
  /\ task[p].pc = "run" /\ Started(p)
  /\ ~Lives(q) /\ (task[q].uid = 0 \/ "reuse" \in env) /\ uids < MaxUids
  /\ uids' = uids + 1
  /\ task' = [task EXCEPT ![q] = [uid |-> uids', prog |-> task[p].prog,
                kind |-> IF task[p].kind = "other" THEN "other" ELSE "child",
                pc |-> "run", typed |-> 0, ppid |-> p, puid |-> task[p].uid, ev |-> 0]]
  /\ \E ok \in Reserves : alive' = IF ok THEN ForkCached(p, q, uids') ELSE alive
  /\ UNCHANGED <<env, dead, active, exec_pids, execs, walk, lines>>

\* bprm_creds_for_exec and bprm_committed_creds
Exec(p, prog, kind) ==
  /\ task[p].pc = "run" /\ Started(p)
  /\ task[p].kind = "child" \/ ("exec" \in env /\ task[p].typed # 0)
  /\ task' = [task EXCEPT ![p].prog = prog, ![p].kind = kind, ![p].typed = 0]
  /\ alive' = CachedOnce(p, task[p].uid)
  /\ exec_pids' = exec_pids \cup {p}
  /\ execs < MaxExecs /\ execs' = execs + 1
  /\ UNCHANGED <<env, dead, active, walk, uids, lines>>

\* exec_hook, at the first open of a file for which the reservation succeeds.
exec_hook(p) ==
  /\ p \in exec_pids /\ alive[p].uid # 0
  /\ task[p].pc \notin {"gone", "exit1", "exit2", "list2"}
  /\ alive' = CachedAnew(p, task[p].uid)
  /\ exec_pids' = exec_pids \ {p}
  /\ UNCHANGED <<env, task, dead, active, execs, walk, uids, lines>>

\* exit_hook as far as add_process_to_dead_proccesses_lru; the process is
\* looked up, and cached, first.
exit_hook(p) ==
  /\ task[p].pc \in {"run", "prompt", "prompt2"}
  /\ \/ /\ alive' = CachedOnce(p, task[p].uid)
        /\ task' = [task EXCEPT ![p].pc = "exit1", ![p].ev = alive'[p].uid]
        /\ dead' = [dead EXCEPT ![alive'[p].uid] = alive[p].cmd]
     \/ /\ FALSE \in Reserves
        /\ task' = [task EXCEPT ![p].pc = "gone"]
        /\ UNCHANGED <<alive, dead>>
  /\ UNCHANGED <<env, active, exec_pids, execs, walk, uids, lines>>

\* Mutant: the command stays in the dead process.
KeepDead(p) ==
  /\ task[p].pc = "exit1"
  /\ task' = [task EXCEPT ![p].pc = "exit2"]
  /\ UNCHANGED <<env, alive, dead, active, exec_pids, execs, walk, uids, lines>>

\* delete_shell_command_from_dead_process
ClearDead(p) ==
  /\ task[p].pc = "exit1"
  /\ task' = [task EXCEPT ![p].pc = "exit2"]
  /\ dead' = [dead EXCEPT ![task[p].ev] = 0]
  /\ UNCHANGED <<env, alive, active, exec_pids, execs, walk, uids, lines>>

\* delete_process_from_alive_process_cache, delete_pid_from_active_shell_pids
Remove(p) ==
  /\ task[p].pc = "exit2"
  /\ task' = [task EXCEPT ![p].pc = "gone"]
  /\ alive' = [alive EXCEPT ![p] = NoEntry]
  /\ active' = [active EXCEPT ![p] = {}]
  /\ UNCHANGED <<env, dead, exec_pids, execs, walk, uids, lines>>

\* get_or_update_parent_process_in_caches of a child whose parent is in no
\* cache: it finds none and fills a process_t from the parent's task ...
LookForParent(q) ==
  LET p == task[q].ppid IN
  /\ "preexist" \in env
  /\ task[q].pc = "run" /\ task[q].puid # 0
  /\ Lives(p) /\ task[p].uid = task[q].puid /\ alive[p].uid = 0
  /\ task' = [task EXCEPT ![q].pc = "look"]
  /\ UNCHANGED <<env, alive, dead, active, exec_pids, execs, walk, uids, lines>>

\* ... and caches that, whatever the parent has done meanwhile: it may have been
\* cached and have a command, may be gone, and its pid may be another process's.
CacheParent(q) ==
  LET p == task[q].ppid IN
  /\ task[q].pc = "look"
  /\ task' = [task EXCEPT ![q].pc = "run"]
  /\ alive' = CachedAnew(p, task[q].puid)
  /\ UNCHANGED <<env, dead, active, exec_pids, execs, walk, uids, lines>>

-----------------------------------------------------------------------------
\* The processes that exist when owLSM starts, or that it has seen start: an
\* interactive shell on the first pid, and on every other pid nothing, a child
\* of it or, for the sake of preemption, another interactive shell.
InitialTask(p, prog, kind) ==
  [uid |-> p, prog |-> prog, kind |-> kind, pc |-> "run", typed |-> 0,
   ppid |-> IF kind = "child" THEN 1 ELSE 0, puid |-> IF kind = "child" THEN 1 ELSE 0,
   ev |-> 0]

Init ==
  /\ env \in Envs
  /\ task \in [Pids -> {NoTask} \cup {InitialTask(p, prog, kind) :
                 p \in Pids, prog \in Shells, kind \in {"interactive", "child"}}]
  /\ \A p \in Pids : task[p].uid \in {0, p}
  /\ task[1].kind = "interactive"
  /\ \A p \in Pids : task[p].kind = "interactive" => p = 1 \/ "preempt" \in env
  /\ \A p \in Pids : task[p].kind = "child" => task[p].prog = task[1].prog
  /\ alive = [p \in Pids |-> IF "preexist" \in env THEN NoEntry
                             ELSE [uid |-> task[p].uid, cmd |-> 0]]
  /\ dead = [u \in Uids |-> 0]
  /\ active = [p \in Pids |-> {}]
  /\ exec_pids = {} /\ execs = 0 /\ walk = 0 /\ lines = <<>>
  /\ uids = Cardinality(Pids)

ShellStep(p) ==
  \/ enter_readline(p) \/ exit_readline(p) \/ NothingRead(p)
  \/ enter_parse_event(p) \/ enter_zleentry(p) \/ exit_zleentry(p)
  \/ enterSetprompt(p) \/ exitList(p) \/ exitList_2(p)

ProcessStep(p) ==
  \/ \E q \in Pids : Fork(p, q)
  \/ \E prog \in Shells, kind \in {"interactive", "script"} : Exec(p, prog, kind)
  \/ Exec(p, task[p].prog, "other")
  \/ exec_hook(p)
  \/ exit_hook(p) \/ ClearDead(p) \/ Remove(p)
  \/ LookForParent(p) \/ CacheParent(p)

Next == \E p \in Pids : ShellStep(p) \/ ProcessStep(p)

Spec == Init /\ [][Next]_vars

-----------------------------------------------------------------------------
\* Properties.

\* The command that an event of process q shows for its parent, as
\* get_process_from_caches finds it.
ParentCommand(q) ==
  IF alive[task[q].ppid].uid # 0 THEN alive[task[q].ppid].cmd ELSE dead[task[q].puid]

\* The command recorded for a process is a line that this very process read,
\* through forks, execs, exits and reused pids, and so is the command that
\* its children show for it.  Only preemption between exitList and exitList_2,
\* a reservation that fails or, for the children, a reused pid break this.
CommandIsOwn ==
  env \cap {"preempt", "ringbuf_full"} = {} =>
    \A p \in Pids :
      /\ alive[p].cmd # 0 => lines[alive[p].cmd].uid = task[p].uid
      /\ Lives(p) /\ task[p].puid # 0 /\ ParentCommand(p) # 0 /\ "reuse" \notin env =>
           lines[ParentCommand(p)].uid = task[p].puid

\* The recorded command is the current one: while an interactive shell runs a
\* command, the line it read last is recorded for it, and when it waits at its
\* first prompt none is, so what it does next is not blamed on a command that
\* is over.
CommandIsCurrent ==
  /\ env \cap {"sourced", "crowded", "preempt", "preexist", "ringbuf_full"} = {} =>
       \A p \in Pids :
         task[p].kind = "interactive" /\ task[p].pc = "run" /\ task[p].typed # 0 =>
           alive[p].cmd = task[p].typed
  /\ "crowded" \notin env =>
       \A p \in Pids : task[p].pc = "prompt" => alive[p].cmd = 0

\* A process that is gone leaves no mark as an active shell and no command by its
\* pid, and no entry either unless a child that is older than owLSM cached it
\* late.  The command in the dead cache is never the one that a look-up returns:
\* as long as it is there an alive entry is found first.
ExitLeavesNothing ==
  /\ "ringbuf_full" \notin env =>
       \A p \in Pids : ~Lives(p) =>
         /\ active[p] = {} /\ alive[p].cmd = 0
         /\ alive[p].uid # 0 => "preexist" \in env
  /\ \A u \in Uids : dead[u] # 0 =>
       \E p \in Pids : task[p].pc = "exit1" /\ task[p].ev = u /\ alive[p].uid # 0

\* Only what somebody typed is recorded.  Not so after an exec (README,
\* section 6).
OnlyTyped == \A p \in Pids : alive[p].cmd # 0 => lines[alive[p].cmd].typed

\* Scripts and their shells are not recorded, as long as an interactive
\* shell does not turn into one by exec or parse a file itself.
ScriptsAreSilent == env \cap {"exec", "sourced", "ringbuf_full"} = {} => OnlyTyped
=============================================================================
