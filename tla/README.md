# A TLA+ verification project for owLSM

owLSM is a Linux security agent. eBPF programs attached to LSM hooks, fentry
points, tracepoints and uprobes watch what processes do, match every operation
against Sigma-style rules inside the kernel, and allow, block or kill. A
userspace daemon compiles the rules into BPF maps, loads and attaches the
programs, and turns the contents of the ring buffer into JSON or FlatBuffers
records on standard output.

This directory holds the modules that model it, the configurations that TLC
checks, the theorems that TLAPS proves, and `PROJECT.json`, which maps every
definition to the lines it models and lists the hazards the properties are for.
Paths below are relative to the repository's `src/` unless they start with
`Rules/` or `docs/`.

1. [Inventory](#1-inventory)
2. [Modules and how they correspond to the code](#2-modules)
3. [Runs](#3-runs)
4. [Bounds and fairness](#4-bounds-and-fairness)
5. [Proofs](#5-proofs)
6. [Where the guarantees end](#6-where-the-guarantees-end)
7. [What is not modelled, and the plan](#7-not-modelled-and-the-plan)

## 1. Inventory

### In the kernel

| component | state | operations | what is hard | what makes it correct |
|---|---|---|---|---|
| **process tracking**: `process_cache.bpf.h`, `fill_event_structs.bpf.h`, `on_fork`, `on_exec`, `on_exit` | `alive_process_cache_map` by pid, `dead_process_cache_lru_map` by unique id, `exec_pids` | `fork_hook`, the two bprm hooks, `exec_hook`, `exit_hook`; a look-up by *every* hook, which fills the cache on a miss | hooks of different tasks interleave on several CPUs; the kernel re-parents and recycles pids; a reservation in the ring buffer may fail in the middle | an entry is that of the pid's present owner; the original parent is kept; a parent can always be found; no change of image is lost |
| **exempt and protected pids**: `pids_to_ignore.bpf.h`, `protected_processes.bpf.h` | `program_related_pids`, `protected_processes`, `kthread_exec_pids` | inherited by fork, dropped by exit | a pid left behind exempts or protects a stranger | the sets are exactly the running descendants of those they were loaded with |
| **anti-tampering**: `on_signal`, `on_ptrace` | none of its own | a signal to, or a trace of, a protected process is an event | sender and target are both looked up and cached | as process tracking |
| **prevention**: `prevention.bpf.h`, `on_syscall.bpf.c` | `parent_processes_to_kill` | SIGKILL to the current task; a mark on the parent, executed at its next system call | mark and execution are apart; the current task of a softirq is a bystander | the offender is killed, its real parent is marked |
| **rule evaluation**: `event_and_rule_matcher.bpf.{h,c}` | per-CPU `helper_stack` and `predicates_results_cache` | walk over the rules of the event type, one postfix token at a time | lazy evaluation; results reused within an event and left behind for the next; softirqs use the same memory | the first rule in order whose condition holds decides |
| **predicate evaluation**: `string_utils.bpf.h`, `dfa.bpf.c`, the field-reference helper; `dfa_builder.cpp` in userspace | automata in maps | string, KMP, regex, numeric, ip, field-to-field comparison | lengths, truncation, boundaries | equals its reference definition |
| **hook execution**: `tail_calls_manager.bpf.h`, `event_caching.bpf.h`, the programs of `syscall_monitoring` | per-CPU `currently_handled_event`, per-CPU and global verdict LRU | fill, tail call, match, submit, kill, cache, return | one slot per CPU for all hooks, and softirqs; two-level cache; fail-open paths | a hook decides and reports its own event; a cached verdict is that of the rules |
| **network hooks**: `on_tcp_outgoing`, `on_tcp_incomming` | an event in socket storage; one tracker per listening socket | connect, established, request, accept | several connections share a tracker; decided in one context, reported in another | each connection is decided and reported once, by its own attributes |
| **shell command monitoring**: the bash, zsh and dash uprobes, `active_shells.bpf.h` | the command that each shell executes | uprobes set it, fork and exec hand it on, exit removes it | a command must not be attributed to a later one | an event carries the command that caused it |

### In userspace

| component | state | operations | what is hard | what makes it correct |
|---|---|---|---|---|
| **event pipeline**: `ringbuffers_messages_handlers.hpp` | ring buffer, `m_main_queue`, `m_thread_queue`, `m_running` | polling thread pushes, consumer swaps, writes and distributes, `destroy` stops both | bounded queue, failing writes, shutdown during all of it | nothing lost without a stated reason, nothing twice, in order; shutdown ends |
| **asynchronous worker**: `base_async_worker.hpp`, `shell_async_worker.cpp` | queue, mutex, condition variable | enqueue, process, stop | lost wake-ups | every item is processed unless it is stopped |
| **start and stop**: `main.cpp`, `posix_signal_handler.cpp`, `probe_manager.cpp`, `system_setup.cpp` | exit flag, attached probes, pinned maps | set up, load, attach, wait for a signal, detach, destroy | a signal at any instant; a crash leaves pinned maps; probes added while detaching | a signal ends owLSM; a restart after a crash works |
| **rule maps**: `rules_into_bpf_maps.cpp`, `bpf_map_manager`, `system_setup.cpp` | maps, their pins in `/sys/fs/bpf/owLSM` | create, pin, fill, freeze, reuse by name, unpin | each call may fail; what a killed instance left pinned | the programs read the rules of this start |
| **rule compilation**: `Rules/RulesGenerator/*.py`, `rules_organizer.hpp`, `rule_converter.cpp`, `rules_into_bpf_maps.cpp` | none (pure), then pinned and frozen maps | condition tree, postfix, selection, order, end marker | flattening, versions, ids at the edge of their range | the tokens mean what the condition means |
| **shell detection**: `shell_detection/*` | database of shells and its cache | find, analyse, attach | update of cache, table and probe in three steps | every shell found is probed |
| configuration, serialization, logging, feature detection | – | – | sequential | – |

The components meet in these places: every hook calls process tracking for its
own process and parent; every hook's decision goes through hook execution, which
calls rule evaluation and prevention; rule compilation fills the maps that rule
evaluation reads and that are frozen afterwards; `submit_event` feeds the event
pipeline; the pipeline hands EXEC events of unknown shells to the asynchronous
worker, which adds probes; main stops all of them in order.

## 2. Modules

| module | models | checked by | proved in |
|---|---|---|---|
| `ProcessTracking` | process tracking, exempt and protected pids, kill marks, the effect of the anti-tampering hooks on the caches | `MCProcessTracking` | `ProcessTrackingProofs` |
| `RuleCompiler` | condition tree → postfix tokens → rule maps, as recursive operators, with `Holds` as the meaning to preserve | `MCRuleMatching` | – (recursive) |
| `RuleMatching` | rule evaluation on one CPU, with nesting | `MCRuleMatching` | `RuleMatchingProofs` |
| `PostfixMachine` | abstract specification: evaluation without laziness, cache or shared memory | refined by `RuleMatching` | refinement in `RuleMatchingProofs` |
| `HookExecution` | hook execution, verdict caches, reports and SIGKILL on several CPUs | `MCHookExecution` | `HookExecutionProofs` |
| `EventPipeline` | event pipeline, asynchronous worker, waiting for the signal and shutdown | itself | `EventPipelineProofs` |
| `OrderedOutput` | abstract specification: what a reader of the output may rely on | refined by `EventPipeline` | refinement in `EventPipelineProofs` |
| `SocketStorage`, `TcpOutgoing`, `TcpIncoming`, composed in `TcpConnections` | network hooks | `TcpConnections` | `TcpConnectionsProofs` |
| `ShellCommands` | the command recorded for an interactive shell | itself | `ShellCommandsProofs` |
| `DashCommand` | the text of a dash command from its parse tree | `MCDashCommand` | – |
| `ShellDetection` | shell detection, the shell probes, attaching and detaching | `MCShellDetection` | `ShellDetectionProofs` |
| `RuleMaps` | rule maps; start, crash and restart | itself | `RuleMapsProofs` |
| `DfaBuilder`, `StringMatching` | string predicates from the pattern to the answer | `MCStringMatching` | – (recursive) |

`RuleMatching` stands inside `HookExecution`'s `Match` step: what the first
shows to be the result of an evaluation, the second uses as `rules`, a function
from the context of an event to the action of the first matching rule.
`StringMatching` stands inside a predicate of `RuleMatching`, which reduces it to
its truth value. `HookExecution` in turn leaves the processes to
`ProcessTracking`, and what the two halves of a connection have to do with each
other to `TcpConnections`. `ShellDetection` is what the worker of `EventPipeline`
does with an item, and `DashCommand` what happens in `exitList` of
`ShellCommands`.

In most modules the environment is a variable that `Init` chooses from a constant
set (`Envs`, `Setups`): one run then covers the environments in which the
guarantees differ, and a property names the ones it needs as its premise.

### ProcessTracking

The kernel's task table (`clock` to `execing`) is external and modelled from what
the hooks read of it: `start_time`, `real_parent`, whether there is an `mm`, the
image, and a second thread. The remaining variables are the BPF maps, one for
one. `forker` and `lineage` are ghosts that remember who really created a
process.

One action is one hook: `Fork` is the kernel's creation of the task together with
`fork_hook` at `wake_up_new_task` (the child does not run before it);
`BprmCredsForExec`, `BprmCommittedCreds` and `ExecHook` are the three programs of
`on_exec.bpf.c`, between which anything may happen; `ExitHook` and
`ExitHookDelete` split `exit_hook` at the one point where another CPU's look-up
could see the exiting process in both caches; `MonitoredHook` stands for every
other hook (each looks up its process and parent and may kill); `SyscallEnter` is
the tracepoint that executes kill marks. A hook is one step as long as it concerns
its own process, whose exec and exit have to wait for it. It is several where it
concerns another one: a look-up of the parent, or of the target of a signal, that
misses puts the hook into `hooks`; `FillRemote` reads the task, or fails to, and
`WriteRemote` writes what was read whatever happened meanwhile and does the rest of
the hook; `kill_proccesses` checks the parent and `MarkParent` marks it. The ghost
`remote` of an entry tells that it was written in this way. `CreateTask`, `ThreadExit`, `Release`,
`ExecFails` and `Evict` are the kernel. `Init` chooses a `setup`: which processes
are older than owLSM and who is whose parent among them, which are owLSM's own or
protected, and what the environment may do besides: fail reservations, start
threads, evict from the dead LRU, start user-mode helpers, signal a protected
process.

### RuleCompiler, RuleMatching and PostfixMachine

`convert_condition` flattens nested nodes as `AST.py` does,
`condition_expr_to_postfix` emits the operands and then the operators as
`postfix.py` does, and `organize_rules` selects by event type and version,
appends the end rule and sorts, as `rules_organizer.hpp` does.
`RuleMatching` then executes the tokens: `StartRule` is one element of
`bpf_for_each_map_elem`, `EvalToken` one token, `FinishRule` the check that
exactly one TRUE is left. The stack is the array and the stack pointer of
`struct eval_stack`, including what a pop leaves behind; the cache has the time
stamps of the events. A predicate is reduced to its truth value for an event.

### HookExecution

A hook goes through the pcs `lookup` (write and read hooks only), `fill`,
`match`, the action found, `apply`, and the verdict to be cached. `write_hook`
stands for the two hooks that cache and `chmod_hook` for those that do not; the
hook of a softirq is `inet_conn_request_hook`, which uses the CPU's slot, finishes
before the interrupted hook goes on, and whose current task is whoever was
interrupted. What an event says is reduced to its context, the image of the
process and the attributes of the file, as of the moment when `Fill` reads them.
`PerCpuUpdate` is what the kernel does for a new entry of a per-CPU hash: the
values of the other CPUs are zero, and zero is `ALLOW`. `env` is chosen once per
behaviour from `Envs`. The hook of another task does not come in between two steps
of one on the same CPU: that takes a kernel that preempts LSM programs (section 6).

### EventPipeline and OrderedOutput

Four threads with program counters: `poller` (`ringbufferWorker`), `consumer`
(`consumerWorker`), `worker` (`workerLoop`) and `main`. An event is its number in
order of submission. The wait on a condition variable is two steps, test and
block, so that a notification without the mutex can fall between them; the
worker's notifiers take the mutex and the signal handler does not. `rejected`,
`discarded` and `unwritten` record the three reasons for which an event may be
lost: `m_main_queue` full, callback after `m_running` was cleared, failed
`write(2)`.

### SocketStorage, TcpOutgoing, TcpIncoming and TcpConnections

Socket storage is a heap of cells and a map from a socket to its present cell. A
hook keeps the cell it was given even when another CPU deletes it, as RCU has it.
A *flow* is a hook in progress: of a process (connect, accept) or of a peer (the
softirqs of its packets). Each hook is two steps, fill and judge, because of the
tail call between them; the judged copy is the CPU's slot. `connect_hook` runs
without the lock of the socket, so its first half is three steps: the address and
then the process are written into the event of the socket, which is then copied.
`TcpOutgoing` has
`connect_hook` and `inet_conn_established`; `TcpIncoming` has `accept_hook` and
`inet_conn_request_hook`, either of which may come first. The kernel's TCP state
(`sk`, `conn`, `queue`) is external: handshakes fail, SYNs are repeated, several
processes accept on one socket. The `ghost` variables remember what really
happened, for the properties to compare the reports with. `"overlap"` lets the
two steps of different flows on one socket interleave.

### ShellCommands

A process has a program and a kind (interactive shell, script, other) and is at a
prompt, runs a command, or is at a step between. The uprobes are actions named
as in the code. bash clears the command at the entry of `readline` and sets it at
its return. zsh clears it when both `parse_event` and `zleentry` have been
entered, in either order, which two bits in `active_shell_pids` remember, and sets
it at the return of `zleentry`. dash clears it in `setprompt(1)`, which also marks
the pid as active, and sets it for an active pid in `exitList` and `exitList_2`,
between which the tree is in the CPU's `walk_state`. A line is a number, and the
ghost `lines` remembers who read it and whether it was typed. Fork, exec, exit in
its two steps and look-ups by other processes are here again with the one field,
the command, that `ProcessTracking` leaves out. A child that is older than owLSM
looks its parent up in one step and writes it into the alive cache in another
(`CacheParent`), whatever lives under the pid by then.

### DashCommand

`walk` pops a node off the stack of `walk_state` and pushes or prints its
children, `subshell` does the same with the smaller stack, `sanitize` is the
in-place removal of control characters with its two positions. The text has a
capacity. A node of `/bin/dash` (`NCMD`, `NPIPE`, `NAND`, `NSUBSHELL` ...) is a
record. `MCDashCommand` has the trees and `Render`, the line that a tree stands
for. Deadlock checking is on: every walk ends.

### RuleMaps

An instance is an execution of owLSM that goes through the calls of its setup one
at a time, every one of which may fail or be its last. A map is an object that
exists while a file descriptor or a pin refers to it; loading the programs finds
it by name in the directory. Each instance has a configuration of its own, so
that an entry left over is told from one that was written. A map that cannot be
created and an entry that cannot be converted or has no room end the start
(`"create_fails"`, `"fill_fails"`).

### ShellDetection

`main` adds the shells of `/etc/shells` and the database to `m_probes` and
attaches them one program at a time, while `worker` takes items, looks into the
cache, examines the file, writes the row and attaches. A file is a FileKey (inode,
device, time of modification); an upgrade puts another file at a path. What the
extractor finds in an ELF file is whether it knows the offsets (`Known`). A shell
has two programs, zsh three; a link that the kernel refuses is only logged, and its
probe stays in the list without it. Rows are never removed: one whose path has
another file now stays, and the next start makes a probe for it too. owLSM
may be stopped or killed, between two rows as well, and started again on the same
database; `setupFails` is a start that ends before it attaches.

### DfaBuilder and StringMatching

The functions of `dfa_builder.cpp` are operators: the KMP table, and for a
regular expression the expansion of repetitions, the Thompson automaton, the
subset construction with its limit of states, the refinement of partitions and
the numbering. Up to the numbering a state is the set of states that it stands
for. `StringMatching` builds the table of one predicate, or refuses it, and then
compares event strings, one character a step, with the helpers of the kernel. A
field reference compares with a second string of the event instead of one of the
rule, which has other limits.
`MCStringMatching` has the patterns and `Matches`, the language of a pattern.

## 3. Runs

| run | instance | shows |
|---|---|---|
| `process_tracking` | 2 pids besides init, up to 4 creations; unique ids that fold four start times; setups: quiet; owLSM protected and attacked, with helpers, full ring buffer and LRU eviction; two threads, also with full ring buffer; a parent and a child older than owLSM | **AliveEntryIsLive**, **OriginalParentKept**, **ParentIsFindable**, **MarksOriginalParent**: through fork, exec, exit, re-parenting and pid reuse the caches stay exact, however late what a look-up read is written, and the parent that is going to be marked has the unique id of the forker. **ProtectedIsLineage**, **RelatedIsLineage**, **KthreadExecIsHelper**: the pid sets stay exact in the noisy setups too. **StaleImageIsPending**: no change of image is lost, but in what other processes write late |
| `rule_decision` | every condition of two predicates up to two operators deep, malformed tokens, version ranges; two events in a row | **FirstMatchWins** end to end from condition tree to decision, **CacheIsCoherent**, and the refinement **ImplementsPostfixMachine** |
| `hook_execution` | 2 CPUs, 2 processes, 2 events, four environments: softirqs; eviction; full ring buffer; exec with file changes | **DecidedInTask**, **OneReportEach**, **SentIsConsistent**, **KilledForOwnAction** without softirqs; **GlobalVerdictIsRules**, **CachedDenyIsRules** with them |
| `event_pipeline` | 3 events, ring and queue of 2, failing writes | **AccountedFor**, the refinement **OutputIsOrdered**, and the liveness **AcceptedIsOutput**, **ShutdownCompletes**, **ItemsAreProcessed** |
| `tcp_connections` | 2 processes, 2 peers, 1 socket, 4 hook calls, 8 environments | **OutgoingIsExact**: where no rule excludes, one report for each connection and each refusal, in order, with its own process and address. **PairIsJudged**: the two incoming hooks never miss each other. **ReportsAreReal**: a report is about something that happened; where `connect()` calls overlap, its process and its address are from attempts on the socket, though maybe from two. **SerialIsExact**: one connection at a time is judged and reported exactly |
| `shell_commands` | 2 pids, 4 processes, 3 lines, 10 environments | **CommandIsOwn**, **CommandIsCurrent**: the recorded command is a line of this very process and the present one; **ExitLeavesNothing**, **ScriptsAreSilent** |
| `dash_command` | parse trees of lists, pipelines, subshells, redirections and control characters; two capacities | **PlainIsExact**: lists of printable commands are recorded exactly, in every nesting, up to the capacity; **NothingIsInvented** for all others; no walk gets stuck |
| `rule_maps` | 3 starts, killed or failing at every call, the creation and the filling of a map included | **LoadedIsCurrent**: the programs never read what an earlier instance left; **StartSucceeds**: a restart works wherever the one before was killed |
| `shell_detection` | 3 files, 3 paths, 2 starts; upgrades and kills; links and failing inserts; kills, a failing database and refused links | **HookedOnce**: while every path keeps its file, no file is hooked by two probes, whoever finds it first and however often owLSM is killed and started; **RecordedIsHooked**: no shell is recorded and left without a hook, unless a row was lost or a link refused; **DiscoveredIsHooked**: a running shell is hooked in the end, likewise |
| `string_predicates` | patterns of up to two operators and framed repetitions, all needles of up to 3 and event strings of up to 4 characters of 3; field references between them | **RegexIsExact**, **StringIsExact**: the tables and the walk answer by the language of the pattern (nothing is said of a pattern that matches the empty string on an empty event string, section 6), and by the names of the operations |

Two more runs state what a document or a test of the repository says and find
that the code does otherwise (quoted under `findings`):

| run | property | behaviour |
|---|---|---|
| `hook_percpu_zero` | CachedDecisionIsCurrent | a DENY cached on one CPU is read as ALLOW on the others |
| `exit_signal` | SignalEndsOwlsm | a signal between test and block of `waitForExitSignal` is lost |

Each property of a passing run has a mutant in `PROJECT.json`: the definition of
the code as a plausible bug would leave it, under which TLC finds the property
violated. The mutants are defined next to what they replace.

To run one: `tlc -config HookExecution.cfg MCHookExecution`.

## 4. Bounds and fairness

- *Processes.* Two pids besides init and four creations allow the case that all
  process properties are about: a parent dies, its pid is taken by a third
  process, while its child, re-parented, is alive and raises events. Two images
  tell an exec apart. `KillSlots = 1` makes the map of marks full. `Granule = 4`
  lets a parent and the next owner of its pid have the same unique id, if three
  creations fall into one granule, or different ones, if the fourth replaces the
  parent. Rules that kill are loaded in the quiet setup and in one with threads. In the setup of
  a parent and a child older than owLSM there is one creation, which is enough for
  the pid of the parent to be used again before the child writes.
- *Rules.* Two predicates and two operators in depth contain every pairing of
  lazy and eager operand, a repeated predicate (the cache), and n-ary operators.
  Two events in a row make stale cache entries. `MaxTokens = 8` holds
  the longest of these conditions, which has seven tokens.
- *Hooks.* Two CPUs are all that the caches can tell apart (this one and another),
  two processes are the offender and another that could be killed for it,
  and two events per behaviour are an evaluation and whatever interrupts or
  follows it. The theorems lift these bounds and cover all combinations of the
  environments that the run has one at a time.
- *Pipeline.* Three events against queues of two fill both, and let an event be
  in each stage at shutdown.
- *Connections.* One socket, as sockets share nothing; two processes and two peers
  are the pair that an event may mix up; four hook calls are two connections, the
  second of which finds what the first left behind. At most two pairs of process
  and address have a rule other than the default.
- *Shells.* Two pids are a shell and its child or two shells on one CPU; four
  processes let each pid be used again; three lines are a command in two lines
  and the next one. The ten environments are the cases that the properties name.
- *dash.* `MAX_CHAIN_CMDS = 4` and `MAX_SUBSHELL_CMDS = 2` (code: larger) are
  exceeded by trees of the instance, and 6 symbols of text by most of them; with 64
  all fit.
- *Rule maps.* Three starts, as the third can meet what two left. One always
  created map, one optional map and one rule map of one key tell the branches of
  `RulesIntoBpfMaps` apart. Six objects are more than can exist at a time.
- *Shell detection.* Three files on three paths: a listed shell, another path that
  may become a link to it, and a zsh with its third program; one change, two
  starts, two programs executed.
- *Strings.* Three characters, one of which is in no pattern; strings of four
  characters are longer than every needle; `MAX_REGEX_DFA_STATES = 6` makes the
  builder refuse some of the patterns, and `DFA_NUM_STATES = 7` is its distance from
  the rows of a table in the code, scaled down.

The largest runs are `hook_execution` (3.2 million distinct states), `shell_commands`
(2.3) and `tcp_connections` (2.2), none of which takes more than three minutes with
two workers.

Fairness:

- `EventPipeline`: weak fairness of each of the four threads. The kernel schedules
  a thread that can run, and the worker and the consumer run code without
  unbounded loops, provided that whoever reads standard output keeps reading (a
  blocked `write(2)` blocks the consumer for ever).
- `RuleMaps`: weak fairness of each instance's setup, which is sequential code of
  main without waiting; being killed is an alternative, not an obligation.
- `ShellDetection`: weak fairness of the worker's thread and of main while it
  attaches, and that a shell which runs causes events again and again
  (`distributeIfNeeded` of each path): an item is made from an event, and a shell
  that does nothing is not discovered.

Nothing is assumed of hooks, signals and the environment. All other properties
are safety properties.

Deadlock checking is on in `Dash.cfg`, where getting stuck would be a walk that
does not end. It is off elsewhere: the other modules have bounded behaviour after
which nothing happens, and owLSM itself is meant to terminate. That nobody waits
for ever is stated as liveness instead.

## 5. Proofs

A theorem holds for every value of the constants that satisfies the named
assumptions of its module, which TLC evaluates in every run. The invariants that
carry the proofs were checked by TLC as invariants of the runs' instances before
they were proved. They are defined in the proof modules.

### Processes

`ProcessTrackingProofs`, for every set of pids, every clock, every setup and all
verdicts:

| theorem | states | in environments |
|---|---|---|
| `TypeCorrect` | `[]TypeOK` | all |
| `AliveCorrect` | `[]AliveEntryIsLive` | none of the optional behaviours |
| `ProtectedCorrect`, `RelatedCorrect` | `[]ProtectedIsLineage`, `[]RelatedIsLineage` | without a second thread |
| `KthreadExecCorrect` | `[]KthreadExecIsHelper` | without a second thread |
| `OriginCorrect`, `FindableCorrect` | `[]OriginalParentKept`, `[]ParentIsFindable` | none of the optional behaviours |
| `MarksCorrect` | the action property `MarksOriginalParent`, for every `Granule` | none of the optional behaviours |
| `ImageCorrect` | `[]StaleImageIsPending` | all |

None of the invariants is inductive as it stands. For the pid sets (`LineageInv`)
one needs that only helpers start without an `mm` and that helpers are nobody's
descendants: otherwise `is_userspace_program` could skip the inheritance in
`fork_hook` or the removal in `exit_hook` for a process that is in a set. For the
alive cache (`AliveInv`) the danger is the look-up of a parent, which on a miss reads
the *present* parent of the task and caches it in a later step, when that process
may be gone. The argument is about the hooks in progress (`HookOK`): a look-up that
misses belongs to a child of init (`MissMeansInit`), so what is written late is the
entry of init, which never exits. It needs that `real_parent` always names
an existing process (`ParentsExist`), that a cached entry names that parent or the
process was handed to init, that a process past its exit hook is in the dead
LRU or its exit hook is still at work (`ExitedIsDead`), and that the forker of a
process that was not handed to init is in one of the caches (`OriginInv`): the
invariants of the alive cache and of the origin are proved together. Where a
process and its parent are both older than owLSM a look-up may miss for another
reason, and the property fails (section 6).

The parent is kept (`OriginInv`) because `fork_hook` caches the child before the
child or anybody else can look it up: a process that a monitored one has forked is
never filled in later from its task, and for all others the parent in the task is
init from the beginning. That a forker can be found needs the order of
`exit_hook`, which enters the process into the dead LRU before it removes it from
the alive cache. A unique id has the start time without its low 32 bits, of which
`Granule` is the size: the theorem on marks says that the process which is checked
exists and has the unique id of the forker, for every granule. That it *is* the
forker would need that a pid is not given away twice within one.

An image can only be stale while its exec is pending (`ImageInv`): the hook at
`bprm_committed_creds` enters the pid into `exec_pids` together with the change of
the image, whatever fills the cache afterwards reads the new one, and `exec_hook`
removes the pid only when it has written the new image. What a hook holds to write
later is marked as `remote`, and the property leaves such entries out. As this is
proved in every environment it also has to speak of entries that a failed
reservation in `exit_hook` left for an earlier owner of the pid.

### Rules

`RuleMatchingProofs`, for any predicates, rule maps (malformed ones included) and
events:

| theorem | states |
|---|---|
| `CacheCorrect` | `[]CacheIsCoherent`, for any depth of nesting |
| `MatcherCorrect` | `ImplementsPostfixMachine`, if `Depth = 1` |

The cache is right because time stamps of nested events differ and none is from
the future (`TimeInv`), so an entry with the stamp of an event was written for it.
For the refinement the stack of the machine is the part of `helper_stack` below
the stack pointer, each token replaced by what it is worth for the event: lazy
evaluation pushes a token before its value is known. A rule pushes at most one
token for each that it has evaluated (`PushedInv`), so `stack_push` never fails.
`Depth = 1` is a CPU on which no softirq interrupts an evaluation; with `Depth = 2`
the refinement is false (section 6).

### Hooks

`HookExecutionProofs`, for any number of CPUs, processes, files
and events and for all rules:

| theorem | states |
|---|---|
| `TypeCorrect` | `[]TypeOK` |
| `DecisionCorrect` | `[]DecidedInTask` |
| `ReportCorrect`, `ReportOwn` | `[]SentIsConsistent`, `[]OneReportEach` |
| `KillCorrect` | the action property `KilledForOwnAction` |
| `GlobalCacheCorrect`, `PrivateCacheCorrect` | `[]GlobalVerdictIsRules`, `[]CachedDenyIsRules` |

The argument is ownership of the slot (`SlotInv`). A softirq's event has no cache
key, so a slot with a key, or any slot where there are no softirqs, is still the
one that the task's hook filled; for such a slot the program counter tells what
has been done to it (`Progress`): nothing at `match`, the rule found but not
entered at an action, the rule's action at `apply`, the rule's verdict after it.
Decisions and reports (`ReportInv`) and caches (`CacheInv`) follow from it. The
global cache stays right under softirqs because an event that replaced another
has no key and so is not entered, which is why that theorem needs no assumption
on them. `TypeOK` is not a property of a run: the other invariants of the run
would fail to evaluate or to hold where it did.

### Event pipeline

`EventPipelineProofs`, for any number of events and any capacities:

| theorem | states |
|---|---|
| `AccountingCorrect` | `[]AccountedFor` |
| `OutputCorrect` | `OutputIsOrdered`, the refinement of `OrderedOutput` |

One sequence carries both (`PipelineInv`): the output, what the consumer has in
hand, the queue, what the polling thread has in hand and the ring buffer, written
one after the other. It increases, it and the dropped events are disjoint, and
together they are all that was submitted. Every step of the four threads moves a
boundary inside that sequence or drops an element of it.

### Connections

`TcpConnectionsProofs`, for any finite sets of processes, peers and sockets, any
rules and any number of calls:

| theorem | states |
|---|---|
| `PairCorrect` | `[]PairIsJudged` |
| `ReportsCorrect` | `[]ReportsAreReal` |
| `SerialCorrect` | `[]SerialIsExact` |
| `OutgoingCorrect` | `[]OutgoingIsExact` |

`CellInv` says that a cell belongs to one socket, in the map and for all hooks that
still have it after it was deleted from the map, and that a new cell can always be
found: the cells are as many as flows and sockets. `PairIsJudged` then is
inductive: a hook sets its flag and reads the other's on a cell that it keeps, so
of two hooks that overlap the later one sees both. For outgoing connections
(`OutInv`) the address and the process of every event in a cell, in a slot or sent
are each from an attempt on its socket; without overlap a hook between its writes
is alone on the cell, and both are from one attempt. For incoming ones without overlap (`AloneInv`) the hook at work is alone, a
tracker that waits for a SYN has a process that asked for a connection on this
socket, and one that waits for an `accept()` only has no address of an earlier SYN.
SYNs are counted (`Counted`): those that are reported, that a tracker holds and
that are being handled are together no more than the peer has sent; a step only
moves them from one to the next.

`SerialInv` is about each socket on which nothing was refused or failed. There is
one `accept()` and one connection at a time (`OneEach`). The flags of the tracker
are those of the call and of the connection that wait for each other, and where
both are there, they were paired, the tracker is gone and the connection is
settled: judged, and reported once unless a rule excludes it (`Paired`). Since a
report stays the only one of its peer (`ReportedOnce`), it is still settled when
`inet_csk_accept` hands it over, and afterwards (`DeliveredInv`). This part needs
the orders of both hooks: the server may ask before or after the SYN comes.

`PlainInv` is about programs that connect without polling. `connect_hook` judges a
copy of the event that it leaves in the socket, so the stored event is never
judged and has no id until `inet_conn_established` gives it one; a socket in
SYN_SENT stores the process and the address of its own attempt (`StoredOK`). The
k-th report that is allowed is then the k-th connection that was opened and the
k-th that is refused the k-th refusal (`LogInv`); the log of opened connections is
one ahead exactly while `inet_conn_established` is at work. Order is expressed by
rank: the number of such reports up to a position, with lemmas on what an appended
report does to it (`RankFacts`, `LogGrows`).

The assumptions are that the sets are finite, that processes and peers are
different things, and that an environment has either the outgoing or the incoming
hooks: a socket connects or listens.

### Shell commands

`ShellCommandsProofs`, for any finite set of pids, any number of processes and
lines, in the environments that each property names:

| theorem | states |
|---|---|
| `ExitCorrect` | `[]ExitLeavesNothing` |
| `ScriptsCorrect` | `[]ScriptsAreSilent` |
| `OwnCorrect` | `[]CommandIsOwn` |
| `CurrentCorrect` | `[]CommandIsCurrent` |

`BasicInv` is about who lives under which pid. `ExitInv`: what the dead cache
holds of a process is hidden by its alive entry, which is removed last.
`SilentInv`: only interactive shells and scripts of zsh are ever marked as active,
so what dash puts into `walk_state` was typed. `OwnInv`: entries and processes
agree on the unique id, and at most one process is between `exitList` and
`exitList_2`, the one that `walk_state` belongs to; without reuse of pids a parent
keeps its own (`ParentInv`). What a child writes late for its parent has no command,
so it hands none to the next owner of the pid. `CurrentInv` follows the two bits of zsh and the mark
of dash: a dash at its prompt is active, so its line gets to `walk_state`, and a
zsh outside its parser has not set the parser's bit, so its line editor does not
clear the command that runs.

### Rule maps

`RuleMapsProofs`, for any number of starts and any configurations:
`LoadedCorrect` states `[]("overlap" \notin env => LoadedIsCurrent)`. `MapsInv` says that instances start one
at a time (which is the premise on the environment), and for each how far it is:
the maps before its position are pinned, frozen and complete, and the one it fills
lacks just the keys left to be written. The assumption on `MaxObjs` is that there
are at least as many objects as maps; a new map is then never one that a pin or an
instance holds.

### Shell detection

`ShellDetectionProofs`, for any finite set of files, any paths and any number of
starts, upgrades and kills:

| theorem | states |
|---|---|
| `HooksCorrect` | `[]HookedOnce` |
| `RecordedCorrect` | `[]RecordedIsHooked` |

Only the worker adds rows while owLSM runs (`WorkerInv`): what it did not find in
the cache is still not there when it records it, so the row counts for the probe
that it is going to attach, and a start makes one probe for each row. A path
therefore never has more probes than rows (`HooksMatchRows`, in every environment).
While no path gets another file, rows and links are of the file that is at their
path (`FixedInv`), so that two probes with a link to one file would be two rows of
one file, which has only one. For the other direction every row that is
still in its place has a probe for it (`ServedInv`): still to come in main's loop,
at its turn with the programs done so far linked to this file, attached, or in the
hands of the worker. An upgrade cannot bring back a file that is recorded, as a
file that was not installed yet is unknown to the table, the cache and the worker
(`UnusedInv`): this is where the time of modification in the FileKey is needed. The
premise `Undisturbed` asks for an open database, that inserts succeed, that no
file has two paths and that the kernel refuses no link; `HookedOnce` does without it.

### Only model-checked

- Liveness and `ENABLED` are out of the prover's reach: `AcceptedIsOutput`,
  `ShutdownCompletes`, `ItemsAreProcessed`, `StartSucceeds`, `DiscoveredIsHooked`.
- What a recursive definition computes for every input is an induction over data,
  and the prover loses its arithmetic in modules with `RECURSIVE` operators:
  `FirstMatchWins` (the compiler; the matcher itself is proved),
  `PlainIsExact`, `NothingIsInvented`, `RegexIsExact`, `StringIsExact`.

## 6. Where the guarantees end

Each of these is a change of constants in a configuration, or the named property
put into it, and TLC then shows a behaviour. Where a document of `docs/GithubPages/` or a comment says otherwise, its
line is given.

Processes and prevention:

- `QuietSetup` of `MCProcessTracking` with `"ringbuf_full"`: `exit_hook` returns before it
  removes the process from the alive cache, and `AliveEntryIsLive` fails (so does
  `ParentIsFindable`, as the process is not in the dead LRU either). With
  `"threads"`: a child forked by another thread names that thread's start time,
  and `OriginalParentKept` fails; the leader exits first, and a later event of another thread caches
  the process for good. With `"tampering"` and a protected process that is also
  exempt: the signal hook caches it, and its exit removes nothing.
- `FamilySetups` with `AliveIsExact`: a process looks up its parent, both older
  than owLSM and neither cached yet; the parent exits on another CPU, and what was
  read of it is written afterwards (`fill_event_structs.bpf.h:139`) and stays until
  the pid is used again. With `StaleImageIsPending` without `~remote` the parent
  execs meanwhile, and its old image is written back with nothing pending in
  `exec_pids`. If the parent has no `mm` any more the fill fails, which is ignored:
  what is written is an entry for pid 0, and the event has an empty parent.
- The alive cache is asked by pid alone. After pid reuse the look-up of a dead
  parent finds the new owner of the pid, although the right entry is in the dead
  LRU. `ParentIsFindable` says that an entry with the right unique id exists, not
  that this look-up returns it.
- `MarkIsCurrent` fails: a parent dies between the check and the mark
  (`prevention.bpf.h:36`, `:42`) or, marked, before its next system call, nothing
  removes the mark, and the next owner of the pid is killed (the comment in
  `prevention.bpf.h:23` has the checks that avoid "pid recycle mistake" when the
  mark is set). The check itself compares unique ids, which two owners of a pid
  that started within one granule of 2^32 ns share.
- Children of init are not cached when they are forked, as `fork_hook` ignores
  system tasks; they enter the cache at their first event.

Rules and hooks:

- `Family = "high"` in `RuleDecision.cfg`: a rule with an id above `INT_MAX`
  (ids are unsigned) sorts behind the end marker and never matches;
  `FirstMatchWins` fails.
- `Family = "few"` and `Depth = 2`: an evaluation in a softirq resets the stack
  of the one it interrupted; `FirstMatchWins` and the refinement fail.
- `Envs = {{"exec"}}` in `HookPerCpuZero.cfg` with one CPU and two images: a
  cached verdict outlives the exec of the process; `CachedDecisionIsCurrent`
  fails.
- `KilledForOwnAction` without its premise on softirqs: SIGKILL for a connection
  request goes to the interrupted task.
- On a fully preemptible kernel LSM programs run with migration, but not preemption,
  disabled. The hook of another task can then use the slot, `helper_stack` and the
  predicate cache of the CPU in between, as a softirq does. `HookExecution` has no
  such step: `DecidedInTask`, `SentIsConsistent`, `OneReportEach` and
  `KilledForOwnAction` are about kernels that do not preempt a hook by another.
- `DecidedOnOwnEvent` (`DecidedInTask` without its premise): a connection request
  in a softirq replaces the event in the CPU's slot between `Fill` and `Match`, and
  the hook decides on it.
- `KillProcessKills` with `KILL_PROCESS` in `Chosen`: no branch of
  `prevention.bpf.h` kills for it; the event is allowed and nobody dies.
- `Family = "nullable"` in `Strings.cfg` with `NullableMatchesAnything`: tests of
  the builder (`test_dfa_builder.cpp:300`, `:322`, `:342`) expect that `a*`, `a?` and
  `(ab)*` match the empty string, and they do in the matcher of the tests
  (`test_dfa_builder.cpp:17`), which asks the start state too. `regex_dfa_search` in
  the kernel asks for acceptance after each character only, so an empty field does
  not match. `RegexIsExact` says nothing of this case.
- `pc = "undefined"` of `StringMatching` is reached by an expression without a
  word: the dead start state is given a number behind the end of the table that
  `normalizeDfa` writes. The rule generator refuses such expressions, so
  owLSM meets one only in a configuration that was written by hand.
- The generator counts the states of the minimal automaton, the builder those of
  the subset construction before it is minimized. An expression that the generator
  accepts may be refused when owLSM starts (`pc = "refused"`).

Connections:

- `BlockedIsNotDelivered` fails: the SYN of a refused connection is repeated by the
  client's kernel, and the tracker, with the flag of the process that waits in
  `accept`, was deleted with the refusal; the repeated SYN waits for another accept,
  and the connection is handed over unjudged (`events.md:79`).
- `ExcludedIsSilent` fails: an outgoing connection that a rule excludes is not
  reported by `connect_hook`, but its event stays in the socket without the action,
  and `inet_conn_established` reports it (`events.md:83`, `rules.md:259`).
  `OutgoingIsExact` is stated for rules that exclude nothing.
- `"overlap"` for outgoing connections: two `connect()` calls on a non-blocking
  socket write into the one event of the socket. A pair of process and address that
  nobody attempted, or an event without a process, may be judged and reported;
  `ReportsAreReal` then says only that each of the two was used on the socket.
- `"backlog"` or `"overlap"` for incoming connections: with one tracker per
  listening socket, connections are paired with other accepts or not at all, so
  `SerialIsExact` is about servers that handle one connection at a time.

Shells:

- `OnlyTyped` with `"exec"`: an interactive dash that executes `dash script` stays
  active, and the lines of the script are recorded
  (`architecture/shell-commands.md:109`).
- `"preempt"`, for kernels that run uprobes preemptibly: `walk_state` belongs to
  the CPU, and between `exitList` and `exitList_2` another dash may replace it;
  `CommandIsOwn` excludes it.
- `LogicIsVisible` fails: `if`, `while`, `for` and `case`, redirections of a
  subshell's list, the `&` of a pipeline, braces and assignments are not in the
  text (`architecture/shell-commands.md:89`).
- `"preexist"`: the entry that a child writes late for its parent may stay when
  the parent is gone, or replace that of the next owner of the pid, which then has
  no command until its next line. `ExitLeavesNothing` says that such an entry has no
  command.
- `HookedOnce` without its premise: rows are never removed, so after an upgrade of a
  shell and a restart two rows name one path, main makes a probe for each
  (`shells_db.cpp:69`), and every program of it runs twice. So it does when a shell
  is upgraded between its listing and its turn in main's loop, and the worker
  finds it meanwhile.
- A walk over `m_probes` by main while the worker appends to it may follow a pointer
  to memory that `push_back` has freed (`probe_manager.cpp:73`, `:84`). The model
  lets owLSM die in this step.
- `DiscoveredIsHooked` and `RecordedIsHooked` without their premise, or with
  `EtcShells = {}`: a uprobe that the kernel refuses is only logged
  (`uprobe_probe.cpp:95`), and the row keeps the worker from trying again; a row that
  could not be written, or a file with two paths, leaves a shell without a hook; and
  if `/etc/shells` names no shell, the database is never opened: a shell that is
  found later gets no row and so no probes, but stays in the cache, which keeps the
  worker from looking at it again (`architecture/shell-commands.md:103`).
  `RecordedIsHooked` without `m_db` in its premise fails in the same way.

Start and stop:

- `PipelineIsDrained` fails: events that are in the ring buffer when owLSM is
  stopped are dropped (`getting-started.md:44`).
- `"overlap"` in `RuleMaps.cfg`: a second instance removes the pins of the first
  between creation and loading; `LoadedIsCurrent` fails, as nothing keeps two
  instances apart.

## 7. Not modelled, and the plan

Left out for good: reading of kernel structures (`struct_extractors.bpf.h`),
JSON and FlatBuffers formatting, schema validation, logging, feature detection,
ELF parsing, resource limits. They are sequential and have no state that another
component could find inconsistent. `vmlinux.h`, the generated FlatBuffers headers
and the libraries under `3rd_party` are not code of owLSM.

Limits that the models do not have: the 4096 entries of the alive cache
(`common_maps.bpf.h:14`), after which its updates fail, and preemption of one hook
by another.

Left, in this order:

1. The Sigma front end (selections, modifiers, placeholders, id tables) as an
   extension of `RuleCompiler`.
2. Entry filters of the file and anti-tampering hooks, as guards of
   `HookExecution`'s `Enter`: which signals, trace requests and file types are
   events at all.
3. Numeric and ip comparison, the field switch and the syntax characters of
   regular expressions. Each comparison is one expression of the code; a model of
   it would repeat it.
