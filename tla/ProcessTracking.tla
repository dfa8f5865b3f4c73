-------------------------- MODULE ProcessTracking --------------------------
(***************************************************************************)
(* How the owLSM eBPF programs follow processes: the alive and dead        *)
(* process caches, the pid sets that decide who is monitored and who is    *)
(* protected, and the fork, exec, exit, sys_enter and anti-tampering hooks *)
(* that maintain them while the kernel creates, re-parents, kills and      *)
(* recycles processes on other CPUs.                                       *)
(*                                                                         *)
(* The kernel itself (task table, threads, pid reuse) is external: it is   *)
(* modelled from what the hooks read of it.  Every hook runs on one CPU in *)
(* the context of the task that triggered it; hooks of different tasks     *)
(* interleave, also between a look-up that misses and the write of what    *)
(* was read instead, and between the check of a parent and its mark.       *)
(***************************************************************************)
EXTENDS Naturals, FiniteSets

CONSTANTS
  Pids,       \* thread-group ids, reused by the kernel once released
  InitPid,    \* pid 1: is_system_task() holds for it, and it never exits
  Images,     \* executable files
  FirstImage, \* the image of every process at attach
  Verdicts,   \* rule actions that the configured rules can yield
  Setups,     \* systems that owLSM may be attached to, see SetupAssumption
  MaxClock,   \* bound: tasks created after attach, in any setup
  KillSlots,  \* max_entries of parent_processes_to_kill (32 in the code)
  Granule,    \* start_time units folded into one unique id (2^32 ns)
  Null        \* failed lookup

ASSUME PidAssumption == InitPid \in Pids

EnvChoices ==
  { "ringbuf_full",   \* bpf_ringbuf_reserve may return NULL
    "threads",        \* processes may have a second thread
    "families",       \* a process that runs at attach is the child of another
    "lru_evict",      \* the dead LRU may evict entries
    "helpers",        \* the kernel starts user-mode helpers
    "tampering" }     \* someone signals or traces a protected process

ASSUME SetupAssumption == \A s \in Setups :
  /\ s.owlsm \subseteq Pids       \* pids put into program_related_pids by bpfLoad
  /\ s.guarded \subseteq Pids     \* pids put into protected_processes by bpfLoad
  /\ s.preexist \subseteq Pids    \* other processes that run when owLSM attaches
  /\ InitPid \notin s.owlsm \cup s.guarded \cup s.preexist
  /\ s.parent \in [Pids -> Pids] \* the parents of the processes that run
  /\ \A p \in Pids : s.parent[p] # InitPid =>
       /\ "families" \in s.env
       /\ {p, s.parent[p]} \subseteq s.owlsm \cup s.guarded \cup s.preexist
  /\ s.env \subseteq EnvChoices   \* behaviours of the environment
  /\ s.verdicts \subseteq Verdicts \* the actions of its rules
  /\ s.tasks \in Nat              \* bound: tasks created after attach

ASSUME BoundAssumption ==
  MaxClock \in Nat /\ KillSlots \in Nat /\ Granule \in Nat \ {0}

ASSUME ImageAssumption == FirstImage \in Images

VARIABLES
  setup,        \* the system that owLSM was attached to
  \* the kernel's task table
  clock,        \* start_time of the newest task
  st,           \* life cycle of the thread-group leader
  start_time,   \* task->start_time of the leader
  thr,          \* task->start_time of a second thread, 0 if there is none
  real_parent,  \* task->real_parent, as <<tgid, start_time>>
  image,        \* mm->exe_file
  mm,           \* does the task have an mm (user-mode helpers start without)
  execing,      \* which thread is between the two bprm hooks
  sigkill,      \* processes with a pending SIGKILL
  forker,       \* ghost: who created the process
  lineage,      \* ghost: "related", "protected" (inherited), "helper"
  hooks,        \* hooks that have still to write what they read, see HookT
  \* the maps of common_maps.bpf.h and on_exec.bpf.c
  alive,                  \* alive_process_cache_map
  dead,                   \* dead_process_cache_lru_map, a set keyed by Uid
  related,                \* program_related_pids
  protected,              \* protected_processes
  exec_pids,
  kthread_exec_pids,
  to_kill                 \* parent_processes_to_kill, with a ghost start_time

tasks == <<clock, st, start_time, thr, real_parent, image, mm, execing,
           sigkill, forker, lineage>>
maps  == <<alive, dead, related, protected, exec_pids, kthread_exec_pids,
           to_kill>>
vars  == <<tasks, hooks, maps, setup>>

Env      == setup.env
Owlsm    == setup.owlsm
Guarded  == setup.guarded
Preexist == setup.preexist
Actions  == setup.verdicts \cap Verdicts

States  == {"free", "run", "exit_hook", "headless", "exiting"}
Workers == {"leader", "thread"}
Times   == 0 .. MaxClock

NoForker == [pid |-> InitPid, start |-> 0, monitored |-> FALSE]

\* Does some thread of p still have its mm and its task_struct?
Exists(p) == st[p] # "free"

\* Thread w of p is inside a hook.
Busy(p, w) == \E h \in hooks : h.pid = p /\ h.w = w

\* Thread w of p executes user code and can enter a syscall.
Runs(p, w) ==
  /\ p \notin sigkill /\ ~Busy(p, w)
  /\ execing[p] # w
  /\ \/ w = "leader" /\ st[p] = "run"
     \/ w = "thread" /\ thr[p] # 0 /\ st[p] \in {"run", "exit_hook", "headless"}

TaskStart(p, w) == IF w = "leader" THEN start_time[p] ELSE thr[p]

\* The hooks ignore p: owLSM's own processes and kernel-started helpers.
Ignored(p) == lineage[p] \cap {"related", "helper"} # {}

-----------------------------------------------------------------------------
\* process_t and the process caches.

\* pid << 32 | start_time >> 32
build_process_unique_id(pid, start) == <<pid, start \div Granule>>

UidOf(e) == build_process_unique_id(e.pid, e.start)

ProcessT ==
  [ pid : Pids, start : Times, ppid : Pids,
    unique_ppid : {build_process_unique_id(p, t) : p \in Pids, t \in Times},
    image : Images,
    inc : Times,        \* ghost: the leader's start_time, the incarnation
    remote : BOOLEAN ]  \* ghost: written by a hook of another process

ASSUME NullAssumption == Null \notin ProcessT

\* Mutant: exe_file is not checked.
FillWithoutExeFile(p, start) ==
  [ pid |-> p, start |-> start, ppid |-> real_parent[p][1],
    unique_ppid |-> build_process_unique_id(real_parent[p][1], real_parent[p][2]),
    image |-> Null, inc |-> start_time[p], remote |-> FALSE ]

\* process_t of the task <<p, start>>: every field is read from the task, so
\* ppid is whoever real_parent is at this moment.
fill_process_t(p, start) ==
  [ pid |-> p, start |-> start, ppid |-> real_parent[p][1],
    unique_ppid |-> build_process_unique_id(real_parent[p][1], real_parent[p][2]),
    image |-> image[p], inc |-> start_time[p], remote |-> FALSE ]

get_process_from_dead_proccesses_lru(uid) ==
  IF \E e \in dead : UidOf(e) = uid THEN CHOOSE e \in dead : UidOf(e) = uid
                                    ELSE Null

\* Mutant: the dead LRU is not consulted.
AliveOnly(al, pid, uid) == al[pid]

\* The alive cache is consulted first, by pid alone.
get_process_from_caches(al, pid, uid) ==
  IF al[pid] # Null THEN al[pid] ELSE get_process_from_dead_proccesses_lru(uid)

\* Mutant: the exiting process is not remembered.
ForgetDead(e) == dead

add_process_to_dead_proccesses_lru(e) ==
  {x \in dead : UidOf(x) # UidOf(e)} \cup {e}

\* The alive cache after thread w of p was looked up, filled in when missing.
\* One step: an exec or an exit of p has to wait for its threads' hooks.
fill_event_process_from_cache(al, p, w) ==
  IF al[p] # Null THEN al ELSE [al EXCEPT ![p] = fill_process_t(p, TaskStart(p, w))]

\* Is an event slot to be had from the ring buffer?
Reserve == IF "ringbuf_full" \in Env THEN BOOLEAN ELSE {TRUE}

is_userspace_program(p, w) ==
  /\ mm[p]
  /\ p # InitPid
  /\ ~(w = "leader" /\ p \in kthread_exec_pids)

-----------------------------------------------------------------------------
\* Killing processes from a rule (prevention.bpf.h).

is_process_created_after_ebpf_attached(start) == start > 0

\* Mutant: the unique ids are not compared.
MayKillByPid(al, e) ==
  /\ al[e.ppid] # Null
  /\ is_process_created_after_ebpf_attached(al[e.ppid].start)

\* The parent is marked only if it is the process that the event names.
MayKillParent(al, e) ==
  /\ al[e.ppid] # Null
  /\ e.unique_ppid = UidOf(al[e.ppid])
  /\ is_process_created_after_ebpf_attached(al[e.ppid].start)

\* A hook of thread w of p that has begun.  op is what it does next: read the
\* present parent of p, or the target of a signal, and write it into the alive
\* cache (entry), or mark the parent.
HookT ==
  [ pid : Pids, w : Workers, op : {"parent", "target", "write", "mark"},
    hook : {"exec", "exit", "signal", "other"},
    e : ProcessT,               \* the process of the event
    entry : ProcessT \cup {Null}, action : Verdicts \cup {"ALLOW_EVENT"},
    target : Pids \X Times ]    \* the task that is signalled

HookOf(p, w, hook, e, action, target) ==
  [ pid |-> p, w |-> w, op |-> "parent", hook |-> hook, e |-> e, entry |-> Null,
    action |-> action, target |-> target ]

NoTarget == <<InitPid, 0>>

\* What the action of the matched rule does to the current process, and the
\* check of its parent; others are the hooks that other tasks are in.
kill_proccesses(h, al, others) ==
  /\ sigkill' = IF h.action \in {"BLOCK_KILL_PROCESS", "BLOCK_KILL_PROCESS_KILL_PARENT"}
                  THEN sigkill \cup {h.pid} ELSE sigkill
  /\ hooks' = IF h.action = "BLOCK_KILL_PROCESS_KILL_PARENT" /\ MayKillParent(al, h.e)
                THEN others \cup {[h EXCEPT !.op = "mark", !.hook = "other", !.entry = Null]}
                ELSE others

\* The end of kill_proccesses: the mark, for which there has to be room.
MarkParent(h) ==
  /\ h.op = "mark"
  /\ hooks' = hooks \ {h}
  /\ to_kill' = IF Cardinality(to_kill) < KillSlots \/ \E m \in to_kill : m[1] = h.e.ppid
                  THEN {m \in to_kill : m[1] # h.e.ppid} \cup {<<h.e.ppid, start_time[h.e.ppid]>>}
                  ELSE to_kill
  /\ UNCHANGED <<tasks, alive, dead, related, protected, exec_pids, kthread_exec_pids>>

\* sys_enter: a marked process is killed at its next system call.
SyscallEnter(p, w) ==
  /\ Runs(p, w)
  /\ \E m \in to_kill : m[1] = p
  /\ sigkill' = sigkill \cup {p}
  /\ to_kill' = {m \in to_kill : m[1] # p}
  /\ UNCHANGED <<clock, st, start_time, thr, real_parent, image, mm, execing,
                 forker, lineage, hooks, alive, dead, related, protected,
                 exec_pids, kthread_exec_pids>>

-----------------------------------------------------------------------------
\* Process creation.

\* The kernel creates task c (external): a copy of p, or a helper without mm.
CreateTask(p, w, c, helper) ==
  /\ clock < MaxClock /\ clock < setup.tasks
  /\ st[c] = "free"
  /\ clock' = clock + 1
  /\ st' = [st EXCEPT ![c] = "run"]
  /\ start_time' = [start_time EXCEPT ![c] = clock + 1]
  /\ real_parent' = [real_parent EXCEPT ![c] = <<p, TaskStart(p, w)>>]
  /\ image' = [image EXCEPT ![c] = image[p]]
  /\ mm' = [mm EXCEPT ![c] = ~helper]
  /\ forker' = [forker EXCEPT ![c] = [pid |-> p, start |-> start_time[p],
                  monitored |-> ~Ignored(p) /\ p # InitPid]]
  /\ lineage' = [lineage EXCEPT ![c] = IF helper THEN {"helper"}
                                       ELSE lineage[p] \ {"helper"}]
  /\ UNCHANGED <<thr, execing, sigkill>>

\* fork_hook, at the entry of wake_up_new_task: the child is cached before it
\* runs, unless its creator is not monitored or no event could be reserved.
\* The look-up of its parent finds the creator, which was cached just before.
Fork(p, w, c, ok) ==
  LET child == [ pid |-> c, start |-> clock + 1, ppid |-> p,
                 unique_ppid |-> build_process_unique_id(p, TaskStart(p, w)),
                 image |-> image[p], inc |-> clock + 1, remote |-> FALSE ]
      user == is_userspace_program(p, w)
  IN  /\ Runs(p, w)
      /\ mm[p]
      /\ CreateTask(p, w, c, FALSE)
      /\ protected' = IF user /\ p \in protected THEN protected \cup {c} ELSE protected
      /\ related' = IF user /\ p \in related THEN related \cup {c} ELSE related
      /\ alive' = IF user /\ p \notin related /\ ok
                    THEN [fill_event_process_from_cache(alive, p, w) EXCEPT ![c] = child]
                    ELSE alive
      /\ UNCHANGED <<hooks, dead, exec_pids, kthread_exec_pids, to_kill>>

\* The kernel starts a user-mode helper; current is a kernel thread, so
\* fork_hook returns at once.
SpawnHelper(c) ==
  /\ "helpers" \in Env
  /\ CreateTask(InitPid, "leader", c, TRUE)
  /\ UNCHANGED <<hooks, maps>>

\* A new thread: fork_hook returns at ppid == pid.
NewThread(p) ==
  /\ "threads" \in Env
  /\ p # InitPid /\ mm[p]
  /\ Runs(p, "leader") /\ thr[p] = 0
  /\ clock < MaxClock /\ clock < setup.tasks
  /\ clock' = clock + 1
  /\ thr' = [thr EXCEPT ![p] = clock + 1]
  /\ UNCHANGED <<st, start_time, real_parent, image, mm, execing, sigkill,
                 forker, lineage, hooks, maps>>

-----------------------------------------------------------------------------
\* Exec.

\* bprm_creds_for_exec: the old image is cached while it can still be read.
BprmCredsForExec(p, w) ==
  /\ Runs(p, w) /\ p # InitPid
  /\ execing[p] = "none"
  /\ execing' = [execing EXCEPT ![p] = w]
  /\ kthread_exec_pids' = IF p \notin related /\ ~mm[p]
                            THEN kthread_exec_pids \cup {p} ELSE kthread_exec_pids
  /\ alive' = IF p \notin related /\ mm[p]
                THEN fill_event_process_from_cache(alive, p, w) ELSE alive
  /\ UNCHANGED <<clock, st, start_time, thr, real_parent, image, mm, sigkill,
                 forker, lineage, hooks, dead, related, protected, exec_pids,
                 to_kill>>

\* The kernel gives up on the exec; once the old leader is gone this kills
\* the process (external).
ExecFails(p) ==
  /\ execing[p] # "none" /\ st[p] \in {"run", "headless"}
  /\ execing' = [execing EXCEPT ![p] = "none"]
  /\ sigkill' = IF st[p] = "run" THEN sigkill ELSE sigkill \cup {p}
  /\ UNCHANGED <<clock, st, start_time, thr, real_parent, image, mm, forker,
                 lineage, hooks, maps>>

\* bprm_committed_creds: the new image is in place and the other threads are
\* gone, after the hooks that they were in; a thread that execs has taken over
\* the leader's identity.
BprmCommittedCreds(p, img) ==
  /\ p \notin sigkill /\ \A h \in hooks : h.pid # p
  /\ \/ execing[p] = "leader" /\ st[p] = "run"
     \/ execing[p] = "thread" /\ st[p] = "headless"
  /\ execing' = [execing EXCEPT ![p] = "none"]
  /\ st' = [st EXCEPT ![p] = "run"]
  /\ thr' = [thr EXCEPT ![p] = 0]
  /\ mm' = [mm EXCEPT ![p] = TRUE]
  /\ image' = [image EXCEPT ![p] = img]
  /\ real_parent' = [c \in Pids |-> IF real_parent[c][1] = p
                                      THEN <<p, start_time[p]>> ELSE real_parent[c]]
  /\ exec_pids' = IF p \notin related /\ p \notin kthread_exec_pids
                    THEN exec_pids \cup {p} ELSE exec_pids
  /\ UNCHANGED <<clock, start_time, sigkill, forker, lineage, hooks, alive, dead,
                 related, protected, kthread_exec_pids, to_kill>>

\* Mutant: the new process keeps the parent that the task has now.
NewProcessFromTask(p, w, old) == fill_process_t(p, TaskStart(p, w))

\* The process_t that replaces old: the new image, with the original parent.
NewProcess(p, w, old) ==
  LET new == fill_process_t(p, TaskStart(p, w))
  IN  [ pid |-> p, start |-> new.start, ppid |-> old.ppid,
        unique_ppid |-> old.unique_ppid, image |-> new.image, inc |-> new.inc,
        remote |-> FALSE ]

\* Mutant: the pid leaves exec_pids before the event is reserved.
ExecHookEarlyDelete(p, w, ok, action) ==
  /\ Runs(p, w) /\ mm[p]
  /\ p \in exec_pids
  /\ exec_pids' = exec_pids \ {p}
  /\ alive' = IF ok /\ alive[p] # Null
                THEN [alive EXCEPT ![p] = NewProcess(p, w, alive[p])] ELSE alive
  /\ UNCHANGED <<tasks, hooks, dead, related, protected, kthread_exec_pids, to_kill>>

\* The rest of hook h once it has the parent, with al as the alive cache and
\* others as the hooks of other tasks: exec_hook replaces the cached process,
\* exit_hook remembers it, signal_hook looks its target up; the rules are
\* matched.
Rest(h, al, others) ==
  /\ alive' = IF h.hook = "exec" THEN [al EXCEPT ![h.pid] = NewProcess(h.pid, h.w, h.e)] ELSE al
  /\ exec_pids' = IF h.hook = "exec" THEN exec_pids \ {h.pid} ELSE exec_pids
  /\ dead' = IF h.hook = "exit" THEN add_process_to_dead_proccesses_lru(h.e) ELSE dead
  /\ IF h.hook = "signal" /\ al[h.target[1]] = Null
       THEN /\ hooks' = others \cup {[h EXCEPT !.op = "target", !.hook = "other", !.entry = Null]}
            /\ UNCHANGED sigkill
       ELSE kill_proccesses([h EXCEPT !.target = NoTarget], alive', others)

\* h looks the parent of its process up, with al as the alive cache: a miss in
\* both caches makes it read the *present* parent of its task instead.
fill_event_parent_process_from_cache(h, al) ==
  IF get_process_from_caches(al, h.e.ppid, h.e.unique_ppid) # Null THEN Rest(h, al, hooks)
  ELSE /\ hooks' = hooks \cup {h}
       /\ alive' = al
       /\ UNCHANGED <<dead, exec_pids, sigkill>>

\* What fill_process_t may return for task t; it fails for a task that has lost
\* its mm, as an exiting one has from some moment on.
Fills(t) ==
  LET p == t[1]
      there == /\ Exists(p) /\ mm[p]
               /\ t[2] = start_time[p] \/ (thr[p] # 0 /\ t[2] = thr[p])
  IN  (IF there THEN {[fill_process_t(p, t[2]) EXCEPT !.remote = TRUE]} ELSE {})
        \cup (IF there /\ st[p] \in {"run", "exit_hook"} THEN {} ELSE {Null})

\* The task that h looked up in vain is read.  The failure for a parent is
\* ignored, that for a target ends signal_hook.
FillRemote(h) ==
  /\ h.op \in {"parent", "target"}
  /\ \E new \in Fills(IF h.op = "parent" THEN real_parent[h.pid] ELSE h.target) :
       hooks' = (hooks \ {h}) \cup
         (IF h.op = "target" /\ new = Null THEN {}
          ELSE {[h EXCEPT !.op = "write", !.entry = new,
                          !.target = IF h.op = "target" THEN NoTarget ELSE @]})
  /\ UNCHANGED <<tasks, maps>>

\* What was read goes into the alive cache, whatever is there or happened to
\* the task meanwhile; what a failed fill left behind goes under pid 0, which
\* nobody looks up.
WriteRemote(h) ==
  /\ h.op = "write"
  /\ Rest(h, IF h.entry = Null THEN alive ELSE [alive EXCEPT ![h.entry.pid] = h.entry],
          hooks \ {h})
  /\ UNCHANGED <<clock, st, start_time, thr, real_parent, image, mm, execing,
                 forker, lineage, related, protected, kthread_exec_pids, to_kill>>

\* exec_hook at file_open: the first open after an exec reports the EXEC
\* event and replaces the cached process.  When no event can be reserved or
\* the process is not cached, nothing changes until the next open.
ExecHook(p, w, ok, action) ==
  /\ Runs(p, w) /\ mm[p]
  /\ p \in exec_pids
  /\ ok /\ alive[p] # Null
  /\ fill_event_parent_process_from_cache(HookOf(p, w, "exec", alive[p], action, NoTarget), alive)
  /\ UNCHANGED <<clock, st, start_time, thr, real_parent, image, mm, execing,
                 forker, lineage, related, protected, kthread_exec_pids, to_kill>>

-----------------------------------------------------------------------------
\* The other hooks.

\* Every other monitored operation (chmod, write, connect, ...).
MonitoredHook(p, w, ok, action) ==
  LET al == fill_event_process_from_cache(alive, p, w)
  IN  /\ Runs(p, w)
      /\ is_userspace_program(p, w) /\ p \notin related
      /\ ok
      /\ fill_event_parent_process_from_cache(HookOf(p, w, "other", al[p], action, NoTarget), al)
      /\ UNCHANGED <<clock, st, start_time, thr, real_parent, image, mm, execing,
                     forker, lineage, related, protected, kthread_exec_pids, to_kill>>

\* signal_hook (and ptrace_hook): p signals the protected process q.  Neither
\* asks whether p or q is one that the other hooks ignore.
SignalHook(p, w, q, ok, action) ==
  LET al == fill_event_process_from_cache(alive, p, w)
  IN  /\ "tampering" \in Env
      /\ Runs(p, w) /\ p # InitPid /\ mm[p]
      /\ q \in protected /\ p \notin protected
      /\ st[q] = "run" /\ mm[q]
      /\ ok
      /\ fill_event_parent_process_from_cache(
           HookOf(p, w, "signal", al[p], action, <<q, start_time[q]>>), al)
      /\ UNCHANGED <<clock, st, start_time, thr, real_parent, image, mm, execing,
                     forker, lineage, related, protected, kthread_exec_pids, to_kill>>

-----------------------------------------------------------------------------
\* Process exit.

\* Mutants of the three removals below: the helper's pid is kept, protection
\* goes only with the EXIT event, a protected pid stays related.
KeepKthreadExec(p, user) == kthread_exec_pids

DropProtectedWithEvent(p, user, reported) ==
  IF reported THEN protected \ {p} ELSE protected

DropRelatedUnlessProtected(p, user) ==
  IF user /\ p \notin protected THEN related \ {p} ELSE related

\* What exit_hook removes before it can fail to reserve an event.
DropKthreadExec(p, user) ==
  IF user THEN kthread_exec_pids ELSE kthread_exec_pids \ {p}

DropProtected(p, user, reported) == IF user THEN protected \ {p} ELSE protected

DropRelated(p, user) == IF user THEN related \ {p} ELSE related

\* exit_hook of a thread-group leader up to the insertion into the dead LRU.
\* The leader of a thread that execs is killed by the kernel.
ExitHook(p, ok) ==
  LET user     == is_userspace_program(p, "leader")
      reported == user /\ p \notin related /\ ok
      al       == fill_event_process_from_cache(alive, p, "leader")
  IN  /\ st[p] = "run" /\ p # InitPid
      /\ execing[p] # "leader" /\ ~Busy(p, "leader")
      /\ st' = [st EXCEPT ![p] = IF reported THEN "exit_hook"
                                 ELSE IF thr[p] # 0 THEN "headless" ELSE "exiting"]
      /\ kthread_exec_pids' = DropKthreadExec(p, user)
      /\ protected' = DropProtected(p, user, reported)
      /\ related' = DropRelated(p, user)
      /\ IF reported
           THEN fill_event_parent_process_from_cache(
                  HookOf(p, "leader", "exit", al[p], "ALLOW_EVENT", NoTarget), al)
           ELSE UNCHANGED <<hooks, alive, dead, exec_pids, sigkill>>
      /\ UNCHANGED <<clock, start_time, thr, real_parent, image, mm, execing,
                     forker, lineage, to_kill>>

\* exit_hook's last map update; another CPU may look p up in between.
ExitHookDelete(p) ==
  /\ st[p] = "exit_hook" /\ ~Busy(p, "leader")
  /\ alive' = [alive EXCEPT ![p] = Null]
  /\ st' = [st EXCEPT ![p] = IF thr[p] # 0 THEN "headless" ELSE "exiting"]
  /\ UNCHANGED <<clock, start_time, thr, real_parent, image, mm, execing,
                 sigkill, forker, lineage, hooks, dead, related, protected,
                 exec_pids, kthread_exec_pids, to_kill>>

\* The second thread exits: exit_hook returns at tgid != pid.  Its children
\* pass to the leader (external).
ThreadExit(p) ==
  /\ thr[p] # 0 /\ execing[p] # "thread" /\ ~Busy(p, "thread")
  /\ thr' = [thr EXCEPT ![p] = 0]
  /\ st' = IF st[p] = "headless" THEN [st EXCEPT ![p] = "exiting"] ELSE st
  /\ real_parent' = [c \in Pids |-> IF real_parent[c] = <<p, thr[p]>>
                                      THEN <<p, start_time[p]>> ELSE real_parent[c]]
  /\ UNCHANGED <<clock, start_time, image, mm, execing, sigkill, forker,
                 lineage, hooks, maps>>

\* The kernel reaps p: its children pass to init, the pid may be reused
\* (external; no hook runs).
Release(p) ==
  /\ st[p] = "exiting"
  /\ st' = [st EXCEPT ![p] = "free"]
  /\ sigkill' = sigkill \ {p}
  /\ start_time' = [start_time EXCEPT ![p] = 0]
  /\ real_parent' = [c \in Pids |-> IF c = p \/ real_parent[c][1] = p
                                      THEN <<InitPid, 0>> ELSE real_parent[c]]
  /\ image' = [image EXCEPT ![p] = FirstImage]
  /\ mm' = [mm EXCEPT ![p] = FALSE]
  /\ forker' = [forker EXCEPT ![p] = NoForker]
  /\ lineage' = [lineage EXCEPT ![p] = {}]
  /\ UNCHANGED <<clock, thr, execing, hooks, maps>>

\* The dead LRU is full and drops an entry (external).
Evict(e) ==
  /\ "lru_evict" \in Env
  /\ dead' = dead \ {e}
  /\ UNCHANGED <<tasks, hooks, alive, related, protected, exec_pids,
                 kthread_exec_pids, to_kill>>

-----------------------------------------------------------------------------
Running == {InitPid} \cup Owlsm \cup Guarded \cup Preexist

\* bpfLoad has filled the two pid sets; the caches start empty.
Init ==
  /\ setup \in Setups
  /\ clock = 0
  /\ st = [p \in Pids |-> IF p \in Running THEN "run" ELSE "free"]
  /\ start_time = [p \in Pids |-> 0]
  /\ thr = [p \in Pids |-> 0]
  /\ real_parent = [p \in Pids |-> <<setup.parent[p], 0>>]
  /\ image = [p \in Pids |-> FirstImage]
  /\ mm = [p \in Pids |-> p \in Running]
  /\ execing = [p \in Pids |-> "none"]
  /\ sigkill = {}
  /\ forker = [p \in Pids |-> NoForker]
  /\ lineage = [p \in Pids |-> {l \in {"related", "protected"} :
                   IF l = "related" THEN p \in Owlsm ELSE p \in Guarded}]
  /\ hooks = {}
  /\ alive = [p \in Pids |-> Null]
  /\ dead = {}
  /\ related = Owlsm
  /\ protected = Guarded
  /\ exec_pids = {}
  /\ kthread_exec_pids = {}
  /\ to_kill = {}

Step ==
  \/ \E p \in Pids, w \in Workers :
       \/ SyscallEnter(p, w)
       \/ BprmCredsForExec(p, w)
       \/ \E c \in Pids, ok \in Reserve : Fork(p, w, c, ok)
       \/ \E ok \in Reserve, a \in Actions :
            ExecHook(p, w, ok, a) \/ MonitoredHook(p, w, ok, a)
       \/ \E q \in Pids, ok \in Reserve, a \in Actions : SignalHook(p, w, q, ok, a)
  \/ \E p \in Pids :
       \/ SpawnHelper(p) \/ NewThread(p) \/ ExecFails(p)
       \/ \E img \in Images : BprmCommittedCreds(p, img)
       \/ \E ok \in Reserve : ExitHook(p, ok)
       \/ ExitHookDelete(p) \/ ThreadExit(p) \/ Release(p)
  \/ \E h \in hooks : FillRemote(h) \/ WriteRemote(h) \/ MarkParent(h)
  \/ \E e \in dead : Evict(e)

Next == Step /\ UNCHANGED setup

Spec == Init /\ [][Next]_vars

-----------------------------------------------------------------------------
\* Properties.

\* Nothing in the environment interferes with the hooks.
Quiet == Env = {}

NoThreads == "threads" \notin Env

\* Type correctness of the task table and of the maps.
TypeOK ==
  /\ clock \in Times
  /\ st \in [Pids -> States]
  /\ start_time \in [Pids -> Times] /\ thr \in [Pids -> Times]
  /\ real_parent \in [Pids -> Pids \X Times]
  /\ image \in [Pids -> Images] /\ mm \in [Pids -> BOOLEAN]
  /\ execing \in [Pids -> Workers \cup {"none"}] /\ sigkill \subseteq Pids
  /\ forker \in [Pids -> [pid : Pids, start : Times, monitored : BOOLEAN]]
  /\ lineage \in [Pids -> SUBSET {"related", "protected", "helper"}]
  /\ hooks \subseteq HookT
  /\ alive \in [Pids -> ProcessT \cup {Null}]
  /\ dead \subseteq ProcessT
  /\ related \subseteq Pids /\ protected \subseteq Pids
  /\ exec_pids \subseteq Pids /\ kthread_exec_pids \subseteq Pids
  /\ to_kill \subseteq Pids \X Times

\* e is the cache entry of the process that owns its pid now.
IsCurrent(e) == Exists(e.pid) /\ start_time[e.pid] = e.inc

\* p is inside the life of its process as far as exit_hook is concerned.
NotYetExited(p) == st[p] \in {"run", "exit_hook"}

\* The alive cache holds running processes only.
AliveIsExact ==
  \A p \in Pids : alive[p] # Null => IsCurrent(alive[p]) /\ NotYetExited(p)

\* In a quiet environment an entry of the alive cache is that of the pid's
\* present owner and is gone once exit_hook has run, whatever is looked up,
\* and cached again, on other CPUs meanwhile.
AliveEntryIsLive == Quiet => AliveIsExact

\* p was forked by a monitored process after attach and is in the alive cache.
Tracked(p) ==
  alive[p] # Null /\ IsCurrent(alive[p]) /\ start_time[p] > 0 /\ forker[p].monitored

\* Such a process stays attributed to the process that forked it, through exec
\* (which re-reads the task) and through re-parenting to init.
OriginalParentKept ==
  Quiet => \A p \in Pids : Tracked(p) =>
    /\ alive[p].ppid = forker[p].pid
    /\ alive[p].unique_ppid = build_process_unique_id(forker[p].pid, forker[p].start)

\* The parent of such a process can be looked up at every moment, in the alive
\* cache until exit_hook has put it into the dead LRU: there is no instant at
\* which it is in neither.
ParentIsFindable ==
  Quiet => \A p \in Pids : Tracked(p) =>
    \/ \E e \in dead : UidOf(e) = alive[p].unique_ppid
    \/ /\ alive[alive[p].ppid] # Null
       /\ UidOf(alive[alive[p].ppid]) = alive[p].unique_ppid

\* A process that was cached by its own hooks, or by its creator, with an image
\* that is not the one running is one whose exec is still recorded in exec_pids,
\* so the next open reports it: a failed reservation in exec_hook, or an exec by a
\* second thread, loses no image change.  A child or a sender of signals may write
\* an image that it read before the exec (README, section 6).
StaleImageIsPending ==
  \A p \in Pids :
    alive[p] # Null /\ IsCurrent(alive[p]) /\ ~alive[p].remote /\ ~Ignored(p)
      /\ alive[p].image # image[p] => p \in exec_pids

ProtectedIsExact ==
  protected = {p \in Pids : st[p] = "run" /\ "protected" \in lineage[p]}

RelatedIsExact ==
  related = {p \in Pids : st[p] = "run" /\ "related" \in lineage[p]}

KthreadExecIsExact ==
  \A p \in kthread_exec_pids : st[p] = "run" /\ "helper" \in lineage[p]

\* Without second threads protected_processes is exactly the running
\* descendants of the processes it was loaded with: fork_hook and exit_hook
\* keep it so before they can fail to reserve an event, and a recycled pid
\* never inherits protection.
ProtectedIsLineage == NoThreads => ProtectedIsExact

\* The same for program_related_pids, from which a stale pid would exempt an
\* unrelated process from every rule.
RelatedIsLineage == NoThreads => RelatedIsExact

\* kthread_exec_pids, which exempts from monitoring too, names running
\* kernel-started helpers only, never a later owner of the pid.
KthreadExecIsHelper == NoThreads => KthreadExecIsExact

Marking == {h \in hooks : h.op = "mark"}

\* A parent is about to be marked for killing only if it exists and has the pid
\* and, up to the granule of the unique id, the start time of the process that
\* forked the offender: the check rejects the later owner of a recycled pid.
\* Nothing else marks a process.
MarksOriginalParent ==
  [][Quiet =>
       /\ \A h \in Marking' \ Marking :
            /\ Exists(h.e.ppid)
            /\ build_process_unique_id(h.e.ppid, start_time[h.e.ppid]) =
                 build_process_unique_id(forker[h.pid].pid, forker[h.pid].start)
       /\ \A m \in to_kill' \ to_kill : \E h \in Marking : h.e.ppid = m[1]]_vars

\* A marked pid still belongs to the process that was marked.
MarkIsCurrent ==
  \A m \in to_kill : Exists(m[1]) /\ start_time[m[1]] = m[2]
=============================================================================
