--------------------------- MODULE HookExecution ----------------------------
(***************************************************************************)
(* How a monitored hook decides: allocate and fill an event, copy it to    *)
(* the CPU's currently_handled_event, tail call, match the rules, submit,  *)
(* kill, return the verdict, and for READ and WRITE look the verdict up in *)
(* and enter it into the verdict caches (tail_calls_manager.bpf.h,         *)
(* event_caching.bpf.h, prevention.bpf.h, the programs of                  *)
(* syscall_monitoring).                                                    *)
(*                                                                         *)
(* Hooks run on several CPUs.  On one CPU a softirq may interrupt a task's *)
(* hook between any two steps, run inet_conn_request to its end and let    *)
(* the task's hook continue.  The event that a rule sees is reduced to its *)
(* context: the image of the process and the attributes of the file; rules *)
(* is the action of the first rule that matches a context (RuleMatching    *)
(* shows how it is found), ALLOW_EVENT if none does.  The matching itself  *)
(* is one step: it reads the slot when it evaluates and writes the action  *)
(* that it found in a later step.                                          *)
(***************************************************************************)
EXTENDS Naturals

CONSTANTS Cpus, Procs, Files,
          Images,      \* what exec may turn a process into
          Modes,       \* what chmod, chown or rename may turn a file into
          Rules,       \* the rule sets that may be loaded: functions from contexts to actions
          Envs,        \* the environments: what may happen besides hooks
          MaxEvents    \* bound: events allocated

Happenings == {"softirq", "exec", "file_change", "evict", "ringbuf_full"}
Actions == {"ALLOW_EVENT", "BLOCK_EVENT", "BLOCK_KILL_PROCESS",
            "BLOCK_KILL_PROCESS_KILL_PARENT", "KILL_PROCESS", "EXCLUDE_EVENT"}
Blocking == {"BLOCK_EVENT", "BLOCK_KILL_PROCESS", "BLOCK_KILL_PROCESS_KILL_PARENT"}

Keys == Procs \X Files
Conn == <<"conn", "conn">>              \* the context of a connection request
NoKey == <<"conn", "conn">>             \* an event that is not cached
Contexts == (Images \X Modes) \union {Conn}
Levels == {"task", "irq"}
Hooks == {"write_hook", "chmod_hook", "inet_conn_request_hook"}

ASSUME ConstantsOK ==
    /\ Rules \subseteq [Contexts -> Actions]
    /\ Envs \subseteq SUBSET Happenings
    /\ MaxEvents \in Nat
    /\ NoKey \notin Keys

VARIABLES env,        \* the environment of this behaviour
          rules,      \* the rules loaded
          image,      \* image of each process
          mode,       \* attributes of each file
          frames,     \* the hook that a CPU runs for its task, and in a softirq
          currently_handled_event,  \* per CPU
          private_cache,            \* per CPU verdict LRU
          global_cache,             \* verdict LRU of all CPUs
          next_id,    \* global_event_id_counter
          sent,       \* events submitted to the ring buffer, and the event of the hook that did
          killed,     \* processes that were sent SIGKILL
          last        \* the hook that returned last, and what it decided

vars == <<env, rules, image, mode, frames, currently_handled_event, private_cache,
          global_cache, next_id, sent, killed, last>>

ALLOW == "ALLOW"
DENY == "DENY"
NOT_IN_CACHE == "NOT_IN_CACHE"
Cached == {ALLOW, DENY, NOT_IN_CACHE}

Frame(hook, p, f, pc, id, ctx) ==
    [hook |-> hook, proc |-> p, file |-> f, pc |-> pc, id |-> id, ctx |-> ctx]

\* The task's frame of an idle CPU remembers the hook that ran last; what it
\* holds is never read.
Idle(fr) == Frame(fr.hook, fr.proc, fr.file, "idle", 0, Conn)

ContextOf(p, f) == <<image[p], mode[f]>>

Verdict(action) == IF action \in Blocking THEN DENY ELSE ALLOW

Init ==
    /\ env \in Envs
    /\ rules \in Rules
    /\ image \in [Procs -> Images]
    /\ mode \in [Files -> Modes]
    /\ \E p \in Procs, f \in Files :
          /\ frames = [c \in Cpus |-> [l \in Levels |-> Frame("chmod_hook", p, f, "idle", 0, Conn)]]
          /\ last = [hook |-> "chmod_hook", proc |-> p, file |-> f, ctx |-> Conn, id |-> 0,
                     verdict |-> ALLOW, how |-> "unmonitored"]
    /\ currently_handled_event = [c \in Cpus |-> [id |-> 0, ctx |-> Conn, key |-> NoKey, action |-> "ALLOW_EVENT"]]
    /\ private_cache = [c \in Cpus |-> [k \in Keys |-> NOT_IN_CACHE]]
    /\ global_cache = [k \in Keys |-> NOT_IN_CACHE]
    /\ next_id = 1
    /\ sent = {}
    /\ killed = {}

-----------------------------------------------------------------------------
Level(c) == IF frames[c]["irq"].pc # "idle" THEN "irq" ELSE "task"
Running(c) == frames[c][Level(c)]

SetFrame(c, fr) == frames' = [frames EXCEPT ![c][Level(c)] = fr]

\* The hook returns v to its caller in the kernel.
ReturnWith(c, v, how) ==
    LET fr == Running(c) IN
    /\ SetFrame(c, Idle(fr))
    /\ last' = [hook |-> fr.hook, proc |-> fr.proc, file |-> fr.file, ctx |-> fr.ctx,
                id |-> fr.id, verdict |-> v, how |-> how]

(***************************************************************************)
(* A monitored process calls into the kernel on an idle CPU.  Exempt       *)
(* processes and kernel tasks return at once (ProcessTracking).  A task    *)
(* leaves its CPU between two hooks only: LSM programs run with migration  *)
(* disabled, and where the kernel does not preempt itself a hook is not    *)
(* interrupted by another task's.                                          *)
(***************************************************************************)
Enter(c, hook, p, f) ==
    /\ frames[c]["task"].pc = "idle" /\ frames[c]["irq"].pc = "idle"
    /\ p \notin killed /\ next_id <= MaxEvents
    /\ frames' = [frames EXCEPT ![c]["task"] =
          Frame(hook, p, f, IF hook = "write_hook" THEN "lookup" ELSE "fill", 0, Conn)]
    /\ UNCHANGED <<env, rules, image, mode, currently_handled_event, private_cache,
                   global_cache, next_id, sent, killed, last>>

\* A connection request arrives in a softirq, for a socket whose owner has
\* called accept; what it interrupts is the current task.
Softirq(c) ==
    /\ "softirq" \in env
    /\ frames[c]["irq"].pc = "idle" /\ next_id <= MaxEvents
    /\ frames' = [frames EXCEPT ![c]["irq"] =
          Frame("inet_conn_request_hook", frames[c]["task"].proc, frames[c]["task"].file, "fill", 0, Conn)]
    /\ UNCHANGED <<env, rules, image, mode, currently_handled_event, private_cache,
                   global_cache, next_id, sent, killed, last>>

KeyByFile(fr) == IF fr.hook = "write_hook" THEN <<CHOOSE p \in Procs : TRUE, fr.file>> ELSE NoKey

\* What an event is cached under: a hash of the process's unique id and the
\* file's inode, device and dentry, taken to be collision free.
KeyOf(fr) == IF fr.hook = "write_hook" THEN <<fr.proc, fr.file>> ELSE NoKey

(***************************************************************************)
(* The verdict caches.  bpf_map_update_elem on a per-CPU hash writes the   *)
(* value of this CPU; when it makes the entry, the kernel fills the values *)
(* of the other CPUs with zero, which is ALLOW.                            *)
(***************************************************************************)
PerCpuUpdate(cache, c, k, v) ==
    [d \in Cpus |-> [cache[d] EXCEPT ![k] =
        IF d = c THEN v ELSE IF cache[d][k] = NOT_IN_CACHE THEN ALLOW ELSE cache[d][k]]]

get_event_verdict_from_cache(c, k) ==
    IF private_cache[c][k] # NOT_IN_CACHE THEN private_cache[c][k] ELSE global_cache[k]

Lookup(c) ==
    /\ Running(c).pc = "lookup"
    /\ LET k == KeyOf(Running(c))
           v == get_event_verdict_from_cache(c, k)
       IN /\ private_cache' = IF private_cache[c][k] = NOT_IN_CACHE /\ v # NOT_IN_CACHE
                                THEN PerCpuUpdate(private_cache, c, k, v) ELSE private_cache
          /\ IF v # NOT_IN_CACHE
               THEN ReturnWith(c, v, "cached")
               ELSE /\ SetFrame(c, [Running(c) EXCEPT !.pc = "fill"])
                    /\ UNCHANGED last
    /\ UNCHANGED <<env, rules, image, mode, currently_handled_event, global_cache, next_id, sent, killed>>

CacheFailOpen(c) ==
    /\ "ringbuf_full" \in env
    /\ Running(c).pc = "fill" /\ Running(c).hook = "write_hook"
    /\ ReturnWith(c, ALLOW, "unmonitored")
    /\ global_cache' = [global_cache EXCEPT ![KeyOf(Running(c))] = ALLOW]
    /\ UNCHANGED <<env, rules, image, mode, currently_handled_event, private_cache,
                   next_id, sent, killed>>

\* A full ring buffer leaves no room even to build the event: fail open.
FailOpen(c) ==
    /\ "ringbuf_full" \in env
    /\ Running(c).pc = "fill" /\ Running(c).hook # "inet_conn_request_hook"
    /\ ReturnWith(c, ALLOW, "unmonitored")
    /\ UNCHANGED <<env, rules, image, mode, currently_handled_event, private_cache,
                   global_cache, next_id, sent, killed>>

FillWithoutStore(c) ==
    /\ Running(c).pc = "fill"
    /\ LET fr == Running(c) IN
       SetFrame(c, Frame(fr.hook, fr.proc, fr.file, "match", next_id, ContextOf(fr.proc, fr.file)))
    /\ next_id' = next_id + 1
    /\ UNCHANGED <<env, rules, image, mode, currently_handled_event, private_cache,
                   global_cache, sent, killed, last>>

\* The event is allocated, filled and copied to the CPU's slot, and the hook
\* tail calls its second half.
Fill(c) ==
    /\ Running(c).pc = "fill"
    /\ LET fr == Running(c)
           ctx == IF fr.hook = "inet_conn_request_hook" THEN Conn ELSE ContextOf(fr.proc, fr.file)
       IN /\ SetFrame(c, Frame(fr.hook, fr.proc, fr.file, "match", next_id, ctx))
          /\ currently_handled_event' = [currently_handled_event EXCEPT ![c] =
                [id |-> next_id, ctx |-> ctx, key |-> KeyOf(fr), action |-> "ALLOW_EVENT"]]
    /\ next_id' = next_id + 1
    /\ UNCHANGED <<env, rules, image, mode, private_cache, global_cache, sent, killed, last>>

\* generic_tail_call: the rules are evaluated on whatever event is in the slot.
Match(c) ==
    /\ Running(c).pc = "match"
    /\ SetFrame(c, [Running(c) EXCEPT !.pc = rules[currently_handled_event[c].ctx]])
    /\ UNCHANGED <<env, rules, image, mode, currently_handled_event, private_cache,
                   global_cache, next_id, sent, killed, last>>

\* The rule that matched sets the action of whatever event is in the slot.
SetAction(c) ==
    /\ Running(c).pc \in Actions
    /\ currently_handled_event' = [currently_handled_event EXCEPT ![c] =
          LET e == currently_handled_event[c] IN
          IF Running(c).pc = "ALLOW_EVENT" THEN e
          ELSE [id |-> e.id, ctx |-> e.ctx, key |-> e.key, action |-> Running(c).pc]]
    /\ SetFrame(c, [Running(c) EXCEPT !.pc = "apply"])
    /\ UNCHANGED <<env, rules, image, mode, private_cache, global_cache, next_id, sent, killed, last>>

KillUnlessAllowed == Actions \ {"ALLOW_EVENT"}

\* The actions on which kill_proccesses sends SIGKILL to the current task.
kill_proccesses == {"BLOCK_KILL_PROCESS", "BLOCK_KILL_PROCESS_KILL_PARENT"}

SubmitExcluded(e, by) ==
    {[id |-> e.id, by |-> by, ctx |-> e.ctx, action |-> e.action]}

SubmitUnblocked(e, by) ==
    IF e.action \in Blocking THEN {} ELSE SubmitExcluded(e, by)

submit_event(e, by) ==
    IF e.id > 0 /\ e.action # "EXCLUDE_EVENT"
      THEN {[id |-> e.id, by |-> by, ctx |-> e.ctx, action |-> e.action]} ELSE {}

\* The event is submitted, if the ring buffer has room for its copy, and the
\* current task killed.  The write hooks go on to cache the verdict.
Apply(c) ==
    /\ Running(c).pc = "apply"
    /\ LET e == currently_handled_event[c]
       IN /\ \/ sent' = sent \union submit_event(e, Running(c).id)
             \/ "ringbuf_full" \in env /\ UNCHANGED sent
          /\ killed' = IF e.action \in kill_proccesses
                         THEN killed \union {frames[c]["task"].proc} ELSE killed
          /\ IF Running(c).hook = "write_hook"
               THEN /\ SetFrame(c, [Running(c) EXCEPT !.pc = Verdict(e.action)])
                    /\ UNCHANGED last
               ELSE ReturnWith(c, Verdict(e.action), "evaluated")
    /\ UNCHANGED <<env, rules, image, mode, currently_handled_event, private_cache, global_cache, next_id>>

CacheSlotOwner(c) ==
    /\ Running(c).pc \in {ALLOW, DENY}
    /\ LET k == KeyOf(Running(c))
           v == Running(c).pc
       IN /\ global_cache' = [global_cache EXCEPT ![k] = v]
          /\ private_cache' = PerCpuUpdate(private_cache, c, k, v)
          /\ ReturnWith(c, v, "evaluated")
    /\ UNCHANGED <<env, rules, image, mode, currently_handled_event, next_id, sent, killed>>

\* The verdict is entered under the hash of the event that is in the slot.
UpdateCache(c) ==
    /\ Running(c).pc \in {ALLOW, DENY}
    /\ LET k == currently_handled_event[c].key
           v == Running(c).pc
       IN /\ global_cache' = IF k = NoKey THEN global_cache ELSE [global_cache EXCEPT ![k] = v]
          /\ private_cache' = IF k = NoKey THEN private_cache ELSE PerCpuUpdate(private_cache, c, k, v)
          /\ ReturnWith(c, v, "evaluated")
    /\ UNCHANGED <<env, rules, image, mode, currently_handled_event, next_id, sent, killed>>

-----------------------------------------------------------------------------
(* What happens around the hooks. *)

\* A process that is in no hook execs another image; its pid and its start
\* time, and with them its unique id, stay.
Exec(p, i) ==
    /\ "exec" \in env
    /\ \A c \in Cpus : frames[c]["task"].pc = "idle" \/ frames[c]["task"].proc # p
    /\ image[p] # i /\ image' = [image EXCEPT ![p] = i]
    /\ UNCHANGED <<env, rules, mode, frames, currently_handled_event, private_cache,
                   global_cache, next_id, sent, killed, last>>

FileChange(f, a) ==
    /\ "file_change" \in env
    /\ mode[f] # a /\ mode' = [mode EXCEPT ![f] = a]
    /\ UNCHANGED <<env, rules, image, frames, currently_handled_event, private_cache,
                   global_cache, next_id, sent, killed, last>>

\* The maps are LRU maps: an entry may go at any time, a per-CPU one goes on
\* every CPU.
Evict(k) ==
    /\ "evict" \in env
    /\ \/ global_cache[k] # NOT_IN_CACHE /\ global_cache' = [global_cache EXCEPT ![k] = NOT_IN_CACHE]
          /\ UNCHANGED private_cache
       \/ /\ \E c \in Cpus : private_cache[c][k] # NOT_IN_CACHE
          /\ private_cache' = [c \in Cpus |-> [private_cache[c] EXCEPT ![k] = NOT_IN_CACHE]]
          /\ UNCHANGED global_cache
    /\ UNCHANGED <<env, rules, image, mode, frames, currently_handled_event, next_id, sent, killed, last>>

Next ==
    \/ \E c \in Cpus :
        \/ \E hook \in {"write_hook", "chmod_hook"}, p \in Procs, f \in Files : Enter(c, hook, p, f)
        \/ Softirq(c) \/ Lookup(c) \/ FailOpen(c) \/ Fill(c) \/ Match(c) \/ SetAction(c) \/ Apply(c) \/ UpdateCache(c)
    \/ \E p \in Procs, i \in Images : Exec(p, i)
    \/ \E f \in Files, a \in Modes : FileChange(f, a)
    \/ \E k \in Keys : Evict(k)

Spec == Init /\ [][Next]_vars

-----------------------------------------------------------------------------
FrameT == [hook : Hooks, proc : Procs, file : Files,
           pc : {"idle", "lookup", "fill", "match", "apply", ALLOW, DENY} \union Actions,
           id : Nat, ctx : Contexts]

\* The slots, the caches and the program counters hold what the code can put
\* there; a softirq runs inet_conn_request and nothing else.
TypeOK ==
    /\ env \in Envs /\ rules \in Rules
    /\ image \in [Procs -> Images] /\ mode \in [Files -> Modes]
    /\ frames \in [Cpus -> [Levels -> FrameT]]
    /\ currently_handled_event \in
          [Cpus -> [id : Nat, ctx : Contexts, key : Keys \union {NoKey}, action : Actions]]
    /\ private_cache \in [Cpus -> [Keys -> Cached]]
    /\ global_cache \in [Keys -> Cached]
    /\ next_id \in Nat \ {0}
    /\ sent \subseteq [id : Nat, by : Nat, ctx : Contexts, action : Actions]
    /\ killed \subseteq Procs
    /\ last \in [hook : Hooks, proc : Procs, file : Files, ctx : Contexts, id : Nat,
                 verdict : {ALLOW, DENY}, how : {"unmonitored", "cached", "evaluated"}]

\* Where no softirq interrupts, a hook that evaluated the rules returns the
\* verdict on the event that it filled, not on one that another hook left in
\* currently_handled_event.
DecidedOnOwnEvent ==
    last.how = "evaluated" => last.verdict = Verdict(rules[last.ctx])

DecidedInTask == "softirq" \notin env => DecidedOnOwnEvent

\* What userspace is told of an event is what was decided on it, on whatever
\* CPU and however the process and the file change meanwhile: its context and
\* the action of its rule belong together, and excluded events are not sent.
SentIsConsistent ==
    "softirq" \notin env =>
        \A e \in sent : e.action = rules[e.ctx] /\ e.action # "EXCLUDE_EVENT" /\ e.id < next_id

\* Every hook reports the event that it allocated and nobody else's: no event
\* is sent twice, and a blocked one is sent if the ring buffer has room.
OneReportEach ==
    "softirq" \notin env =>
        /\ \A e \in sent : e.by = e.id
        /\ (last.how = "evaluated" /\ last.verdict = DENY /\ "ringbuf_full" \notin env)
              => \E e \in sent : e.id = last.id

Unchanging == env \intersect {"exec", "file_change"} = {}

\* While processes and files do not change, the global verdict cache holds
\* what the rules decide, however the CPUs race, softirqs overwrite the slot,
\* entries are evicted and reservations fail: a fail-open ALLOW and a
\* softirq's verdict are never cached.
GlobalVerdictIsRules ==
    Unchanging => \A k \in Keys : global_cache[k] # NOT_IN_CACHE
        => global_cache[k] = Verdict(rules[ContextOf(k[1], k[2])])

\* The private caches never deny what the rules allow, in the same conditions.
CachedDenyIsRules ==
    Unchanging => \A c \in Cpus, k \in Keys :
        private_cache[c][k] = DENY => Verdict(rules[ContextOf(k[1], k[2])]) = DENY

\* Where no softirq interrupts, SIGKILL goes to a process from its own hook,
\* for its own event, when a rule of that event kills: to the process that
\* performed the action.
KilledForOwnAction ==
    [][\A p \in killed' \ killed : "softirq" \notin env =>
          \E c \in Cpus :
            /\ Level(c) = "task" /\ Running(c).proc = p
            /\ rules[Running(c).ctx] \in {"BLOCK_KILL_PROCESS", "BLOCK_KILL_PROCESS_KILL_PARENT", "KILL_PROCESS"}]_vars

\* A verdict from the caches is the one that evaluating the rules would give
\* now: the decision is the same every time.
CachedDecisionIsCurrent ==
    [][\A c \in Cpus :
          (Running(c).pc = "lookup" /\ frames'[c]["task"].pc = "idle")
            => last'.verdict = Verdict(rules[ContextOf(Running(c).proc, Running(c).file)])]_vars

\* KILL_PROCESS does not block the event but terminates the process.
KillProcessKills ==
    (last.how = "evaluated" /\ rules[last.ctx] = "KILL_PROCESS") => last.proc \in killed
=============================================================================
