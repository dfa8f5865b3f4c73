------------------------ MODULE HookExecutionProofs -------------------------
(***************************************************************************)
(* Proofs about HookExecution, for any number of CPUs, processes, files    *)
(* and events and for all rules.  The argument is about who owns a CPU's   *)
(* currently_handled_event: the hook of the CPU's task from Fill to its    *)
(* return, unless a softirq's connection request, which has no cache key,  *)
(* replaced it.                                                            *)
(***************************************************************************)
EXTENDS HookExecution, TLAPS

Slot(c) == currently_handled_event[c]

-----------------------------------------------------------------------------
(* Frames. *)

\* A CPU runs one of its two frames.
LEMMA RunningType ==
  ASSUME TypeOK, NEW c \in Cpus
  PROVE  /\ Level(c) \in Levels
         /\ Running(c) \in FrameT
         /\ Running(c) = frames[c][Level(c)]
  BY DEF TypeOK, Level, Levels, Running

\* SetFrame replaces the frame that runs and leaves the others alone.
LEMMA SetFrameEffect ==
  ASSUME TypeOK, NEW c \in Cpus, NEW fr \in FrameT, SetFrame(c, fr)
  PROVE  /\ frames' \in [Cpus -> [Levels -> FrameT]]
         /\ \A d \in Cpus, l \in Levels :
              frames'[d][l] = IF d = c /\ l = Level(c) THEN fr ELSE frames[d][l]
  <1>1. Level(c) \in Levels
    BY RunningType
  <1>2. frames \in [Cpus -> [Levels -> FrameT]]
    BY DEF TypeOK
  <1>3. frames' = [frames EXCEPT ![c] = [frames[c] EXCEPT ![Level(c)] = fr]]
    BY DEF SetFrame
  <1> HIDE DEF FrameT
  <1>4. [frames[c] EXCEPT ![Level(c)] = fr] \in [Levels -> FrameT]
    BY <1>1, <1>2
  <1> QED BY <1>1, <1>2, <1>3, <1>4

\* A hook that returns leaves an idle frame of the right type.
LEMMA ReturnEffect ==
  ASSUME TypeOK, NEW c \in Cpus, NEW v \in {ALLOW, DENY},
         NEW how \in {"unmonitored", "cached", "evaluated"}, ReturnWith(c, v, how)
  PROVE  /\ frames' \in [Cpus -> [Levels -> FrameT]]
         /\ \A d \in Cpus, l \in Levels :
              frames'[d][l] = IF d = c /\ l = Level(c) THEN Idle(Running(c)) ELSE frames[d][l]
         /\ Idle(Running(c)).pc = "idle"
         /\ last' \in [hook : Hooks, proc : Procs, file : Files, ctx : Contexts, id : Nat,
                       verdict : {ALLOW, DENY}, how : {"unmonitored", "cached", "evaluated"}]
         /\ last'.ctx = Running(c).ctx /\ last'.id = Running(c).id
         /\ last'.verdict = v /\ last'.how = how
  <1>1. Running(c) \in FrameT
    BY RunningType
  <1>2. Idle(Running(c)) \in FrameT
    BY <1>1 DEF Idle, Frame, FrameT, Contexts
  <1>3. SetFrame(c, Idle(Running(c)))
    BY DEF ReturnWith
  <1>4. last' \in [hook : Hooks, proc : Procs, file : Files, ctx : Contexts, id : Nat,
                   verdict : {ALLOW, DENY}, how : {"unmonitored", "cached", "evaluated"}]
    BY <1>1 DEF ReturnWith, FrameT
  <1> QED BY <1>2, <1>3, <1>4, SetFrameEffect DEF ReturnWith, Idle, Frame

\* What a process does to a file is a context that rules are about.
LEMMA ContextType ==
  ASSUME TypeOK, NEW p \in Procs, NEW f \in Files
  PROVE  ContextOf(p, f) \in Contexts
  BY DEF TypeOK, ContextOf, Contexts

\* Updating a per-CPU entry keeps the caches well typed.
LEMMA PerCpuType ==
  ASSUME TypeOK, NEW c \in Cpus, NEW k \in Keys, NEW v \in {ALLOW, DENY}
  PROVE  PerCpuUpdate(private_cache, c, k, v) \in [Cpus -> [Keys -> Cached]]
  BY DEF TypeOK, PerCpuUpdate, Cached, ALLOW, DENY

\* A write hook's event has a key.
LEMMA KeyType ==
  ASSUME NEW fr \in FrameT
  PROVE  /\ KeyOf(fr) \in Keys \union {NoKey}
         /\ fr.hook = "write_hook" => KeyOf(fr) \in Keys /\ KeyOf(fr) # NoKey
         /\ fr.hook # "write_hook" => KeyOf(fr) = NoKey
  <1>1. fr.proc \in Procs /\ fr.file \in Files
    BY DEF FrameT
  <1>2. <<fr.proc, fr.file>> \in Keys
    BY <1>1 DEF Keys
  <1> QED BY <1>2, ConstantsOK DEF KeyOf

-----------------------------------------------------------------------------
(* Type correctness.  TypeOK is not inductive: that a look-up has a key to  *)
(* look up rests on only write hooks reaching it.                          *)

WritesOnly(fr) == fr.pc \in {"lookup", ALLOW, DENY} => fr.hook = "write_hook"

TypeInv == TypeOK /\ \A c \in Cpus, l \in Levels : WritesOnly(frames[c][l])

\* The initial state is well typed.
LEMMA InitType == Init => TypeInv
  <1> SUFFICES ASSUME Init PROVE TypeInv
    OBVIOUS
  <1>1. PICK p \in Procs, f \in Files :
          /\ frames = [c \in Cpus |-> [l \in Levels |-> Frame("chmod_hook", p, f, "idle", 0, Conn)]]
          /\ last = [hook |-> "chmod_hook", proc |-> p, file |-> f, ctx |-> Conn, id |-> 0,
                     verdict |-> ALLOW, how |-> "unmonitored"]
    BY DEF Init
  <1>2. Frame("chmod_hook", p, f, "idle", 0, Conn) \in FrameT
    BY DEF Frame, FrameT, Hooks, Contexts
  <1>3. last \in [hook : Hooks, proc : Procs, file : Files, ctx : Contexts, id : Nat,
                 verdict : {ALLOW, DENY}, how : {"unmonitored", "cached", "evaluated"}]
    BY <1>1 DEF Hooks, Contexts
  <1>4. frames \in [Cpus -> [Levels -> FrameT]]
    BY <1>1, <1>2
  <1>5. currently_handled_event \in
          [Cpus -> [id : Nat, ctx : Contexts, key : Keys \union {NoKey}, action : Actions]]
    BY DEF Init, Contexts, Actions
  <1>6. private_cache \in [Cpus -> [Keys -> Cached]] /\ global_cache \in [Keys -> Cached]
    BY DEF Init, Cached
  <1>7. \A c \in Cpus, l \in Levels : WritesOnly(frames[c][l])
    BY <1>1 DEF WritesOnly, Frame, ALLOW, DENY
  <1> QED BY <1>3, <1>4, <1>5, <1>6, <1>7 DEF Init, TypeOK, TypeInv

\* Every step keeps it so.
LEMMA NextType == TypeInv /\ [Next]_vars => TypeInv'
  <1> SUFFICES ASSUME TypeInv, [Next]_vars PROVE TypeInv'
    OBVIOUS
  <1> DEFINE SlotT == [id : Nat, ctx : Contexts, key : Keys \union {NoKey}, action : Actions]
  <1>a. rules \in [Contexts -> Actions]
    BY ConstantsOK DEF TypeInv, TypeOK
  <1>b. TypeOK
    BY DEF TypeInv
  <1>c. ASSUME NEW c \in Cpus
        PROVE  Running(c) \in FrameT /\ WritesOnly(Running(c)) /\ Slot(c) \in SlotT
    BY <1>b, RunningType DEF TypeInv, TypeOK, Slot
  <1>1. ASSUME NEW c \in Cpus, NEW hook \in {"write_hook", "chmod_hook"},
               NEW p \in Procs, NEW f \in Files, Enter(c, hook, p, f)
        PROVE  TypeInv'
    <2> DEFINE fr == Frame(hook, p, f, IF hook = "write_hook" THEN "lookup" ELSE "fill", 0, Conn)
    <2>1. fr \in FrameT /\ WritesOnly(fr)
      BY DEF Frame, FrameT, Hooks, Contexts, WritesOnly, ALLOW, DENY
    <2> HIDE DEF fr
    <2>2. frames' = [frames EXCEPT ![c] = [frames[c] EXCEPT !["task"] = fr]]
      BY <1>1 DEF Enter, fr
    <2>3. frames' \in [Cpus -> [Levels -> FrameT]]
      BY <2>2, <2>1, <1>b DEF TypeOK, Levels
    <2>4. \A d \in Cpus, l \in Levels : WritesOnly(frames'[d][l])
      BY <2>1, <2>2 DEF TypeInv, TypeOK, Levels
    <2> QED BY <1>1, <2>3, <2>4 DEF Enter, TypeOK, TypeInv, WritesOnly
  <1>2. ASSUME NEW c \in Cpus, Softirq(c) PROVE TypeInv'
    <2> DEFINE fr == Frame("inet_conn_request_hook", frames[c]["task"].proc,
                           frames[c]["task"].file, "fill", 0, Conn)
    <2>0. frames[c]["task"] \in FrameT
      BY <1>b DEF TypeOK, Levels
    <2>1. fr \in FrameT /\ WritesOnly(fr)
      BY <2>0 DEF Frame, FrameT, Hooks, Contexts, WritesOnly, ALLOW, DENY
    <2> HIDE DEF fr
    <2>2. frames' = [frames EXCEPT ![c] = [frames[c] EXCEPT !["irq"] = fr]]
      BY <1>2 DEF Softirq, fr
    <2>3. frames' \in [Cpus -> [Levels -> FrameT]]
      BY <2>2, <2>1, <1>b DEF TypeOK, Levels
    <2>4. \A d \in Cpus, l \in Levels : WritesOnly(frames'[d][l])
      BY <2>1, <2>2 DEF TypeInv, TypeOK, Levels
    <2> QED BY <1>2, <2>3, <2>4 DEF Softirq, TypeOK, TypeInv, WritesOnly
  <1>d. ASSUME NEW c \in Cpus, NEW fr \in FrameT, WritesOnly(fr), SetFrame(c, fr)
        PROVE  /\ frames' \in [Cpus -> [Levels -> FrameT]]
               /\ \A d \in Cpus, l \in Levels : WritesOnly(frames'[d][l])
    BY <1>b, <1>d, SetFrameEffect DEF TypeInv
  <1>e. ASSUME NEW c \in Cpus, NEW v \in {ALLOW, DENY},
               NEW how \in {"unmonitored", "cached", "evaluated"}, ReturnWith(c, v, how)
        PROVE  /\ frames' \in [Cpus -> [Levels -> FrameT]]
               /\ \A d \in Cpus, l \in Levels : WritesOnly(frames'[d][l])
               /\ last' \in [hook : Hooks, proc : Procs, file : Files, ctx : Contexts, id : Nat,
                     verdict : {ALLOW, DENY}, how : {"unmonitored", "cached", "evaluated"}]
    <2>1. WritesOnly(Idle(Running(c)))
      BY DEF WritesOnly, Idle, Frame, ALLOW, DENY
    <2>2. /\ frames' \in [Cpus -> [Levels -> FrameT]]
          /\ last' \in [hook : Hooks, proc : Procs, file : Files, ctx : Contexts, id : Nat,
                verdict : {ALLOW, DENY}, how : {"unmonitored", "cached", "evaluated"}]
          /\ \A d \in Cpus, l \in Levels :
              frames'[d][l] = IF d = c /\ l = Level(c) THEN Idle(Running(c)) ELSE frames[d][l]
      BY <1>b, <1>e, ReturnEffect
    <2> QED BY <2>1, <2>2 DEF TypeInv
  <1>3. ASSUME NEW c \in Cpus, Lookup(c) PROVE TypeInv'
    <2> DEFINE k == KeyOf(Running(c))
               v == get_event_verdict_from_cache(c, k)
    <2>1. Running(c) \in FrameT /\ Running(c).pc = "lookup" /\ Running(c).hook = "write_hook"
      BY <1>3, <1>c DEF Lookup, WritesOnly
    <2>2. k \in Keys
      BY <2>1, KeyType
    <2>3. v \in Cached
      BY <2>2, <1>b DEF TypeOK, get_event_verdict_from_cache
    <2>4. v # NOT_IN_CACHE => v \in {ALLOW, DENY}
      BY <2>3 DEF Cached
    <2>5. private_cache' \in [Cpus -> [Keys -> Cached]]
      BY <1>3, <1>b, <2>2, <2>4, PerCpuType DEF Lookup, TypeOK
    <2>6. CASE v # NOT_IN_CACHE
      <3>1. ReturnWith(c, v, "cached")
        BY <1>3, <2>6 DEF Lookup
      <3> QED BY <1>3, <2>4, <2>5, <2>6, <3>1, <1>e DEF Lookup, TypeInv, TypeOK, WritesOnly
    <2>7. CASE v = NOT_IN_CACHE
      <3> DEFINE fr == [Running(c) EXCEPT !.pc = "fill"]
      <3>1. fr \in FrameT /\ WritesOnly(fr)
        BY <2>1 DEF FrameT, WritesOnly, ALLOW, DENY
      <3>2. SetFrame(c, fr) /\ last' = last
        BY <1>3, <2>7 DEF Lookup
      <3> HIDE DEF fr
      <3> QED BY <1>3, <2>5, <3>1, <3>2, <1>d DEF Lookup, TypeInv, TypeOK, WritesOnly
    <2> QED BY <2>6, <2>7
  <1>4. ASSUME NEW c \in Cpus, FailOpen(c) PROVE TypeInv'
    <2>1. ReturnWith(c, ALLOW, "unmonitored")
      BY <1>4 DEF FailOpen
    <2> QED BY <1>4, <2>1, <1>e DEF FailOpen, TypeInv, TypeOK, WritesOnly
  <1>5. ASSUME NEW c \in Cpus, Fill(c) PROVE TypeInv'
    <2> DEFINE r == Running(c)
               ctx == IF r.hook = "inet_conn_request_hook" THEN Conn ELSE ContextOf(r.proc, r.file)
               fr == Frame(r.hook, r.proc, r.file, "match", next_id, ctx)
               s == [id |-> next_id, ctx |-> ctx, key |-> KeyOf(r), action |-> "ALLOW_EVENT"]
    <2>1. r \in FrameT /\ r.hook \in Hooks /\ r.proc \in Procs /\ r.file \in Files
      BY <1>c DEF FrameT
    <2>2. ctx \in Contexts
      BY <2>1, <1>b, ContextType DEF Contexts
    <2>3. KeyOf(r) \in Keys \union {NoKey}
      BY <2>1, KeyType
    <2>4. next_id \in Nat \ {0}
      BY <1>b DEF TypeOK
    <2> HIDE DEF r, ctx
    <2>5. fr \in FrameT /\ WritesOnly(fr)
      BY <2>1, <2>2, <2>4 DEF Frame, FrameT, WritesOnly, ALLOW, DENY
    <2>6. s \in SlotT
      BY <2>2, <2>3, <2>4 DEF Actions
    <2>7. SetFrame(c, fr) /\ currently_handled_event' = [currently_handled_event EXCEPT ![c] = s]
      BY <1>5 DEF Fill, r, ctx
    <2> HIDE DEF fr, s
    <2>8. currently_handled_event' \in [Cpus -> SlotT]
      BY <2>6, <2>7, <1>b DEF TypeOK
    <2>9. next_id' \in Nat \ {0}
      BY <1>5, <2>4 DEF Fill
    <2> QED BY <1>5, <2>5, <2>7, <2>8, <2>9, <1>d DEF Fill, TypeInv, TypeOK, WritesOnly
  <1>6. ASSUME NEW c \in Cpus, Match(c) PROVE TypeInv'
    <2> DEFINE a == rules[currently_handled_event[c].ctx]
               fr == [Running(c) EXCEPT !.pc = a]
    <2>1. a \in Actions
      BY <1>a, <1>c DEF Slot
    <2>2. fr \in FrameT /\ fr.pc = a
      BY <1>c, <2>1 DEF FrameT
    <2>3. WritesOnly(fr)
      BY <2>1, <2>2 DEF Actions, WritesOnly, ALLOW, DENY
    <2>4. SetFrame(c, fr)
      BY <1>6 DEF Match
    <2> HIDE DEF fr
    <2> QED BY <1>6, <2>2, <2>3, <2>4, <1>d DEF Match, TypeInv, TypeOK, WritesOnly
  <1>7. ASSUME NEW c \in Cpus, SetAction(c) PROVE TypeInv'
    <2> DEFINE e == currently_handled_event[c]
               s == IF Running(c).pc = "ALLOW_EVENT" THEN e
                    ELSE [id |-> e.id, ctx |-> e.ctx, key |-> e.key, action |-> Running(c).pc]
               fr == [Running(c) EXCEPT !.pc = "apply"]
    <2>1. e \in SlotT /\ Running(c).pc \in Actions
      BY <1>7, <1>c DEF Slot, SetAction
    <2>2. s \in SlotT
      BY <2>1
    <2>3. fr \in FrameT /\ WritesOnly(fr)
      BY <1>c DEF FrameT, WritesOnly, ALLOW, DENY
    <2>4. SetFrame(c, fr) /\ currently_handled_event' = [currently_handled_event EXCEPT ![c] = s]
      BY <1>7 DEF SetAction
    <2> HIDE DEF fr, s
    <2>5. currently_handled_event' \in [Cpus -> SlotT]
      BY <2>2, <2>4, <1>b DEF TypeOK
    <2> QED BY <1>7, <2>3, <2>4, <2>5, <1>d DEF SetAction, TypeInv, TypeOK, WritesOnly
  <1>8. ASSUME NEW c \in Cpus, Apply(c) PROVE TypeInv'
    <2> DEFINE e == currently_handled_event[c]
               fr == [Running(c) EXCEPT !.pc = Verdict(e.action)]
    <2>1. e \in SlotT /\ Running(c) \in FrameT /\ Running(c).id \in Nat
      BY <1>c DEF Slot, FrameT
    <2>2. submit_event(e, Running(c).id) \subseteq [id : Nat, by : Nat, ctx : Contexts, action : Actions]
      BY <2>1 DEF submit_event
    <2>3. sent' \subseteq [id : Nat, by : Nat, ctx : Contexts, action : Actions]
      BY <1>8, <1>b, <2>2 DEF Apply, TypeOK
    <2>4. frames[c]["task"].proc \in Procs
      BY <1>b DEF TypeOK, Levels, FrameT
    <2>5. killed' \subseteq Procs
      BY <1>8, <1>b, <2>4 DEF Apply, TypeOK
    <2>6. Verdict(e.action) \in {ALLOW, DENY}
      BY DEF Verdict
    <2>7. CASE Running(c).hook = "write_hook"
      <3>1. fr \in FrameT /\ WritesOnly(fr)
        BY <2>1, <2>6, <2>7 DEF FrameT, WritesOnly
      <3>2. SetFrame(c, fr) /\ last' = last
        BY <1>8, <2>7 DEF Apply
      <3> HIDE DEF fr
      <3> QED BY <1>8, <2>3, <2>5, <3>1, <3>2, <1>d DEF Apply, TypeInv, TypeOK, WritesOnly
    <2>8. CASE Running(c).hook # "write_hook"
      <3>1. ReturnWith(c, Verdict(e.action), "evaluated")
        BY <1>8, <2>8 DEF Apply
      <3> QED BY <1>8, <2>3, <2>5, <2>6, <3>1, <1>e DEF Apply, TypeInv, TypeOK, WritesOnly
    <2> QED BY <2>7, <2>8
  <1>9. ASSUME NEW c \in Cpus, UpdateCache(c) PROVE TypeInv'
    <2> DEFINE k == currently_handled_event[c].key
               v == Running(c).pc
    <2>1. k \in Keys \union {NoKey}
      BY <1>c DEF Slot
    <2>2. v \in {ALLOW, DENY} /\ v \in Cached
      BY <1>9 DEF UpdateCache, Cached
    <2>3. k # NoKey => PerCpuUpdate(private_cache, c, k, v) \in [Cpus -> [Keys -> Cached]]
      BY <1>b, <2>1, <2>2, PerCpuType
    <2>4. private_cache' \in [Cpus -> [Keys -> Cached]]
      BY <1>9, <1>b, <2>3 DEF UpdateCache, TypeOK
    <2>5. global_cache' \in [Keys -> Cached]
      BY <1>9, <1>b, <2>1, <2>2 DEF UpdateCache, TypeOK
    <2>6. ReturnWith(c, v, "evaluated")
      BY <1>9 DEF UpdateCache
    <2> QED BY <1>9, <2>2, <2>4, <2>5, <2>6, <1>e DEF UpdateCache, TypeInv, TypeOK, WritesOnly
  <1>10. ASSUME NEW p \in Procs, NEW i \in Images, Exec(p, i) PROVE TypeInv'
    BY <1>10 DEF Exec, TypeInv, TypeOK, WritesOnly
  <1>11. ASSUME NEW f \in Files, NEW a \in Modes, FileChange(f, a) PROVE TypeInv'
    BY <1>11 DEF FileChange, TypeInv, TypeOK, WritesOnly
  <1>12. ASSUME NEW k \in Keys, Evict(k) PROVE TypeInv'
    <2>1. NOT_IN_CACHE \in Cached
      BY DEF Cached
    <2>2. global_cache' \in [Keys -> Cached]
      BY <1>12, <1>b, <2>1 DEF Evict, TypeOK
    <2>3. \/ private_cache' = private_cache
          \/ private_cache' = [c \in Cpus |-> [private_cache[c] EXCEPT ![k] = NOT_IN_CACHE]]
      BY <1>12 DEF Evict
    <2>4. \A c \in Cpus : [private_cache[c] EXCEPT ![k] = NOT_IN_CACHE] \in [Keys -> Cached]
      BY <1>b, <2>1 DEF TypeOK
    <2>5. private_cache' \in [Cpus -> [Keys -> Cached]]
      <3>1. CASE private_cache' = private_cache
        BY <1>b, <3>1 DEF TypeOK
      <3>2. CASE private_cache' = [c \in Cpus |-> [private_cache[c] EXCEPT ![k] = NOT_IN_CACHE]]
        BY <2>4, <3>2
      <3> QED BY <2>3, <3>1, <3>2
    <2>6. TypeOK'
      BY <1>12, <1>b, <2>2, <2>5 DEF Evict, TypeOK
    <2> QED BY <1>12, <2>6 DEF Evict, TypeInv, WritesOnly
  <1>13. CASE UNCHANGED vars
    BY <1>13 DEF vars, TypeInv, TypeOK, WritesOnly
  <1> QED BY <1>1, <1>2, <1>3, <1>4, <1>5, <1>6, <1>7, <1>8, <1>9, <1>10, <1>11, <1>12, <1>13 DEF Next

\* Slots, caches and program counters hold what the code can put there, on
\* any number of CPUs: in particular every look-up of the write hooks is for
\* a key of the caches and every verdict returned is ALLOW or DENY.
THEOREM TypeCorrect == Spec => []TypeOK
  <1>1. TypeInv => TypeOK
    BY DEF TypeInv
  <1> QED BY <1>1, InitType, NextType, PTL DEF Spec
-----------------------------------------------------------------------------
(* Who owns the slot. *)

\* The slot cannot have been replaced by a softirq's event, which has no key.
Owned(c) == "softirq" \notin env \/ Slot(c).key # NoKey

\* From Fill to the return of the task's hook, an owned slot carries the
\* action of the first rule that matches its own context, once it is set.
Progress(fr, s) ==
  /\ fr.pc = "match" => s.action = "ALLOW_EVENT"
  /\ fr.pc \in Actions => fr.pc = rules[s.ctx] /\ s.action = "ALLOW_EVENT"
  /\ fr.pc = "apply" => s.action = rules[s.ctx]
  /\ fr.pc \in {ALLOW, DENY} => fr.pc = Verdict(rules[s.ctx])

Past(fr) == fr.pc \notin {"idle", "lookup", "fill"}

\* A softirq's hook is a connection request; without softirqs the slot is
\* that of the task's hook.
CpuInv(c) ==
  LET task == frames[c]["task"]
      irq == frames[c]["irq"]
  IN /\ irq.pc # "idle" => "softirq" \in env /\ irq.hook = "inet_conn_request_hook"
     /\ Past(irq) => Slot(c).key = NoKey
     /\ Owned(c) => Progress(task, Slot(c))
     /\ "softirq" \notin env /\ Past(task) =>
          /\ Slot(c).ctx = task.ctx /\ Slot(c).id = task.id
          /\ Slot(c).id > 0 /\ Slot(c).id < next_id

SlotInv == TypeInv /\ \A c \in Cpus : CpuInv(c)

\* The initial state satisfies the ownership invariant.
LEMMA InitSlot == Init => SlotInv
  <1> SUFFICES ASSUME Init PROVE SlotInv
    OBVIOUS
  <1>1. TypeInv
    BY InitType
  <1>2. \A c \in Cpus, l \in Levels : frames[c][l].pc = "idle"
    BY DEF Init, Frame
  <1>3. \A c \in Cpus : frames[c]["irq"].pc = "idle" /\ frames[c]["task"].pc = "idle"
    BY <1>2 DEF Levels
  <1> QED BY <1>1, <1>3 DEF SlotInv, CpuInv, Progress, Past, Actions, ALLOW, DENY

\* A step elsewhere does not disturb a CPU.
LEMMA Elsewhere ==
  ASSUME TypeOK, next_id' \in Nat, next_id' >= next_id, env' = env, rules' = rules,
         NEW d \in Cpus, CpuInv(d),
         frames'[d]["task"] = frames[d]["task"], frames'[d]["irq"] = frames[d]["irq"],
         currently_handled_event'[d] = currently_handled_event[d]
  PROVE  CpuInv(d)'
  <1>1. Slot(d).id \in Nat /\ next_id \in Nat
    BY DEF TypeOK, Slot
  <1> QED BY <1>1 DEF CpuInv, Owned, Progress, Past, Slot, Verdict

\* The frame that runs is the softirq's if there is one.
LEMMA SetFrameAt ==
  ASSUME TypeOK, NEW c \in Cpus, NEW fr \in FrameT, SetFrame(c, fr)
  PROVE  /\ \A d \in Cpus \ {c} : frames'[d]["task"] = frames[d]["task"]
                                  /\ frames'[d]["irq"] = frames[d]["irq"]
         /\ \/ /\ frames[c]["irq"].pc # "idle" /\ Running(c) = frames[c]["irq"]
               /\ frames'[c]["irq"] = fr /\ frames'[c]["task"] = frames[c]["task"]
            \/ /\ frames[c]["irq"].pc = "idle" /\ Running(c) = frames[c]["task"]
               /\ frames'[c]["task"] = fr /\ frames'[c]["irq"] = frames[c]["irq"]
  BY SetFrameEffect DEF Level, Levels, Running

\* Fill makes the slot the event of the hook that runs.
LEMMA FillSlot ==
  ASSUME SlotInv, TypeInv', NEW c \in Cpus, Fill(c)
  PROVE  SlotInv'
  <1> DEFINE r == Running(c)
             ctx == IF r.hook = "inet_conn_request_hook" THEN Conn ELSE ContextOf(r.proc, r.file)
             fr == Frame(r.hook, r.proc, r.file, "match", next_id, ctx)
             s == [id |-> next_id, ctx |-> ctx, key |-> KeyOf(r), action |-> "ALLOW_EVENT"]
  <1>1. TypeOK /\ r \in FrameT /\ next_id \in Nat \ {0}
    BY RunningType DEF SlotInv, TypeInv, TypeOK
  <1>2. fr \in FrameT
    BY <1>1, ContextType DEF Frame, FrameT, Contexts
  <1>3. SetFrame(c, fr) /\ currently_handled_event' = [currently_handled_event EXCEPT ![c] = s]
        /\ next_id' = next_id + 1 /\ env' = env /\ rules' = rules
    BY DEF Fill
  <1>4. fr.pc = "match" /\ fr.id = next_id /\ fr.ctx = ctx /\ fr.hook = r.hook
    BY DEF Frame
  <1>5. s.id = next_id /\ s.ctx = ctx /\ s.key = KeyOf(r) /\ s.action = "ALLOW_EVENT"
    OBVIOUS
  <1>6. currently_handled_event'[c] = s
        /\ \A d \in Cpus \ {c} : currently_handled_event'[d] = currently_handled_event[d]
    BY <1>1, <1>3 DEF TypeOK
  <1>7. KeyOf(r) # NoKey => r.hook = "write_hook"
    BY <1>1, KeyType
  <1> HIDE DEF fr, s, ctx, r
  <1>8. CpuInv(c)'
    <2>1. CASE frames[c]["irq"].pc # "idle"
      <3>1. r = frames[c]["irq"] /\ frames'[c]["irq"] = fr
        BY <1>1, <1>2, <1>3, <2>1, SetFrameAt DEF r
      <3>2. "softirq" \in env /\ r.hook = "inet_conn_request_hook"
        BY <2>1, <3>1 DEF SlotInv, CpuInv
      <3>3. Slot(c)'.key = NoKey
        BY <1>5, <1>6, <1>7, <3>2 DEF Slot
      <3> QED BY <1>3, <1>4, <3>1, <3>2, <3>3 DEF CpuInv, Owned, Past
    <2>2. CASE frames[c]["irq"].pc = "idle"
      <3>1. frames'[c]["task"] = fr /\ frames'[c]["irq"] = frames[c]["irq"]
        BY <1>1, <1>2, <1>3, <2>2, SetFrameAt
      <3> QED BY <1>1, <1>3, <1>4, <1>5, <1>6, <2>2, <3>1
          DEF CpuInv, Owned, Past, Slot, Progress, Actions, ALLOW, DENY
    <2> QED BY <2>1, <2>2
  <1>9. \A d \in Cpus \ {c} : CpuInv(d)'
    BY <1>1, <1>2, <1>3, <1>6, SetFrameAt, Elsewhere DEF SlotInv
  <1> QED BY <1>8, <1>9 DEF SlotInv

\* Match records the action of the first rule that matches the slot.
LEMMA MatchSlot ==
  ASSUME SlotInv, TypeInv', NEW c \in Cpus, Match(c)
  PROVE  SlotInv'
  <1> DEFINE r == Running(c)
             fr == [r EXCEPT !.pc = rules[Slot(c).ctx]]
  <1>1. TypeOK /\ r \in FrameT /\ next_id \in Nat
    BY RunningType DEF SlotInv, TypeInv, TypeOK
  <1>2. rules[Slot(c).ctx] \in Actions
    BY <1>1, ConstantsOK DEF TypeOK, Slot
  <1>3. fr \in FrameT /\ fr.pc \in Actions /\ fr.pc = rules[Slot(c).ctx]
        /\ fr.hook = r.hook /\ fr.ctx = r.ctx /\ fr.id = r.id
    BY <1>1, <1>2 DEF FrameT
  <1>4. SetFrame(c, fr) /\ currently_handled_event' = currently_handled_event
        /\ next_id' = next_id /\ env' = env /\ rules' = rules /\ r.pc = "match"
    BY DEF Match, Slot
  <1> HIDE DEF fr, r
  <1>5. CpuInv(c)'
    <2>1. CASE frames[c]["irq"].pc # "idle"
      <3>1. r = frames[c]["irq"] /\ frames'[c]["irq"] = fr /\ frames'[c]["task"] = frames[c]["task"]
        BY <1>1, <1>3, <1>4, <2>1, SetFrameAt DEF r
      <3> QED BY <1>3, <1>4, <2>1, <3>1 DEF SlotInv, CpuInv, Owned, Past, Slot
    <2>2. CASE frames[c]["irq"].pc = "idle"
      <3>1. r = frames[c]["task"] /\ frames'[c]["task"] = fr /\ frames'[c]["irq"] = frames[c]["irq"]
        BY <1>1, <1>3, <1>4, <2>2, SetFrameAt DEF r
      <3> QED BY <1>3, <1>4, <2>2, <3>1
          DEF SlotInv, CpuInv, Owned, Past, Slot, Progress, Actions, ALLOW, DENY
    <2> QED BY <2>1, <2>2
  <1>6. \A d \in Cpus \ {c} : CpuInv(d)'
    BY <1>1, <1>3, <1>4, SetFrameAt, Elsewhere DEF SlotInv
  <1> QED BY <1>5, <1>6 DEF SlotInv

\* SetAction writes it into the slot.
LEMMA SetActionSlot ==
  ASSUME SlotInv, TypeInv', NEW c \in Cpus, SetAction(c)
  PROVE  SlotInv'
  <1> DEFINE r == Running(c)
             fr == [r EXCEPT !.pc = "apply"]
             e == currently_handled_event[c]
             s == IF r.pc = "ALLOW_EVENT" THEN e
                  ELSE [id |-> e.id, ctx |-> e.ctx, key |-> e.key, action |-> r.pc]
  <1>1. TypeOK /\ r \in FrameT /\ next_id \in Nat
    BY RunningType DEF SlotInv, TypeInv, TypeOK
  <1>2. fr \in FrameT /\ fr.pc = "apply" /\ fr.hook = r.hook /\ fr.ctx = r.ctx /\ fr.id = r.id
    BY <1>1 DEF FrameT
  <1>3. SetFrame(c, fr) /\ currently_handled_event' = [currently_handled_event EXCEPT ![c] = s]
        /\ next_id' = next_id /\ env' = env /\ rules' = rules /\ r.pc \in Actions
    BY DEF SetAction
  <1>4. s.id = Slot(c).id /\ s.ctx = Slot(c).ctx /\ s.key = Slot(c).key
        /\ s.action = (IF r.pc = "ALLOW_EVENT" THEN Slot(c).action ELSE r.pc)
    BY DEF Slot
  <1>5. currently_handled_event'[c] = s
        /\ \A d \in Cpus \ {c} : currently_handled_event'[d] = currently_handled_event[d]
    BY <1>1, <1>3 DEF TypeOK
  <1> HIDE DEF fr, r, s, e
  <1>6. CpuInv(c)'
    <2>1. CASE frames[c]["irq"].pc # "idle"
      <3>1. r = frames[c]["irq"] /\ frames'[c]["irq"] = fr /\ frames'[c]["task"] = frames[c]["task"]
        BY <1>1, <1>2, <1>3, <2>1, SetFrameAt DEF r
      <3>2. Past(r)
        BY <1>3 DEF Past, Actions
      <3> QED BY <1>2, <1>3, <1>4, <1>5, <2>1, <3>1, <3>2 DEF SlotInv, CpuInv, Owned, Past, Slot
    <2>2. CASE frames[c]["irq"].pc = "idle"
      <3>1. r = frames[c]["task"] /\ frames'[c]["task"] = fr /\ frames'[c]["irq"] = frames[c]["irq"]
        BY <1>1, <1>2, <1>3, <2>2, SetFrameAt DEF r
      <3> QED BY <1>2, <1>3, <1>4, <1>5, <2>2, <3>1
          DEF SlotInv, CpuInv, Owned, Past, Slot, Progress, Actions, ALLOW, DENY
    <2> QED BY <2>1, <2>2
  <1>7. \A d \in Cpus \ {c} : CpuInv(d)'
    BY <1>1, <1>2, <1>3, <1>5, SetFrameAt, Elsewhere DEF SlotInv
  <1> QED BY <1>6, <1>7 DEF SlotInv

\* A step that only moves the running hook to "fill" or to its end keeps the
\* slot in order.
LEMMA LeaveSlot ==
  ASSUME SlotInv, TypeInv', NEW c \in Cpus, NEW fr \in FrameT, SetFrame(c, fr),
         fr.pc \in {"idle", "fill"}, fr.hook = Running(c).hook,
         env' = env, rules' = rules, next_id' = next_id,
         currently_handled_event' = currently_handled_event
  PROVE  SlotInv'
  <1>1. TypeOK /\ next_id \in Nat
    BY DEF SlotInv, TypeInv, TypeOK
  <1>2. CpuInv(c)'
    <2>1. CASE frames[c]["irq"].pc # "idle"
      <3>1. /\ Running(c) = frames[c]["irq"]
            /\ frames'[c]["irq"] = fr /\ frames'[c]["task"] = frames[c]["task"]
        BY <1>1, <2>1, SetFrameAt
      <3> QED BY <2>1, <3>1 DEF SlotInv, CpuInv, Owned, Past, Slot, Progress, Verdict
    <2>2. CASE frames[c]["irq"].pc = "idle"
      <3>1. frames'[c]["task"] = fr /\ frames'[c]["irq"] = frames[c]["irq"]
        BY <1>1, <2>2, SetFrameAt
      <3> QED BY <2>2, <3>1
          DEF SlotInv, CpuInv, Owned, Past, Slot, Progress, Actions, ALLOW, DENY
    <2> QED BY <2>1, <2>2
  <1>3. \A d \in Cpus \ {c} : CpuInv(d)'
    BY <1>1, SetFrameAt, Elsewhere DEF SlotInv
  <1> QED BY <1>2, <1>3 DEF SlotInv

\* The frame of a hook that returned.
LEMMA IdleFrame ==
  ASSUME TypeOK, NEW c \in Cpus
  PROVE  /\ Idle(Running(c)) \in FrameT /\ Idle(Running(c)).pc = "idle"
         /\ Idle(Running(c)).hook = Running(c).hook
  <1>1. Running(c) \in FrameT
    BY RunningType
  <1> QED BY <1>1 DEF Idle, Frame, FrameT, Contexts

\* Apply reads the action of the slot: the verdict of an owned slot is that
\* of its context.
LEMMA ApplySlot ==
  ASSUME SlotInv, TypeInv', NEW c \in Cpus, Apply(c)
  PROVE  SlotInv'
  <1> DEFINE r == Running(c)
             fr == [r EXCEPT !.pc = Verdict(Slot(c).action)]
  <1>1. TypeOK /\ r \in FrameT /\ next_id \in Nat
    BY RunningType DEF SlotInv, TypeInv, TypeOK
  <1>2. currently_handled_event' = currently_handled_event
        /\ next_id' = next_id /\ env' = env /\ rules' = rules /\ r.pc = "apply"
    BY DEF Apply
  <1>3. CASE r.hook # "write_hook"
    <2>1. SetFrame(c, Idle(Running(c)))
      BY <1>3 DEF Apply, ReturnWith
    <2> QED BY <1>1, <1>2, <2>1, IdleFrame, LeaveSlot
  <1>4. CASE r.hook = "write_hook"
    <2>1. fr \in FrameT /\ fr.pc = Verdict(Slot(c).action) /\ fr.ctx = r.ctx /\ fr.id = r.id
          /\ fr.pc \in {ALLOW, DENY}
      BY <1>1 DEF FrameT, Verdict
    <2>2. SetFrame(c, fr)
      BY <1>4 DEF Apply, Slot
    <2> HIDE DEF fr, r
    <2>3. frames[c]["irq"].pc = "idle"
      BY <1>1, <1>4, <2>1, <2>2, SetFrameAt DEF SlotInv, CpuInv, r
    <2>4. r = frames[c]["task"] /\ frames'[c]["task"] = fr /\ frames'[c]["irq"] = frames[c]["irq"]
      BY <1>1, <2>1, <2>2, <2>3, SetFrameAt DEF r
    <2>5. CpuInv(c)'
      BY <1>2, <2>1, <2>3, <2>4
         DEF SlotInv, CpuInv, Owned, Past, Slot, Progress, Actions, ALLOW, DENY
    <2>6. \A d \in Cpus \ {c} : CpuInv(d)'
      BY <1>1, <1>2, <2>1, <2>2, SetFrameAt, Elsewhere DEF SlotInv
    <2> QED BY <2>5, <2>6 DEF SlotInv
  <1> QED BY <1>3, <1>4

\* The ownership of the slots is preserved by every step.
LEMMA NextSlot == SlotInv /\ [Next]_vars => SlotInv'
  <1> SUFFICES ASSUME SlotInv, [Next]_vars PROVE SlotInv'
    OBVIOUS
  <1>a. TypeInv' /\ TypeOK /\ next_id \in Nat
    BY NextType DEF SlotInv, TypeInv, TypeOK
  <1>1. ASSUME NEW c \in Cpus, NEW hook \in {"write_hook", "chmod_hook"},
               NEW p \in Procs, NEW f \in Files, Enter(c, hook, p, f)
        PROVE  SlotInv'
    <2> DEFINE fr == Frame(hook, p, f, IF hook = "write_hook" THEN "lookup" ELSE "fill", 0, Conn)
    <2>1. fr.pc \in {"lookup", "fill"}
      BY DEF Frame
    <2>2. frames' = [frames EXCEPT ![c] = [frames[c] EXCEPT !["task"] = fr]]
          /\ currently_handled_event' = currently_handled_event
          /\ next_id' = next_id /\ env' = env /\ rules' = rules /\ frames[c]["irq"].pc = "idle"
      BY <1>1 DEF Enter
    <2> HIDE DEF fr
    <2>3. frames'[c]["task"] = fr /\ frames'[c]["irq"] = frames[c]["irq"]
          /\ \A d \in Cpus \ {c} : frames'[d]["task"] = frames[d]["task"] /\ frames'[d]["irq"] = frames[d]["irq"]
      BY <1>a, <2>2 DEF TypeOK, Levels
    <2>4. CpuInv(c)'
      BY <2>1, <2>2, <2>3 DEF CpuInv, Owned, Past, Slot, Progress, Actions, ALLOW, DENY
    <2>5. \A d \in Cpus \ {c} : CpuInv(d)'
      BY <1>a, <2>2, <2>3, Elsewhere DEF SlotInv
    <2> QED BY <1>a, <2>4, <2>5 DEF SlotInv
  <1>2. ASSUME NEW c \in Cpus, Softirq(c) PROVE SlotInv'
    <2> DEFINE fr == Frame("inet_conn_request_hook", frames[c]["task"].proc,
                           frames[c]["task"].file, "fill", 0, Conn)
    <2>1. fr.pc = "fill" /\ fr.hook = "inet_conn_request_hook"
      BY DEF Frame
    <2>2. frames' = [frames EXCEPT ![c] = [frames[c] EXCEPT !["irq"] = fr]]
          /\ currently_handled_event' = currently_handled_event
          /\ next_id' = next_id /\ env' = env /\ rules' = rules /\ "softirq" \in env
      BY <1>2 DEF Softirq
    <2> HIDE DEF fr
    <2>3. frames'[c]["irq"] = fr /\ frames'[c]["task"] = frames[c]["task"]
          /\ \A d \in Cpus \ {c} : frames'[d]["task"] = frames[d]["task"] /\ frames'[d]["irq"] = frames[d]["irq"]
      BY <1>a, <2>2 DEF TypeOK, Levels
    <2>4. CpuInv(c)'
      BY <2>1, <2>2, <2>3 DEF SlotInv, CpuInv, Owned, Past, Slot, Progress, Verdict
    <2>5. \A d \in Cpus \ {c} : CpuInv(d)'
      BY <1>a, <2>2, <2>3, Elsewhere DEF SlotInv
    <2> QED BY <1>a, <2>4, <2>5 DEF SlotInv
  <1>3. ASSUME NEW c \in Cpus, Lookup(c) PROVE SlotInv'
    <2> DEFINE fr == [Running(c) EXCEPT !.pc = "fill"]
    <2>1. Running(c) \in FrameT
      BY <1>a, RunningType
    <2>2. fr \in FrameT /\ fr.pc = "fill" /\ fr.hook = Running(c).hook
      BY <2>1 DEF FrameT
    <2>3. SetFrame(c, fr) \/ SetFrame(c, Idle(Running(c)))
      BY <1>3 DEF Lookup, ReturnWith
    <2>4. currently_handled_event' = currently_handled_event
          /\ next_id' = next_id /\ env' = env /\ rules' = rules
      BY <1>3 DEF Lookup
    <2> HIDE DEF fr
    <2> QED BY <1>a, <2>2, <2>3, <2>4, IdleFrame, LeaveSlot
  <1>4. ASSUME NEW c \in Cpus, FailOpen(c) \/ UpdateCache(c) PROVE SlotInv'
    <2>1. SetFrame(c, Idle(Running(c)))
      BY <1>4 DEF FailOpen, UpdateCache, ReturnWith
    <2>2. currently_handled_event' = currently_handled_event
          /\ next_id' = next_id /\ env' = env /\ rules' = rules
      BY <1>4 DEF FailOpen, UpdateCache
    <2> QED BY <1>a, <2>1, <2>2, IdleFrame, LeaveSlot
  <1>5. ASSUME NEW c \in Cpus, Fill(c) \/ Match(c) \/ SetAction(c) \/ Apply(c) PROVE SlotInv'
    BY <1>a, <1>5, FillSlot, MatchSlot, SetActionSlot, ApplySlot
  <1>6. ASSUME UNCHANGED <<env, rules, frames, currently_handled_event, next_id>> PROVE SlotInv'
    <2>1. \A d \in Cpus : CpuInv(d)'
      BY <1>a, <1>6, Elsewhere DEF SlotInv
    <2> QED BY <1>a, <2>1 DEF SlotInv
  <1>7. ASSUME NEW p \in Procs, NEW i \in Images, Exec(p, i) PROVE SlotInv'
    BY <1>6, <1>7 DEF Exec
  <1>8. ASSUME NEW f \in Files, NEW a \in Modes, FileChange(f, a) PROVE SlotInv'
    BY <1>6, <1>8 DEF FileChange
  <1>9. ASSUME NEW k \in Keys, Evict(k) PROVE SlotInv'
    BY <1>6, <1>9 DEF Evict
  <1>10. CASE UNCHANGED vars
    BY <1>6, <1>10 DEF vars
  <1> QED BY <1>1, <1>2, <1>3, <1>4, <1>5, <1>7, <1>8, <1>9, <1>10 DEF Next

-----------------------------------------------------------------------------
(* What a hook decides and reports. *)

\* A write hook that is about to return DENY has reported the event.
ReportPending ==
  (env \intersect {"softirq", "ringbuf_full"} = {}) =>
    \A c \in Cpus : frames[c]["task"].pc = DENY =>
      \E e \in sent : e.id = frames[c]["task"].id

ReportInv == SlotInv /\ DecidedInTask /\ SentIsConsistent /\ OneReportEach /\ ReportPending

\* Nothing was decided or reported in the initial state.
LEMMA InitReport == Init => ReportInv
  <1> SUFFICES ASSUME Init PROVE ReportInv
    OBVIOUS
  <1>1. SlotInv
    BY InitSlot
  <1>2. sent = {} /\ last.how = "unmonitored"
    BY DEF Init
  <1>3. \A c \in Cpus, l \in Levels : frames[c][l].pc = "idle"
    BY DEF Init, Frame
  <1>4. \A c \in Cpus : frames[c]["task"].pc = "idle"
    BY <1>3 DEF Levels
  <1> QED BY <1>1, <1>2, <1>4
      DEF ReportInv, DecidedInTask, DecidedOnOwnEvent, SentIsConsistent, OneReportEach, ReportPending, DENY

\* A step that sends nothing and decides nothing by evaluation, and after
\* which no hook stands at DENY that did not before.
LEMMA QuietReport ==
  ASSUME ReportInv, SlotInv', env' = env, rules' = rules, sent' = sent,
         next_id' \in Nat, next_id' >= next_id,
         last' = last \/ last'.how # "evaluated",
         \A c \in Cpus : frames'[c]["task"].pc = DENY => frames'[c]["task"] = frames[c]["task"]
  PROVE  ReportInv'
  <1>1. next_id \in Nat /\ \A e \in sent : e.id \in Nat
    BY DEF ReportInv, SlotInv, TypeInv, TypeOK
  <1>2. DecidedInTask'
    BY DEF ReportInv, DecidedInTask, DecidedOnOwnEvent, Verdict
  <1>3. SentIsConsistent'
    BY <1>1 DEF ReportInv, SentIsConsistent
  <1>4. OneReportEach'
    BY DEF ReportInv, OneReportEach, DENY
  <1>5. ReportPending'
    BY DEF ReportInv, ReportPending, DENY
  <1> QED BY <1>2, <1>3, <1>4, <1>5 DEF ReportInv

\* Apply reports the hook's own event with the action of its rule.
LEMMA ApplyReport ==
  ASSUME ReportInv, SlotInv', NEW c \in Cpus, Apply(c)
  PROVE  ReportInv'
  <1> DEFINE r == Running(c)
             e == Slot(c)
             v == Verdict(e.action)
             fr == [r EXCEPT !.pc = v]
             report == [id |-> e.id, by |-> r.id, ctx |-> e.ctx, action |-> e.action]
  <1>1. TypeOK /\ r \in FrameT /\ CpuInv(c) /\ SlotInv
    BY RunningType DEF ReportInv, SlotInv, TypeInv
  <1>2. env' = env /\ rules' = rules /\ next_id' = next_id /\ r.pc = "apply"
        /\ e.id \in Nat /\ next_id \in Nat
    BY <1>1 DEF Apply, TypeOK, Slot
  <1>3. CASE "softirq" \in env
    BY <1>2, <1>3 DEF ReportInv, DecidedInTask, SentIsConsistent, OneReportEach, ReportPending
  <1>4. CASE "softirq" \notin env
    <2>1. frames[c]["irq"].pc = "idle" /\ r = frames[c]["task"]
      BY <1>1, <1>4 DEF CpuInv, Level, Running
    <2>2. e.ctx = r.ctx /\ e.id = r.id /\ e.id > 0 /\ e.id < next_id /\ e.action = rules[e.ctx]
      BY <1>1, <1>2, <1>4, <2>1 DEF CpuInv, Owned, Past, Progress
    <2>3. sent' = sent \union submit_event(e, r.id)
          \/ ("ringbuf_full" \in env /\ sent' = sent)
      BY DEF Apply, Slot
    <2>4. submit_event(e, r.id) = IF e.action # "EXCLUDE_EVENT" THEN {report} ELSE {}
      BY <1>2, <2>2 DEF submit_event
    <2>5. report.id = e.id /\ report.by = r.id /\ report.ctx = e.ctx /\ report.action = e.action
      OBVIOUS
    <2>6. v = DENY => e.action # "EXCLUDE_EVENT"
      BY DEF Verdict, Blocking, ALLOW, DENY
    <2>7. v = DENY /\ "ringbuf_full" \notin env => report \in sent'
      BY <2>3, <2>4, <2>6
    <2>8. \A x \in sent' : x \in sent \/ (x = report /\ e.action # "EXCLUDE_EVENT")
      BY <2>3, <2>4
    <2>9. \A x \in sent : x \in sent'
      BY <2>3
    <2> HIDE DEF report, v, fr, e, r
    <2>10. SentIsConsistent'
      BY <1>2, <1>4, <2>2, <2>5, <2>8 DEF ReportInv, SentIsConsistent
    <2>11. \A x \in sent' : x.by = x.id
      BY <1>4, <2>2, <2>5, <2>8 DEF ReportInv, OneReportEach
    <2>12. CASE r.hook = "write_hook"
      <3>1. fr \in FrameT /\ fr.pc = v /\ fr.id = r.id
        BY <1>1 DEF FrameT, fr, v, Verdict
      <3>2. SetFrame(c, fr) /\ last' = last
        BY <2>12 DEF Apply, r, fr, v, e, Slot
      <3>3. frames'[c]["task"] = fr /\ \A d \in Cpus \ {c} : frames'[d]["task"] = frames[d]["task"]
        BY <1>1, <2>1, <3>1, <3>2, SetFrameAt
      <3>4. DecidedInTask'
        BY <1>2, <3>2 DEF ReportInv, DecidedInTask, DecidedOnOwnEvent, Verdict
      <3>5. OneReportEach'
        BY <1>2, <2>9, <2>11, <3>2 DEF ReportInv, OneReportEach, DENY
      <3>6. ReportPending'
        <4> SUFFICES ASSUME env \intersect {"softirq", "ringbuf_full"} = {}, NEW d \in Cpus,
                            frames'[d]["task"].pc = DENY
                     PROVE  \E x \in sent' : x.id = frames'[d]["task"].id
          BY <1>2 DEF ReportPending, DENY
        <4>1. CASE d = c
          BY <2>2, <2>5, <2>7, <3>1, <3>3, <4>1
        <4>2. CASE d # c
          BY <2>9, <3>3, <4>2 DEF ReportInv, ReportPending
        <4> QED BY <4>1, <4>2
      <3> QED BY <2>10, <3>4, <3>5, <3>6 DEF ReportInv
    <2>13. CASE r.hook # "write_hook"
      <3>0. v \in {ALLOW, DENY}
        BY DEF v, Verdict
      <3>1. ReturnWith(c, v, "evaluated")
        BY <2>13 DEF Apply, r, v, e, Slot
      <3>2. last'.ctx = r.ctx /\ last'.id = r.id /\ last'.verdict = v /\ last'.how = "evaluated"
            /\ SetFrame(c, Idle(Running(c)))
        BY <1>1, <3>0, <3>1, ReturnEffect DEF r, ReturnWith
      <3>3. frames'[c]["task"].pc = "idle" /\ \A d \in Cpus \ {c} : frames'[d]["task"] = frames[d]["task"]
        BY <1>1, <2>1, <3>2, SetFrameAt, IdleFrame
      <3>4. v = Verdict(rules[r.ctx])
        BY <2>2 DEF v
      <3>5. DecidedInTask'
        BY <1>2, <3>2, <3>4 DEF DecidedInTask, DecidedOnOwnEvent, Verdict
      <3>6. OneReportEach'
        BY <1>2, <2>2, <2>5, <2>7, <2>11, <3>2 DEF OneReportEach, DENY
      <3>7. ReportPending'
        BY <1>2, <2>9, <3>3 DEF ReportInv, ReportPending, DENY
      <3> QED BY <2>10, <3>5, <3>6, <3>7 DEF ReportInv
    <2> QED BY <2>12, <2>13
  <1> QED BY <1>3, <1>4

\* The last step of a write hook returns the verdict on its own event.
LEMMA UpdateReport ==
  ASSUME ReportInv, SlotInv', NEW c \in Cpus, UpdateCache(c)
  PROVE  ReportInv'
  <1> DEFINE r == Running(c)
  <1>1. TypeOK /\ r \in FrameT /\ CpuInv(c)
    BY RunningType DEF ReportInv, SlotInv, TypeInv
  <1>2. env' = env /\ rules' = rules /\ next_id' = next_id /\ sent' = sent
        /\ r.pc \in {ALLOW, DENY} /\ ReturnWith(c, r.pc, "evaluated")
    BY DEF UpdateCache
  <1>3. last'.ctx = r.ctx /\ last'.id = r.id /\ last'.verdict = r.pc /\ last'.how = "evaluated"
        /\ SetFrame(c, Idle(Running(c)))
    BY <1>1, <1>2, ReturnEffect DEF ReturnWith
  <1>4. CASE "softirq" \in env
    BY <1>2, <1>4 DEF ReportInv, DecidedInTask, SentIsConsistent, OneReportEach, ReportPending
  <1>5. CASE "softirq" \notin env
    <2>1. frames[c]["irq"].pc = "idle" /\ r = frames[c]["task"]
      BY <1>1, <1>5 DEF CpuInv, Level, Running
    <2>2. Slot(c).ctx = r.ctx /\ r.pc = Verdict(rules[Slot(c).ctx])
      BY <1>1, <1>2, <1>5, <2>1 DEF CpuInv, Owned, Past, Progress, ALLOW, DENY
    <2>3. frames'[c]["task"].pc = "idle" /\ \A d \in Cpus \ {c} : frames'[d]["task"] = frames[d]["task"]
      BY <1>1, <1>3, <2>1, SetFrameAt, IdleFrame
    <2> HIDE DEF r
    <2>4. DecidedInTask'
      BY <1>2, <1>3, <2>2 DEF DecidedInTask, DecidedOnOwnEvent, Verdict
    <2>5. SentIsConsistent'
      BY <1>2 DEF ReportInv, SentIsConsistent
    <2>6. OneReportEach'
      <3>1. \A e \in sent' : e.by = e.id
        BY <1>2, <1>5 DEF ReportInv, OneReportEach
      <3>2. ASSUME last'.verdict = DENY, "ringbuf_full" \notin env
            PROVE  \E e \in sent' : e.id = last'.id
        BY <1>2, <1>3, <1>5, <2>1, <3>2 DEF ReportInv, ReportPending
      <3> QED BY <1>2, <3>1, <3>2 DEF OneReportEach, DENY
    <2>7. ReportPending'
      BY <1>2, <2>3 DEF ReportInv, ReportPending, DENY
    <2> QED BY <2>4, <2>5, <2>6, <2>7 DEF ReportInv
  <1> QED BY <1>4, <1>5

\* Every step keeps decisions and reports in order.
LEMMA NextReport == ReportInv /\ [Next]_vars => ReportInv'
  <1> SUFFICES ASSUME ReportInv, [Next]_vars PROVE ReportInv'
    OBVIOUS
  <1>a. SlotInv' /\ TypeOK /\ next_id \in Nat
    BY NextSlot DEF ReportInv, SlotInv, TypeInv, TypeOK
  <1>1. ASSUME NEW c \in Cpus, NEW hook \in {"write_hook", "chmod_hook"},
               NEW p \in Procs, NEW f \in Files, Enter(c, hook, p, f)
        PROVE  ReportInv'
    <2> DEFINE fr == Frame(hook, p, f, IF hook = "write_hook" THEN "lookup" ELSE "fill", 0, Conn)
    <2>1. fr.pc # DENY
      BY DEF Frame, DENY
    <2>2. frames' = [frames EXCEPT ![c] = [frames[c] EXCEPT !["task"] = fr]]
          /\ UNCHANGED <<env, rules, sent, next_id, last>>
      BY <1>1 DEF Enter
    <2> HIDE DEF fr
    <2>3. frames'[c]["task"] = fr /\ \A d \in Cpus \ {c} : frames'[d]["task"] = frames[d]["task"]
      BY <1>a, <2>2 DEF TypeOK, Levels
    <2> QED BY <1>a, <2>1, <2>2, <2>3, QuietReport
  <1>2. ASSUME NEW c \in Cpus, Softirq(c) PROVE ReportInv'
    <2>1. \A d \in Cpus : frames'[d]["task"] = frames[d]["task"]
      BY <1>2, <1>a DEF Softirq, TypeOK, Levels
    <2>2. UNCHANGED <<env, rules, sent, next_id, last>>
      BY <1>2 DEF Softirq
    <2> QED BY <1>a, <2>1, <2>2, QuietReport
  <1>3. ASSUME NEW c \in Cpus, NEW fr \in FrameT, SetFrame(c, fr), fr.pc # DENY,
               UNCHANGED <<env, rules, sent>>, next_id' \in Nat, next_id' >= next_id,
               last' = last \/ last'.how # "evaluated"
        PROVE  ReportInv'
    <2>1. \A d \in Cpus : frames'[d]["task"].pc = DENY => frames'[d]["task"] = frames[d]["task"]
      BY <1>a, <1>3, SetFrameAt
    <2> QED BY <1>a, <1>3, <2>1, QuietReport
  <1>4. ASSUME NEW c \in Cpus, Lookup(c) PROVE ReportInv'
    <2> DEFINE fr == [Running(c) EXCEPT !.pc = "fill"]
    <2>1. Running(c) \in FrameT
      BY <1>a, RunningType
    <2>2. fr \in FrameT /\ fr.pc # DENY
      BY <2>1 DEF FrameT, DENY
    <2>3. \/ SetFrame(c, fr) /\ last' = last
          \/ SetFrame(c, Idle(Running(c))) /\ last'.how # "evaluated"
      BY <1>4 DEF Lookup, ReturnWith
    <2>4. UNCHANGED <<env, rules, sent, next_id>>
      BY <1>4 DEF Lookup
    <2>5. Idle(Running(c)) \in FrameT /\ Idle(Running(c)).pc # DENY
      BY <1>a, IdleFrame DEF DENY
    <2> HIDE DEF fr
    <2> QED BY <1>a, <1>3, <2>2, <2>3, <2>4, <2>5
  <1>5. ASSUME NEW c \in Cpus, FailOpen(c) PROVE ReportInv'
    <2>1. SetFrame(c, Idle(Running(c))) /\ last'.how # "evaluated"
          /\ UNCHANGED <<env, rules, sent, next_id>>
      BY <1>5 DEF FailOpen, ReturnWith
    <2>2. Idle(Running(c)) \in FrameT /\ Idle(Running(c)).pc # DENY
      BY <1>a, IdleFrame DEF DENY
    <2> QED BY <1>a, <1>3, <2>1, <2>2
  <1>6. ASSUME NEW c \in Cpus, Fill(c) PROVE ReportInv'
    <2> DEFINE r == Running(c)
               ctx == IF r.hook = "inet_conn_request_hook" THEN Conn ELSE ContextOf(r.proc, r.file)
               fr == Frame(r.hook, r.proc, r.file, "match", next_id, ctx)
    <2>1. r \in FrameT
      BY <1>a, RunningType
    <2>2. fr \in FrameT /\ fr.pc # DENY
      BY <1>a, <2>1, ContextType DEF Frame, FrameT, Contexts, DENY
    <2>3. SetFrame(c, fr) /\ UNCHANGED <<env, rules, sent, last>> /\ next_id' = next_id + 1
      BY <1>6 DEF Fill
    <2> HIDE DEF fr
    <2> QED BY <1>a, <1>3, <2>2, <2>3
  <1>7. ASSUME NEW c \in Cpus, Match(c) PROVE ReportInv'
    <2> DEFINE fr == [Running(c) EXCEPT !.pc = rules[currently_handled_event[c].ctx]]
    <2>1. Running(c) \in FrameT
      BY <1>a, RunningType
    <2>2. rules[currently_handled_event[c].ctx] \in Actions
      BY <1>a, ConstantsOK DEF TypeOK
    <2>3. fr \in FrameT /\ fr.pc # DENY
      BY <2>1, <2>2 DEF FrameT, DENY, Actions
    <2>4. SetFrame(c, fr) /\ UNCHANGED <<env, rules, sent, last, next_id>>
      BY <1>7 DEF Match
    <2> HIDE DEF fr
    <2> QED BY <1>a, <1>3, <2>3, <2>4
  <1>8. ASSUME NEW c \in Cpus, SetAction(c) PROVE ReportInv'
    <2> DEFINE fr == [Running(c) EXCEPT !.pc = "apply"]
    <2>1. Running(c) \in FrameT
      BY <1>a, RunningType
    <2>2. fr \in FrameT /\ fr.pc # DENY
      BY <2>1 DEF FrameT, DENY
    <2>3. SetFrame(c, fr) /\ UNCHANGED <<env, rules, sent, last, next_id>>
      BY <1>8 DEF SetAction
    <2> HIDE DEF fr
    <2> QED BY <1>a, <1>3, <2>2, <2>3
  <1>9. ASSUME NEW c \in Cpus, Apply(c) \/ UpdateCache(c) PROVE ReportInv'
    BY <1>a, <1>9, ApplyReport, UpdateReport
  <1>10. ASSUME UNCHANGED <<env, rules, frames, next_id, sent, last>> PROVE ReportInv'
    BY <1>a, <1>10, QuietReport
  <1>11. ASSUME NEW p \in Procs, NEW i \in Images, Exec(p, i) PROVE ReportInv'
    BY <1>10, <1>11 DEF Exec
  <1>12. ASSUME NEW f \in Files, NEW a \in Modes, FileChange(f, a) PROVE ReportInv'
    BY <1>10, <1>12 DEF FileChange
  <1>13. ASSUME NEW k \in Keys, Evict(k) PROVE ReportInv'
    BY <1>10, <1>13 DEF Evict
  <1>14. CASE UNCHANGED vars
    BY <1>10, <1>14 DEF vars
  <1> QED BY <1>1, <1>2, <1>4, <1>5, <1>6, <1>7, <1>8, <1>9, <1>11, <1>12, <1>13, <1>14 DEF Next

\* Where no softirq interrupts, every evaluated verdict is the rules' verdict
\* on the hook's own event, on any number of CPUs and while processes exec
\* and files change.
THEOREM DecisionCorrect == Spec => []DecidedInTask
  <1>1. ReportInv => DecidedInTask
    BY DEF ReportInv
  <1> QED BY <1>1, InitReport, NextReport, PTL DEF Spec

\* In the same conditions what reaches the ring buffer is consistent: the
\* action reported is that of the context reported, and nothing excluded.
THEOREM ReportCorrect == Spec => []SentIsConsistent
  <1>1. ReportInv => SentIsConsistent
    BY DEF ReportInv
  <1> QED BY <1>1, InitReport, NextReport, PTL DEF Spec

\* And every hook reports its own event only, a denied one always if the ring
\* buffer has room.
THEOREM ReportOwn == Spec => []OneReportEach
  <1>1. ReportInv => OneReportEach
    BY DEF ReportInv
  <1> QED BY <1>1, InitReport, NextReport, PTL DEF Spec

-----------------------------------------------------------------------------
(* SIGKILL. *)

\* Where no softirq interrupts, SIGKILL reaches only the process whose own
\* event a killing rule matched.
THEOREM KillCorrect == Spec => KilledForOwnAction
  <1> DEFINE Own == \A p \in killed' \ killed : "softirq" \notin env =>
          \E c \in Cpus :
            /\ Level(c) = "task" /\ Running(c).proc = p
            /\ rules[Running(c).ctx] \in {"BLOCK_KILL_PROCESS", "BLOCK_KILL_PROCESS_KILL_PARENT", "KILL_PROCESS"}
  <1>1. ASSUME SlotInv, Next PROVE Own
    <2> SUFFICES ASSUME NEW p \in killed' \ killed, "softirq" \notin env
                 PROVE  \E c \in Cpus :
                   /\ Level(c) = "task" /\ Running(c).proc = p
                   /\ rules[Running(c).ctx] \in {"BLOCK_KILL_PROCESS", "BLOCK_KILL_PROCESS_KILL_PARENT", "KILL_PROCESS"}
      OBVIOUS
    <2>1. PICK c \in Cpus : Apply(c)
      BY <1>1 DEF Next, Enter, Softirq, Lookup, FailOpen, Fill, Match, SetAction, UpdateCache,
                  Exec, FileChange, Evict
    <2>2. CpuInv(c)
      BY <1>1 DEF SlotInv
    <2>3. Level(c) = "task" /\ Running(c) = frames[c]["task"]
      BY <2>2 DEF CpuInv, Level, Running
    <2>4. Running(c).pc = "apply" /\ Slot(c).action \in kill_proccesses /\ p = frames[c]["task"].proc
      BY <2>1 DEF Apply, Slot
    <2>5. Slot(c).ctx = Running(c).ctx /\ Slot(c).action = rules[Slot(c).ctx]
      BY <2>2, <2>3, <2>4 DEF CpuInv, Owned, Past, Progress
    <2> QED BY <2>3, <2>4, <2>5 DEF kill_proccesses
  <1>2. SlotInv /\ [Next]_vars => [Own]_vars
    BY <1>1
  <1> QED BY <1>2, InitSlot, NextSlot, PTL DEF Spec, KilledForOwnAction

-----------------------------------------------------------------------------
(* The verdict caches. *)

RuleVerdict(k) == Verdict(rules[ContextOf(k[1], k[2])])

\* While nothing changes, a slot that has a key has the context of that key.
KeyInv ==
  Unchanging => \A c \in Cpus : Slot(c).key # NoKey =>
    Slot(c).ctx = ContextOf(Slot(c).key[1], Slot(c).key[2])

CacheInv == SlotInv /\ KeyInv /\ GlobalVerdictIsRules /\ CachedDenyIsRules

\* The caches are empty in the initial state.
LEMMA InitCache == Init => CacheInv
  <1> SUFFICES ASSUME Init PROVE CacheInv
    OBVIOUS
  <1>1. SlotInv
    BY InitSlot
  <1>2. \A c \in Cpus : Slot(c).key = NoKey
    BY DEF Init, Slot
  <1>3. \A k \in Keys : global_cache[k] = NOT_IN_CACHE /\ \A c \in Cpus : private_cache[c][k] = NOT_IN_CACHE
    BY DEF Init
  <1> QED BY <1>1, <1>2, <1>3
      DEF CacheInv, KeyInv, GlobalVerdictIsRules, CachedDenyIsRules, NOT_IN_CACHE, DENY

\* Entering the verdict of the rules keeps the private caches right: what the
\* kernel puts on the other CPUs is ALLOW, never DENY.
LEMMA PerCpuDeny ==
  ASSUME TypeOK, NEW c \in Cpus, NEW k \in Keys, NEW v \in {ALLOW, DENY}, v = RuleVerdict(k),
         \A d \in Cpus, j \in Keys : private_cache[d][j] = DENY => RuleVerdict(j) = DENY
  PROVE  \A d \in Cpus, j \in Keys :
           PerCpuUpdate(private_cache, c, k, v)[d][j] = DENY => RuleVerdict(j) = DENY
  <1> SUFFICES ASSUME NEW d \in Cpus, NEW j \in Keys,
                      PerCpuUpdate(private_cache, c, k, v)[d][j] = DENY
               PROVE  RuleVerdict(j) = DENY
    OBVIOUS
  <1> HIDE DEF RuleVerdict
  <1>1. private_cache[d] \in [Keys -> Cached]
    BY DEF TypeOK
  <1>2. PerCpuUpdate(private_cache, c, k, v)[d][j] =
          IF j = k THEN IF d = c THEN v ELSE IF private_cache[d][k] = NOT_IN_CACHE THEN ALLOW
                                             ELSE private_cache[d][k]
          ELSE private_cache[d][j]
    BY <1>1 DEF PerCpuUpdate
  <1> QED BY <1>2 DEF ALLOW, DENY

\* A step that changes neither rules, images nor files, and enters into the
\* caches nothing but verdicts of the rules.
LEMMA CacheStep ==
  ASSUME CacheInv, SlotInv', KeyInv', UNCHANGED <<env, rules, image, mode>>,
         Unchanging =>
           /\ \A k \in Keys : global_cache'[k] \in {NOT_IN_CACHE, global_cache[k], RuleVerdict(k)}
           /\ \A c \in Cpus, k \in Keys : private_cache'[c][k] = DENY => RuleVerdict(k) = DENY
  PROVE  CacheInv'
  <1>1. \A k : RuleVerdict(k)' = RuleVerdict(k)
    BY DEF RuleVerdict, Verdict, ContextOf
  <1>2. Unchanging' = Unchanging
    BY DEF Unchanging
  <1>3. GlobalVerdictIsRules'
    <2> SUFFICES ASSUME Unchanging, NEW k \in Keys, global_cache'[k] # NOT_IN_CACHE
                 PROVE  global_cache'[k] = Verdict(rules[ContextOf(k[1], k[2])])'
      BY <1>2 DEF GlobalVerdictIsRules, NOT_IN_CACHE
    <2> QED BY <1>1 DEF CacheInv, GlobalVerdictIsRules, RuleVerdict
  <1>4. CachedDenyIsRules'
    <2> SUFFICES ASSUME Unchanging, NEW c \in Cpus, NEW k \in Keys, private_cache'[c][k] = DENY
                 PROVE  Verdict(rules[ContextOf(k[1], k[2])])' = DENY
      BY <1>2 DEF CachedDenyIsRules, DENY
    <2> QED BY <1>1 DEF RuleVerdict
  <1> QED BY <1>3, <1>4 DEF CacheInv

\* Every step keeps the caches right.
LEMMA NextCache == CacheInv /\ [Next]_vars => CacheInv'
  <1> SUFFICES ASSUME CacheInv, [Next]_vars PROVE CacheInv'
    OBVIOUS
  <1>a. SlotInv' /\ SlotInv /\ TypeOK
    BY NextSlot DEF CacheInv, SlotInv, TypeInv
  <1>b. Unchanging =>
          /\ \A k \in Keys : global_cache[k] # NOT_IN_CACHE => global_cache[k] = RuleVerdict(k)
          /\ \A c \in Cpus, k \in Keys : private_cache[c][k] = DENY => RuleVerdict(k) = DENY
    BY DEF CacheInv, GlobalVerdictIsRules, CachedDenyIsRules, RuleVerdict
  <1>c. ASSUME UNCHANGED <<env, rules, image, mode, private_cache, global_cache>>, KeyInv'
        PROVE  CacheInv'
    BY <1>a, <1>b, <1>c, CacheStep
  <1>d. ASSUME UNCHANGED <<env, image, mode, currently_handled_event>> PROVE KeyInv'
    BY <1>d DEF CacheInv, KeyInv, Unchanging, Slot, ContextOf
  <1>1. ASSUME NEW c \in Cpus, NEW hook \in {"write_hook", "chmod_hook"},
               NEW p \in Procs, NEW f \in Files, Enter(c, hook, p, f)
        PROVE  CacheInv'
    BY <1>1, <1>c, <1>d DEF Enter
  <1>2. ASSUME NEW c \in Cpus, Softirq(c) \/ FailOpen(c) \/ Match(c) \/ Apply(c) PROVE CacheInv'
    <2>1. UNCHANGED <<env, rules, image, mode, private_cache, global_cache, currently_handled_event>>
      BY <1>2 DEF Softirq, FailOpen, Match, Apply
    <2> QED BY <2>1, <1>c, <1>d
  <1>3. ASSUME NEW c \in Cpus, Lookup(c) PROVE CacheInv'
    <2> DEFINE k == KeyOf(Running(c))
               v == get_event_verdict_from_cache(c, k)
    <2>1. Running(c) \in FrameT /\ Running(c).hook = "write_hook"
      BY <1>3, <1>a, RunningType DEF Lookup, SlotInv, TypeInv, WritesOnly
    <2>2. k \in Keys
      BY <2>1, KeyType
    <2>3. UNCHANGED <<env, rules, image, mode, global_cache, currently_handled_event>>
      BY <1>3 DEF Lookup
    <2>4. KeyInv'
      BY <2>3, <1>d
    <2>5. ASSUME Unchanging
          PROVE  \A d \in Cpus, j \in Keys : private_cache'[d][j] = DENY => RuleVerdict(j) = DENY
      <3>1. CASE private_cache[c][k] = NOT_IN_CACHE /\ v # NOT_IN_CACHE
        <4>1. v = global_cache[k] /\ private_cache' = PerCpuUpdate(private_cache, c, k, v)
          BY <1>3, <3>1 DEF Lookup, get_event_verdict_from_cache
        <4>2. v = RuleVerdict(k)
          BY <1>b, <2>2, <2>5, <3>1, <4>1
        <4>3. v \in {ALLOW, DENY}
          BY <1>a, <2>2, <3>1, <4>1 DEF TypeOK, Cached
        <4> HIDE DEF v, k
        <4> QED BY <1>a, <1>b, <2>2, <2>5, <4>1, <4>2, <4>3, PerCpuDeny
      <3>2. CASE ~(private_cache[c][k] = NOT_IN_CACHE /\ v # NOT_IN_CACHE)
        <4>1. private_cache' = private_cache
          BY <1>3, <3>2 DEF Lookup
        <4> QED BY <1>b, <2>5, <4>1
      <3> QED BY <3>1, <3>2
    <2> QED BY <1>a, <2>3, <2>4, <2>5, CacheStep
  <1>4. ASSUME NEW c \in Cpus, Fill(c) PROVE CacheInv'
    <2> DEFINE r == Running(c)
               ctx == IF r.hook = "inet_conn_request_hook" THEN Conn ELSE ContextOf(r.proc, r.file)
               s == [id |-> next_id, ctx |-> ctx, key |-> KeyOf(r), action |-> "ALLOW_EVENT"]
    <2>1. UNCHANGED <<env, rules, image, mode, private_cache, global_cache>>
          /\ currently_handled_event' = [currently_handled_event EXCEPT ![c] = s]
      BY <1>4 DEF Fill
    <2>2. Slot(c)'.key = KeyOf(r) /\ Slot(c)'.ctx = ctx /\ \A d \in Cpus \ {c} : Slot(d)' = Slot(d)
      BY <1>a, <2>1 DEF TypeOK, Slot
    <2>3. r \in FrameT
      BY <1>a, RunningType
    <2>4. KeyOf(r) # NoKey => ctx = ContextOf(KeyOf(r)[1], KeyOf(r)[2])
      BY <2>3, KeyType DEF KeyOf
    <2> HIDE DEF r, s, ctx
    <2>5. KeyInv'
      <3> SUFFICES ASSUME Unchanging, NEW d \in Cpus, Slot(d)'.key # NoKey
                   PROVE  Slot(d)'.ctx = ContextOf(Slot(d)'.key[1], Slot(d)'.key[2])
        BY <2>1 DEF KeyInv, Unchanging, ContextOf
      <3>1. CASE d = c
        BY <2>2, <2>4, <3>1
      <3>2. CASE d # c
        BY <2>2, <3>2 DEF CacheInv, KeyInv
      <3> QED BY <3>1, <3>2
    <2> QED BY <1>c, <2>1, <2>5
  <1>5. ASSUME NEW c \in Cpus, SetAction(c) PROVE CacheInv'
    <2>1. UNCHANGED <<env, rules, image, mode, private_cache, global_cache>>
      BY <1>5 DEF SetAction
    <2>2. \A d \in Cpus : Slot(d)'.key = Slot(d).key /\ Slot(d)'.ctx = Slot(d).ctx
      BY <1>5, <1>a DEF SetAction, TypeOK, Slot
    <2>3. KeyInv'
      BY <2>1, <2>2 DEF CacheInv, KeyInv, Unchanging, ContextOf
    <2> QED BY <1>c, <2>1, <2>3
  <1>6. ASSUME NEW c \in Cpus, UpdateCache(c) PROVE CacheInv'
    <2> DEFINE k == currently_handled_event[c].key
               v == Running(c).pc
    <2>1. UNCHANGED <<env, rules, image, mode, currently_handled_event>> /\ v \in {ALLOW, DENY}
      BY <1>6 DEF UpdateCache
    <2>2. KeyInv'
      BY <2>1, <1>d
    <2>3. CASE k = NoKey
      <3>1. UNCHANGED <<private_cache, global_cache>>
        BY <1>6, <2>3 DEF UpdateCache
      <3> QED BY <1>c, <2>1, <2>2, <3>1
    <2>4. CASE k # NoKey
      <3>1. k \in Keys /\ k = Slot(c).key
        BY <1>a, <2>4 DEF TypeOK, Slot
      <3>2. Running(c) = frames[c]["task"]
        BY <1>a, <2>1, <3>1, <2>4 DEF SlotInv, CpuInv, Past, Running, Level, ALLOW, DENY
      <3>3. v = Verdict(rules[Slot(c).ctx])
        BY <1>a, <2>1, <2>4, <3>1, <3>2 DEF SlotInv, CpuInv, Owned, Progress
      <3>4. Unchanging => v = RuleVerdict(k)
        BY <2>4, <3>1, <3>3 DEF CacheInv, KeyInv, RuleVerdict
      <3>5. private_cache' = PerCpuUpdate(private_cache, c, k, v)
            /\ global_cache' = [global_cache EXCEPT ![k] = v]
        BY <1>6, <2>4 DEF UpdateCache
      <3> HIDE DEF k, v
      <3>6. Unchanging => \A j \in Keys : global_cache'[j] \in {NOT_IN_CACHE, global_cache[j], RuleVerdict(j)}
        BY <1>a, <3>1, <3>4, <3>5 DEF TypeOK
      <3>7. Unchanging => \A d \in Cpus, j \in Keys : private_cache'[d][j] = DENY => RuleVerdict(j) = DENY
        BY <1>a, <1>b, <2>1, <3>1, <3>4, <3>5, PerCpuDeny
      <3> QED BY <1>a, <2>1, <2>2, <3>6, <3>7, CacheStep
    <2> QED BY <2>3, <2>4
  <1>7. ASSUME ~Unchanging, UNCHANGED env PROVE CacheInv'
    BY <1>a, <1>7 DEF CacheInv, KeyInv, GlobalVerdictIsRules, CachedDenyIsRules, Unchanging
  <1>8. ASSUME NEW p \in Procs, NEW i \in Images, Exec(p, i) PROVE CacheInv'
    BY <1>7, <1>8 DEF Exec, Unchanging
  <1>9. ASSUME NEW f \in Files, NEW a \in Modes, FileChange(f, a) PROVE CacheInv'
    BY <1>7, <1>9 DEF FileChange, Unchanging
  <1>10. ASSUME NEW k \in Keys, Evict(k) PROVE CacheInv'
    <2>1. UNCHANGED <<env, rules, image, mode, currently_handled_event>>
      BY <1>10 DEF Evict
    <2>2. KeyInv'
      BY <2>1, <1>d
    <2>3. \A j \in Keys : global_cache'[j] \in {NOT_IN_CACHE, global_cache[j]}
      BY <1>10, <1>a DEF Evict, TypeOK
    <2>4. \A d \in Cpus, j \in Keys : private_cache'[d][j] \in {NOT_IN_CACHE, private_cache[d][j]}
      <3>1. \/ private_cache' = private_cache
            \/ private_cache' = [d \in Cpus |-> [private_cache[d] EXCEPT ![k] = NOT_IN_CACHE]]
        BY <1>10 DEF Evict
      <3>2. \A d \in Cpus : private_cache[d] \in [Keys -> Cached]
        BY <1>a DEF TypeOK
      <3> QED BY <3>1, <3>2
    <2>5. Unchanging => \A d \in Cpus, j \in Keys : private_cache'[d][j] = DENY => RuleVerdict(j) = DENY
      BY <1>b, <2>4 DEF NOT_IN_CACHE, DENY
    <2> QED BY <1>a, <2>1, <2>2, <2>3, <2>5, CacheStep
  <1>11. CASE UNCHANGED vars
    BY <1>11, <1>c, <1>d DEF vars
  <1> QED BY <1>1, <1>2, <1>3, <1>4, <1>5, <1>6, <1>8, <1>9, <1>10, <1>11 DEF Next

\* While processes and files do not change, the global verdict cache holds
\* the verdicts of the rules and nothing else, on any number of CPUs and
\* although softirqs replace the event in the slot.
THEOREM GlobalCacheCorrect == Spec => []GlobalVerdictIsRules
  <1>1. CacheInv => GlobalVerdictIsRules
    BY DEF CacheInv
  <1> QED BY <1>1, InitCache, NextCache, PTL DEF Spec

\* In the same conditions no private cache denies what the rules allow.
THEOREM PrivateCacheCorrect == Spec => []CachedDenyIsRules
  <1>1. CacheInv => CachedDenyIsRules
    BY DEF CacheInv
  <1> QED BY <1>1, InitCache, NextCache, PTL DEF Spec
=============================================================================
