------------------------ MODULE ShellCommandsProofs ------------------------
(***************************************************************************)
(* Proofs about ShellCommands, for any number of processes, lines and      *)
(* programs and every behaviour of the environment: what is recorded for a *)
(* shell is its own and current, scripts are not recorded, and a process   *)
(* that exits leaves nothing behind.                                       *)
(***************************************************************************)
EXTENDS ShellCommands, FiniteSetTheorems, SequenceTheorems, TLAPS

TaskT == [uid : 0 .. MaxUids, prog : Shells,
          kind : {"interactive", "script", "child", "other"},
          pc : {"gone", "run", "run2", "parse", "parse2", "prompt", "prompt2", "list2",
                "exit1", "exit2", "look"},
          typed : Nat, ppid : Nat, puid : 0 .. MaxUids, ev : 0 .. MaxUids]
EntryT == [uid : 0 .. MaxUids, cmd : Nat]
LineT == [uid : 0 .. MaxUids, typed : BOOLEAN]

TypeInv ==
  /\ env \in Envs
  /\ task \in [Pids -> TaskT]
  /\ alive \in [Pids -> EntryT]
  /\ dead \in [Uids -> Nat]
  /\ active \in [Pids -> SUBSET {1, 2}]
  /\ exec_pids \in SUBSET Pids
  /\ walk \in Nat /\ uids \in Nat /\ uids <= MaxUids
  /\ lines \in Seq(LineT)

LEMMA PidsAssumption ==
  /\ Pids \subseteq Nat \ {0} /\ Cardinality(Pids) \in Nat /\ MaxUids \in Nat
  /\ \A p \in Pids : p <= Cardinality(Pids)
  /\ Cardinality(Pids) <= MaxUids
  /\ \A p \in Pids : 1 \in Pids
<1>1. Cardinality(Pids) \in Nat
  BY BoundAssumption, FS_CardinalityType
<1>2. QED
  BY <1>1, BoundAssumption

LEMMA TypeInit == Init => TypeInv
<1> SUFFICES ASSUME Init PROVE TypeInv
  OBVIOUS
<1>1. ASSUME NEW p \in Pids, NEW prog \in Shells, NEW kind \in {"interactive", "child"}
      PROVE  InitialTask(p, prog, kind) \in TaskT
  BY PidsAssumption DEF InitialTask, TaskT
<1>2. NoTask \in TaskT
  BY PidsAssumption DEF NoTask, TaskT, Shells
<1>3. task \in [Pids -> TaskT]
  BY <1>1, <1>2 DEF Init
<1>4. alive \in [Pids -> EntryT]
  <2>1. \A p \in Pids : task[p].uid \in 0 .. MaxUids
    BY <1>3 DEF TaskT
  <2>2. NoEntry \in EntryT
    BY PidsAssumption DEF NoEntry, EntryT
  <2>3. QED
    BY <2>1, <2>2 DEF Init, EntryT
<1>5. QED
  BY <1>3, <1>4, PidsAssumption DEF Init, TypeInv

\* What the operations on the caches store.
LEMMA CacheOperations ==
  ASSUME TypeInv, NEW p \in Pids, NEW n \in Nat, NEW uid \in 0 .. MaxUids
  PROVE  /\ Cleared(p) \in [Pids -> EntryT]
         /\ Recorded(p, n) \in [Pids -> EntryT]
         /\ CachedOnce(p, uid) \in [Pids -> EntryT]
         /\ CachedAnew(p, uid) \in [Pids -> EntryT]
         /\ \A r \in Pids : r # p =>
              /\ Cleared(p)[r] = alive[r] /\ Recorded(p, n)[r] = alive[r]
              /\ CachedOnce(p, uid)[r] = alive[r] /\ CachedAnew(p, uid)[r] = alive[r]
         /\ Cleared(p)[p].uid = alive[p].uid /\ Cleared(p)[p].cmd = 0
         /\ Recorded(p, n)[p].uid = (IF alive[p].uid = 0 THEN task[p].uid ELSE alive[p].uid)
         /\ Recorded(p, n)[p].cmd = n
         /\ CachedAnew(p, uid)[p].uid = uid /\ CachedAnew(p, uid)[p].cmd = 0
         /\ alive[p].uid = 0 => /\ CachedOnce(p, uid)[p].uid = uid
                                /\ CachedOnce(p, uid)[p].cmd = 0
         /\ alive[p].uid # 0 => CachedOnce(p, uid)[p] = alive[p]
<1>1. alive \in [Pids -> EntryT] /\ task[p] \in TaskT
  BY DEF TypeInv
<1>2. /\ alive[p].uid \in 0 .. MaxUids /\ task[p].uid \in 0 .. MaxUids
      /\ alive[p].cmd \in Nat
  BY <1>1 DEF EntryT, TaskT
<1>3. Cleared(p) \in [Pids -> EntryT]
  BY <1>1, <1>2 DEF Cleared, EntryT
<1>4. /\ Cleared(p)[p].uid = alive[p].uid /\ Cleared(p)[p].cmd = 0
      /\ \A r \in Pids : r # p => Cleared(p)[r] = alive[r]
  BY <1>1, <1>2 DEF Cleared, EntryT
<1>5. /\ Recorded(p, n) \in [Pids -> EntryT]
      /\ \A r \in Pids : r # p => Recorded(p, n)[r] = alive[r]
      /\ Recorded(p, n)[p].uid = (IF alive[p].uid = 0 THEN task[p].uid ELSE alive[p].uid)
      /\ Recorded(p, n)[p].cmd = n
  BY <1>1, <1>2 DEF Recorded, EntryT
<1>6. QED
  BY <1>1, <1>2, <1>3, <1>4, <1>5 DEF CachedOnce, CachedAnew, EntryT

LEMMA MarkOperation ==
  ASSUME TypeInv, NEW p \in Pids, NEW bits \in SUBSET {1, 2}
  PROVE  /\ Marked(p, bits) \in [Pids -> SUBSET {1, 2}]
         /\ \A r \in Pids : r # p => Marked(p, bits)[r] = active[r]
         /\ "crowded" \notin env => Marked(p, bits)[p] = bits
         /\ Marked(p, bits)[p] \in {active[p], bits}
BY DEF TypeInv, Marked

-----------------------------------------------------------------------------
\* The effect of each action on the process that takes it and on the others.

PcT == {"gone", "run", "run2", "parse", "parse2", "prompt", "prompt2", "list2",
        "exit1", "exit2", "look"}

\* p is at pc now and has read line n; it is the same process as before.
Moves(p, pc, n) ==
  /\ task' \in [Pids -> TaskT]
  /\ \A r \in Pids : r # p => task'[r] = task[r]
  /\ task'[p].uid = task[p].uid /\ task'[p].prog = task[p].prog
  /\ task'[p].kind = task[p].kind
  /\ task'[p].ppid = task[p].ppid /\ task'[p].puid = task[p].puid
  /\ task'[p].pc = pc /\ task'[p].typed = n

\* The entry of p in the process cache is now <<uid, n>>.
Caches(p, uid, n) ==
  /\ alive' \in [Pids -> EntryT]
  /\ \A r \in Pids : r # p => alive'[r] = alive[r]
  /\ alive'[p].uid = uid /\ alive'[p].cmd = n

\* The entry of p in active_shell_pids is now one of a set.
Marks(p, S) ==
  /\ active' \in [Pids -> SUBSET {1, 2}]
  /\ \A r \in Pids : r # p => active'[r] = active[r]
  /\ active'[p] \in S

\* p read a further line.
Reads(p, typed) ==
  /\ lines' \in Seq(LineT)
  /\ Len(lines') = Len(lines) + 1
  /\ \A i \in 1 .. Len(lines) : lines'[i] = lines[i]
  /\ lines'[Len(lines')] = [uid |-> task[p].uid, typed |-> typed]

LEMMA MovePc ==
  ASSUME TypeInv, NEW p \in Pids, NEW pc \in PcT, task' = [task EXCEPT ![p].pc = pc]
  PROVE  Moves(p, pc, task[p].typed)
BY DEF TypeInv, TaskT, Moves, PcT

LEMMA MoveBoth ==
  ASSUME TypeInv, NEW p \in Pids, NEW pc \in PcT, NEW n \in Nat,
         task' = [task EXCEPT ![p].pc = pc, ![p].typed = n]
  PROVE  Moves(p, pc, n)
BY DEF TypeInv, TaskT, Moves, PcT

LEMMA MoveNot ==
  ASSUME TypeInv, NEW p \in Pids, task' = task
  PROVE  Moves(p, task[p].pc, task[p].typed)
BY DEF TypeInv, Moves

LEMMA CacheNot ==
  ASSUME TypeInv, NEW p \in Pids, alive' = alive
  PROVE  Caches(p, alive[p].uid, alive[p].cmd)
BY DEF TypeInv, Caches

LEMMA MarkNot ==
  ASSUME TypeInv, NEW p \in Pids, active' = active
  PROVE  Marks(p, {active[p]})
BY DEF TypeInv, Marks

LEMMA Clearing ==
  ASSUME TypeInv, NEW p \in Pids, alive' = Cleared(p)
  PROVE  Caches(p, alive[p].uid, 0)
<1>1. 0 \in Nat /\ 0 \in 0 .. MaxUids
  BY PidsAssumption
<1>2. QED
  BY <1>1, CacheOperations DEF Caches

LEMMA Recording ==
  ASSUME TypeInv, NEW p \in Pids, NEW n \in Nat, alive' = Recorded(p, n)
  PROVE  Caches(p, IF alive[p].uid = 0 THEN task[p].uid ELSE alive[p].uid, n)
<1>1. 0 \in 0 .. MaxUids
  BY PidsAssumption
<1>2. QED
  BY <1>1, CacheOperations DEF Caches

LEMMA Reading ==
  ASSUME TypeInv, NEW p \in Pids, NEW typed \in BOOLEAN, NewLine(p, typed)
  PROVE  Reads(p, typed) /\ Len(lines') \in Nat
<1> DEFINE l == [uid |-> task[p].uid, typed |-> typed]
<1>1. l \in LineT
  BY DEF TypeInv, TaskT, LineT
<1>2. lines \in Seq(LineT) /\ lines' = Append(lines, l)
  BY DEF TypeInv, NewLine
<1> HIDE DEF l
<1>3. QED
  BY <1>1, <1>2, AppendProperties DEF Reads, l

\* What holds after a step that leaves the life of the processes alone.
Quiet == env' = env /\ dead' = dead /\ exec_pids' = exec_pids /\ uids' = uids

LEMMA QuietType ==
  ASSUME TypeInv, Quiet, task' \in [Pids -> TaskT], alive' \in [Pids -> EntryT],
         active' \in [Pids -> SUBSET {1, 2}], walk' \in Nat, lines' \in Seq(LineT)
  PROVE  TypeInv'
BY DEF TypeInv, Quiet

LEMMA enter_readline_Effect ==
  ASSUME TypeInv, NEW p \in Pids, enter_readline(p)
  PROVE  /\ Quiet /\ walk' = walk /\ lines' = lines
         /\ task[p].kind = "interactive"
         /\ \E pc \in {"prompt", "prompt2"} : Moves(p, pc, task[p].typed)
         /\ Caches(p, alive[p].uid, 0)
         /\ Marks(p, {active[p]})
<1>1. /\ task' = [task EXCEPT ![p].pc = NextPrompt(p)] /\ alive' = Cleared(p)
      /\ active' = active /\ Quiet /\ walk' = walk /\ lines' = lines
      /\ task[p].kind = "interactive"
  BY DEF enter_readline, Quiet
<1>2. NextPrompt(p) \in {"prompt", "prompt2"} /\ NextPrompt(p) \in PcT
  BY DEF NextPrompt, PcT
<1>3. QED
  BY <1>1, <1>2, MovePc, Clearing, MarkNot

\* exit_readline and exit_zleentry
LineTyped(p) ==
  /\ Quiet /\ walk' = walk /\ Reads(p, TRUE) /\ Started(p)
  /\ task[p].pc \in {"prompt", "prompt2"}
  /\ \E pc \in {"run", "run2", "parse2"} : Moves(p, pc, Len(lines'))
  /\ Caches(p, IF alive[p].uid = 0 THEN task[p].uid ELSE alive[p].uid, Len(lines'))
  /\ Marks(p, {active[p]})

LEMMA LineTyped_Effect ==
  ASSUME TypeInv, NEW p \in Pids, exit_readline(p) \/ exit_zleentry(p)
  PROVE  LineTyped(p)
<1>1. /\ NewLine(p, TRUE) /\ (LineRead(p, "run2") \/ LineRead(p, "parse2"))
      /\ alive' = Recorded(p, Len(lines'))
      /\ active' = active /\ Quiet /\ walk' = walk
      /\ task[p].pc \in {"prompt", "prompt2"} /\ Started(p)
  BY DEF exit_readline, exit_zleentry, Quiet, At
<1>2. Reads(p, TRUE) /\ Len(lines') \in Nat
  BY <1>1, Reading
<1>3. PICK pc \in {"run", "run2", "parse2"} :
            task' = [task EXCEPT ![p].pc = pc, ![p].typed = Len(lines')]
  BY <1>1 DEF LineRead
<1>4. pc \in PcT
  BY DEF PcT
<1>5. Moves(p, pc, Len(lines'))
  BY <1>2, <1>3, <1>4, MoveBoth
<1>6. Caches(p, IF alive[p].uid = 0 THEN task[p].uid ELSE alive[p].uid, Len(lines'))
  BY <1>1, <1>2, Recording
<1>7. QED
  BY <1>1, <1>2, <1>5, <1>6, MarkNot DEF LineTyped

LEMMA NothingRead_Effect ==
  ASSUME TypeInv, NEW p \in Pids, NothingRead(p)
  PROVE  /\ Quiet /\ walk' = walk /\ lines' = lines
         /\ task[p].pc \in {"prompt", "prompt2"}
         /\ Moves(p, "run", 0)
         /\ Caches(p, alive[p].uid, alive[p].cmd)
         /\ Marks(p, {active[p]})
<1>1. "run" \in PcT /\ 0 \in Nat
  BY DEF PcT
<1>2. QED
  BY <1>1, MoveBoth, CacheNot, MarkNot DEF NothingRead, Quiet

\* One of the two hooks of zsh: the second one clears.
HookEntered(p, bit) ==
  \/ /\ active[p] \cup {bit} = {1, 2}
     /\ Caches(p, alive[p].uid, 0) /\ Marks(p, {{}})
  \/ /\ active[p] \cup {bit} # {1, 2}
     /\ Caches(p, alive[p].uid, alive[p].cmd)
     /\ Marks(p, {active[p], active[p] \cup {bit}})
     /\ "crowded" \notin env => active'[p] = active[p] \cup {bit}

LEMMA HookEffect ==
  ASSUME TypeInv, NEW p \in Pids, NEW bit \in {1, 2}, check_and_clear_if_both_hooks_entered(p, bit)
  PROVE  HookEntered(p, bit)
<1>1. CASE active[p] \cup {bit} = {1, 2}
  <2>1. alive' = Cleared(p) /\ active' = [active EXCEPT ![p] = {}]
    BY <1>1 DEF check_and_clear_if_both_hooks_entered, HOOK_ZLEENTRY_ENTERED,
                HOOK_PARSE_EVENT_ENTERED
  <2>2. Marks(p, {{}})
    BY <2>1 DEF Marks, TypeInv
  <2>3. QED
    BY <1>1, <2>1, <2>2, Clearing DEF HookEntered
<1>2. CASE active[p] \cup {bit} # {1, 2}
  <2>1. active' = Marked(p, active[p] \cup {bit}) /\ alive' = alive
    BY <1>2 DEF check_and_clear_if_both_hooks_entered, HOOK_ZLEENTRY_ENTERED,
                HOOK_PARSE_EVENT_ENTERED
  <2>2. active[p] \cup {bit} \in SUBSET {1, 2}
    BY DEF TypeInv
  <2>3. Marks(p, {active[p], active[p] \cup {bit}})
    BY <2>1, <2>2, MarkOperation DEF Marks
  <2>4. QED
    BY <1>2, <2>1, <2>2, <2>3, CacheNot, MarkOperation DEF HookEntered
<1>3. QED
  BY <1>1, <1>2

LEMMA enter_parse_event_Effect ==
  ASSUME TypeInv, NEW p \in Pids, enter_parse_event(p)
  PROVE  /\ Quiet /\ walk' = walk /\ lines' = lines
         /\ task[p].prog = "zsh" /\ task[p].pc = "run"
         /\ \/ task[p].kind = "interactive" /\ Moves(p, "parse", task[p].typed)
            \/ Parses(p) /\ Moves(p, "run", task[p].typed)
         /\ HookEntered(p, 2)
<1>1. "parse" \in PcT /\ 2 \in {1, 2}
  BY DEF PcT
<1>2. HookEntered(p, 2)
  BY <1>1, HookEffect DEF enter_parse_event, HOOK_PARSE_EVENT_ENTERED
<1>3. QED
  BY <1>1, <1>2, MovePc, MoveNot DEF enter_parse_event, Quiet, At

LEMMA enter_zleentry_Effect ==
  ASSUME TypeInv, NEW p \in Pids, enter_zleentry(p)
  PROVE  /\ Quiet /\ walk' = walk /\ lines' = lines
         /\ \/ task[p].pc = "parse" /\ Moves(p, "prompt", task[p].typed)
            \/ task[p].pc = "parse2" /\ Moves(p, "prompt2", task[p].typed)
            \/ /\ task[p].kind = "interactive" /\ task[p].pc = "run"
               /\ Moves(p, "run", task[p].typed)
         /\ HookEntered(p, 1)
<1>1. {"prompt", "prompt2"} \subseteq PcT /\ 1 \in {1, 2}
  BY DEF PcT
<1>2. HookEntered(p, 1)
  BY <1>1, HookEffect DEF enter_zleentry, HOOK_ZLEENTRY_ENTERED
<1>3. QED
  BY <1>1, <1>2, MovePc, MoveNot DEF enter_zleentry, Quiet, At, NextPrompt

LEMMA enterSetprompt_Effect ==
  ASSUME TypeInv, NEW p \in Pids, enterSetprompt(p)
  PROVE  /\ Quiet /\ walk' = walk /\ lines' = lines
         /\ task[p].kind = "interactive" /\ task[p].pc = "run"
         /\ Moves(p, "prompt", task[p].typed)
         /\ Caches(p, alive[p].uid, 0)
         /\ Marks(p, {active[p], {1}})
         /\ "crowded" \notin env => active'[p] = {1}
<1>1. "prompt" \in PcT /\ {1} \in SUBSET {1, 2}
  BY DEF PcT
<1>2. Marks(p, {active[p], {1}}) /\ ("crowded" \notin env => active'[p] = {1})
  BY <1>1, MarkOperation DEF enterSetprompt, Marks
<1>3. QED
  BY <1>1, <1>2, MovePc, Clearing DEF enterSetprompt, Quiet, At

LEMMA exitList_Effect ==
  ASSUME TypeInv, NEW p \in Pids, exitList(p)
  PROVE  /\ Quiet /\ Started(p) /\ task[p].prog = "dash" /\ CpuIsFree
         /\ \/ task[p].pc = "prompt" /\ Reads(p, TRUE)
            \/ task[p].pc = "run" /\ Parses(p) /\ Reads(p, FALSE)
         /\ Moves(p, IF active[p] # {} THEN "list2" ELSE "run",
                     IF task[p].pc = "prompt" THEN Len(lines') ELSE task[p].typed)
         /\ walk' = (IF active[p] # {} THEN Len(lines') ELSE walk)
         /\ Caches(p, alive[p].uid, alive[p].cmd)
         /\ Marks(p, {active[p]})
<1> DEFINE pc == IF active[p] # {} THEN "list2" ELSE "run"
           n == IF task[p].pc = "prompt" THEN Len(lines') ELSE task[p].typed
<1>1. /\ Quiet /\ Started(p) /\ task[p].prog = "dash" /\ CpuIsFree
      /\ task[p].pc = "prompt" \/ (task[p].pc = "run" /\ Parses(p))
      /\ NewLine(p, task[p].pc = "prompt")
      /\ task' = [task EXCEPT ![p].pc = pc, ![p].typed = n]
      /\ walk' = (IF active[p] # {} THEN Len(lines') ELSE walk)
      /\ alive' = alive /\ active' = active
  BY DEF exitList, Quiet, At, IsActive
<1>2. Reads(p, task[p].pc = "prompt") /\ Len(lines') \in Nat
  BY <1>1, Reading
<1>3. pc \in PcT /\ n \in Nat
  BY <1>2 DEF PcT, TypeInv, TaskT
<1>4. Moves(p, pc, n)
  <2> HIDE DEF pc, n
  <2>1. QED
    BY <1>1, <1>3, MoveBoth
<1>5. /\ task[p].pc = "prompt" => Reads(p, TRUE)
      /\ task[p].pc # "prompt" => Reads(p, FALSE)
  <2>1. CASE task[p].pc = "prompt"
    BY <1>2, <2>1 DEF Reads
  <2>2. CASE task[p].pc # "prompt"
    BY <1>2, <2>2 DEF Reads
  <2>3. QED
    BY <2>1, <2>2
<1>6. QED
  BY <1>1, <1>4, <1>5, CacheNot, MarkNot

LEMMA exitList_2_Effect ==
  ASSUME TypeInv, NEW p \in Pids, exitList_2(p)
  PROVE  /\ Quiet /\ walk' = walk /\ lines' = lines
         /\ task[p].pc = "list2"
         /\ Moves(p, "run", task[p].typed)
         /\ Caches(p, IF alive[p].uid = 0 THEN task[p].uid ELSE alive[p].uid, walk)
         /\ Marks(p, {active[p]})
<1>1. "run" \in PcT /\ walk \in Nat
  BY DEF PcT, TypeInv
<1>2. QED
  BY <1>1, MovePc, Recording, MarkNot DEF exitList_2, Quiet, At

\* The step leaves the shells' side alone.
Silent == env' = env /\ walk' = walk /\ lines' = lines

LEMMA Fork_Effect ==
  ASSUME TypeInv, NEW p \in Pids, NEW q \in Pids, Fork(p, q)
  PROVE  /\ Silent /\ dead' = dead /\ active' = active /\ exec_pids' = exec_pids
         /\ p # q /\ task[p].pc = "run" /\ task[q].pc = "gone"
         /\ task[q].uid = 0 \/ "reuse" \in env
         /\ uids' = uids + 1 /\ uids' \in 1 .. MaxUids
         /\ task' \in [Pids -> TaskT]
         /\ \A r \in Pids : r # q => task'[r] = task[r]
         /\ task'[q].uid = uids' /\ task'[q].pc = "run" /\ task'[q].typed = 0
         /\ task'[q].kind \in {"other", "child"}
         /\ task'[q].ppid = p /\ task'[q].puid = task[p].uid
         /\ alive' \in [Pids -> EntryT]
         /\ \/ "ringbuf_full" \in env /\ alive' = alive
            \/ /\ \A r \in Pids : r \notin {p, q} => alive'[r] = alive[r]
               /\ alive'[q].uid = uids' /\ alive'[q].cmd = 0
               /\ alive[p].uid # 0 => alive'[p] = alive[p]
               /\ alive[p].uid = 0 => alive'[p].uid = task[p].uid /\ alive'[p].cmd = 0
<1> DEFINE t == [uid |-> uids', prog |-> task[p].prog,
                 kind |-> IF task[p].kind = "other" THEN "other" ELSE "child",
                 pc |-> "run", typed |-> 0, ppid |-> p, puid |-> task[p].uid, ev |-> 0]
<1>1. /\ Silent /\ dead' = dead /\ active' = active /\ exec_pids' = exec_pids
      /\ task[p].pc = "run" /\ task[q].pc = "gone"
      /\ task[q].uid = 0 \/ "reuse" \in env
      /\ uids < MaxUids /\ uids' = uids + 1
      /\ task' = [task EXCEPT ![q] = t]
  BY DEF Fork, Silent, Lives
<1>2. p # q
  BY <1>1
<1>3. uids' \in 1 .. MaxUids
  BY <1>1, PidsAssumption DEF TypeInv
<1>4. task \in [Pids -> TaskT] /\ task[p] \in TaskT /\ task[p].uid \in 0 .. MaxUids
  BY DEF TypeInv, TaskT
<1>5. t \in TaskT
  BY <1>3, <1>4, PidsAssumption DEF TaskT
<1>6. /\ task' \in [Pids -> TaskT]
      /\ \A r \in Pids : r # q => task'[r] = task[r]
      /\ task'[q] = t
  <2> HIDE DEF t
  <2>1. QED
    BY <1>1, <1>4, <1>5
<1>7. PICK ok \in Reserves : alive' = IF ok THEN ForkCached(p, q, uids') ELSE alive
  BY DEF Fork
<1>8. CASE ~ok
  <2>1. "ringbuf_full" \in env
    BY <1>8 DEF Reserves
  <2>2. alive' = alive /\ alive \in [Pids -> EntryT]
    BY <1>7, <1>8 DEF TypeInv
  <2>3. QED
    BY <1>1, <1>2, <1>3, <1>6, <2>1, <2>2
<1>9. CASE ok
  <2> DEFINE a == CachedAnew(q, uids')
             b == CachedOnce(p, task[p].uid)
  <2>1. alive' = [a EXCEPT ![p] = b[p]]
    BY <1>7, <1>9 DEF ForkCached
  <2>2. 0 \in Nat /\ uids' \in 0 .. MaxUids
    BY <1>3, PidsAssumption
  <2>3. /\ a \in [Pids -> EntryT] /\ a[q].uid = uids' /\ a[q].cmd = 0
        /\ \A r \in Pids : r # q => a[r] = alive[r]
    BY <2>2, CacheOperations
  <2>4. /\ b \in [Pids -> EntryT]
        /\ alive[p].uid # 0 => b[p] = alive[p]
        /\ alive[p].uid = 0 => b[p].uid = task[p].uid /\ b[p].cmd = 0
    BY <1>4, <2>2, CacheOperations
  <2> HIDE DEF a, b
  <2>5. QED
    BY <1>1, <1>2, <1>3, <1>6, <2>1, <2>3, <2>4
<1>10. QED
  BY <1>8, <1>9

\* p may have been looked up, and cached, in the step.
LookedUp(p) ==
  \/ alive[p].uid # 0 /\ Caches(p, alive[p].uid, alive[p].cmd)
  \/ alive[p].uid = 0 /\ Caches(p, task[p].uid, 0)

LEMMA LookUpEffect ==
  ASSUME TypeInv, NEW p \in Pids, alive' = CachedOnce(p, task[p].uid)
  PROVE  LookedUp(p)
<1>1. 0 \in Nat /\ task[p].uid \in 0 .. MaxUids
  BY DEF TypeInv, TaskT
<1>2. QED
  BY <1>1, CacheOperations DEF LookedUp, Caches

LEMMA Exec_Effect ==
  ASSUME TypeInv, NEW p \in Pids, NEW prog \in Shells,
         NEW kind \in {"interactive", "script", "other"}, Exec(p, prog, kind)
  PROVE  /\ Silent /\ dead' = dead /\ active' = active /\ uids' = uids
         /\ exec_pids' = exec_pids \cup {p}
         /\ task[p].pc = "run" /\ Started(p)
         /\ task[p].kind = "child" \/ ("exec" \in env /\ task[p].typed # 0)
         /\ task' \in [Pids -> TaskT]
         /\ \A r \in Pids : r # p => task'[r] = task[r]
         /\ task'[p].uid = task[p].uid /\ task'[p].pc = "run" /\ task'[p].typed = 0
         /\ task'[p].kind = kind
         /\ task'[p].ppid = task[p].ppid /\ task'[p].puid = task[p].puid
         /\ LookedUp(p)
<1>1. task' = [task EXCEPT ![p].prog = prog, ![p].kind = kind, ![p].typed = 0]
  BY DEF Exec
<1>2. /\ task' \in [Pids -> TaskT]
      /\ \A r \in Pids : r # p => task'[r] = task[r]
      /\ task'[p].uid = task[p].uid /\ task'[p].pc = task[p].pc /\ task'[p].typed = 0
      /\ task'[p].kind = kind
      /\ task'[p].ppid = task[p].ppid /\ task'[p].puid = task[p].puid
  <2>1. task \in [Pids -> TaskT]
    BY DEF TypeInv
  <2>2. \A r \in Pids : r # p => task'[r] = task[r]
    BY <1>1, <2>1
  <2>3. task'[p] = [task[p] EXCEPT !.prog = prog, !.kind = kind, !.typed = 0]
    BY <1>1, <2>1
  <2>4. task[p] \in TaskT
    BY <2>1
  <2>5. task'[p] \in TaskT
    <3> DEFINE a == [task[p] EXCEPT !.prog = prog]
               b == [a EXCEPT !.kind = kind]
               c == [b EXCEPT !.typed = 0]
    <3>1. a \in TaskT
      BY <2>4 DEF TaskT
    <3>2. b \in TaskT
      <4> HIDE DEF a
      <4>1. QED
        BY <3>1 DEF TaskT
    <3>3. c \in TaskT
      <4> HIDE DEF b
      <4>1. QED
        BY <3>2 DEF TaskT
    <3>4. QED
      BY <2>3, <3>3, Zenon
  <2>6. /\ task'[p].uid = task[p].uid /\ task'[p].pc = task[p].pc /\ task'[p].typed = 0
        /\ task'[p].kind = kind
        /\ task'[p].ppid = task[p].ppid /\ task'[p].puid = task[p].puid
    BY <2>3, <2>4 DEF TaskT
  <2>7. task' \in [Pids -> TaskT]
    BY <1>1, <2>1, <2>2, <2>5
  <2>8. QED
    BY <2>2, <2>6, <2>7
<1>3. QED
  BY <1>2, LookUpEffect DEF Exec, Silent

LEMMA exec_hook_Effect ==
  ASSUME TypeInv, NEW p \in Pids, exec_hook(p)
  PROVE  /\ Silent /\ dead' = dead /\ uids' = uids
         /\ exec_pids' = exec_pids \ {p} /\ p \in exec_pids
         /\ task[p].pc \notin {"gone", "exit1", "exit2"}
         /\ Moves(p, task[p].pc, task[p].typed)
         /\ Caches(p, task[p].uid, 0)
         /\ Marks(p, {active[p]})
<1>1. 0 \in Nat /\ task[p].uid \in 0 .. MaxUids
  BY DEF TypeInv, TaskT
<1>2. Caches(p, task[p].uid, 0)
  BY <1>1, CacheOperations DEF exec_hook, Caches
<1>3. QED
  BY <1>2, MoveNot, MarkNot DEF exec_hook, Silent

LEMMA exit_hook_Effect ==
  ASSUME TypeInv, NEW p \in Pids, exit_hook(p)
  PROVE  /\ Silent /\ uids' = uids /\ exec_pids' = exec_pids /\ Marks(p, {active[p]})
         /\ task[p].pc \in {"run", "prompt", "prompt2"}
         /\ \/ /\ Moves(p, "exit1", task[p].typed) /\ task'[p].ev = alive'[p].uid
               /\ LookedUp(p)
               /\ dead' = [dead EXCEPT ![alive'[p].uid] = alive[p].cmd]
            \/ /\ "ringbuf_full" \in env
               /\ Moves(p, "gone", task[p].typed)
               /\ Caches(p, alive[p].uid, alive[p].cmd)
               /\ dead' = dead
<1>1. {"exit1", "gone"} \subseteq PcT
  BY DEF PcT
<1>2. CASE /\ alive' = CachedOnce(p, task[p].uid)
           /\ task' = [task EXCEPT ![p].pc = "exit1", ![p].ev = alive'[p].uid]
           /\ dead' = [dead EXCEPT ![alive'[p].uid] = alive[p].cmd]
  <2>1. LookedUp(p)
    BY <1>2, LookUpEffect
  <2>2. alive'[p].uid \in 0 .. MaxUids
    BY <2>1 DEF LookedUp, Caches, EntryT
  <2>3. Moves(p, "exit1", task[p].typed) /\ task'[p].ev = alive'[p].uid
    <3> DEFINE u == alive'[p].uid
    <3>1. u \in 0 .. MaxUids /\ task' = [task EXCEPT ![p].pc = "exit1", ![p].ev = u]
      BY <1>2, <2>2
    <3> HIDE DEF u
    <3>2. Moves(p, "exit1", task[p].typed) /\ task'[p].ev = u
      BY <3>1 DEF TypeInv, TaskT, Moves
    <3> QED BY <3>2 DEF u
  <2> QED BY <1>2, <2>1, <2>3, MarkNot DEF exit_hook, Silent
<1>3. CASE FALSE \in Reserves /\ task' = [task EXCEPT ![p].pc = "gone"] /\ UNCHANGED <<alive, dead>>
  <2>1. "ringbuf_full" \in env
    BY <1>3 DEF Reserves
  <2>2. QED
    BY <1>1, <1>3, <2>1, MovePc, CacheNot, MarkNot DEF exit_hook, Silent
<1>4. QED
  BY <1>2, <1>3 DEF exit_hook

LEMMA ClearDead_Effect ==
  ASSUME TypeInv, NEW p \in Pids, ClearDead(p)
  PROVE  /\ Silent /\ uids' = uids /\ exec_pids' = exec_pids /\ Marks(p, {active[p]})
         /\ task[p].pc = "exit1"
         /\ Moves(p, "exit2", task[p].typed)
         /\ Caches(p, alive[p].uid, alive[p].cmd)
         /\ dead' = [dead EXCEPT ![task[p].ev] = 0]
<1>1. "exit2" \in PcT
  BY DEF PcT
<1>2. QED
  BY <1>1, MovePc, CacheNot, MarkNot DEF ClearDead, Silent

LEMMA Remove_Effect ==
  ASSUME TypeInv, NEW p \in Pids, Remove(p)
  PROVE  /\ Quiet /\ Silent
         /\ task[p].pc = "exit2"
         /\ Moves(p, "gone", task[p].typed)
         /\ Caches(p, 0, 0)
         /\ Marks(p, {{}})
<1>1. "gone" \in PcT /\ NoEntry \in EntryT /\ NoEntry.uid = 0 /\ NoEntry.cmd = 0
  BY PidsAssumption DEF PcT, NoEntry, EntryT
<1>2. Moves(p, "gone", task[p].typed)
  BY <1>1, MovePc DEF Remove
<1>3. Caches(p, 0, 0)
  BY <1>1 DEF Remove, Caches, TypeInv
<1>4. Marks(p, {{}})
  BY DEF Remove, Marks, TypeInv
<1>5. QED
  BY <1>2, <1>3, <1>4 DEF Remove, Quiet, Silent

LEMMA LookForParent_Effect ==
  ASSUME TypeInv, NEW q \in Pids, LookForParent(q)
  PROVE  /\ Quiet /\ Silent /\ "preexist" \in env
         /\ task[q].pc = "run" /\ task[q].puid # 0
         /\ Moves(q, "look", task[q].typed)
         /\ Caches(q, alive[q].uid, alive[q].cmd)
         /\ Marks(q, {active[q]})
<1>1. "look" \in PcT
  BY DEF PcT
<1>2. QED
  BY <1>1, MovePc, CacheNot, MarkNot DEF LookForParent, Quiet, Silent

LEMMA CacheParent_Effect ==
  ASSUME TypeInv, NEW q \in Pids, task[q].ppid \in Pids, CacheParent(q)
  PROVE  /\ Quiet /\ Silent
         /\ task[q].pc = "look"
         /\ Moves(q, "run", task[q].typed)
         /\ active' = active
         /\ Caches(task[q].ppid, task[q].puid, 0)
<1>1. "run" \in PcT /\ 0 \in Nat /\ task[q].puid \in 0 .. MaxUids
  BY DEF PcT, TypeInv, TaskT
<1>2. Moves(q, "run", task[q].typed)
  BY <1>1, MovePc DEF CacheParent
<1>3. Caches(task[q].ppid, task[q].puid, 0)
  BY <1>1, CacheOperations DEF CacheParent, Caches
<1> QED BY <1>2, <1>3 DEF CacheParent, Quiet, Silent

-----------------------------------------------------------------------------
\* Processes: pids and unique ids, and what each kind of process can do.

ProcessInv(p) ==
  /\ alive[p].cmd <= Len(lines) /\ task[p].typed <= Len(lines)
  /\ task[p].pc \in {"prompt", "prompt2", "run2", "parse", "parse2"} =>
       task[p].kind = "interactive"
  /\ task[p].kind # "interactive" => task[p].typed = 0
  /\ task[p].puid # 0 => task[p].ppid \in Pids
  /\ task[p].pc = "look" => task[p].puid # 0 /\ "preexist" \in env
  /\ task[p].uid <= uids
  /\ task[p].pc # "gone" => task[p].uid # 0

BasicInv ==
  /\ TypeInv
  /\ \A p \in Pids : ProcessInv(p)
  /\ walk <= Len(lines)
  /\ \A p, q \in Pids : p # q /\ task[p].uid = task[q].uid => task[p].uid = 0

\* What a step keeps of the processes other than p.
OthersKept(p) ==
  \A r \in Pids : r # p => task'[r] = task[r] /\ alive'[r] = alive[r] /\ active'[r] = active[r]

\* BasicInv is kept by a step of p that keeps it for p and leaves the others alone.
LEMMA LocalStep ==
  ASSUME BasicInv, NEW p \in Pids, TypeInv', OthersKept(p), ProcessInv(p)', env' = env,
         task'[p].uid = task[p].uid, uids' = uids, Len(lines) <= Len(lines'),
         walk' <= Len(lines')
  PROVE  BasicInv'
<1>0. Len(lines) \in Nat /\ Len(lines') \in Nat
  BY DEF BasicInv, TypeInv
<1>1. ASSUME NEW r \in Pids, r # p PROVE ProcessInv(r)'
  <2>1. /\ task'[r] = task[r] /\ alive'[r] = alive[r]
        /\ ProcessInv(r) /\ task[r] \in TaskT /\ alive[r] \in EntryT
    BY <1>1 DEF OthersKept, BasicInv, TypeInv
  <2>2. alive[r].cmd <= Len(lines') /\ task[r].typed <= Len(lines')
    BY <1>0, <2>1 DEF ProcessInv, TaskT, EntryT
  <2>3. QED
    BY <2>1, <2>2 DEF ProcessInv
<1>2. \A r \in Pids : task'[r].uid = task[r].uid
  BY DEF OthersKept
<1>3. QED
  BY <1>1, <1>2 DEF BasicInv

\* What BasicInv says of the process that takes a step.
LEMMA Acting ==
  ASSUME BasicInv, NEW p \in Pids
  PROVE  /\ TypeInv /\ ProcessInv(p)
         /\ Len(lines) \in Nat /\ walk \in Nat /\ walk <= Len(lines)
         /\ task[p].typed \in Nat /\ alive[p].cmd \in Nat
BY DEF BasicInv, TypeInv, TaskT, EntryT

\* A step of the shell p leaves the other processes and all identities alone,
\* and only adds to the lines.
Local(p) ==
  /\ TypeInv' /\ OthersKept(p) /\ Quiet
  /\ task'[p].uid = task[p].uid /\ task'[p].kind = task[p].kind
  /\ task'[p].prog = task[p].prog
  /\ task'[p].ppid = task[p].ppid /\ task'[p].puid = task[p].puid
  /\ Len(lines') \in Nat /\ Len(lines) <= Len(lines')
  /\ \A i \in 1 .. Len(lines) : lines'[i] = lines[i]

LEMMA LocalIs ==
  ASSUME TypeInv, NEW p \in Pids, Quiet,
         NEW pc, NEW n, Moves(p, pc, n), NEW uid, NEW c, Caches(p, uid, c), NEW S, Marks(p, S),
         walk' \in Nat, lines' = lines \/ \E typed \in BOOLEAN : Reads(p, typed)
  PROVE  Local(p)
<1>1. /\ Len(lines') \in Nat /\ Len(lines) <= Len(lines') /\ lines' \in Seq(LineT)
      /\ \A i \in 1 .. Len(lines) : lines'[i] = lines[i]
  <2>1. lines \in Seq(LineT) /\ Len(lines) \in Nat
    BY DEF TypeInv
  <2>2. CASE lines' = lines
    BY <2>1, <2>2
  <2>3. CASE \E typed \in BOOLEAN : Reads(p, typed)
    BY <2>1, <2>3 DEF Reads
  <2>4. QED
    BY <2>2, <2>3
<1>2. TypeInv'
  BY <1>1 DEF TypeInv, Quiet, Moves, Caches, Marks
<1>3. OthersKept(p)
  BY DEF Moves, Caches, Marks, OthersKept
<1>4. QED
  BY <1>1, <1>2, <1>3 DEF Local, Moves

LEMMA ShellStepIsLocal ==
  ASSUME TypeInv, NEW p \in Pids, ShellStep(p)
  PROVE  Local(p)
<1>1. walk \in Nat
  BY DEF TypeInv
<1>2. CASE enter_readline(p)
  <2>1. PICK pc : Moves(p, pc, task[p].typed)
    BY <1>2, enter_readline_Effect
  <2>2. QED
    BY <1>1, <1>2, <2>1, enter_readline_Effect, LocalIs
<1>3. CASE exit_readline(p) \/ exit_zleentry(p)
  <2>1. LineTyped(p)
    BY <1>3, LineTyped_Effect
  <2>2. PICK pc : Moves(p, pc, Len(lines'))
    BY <2>1 DEF LineTyped
  <2>3. QED
    BY <1>1, <2>1, <2>2, LocalIs DEF LineTyped
<1>4. CASE NothingRead(p)
  BY <1>1, <1>4, NothingRead_Effect, LocalIs
<1>5. CASE enter_parse_event(p)
  <2>1. Quiet /\ walk' = walk /\ lines' = lines /\ \E pc, n : Moves(p, pc, n)
    BY <1>5, enter_parse_event_Effect
  <2>2. \E uid, c : Caches(p, uid, c)
    BY <1>5, enter_parse_event_Effect DEF HookEntered
  <2>3. \E S : Marks(p, S)
    BY <1>5, enter_parse_event_Effect DEF HookEntered
  <2>4. QED
    BY <1>1, <2>1, <2>2, <2>3, LocalIs
<1>6. CASE enter_zleentry(p)
  <2>1. Quiet /\ walk' = walk /\ lines' = lines /\ \E pc, n : Moves(p, pc, n)
    BY <1>6, enter_zleentry_Effect
  <2>2. \E uid, c : Caches(p, uid, c)
    BY <1>6, enter_zleentry_Effect DEF HookEntered
  <2>3. \E S : Marks(p, S)
    BY <1>6, enter_zleentry_Effect DEF HookEntered
  <2>4. QED
    BY <1>1, <2>1, <2>2, <2>3, LocalIs
<1>7. CASE enterSetprompt(p)
  BY <1>1, <1>7, enterSetprompt_Effect, LocalIs
<1>8. CASE exitList(p)
  <2>1. /\ Quiet /\ (Reads(p, TRUE) \/ Reads(p, FALSE)) /\ \E pc, n : Moves(p, pc, n)
        /\ Caches(p, alive[p].uid, alive[p].cmd) /\ Marks(p, {active[p]})
        /\ walk' \in {walk, Len(lines')}
    BY <1>8, exitList_Effect
  <2>2. walk' \in Nat
    BY <1>1, <2>1 DEF Reads
  <2>3. \E typed \in BOOLEAN : Reads(p, typed)
    BY <2>1
  <2>4. QED
    BY <2>1, <2>2, <2>3, LocalIs
<1>9. CASE exitList_2(p)
  BY <1>1, <1>9, exitList_2_Effect, LocalIs
<1>10. QED
  BY <1>2, <1>3, <1>4, <1>5, <1>6, <1>7, <1>8, <1>9 DEF ShellStep

-----------------------------------------------------------------------------
\* The same effects once more, without the processes that do not take part.

SameLines == lines' = lines /\ walk' = walk
MovesTo(p, pc, n) == task'[p].pc = pc /\ task'[p].typed = n
CachedAs(p, uid, c) == alive'[p].uid = uid /\ alive'[p].cmd = c
SameEntry(p) == CachedAs(p, alive[p].uid, alive[p].cmd)
RecordedAs(p, n) == CachedAs(p, IF alive[p].uid = 0 THEN task[p].uid ELSE alive[p].uid, n)
NextLine(p, typed) ==
  /\ Len(lines') = Len(lines) + 1
  /\ lines'[Len(lines')] = [uid |-> task[p].uid, typed |-> typed]
Hooked(p, bit) ==
  \/ active[p] \cup {bit} = {1, 2} /\ CachedAs(p, alive[p].uid, 0) /\ active'[p] = {}
  \/ /\ active[p] \cup {bit} # {1, 2} /\ SameEntry(p)
     /\ active'[p] \in {active[p], active[p] \cup {bit}}
     /\ "crowded" \notin env => active'[p] = active[p] \cup {bit}

ShowsPrompt(p) ==
  /\ SameLines /\ task[p].kind = "interactive" /\ task[p].pc \in {"run", "run2"}
  /\ \E pc \in {"prompt", "prompt2"} : MovesTo(p, pc, task[p].typed)
  /\ CachedAs(p, alive[p].uid, 0) /\ active'[p] = active[p] /\ task[p].prog = "bash"

TypesLine(p) ==
  /\ walk' = walk /\ NextLine(p, TRUE) /\ Started(p) /\ task[p].pc \in {"prompt", "prompt2"}
  /\ \E pc \in {"run", "run2", "parse2"} : MovesTo(p, pc, Len(lines'))
  /\ RecordedAs(p, Len(lines')) /\ active'[p] = active[p]

ReadsNothing(p) ==
  /\ SameLines /\ task[p].pc \in {"prompt", "prompt2"} /\ MovesTo(p, "run", 0)
  /\ SameEntry(p) /\ active'[p] = active[p]

EntersParser(p) ==
  /\ SameLines /\ task[p].prog = "zsh" /\ task[p].pc = "run"
  /\ \/ task[p].kind = "interactive" /\ MovesTo(p, "parse", task[p].typed)
     \/ Parses(p) /\ MovesTo(p, "run", task[p].typed)
  /\ Hooked(p, 2)

EntersEditor(p) ==
  /\ SameLines /\ task[p].prog = "zsh"
  /\ \/ task[p].pc = "parse" /\ MovesTo(p, "prompt", task[p].typed)
     \/ task[p].pc = "parse2" /\ MovesTo(p, "prompt2", task[p].typed)
     \/ /\ task[p].kind = "interactive" /\ task[p].pc = "run"
        /\ MovesTo(p, "run", task[p].typed)
  /\ Hooked(p, 1)

SetsPrompt(p) ==
  /\ SameLines /\ task[p].kind = "interactive" /\ task[p].pc = "run"
  /\ MovesTo(p, "prompt", task[p].typed)
  /\ CachedAs(p, alive[p].uid, 0) /\ active'[p] \in {active[p], {1}}
  /\ "crowded" \notin env => active'[p] = {1}

EndsList(p) ==
  /\ Started(p) /\ task[p].prog = "dash" /\ CpuIsFree
  /\ \/ task[p].pc = "prompt" /\ NextLine(p, TRUE)
     \/ task[p].pc = "run" /\ Parses(p) /\ NextLine(p, FALSE)
  /\ MovesTo(p, IF active[p] # {} THEN "list2" ELSE "run",
                IF task[p].pc = "prompt" THEN Len(lines') ELSE task[p].typed)
  /\ walk' = (IF active[p] # {} THEN Len(lines') ELSE walk)
  /\ SameEntry(p) /\ active'[p] = active[p]

RecordsList(p) ==
  /\ SameLines /\ task[p].pc = "list2" /\ MovesTo(p, "run", task[p].typed)
  /\ RecordedAs(p, walk) /\ active'[p] = active[p]

LEMMA ShellKinds ==
  ASSUME TypeInv, NEW p \in Pids, ShellStep(p)
  PROVE  \/ ShowsPrompt(p) \/ TypesLine(p) \/ ReadsNothing(p) \/ EntersParser(p)
         \/ EntersEditor(p) \/ SetsPrompt(p) \/ EndsList(p) \/ RecordsList(p)
<1>1. CASE enter_readline(p)
  <2>1. task[p].pc \in {"run", "run2"} /\ task[p].prog = "bash"
    BY <1>1 DEF enter_readline, At
  <2>2. ShowsPrompt(p)
    BY <1>1, <2>1, enter_readline_Effect
       DEF ShowsPrompt, SameLines, MovesTo, CachedAs, Moves, Caches, Marks
  <2>3. QED
    BY <2>2
<1>2. CASE exit_readline(p) \/ exit_zleentry(p)
  <2>1. LineTyped(p)
    BY <1>2, LineTyped_Effect
  <2>2. TypesLine(p)
    BY <2>1 DEF LineTyped, TypesLine, NextLine, MovesTo, RecordedAs, CachedAs, Reads, Moves,
                Caches, Marks
  <2>3. QED
    BY <2>2
<1>3. CASE NothingRead(p)
  <2>1. ReadsNothing(p)
    BY <1>3, NothingRead_Effect
       DEF ReadsNothing, SameLines, SameEntry, MovesTo, CachedAs, Moves, Caches, Marks
  <2>2. QED
    BY <2>1
<1>4. ASSUME NEW bit \in {1, 2}, HookEntered(p, bit)
      PROVE  Hooked(p, bit)
  BY <1>4 DEF HookEntered, Hooked, Caches, Marks, CachedAs, SameEntry
<1>5. CASE enter_parse_event(p)
  <2>1. Hooked(p, 2)
    BY <1>4, <1>5, enter_parse_event_Effect
  <2>2. EntersParser(p)
    BY <1>5, <2>1, enter_parse_event_Effect DEF EntersParser, SameLines, MovesTo, Moves
  <2>3. QED
    BY <2>2
<1>6. CASE enter_zleentry(p)
  <2>1. Hooked(p, 1)
    BY <1>4, <1>6, enter_zleentry_Effect
  <2>2. task[p].prog = "zsh"
    BY <1>6 DEF enter_zleentry, At
  <2>3. EntersEditor(p)
    BY <1>6, <2>1, <2>2, enter_zleentry_Effect DEF EntersEditor, SameLines, MovesTo, Moves
  <2>4. QED
    BY <2>3
<1>7. CASE enterSetprompt(p)
  <2>1. SetsPrompt(p)
    BY <1>7, enterSetprompt_Effect
       DEF SetsPrompt, SameLines, MovesTo, CachedAs, Moves, Caches, Marks
  <2>2. QED
    BY <2>1
<1>8. CASE exitList(p)
  <2>1. EndsList(p)
    BY <1>8, exitList_Effect
       DEF EndsList, NextLine, MovesTo, SameEntry, CachedAs, Moves, Caches, Marks, Reads
  <2>2. QED
    BY <2>1
<1>9. CASE exitList_2(p)
  <2>1. RecordsList(p)
    BY <1>9, exitList_2_Effect
       DEF RecordsList, SameLines, MovesTo, RecordedAs, CachedAs, Moves, Caches, Marks
  <2>2. QED
    BY <2>1
<1>10. QED
  BY <1>1, <1>2, <1>3, <1>5, <1>6, <1>7, <1>8, <1>9 DEF ShellStep

LEMMA BasicShellStep ==
  ASSUME BasicInv, NEW p \in Pids, ShellStep(p)
  PROVE  BasicInv'
<1>1. /\ TypeInv /\ ProcessInv(p)
      /\ Len(lines) \in Nat /\ walk \in Nat /\ walk <= Len(lines)
      /\ task[p].typed \in Nat /\ alive[p].cmd \in Nat
  BY Acting
<1>2. Local(p)
  BY <1>1, ShellStepIsLocal
<1>3. Len(lines') \in Nat /\ Len(lines) <= Len(lines')
  BY <1>2 DEF Local
<1>4. /\ walk' <= Len(lines')
      /\ alive'[p].cmd <= Len(lines') /\ task'[p].typed <= Len(lines')
      /\ task'[p].pc \in {"prompt", "prompt2", "run2", "parse", "parse2"} =>
           task[p].kind = "interactive"
      /\ task[p].kind # "interactive" => task'[p].typed = 0
      /\ task'[p].pc # "look"
      /\ task[p].pc # "gone"
  <2> USE DEF SameLines, MovesTo, CachedAs, SameEntry, RecordedAs, ProcessInv
  <2>1. CASE ShowsPrompt(p)
    BY <1>1, <2>1 DEF ShowsPrompt
  <2>2. CASE TypesLine(p)
    BY <1>1, <1>3, <2>2 DEF TypesLine
  <2>3. CASE ReadsNothing(p)
    BY <1>1, <2>3 DEF ReadsNothing
  <2>4. CASE EntersParser(p)
    BY <1>1, <2>4 DEF EntersParser, Hooked
  <2>5. CASE EntersEditor(p)
    BY <1>1, <2>5 DEF EntersEditor, Hooked
  <2>6. CASE SetsPrompt(p)
    BY <1>1, <2>6 DEF SetsPrompt
  <2>7. CASE EndsList(p)
    <3>1. /\ walk' \in {walk, Len(lines')} /\ alive'[p].cmd = alive[p].cmd
          /\ task'[p].pc \in {"list2", "run"} /\ task[p].pc \in {"prompt", "run"}
          /\ task[p].pc = "prompt" => task'[p].typed = Len(lines')
          /\ task[p].pc # "prompt" => task'[p].typed = task[p].typed
      BY <2>7 DEF EndsList
    <3>2. QED
      BY <1>1, <1>3, <3>1
  <2>8. CASE RecordsList(p)
    BY <1>1, <2>8 DEF RecordsList
  <2>9. QED
    BY <1>1, <2>1, <2>2, <2>3, <2>4, <2>5, <2>6, <2>7, <2>8, ShellKinds
<1>5. ProcessInv(p)'
  BY <1>1, <1>2, <1>4 DEF ProcessInv, Local, Quiet
<1>6. QED
  BY <1>2, <1>3, <1>4, <1>5, LocalStep DEF Local, Quiet

\* The steps in the life of a process that change no other process.
LifeStep(p) ==
  \/ \E prog \in Shells, kind \in {"interactive", "script", "other"} : Exec(p, prog, kind)
  \/ exec_hook(p) \/ exit_hook(p) \/ ClearDead(p) \/ Remove(p) \/ LookForParent(p)

SameIdentity(p) ==
  /\ task'[p].uid = task[p].uid /\ task'[p].ppid = task[p].ppid /\ task'[p].puid = task[p].puid

LookedUpAs(p) ==
  \/ alive[p].uid # 0 /\ SameEntry(p)
  \/ alive[p].uid = 0 /\ CachedAs(p, task[p].uid, 0)

Execs(p) ==
  /\ dead' = dead /\ active'[p] = active[p] /\ exec_pids' = exec_pids \cup {p}
  /\ task[p].pc = "run" /\ Started(p)
  /\ task[p].kind = "child" \/ ("exec" \in env /\ task[p].typed # 0)
  /\ task'[p].kind \in {"interactive", "script", "other"} /\ MovesTo(p, "run", 0)
  /\ LookedUpAs(p)

Opens(p) ==
  /\ dead' = dead /\ active'[p] = active[p] /\ p \in exec_pids /\ exec_pids' = exec_pids \ {p}
  /\ task[p].pc \notin {"gone", "exit1", "exit2"} /\ task'[p] = task[p]
  /\ CachedAs(p, task[p].uid, 0)

SameProgram(p) == task'[p].kind = task[p].kind /\ task'[p].prog = task[p].prog

Exits(p) ==
  /\ SameProgram(p) /\ exec_pids' = exec_pids /\ active'[p] = active[p]
  /\ task[p].pc \in {"run", "prompt", "prompt2"}
  /\ \/ /\ MovesTo(p, "exit1", task[p].typed) /\ LookedUpAs(p)
        /\ task'[p].ev = alive'[p].uid
        /\ dead' = [dead EXCEPT ![alive'[p].uid] = alive[p].cmd]
     \/ /\ "ringbuf_full" \in env /\ MovesTo(p, "gone", task[p].typed) /\ SameEntry(p)
        /\ dead' = dead

ClearsDead(p) ==
  /\ SameProgram(p) /\ exec_pids' = exec_pids /\ active'[p] = active[p]
  /\ task[p].pc = "exit1" /\ MovesTo(p, "exit2", task[p].typed) /\ SameEntry(p)
  /\ dead' = [dead EXCEPT ![task[p].ev] = 0]

Removes(p) ==
  /\ SameProgram(p) /\ exec_pids' = exec_pids /\ active'[p] = {} /\ dead' = dead
  /\ task[p].pc = "exit2" /\ MovesTo(p, "gone", task[p].typed) /\ CachedAs(p, 0, 0)

Looks(p) ==
  /\ SameProgram(p) /\ exec_pids' = exec_pids /\ active'[p] = active[p] /\ dead' = dead
  /\ "preexist" \in env /\ task[p].pc = "run" /\ task[p].puid # 0
  /\ MovesTo(p, "look", task[p].typed) /\ SameEntry(p)

LEMMA LifeKinds ==
  ASSUME TypeInv, NEW p \in Pids, LifeStep(p)
  PROVE  /\ TypeInv' /\ OthersKept(p) /\ Silent /\ uids' = uids /\ SameIdentity(p)
         /\ \/ Execs(p) \/ Opens(p) \/ Exits(p) \/ ClearsDead(p) \/ Removes(p) \/ Looks(p)
<1> USE DEF MovesTo, CachedAs, SameEntry, SameProgram, SameIdentity
<1>1. ASSUME NEW prog \in Shells, NEW kind \in {"interactive", "script", "other"},
             Exec(p, prog, kind)
      PROVE  TypeInv' /\ OthersKept(p) /\ Silent /\ uids' = uids /\ SameIdentity(p) /\ Execs(p)
  <2>1. Silent /\ uids' = uids /\ SameIdentity(p)
    BY <1>1, Exec_Effect
  <2>2. OthersKept(p)
    BY <1>1, Exec_Effect DEF OthersKept, LookedUp, Caches
  <2>3. TypeInv'
    BY <1>1, Exec_Effect DEF TypeInv, Silent, LookedUp, Caches
  <2>4. LookedUpAs(p)
    BY <1>1, Exec_Effect DEF LookedUpAs, LookedUp, Caches
  <2>5. Execs(p)
    BY <1>1, <2>4, Exec_Effect DEF Execs
  <2>6. QED
    BY <2>1, <2>2, <2>3, <2>5
<1>2. CASE exec_hook(p)
  <2>1. Silent /\ uids' = uids /\ SameIdentity(p)
    BY <1>2, exec_hook_Effect DEF Moves
  <2>2. OthersKept(p)
    BY <1>2, exec_hook_Effect DEF OthersKept, Moves, Caches, Marks
  <2>3. TypeInv'
    BY <1>2, exec_hook_Effect DEF TypeInv, Silent, Moves, Caches, Marks
  <2>4. task'[p] = task[p]
    BY <1>2 DEF exec_hook
  <2>5. Opens(p)
    BY <1>2, <2>4, exec_hook_Effect DEF Opens, Caches, Marks
  <2>6. QED
    BY <2>1, <2>2, <2>3, <2>5
<1>3. CASE exit_hook(p)
  <2>1. Silent /\ uids' = uids /\ SameIdentity(p)
    BY <1>3, exit_hook_Effect DEF Moves
  <2>2. OthersKept(p)
    BY <1>3, exit_hook_Effect DEF OthersKept, Moves, Caches, Marks, LookedUp
  <2>3. dead' \in [Uids -> Nat]
    <3>1. dead' = [dead EXCEPT ![alive'[p].uid] = alive[p].cmd] \/ dead' = dead
      BY <1>3, exit_hook_Effect
    <3>2. dead \in [Uids -> Nat] /\ alive[p].cmd \in Nat
      BY DEF TypeInv, EntryT
    <3>3. QED
      BY <3>1, <3>2
  <2>4. TypeInv'
    BY <1>3, <2>3, exit_hook_Effect DEF TypeInv, Silent, Moves, Caches, Marks, LookedUp
  <2>5. Exits(p)
    BY <1>3, exit_hook_Effect DEF Exits, Moves, Caches, Marks, LookedUp, LookedUpAs
  <2>6. QED
    BY <2>1, <2>2, <2>4, <2>5
<1>4. CASE ClearDead(p)
  <2>1. Silent /\ uids' = uids /\ SameIdentity(p)
    BY <1>4, ClearDead_Effect DEF Moves
  <2>2. OthersKept(p)
    BY <1>4, ClearDead_Effect DEF OthersKept, Moves, Caches, Marks
  <2>3. dead' \in [Uids -> Nat]
    <3>1. dead' = [dead EXCEPT ![task[p].ev] = 0]
      BY <1>4, ClearDead_Effect
    <3>2. dead \in [Uids -> Nat]
      BY DEF TypeInv
    <3>3. QED
      BY <3>1, <3>2
  <2>4. TypeInv'
    BY <1>4, <2>3, ClearDead_Effect DEF TypeInv, Silent, Moves, Caches, Marks
  <2>5. ClearsDead(p)
    BY <1>4, ClearDead_Effect DEF ClearsDead, Moves, Caches, Marks
  <2>6. QED
    BY <2>1, <2>2, <2>4, <2>5
<1>5. CASE Remove(p)
  <2>1. Silent /\ uids' = uids /\ SameIdentity(p)
    BY <1>5, Remove_Effect DEF Moves, Quiet
  <2>2. OthersKept(p)
    BY <1>5, Remove_Effect DEF OthersKept, Moves, Caches, Marks
  <2>3. TypeInv'
    BY <1>5, Remove_Effect DEF TypeInv, Quiet, Silent, Moves, Caches, Marks
  <2>4. Removes(p)
    BY <1>5, Remove_Effect DEF Removes, Quiet, Moves, Caches, Marks
  <2>5. QED
    BY <2>1, <2>2, <2>3, <2>4
<1>6. CASE LookForParent(p)
  <2>1. Silent /\ uids' = uids /\ SameIdentity(p)
    BY <1>6, LookForParent_Effect DEF Moves, Quiet
  <2>2. OthersKept(p)
    BY <1>6, LookForParent_Effect DEF OthersKept, Moves, Caches, Marks
  <2>3. TypeInv'
    BY <1>6, LookForParent_Effect DEF TypeInv, Quiet, Silent, Moves, Caches, Marks
  <2>4. Looks(p)
    BY <1>6, LookForParent_Effect DEF Looks, Quiet, Moves, Caches, Marks
  <2>5. QED
    BY <2>1, <2>2, <2>3, <2>4
<1>7. QED
  BY <1>1, <1>2, <1>3, <1>4, <1>5, <1>6 DEF LifeStep

LEMMA BasicLifeStep ==
  ASSUME BasicInv, NEW p \in Pids, LifeStep(p)
  PROVE  BasicInv'
<1>1. /\ TypeInv /\ ProcessInv(p)
      /\ Len(lines) \in Nat /\ walk \in Nat /\ walk <= Len(lines)
      /\ task[p].typed \in Nat /\ alive[p].cmd \in Nat
  BY Acting
<1>2. /\ TypeInv' /\ OthersKept(p) /\ Silent /\ uids' = uids /\ SameIdentity(p)
      /\ \/ Execs(p) \/ Opens(p) \/ Exits(p) \/ ClearsDead(p) \/ Removes(p) \/ Looks(p)
  BY <1>1, LifeKinds
<1>3. ProcessInv(p)'
  <2> USE DEF MovesTo, CachedAs, SameEntry, SameProgram, SameIdentity, ProcessInv, Silent,
              LookedUpAs
  <2>1. CASE Execs(p)
    BY <1>1, <1>2, <2>1 DEF Execs
  <2>2. CASE Opens(p)
    BY <1>1, <1>2, <2>2 DEF Opens
  <2>3. CASE Exits(p)
    BY <1>1, <1>2, <2>3 DEF Exits
  <2>4. CASE ClearsDead(p)
    BY <1>1, <1>2, <2>4 DEF ClearsDead
  <2>5. CASE Removes(p)
    BY <1>1, <1>2, <2>5 DEF Removes
  <2>6. CASE Looks(p)
    BY <1>1, <1>2, <2>6 DEF Looks
  <2>7. QED
    BY <1>2, <2>1, <2>2, <2>3, <2>4, <2>5, <2>6
<1>4. QED
  BY <1>1, <1>2, <1>3, LocalStep DEF Silent, SameIdentity

\* The steps that change another process: a fork, and the look-up of a parent.
Forks(p, q) ==
  /\ Silent /\ dead' = dead /\ active' = active /\ exec_pids' = exec_pids
  /\ p # q /\ task[p].pc = "run" /\ task[q].pc = "gone"
  /\ task[q].uid = 0 \/ "reuse" \in env
  /\ uids' = uids + 1 /\ uids' \in 1 .. MaxUids
  /\ \A r \in Pids : r # q => task'[r] = task[r]
  /\ task'[q].uid = uids' /\ MovesTo(q, "run", 0)
  /\ task'[q].kind \in {"other", "child"}
  /\ task'[q].ppid = p /\ task'[q].puid = task[p].uid
  /\ \/ "ringbuf_full" \in env /\ alive' = alive
     \/ /\ \A r \in Pids : r \notin {p, q} => alive'[r] = alive[r]
        /\ CachedAs(q, uids', 0)
        /\ alive[p].uid # 0 => alive'[p] = alive[p]
        /\ alive[p].uid = 0 => CachedAs(p, task[p].uid, 0)

LEMMA ForkKind ==
  ASSUME TypeInv, NEW p \in Pids, NEW q \in Pids, Fork(p, q)
  PROVE  TypeInv' /\ Forks(p, q)
<1>1. Forks(p, q)
  BY Fork_Effect DEF Forks, MovesTo, CachedAs
<1>2. TypeInv'
  <2>1. /\ env' = env /\ walk' = walk /\ lines' = lines /\ dead' = dead /\ active' = active
        /\ exec_pids' = exec_pids /\ uids' \in 1 .. MaxUids
        /\ task' \in [Pids -> TaskT] /\ alive' \in [Pids -> EntryT]
    BY Fork_Effect DEF Silent
  <2>2. uids' \in Nat /\ uids' <= MaxUids
    BY <2>1, PidsAssumption
  <2>3. QED
    BY <2>1, <2>2 DEF TypeInv
<1>3. QED
  BY <1>1, <1>2

LEMMA BasicFork ==
  ASSUME BasicInv, NEW p \in Pids, NEW q \in Pids, Fork(p, q)
  PROVE  BasicInv'
<1>1. TypeInv /\ TypeInv' /\ Forks(p, q) /\ uids \in Nat /\ Len(lines) \in Nat
  BY ForkKind DEF BasicInv, TypeInv
<1>2. ASSUME NEW r \in Pids PROVE ProcessInv(r)'
  <2>1. ProcessInv(r) /\ task[r] \in TaskT /\ alive[r] \in EntryT /\ p \in Nat
    BY PidsAssumption DEF BasicInv, TypeInv
  <2>2. alive'[r] = alive[r] \/ alive'[r].cmd = 0
    BY <1>1 DEF Forks, CachedAs
  <2>3. alive'[r].cmd <= Len(lines')
    BY <1>1, <2>1, <2>2 DEF Forks, Silent, ProcessInv
  <2>4. CASE r = q
    BY <1>1, <2>3, <2>4 DEF Forks, Silent, ProcessInv, MovesTo
  <2>5. CASE r # q
    <3>1. task'[r] = task[r] /\ uids' = uids + 1 /\ lines' = lines /\ env' = env
      BY <1>1, <2>5 DEF Forks, Silent
    <3>2. task[r].uid <= uids'
      BY <1>1, <2>1, <3>1 DEF ProcessInv, TaskT
    <3>3. QED
      BY <2>1, <2>3, <3>1, <3>2 DEF ProcessInv
  <2>6. QED
    BY <2>4, <2>5
<1>3. ASSUME NEW r \in Pids, NEW u \in Pids, r # u, task'[r].uid = task'[u].uid
      PROVE  task'[r].uid = 0
  <2>1. /\ task'[q].uid = uids + 1
        /\ \A v \in Pids : v # q => task'[v].uid = task[v].uid
    BY <1>1 DEF Forks
  <2>2. \A v \in Pids : task[v].uid \in Nat /\ task[v].uid <= uids
    BY DEF BasicInv, ProcessInv, TypeInv, TaskT
  <2>3. r # q /\ u # q
    BY <1>1, <1>3, <2>1, <2>2
  <2>4. QED
    BY <1>3, <2>1, <2>3 DEF BasicInv
<1>4. walk' <= Len(lines')
  BY <1>1 DEF Forks, Silent, BasicInv
<1>5. QED
  BY <1>1, <1>2, <1>3, <1>4 DEF BasicInv

CachesParent(q) ==
  /\ Silent /\ Quiet /\ active' = active
  /\ "preexist" \in env /\ task[q].pc = "look" /\ MovesTo(q, "run", task[q].typed)
  /\ SameIdentity(q) /\ SameProgram(q)
  /\ \A r \in Pids : r # q => task'[r] = task[r]
  /\ \A r \in Pids : \/ alive'[r] = alive[r]
                     \/ /\ CachedAs(r, task[q].puid, 0)
                        /\ task[q].puid # 0 /\ task[q].ppid = r

LEMMA ParentKind ==
  ASSUME BasicInv, NEW q \in Pids, CacheParent(q)
  PROVE  TypeInv' /\ CachesParent(q)
<1>1. TypeInv /\ ProcessInv(q) /\ task[q].pc = "look"
  BY DEF BasicInv, CacheParent
<1>2. task[q].ppid \in Pids /\ "preexist" \in env /\ task[q].puid # 0
  BY <1>1 DEF ProcessInv
<1>3. /\ Quiet /\ Silent /\ Moves(q, "run", task[q].typed) /\ active' = active
      /\ Caches(task[q].ppid, task[q].puid, 0)
  BY <1>1, <1>2, CacheParent_Effect
<1>4. TypeInv'
  BY <1>1, <1>3 DEF TypeInv, Quiet, Silent, Moves, Caches
<1>5. \A r \in Pids : \/ alive'[r] = alive[r]
                      \/ /\ CachedAs(r, task[q].puid, 0)
                         /\ task[q].puid # 0 /\ task[q].ppid = r
  BY <1>2, <1>3 DEF Caches, CachedAs
<1>6. QED
  BY <1>1, <1>2, <1>3, <1>4, <1>5 DEF CachesParent, Moves, MovesTo, SameIdentity, SameProgram

LEMMA BasicParent ==
  ASSUME BasicInv, NEW q \in Pids, CacheParent(q)
  PROVE  BasicInv'
<1>1. TypeInv' /\ CachesParent(q) /\ Len(lines) \in Nat
  BY ParentKind DEF BasicInv, TypeInv
<1>2. ASSUME NEW r \in Pids PROVE ProcessInv(r)' /\ task'[r].uid = task[r].uid
  <2>1. ProcessInv(r)
    BY DEF BasicInv
  <2>2. alive'[r].cmd <= Len(lines')
    BY <1>1, <2>1 DEF CachesParent, CachedAs, Silent, ProcessInv
  <2>3. CASE r = q
    BY <1>1, <2>1, <2>2, <2>3
       DEF CachesParent, ProcessInv, MovesTo, SameIdentity, SameProgram, Silent, Quiet
  <2>4. CASE r # q
    BY <1>1, <2>1, <2>2, <2>4 DEF CachesParent, ProcessInv, Silent, Quiet
  <2>5. QED
    BY <2>3, <2>4
<1>3. walk' <= Len(lines')
  BY <1>1 DEF CachesParent, Silent, BasicInv
<1>4. QED
  BY <1>1, <1>2, <1>3 DEF BasicInv

\* Every step is one of these.
LEMMA StepKinds ==
  ASSUME TypeInv, Next
  PROVE  \E p \in Pids : \/ ShellStep(p) \/ LifeStep(p) \/ CacheParent(p)
                         \/ \E q \in Pids : Fork(p, q)
<1>1. PICK p \in Pids : ShellStep(p) \/ ProcessStep(p)
  BY DEF Next
<1>2. CASE ShellStep(p)
  BY <1>2
<1>3. CASE ProcessStep(p)
  <2>1. task[p].prog \in Shells
    BY DEF TypeInv, TaskT
  <2>2. \/ LifeStep(p) \/ CacheParent(p) \/ \E q \in Pids : Fork(p, q)
    BY <1>3, <2>1 DEF ProcessStep, LifeStep
  <2>3. QED
    BY <2>2
<1>4. QED
  BY <1>1, <1>2, <1>3

LEMMA BasicInit == Init => BasicInv
<1> SUFFICES ASSUME Init PROVE BasicInv
  OBVIOUS
<1>1. TypeInv
  BY TypeInit
<1>2. ASSUME NEW p \in Pids
      PROVE  /\ task[p].uid \in {0, p} /\ p <= uids /\ p \in Nat \ {0} /\ 1 \in Pids
             /\ \/ task[p] = NoTask
                \/ \E prog \in Shells, kind \in {"interactive", "child"} :
                     task[p] = InitialTask(p, prog, kind)
  <2>1. task[p].uid \in {0, p} /\ p <= uids /\ p \in Nat \ {0} /\ 1 \in Pids
    BY PidsAssumption DEF Init
  <2>2. \/ task[p] = NoTask
        \/ \E r \in Pids, prog \in Shells, kind \in {"interactive", "child"} :
             task[p] = InitialTask(r, prog, kind)
    BY DEF Init
  <2>3. CASE task[p] # NoTask
    <3>1. PICK r \in Pids, prog \in Shells, kind \in {"interactive", "child"} :
             task[p] = InitialTask(r, prog, kind)
      BY <2>2, <2>3
    <3>2. r = p
      BY <2>1, <3>1, PidsAssumption DEF InitialTask
    <3>3. QED
      BY <2>1, <3>1, <3>2
  <2>4. QED
    BY <2>1, <2>3
<1>3. ASSUME NEW p \in Pids PROVE ProcessInv(p)
  <2>1. lines = <<>> /\ Len(lines) = 0 /\ alive[p].cmd = 0
    BY DEF Init, NoEntry
  <2>2. uids \in Nat
    BY <1>1 DEF TypeInv
  <2>3. CASE task[p] = NoTask
    BY <2>1, <2>2, <2>3 DEF ProcessInv, NoTask
  <2>4. ASSUME NEW prog \in Shells, NEW kind \in {"interactive", "child"},
               task[p] = InitialTask(p, prog, kind)
        PROVE  ProcessInv(p)
    BY <1>2, <2>1, <2>2, <2>4 DEF ProcessInv, InitialTask
  <2>5. QED
    BY <1>2, <2>3, <2>4
<1>4. walk <= Len(lines)
  BY DEF Init
<1>5. \A p, q \in Pids : p # q /\ task[p].uid = task[q].uid => task[p].uid = 0
  BY <1>2
<1>6. QED
  BY <1>1, <1>3, <1>4, <1>5 DEF BasicInv

LEMMA BasicStep ==
  ASSUME BasicInv, [Next]_vars
  PROVE  BasicInv'
<1>1. CASE UNCHANGED vars
  BY <1>1 DEF vars, BasicInv, TypeInv, ProcessInv
<1>2. CASE Next
  <2>1. TypeInv
    BY DEF BasicInv
  <2>2. QED
    BY <1>2, <2>1, StepKinds, BasicShellStep, BasicLifeStep, BasicParent, BasicFork
<1>3. QED
  BY <1>1, <1>2

-----------------------------------------------------------------------------
\* What a process leaves behind.

GoneInv(p) ==
  "ringbuf_full" \notin env /\ task[p].pc = "gone" =>
    alive[p].cmd = 0 /\ active[p] = {} /\ (alive[p].uid # 0 => "preexist" \in env)

Dying(p, u) == task[p].pc = "exit1" /\ task[p].ev = u /\ alive[p].uid # 0

DeadInv == \A u \in Uids : dead[u] # 0 => \E p \in Pids : Dying(p, u)

ExitInv == (\A p \in Pids : GoneInv(p)) /\ DeadInv

\* A shell that takes a step is alive and stays so.
LEMMA ShellLives ==
  ASSUME TypeInv, NEW p \in Pids, ShellStep(p)
  PROVE  /\ task[p].pc \notin {"gone", "exit1", "exit2", "look"}
         /\ task'[p].pc \notin {"gone", "exit1", "exit2", "look"}
BY ShellKinds DEF ShowsPrompt, TypesLine, ReadsNothing, EntersParser, EntersEditor, SetsPrompt,
                  EndsList, RecordsList, MovesTo

LEMMA ExitShellStep ==
  ASSUME BasicInv, ExitInv, NEW p \in Pids, ShellStep(p)
  PROVE  ExitInv'
<1>1. Local(p)
  BY ShellStepIsLocal DEF BasicInv
<1>2. /\ task[p].pc \notin {"gone", "exit1", "exit2", "look"}
      /\ task'[p].pc \notin {"gone", "exit1", "exit2", "look"}
  BY ShellLives DEF BasicInv
<1>3. /\ env' = env /\ dead' = dead
      /\ \A r \in Pids : r # p => task'[r] = task[r] /\ alive'[r] = alive[r] /\ active'[r] = active[r]
  BY <1>1 DEF Local, OthersKept, Quiet
<1>4. \A r \in Pids : GoneInv(r)'
  BY <1>2, <1>3 DEF ExitInv, GoneInv
<1>5. DeadInv'
  <2>1. SUFFICES ASSUME NEW u \in Uids, dead[u] # 0
                 PROVE  \E r \in Pids : Dying(r, u)'
    BY <1>3 DEF DeadInv
  <2>2. PICK r \in Pids : Dying(r, u)
    BY <2>1 DEF ExitInv, DeadInv
  <2>3. QED
    BY <1>2, <1>3, <2>2 DEF Dying
<1>6. QED
  BY <1>4, <1>5 DEF ExitInv

LEMMA ExitLifeStep ==
  ASSUME BasicInv, ExitInv, NEW p \in Pids, LifeStep(p)
  PROVE  ExitInv'
<1>1. TypeInv /\ dead \in [Uids -> Nat]
  BY DEF BasicInv, TypeInv
<1>2. /\ OthersKept(p) /\ Silent
      /\ \/ Execs(p) \/ Opens(p) \/ Exits(p) \/ ClearsDead(p) \/ Removes(p) \/ Looks(p)
  BY <1>1, LifeKinds
<1>3. /\ env' = env
      /\ \A r \in Pids : r # p => task'[r] = task[r] /\ alive'[r] = alive[r] /\ active'[r] = active[r]
  BY <1>2 DEF OthersKept, Silent
<1>4. GoneInv(p)'
  BY <1>2, <1>3 DEF Execs, Opens, Exits, ClearsDead, Removes, Looks, GoneInv, MovesTo, CachedAs,
                    ExitInv
<1>5. \A r \in Pids : GoneInv(r)'
  BY <1>3, <1>4 DEF ExitInv, GoneInv
<1>6. DeadInv'
  <2>1. SUFFICES ASSUME NEW u \in Uids, dead'[u] # 0
                 PROVE  \E r \in Pids : Dying(r, u)'
    BY DEF DeadInv
  <2>2. CASE dead[u] # 0 /\ task[p].pc # "exit1"
    <3>1. PICK r \in Pids : Dying(r, u)
      BY <2>2 DEF ExitInv, DeadInv
    <3>2. QED
      BY <1>3, <2>2, <3>1 DEF Dying
  <2>3. CASE task[p].pc = "exit1"
    <3>1. ClearsDead(p)
      BY <1>2, <2>3 DEF Execs, Opens, Exits, Removes, Looks
    <3>2. dead' = [dead EXCEPT ![task[p].ev] = 0]
      BY <3>1 DEF ClearsDead
    <3>3. u # task[p].ev /\ dead[u] # 0
      BY <1>1, <2>1, <3>2
    <3>4. PICK r \in Pids : Dying(r, u)
      BY <3>3 DEF ExitInv, DeadInv
    <3>5. QED
      BY <1>3, <3>3, <3>4 DEF Dying
  <2>4. CASE dead[u] = 0 /\ task[p].pc # "exit1"
    <3>1. Exits(p) /\ dead' # dead
      BY <1>2, <2>1, <2>4 DEF Execs, Opens, Exits, ClearsDead, Removes, Looks
    <3>2. /\ dead' = [dead EXCEPT ![alive'[p].uid] = alive[p].cmd]
          /\ task'[p].pc = "exit1" /\ task'[p].ev = alive'[p].uid
          /\ alive'[p].uid # 0
      BY <3>1 DEF Exits, MovesTo, LookedUpAs, SameEntry, CachedAs, BasicInv, ProcessInv
    <3>3. u = alive'[p].uid
      BY <1>1, <2>1, <2>4, <3>2
    <3>4. QED
      BY <3>2, <3>3 DEF Dying
  <2>5. QED
    BY <2>2, <2>3, <2>4
<1>7. QED
  BY <1>5, <1>6 DEF ExitInv

LEMMA ExitFork ==
  ASSUME BasicInv, ExitInv, NEW p \in Pids, NEW q \in Pids, Fork(p, q)
  PROVE  ExitInv'
<1>1. Forks(p, q)
  BY ForkKind DEF BasicInv
<1>2. /\ env' = env /\ dead' = dead /\ active' = active
      /\ task[p].pc = "run" /\ task[q].pc = "gone" /\ task'[q].pc = "run"
      /\ \A r \in Pids : r # q => task'[r] = task[r]
      /\ \A r \in Pids : r \notin {p, q} => alive'[r] = alive[r]
      /\ p # q
  BY <1>1 DEF Forks, Silent, MovesTo
<1>3. \A r \in Pids : GoneInv(r)'
  BY <1>2 DEF ExitInv, GoneInv
<1>4. DeadInv'
  <2>1. SUFFICES ASSUME NEW u \in Uids, dead[u] # 0
                 PROVE  \E r \in Pids : Dying(r, u)'
    BY <1>2 DEF DeadInv
  <2>2. PICK r \in Pids : Dying(r, u)
    BY <2>1 DEF ExitInv, DeadInv
  <2>3. r \notin {p, q}
    BY <1>2, <2>2 DEF Dying
  <2>4. QED
    BY <1>2, <2>2, <2>3 DEF Dying
<1>5. QED
  BY <1>3, <1>4 DEF ExitInv

LEMMA ExitParent ==
  ASSUME BasicInv, ExitInv, NEW q \in Pids, CacheParent(q)
  PROVE  ExitInv'
<1>1. CachesParent(q)
  BY ParentKind
<1>2. /\ env' = env /\ dead' = dead /\ active' = active
      /\ task[q].pc = "look" /\ task'[q].pc = "run"
      /\ \A r \in Pids : r # q => task'[r] = task[r]
      /\ \A r \in Pids : alive'[r] = alive[r] \/ (alive'[r].cmd = 0 /\ alive'[r].uid # 0)
      /\ "preexist" \in env
  BY <1>1 DEF CachesParent, Silent, Quiet, MovesTo, CachedAs
<1>3. \A r \in Pids : GoneInv(r)'
  BY <1>2 DEF ExitInv, GoneInv
<1>4. DeadInv'
  <2>1. SUFFICES ASSUME NEW u \in Uids, dead[u] # 0
                 PROVE  \E r \in Pids : Dying(r, u)'
    BY <1>2 DEF DeadInv
  <2>2. PICK r \in Pids : Dying(r, u)
    BY <2>1 DEF ExitInv, DeadInv
  <2>3. QED
    BY <1>2, <2>2 DEF Dying
<1>5. QED
  BY <1>3, <1>4 DEF ExitInv

LEMMA ExitStep ==
  ASSUME BasicInv, ExitInv, [Next]_vars
  PROVE  ExitInv'
<1>1. CASE UNCHANGED vars
  BY <1>1 DEF vars, ExitInv, GoneInv, DeadInv, Dying
<1>2. CASE Next
  <2>1. TypeInv
    BY DEF BasicInv
  <2>2. QED
    BY <1>2, <2>1, StepKinds, ExitShellStep, ExitLifeStep, ExitParent, ExitFork
<1>3. QED
  BY <1>1, <1>2

LEMMA ExitInit == Init => ExitInv
<1> SUFFICES ASSUME Init PROVE ExitInv
  OBVIOUS
<1>1. DeadInv
  BY DEF Init, DeadInv
<1>2. ASSUME NEW p \in Pids, task[p].pc = "gone"
      PROVE  alive[p].uid = 0 /\ alive[p].cmd = 0 /\ active[p] = {}
  <2>1. task[p] = NoTask
    BY <1>2 DEF Init, InitialTask
  <2>2. QED
    BY <2>1 DEF Init, NoTask, NoEntry
<1>3. QED
  BY <1>1, <1>2 DEF ExitInv, GoneInv

LEMMA ShellInvariants == Spec => [](BasicInv /\ ExitInv)
<1>1. Init => BasicInv /\ ExitInv
  BY BasicInit, ExitInit
<1>2. BasicInv /\ ExitInv /\ [Next]_vars => BasicInv' /\ ExitInv'
  BY BasicStep, ExitStep
<1>3. QED
  BY <1>1, <1>2, PTL DEF Spec

\* A process that is gone leaves no mark as an active shell and no command, and no
\* cache entry but the one that a child older than owLSM writes late, and the
\* command that exit_hook copies to the dead cache is removed before the alive
\* entry that hides it is, for any number of processes and in every environment.
THEOREM ExitCorrect == Spec => []ExitLeavesNothing
<1>1. BasicInv /\ ExitInv => ExitLeavesNothing
  BY DEF ExitInv, GoneInv, DeadInv, Dying, ExitLeavesNothing, Lives
<1>2. QED
  BY <1>1, ShellInvariants, PTL

-----------------------------------------------------------------------------
\* Scripts are not recorded: only interactive shells, and scripts of zsh, are
\* ever marked as active, so that what dash puts into walk_state was typed.

SilentEnv == "exec" \notin env /\ "sourced" \notin env /\ "ringbuf_full" \notin env

SilentProcess(p) ==
  /\ alive[p].cmd # 0 => lines[alive[p].cmd].typed
  /\ task[p].kind \in {"child", "other"} => active[p] = {}
  /\ task[p].kind = "script" /\ task[p].prog = "dash" => active[p] = {}

SilentInv ==
  SilentEnv => /\ \A p \in Pids : SilentProcess(p)
               /\ walk # 0 => lines[walk].typed

LEMMA SilentShellStep ==
  ASSUME BasicInv, SilentInv, SilentEnv, NEW p \in Pids, ShellStep(p)
  PROVE  (\A r \in Pids : SilentProcess(r)') /\ (walk' # 0 => lines'[walk'].typed)
<1>1. /\ TypeInv /\ ProcessInv(p) /\ SilentProcess(p)
      /\ Len(lines) \in Nat /\ walk \in Nat /\ walk <= Len(lines)
      /\ alive[p].cmd \in Nat /\ alive[p].cmd <= Len(lines)
      /\ walk # 0 => lines[walk].typed
  BY Acting DEF SilentInv, ProcessInv
<1>2. Local(p)
  BY <1>1, ShellStepIsLocal
<1>3. /\ env' = env /\ Len(lines') \in Nat /\ Len(lines) <= Len(lines')
      /\ \A i \in 1 .. Len(lines) : lines'[i] = lines[i]
      /\ task'[p].kind = task[p].kind /\ task'[p].prog = task[p].prog
      /\ \A r \in Pids : r # p => task'[r] = task[r] /\ alive'[r] = alive[r] /\ active'[r] = active[r]
  BY <1>2 DEF Local, OthersKept, Quiet
<1>4. ASSUME NEW n \in Nat, n <= Len(lines), n # 0 => lines[n].typed
      PROVE  n # 0 => lines'[n].typed
  BY <1>3, <1>4
<1>5. /\ walk # 0 => lines'[walk].typed
      /\ alive[p].cmd # 0 => lines'[alive[p].cmd].typed
  BY <1>1, <1>4 DEF SilentProcess
<1>6. ASSUME NEW r \in Pids, r # p PROVE SilentProcess(r)'
  <2>1. SilentProcess(r) /\ alive[r].cmd \in Nat /\ alive[r].cmd <= Len(lines)
    BY Acting DEF SilentInv, ProcessInv
  <2>2. QED
    BY <1>3, <1>4, <1>6, <2>1 DEF SilentProcess
<1>7. SilentProcess(p)' /\ (walk' # 0 => lines'[walk'].typed)
  <2> USE DEF SameLines, MovesTo, CachedAs, SameEntry, RecordedAs
  <2>1. CASE ShowsPrompt(p)
    BY <1>1, <1>3, <1>5, <2>1 DEF ShowsPrompt, SilentProcess
  <2>2. CASE TypesLine(p)
    BY <1>1, <1>3, <1>5, <2>2 DEF TypesLine, SilentProcess, NextLine
  <2>3. CASE ReadsNothing(p)
    BY <1>1, <1>3, <1>5, <2>3 DEF ReadsNothing, SilentProcess
  <2>4. CASE EntersParser(p)
    <3>1. task[p].kind \in {"interactive", "script"} /\ task[p].prog = "zsh"
      BY <2>4 DEF EntersParser, Parses, SilentEnv
    <3>2. alive'[p].cmd \in {0, alive[p].cmd} /\ walk' = walk
      BY <2>4 DEF EntersParser, Hooked
    <3>3. QED
      BY <1>1, <1>3, <1>5, <3>1, <3>2 DEF SilentProcess
  <2>5. CASE EntersEditor(p)
    <3>1. task[p].kind = "interactive"
      BY <1>1, <2>5 DEF EntersEditor, ProcessInv
    <3>2. alive'[p].cmd \in {0, alive[p].cmd} /\ walk' = walk
      BY <2>5 DEF EntersEditor, Hooked
    <3>3. QED
      BY <1>1, <1>3, <1>5, <3>1, <3>2 DEF SilentProcess
  <2>6. CASE SetsPrompt(p)
    BY <1>1, <1>3, <1>5, <2>6 DEF SetsPrompt, SilentProcess
  <2>7. CASE EndsList(p)
    <3>1. alive'[p].cmd = alive[p].cmd /\ active'[p] = active[p]
      BY <2>7 DEF EndsList
    <3>2. CASE task[p].pc = "prompt"
      <4>1. lines'[Len(lines')] = [uid |-> task[p].uid, typed |-> TRUE]
        BY <2>7, <3>2 DEF EndsList, NextLine
      <4>2. walk' \in {walk, Len(lines')}
        BY <2>7 DEF EndsList
      <4>3. QED
        BY <1>1, <1>3, <1>5, <3>1, <4>1, <4>2 DEF SilentProcess
    <3>3. CASE task[p].pc # "prompt"
      <4>1. task[p].kind = "script" /\ task[p].prog = "dash"
        BY <2>7, <3>3 DEF EndsList, Parses, SilentEnv
      <4>2. walk' = walk
        BY <1>1, <2>7, <4>1 DEF EndsList, SilentProcess
      <4>3. QED
        BY <1>1, <1>3, <1>5, <3>1, <4>2 DEF SilentProcess
    <3>4. QED
      BY <3>2, <3>3
  <2>8. CASE RecordsList(p)
    BY <1>1, <1>3, <1>5, <2>8 DEF RecordsList, SilentProcess
  <2>9. QED
    BY <1>1, <2>1, <2>2, <2>3, <2>4, <2>5, <2>6, <2>7, <2>8, ShellKinds
<1>8. QED
  BY <1>6, <1>7

LEMMA SilentOtherStep ==
  ASSUME BasicInv, ExitInv, SilentInv, SilentEnv, NEW p \in Pids,
         \/ LifeStep(p) \/ CacheParent(p) \/ \E q \in Pids : Fork(p, q)
  PROVE  (\A r \in Pids : SilentProcess(r)') /\ (walk' # 0 => lines'[walk'].typed)
<1>1. TypeInv /\ \A r \in Pids : SilentProcess(r)
  BY DEF BasicInv, SilentInv
<1>2. CASE LifeStep(p)
  <2>1. /\ OthersKept(p) /\ Silent
        /\ \/ Execs(p) \/ Opens(p) \/ Exits(p) \/ ClearsDead(p) \/ Removes(p) \/ Looks(p)
    BY <1>1, <1>2, LifeKinds
  <2>2. /\ env' = env /\ walk' = walk /\ lines' = lines
        /\ \A r \in Pids : r # p => task'[r] = task[r] /\ alive'[r] = alive[r] /\ active'[r] = active[r]
    BY <2>1 DEF OthersKept, Silent
  <2>3. SilentProcess(p)'
    <3> USE DEF MovesTo, CachedAs, SameEntry, SameProgram, LookedUpAs
    <3>1. CASE Execs(p)
      BY <1>1, <2>2, <3>1 DEF Execs, SilentProcess, SilentEnv
    <3>2. CASE Opens(p)
      BY <1>1, <2>2, <3>2 DEF Opens, SilentProcess
    <3>3. CASE Exits(p)
      BY <1>1, <2>2, <3>3 DEF Exits, SilentProcess
    <3>4. CASE ClearsDead(p) \/ Removes(p) \/ Looks(p)
      BY <1>1, <2>2, <3>4 DEF ClearsDead, Removes, Looks, SilentProcess
    <3>5. QED
      BY <2>1, <3>1, <3>2, <3>3, <3>4
  <2>4. QED
    BY <1>1, <2>2, <2>3 DEF SilentProcess, SilentInv
<1>3. CASE CacheParent(p)
  <2>1. CachesParent(p)
    BY <1>3, ParentKind
  <2>2. /\ walk' = walk /\ lines' = lines /\ active' = active
        /\ \A r \in Pids : /\ task'[r].kind = task[r].kind /\ task'[r].prog = task[r].prog
                           /\ alive'[r] = alive[r] \/ alive'[r].cmd = 0
    BY <2>1 DEF CachesParent, Silent, SameProgram, CachedAs
  <2>3. QED
    BY <1>1, <2>2 DEF SilentProcess, SilentInv
<1>4. CASE \E q \in Pids : Fork(p, q)
  <2>1. PICK q \in Pids : Fork(p, q)
    BY <1>4
  <2>2. Forks(p, q)
    BY <1>1, <2>1, ForkKind
  <2>3. /\ walk' = walk /\ lines' = lines /\ active' = active
        /\ active[q] = {} /\ task'[q].kind \in {"other", "child"}
        /\ \A r \in Pids : r # q => task'[r] = task[r]
        /\ \A r \in Pids : alive'[r] = alive[r] \/ alive'[r].cmd = 0
    BY <2>2 DEF Forks, Silent, SilentEnv, ExitInv, GoneInv, CachedAs
  <2>4. QED
    BY <1>1, <2>3 DEF SilentProcess, SilentInv
<1>5. QED
  BY <1>2, <1>3, <1>4

LEMMA EnvStep ==
  ASSUME BasicInv, [Next]_vars
  PROVE  env' = env
<1>1. CASE UNCHANGED vars
  BY <1>1 DEF vars
<1>2. CASE Next
  <2>1. TypeInv
    BY DEF BasicInv
  <2>2. PICK p \in Pids : \/ ShellStep(p) \/ LifeStep(p) \/ CacheParent(p)
                          \/ \E q \in Pids : Fork(p, q)
    BY <1>2, <2>1, StepKinds
  <2>3. CASE ShellStep(p)
    BY <2>1, <2>3, ShellStepIsLocal DEF Local, Quiet
  <2>4. CASE LifeStep(p)
    BY <2>1, <2>4, LifeKinds DEF Silent
  <2>5. CASE CacheParent(p)
    BY <2>5, ParentKind DEF CachesParent, Silent
  <2>6. CASE \E q \in Pids : Fork(p, q)
    BY <2>1, <2>6, ForkKind DEF Forks, Silent
  <2>7. QED
    BY <2>2, <2>3, <2>4, <2>5, <2>6
<1>3. QED
  BY <1>1, <1>2

LEMMA SilentStep ==
  ASSUME BasicInv, ExitInv, SilentInv, [Next]_vars
  PROVE  SilentInv'
<1>1. CASE UNCHANGED vars
  BY <1>1 DEF vars, SilentInv, SilentEnv, SilentProcess
<1>2. CASE Next
  <2>1. SUFFICES ASSUME SilentEnv
                 PROVE  (\A r \in Pids : SilentProcess(r)') /\ (walk' # 0 => lines'[walk'].typed)
    BY EnvStep DEF SilentInv, SilentEnv
  <2>2. PICK p \in Pids : \/ ShellStep(p) \/ LifeStep(p) \/ CacheParent(p)
                          \/ \E q \in Pids : Fork(p, q)
    BY <1>2, StepKinds DEF BasicInv
  <2>3. QED
    BY <2>1, <2>2, SilentShellStep, SilentOtherStep
<1>3. QED
  BY <1>1, <1>2

\* Shells that run scripts, and the children of a shell, are not recorded:
\* every command in the process cache was typed at a prompt, unless an
\* interactive shell turned into a script by exec or parses a file itself, or
\* the ring buffer is full.
THEOREM ScriptsCorrect == Spec => []ScriptsAreSilent
<1>1. Init => SilentInv
  <2>1. ASSUME Init PROVE \A p \in Pids : alive[p].cmd = 0 /\ active[p] = {} /\ walk = 0
    BY <2>1 DEF Init, NoEntry
  <2>2. Init => walk = 0
    BY DEF Init
  <2>3. QED
    BY <2>1, <2>2 DEF SilentInv, SilentProcess
<1>2. BasicInv /\ ExitInv /\ SilentInv /\ [Next]_vars => SilentInv'
  BY SilentStep
<1>3. SilentInv => ScriptsAreSilent
  BY DEF SilentInv, SilentEnv, SilentProcess, ScriptsAreSilent, OnlyTyped
<1>4. QED
  BY <1>1, <1>2, <1>3, ShellInvariants, PTL DEF Spec

-----------------------------------------------------------------------------
\* A recorded command is the process's own: entries and processes agree on the
\* unique id, and walk_state belongs to the one process between exitList and
\* exitList_2.

OwnEnv == "preempt" \notin env /\ "ringbuf_full" \notin env

OwnProcess(p) ==
  /\ alive[p].cmd # 0 => lines[alive[p].cmd].uid = task[p].uid
  /\ task[p].pc = "list2" => walk # 0 /\ lines[walk].uid = task[p].uid
  /\ "reuse" \notin env => /\ alive[p].uid \in {0, task[p].uid}
                           /\ task[p].pc = "exit1" => task[p].ev = task[p].uid

OwnInv ==
  OwnEnv => /\ \A p \in Pids : OwnProcess(p)
            /\ \A p, q \in Pids : task[p].pc = "list2" /\ task[q].pc = "list2" => p = q

\* Without reuse the pid of a parent stays with it.
ParentInv ==
  "reuse" \notin env => \A p \in Pids : task[p].puid # 0 => task[task[p].ppid].uid = task[p].puid

LEMMA OwnShellStep ==
  ASSUME BasicInv, OwnInv, OwnEnv, NEW p \in Pids, ShellStep(p)
  PROVE  /\ \A r \in Pids : OwnProcess(r)'
         /\ \A r, q \in Pids : task'[r].pc = "list2" /\ task'[q].pc = "list2" => r = q
<1>1. /\ TypeInv /\ ProcessInv(p) /\ OwnProcess(p)
      /\ Len(lines) \in Nat /\ walk \in Nat /\ walk <= Len(lines)
      /\ alive[p].cmd \in Nat /\ alive[p].cmd <= Len(lines)
  BY Acting DEF OwnInv, ProcessInv
<1>2. Local(p)
  BY <1>1, ShellStepIsLocal
<1>3. /\ env' = env /\ Len(lines') \in Nat /\ Len(lines) <= Len(lines')
      /\ \A i \in 1 .. Len(lines) : lines'[i] = lines[i]
      /\ task'[p].uid = task[p].uid /\ task'[p].pc # "exit1"
      /\ \A r \in Pids : r # p => task'[r] = task[r] /\ alive'[r] = alive[r]
  BY <1>1, <1>2, ShellLives DEF Local, OthersKept, Quiet
<1>4. ASSUME NEW n \in Nat, n <= Len(lines), n # 0
      PROVE  lines'[n] = lines[n]
  BY <1>3, <1>4
<1>5. /\ walk # 0 => lines'[walk] = lines[walk]
      /\ alive[p].cmd # 0 => lines'[alive[p].cmd] = lines[alive[p].cmd]
  BY <1>1, <1>4
<1>6. \A r \in Pids : r # p /\ task[r].pc = "list2" => walk' = walk /\ task'[p].pc # "list2"
  <2> USE DEF SameLines, MovesTo
  <2>1. CASE EndsList(p)
    BY <2>1 DEF EndsList, CpuIsFree, OwnEnv
  <2>2. CASE ~EndsList(p)
    BY <1>1, <2>2, ShellKinds DEF ShowsPrompt, TypesLine, ReadsNothing, EntersParser, EntersEditor,
         SetsPrompt, RecordsList
  <2>3. QED
    BY <2>1, <2>2
<1>7. ASSUME NEW r \in Pids, r # p PROVE OwnProcess(r)'
  <2>1. OwnProcess(r) /\ alive[r].cmd \in Nat /\ alive[r].cmd <= Len(lines)
    BY Acting DEF OwnInv, ProcessInv
  <2>2. alive[r].cmd # 0 => lines'[alive[r].cmd] = lines[alive[r].cmd]
    BY <1>4, <2>1
  <2>3. task[r].pc = "list2" => walk' = walk
    BY <1>6, <1>7
  <2>4. task'[r] = task[r] /\ alive'[r] = alive[r]
    BY <1>3, <1>7
  <2>5. QED
    BY <1>3, <1>5, <2>1, <2>2, <2>3, <2>4 DEF OwnProcess
<1>8. OwnProcess(p)'
  <2> USE DEF SameLines, MovesTo, CachedAs, SameEntry, RecordedAs
  <2>1. CASE ShowsPrompt(p)
    BY <1>1, <1>3, <1>5, <2>1 DEF ShowsPrompt, OwnProcess
  <2>2. CASE TypesLine(p)
    BY <1>1, <1>3, <1>5, <2>2 DEF TypesLine, OwnProcess, NextLine
  <2>3. CASE ReadsNothing(p)
    BY <1>1, <1>3, <1>5, <2>3 DEF ReadsNothing, OwnProcess
  <2>4. CASE EntersParser(p)
    BY <1>1, <1>3, <1>5, <2>4 DEF EntersParser, Hooked, OwnProcess
  <2>5. CASE EntersEditor(p)
    BY <1>1, <1>3, <1>5, <2>5 DEF EntersEditor, Hooked, OwnProcess
  <2>6. CASE SetsPrompt(p)
    BY <1>1, <1>3, <1>5, <2>6 DEF SetsPrompt, OwnProcess
  <2>7. CASE EndsList(p)
    <3>1. /\ alive'[p].cmd = alive[p].cmd /\ alive'[p].uid = alive[p].uid
          /\ Len(lines') = Len(lines) + 1 /\ lines'[Len(lines')].uid = task[p].uid
          /\ task'[p].pc = "list2" => walk' = Len(lines')
      BY <2>7 DEF EndsList, NextLine
    <3>2. Len(lines') # 0
      BY <1>1, <3>1
    <3>3. QED
      BY <1>1, <1>3, <1>5, <3>1, <3>2 DEF OwnProcess
  <2>8. CASE RecordsList(p)
    BY <1>1, <1>3, <1>5, <2>8 DEF RecordsList, OwnProcess
  <2>9. QED
    BY <1>1, <2>1, <2>2, <2>3, <2>4, <2>5, <2>6, <2>7, <2>8, ShellKinds
<1>9. ASSUME NEW r \in Pids, NEW q \in Pids, task'[r].pc = "list2", task'[q].pc = "list2"
      PROVE  r = q
  <2>1. CASE r # p /\ q # p
    BY <1>3, <1>9, <2>1 DEF OwnInv
  <2>2. CASE r = p /\ q # p
    BY <1>3, <1>6, <1>9, <2>2
  <2>3. CASE r # p /\ q = p
    BY <1>3, <1>6, <1>9, <2>3
  <2>4. QED
    BY <2>1, <2>2, <2>3
<1>10. QED
  BY <1>7, <1>8, <1>9

LEMMA OwnOtherStep ==
  ASSUME BasicInv, OwnInv, ParentInv, OwnEnv, NEW p \in Pids,
         \/ LifeStep(p) \/ CacheParent(p) \/ \E q \in Pids : Fork(p, q)
  PROVE  /\ \A r \in Pids : OwnProcess(r)'
         /\ \A r, q \in Pids : task'[r].pc = "list2" /\ task'[q].pc = "list2" => r = q
<1>1. TypeInv /\ \A r \in Pids : OwnProcess(r)
  BY DEF BasicInv, OwnInv
<1>2. SUFFICES /\ walk' = walk /\ lines' = lines
               /\ \A r \in Pids : OwnProcess(r)' /\ (task'[r].pc = "list2" => task[r].pc = "list2")
  BY <1>2 DEF OwnInv
<1>3. CASE LifeStep(p)
  <2>1. /\ OthersKept(p) /\ Silent /\ SameIdentity(p)
        /\ \/ Execs(p) \/ Opens(p) \/ Exits(p) \/ ClearsDead(p) \/ Removes(p) \/ Looks(p)
    BY <1>1, <1>3, LifeKinds
  <2>2. /\ walk' = walk /\ lines' = lines /\ env' = env /\ task'[p].uid = task[p].uid
        /\ \A r \in Pids : r # p => task'[r] = task[r] /\ alive'[r] = alive[r]
    BY <2>1 DEF OthersKept, Silent, SameIdentity
  <2>3. OwnProcess(p)' /\ (task'[p].pc = "list2" => task[p].pc = "list2")
    <3> USE DEF MovesTo, CachedAs, SameEntry, LookedUpAs
    <3>1. CASE Execs(p)
      BY <1>1, <2>2, <3>1 DEF Execs, OwnProcess
    <3>2. CASE Opens(p)
      BY <1>1, <2>2, <3>2 DEF Opens, OwnProcess
    <3>3. CASE Exits(p)
      BY <1>1, <2>2, <3>3 DEF Exits, OwnProcess
    <3>4. CASE ClearsDead(p) \/ Removes(p) \/ Looks(p)
      BY <1>1, <2>2, <3>4 DEF ClearsDead, Removes, Looks, OwnProcess
    <3>5. QED
      BY <2>1, <3>1, <3>2, <3>3, <3>4
  <2>4. QED
    BY <1>1, <2>2, <2>3 DEF OwnProcess
<1>4. CASE CacheParent(p)
  <2>1. CachesParent(p)
    BY <1>4, ParentKind
  <2>2. /\ walk' = walk /\ lines' = lines /\ env' = env
        /\ \A r \in Pids :
             /\ task'[r].uid = task[r].uid
             /\ task'[r] = task[r] \/ task'[r].pc = "run"
             /\ \/ alive'[r] = alive[r]
                \/ /\ alive'[r].cmd = 0
                   /\ "reuse" \notin env => alive'[r].uid = task[r].uid
    BY <2>1 DEF CachesParent, Silent, SameIdentity, CachedAs, MovesTo, ParentInv
  <2>3. QED
    BY <1>1, <2>2 DEF OwnProcess
<1>5. CASE \E q \in Pids : Fork(p, q)
  <2>1. PICK q \in Pids : Fork(p, q)
    BY <1>5
  <2>2. Forks(p, q)
    BY <1>1, <2>1, ForkKind
  <2>3. /\ walk' = walk /\ lines' = lines /\ env' = env
        /\ \A r \in Pids : r # q => task'[r] = task[r]
        /\ task'[q].pc = "run"
        /\ \A r \in Pids : \/ r # q /\ alive'[r] = alive[r]
                           \/ alive'[r].cmd = 0 /\ alive'[r].uid = task'[r].uid
    BY <2>2 DEF Forks, Silent, CachedAs, MovesTo, OwnEnv
  <2>4. QED
    BY <1>1, <2>3 DEF OwnProcess
<1>6. QED
  BY <1>3, <1>4, <1>5

LEMMA OwnStep ==
  ASSUME BasicInv, OwnInv, ParentInv, [Next]_vars
  PROVE  OwnInv'
<1>1. CASE UNCHANGED vars
  BY <1>1 DEF vars, OwnInv, OwnEnv, OwnProcess
<1>2. CASE Next
  <2>1. SUFFICES ASSUME OwnEnv
                 PROVE  /\ \A r \in Pids : OwnProcess(r)'
                        /\ \A r, q \in Pids :
                             task'[r].pc = "list2" /\ task'[q].pc = "list2" => r = q
    BY EnvStep DEF OwnInv, OwnEnv
  <2>2. PICK p \in Pids : \/ ShellStep(p) \/ LifeStep(p) \/ CacheParent(p)
                          \/ \E q \in Pids : Fork(p, q)
    BY <1>2, StepKinds DEF BasicInv
  <2>3. QED
    BY <2>1, <2>2, OwnShellStep, OwnOtherStep
<1>3. QED
  BY <1>1, <1>2

\* Steps other than a fork leave identities alone.
LEMMA IdentitiesKept ==
  ASSUME BasicInv, NEW p \in Pids, ShellStep(p) \/ LifeStep(p) \/ CacheParent(p)
  PROVE  \A r \in Pids : SameIdentity(r)
<1>1. TypeInv
  BY DEF BasicInv
<1>2. CASE ShellStep(p)
  BY <1>1, <1>2, ShellStepIsLocal DEF Local, OthersKept, SameIdentity
<1>3. CASE LifeStep(p)
  BY <1>1, <1>3, LifeKinds DEF OthersKept, SameIdentity
<1>4. CASE CacheParent(p)
  BY <1>4, ParentKind DEF CachesParent, SameIdentity
<1>5. QED
  BY <1>2, <1>3, <1>4

LEMMA ParentStep ==
  ASSUME BasicInv, ParentInv, [Next]_vars
  PROVE  ParentInv'
<1>1. CASE UNCHANGED vars
  BY <1>1 DEF vars, ParentInv
<1>2. CASE Next
  <2>1. SUFFICES ASSUME "reuse" \notin env, NEW r \in Pids, task'[r].puid # 0
                 PROVE  task'[task'[r].ppid].uid = task'[r].puid
    BY EnvStep DEF ParentInv
  <2>2. \A s \in Pids : task[s].puid # 0 =>
          task[s].ppid \in Pids /\ task[task[s].ppid].uid = task[s].puid
    BY <2>1 DEF BasicInv, ProcessInv, ParentInv
  <2>3. PICK p \in Pids : \/ ShellStep(p) \/ LifeStep(p) \/ CacheParent(p)
                          \/ \E q \in Pids : Fork(p, q)
    BY <1>2, StepKinds DEF BasicInv
  <2>4. CASE ShellStep(p) \/ LifeStep(p) \/ CacheParent(p)
    <3>1. \A s \in Pids : SameIdentity(s)
      BY <2>4, IdentitiesKept
    <3>2. QED
      BY <2>1, <2>2, <3>1 DEF SameIdentity
  <2>5. CASE \E q \in Pids : Fork(p, q)
    <3>1. PICK q \in Pids : Fork(p, q)
      BY <2>5
    <3>2. Forks(p, q)
      BY <3>1, ForkKind DEF BasicInv
    <3>3. /\ task[q].uid = 0 /\ p # q /\ task'[q].ppid = p /\ task'[q].puid = task[p].uid
          /\ \A s \in Pids : s # q => task'[s] = task[s]
      BY <2>1, <3>2 DEF Forks
    <3>4. QED
      BY <2>1, <2>2, <3>3
  <2>6. QED
    BY <2>3, <2>4, <2>5
<1>3. QED
  BY <1>1, <1>2

LEMMA OwnInit == Init => OwnInv /\ ParentInv
<1> SUFFICES ASSUME Init PROVE OwnInv /\ ParentInv
  OBVIOUS
<1>1. ASSUME NEW p \in Pids
      PROVE  /\ alive[p].cmd = 0 /\ alive[p].uid \in {0, task[p].uid}
             /\ task[p].pc \notin {"list2", "exit1"}
             /\ task[p].puid # 0 => task[p].ppid = 1 /\ task[p].puid = 1
  <2>1. alive[p].cmd = 0 /\ alive[p].uid \in {0, task[p].uid}
    BY DEF Init, NoEntry
  <2>2. \/ task[p] = NoTask
        \/ \E r \in Pids, prog \in Shells, kind \in {"interactive", "child"} :
             task[p] = InitialTask(r, prog, kind)
    BY DEF Init
  <2>3. task[p].pc \notin {"list2", "exit1"} /\ (task[p].puid # 0 => task[p].ppid = 1 /\ task[p].puid = 1)
    <3>1. CASE task[p] = NoTask
      BY <3>1 DEF NoTask
    <3>2. ASSUME NEW r \in Pids, NEW prog \in Shells, NEW kind \in {"interactive", "child"},
                 task[p] = InitialTask(r, prog, kind)
          PROVE  task[p].pc \notin {"list2", "exit1"} /\ (task[p].puid # 0 => task[p].ppid = 1 /\ task[p].puid = 1)
      BY <3>2 DEF InitialTask
    <3>3. QED
      BY <2>2, <3>1, <3>2
  <2>4. QED
    BY <2>1, <2>3
<1>2. ASSUME NEW p \in Pids PROVE task[1].uid = 1
  <2>1. 1 \in Pids /\ task[1].uid \in {0, 1} /\ task[1].kind = "interactive"
    BY PidsAssumption DEF Init
  <2>2. task[1] # NoTask
    BY <2>1 DEF NoTask
  <2>3. PICK r \in Pids, prog \in Shells, kind \in {"interactive", "child"} :
             task[1] = InitialTask(r, prog, kind)
    BY <2>1, <2>2 DEF Init
  <2>4. task[1].uid = r
    BY <2>3 DEF InitialTask
  <2>5. QED
    BY <2>1, <2>4, PidsAssumption
<1>3. OwnInv
  BY <1>1 DEF OwnInv, OwnProcess, Init
<1>4. ParentInv
  BY <1>1, <1>2 DEF ParentInv
<1>5. QED
  BY <1>3, <1>4

\* A recorded command is a line that this very process read, and what a child
\* shows for its parent, out of the alive or the dead cache, is a line that
\* this parent read: through forks, execs, exits and reused pids, for any
\* number of processes, in every environment without preemption between the
\* two programs of list() and without failed reservations.
THEOREM OwnCorrect == Spec => []CommandIsOwn
<1>1. BasicInv /\ ExitInv /\ OwnInv /\ ParentInv => CommandIsOwn
  <2> SUFFICES ASSUME BasicInv, ExitInv, OwnInv, ParentInv, OwnEnv, NEW p \in Pids
               PROVE  /\ alive[p].cmd # 0 => lines[alive[p].cmd].uid = task[p].uid
                      /\ Lives(p) /\ task[p].puid # 0 /\ ParentCommand(p) # 0
                           /\ "reuse" \notin env =>
                           lines[ParentCommand(p)].uid = task[p].puid
    BY DEF CommandIsOwn, OwnEnv
  <2>1. \A r \in Pids : OwnProcess(r)
    BY DEF OwnInv
  <2>2. alive[p].cmd # 0 => lines[alive[p].cmd].uid = task[p].uid
    BY <2>1 DEF OwnProcess
  <2>3. ASSUME task[p].puid # 0, ParentCommand(p) # 0, "reuse" \notin env
        PROVE  lines[ParentCommand(p)].uid = task[p].puid
    <3>1. /\ task[p].ppid \in Pids /\ task[task[p].ppid].uid = task[p].puid
          /\ task[p].puid \in Uids
      <4>1. task[p].ppid \in Pids /\ task[task[p].ppid].uid = task[p].puid
        BY <2>3 DEF BasicInv, ProcessInv, ParentInv
      <4>2. task[p].puid \in 0 .. MaxUids
        BY DEF BasicInv, TypeInv, TaskT
      <4> QED BY <2>3, <4>1, <4>2, PidsAssumption DEF Uids
    <3>2. CASE alive[task[p].ppid].uid # 0
      BY <2>1, <2>3, <3>1, <3>2 DEF ParentCommand, OwnProcess
    <3>3. CASE alive[task[p].ppid].uid = 0
      <4>1. dead[task[p].puid] # 0
        BY <2>3, <3>3 DEF ParentCommand
      <4>2. PICK r \in Pids : /\ task[r].pc = "exit1" /\ task[r].ev = task[p].puid
                              /\ alive[r].uid # 0
        BY <3>1, <4>1 DEF ExitInv, DeadInv, Dying
      <4>3. task[r].uid = task[p].puid
        BY <2>1, <2>3, <4>2 DEF OwnProcess
      <4>4. r = task[p].ppid
        BY <2>3, <3>1, <4>3 DEF BasicInv
      <4>5. QED
        BY <2>3, <3>3, <4>2, <4>4
    <3>4. QED
      BY <3>2, <3>3
  <2>4. QED
    BY <2>2, <2>3
<1>2. BasicInv /\ OwnInv /\ ParentInv /\ [Next]_vars => OwnInv' /\ ParentInv'
  BY OwnStep, ParentStep
<1>3. QED
  BY <1>1, <1>2, OwnInit, ShellInvariants, PTL DEF Spec

-----------------------------------------------------------------------------
\* The recorded command is the current one.

\* At the first prompt nothing is recorded; a zsh that parses has either set
\* the bit that will make the line editor clear the command, or has none.
PromptProcess(p) ==
  /\ task[p].pc = "prompt" => alive[p].cmd = 0
  /\ task[p].pc = "parse" => 2 \in active[p] \/ alive[p].cmd = 0

PromptInv == "crowded" \notin env => \A p \in Pids : PromptProcess(p)

CurrentEnv ==
  /\ "sourced" \notin env /\ "crowded" \notin env /\ "preempt" \notin env
  /\ "preexist" \notin env /\ "ringbuf_full" \notin env

\* A shell that runs a command has it recorded.  Between exitList and exitList_2
\* it is in walk_state; dash is active at its prompt, so it gets there; a zsh
\* outside its parser has not set the parser's bit, so that its line editor
\* clears nothing; and a program that is yet to run exec_hook has read no line.
CurrentProcess(p) ==
  /\ task[p].kind = "interactive" /\ task[p].pc = "run" /\ task[p].typed # 0 =>
       alive[p].cmd = task[p].typed
  /\ task[p].kind = "interactive" /\ task[p].pc = "list2" => walk = task[p].typed
  /\ task[p].prog = "dash" /\ task[p].pc = "prompt" => active[p] # {}
  /\ task[p].kind = "interactive" /\ task[p].pc # "parse" => 2 \notin active[p]
  /\ task[p].kind = "child" => active[p] = {}
  /\ p \in exec_pids => task[p].typed = 0
  /\ task[p].pc # "gone" => alive[p].uid # 0

CurrentInv == CurrentEnv => \A p \in Pids : CurrentProcess(p)

LEMMA PromptStep ==
  ASSUME BasicInv, PromptInv, [Next]_vars
  PROVE  PromptInv'
<1>1. CASE UNCHANGED vars
  BY <1>1 DEF vars, PromptInv, PromptProcess
<1>2. CASE Next
  <2>1. SUFFICES ASSUME "crowded" \notin env PROVE \A r \in Pids : PromptProcess(r)'
    BY EnvStep DEF PromptInv
  <2>2. TypeInv /\ \A r \in Pids : PromptProcess(r)
    BY <2>1 DEF BasicInv, PromptInv
  <2>3. PICK p \in Pids : \/ ShellStep(p) \/ LifeStep(p) \/ CacheParent(p)
                          \/ \E q \in Pids : Fork(p, q)
    BY <1>2, <2>2, StepKinds
  <2>4. CASE ShellStep(p)
    <3>1. \A r \in Pids : r # p => task'[r] = task[r] /\ alive'[r] = alive[r] /\ active'[r] = active[r]
      BY <2>2, <2>4, ShellStepIsLocal DEF Local, OthersKept
    <3>2. PromptProcess(p)'
      <4> USE DEF MovesTo, CachedAs, SameEntry
      <4>1. CASE ShowsPrompt(p) \/ TypesLine(p) \/ ReadsNothing(p) \/ SetsPrompt(p)
                   \/ EndsList(p) \/ RecordsList(p)
        BY <4>1 DEF ShowsPrompt, TypesLine, ReadsNothing, SetsPrompt, EndsList, RecordsList,
                    PromptProcess
      <4>2. CASE EntersParser(p)
        <5>1. task'[p].pc \in {"parse", "run"} /\ (alive'[p].cmd = 0 \/ active'[p] = active[p] \cup {2})
          BY <2>1, <4>2 DEF EntersParser, Hooked
        <5>2. QED
          BY <5>1 DEF PromptProcess
      <4>3. CASE EntersEditor(p)
        <5>1. /\ task'[p].pc # "parse"
              /\ task'[p].pc = "prompt" => task[p].pc = "parse"
          BY <4>3 DEF EntersEditor
        <5>2. 2 \in active[p] => active[p] \cup {1} = {1, 2}
          BY <2>2 DEF TypeInv
        <5>3. 2 \in active[p] \/ alive[p].cmd = 0 => alive'[p].cmd = 0
          BY <4>3, <5>2 DEF EntersEditor, Hooked
        <5>4. QED
          BY <2>2, <5>1, <5>3 DEF PromptProcess
      <4>4. QED
        BY <2>2, <2>4, <4>1, <4>2, <4>3, ShellKinds
    <3>3. QED
      BY <2>2, <3>1, <3>2 DEF PromptProcess
  <2>5. CASE LifeStep(p)
    <3>1. /\ OthersKept(p)
          /\ \/ Execs(p) \/ Opens(p) \/ Exits(p) \/ ClearsDead(p) \/ Removes(p) \/ Looks(p)
      BY <2>2, <2>5, LifeKinds
    <3>2. PromptProcess(p)'
      BY <2>2, <3>1 DEF Execs, Opens, Exits, ClearsDead, Removes, Looks, MovesTo, CachedAs,
                        PromptProcess
    <3>3. QED
      BY <2>2, <3>1, <3>2 DEF OthersKept, PromptProcess
  <2>6. CASE CacheParent(p)
    <3>1. CachesParent(p)
      BY <2>6, ParentKind
    <3>2. \A r \in Pids : /\ task'[r].pc = task[r].pc \/ task'[r].pc = "run"
                          /\ alive'[r] = alive[r] \/ alive'[r].cmd = 0
                          /\ active'[r] = active[r]
      BY <3>1 DEF CachesParent, CachedAs, MovesTo
    <3>3. QED
      BY <2>2, <3>2 DEF PromptProcess
  <2>7. CASE \E q \in Pids : Fork(p, q)
    <3>1. PICK q \in Pids : Fork(p, q)
      BY <2>7
    <3>2. Forks(p, q)
      BY <2>2, <3>1, ForkKind
    <3>3. \A r \in Pids : /\ task'[r].pc = task[r].pc \/ task'[r].pc = "run"
                          /\ alive'[r] = alive[r] \/ alive'[r].cmd = 0
                          /\ active'[r] = active[r]
      BY <3>2 DEF Forks, CachedAs, MovesTo
    <3>4. QED
      BY <2>2, <3>3 DEF PromptProcess
  <2>8. QED
    BY <2>3, <2>4, <2>5, <2>6, <2>7
<1>3. QED
  BY <1>1, <1>2

LEMMA CurrentShellStep ==
  ASSUME BasicInv, CurrentInv, CurrentEnv, NEW p \in Pids, ShellStep(p)
  PROVE  \A r \in Pids : CurrentProcess(r)'
<1>1. TypeInv /\ ProcessInv(p) /\ CurrentProcess(p) /\ task[p].uid # 0
  <2>1. TypeInv /\ ProcessInv(p) /\ CurrentProcess(p)
    BY Acting DEF CurrentInv
  <2>2. QED
    BY <2>1, ShellLives DEF ProcessInv
<1>2. Local(p)
  BY <1>1, ShellStepIsLocal
<1>3. /\ env' = env /\ exec_pids' = exec_pids
      /\ task'[p].kind = task[p].kind /\ task'[p].prog = task[p].prog
      /\ \A r \in Pids : r # p => task'[r] = task[r] /\ alive'[r] = alive[r] /\ active'[r] = active[r]
  BY <1>2 DEF Local, OthersKept, Quiet
<1>4. \A r \in Pids : r # p /\ task[r].pc = "list2" => walk' = walk
  <2> USE DEF SameLines
  <2>1. CASE EndsList(p)
    BY <2>1 DEF EndsList, CpuIsFree, CurrentEnv
  <2>2. CASE ~EndsList(p)
    BY <1>1, <2>2, ShellKinds DEF ShowsPrompt, TypesLine, ReadsNothing, EntersParser, EntersEditor,
         SetsPrompt, RecordsList
  <2>3. QED
    BY <2>1, <2>2
<1>5. ASSUME NEW r \in Pids, r # p PROVE CurrentProcess(r)'
  <2>1. CurrentProcess(r)
    BY DEF CurrentInv
  <2>2. QED
    BY <1>3, <1>4, <1>5, <2>1 DEF CurrentProcess
<1>6. CurrentProcess(p)'
  <2> USE DEF SameLines, MovesTo, CachedAs, SameEntry, RecordedAs
  <2>1. CASE ShowsPrompt(p)
    BY <1>1, <1>3, <2>1 DEF ShowsPrompt, CurrentProcess
  <2>2. CASE TypesLine(p)
    <3>1. task[p].kind = "interactive"
      BY <1>1, <2>2 DEF TypesLine, ProcessInv
    <3>2. p \notin exec_pids
      BY <2>2, <3>1 DEF TypesLine, Started, CurrentEnv
    <3>3. QED
      BY <1>1, <1>3, <2>2, <3>1, <3>2 DEF TypesLine, CurrentProcess
  <2>3. CASE ReadsNothing(p)
    BY <1>1, <1>3, <2>3 DEF ReadsNothing, CurrentProcess
  <2>4. CASE EntersParser(p)
    <3>1. task[p].kind \in {"interactive", "script"} /\ task[p].prog = "zsh"
      BY <2>4 DEF EntersParser, Parses, CurrentEnv
    <3>2. /\ task'[p].typed = task[p].typed /\ alive'[p].uid = alive[p].uid
          /\ task'[p].pc = "parse" \/ (task[p].kind = "script" /\ task'[p].pc = "run")
          /\ task[p].pc = "run"
      BY <2>4 DEF EntersParser, Hooked, Parses, CurrentEnv
    <3>3. QED
      BY <1>1, <1>3, <3>1, <3>2 DEF CurrentProcess
  <2>5. CASE EntersEditor(p)
    <3>1. task[p].kind = "interactive" /\ task[p].prog = "zsh"
      BY <1>1, <2>5 DEF EntersEditor, ProcessInv
    <3>2. 2 \notin active'[p]
      <4>1. CASE active[p] \cup {1} = {1, 2}
        BY <2>5, <4>1 DEF EntersEditor, Hooked
      <4>2. CASE active[p] \cup {1} # {1, 2}
        <5>1. 2 \notin active[p]
          BY <1>1, <4>2 DEF TypeInv
        <5>2. QED
          BY <2>5, <4>2, <5>1 DEF EntersEditor, Hooked
      <4>3. QED
        BY <4>1, <4>2
    <3>3. task[p].pc # "parse" => alive'[p].cmd = alive[p].cmd
      <4>1. task[p].pc # "parse" => active[p] \cup {1} # {1, 2}
        BY <1>1, <3>1 DEF CurrentProcess
      <4>2. QED
        BY <2>5, <4>1 DEF EntersEditor, Hooked
    <3>4. /\ task'[p].typed = task[p].typed /\ alive'[p].uid = alive[p].uid
          /\ task'[p].pc \in {"prompt", "prompt2", "run"}
          /\ task'[p].pc = "run" => task[p].pc = "run"
          /\ task[p].pc # "gone"
      BY <2>5 DEF EntersEditor, Hooked
    <3>5. QED
      BY <1>1, <1>3, <3>1, <3>2, <3>3, <3>4 DEF CurrentProcess
  <2>6. CASE SetsPrompt(p)
    BY <1>1, <1>3, <2>6 DEF SetsPrompt, CurrentProcess, CurrentEnv
  <2>7. CASE EndsList(p)
    <3>1. /\ alive'[p].cmd = alive[p].cmd /\ alive'[p].uid = alive[p].uid
          /\ active'[p] = active[p] /\ Started(p)
          /\ task'[p].pc \in {"list2", "run"} /\ task[p].pc \in {"prompt", "run"}
      BY <2>7 DEF EndsList
    <3>2. CASE task[p].pc = "prompt"
      <4>1. task[p].kind = "interactive"
        BY <1>1, <3>2 DEF ProcessInv
      <4>2. p \notin exec_pids
        BY <3>1, <4>1 DEF Started, CurrentEnv
      <4>3. active[p] # {}
        BY <1>1, <2>7, <3>2 DEF EndsList, CurrentProcess
      <4>4. task'[p].pc = "list2" /\ task'[p].typed = Len(lines') /\ walk' = Len(lines')
        BY <2>7, <3>2, <4>3 DEF EndsList
      <4>5. QED
        BY <1>1, <1>3, <3>1, <3>2, <4>1, <4>2, <4>4 DEF CurrentProcess
    <3>3. CASE task[p].pc = "run"
      <4>1. task[p].kind = "script" /\ task'[p].typed = task[p].typed
        BY <2>7, <3>3 DEF EndsList, Parses, CurrentEnv
      <4>2. QED
        BY <1>1, <1>3, <3>1, <3>3, <4>1 DEF CurrentProcess
    <3>4. QED
      BY <3>1, <3>2, <3>3
  <2>8. CASE RecordsList(p)
    BY <1>1, <1>3, <2>8 DEF RecordsList, CurrentProcess
  <2>9. QED
    BY <1>1, <2>1, <2>2, <2>3, <2>4, <2>5, <2>6, <2>7, <2>8, ShellKinds
<1>7. QED
  BY <1>5, <1>6

LEMMA CurrentOtherStep ==
  ASSUME BasicInv, ExitInv, CurrentInv, CurrentEnv, NEW p \in Pids,
         \/ LifeStep(p) \/ CacheParent(p) \/ \E q \in Pids : Fork(p, q)
  PROVE  \A r \in Pids : CurrentProcess(r)'
<1>1. TypeInv /\ \A r \in Pids : ProcessInv(r) /\ CurrentProcess(r)
  BY DEF BasicInv, CurrentInv
<1>2. CASE LifeStep(p)
  <2>1. /\ OthersKept(p) /\ Silent /\ SameIdentity(p)
        /\ \/ Execs(p) \/ Opens(p) \/ Exits(p) \/ ClearsDead(p) \/ Removes(p) \/ Looks(p)
    BY <1>1, <1>2, LifeKinds
  <2>2. /\ walk' = walk
        /\ \A r \in Pids : r # p => task'[r] = task[r] /\ alive'[r] = alive[r] /\ active'[r] = active[r]
    BY <2>1 DEF OthersKept, Silent
  <2>3. \A r \in Pids : r # p => (r \in exec_pids' <=> r \in exec_pids)
    BY <2>1 DEF Execs, Opens, Exits, ClearsDead, Removes, Looks
  <2>4. CurrentProcess(p)'
    <3> USE DEF MovesTo, CachedAs, SameEntry, SameProgram, LookedUpAs
    <3>1. CASE Execs(p)
      <4>1. task[p].kind \in {"interactive", "child"}
        BY <1>1, <3>1 DEF Execs, ProcessInv
      <4>2. 2 \notin active[p]
        BY <1>1, <3>1, <4>1 DEF Execs, CurrentProcess
      <4>3. alive'[p].uid # 0
        BY <1>1, <3>1 DEF Execs, CurrentProcess
      <4>4. QED
        BY <3>1, <4>2, <4>3 DEF Execs, CurrentProcess
    <3>2. CASE Opens(p)
      <4>1. task[p].uid # 0 /\ task[p].typed = 0
        BY <1>1, <3>2 DEF Opens, ProcessInv, CurrentProcess
      <4>2. QED
        BY <1>1, <2>2, <3>2, <4>1 DEF Opens, CurrentProcess
    <3>3. CASE Exits(p)
      <4>1. task'[p].pc = "exit1" /\ task'[p].typed = task[p].typed /\ alive'[p].uid # 0
        BY <1>1, <3>3 DEF Exits, CurrentProcess, CurrentEnv
      <4>2. QED
        BY <1>1, <3>3, <4>1 DEF Exits, CurrentProcess
    <3>4. CASE ClearsDead(p)
      BY <1>1, <3>4 DEF ClearsDead, CurrentProcess
    <3>5. CASE Removes(p)
      BY <1>1, <3>5 DEF Removes, CurrentProcess
    <3>6. CASE Looks(p)
      BY <3>6 DEF Looks, CurrentEnv
    <3>7. QED
      BY <2>1, <3>1, <3>2, <3>3, <3>4, <3>5, <3>6
  <2>5. QED
    BY <1>1, <2>2, <2>3, <2>4 DEF CurrentProcess
<1>3. CASE CacheParent(p)
  BY <1>3, ParentKind DEF CachesParent, CurrentEnv
<1>4. CASE \E q \in Pids : Fork(p, q)
  <2>1. PICK q \in Pids : Fork(p, q)
    BY <1>4
  <2>2. Forks(p, q)
    BY <1>1, <2>1, ForkKind
  <2>3. /\ walk' = walk /\ active' = active /\ exec_pids' = exec_pids
        /\ task[q].pc = "gone" /\ p # q /\ task[p].pc = "run"
        /\ \A r \in Pids : r # q => task'[r] = task[r]
        /\ task'[q].pc = "run" /\ task'[q].typed = 0 /\ task'[q].kind \in {"other", "child"}
        /\ uids' = uids + 1
    BY <2>2 DEF Forks, Silent, MovesTo
  <2>4. active[q] = {}
    BY <2>3 DEF ExitInv, GoneInv, CurrentEnv
  <2>5. alive[p].uid # 0
    BY <1>1, <2>3 DEF CurrentProcess
  <2>6. alive'[q].uid = uids' /\ \A r \in Pids : r # q => alive'[r] = alive[r]
    BY <2>2, <2>5 DEF Forks, CachedAs, CurrentEnv
  <2>7. uids' # 0
    BY <1>1, <2>3 DEF TypeInv
  <2>8. CurrentProcess(q)'
    BY <2>3, <2>4, <2>6, <2>7 DEF CurrentProcess
  <2>9. \A r \in Pids : r # q => CurrentProcess(r)'
    BY <1>1, <2>3, <2>6 DEF CurrentProcess
  <2>10. QED
    BY <2>8, <2>9
<1>5. QED
  BY <1>2, <1>3, <1>4

LEMMA CurrentStep ==
  ASSUME BasicInv, ExitInv, CurrentInv, [Next]_vars
  PROVE  CurrentInv'
<1>1. CASE UNCHANGED vars
  BY <1>1 DEF vars, CurrentInv, CurrentEnv, CurrentProcess
<1>2. CASE Next
  <2>1. SUFFICES ASSUME CurrentEnv PROVE \A r \in Pids : CurrentProcess(r)'
    BY EnvStep DEF CurrentInv, CurrentEnv
  <2>2. PICK p \in Pids : \/ ShellStep(p) \/ LifeStep(p) \/ CacheParent(p)
                          \/ \E q \in Pids : Fork(p, q)
    BY <1>2, StepKinds DEF BasicInv
  <2>3. QED
    BY <2>1, <2>2, CurrentShellStep, CurrentOtherStep
<1>3. QED
  BY <1>1, <1>2

LEMMA CurrentInit == Init => PromptInv /\ CurrentInv
<1> SUFFICES ASSUME Init PROVE PromptInv /\ CurrentInv
  OBVIOUS
<1>1. ASSUME NEW p \in Pids
      PROVE  /\ alive[p].cmd = 0 /\ active[p] = {} /\ p \notin exec_pids
             /\ task[p].typed = 0 /\ task[p].pc \in {"gone", "run"}
             /\ CurrentEnv => alive[p].uid = task[p].uid
  <2>1. /\ alive[p].cmd = 0 /\ active[p] = {} /\ p \notin exec_pids
        /\ CurrentEnv => alive[p].uid = task[p].uid
    BY DEF Init, NoEntry, CurrentEnv
  <2>2. \/ task[p] = NoTask
        \/ \E r \in Pids, prog \in Shells, kind \in {"interactive", "child"} :
             task[p] = InitialTask(r, prog, kind)
    BY DEF Init
  <2>3. task[p].typed = 0 /\ task[p].pc \in {"gone", "run"}
    <3>1. CASE task[p] = NoTask
      BY <3>1 DEF NoTask
    <3>2. ASSUME NEW r \in Pids, NEW prog \in Shells, NEW kind \in {"interactive", "child"},
                 task[p] = InitialTask(r, prog, kind)
          PROVE  task[p].typed = 0 /\ task[p].pc \in {"gone", "run"}
      BY <3>2 DEF InitialTask
    <3>3. QED
      BY <2>2, <3>1, <3>2
  <2>4. QED
    BY <2>1, <2>3
<1>2. \A p \in Pids : task[p].pc # "gone" => task[p].uid # 0
  BY BasicInit DEF BasicInv, ProcessInv
<1>3. QED
  BY <1>1, <1>2 DEF PromptInv, PromptProcess, CurrentInv, CurrentProcess

\* While an interactive shell runs a command, the line it read last is
\* recorded for it, and at its first prompt none is: for bash, zsh and dash,
\* any number of processes and every order in which the probes, forks, execs
\* and exits happen, in the environments that CommandIsCurrent names.
THEOREM CurrentCorrect == Spec => []CommandIsCurrent
<1>1. PromptInv /\ CurrentInv => CommandIsCurrent
  BY DEF PromptInv, PromptProcess, CurrentInv, CurrentProcess, CurrentEnv, CommandIsCurrent
<1>2. BasicInv /\ ExitInv /\ PromptInv /\ CurrentInv /\ [Next]_vars => PromptInv' /\ CurrentInv'
  BY PromptStep, CurrentStep
<1>3. QED
  BY <1>1, <1>2, CurrentInit, ShellInvariants, PTL DEF Spec
=============================================================================
