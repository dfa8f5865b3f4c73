---------------------- MODULE ProcessTrackingProofs ----------------------
(***************************************************************************)
(* Proofs about ProcessTracking, for every set of pids and images and all  *)
(* bounds: the pid sets and the alive cache first, then that a process     *)
(* stays attributed to the one that forked it, that this one can always be *)
(* found, that a rule kills no other in its place, and that no change of   *)
(* image is lost.  The action-by-action structure follows Next.            *)
(***************************************************************************)
EXTENDS ProcessTracking, TLAPS

-----------------------------------------------------------------------------
\* Type correctness.

AliveT == [Pids -> ProcessT \cup {Null}]

\* fill_process_t reads a well-typed process_t from the task table.
LEMMA FillType ==
  ASSUME TypeOK, NEW p \in Pids, NEW s \in Times
  PROVE  fill_process_t(p, s) \in ProcessT
  <1>1. real_parent[p][1] \in Pids /\ real_parent[p][2] \in Times
    BY DEF TypeOK
  <1>2. build_process_unique_id(real_parent[p][1], real_parent[p][2])
          \in {build_process_unique_id(q, t) : q \in Pids, t \in Times}
    BY <1>1
  <1>3. image[p] \in Images /\ start_time[p] \in Times
    BY DEF TypeOK
  <1>4. FALSE \in BOOLEAN
    OBVIOUS
  <1> QED BY <1>1, <1>2, <1>3, <1>4 DEF fill_process_t, ProcessT

\* A thread's start_time is a time.
LEMMA TaskStartType ==
  ASSUME TypeOK, NEW p \in Pids, NEW w \in Workers
  PROVE  TaskStart(p, w) \in Times
  BY DEF TypeOK, TaskStart

\* Looking a process up keeps the cache well typed and leaves it cached.
LEMMA LookupType ==
  ASSUME TypeOK, NEW al \in AliveT, NEW p \in Pids, NEW w \in Workers
  PROVE  /\ fill_event_process_from_cache(al, p, w) \in AliveT
         /\ fill_event_process_from_cache(al, p, w)[p] \in ProcessT
  <1>1. fill_process_t(p, TaskStart(p, w)) \in ProcessT
    BY FillType, TaskStartType
  <1> QED BY <1>1 DEF fill_event_process_from_cache, AliveT

\* A hook that begins is one.
LEMMA HookOfType ==
  ASSUME TypeOK, NEW p \in Pids, NEW w \in Workers, NEW hook \in {"exec", "exit", "signal", "other"},
         NEW e \in ProcessT, NEW a \in Verdicts \cup {"ALLOW_EVENT"}, NEW t \in Pids \X Times
  PROVE  HookOf(p, w, hook, e, a, t) \in HookT
  BY DEF HookOf, HookT

LEMMA NoTargetType == NoTarget \in Pids \X Times
  BY PidAssumption, BoundAssumption DEF NoTarget, Times

\* What exec_hook puts into the cache is well typed.
LEMMA NewProcessType ==
  ASSUME TypeOK, NEW p \in Pids, NEW w \in Workers, NEW e \in ProcessT
  PROVE  NewProcess(p, w, e) \in ProcessT
  <1>1. fill_process_t(p, TaskStart(p, w)) \in ProcessT
    BY FillType, TaskStartType
  <1>2. FALSE \in BOOLEAN
    OBVIOUS
  <1> QED BY <1>1, <1>2 DEF NewProcess, ProcessT

\* kill_proccesses kills processes only, and leaves a hook behind.
LEMMA KillType ==
  ASSUME TypeOK, NEW h \in HookT, NEW al, NEW others \in SUBSET HookT,
         kill_proccesses(h, al, others)
  PROVE  sigkill' \subseteq Pids /\ hooks' \subseteq HookT
  <1>1. [h EXCEPT !.op = "mark", !.hook = "other", !.entry = Null] \in HookT
    BY DEF HookT
  <1>2. h.pid \in Pids
    BY DEF HookT
  <1> QED BY <1>1, <1>2 DEF kill_proccesses, TypeOK

\* The rest of a hook keeps the types.
LEMMA RestType ==
  ASSUME TypeOK, NEW h \in HookT, NEW al \in AliveT, NEW others \in SUBSET HookT,
         Rest(h, al, others)
  PROVE  /\ alive' \in AliveT /\ dead' \subseteq ProcessT /\ exec_pids' \subseteq Pids
         /\ sigkill' \subseteq Pids /\ hooks' \subseteq HookT
  <1>1. h.pid \in Pids /\ h.w \in Workers /\ h.e \in ProcessT
    BY DEF HookT
  <1>2. alive' \in AliveT
    BY <1>1, NewProcessType DEF Rest, AliveT
  <1>3. dead' \subseteq ProcessT /\ exec_pids' \subseteq Pids
    BY <1>1 DEF Rest, add_process_to_dead_proccesses_lru, TypeOK
  <1>4. CASE h.hook = "signal" /\ al[h.target[1]] = Null
    <2>1. [h EXCEPT !.op = "target", !.hook = "other", !.entry = Null] \in HookT
      BY DEF HookT
    <2> QED BY <1>2, <1>3, <1>4, <2>1 DEF Rest, TypeOK
  <1>5. CASE ~(h.hook = "signal" /\ al[h.target[1]] = Null)
    <2>1. kill_proccesses([h EXCEPT !.target = NoTarget], alive', others)
      BY <1>5 DEF Rest
    <2>2. [h EXCEPT !.target = NoTarget] \in HookT
      BY NoTargetType DEF HookT
    <2>3. sigkill' \subseteq Pids /\ hooks' \subseteq HookT
      BY <2>1, <2>2, KillType
    <2> QED BY <1>2, <1>3, <2>3
  <1> QED BY <1>4, <1>5

\* So does looking the parent up, with all that follows.
LEMMA ParentLookupType ==
  ASSUME TypeOK, NEW h \in HookT, NEW al \in AliveT,
         fill_event_parent_process_from_cache(h, al)
  PROVE  /\ alive' \in AliveT /\ dead' \subseteq ProcessT /\ exec_pids' \subseteq Pids
         /\ sigkill' \subseteq Pids /\ hooks' \subseteq HookT
  <1>1. CASE get_process_from_caches(al, h.e.ppid, h.e.unique_ppid) # Null
    <2>1. Rest(h, al, hooks) /\ hooks \in SUBSET HookT
      BY <1>1 DEF fill_event_parent_process_from_cache, TypeOK
    <2> QED BY <2>1, RestType
  <1>2. CASE get_process_from_caches(al, h.e.ppid, h.e.unique_ppid) = Null
    BY <1>2 DEF fill_event_parent_process_from_cache, TypeOK
  <1> QED BY <1>1, <1>2

\* What is read of another task is a process_t, if anything.
LEMMA FillsType ==
  ASSUME TypeOK, NEW t \in Pids \X Times, NEW new \in Fills(t)
  PROVE  new \in ProcessT \cup {Null}
  <1>1. t[1] \in Pids /\ t[2] \in Times
    OBVIOUS
  <1>2. fill_process_t(t[1], t[2]) \in ProcessT
    BY <1>1, FillType
  <1>3. [fill_process_t(t[1], t[2]) EXCEPT !.remote = TRUE] \in ProcessT
    <2>1. ASSUME NEW f \in ProcessT, NEW b \in BOOLEAN
          PROVE  [f EXCEPT !.remote = b] \in ProcessT
      BY DEF ProcessT
    <2>2. TRUE \in BOOLEAN
      OBVIOUS
    <2> QED BY <1>2, <2>1, <2>2, Zenon
  <1> QED BY <1>3 DEF Fills

\* The pids that owLSM is loaded with.
LEMMA SetupFacts ==
  ASSUME Init
  PROVE  /\ Owlsm \subseteq Pids /\ Guarded \subseteq Pids /\ Preexist \subseteq Pids
         /\ InitPid \notin Owlsm \cup Guarded \cup Preexist
         /\ setup.parent \in [Pids -> Pids]
         /\ Quiet => \A p \in Pids : setup.parent[p] = InitPid
  BY SetupAssumption DEF Init, Owlsm, Guarded, Preexist, Quiet, Env

\* The maps and tasks hold values of their types in the initial state.
LEMMA InitType == Init => TypeOK
  <1> SUFFICES ASSUME Init PROVE TypeOK
    OBVIOUS
  <1>1. 0 \in Times
    BY BoundAssumption DEF Times
  <1>2. lineage \in [Pids -> SUBSET {"related", "protected", "helper"}]
    BY DEF Init
  <1>3. forker \in [Pids -> [pid : Pids, start : Times, monitored : BOOLEAN]]
    BY <1>1, PidAssumption, SetupFacts DEF Init, NoForker
  <1>4. real_parent \in [Pids -> Pids \X Times]
    BY <1>1, PidAssumption, SetupFacts DEF Init
  <1>5. alive \in [Pids -> ProcessT \cup {Null}]
    BY DEF Init
  <1> QED BY <1>1, <1>2, <1>3, <1>4, <1>5, PidAssumption, SetupFacts, ImageAssumption
          DEF Init, TypeOK, States, Workers

\* The kernel's bookkeeping of a new task is well typed.
LEMMA CreateType ==
  ASSUME TypeOK, NEW p \in Pids, NEW w \in Workers, NEW c \in Pids,
         NEW helper \in BOOLEAN, CreateTask(p, w, c, helper)
  PROVE  /\ clock' \in Times
         /\ st' \in [Pids -> States]
         /\ start_time' \in [Pids -> Times] /\ thr' \in [Pids -> Times]
         /\ real_parent' \in [Pids -> Pids \X Times]
         /\ image' \in [Pids -> Images] /\ mm' \in [Pids -> BOOLEAN]
         /\ execing' \in [Pids -> Workers \cup {"none"}] /\ sigkill' \subseteq Pids
         /\ forker' \in [Pids -> [pid : Pids, start : Times, monitored : BOOLEAN]]
         /\ lineage' \in [Pids -> SUBSET {"related", "protected", "helper"}]
  <1>1. clock + 1 \in Times
    BY BoundAssumption DEF CreateTask, TypeOK, Times
  <1>2. <<p, TaskStart(p, w)>> \in Pids \X Times
    BY TaskStartType
  <1>3. forker' \in [Pids -> [pid : Pids, start : Times, monitored : BOOLEAN]]
    <2>1. (~Ignored(p) /\ p # InitPid) \in BOOLEAN
      OBVIOUS
    <2>2. [pid |-> p, start |-> start_time[p], monitored |-> ~Ignored(p) /\ p # InitPid]
             \in [pid : Pids, start : Times, monitored : BOOLEAN]
      BY <2>1 DEF TypeOK
    <2> QED BY <2>2 DEF CreateTask, TypeOK
  <1>4. lineage' \in [Pids -> SUBSET {"related", "protected", "helper"}]
    BY DEF CreateTask, TypeOK
  <1>5. st' \in [Pids -> States]
    BY DEF CreateTask, TypeOK, States
  <1>6. mm' \in [Pids -> BOOLEAN]
    BY DEF CreateTask, TypeOK
  <1> QED BY <1>1, <1>2, <1>3, <1>4, <1>5, <1>6 DEF CreateTask, TypeOK

\* Every action keeps the types.
LEMMA NextType ==
  ASSUME TypeOK, [Next]_vars
  PROVE  TypeOK'
  <1>a. alive \in AliveT
    BY DEF TypeOK, AliveT
  <1>1. ASSUME NEW p \in Pids, NEW w \in Workers, SyscallEnter(p, w)
        PROVE  TypeOK'
    BY <1>1 DEF SyscallEnter, TypeOK
  <1>2. ASSUME NEW p \in Pids, NEW w \in Workers, BprmCredsForExec(p, w)
        PROVE  TypeOK'
    <2>1. alive' \in AliveT
      BY <1>a, <1>2, LookupType DEF BprmCredsForExec
    <2> QED BY <1>2, <2>1 DEF BprmCredsForExec, TypeOK, AliveT
  <1>3. ASSUME NEW p \in Pids, NEW w \in Workers, NEW c \in Pids, NEW ok \in Reserve,
               Fork(p, w, c, ok)
        PROVE  TypeOK'
    <2> DEFINE child == [ pid |-> c, start |-> clock + 1, ppid |-> p,
                 unique_ppid |-> build_process_unique_id(p, TaskStart(p, w)),
                 image |-> image[p], inc |-> clock + 1, remote |-> FALSE ]
               cached == fill_event_process_from_cache(alive, p, w)
    <2>1. CreateTask(p, w, c, FALSE)
      BY <1>3 DEF Fork
    <2>2. clock + 1 \in Times
      BY <2>1, BoundAssumption DEF CreateTask, TypeOK, Times
    <2>3. child \in ProcessT
      <3>1. build_process_unique_id(p, TaskStart(p, w))
              \in {build_process_unique_id(q, t) : q \in Pids, t \in Times}
        BY TaskStartType
      <3>2. image[p] \in Images
        BY DEF TypeOK
      <3>3. FALSE \in BOOLEAN
        OBVIOUS
      <3> QED BY <2>2, <3>1, <3>2, <3>3 DEF ProcessT
    <2>4. cached \in AliveT
      BY <1>a, LookupType
    <2>5. alive' \in AliveT
      <3> HIDE DEF child, cached
      <3>1. alive' = [cached EXCEPT ![c] = child] \/ alive' = alive
        BY <1>3 DEF Fork, child, cached
      <3> QED BY <1>a, <2>3, <2>4, <3>1 DEF AliveT
    <2>6. /\ protected' \subseteq Pids /\ related' \subseteq Pids
          /\ UNCHANGED <<hooks, dead, exec_pids, kthread_exec_pids, to_kill>>
      BY <1>3 DEF Fork, TypeOK
    <2> HIDE DEF child, cached
    <2> QED BY <2>1, <2>5, <2>6, CreateType DEF TypeOK, AliveT
  <1>4. ASSUME NEW p \in Pids, NEW w \in Workers, NEW ok \in Reserve, NEW a \in Verdicts,
               ExecHook(p, w, ok, a)
        PROVE  TypeOK'
    <2> DEFINE h == HookOf(p, w, "exec", alive[p], a, NoTarget)
    <2>1. alive[p] \in ProcessT
      BY <1>4 DEF ExecHook, TypeOK
    <2>2. h \in HookT
      BY <2>1, HookOfType, NoTargetType
    <2>3. fill_event_parent_process_from_cache(h, alive)
      BY <1>4 DEF ExecHook
    <2> HIDE DEF h
    <2>4. /\ alive' \in AliveT /\ dead' \subseteq ProcessT /\ exec_pids' \subseteq Pids
          /\ sigkill' \subseteq Pids /\ hooks' \subseteq HookT
      BY <1>a, <2>2, <2>3, ParentLookupType
    <2> QED BY <1>4, <2>4 DEF ExecHook, TypeOK, AliveT
  <1>5. ASSUME NEW p \in Pids, NEW w \in Workers, NEW ok \in Reserve, NEW a \in Verdicts,
               MonitoredHook(p, w, ok, a)
        PROVE  TypeOK'
    <2> DEFINE al == fill_event_process_from_cache(alive, p, w)
               h == HookOf(p, w, "other", al[p], a, NoTarget)
    <2>1. al \in AliveT /\ al[p] \in ProcessT
      BY <1>a, LookupType
    <2>2. h \in HookT
      <3> HIDE DEF al
      <3> QED BY <2>1, HookOfType, NoTargetType
    <2>3. fill_event_parent_process_from_cache(h, al)
      BY <1>5 DEF MonitoredHook
    <2> HIDE DEF h, al
    <2>4. /\ alive' \in AliveT /\ dead' \subseteq ProcessT /\ exec_pids' \subseteq Pids
          /\ sigkill' \subseteq Pids /\ hooks' \subseteq HookT
      BY <2>1, <2>2, <2>3, ParentLookupType
    <2> QED BY <1>5, <2>4 DEF MonitoredHook, TypeOK, AliveT
  <1>6. ASSUME NEW p \in Pids, NEW w \in Workers, NEW q \in Pids, NEW ok \in Reserve,
               NEW a \in Verdicts, SignalHook(p, w, q, ok, a)
        PROVE  TypeOK'
    <2> DEFINE al == fill_event_process_from_cache(alive, p, w)
               t == <<q, start_time[q]>>
               h == HookOf(p, w, "signal", al[p], a, t)
    <2>1. al \in AliveT /\ al[p] \in ProcessT
      BY <1>a, LookupType
    <2>2. h \in HookT
      <3>1. t \in Pids \X Times
        BY DEF TypeOK
      <3> HIDE DEF al, t
      <3> QED BY <2>1, <3>1, HookOfType
    <2>3. fill_event_parent_process_from_cache(h, al)
      BY <1>6 DEF SignalHook
    <2> HIDE DEF h, al
    <2>4. /\ alive' \in AliveT /\ dead' \subseteq ProcessT /\ exec_pids' \subseteq Pids
          /\ sigkill' \subseteq Pids /\ hooks' \subseteq HookT
      BY <2>1, <2>2, <2>3, ParentLookupType
    <2> QED BY <1>6, <2>4 DEF SignalHook, TypeOK, AliveT
  <1>7. ASSUME NEW c \in Pids, SpawnHelper(c)
        PROVE  TypeOK'
    <2>1. CreateTask(InitPid, "leader", c, TRUE) /\ "leader" \in Workers
      BY <1>7 DEF SpawnHelper, Workers
    <2> QED BY <1>7, <2>1, CreateType, PidAssumption DEF SpawnHelper, maps, TypeOK
  <1>8. ASSUME NEW p \in Pids, NewThread(p)
        PROVE  TypeOK'
    <2>1. clock + 1 \in Times
      BY <1>8, BoundAssumption DEF NewThread, TypeOK, Times
    <2> QED BY <1>8, <2>1 DEF NewThread, maps, TypeOK
  <1>9. ASSUME NEW p \in Pids, ExecFails(p)
        PROVE  TypeOK'
    BY <1>9 DEF ExecFails, maps, TypeOK
  <1>10. ASSUME NEW p \in Pids, NEW img \in Images, BprmCommittedCreds(p, img)
         PROVE  TypeOK'
    <2>1. 0 \in Times
      BY BoundAssumption DEF Times
    <2>2. real_parent' \in [Pids -> Pids \X Times]
      BY <1>10 DEF BprmCommittedCreds, TypeOK
    <2>3. st' \in [Pids -> States]
      BY <1>10 DEF BprmCommittedCreds, TypeOK, States
    <2> QED BY <1>10, <2>1, <2>2, <2>3 DEF BprmCommittedCreds, TypeOK
  <1>11. ASSUME NEW p \in Pids, NEW ok \in Reserve, ExitHook(p, ok)
         PROVE  TypeOK'
    <2> DEFINE al == fill_event_process_from_cache(alive, p, "leader")
               h == HookOf(p, "leader", "exit", al[p], "ALLOW_EVENT", NoTarget)
    <2>1. al \in AliveT /\ al[p] \in ProcessT /\ "leader" \in Workers
      BY <1>a, LookupType DEF Workers
    <2>2. h \in HookT
      <3> HIDE DEF al
      <3> QED BY <2>1, HookOfType, NoTargetType
    <2>3. \/ fill_event_parent_process_from_cache(h, al)
          \/ UNCHANGED <<hooks, alive, dead, exec_pids, sigkill>>
      BY <1>11 DEF ExitHook
    <2>4. st' \in [Pids -> States]
      BY <1>11 DEF ExitHook, TypeOK, States
    <2> HIDE DEF h, al
    <2>5. /\ alive' \in AliveT /\ dead' \subseteq ProcessT /\ exec_pids' \subseteq Pids
          /\ sigkill' \subseteq Pids /\ hooks' \subseteq HookT
      BY <1>a, <2>1, <2>2, <2>3, ParentLookupType DEF TypeOK
    <2>6. /\ kthread_exec_pids' \subseteq Pids /\ protected' \subseteq Pids
          /\ related' \subseteq Pids
      BY <1>11 DEF ExitHook, DropKthreadExec, DropProtected, DropRelated, TypeOK
    <2>7. UNCHANGED <<clock, start_time, thr, real_parent, image, mm, execing,
                     forker, lineage, to_kill>>
      BY <1>11 DEF ExitHook
    <2> QED BY <2>4, <2>5, <2>6, <2>7 DEF TypeOK, AliveT
  <1>12. ASSUME NEW p \in Pids, ExitHookDelete(p)
         PROVE  TypeOK'
    <2>1. st' \in [Pids -> States]
      BY <1>12 DEF ExitHookDelete, TypeOK, States
    <2> QED BY <1>12, <2>1 DEF ExitHookDelete, TypeOK
  <1>13. ASSUME NEW p \in Pids, ThreadExit(p)
         PROVE  TypeOK'
    <2>1. 0 \in Times
      BY BoundAssumption DEF Times
    <2>2. real_parent' \in [Pids -> Pids \X Times]
      BY <1>13 DEF ThreadExit, TypeOK
    <2>3. st' \in [Pids -> States]
      BY <1>13 DEF ThreadExit, TypeOK, States
    <2> QED BY <1>13, <2>1, <2>2, <2>3 DEF ThreadExit, maps, TypeOK
  <1>14. ASSUME NEW p \in Pids, Release(p)
         PROVE  TypeOK'
    <2>1. 0 \in Times
      BY BoundAssumption DEF Times
    <2>2. real_parent' \in [Pids -> Pids \X Times]
      BY <1>14, <2>1, PidAssumption DEF Release, TypeOK
    <2>3. st' \in [Pids -> States]
      BY <1>14 DEF Release, TypeOK, States
    <2>4. NoForker \in [pid : Pids, start : Times, monitored : BOOLEAN]
      BY <2>1, PidAssumption DEF NoForker
    <2> QED BY <1>14, <2>1, <2>2, <2>3, <2>4, ImageAssumption DEF Release, maps, TypeOK
  <1>15. ASSUME NEW e \in dead, Evict(e)
         PROVE  TypeOK'
    BY <1>15 DEF Evict, tasks, TypeOK
  <1>16. ASSUME NEW h \in hooks, FillRemote(h)
         PROVE  TypeOK'
    <2>1. h \in HookT
      BY DEF TypeOK
    <2> DEFINE t == IF h.op = "parent" THEN real_parent[h.pid] ELSE h.target
    <2>2. t \in Pids \X Times
      BY <2>1 DEF HookT, TypeOK
    <2>3. PICK new \in Fills(t) : hooks' = (hooks \ {h}) \cup
            (IF h.op = "target" /\ new = Null THEN {}
             ELSE {[h EXCEPT !.op = "write", !.entry = new,
                             !.target = IF h.op = "target" THEN NoTarget ELSE @]})
      BY <1>16 DEF FillRemote
    <2> HIDE DEF t
    <2>4. new \in ProcessT \cup {Null}
      BY <2>2, FillsType
    <2>5. [h EXCEPT !.op = "write", !.entry = new,
                    !.target = IF h.op = "target" THEN NoTarget ELSE @] \in HookT
      BY <2>1, <2>4, NoTargetType DEF HookT
    <2>6. hooks' \subseteq HookT
      BY <2>3, <2>5 DEF TypeOK
    <2> QED BY <1>16, <2>6 DEF FillRemote, tasks, maps, TypeOK
  <1>17. ASSUME NEW h \in hooks, WriteRemote(h)
         PROVE  TypeOK'
    <2> DEFINE al == IF h.entry = Null THEN alive ELSE [alive EXCEPT ![h.entry.pid] = h.entry]
    <2>1. h \in HookT /\ hooks \ {h} \in SUBSET HookT
      BY DEF TypeOK
    <2>2. al \in AliveT
      <3>1. h.entry \in ProcessT \cup {Null}
        BY <2>1 DEF HookT
      <3> QED BY <1>a, <3>1 DEF AliveT
    <2>3. Rest(h, al, hooks \ {h})
      BY <1>17 DEF WriteRemote
    <2> HIDE DEF al
    <2>4. /\ alive' \in AliveT /\ dead' \subseteq ProcessT /\ exec_pids' \subseteq Pids
          /\ sigkill' \subseteq Pids /\ hooks' \subseteq HookT
      BY <2>1, <2>2, <2>3, RestType
    <2> QED BY <1>17, <2>4 DEF WriteRemote, TypeOK, AliveT
  <1>18. ASSUME NEW h \in hooks, MarkParent(h)
         PROVE  TypeOK'
    <2>1. h.e.ppid \in Pids
      BY DEF TypeOK, HookT, ProcessT
    <2>2. <<h.e.ppid, start_time[h.e.ppid]>> \in Pids \X Times
      BY <2>1 DEF TypeOK
    <2>3. to_kill' \subseteq Pids \X Times /\ hooks' \subseteq HookT
      BY <1>18, <2>2 DEF MarkParent, TypeOK
    <2> QED BY <1>18, <2>3 DEF MarkParent, tasks, TypeOK
  <1>19. CASE UNCHANGED vars
    BY <1>19 DEF vars, tasks, maps, TypeOK
  <1> QED BY <1>1, <1>2, <1>3, <1>4, <1>5, <1>6, <1>7, <1>8, <1>9, <1>10, <1>11,
             <1>12, <1>13, <1>14, <1>15, <1>16, <1>17, <1>18, <1>19 DEF Next, Step, Actions

\* The task table and the maps are always well typed.
THEOREM TypeCorrect == Spec => []TypeOK
  BY InitType, NextType, PTL DEF Spec

-----------------------------------------------------------------------------
\* The pid sets follow the lineages, for processes without a second thread.

SingleThreaded ==
  \A p \in Pids : thr[p] = 0 /\ execing[p] # "thread" /\ st[p] # "headless"

\* Only helpers start without an mm, and they are no one's descendants.
LineageShape ==
  \A p \in Pids :
    /\ "helper" \in lineage[p] => lineage[p] = {"helper"}
    /\ st[p] = "run" /\ ~mm[p] => "helper" \in lineage[p]

InitIsSystem ==
  st[InitPid] = "run" /\ lineage[InitPid] = {} /\ InitPid \notin kthread_exec_pids

LineageInv ==
  /\ TypeOK /\ SingleThreaded /\ LineageShape /\ InitIsSystem
  /\ ProtectedIsExact /\ RelatedIsExact /\ KthreadExecIsExact

\* A task that runs user code does so through its leader.
LEMMA OnlyLeader ==
  ASSUME SingleThreaded, NEW p \in Pids, NEW w \in Workers, Runs(p, w)
  PROVE  w = "leader" /\ st[p] = "run"
  BY DEF SingleThreaded, Runs

\* Descendants of protected and related processes are monitored processes for
\* the first test of every hook.
LEMMA LineageIsUserspace ==
  ASSUME LineageInv, NEW p \in Pids, st[p] = "run",
         "protected" \in lineage[p] \/ "related" \in lineage[p]
  PROVE  is_userspace_program(p, "leader")
  BY DEF LineageInv, LineageShape, InitIsSystem, KthreadExecIsExact,
         is_userspace_program

\* Loading the sets establishes the invariant.
LEMMA InitLineage == Init => LineageInv
  <1> SUFFICES ASSUME Init PROVE LineageInv
    OBVIOUS
  <1>1. TypeOK
    BY InitType
  <1>2. SingleThreaded /\ LineageShape /\ InitIsSystem
    BY PidAssumption, SetupFacts DEF Init, SingleThreaded, LineageShape, InitIsSystem, Running
  <1>3. ProtectedIsExact /\ RelatedIsExact /\ KthreadExecIsExact
    BY PidAssumption, SetupFacts DEF Init, ProtectedIsExact, RelatedIsExact,
                         KthreadExecIsExact, Running
  <1> QED BY <1>1, <1>2, <1>3 DEF LineageInv

\* Without a second thread every action keeps the invariant.
LEMMA NextLineage ==
  ASSUME NoThreads, LineageInv, [Next]_vars
  PROVE  LineageInv'
  <1>t. TypeOK' /\ TypeOK
    BY NextType DEF LineageInv
  <1> DEFINE SetsUnchanged == UNCHANGED <<st, thr, lineage, mm, execing, related,
                                          protected, kthread_exec_pids>>
  <1>a. SetsUnchanged => LineageInv'
    BY <1>t DEF LineageInv, SingleThreaded, LineageShape, InitIsSystem,
                ProtectedIsExact, RelatedIsExact, KthreadExecIsExact
  <1>1. ASSUME NEW p \in Pids, NEW w \in Workers, SyscallEnter(p, w)
        PROVE  LineageInv'
    BY <1>a, <1>1 DEF SyscallEnter
  <1>2. ASSUME NEW p \in Pids, NEW w \in Workers, BprmCredsForExec(p, w)
        PROVE  LineageInv'
    <2>1. w = "leader" /\ st[p] = "run"
      BY <1>2, OnlyLeader DEF BprmCredsForExec, LineageInv
    <2>2. SingleThreaded'
      BY <1>2, <1>t, <2>1 DEF BprmCredsForExec, LineageInv, SingleThreaded, TypeOK
    <2>3. KthreadExecIsExact'
      BY <1>2, <2>1 DEF BprmCredsForExec, LineageInv, KthreadExecIsExact, LineageShape
    <2>4. InitIsSystem'
      BY <1>2 DEF BprmCredsForExec, LineageInv, InitIsSystem
    <2> QED BY <1>2, <1>t, <2>2, <2>3, <2>4
            DEF BprmCredsForExec, LineageInv, LineageShape, ProtectedIsExact,
                RelatedIsExact
  <1>3. ASSUME NEW p \in Pids, NEW w \in Workers, NEW c \in Pids, NEW ok \in Reserve,
               Fork(p, w, c, ok)
        PROVE  LineageInv'
    <2>1. /\ w = "leader" /\ st[p] = "run" /\ mm[p] /\ st[c] = "free"
          /\ st' = [st EXCEPT ![c] = "run"]
          /\ lineage' = [lineage EXCEPT ![c] = lineage[p] \ {"helper"}]
          /\ mm' = [mm EXCEPT ![c] = TRUE]
          /\ UNCHANGED <<thr, execing, kthread_exec_pids>>
      BY <1>3, OnlyLeader DEF Fork, CreateTask, LineageInv
    <2>2. /\ "protected" \in lineage[p] => is_userspace_program(p, w)
          /\ "related" \in lineage[p] => is_userspace_program(p, w)
      BY <2>1, LineageIsUserspace
    <2>3. ProtectedIsExact'
      BY <1>3, <1>t, <2>1, <2>2 DEF Fork, LineageInv, ProtectedIsExact, TypeOK
    <2>4. RelatedIsExact'
      BY <1>3, <1>t, <2>1, <2>2 DEF Fork, LineageInv, RelatedIsExact, TypeOK
    <2>5. SingleThreaded' /\ LineageShape' /\ InitIsSystem'
      BY <1>t, <2>1, PidAssumption
      DEF LineageInv, SingleThreaded, LineageShape, InitIsSystem, TypeOK
    <2>6. KthreadExecIsExact'
      BY <1>t, <2>1 DEF LineageInv, KthreadExecIsExact, TypeOK
    <2> QED BY <1>t, <2>3, <2>4, <2>5, <2>6 DEF LineageInv
  <1>4. ASSUME NEW p \in Pids, NEW w \in Workers, NEW ok \in Reserve, NEW a \in Verdicts,
               ExecHook(p, w, ok, a)
        PROVE  LineageInv'
    BY <1>a, <1>4 DEF ExecHook
  <1>5. ASSUME NEW p \in Pids, NEW w \in Workers, NEW ok \in Reserve, NEW a \in Verdicts,
               MonitoredHook(p, w, ok, a)
        PROVE  LineageInv'
    BY <1>a, <1>5 DEF MonitoredHook
  <1>6. ASSUME NEW p \in Pids, NEW w \in Workers, NEW q \in Pids, NEW ok \in Reserve,
               NEW a \in Verdicts, SignalHook(p, w, q, ok, a)
        PROVE  LineageInv'
    BY <1>a, <1>6 DEF SignalHook
  <1>7. ASSUME NEW c \in Pids, SpawnHelper(c)
        PROVE  LineageInv'
    <2>1. /\ st[c] = "free" /\ st' = [st EXCEPT ![c] = "run"]
          /\ lineage' = [lineage EXCEPT ![c] = {"helper"}]
          /\ mm' = [mm EXCEPT ![c] = FALSE]
          /\ UNCHANGED <<thr, execing, kthread_exec_pids, related, protected>>
      BY <1>7 DEF SpawnHelper, CreateTask, maps
    <2>2. SingleThreaded' /\ LineageShape' /\ InitIsSystem'
      BY <1>t, <2>1, PidAssumption
      DEF LineageInv, SingleThreaded, LineageShape, InitIsSystem, TypeOK
    <2>3. ProtectedIsExact' /\ RelatedIsExact' /\ KthreadExecIsExact'
      BY <1>t, <2>1
      DEF LineageInv, ProtectedIsExact, RelatedIsExact, KthreadExecIsExact, TypeOK
    <2> QED BY <1>t, <2>2, <2>3 DEF LineageInv
  <1>8. ASSUME NEW p \in Pids, NewThread(p)
        PROVE  LineageInv'
    BY <1>8 DEF NewThread, NoThreads
  <1>9. ASSUME NEW p \in Pids, ExecFails(p)
        PROVE  LineageInv'
    BY <1>9, <1>t DEF ExecFails, maps, LineageInv, SingleThreaded, LineageShape,
      InitIsSystem, ProtectedIsExact, RelatedIsExact, KthreadExecIsExact, TypeOK
  <1>10. ASSUME NEW p \in Pids, NEW img \in Images, BprmCommittedCreds(p, img)
         PROVE  LineageInv'
    <2>1. st[p] = "run" /\ st' = st
      BY <1>10, <1>t DEF BprmCommittedCreds, LineageInv, SingleThreaded, TypeOK
    <2>2. SingleThreaded' /\ LineageShape' /\ InitIsSystem'
      BY <1>10, <1>t, <2>1
      DEF BprmCommittedCreds, LineageInv, SingleThreaded, LineageShape, InitIsSystem, TypeOK
    <2> QED BY <1>10, <1>t, <2>1, <2>2
            DEF BprmCommittedCreds, LineageInv, ProtectedIsExact, RelatedIsExact,
                KthreadExecIsExact
  <1>11. ASSUME NEW p \in Pids, NEW ok \in Reserve, ExitHook(p, ok)
         PROVE  LineageInv'
    <2> DEFINE user == is_userspace_program(p, "leader")
    <2>1. /\ st[p] = "run" /\ p # InitPid
          /\ \E s \in {"exit_hook", "headless", "exiting"} : st' = [st EXCEPT ![p] = s]
          /\ UNCHANGED <<thr, execing, lineage, mm>>
      BY <1>11 DEF ExitHook
    <2>2. SingleThreaded' /\ LineageShape' /\ InitIsSystem'
      <3>1. st'[p] # "headless"
        BY <1>11, <1>t DEF ExitHook, LineageInv, SingleThreaded, TypeOK
      <3>2. kthread_exec_pids' \subseteq kthread_exec_pids
        BY <1>11 DEF ExitHook, DropKthreadExec
      <3> QED BY <1>t, <2>1, <3>1, <3>2
              DEF LineageInv, SingleThreaded, LineageShape, InitIsSystem, TypeOK
    <2>3. KthreadExecIsExact'
      <3>1. p \notin kthread_exec_pids'
        BY <1>11 DEF ExitHook, DropKthreadExec, is_userspace_program
      <3>2. kthread_exec_pids' \subseteq kthread_exec_pids
        BY <1>11 DEF ExitHook, DropKthreadExec
      <3> QED BY <1>t, <2>1, <3>1, <3>2 DEF LineageInv, KthreadExecIsExact, TypeOK
    <2>4. protected' = protected \ {p} /\ related' = related \ {p}
      <3>1. CASE user
        BY <1>11, <3>1 DEF ExitHook, DropProtected, DropRelated
      <3>2. CASE ~user
        <4>1. p \notin protected /\ p \notin related
          BY <2>1, <3>2, LineageIsUserspace DEF LineageInv, ProtectedIsExact,
                                                RelatedIsExact
        <4> QED BY <1>11, <3>2, <4>1 DEF ExitHook, DropProtected, DropRelated
      <3> QED BY <3>1, <3>2
    <2>5. ProtectedIsExact' /\ RelatedIsExact'
      BY <1>t, <2>1, <2>4 DEF LineageInv, ProtectedIsExact, RelatedIsExact, TypeOK
    <2> QED BY <1>t, <2>2, <2>3, <2>5 DEF LineageInv
  <1>12. ASSUME NEW p \in Pids, ExitHookDelete(p)
         PROVE  LineageInv'
    <2>1. /\ st[p] = "exit_hook" /\ st' = [st EXCEPT ![p] = "exiting"]
          /\ UNCHANGED <<thr, execing, lineage, mm, related, protected, kthread_exec_pids>>
      BY <1>12 DEF ExitHookDelete, LineageInv, SingleThreaded
    <2> QED BY <1>t, <2>1
            DEF LineageInv, SingleThreaded, LineageShape, InitIsSystem,
                ProtectedIsExact, RelatedIsExact, KthreadExecIsExact, TypeOK
  <1>13. ASSUME NEW p \in Pids, ThreadExit(p)
         PROVE  LineageInv'
    BY <1>13 DEF ThreadExit, LineageInv, SingleThreaded
  <1>14. ASSUME NEW p \in Pids, Release(p)
         PROVE  LineageInv'
    <2>1. /\ st[p] = "exiting" /\ st' = [st EXCEPT ![p] = "free"]
          /\ lineage' = [lineage EXCEPT ![p] = {}]
          /\ mm' = [mm EXCEPT ![p] = FALSE]
          /\ UNCHANGED <<thr, execing, related, protected, kthread_exec_pids>>
      BY <1>14 DEF Release, maps
    <2> QED BY <1>t, <2>1
            DEF LineageInv, SingleThreaded, LineageShape, InitIsSystem,
                ProtectedIsExact, RelatedIsExact, KthreadExecIsExact, TypeOK
  <1>15. ASSUME NEW e \in dead, Evict(e)
         PROVE  LineageInv'
    BY <1>a, <1>15 DEF Evict, tasks
  <1>16. ASSUME NEW h \in hooks, FillRemote(h) \/ WriteRemote(h) \/ MarkParent(h)
         PROVE  LineageInv'
    BY <1>a, <1>16 DEF FillRemote, WriteRemote, MarkParent, tasks, maps
  <1>17. CASE UNCHANGED vars
    BY <1>a, <1>17 DEF vars, tasks, maps
  <1> QED BY <1>1, <1>2, <1>3, <1>4, <1>5, <1>6, <1>7, <1>8, <1>9, <1>10, <1>11,
             <1>12, <1>13, <1>14, <1>15, <1>16, <1>17 DEF Next, Step, Actions

\* No step changes the system that owLSM is attached to.
LEMMA SetupKept == [Next]_vars => setup' = setup
  BY DEF Next, vars

LEMMA StepLineage ==
  ASSUME NoThreads => LineageInv, [Next]_vars
  PROVE  (NoThreads => LineageInv)'
  BY SetupKept, NextLineage DEF NoThreads, Env

\* For processes without a second thread, and whatever the ring buffer, the
\* LRU, kernel helpers and signals do: protected_processes is exactly the
\* running descendants of the processes it was loaded with.
THEOREM ProtectedCorrect == Spec => []ProtectedIsLineage
  <1>1. (NoThreads => LineageInv) => ProtectedIsLineage
    BY DEF LineageInv, ProtectedIsLineage
  <1> QED BY <1>1, InitLineage, StepLineage, PTL DEF Spec

\* Likewise program_related_pids: no recycled pid is exempt from monitoring.
THEOREM RelatedCorrect == Spec => []RelatedIsLineage
  <1>1. (NoThreads => LineageInv) => RelatedIsLineage
    BY DEF LineageInv, RelatedIsLineage
  <1> QED BY <1>1, InitLineage, StepLineage, PTL DEF Spec

\* Likewise kthread_exec_pids: it exempts running helpers only.
THEOREM KthreadExecCorrect == Spec => []KthreadExecIsHelper
  <1>1. (NoThreads => LineageInv) => KthreadExecIsHelper
    BY DEF LineageInv, KthreadExecIsHelper
  <1> QED BY <1>1, InitLineage, StepLineage, PTL DEF Spec

-----------------------------------------------------------------------------
\* The alive cache is exact, and a process is attributed to the one that forked
\* it, when nothing in the environment interferes.

\* The unique id of the task that is p's real_parent now.
ParentUid(p) == build_process_unique_id(real_parent[p][1], real_parent[p][2])

\* e may be cached for p: it is p's own, p has not passed exit_hook, and e's
\* parent is p's real_parent unless p has been handed to init.
EntryOK(p, e) ==
  /\ e.pid = p /\ e.start = start_time[p] /\ e.inc = start_time[p]
  /\ NotYetExited(p)
  /\ "related" \notin lineage[p]
  /\ \/ real_parent[p][1] = InitPid
     \/ e.ppid = real_parent[p][1] /\ e.unique_ppid = ParentUid(p)

CacheOK(al) == al \in AliveT /\ \A p \in Pids : al[p] # Null => EntryOK(p, al[p])

\* real_parent is an existing process, and relatedness passes to children.
ParentsExist ==
  \A p \in Pids : Exists(p) =>
    /\ Exists(real_parent[p][1])
    /\ real_parent[p][2] = start_time[real_parent[p][1]]
    /\ "related" \in lineage[real_parent[p][1]] => "related" \in lineage[p]

\* A monitored process that has passed exit_hook is in the dead LRU, unless
\* exit_hook is still reading its parent.
ExitedIsDead ==
  \A p \in Pids :
    st[p] \in {"exit_hook", "exiting"} /\ "related" \notin lineage[p] =>
      \/ \E h \in hooks : h.pid = p /\ h.hook = "exit"
      \/ \E e \in dead : UidOf(e) = build_process_unique_id(p, start_time[p])

NoHelpers ==
  /\ \A p \in Pids : Exists(p) => mm[p]
  /\ kthread_exec_pids = {}
  /\ real_parent[InitPid] = <<InitPid, 0>> /\ start_time[InitPid] = 0

\* p was forked after attach by a process that owLSM monitors.
Forked(p) == start_time[p] > 0 /\ forker[p].monitored

ForkerUid(p) == build_process_unique_id(forker[p].pid, forker[p].start)

\* An entry of p names its forker, or init if nobody monitored forked it.
OriginOK(p, e) ==
  IF Forked(p) THEN e.ppid = forker[p].pid /\ e.unique_ppid = ForkerUid(p)
  ELSE e.ppid = InitPid

CacheOrigin(al) == \A p \in Pids : al[p] # Null => OriginOK(p, al[p])

\* Hook h has the entry of its own process, which has not passed exit_hook.
HookCore(h) ==
  /\ h.w = "leader" /\ h.hook # "signal"
  /\ h.hook = "exit" => h.action = "ALLOW_EVENT"
  /\ EntryOK(h.pid, h.e) /\ OriginOK(h.pid, h.e)

\* A hook that looked its parent up in vain is that of a child of init, so that
\* what it writes late is the entry of a process that never exits.
HookOK(h) ==
  /\ HookCore(h) /\ h.op # "target"
  /\ h.hook = "exit" <=> st[h.pid] = "exit_hook"
  /\ h.op = "mark" => h.hook # "exit"
  /\ h.op # "mark" => real_parent[h.pid][1] = InitPid
  /\ h.op = "write" =>
       h.entry # Null /\ EntryOK(InitPid, h.entry) /\ OriginOK(InitPid, h.entry)

AliveInv ==
  /\ LineageInv /\ NoHelpers /\ ParentsExist /\ ExitedIsDead /\ CacheOK(alive)
  /\ \A h \in hooks : HookOK(h)

\* fork_hook has cached every forked process; the parent of the others is init,
\* so that reading the parent from the task later makes no difference.
TaskOrigin(p) ==
  /\ Forked(p) => forker[p].pid # InitPid
  /\ "helper" \notin lineage[p]
  /\ NotYetExited(p) /\ "related" \notin lineage[p] =>
       IF Forked(p) THEN alive[p] # Null ELSE real_parent[p][1] = InitPid

\* The forker of p is in one of the caches.
Findable(p) ==
  \/ \E e \in dead : UidOf(e) = ForkerUid(p)
  \/ /\ alive[forker[p].pid] # Null
     /\ UidOf(alive[forker[p].pid]) = ForkerUid(p)

OriginInv ==
  /\ \A p \in Pids : TaskOrigin(p)
  /\ CacheOrigin(alive)
  /\ \A p \in Pids : alive[p] # Null /\ Forked(p) => Findable(p)

\* al has at least the processes that the alive cache has.
Covers(al) == \A r \in Pids : alive[r] # Null => al[r] # Null

\* al is what look-ups may make of the alive cache.
Grown(al) == CacheOK(al) /\ CacheOrigin(al) /\ Covers(al)

\* The dead LRU forgets nobody.
DeadGrows == \A u : (\E e \in dead : UidOf(e) = u) => \E e \in dead' : UidOf(e) = u

\* g is what hook h leaves behind in this step.
LeftBy(g, h) ==
  /\ g \in HookT /\ HookCore(g) /\ g.pid = h.pid
  /\ g.hook = "exit" <=> h.hook = "exit"
  /\ \/ g.op = "parent" /\ real_parent[g.pid][1] = InitPid
     \/ g.op = "mark" /\ g.hook # "exit" /\ MayKillParent(alive', g.e)

\* Looking up a process that has not exited keeps the cache exact, with its
\* forker as parent.
LEMMA LookupOK ==
  ASSUME AliveInv, OriginInv, NEW p \in Pids, NotYetExited(p), "related" \notin lineage[p]
  PROVE  /\ Grown(fill_event_process_from_cache(alive, p, "leader"))
         /\ fill_event_process_from_cache(alive, p, "leader")[p] \in ProcessT
         /\ EntryOK(p, fill_event_process_from_cache(alive, p, "leader")[p])
         /\ OriginOK(p, fill_event_process_from_cache(alive, p, "leader")[p])
  <1> DEFINE new == fill_event_process_from_cache(alive, p, "leader")
             fill == fill_process_t(p, start_time[p])
  <1>1. TypeOK /\ alive \in AliveT /\ "leader" \in Workers
    BY DEF AliveInv, LineageInv, CacheOK, Workers
  <1>2. new \in AliveT /\ new[p] \in ProcessT
    BY <1>1, LookupType
  <1>3. EntryOK(p, fill)
    BY DEF EntryOK, fill_process_t, ParentUid
  <1>4. new = IF alive[p] # Null THEN alive ELSE [alive EXCEPT ![p] = fill]
    BY DEF fill_event_process_from_cache, TaskStart
  <1>5. alive[p] = Null => OriginOK(p, fill)
    BY DEF OriginInv, TaskOrigin, OriginOK, fill_process_t
  <1> HIDE DEF new, fill
  <1>6. new[p] # Null /\ \A r \in Pids : r # p => new[r] = alive[r]
    BY <1>1, <1>2, <1>4, NullAssumption DEF AliveT
  <1>7. EntryOK(p, new[p]) /\ OriginOK(p, new[p])
    <2>1. CASE alive[p] # Null
      BY <1>4, <2>1 DEF AliveInv, CacheOK, OriginInv, CacheOrigin
    <2>2. CASE alive[p] = Null
      BY <1>1, <1>3, <1>4, <1>5, <2>2 DEF AliveT
    <2> QED BY <2>1, <2>2
  <1>8. \A r \in Pids : new[r] # Null => EntryOK(r, new[r]) /\ OriginOK(r, new[r])
    <2> SUFFICES ASSUME NEW r \in Pids, new[r] # Null
                 PROVE  EntryOK(r, new[r]) /\ OriginOK(r, new[r])
      OBVIOUS
    <2>1. CASE r = p
      BY <1>7, <2>1
    <2>2. CASE r # p
      BY <1>6, <2>2 DEF AliveInv, CacheOK, OriginInv, CacheOrigin
    <2> QED BY <2>1, <2>2
  <1>9. Covers(new)
    BY <1>6 DEF Covers
  <1>10. Grown(new)
    BY <1>2, <1>8, <1>9 DEF Grown, CacheOK, CacheOrigin
  <1> QED BY <1>2, <1>7, <1>10 DEF new

\* A miss in both caches means that the process is a child of init: the forker
\* of every other is found.
LEMMA MissMeansInit ==
  ASSUME AliveInv, OriginInv, NEW al, Covers(al), NEW p \in Pids, NEW e,
         EntryOK(p, e), OriginOK(p, e),
         get_process_from_caches(al, e.ppid, e.unique_ppid) = Null
  PROVE  real_parent[p][1] = InitPid
  <1>1. NotYetExited(p) /\ "related" \notin lineage[p]
    BY DEF EntryOK
  <1>2. CASE ~Forked(p)
    BY <1>1, <1>2 DEF OriginInv, TaskOrigin
  <1>3. CASE Forked(p)
    <2>1. /\ e.ppid = forker[p].pid /\ e.unique_ppid = ForkerUid(p) /\ Findable(p)
          /\ forker[p].pid \in Pids
      BY <1>1, <1>3 DEF OriginOK, OriginInv, TaskOrigin, AliveInv, LineageInv, TypeOK
    <2>2. al[forker[p].pid] = Null
      BY <2>1 DEF get_process_from_caches
    <2>3. \E d \in dead : UidOf(d) = ForkerUid(p)
      BY <2>1, <2>2 DEF Findable, Covers
    <2> DEFINE hit == get_process_from_dead_proccesses_lru(e.unique_ppid)
    <2>4. hit \in dead
      BY <2>1, <2>3 DEF get_process_from_dead_proccesses_lru
    <2>5. hit # Null
      BY <2>4, NullAssumption DEF AliveInv, LineageInv, TypeOK
    <2> QED BY <2>1, <2>2, <2>5 DEF get_process_from_caches
  <1> QED BY <1>2, <1>3

LEMMA RememberKeeps ==
  ASSUME NEW e, dead' = add_process_to_dead_proccesses_lru(e)
  PROVE  DeadGrows /\ \E d \in dead' : UidOf(d) = UidOf(e)
  BY DEF add_process_to_dead_proccesses_lru, DeadGrows

\* The rest of a hook keeps the cache exact, too, and remembers its process if
\* it is exit_hook.
LEMMA RestOK ==
  ASSUME AliveInv, OriginInv, NEW h \in HookT, HookCore(h), NEW al, Grown(al),
         NEW others \in SUBSET hooks, Rest(h, al, others)
  PROVE  /\ Grown(alive') /\ DeadGrows /\ others \subseteq hooks'
         /\ \A g \in hooks' : g \in others \/ LeftBy(g, h)
         /\ h.hook = "exit" =>
              \E e \in dead' : UidOf(e) = build_process_unique_id(h.pid, start_time[h.pid])
         /\ h.hook # "exit" => dead' = dead
  <1>t. TypeOK /\ others \in SUBSET HookT
    BY DEF AliveInv, LineageInv, TypeOK
  <1>h. h.pid \in Pids /\ h.w \in Workers /\ h.e \in ProcessT /\ h.w = "leader"
    BY DEF HookT, HookCore
  <1>s. al \in AliveT
    BY DEF Grown, CacheOK
  <1>1. alive' \in AliveT /\ hooks' \subseteq HookT
    BY <1>t, <1>s, RestType
  <1>2. Grown(alive')
    <2>1. CASE h.hook # "exec"
      BY <2>1 DEF Rest
    <2>2. CASE h.hook = "exec"
      <3> DEFINE new == NewProcess(h.pid, h.w, h.e)
      <3>1. new \in ProcessT
        BY <1>t, <1>h, NewProcessType
      <3>2. EntryOK(h.pid, new)
        BY <1>h DEF HookCore, EntryOK, NewProcess, fill_process_t, TaskStart
      <3>3. OriginOK(h.pid, new)
        BY DEF HookCore, OriginOK, NewProcess
      <3>4. alive' = [al EXCEPT ![h.pid] = new]
        BY <2>2 DEF Rest
      <3> HIDE DEF new
      <3>5. alive'[h.pid] = new /\ \A r \in Pids : r # h.pid => alive'[r] = al[r]
        BY <1>h, <1>s, <3>4 DEF AliveT
      <3>6. new # Null
        BY <3>1, NullAssumption
      <3>7. \A r \in Pids : alive'[r] # Null => EntryOK(r, alive'[r]) /\ OriginOK(r, alive'[r])
        BY <3>2, <3>3, <3>5 DEF Grown, CacheOK, CacheOrigin
      <3> QED BY <1>1, <3>5, <3>6, <3>7 DEF Grown, CacheOK, CacheOrigin, Covers
    <2> QED BY <2>1, <2>2
  <1>3. DeadGrows /\ (h.hook # "exit" => dead' = dead)
    BY RememberKeeps DEF Rest, DeadGrows
  <1>4. h.hook = "exit" =>
          \E e \in dead' : UidOf(e) = build_process_unique_id(h.pid, start_time[h.pid])
    <2>1. UidOf(h.e) = build_process_unique_id(h.pid, start_time[h.pid])
      BY DEF HookCore, EntryOK, UidOf
    <2> QED BY <2>1, RememberKeeps DEF Rest
  <1>5. kill_proccesses([h EXCEPT !.target = NoTarget], alive', others)
    BY DEF Rest, HookCore
  <1>6. others \subseteq hooks'
    BY <1>5 DEF kill_proccesses
  <1>7. ASSUME NEW g \in hooks', g \notin others PROVE LeftBy(g, h)
    <2> DEFINE k == [h EXCEPT !.target = NoTarget]
    <2>1. /\ k.pid = h.pid /\ k.w = h.w /\ k.hook = h.hook /\ k.e = h.e
          /\ k.action = h.action /\ k \in HookT
      BY NoTargetType DEF HookT
    <2>2. /\ g = [k EXCEPT !.op = "mark", !.hook = "other", !.entry = Null]
          /\ k.action = "BLOCK_KILL_PROCESS_KILL_PARENT" /\ MayKillParent(alive', k.e)
      BY <1>5, <1>7 DEF kill_proccesses
    <2> HIDE DEF k
    <2>3. /\ g.pid = h.pid /\ g.w = h.w /\ g.hook = "other" /\ g.e = h.e /\ g.op = "mark"
      BY <2>1, <2>2 DEF HookT
    <2>4. h.hook # "exit"
      BY <2>1, <2>2 DEF HookCore
    <2>5. HookCore(g)
      BY <2>3 DEF HookCore
    <2> QED BY <1>1, <1>7, <2>1, <2>2, <2>3, <2>4, <2>5 DEF LeftBy
  <1> QED BY <1>2, <1>3, <1>4, <1>6, <1>7

\* So does the look-up of a parent, with all that follows, for a hook that
\* begins.
LEMMA ParentLookupOK ==
  ASSUME AliveInv, OriginInv, NEW h \in HookT, HookCore(h), h.op = "parent",
         NEW al, Grown(al), fill_event_parent_process_from_cache(h, al)
  PROVE  /\ Grown(alive') /\ DeadGrows /\ hooks \subseteq hooks'
         /\ \A g \in hooks' : g \in hooks \/ LeftBy(g, h)
         /\ h.hook = "exit" =>
              \/ \E g \in hooks' : g.pid = h.pid /\ g.hook = "exit"
              \/ \E e \in dead' : UidOf(e) = build_process_unique_id(h.pid, start_time[h.pid])
         /\ h.hook # "exit" => dead' = dead
  <1>1. CASE get_process_from_caches(al, h.e.ppid, h.e.unique_ppid) # Null
    <2>1. Rest(h, al, hooks) /\ hooks \in SUBSET hooks
      BY <1>1 DEF fill_event_parent_process_from_cache
    <2> QED BY <2>1, RestOK
  <1>2. CASE get_process_from_caches(al, h.e.ppid, h.e.unique_ppid) = Null
    <2>1. hooks' = hooks \cup {h} /\ alive' = al /\ dead' = dead
      BY <1>2 DEF fill_event_parent_process_from_cache
    <2>2. real_parent[h.pid][1] = InitPid
      <3>1. h.pid \in Pids
        BY DEF HookT
      <3> QED BY <1>2, <3>1, MissMeansInit DEF Grown, HookCore
    <2>3. LeftBy(h, h)
      BY <2>2 DEF LeftBy
    <2> QED BY <2>1, <2>3 DEF DeadGrows
  <1> QED BY <1>1, <1>2

\* What exec_hook and every other monitored hook do.
LEMMA RunningHook ==
  ASSUME Quiet, AliveInv, OriginInv, NEW p \in Pids, NEW w \in Workers, NEW ok \in Reserve,
         NEW a \in Verdicts, ExecHook(p, w, ok, a) \/ MonitoredHook(p, w, ok, a)
  PROVE  /\ Grown(alive') /\ dead' = dead /\ hooks \subseteq hooks'
         /\ \A g \in hooks' : g \in hooks \/
              \E h \in HookT : LeftBy(g, h) /\ h.hook # "exit" /\ st[h.pid] = "run"
  <1>t. TypeOK /\ LineageInv /\ SingleThreaded
    BY DEF AliveInv, LineageInv
  <1>w. w = "leader" /\ st[p] = "run" /\ NotYetExited(p)
    BY <1>t, OnlyLeader DEF ExecHook, MonitoredHook, NotYetExited
  <1>1. CASE ExecHook(p, w, ok, a)
    <2> DEFINE h == HookOf(p, w, "exec", alive[p], a, NoTarget)
    <2>1. alive[p] \in ProcessT /\ alive[p] # Null
      BY <1>1, <1>t DEF ExecHook, TypeOK
    <2>2. h \in HookT
      BY <1>t, <2>1, HookOfType, NoTargetType
    <2>3. /\ h.op = "parent" /\ h.hook = "exec" /\ h.w = w /\ h.pid = p /\ h.e = alive[p]
      BY DEF HookOf
    <2>4. fill_event_parent_process_from_cache(h, alive)
      BY <1>1 DEF ExecHook
    <2> HIDE DEF h
    <2>5. HookCore(h)
      BY <1>w, <2>1, <2>3 DEF HookCore, AliveInv, CacheOK, OriginInv, CacheOrigin
    <2>6. Grown(alive)
      BY DEF Grown, AliveInv, OriginInv, Covers
    <2>7. /\ Grown(alive') /\ dead' = dead /\ hooks \subseteq hooks'
          /\ \A g \in hooks' : g \in hooks \/ LeftBy(g, h)
      BY <2>2, <2>3, <2>4, <2>5, <2>6, ParentLookupOK
    <2> QED BY <1>w, <2>2, <2>3, <2>7
  <1>2. CASE MonitoredHook(p, w, ok, a)
    <2> DEFINE al == fill_event_process_from_cache(alive, p, "leader")
               h == HookOf(p, w, "other", al[p], a, NoTarget)
    <2>0. "related" \notin lineage[p]
      BY <1>2, <1>t, <1>w DEF MonitoredHook, LineageInv, RelatedIsExact
    <2>1. Grown(al) /\ al[p] \in ProcessT /\ EntryOK(p, al[p]) /\ OriginOK(p, al[p])
      BY <1>w, <2>0, LookupOK
    <2>2. fill_event_parent_process_from_cache(h, al)
      BY <1>2, <1>w DEF MonitoredHook
    <2> HIDE DEF al
    <2>3. h \in HookT
      BY <1>t, <2>1, HookOfType, NoTargetType
    <2>4. /\ h.op = "parent" /\ h.hook = "other" /\ h.w = w /\ h.pid = p /\ h.e = al[p]
      BY DEF HookOf
    <2> HIDE DEF h
    <2>5. HookCore(h)
      BY <1>w, <2>1, <2>4 DEF HookCore
    <2>6. /\ Grown(alive') /\ dead' = dead /\ hooks \subseteq hooks'
          /\ \A g \in hooks' : g \in hooks \/ LeftBy(g, h)
      BY <2>1, <2>2, <2>3, <2>4, <2>5, ParentLookupOK
    <2> QED BY <1>w, <2>3, <2>4, <2>6
  <1> QED BY <1>1, <1>2

\* What exit_hook of a monitored process does.
LEMMA ExitingHook ==
  ASSUME Quiet, AliveInv, OriginInv, NEW p \in Pids, NEW ok \in Reserve, ExitHook(p, ok),
         p \notin related
  PROVE  /\ Grown(alive') /\ DeadGrows /\ hooks \subseteq hooks'
         /\ st' = [st EXCEPT ![p] = "exit_hook"]
         /\ \A g \in hooks' : g \in hooks \/
              /\ g \in HookT /\ g.pid = p /\ g.hook = "exit" /\ HookCore(g)
              /\ g.op = "parent" /\ real_parent[p][1] = InitPid
         /\ \/ \E g \in hooks' : g.pid = p /\ g.hook = "exit"
            \/ \E e \in dead' : UidOf(e) = build_process_unique_id(p, start_time[p])
  <1>t. TypeOK /\ LineageInv /\ SingleThreaded /\ "leader" \in Workers
    BY DEF AliveInv, LineageInv, Workers
  <1>w. /\ st[p] = "run" /\ p # InitPid /\ NotYetExited(p) /\ "related" \notin lineage[p]
        /\ is_userspace_program(p, "leader") /\ ok
    BY <1>t DEF ExitHook, NotYetExited, LineageInv, RelatedIsExact, AliveInv, NoHelpers,
                is_userspace_program, Exists, Quiet, Reserve
  <1> DEFINE al == fill_event_process_from_cache(alive, p, "leader")
             h == HookOf(p, "leader", "exit", al[p], "ALLOW_EVENT", NoTarget)
  <1>1. Grown(al) /\ al[p] \in ProcessT /\ EntryOK(p, al[p]) /\ OriginOK(p, al[p])
    BY <1>w, LookupOK
  <1>2. fill_event_parent_process_from_cache(h, al) /\ st' = [st EXCEPT ![p] = "exit_hook"]
    BY <1>w DEF ExitHook
  <1> HIDE DEF al
  <1>3. h \in HookT
    BY <1>t, <1>1, HookOfType, NoTargetType
  <1>4. /\ h.op = "parent" /\ h.hook = "exit" /\ h.w = "leader" /\ h.pid = p /\ h.e = al[p]
        /\ h.action = "ALLOW_EVENT"
    BY DEF HookOf
  <1> HIDE DEF h
  <1>5. HookCore(h)
    BY <1>1, <1>4 DEF HookCore
  <1>6. /\ Grown(alive') /\ DeadGrows /\ hooks \subseteq hooks'
        /\ \A g \in hooks' : g \in hooks \/ LeftBy(g, h)
        /\ \/ \E g \in hooks' : g.pid = p /\ g.hook = "exit"
           \/ \E e \in dead' : UidOf(e) = build_process_unique_id(p, start_time[p])
    BY <1>1, <1>2, <1>3, <1>4, <1>5, ParentLookupOK
  <1> QED BY <1>2, <1>4, <1>6 DEF LeftBy

\* What a hook reads of init is its entry.
LEMMA InitEntry ==
  ASSUME AliveInv, NEW h \in HookT, HookOK(h), h.op = "parent",
         NEW new \in Fills(real_parent[h.pid])
  PROVE  new # Null /\ new.pid = InitPid /\ EntryOK(InitPid, new) /\ OriginOK(InitPid, new)
  <1>1. /\ real_parent[h.pid][1] = InitPid /\ real_parent[h.pid][2] = 0
        /\ InitPid \in Pids /\ st[InitPid] = "run" /\ lineage[InitPid] = {}
        /\ start_time[InitPid] = 0 /\ real_parent[InitPid][1] = InitPid /\ mm[InitPid]
        /\ Exists(InitPid)
    BY PidAssumption DEF HookOK, HookCore, EntryOK, AliveInv, LineageInv, InitIsSystem,
                         NoHelpers, ParentsExist, NotYetExited, Exists, HookT
  <1>2. new = [fill_process_t(InitPid, 0) EXCEPT !.remote = TRUE]
    BY <1>1 DEF Fills
  <1>3. fill_process_t(InitPid, 0) \in ProcessT /\ 0 \in Times
    BY <1>1, FillType, BoundAssumption DEF AliveInv, LineageInv, Times
  <1>4. /\ new.pid = InitPid /\ new.start = 0 /\ new.inc = 0 /\ new.ppid = InitPid
    BY <1>1, <1>2 DEF fill_process_t
  <1>5. new # Null
    <2>1. Null \notin ProcessT /\ new \in ProcessT \cup {Null} /\ new \in ProcessT
      <3>1. TRUE \in BOOLEAN
        OBVIOUS
      <3>2. ASSUME NEW f \in ProcessT, NEW b \in BOOLEAN
            PROVE  [f EXCEPT !.remote = b] \in ProcessT
        BY DEF ProcessT
      <3>3. [fill_process_t(InitPid, 0) EXCEPT !.remote = TRUE] \in ProcessT
        BY <1>3, <3>1, <3>2, Zenon
      <3> QED BY <1>2, <3>3, NullAssumption
    <2> QED BY <2>1
  <1>6. EntryOK(InitPid, new)
    BY <1>1, <1>4 DEF EntryOK, NotYetExited
  <1>7. OriginOK(InitPid, new)
    BY <1>1, <1>4 DEF OriginOK, Forked
  <1> QED BY <1>4, <1>5, <1>6, <1>7

\* What a late write does: it is the entry of init, and the hook goes on.
LEMMA LateWrite ==
  ASSUME AliveInv, OriginInv, NEW h \in hooks, WriteRemote(h)
  PROVE  /\ Grown(alive') /\ DeadGrows /\ hooks \ {h} \subseteq hooks'
         /\ \A g \in hooks' : g \in hooks \ {h} \/ LeftBy(g, h)
         /\ h.hook = "exit" =>
              \E e \in dead' : UidOf(e) = build_process_unique_id(h.pid, start_time[h.pid])
  <1> DEFINE al == IF h.entry = Null THEN alive ELSE [alive EXCEPT ![h.entry.pid] = h.entry]
  <1>1. h \in HookT /\ HookOK(h) /\ HookCore(h) /\ h.op = "write"
    BY DEF AliveInv, LineageInv, TypeOK, HookOK, WriteRemote
  <1>2. /\ h.entry # Null /\ h.entry \in ProcessT /\ h.entry.pid = InitPid
        /\ EntryOK(InitPid, h.entry) /\ OriginOK(InitPid, h.entry)
    BY <1>1 DEF HookOK, EntryOK, HookT
  <1>3. al = [alive EXCEPT ![InitPid] = h.entry] /\ alive \in AliveT
    BY <1>2 DEF AliveInv, CacheOK
  <1>4. Rest(h, al, hooks \ {h})
    BY DEF WriteRemote
  <1> HIDE DEF al
  <1>5. /\ al \in AliveT /\ al[InitPid] = h.entry
        /\ \A r \in Pids : r # InitPid => al[r] = alive[r]
    BY <1>2, <1>3, PidAssumption DEF AliveT
  <1>6. \A r \in Pids : al[r] # Null => EntryOK(r, al[r]) /\ OriginOK(r, al[r])
    BY <1>2, <1>5 DEF AliveInv, CacheOK, OriginInv, CacheOrigin
  <1>7. Grown(al)
    BY <1>2, <1>5, <1>6 DEF Grown, CacheOK, CacheOrigin, Covers
  <1>8. hooks \ {h} \in SUBSET hooks
    OBVIOUS
  <1> QED BY <1>1, <1>4, <1>7, <1>8, RestOK

\* A hook is not disturbed by steps that leave its process and init alone.
LEMMA HookFrame ==
  ASSUME NEW h \in HookT, HookOK(h), TypeOK',
         \A q \in {h.pid, InitPid} :
           /\ st'[q] = st[q] /\ start_time'[q] = start_time[q] /\ lineage'[q] = lineage[q]
           /\ forker'[q] = forker[q]
           /\ real_parent'[q] = real_parent[q] \/ real_parent'[q][1] = InitPid
  PROVE  HookOK(h)'
  <1>1. ASSUME NEW q \in {h.pid, InitPid}, NEW e
        PROVE  /\ EntryOK(q, e) => EntryOK(q, e)'
               /\ OriginOK(q, e) => OriginOK(q, e)'
    <2>1. EntryOK(q, e) => EntryOK(q, e)'
      BY DEF EntryOK, NotYetExited, ParentUid, build_process_unique_id
    <2>2. Forked(q)' = Forked(q) /\ ForkerUid(q)' = ForkerUid(q)
      BY DEF Forked, ForkerUid, build_process_unique_id
    <2>3. OriginOK(q, e) => OriginOK(q, e)'
      BY <2>2 DEF OriginOK
    <2> QED BY <2>1, <2>3
  <1>2. HookCore(h)'
    BY <1>1 DEF HookOK, HookCore
  <1> QED BY <1>1, <1>2 DEF HookOK

\* The caches start empty, and every process is a child of init.
LEMMA InitAlive == Init /\ Quiet => AliveInv
  <1> SUFFICES ASSUME Init, Quiet PROVE AliveInv
    OBVIOUS
  <1>1. LineageInv
    BY InitLineage
  <1>2. NoHelpers
    BY PidAssumption, SetupFacts DEF Init, NoHelpers, Running, Exists
  <1>3. ParentsExist
    BY PidAssumption, SetupFacts DEF Init, ParentsExist, Exists, Running
  <1>4. ExitedIsDead
    BY DEF Init, ExitedIsDead
  <1>5. CacheOK(alive) /\ hooks = {}
    BY DEF Init, CacheOK, AliveT
  <1> QED BY <1>1, <1>2, <1>3, <1>4, <1>5 DEF AliveInv

\* Every action keeps the invariant.
LEMMA NextAlive ==
  ASSUME Quiet, AliveInv, OriginInv, [Next]_vars
  PROVE  AliveInv'
  <1>q. /\ NoThreads /\ "threads" \notin Env /\ "helpers" \notin Env /\ "tampering" \notin Env
        /\ "lru_evict" \notin Env /\ Reserve = {TRUE}
    BY DEF Quiet, Reserve, NoThreads
  <1>t. LineageInv' /\ LineageInv /\ TypeOK /\ TypeOK'
    BY <1>q, NextLineage DEF AliveInv, LineageInv
  <1>h. hooks \subseteq HookT /\ hooks' \subseteq HookT /\ Grown(alive)
    BY <1>t DEF TypeOK, AliveInv, OriginInv, Grown, Covers
  \* A step that changes no task.
  <1>f. ASSUME UNCHANGED <<st, start_time, real_parent, lineage, forker>>,
               NEW g \in HookT, HookOK(g)
        PROVE  HookOK(g)'
    BY <1>f, <1>t, HookFrame
  <1>a. ASSUME UNCHANGED <<st, start_time, real_parent, lineage, mm, forker,
                           kthread_exec_pids>>,
               CacheOK(alive'), ExitedIsDead', \A g \in hooks' : HookOK(g)
        PROVE  AliveInv'
    <2>1. \A g \in hooks' : HookOK(g)'
      BY <1>a, <1>f, <1>h
    <2>2. CacheOK(alive)'
      BY <1>a DEF CacheOK, EntryOK, ParentUid, NotYetExited
    <2> QED BY <1>a, <1>t, <2>1, <2>2 DEF AliveInv, NoHelpers, ParentsExist, Exists
  <1>e. ASSUME UNCHANGED <<st, start_time, lineage, dead>>, hooks \subseteq hooks'
        PROVE  ExitedIsDead'
    BY <1>e DEF AliveInv, ExitedIsDead
  \* A step that changes the alive cache at most.
  <1>b. ASSUME UNCHANGED <<st, start_time, real_parent, lineage, mm, forker,
                           kthread_exec_pids, hooks, dead>>, CacheOK(alive')
        PROVE  AliveInv'
    <2>1. \A g \in hooks' : HookOK(g)
      BY <1>b DEF AliveInv
    <2>2. ExitedIsDead'
      BY <1>b, <1>e
    <2> QED BY <1>a, <1>b, <2>1, <2>2
  \* A hook that is left behind by one whose process keeps its state.
  <1>g. ASSUME NEW h \in HookT, NEW g, LeftBy(g, h),
               h.hook = "exit" <=> st[h.pid] = "exit_hook"
        PROVE  HookOK(g)
    BY <1>g DEF LeftBy, HookOK
  <1>r. ASSUME NEW p \in Pids, st[p] = "run", p \notin related
        PROVE  "related" \notin lineage[p] /\ NotYetExited(p) /\ Exists(p)
    BY <1>r, <1>t DEF LineageInv, RelatedIsExact, NotYetExited, Exists
  <1>1. ASSUME NEW p \in Pids, NEW w \in Workers, SyscallEnter(p, w)
        PROVE  AliveInv'
    BY <1>b, <1>h, <1>1 DEF SyscallEnter, Grown
  <1>2. ASSUME NEW p \in Pids, NEW w \in Workers, BprmCredsForExec(p, w)
        PROVE  AliveInv'
    <2>1. w = "leader" /\ st[p] = "run" /\ mm[p]
      BY <1>2, <1>t, OnlyLeader DEF BprmCredsForExec, LineageInv, AliveInv, NoHelpers, Exists
    <2>2. CacheOK(alive')
      BY <1>2, <1>h, <1>r, <2>1, LookupOK DEF BprmCredsForExec, Grown
    <2> QED BY <1>2, <1>b, <2>1, <2>2 DEF BprmCredsForExec
  <1>3. ASSUME NEW p \in Pids, NEW w \in Workers, NEW c \in Pids, NEW ok \in Reserve,
               Fork(p, w, c, ok)
        PROVE  AliveInv'
    <2> DEFINE child == [ pid |-> c, start |-> clock + 1, ppid |-> p,
                 unique_ppid |-> build_process_unique_id(p, TaskStart(p, w)),
                 image |-> image[p], inc |-> clock + 1, remote |-> FALSE ]
               cached == fill_event_process_from_cache(alive, p, w)
    <2>1. /\ w = "leader" /\ st[p] = "run" /\ mm[p] /\ st[c] = "free" /\ p # c
          /\ st' = [st EXCEPT ![c] = "run"]
          /\ start_time' = [start_time EXCEPT ![c] = clock + 1]
          /\ real_parent' = [real_parent EXCEPT ![c] = <<p, start_time[p]>>]
          /\ lineage' = [lineage EXCEPT ![c] = lineage[p] \ {"helper"}]
          /\ mm' = [mm EXCEPT ![c] = TRUE]
          /\ forker' = [forker EXCEPT ![c] = [pid |-> p, start |-> start_time[p],
                          monitored |-> ~Ignored(p) /\ p # InitPid]]
          /\ UNCHANGED <<thr, execing, kthread_exec_pids, dead, hooks>>
      BY <1>3, <1>t, OnlyLeader DEF Fork, CreateTask, LineageInv, TaskStart
    <2>2. NoHelpers'
      BY <1>t, <2>1, PidAssumption
      DEF AliveInv, LineageInv, InitIsSystem, NoHelpers, TypeOK, Exists
    <2>3. ParentsExist'
      BY <1>t, <2>1 DEF AliveInv, ParentsExist, TypeOK, Exists
    <2>4. ExitedIsDead'
      BY <1>t, <2>1 DEF AliveInv, ExitedIsDead, TypeOK
    <2>h. \A g \in hooks' : HookOK(g)'
      <3> SUFFICES ASSUME NEW g \in hooks PROVE HookOK(g)'
        BY <2>1
      <3>1. /\ g.pid \in Pids /\ g.pid # c /\ InitPid # c /\ InitPid \in Pids
            /\ g \in HookT /\ HookOK(g)
        BY <1>t, <1>h, <2>1, PidAssumption
        DEF AliveInv, HookOK, HookCore, EntryOK, NotYetExited, HookT, LineageInv, InitIsSystem
      <3>2. \A q \in {g.pid, InitPid} :
              /\ st'[q] = st[q] /\ start_time'[q] = start_time[q] /\ lineage'[q] = lineage[q]
              /\ forker'[q] = forker[q] /\ real_parent'[q] = real_parent[q]
        BY <1>t, <2>1, <3>1 DEF TypeOK
      <3> QED BY <1>t, <3>1, <3>2, HookFrame
    <2>5. ASSUME NEW x, CacheOK(x)
          PROVE  \A q \in Pids : x[q] # Null => q # c /\ EntryOK(q, x[q])'
      <3> SUFFICES ASSUME NEW q \in Pids, x[q] # Null
                   PROVE  q # c /\ /\ x[q].pid = q /\ x[q].start = start_time'[q]
                                   /\ x[q].inc = start_time'[q]
                                   /\ st'[q] \in {"run", "exit_hook"}
                                   /\ "related" \notin lineage'[q]
                                   /\ \/ real_parent'[q][1] = InitPid
                                      \/ /\ x[q].ppid = real_parent'[q][1]
                                         /\ x[q].unique_ppid =
                                              build_process_unique_id(real_parent'[q][1],
                                                                      real_parent'[q][2])
        BY DEF EntryOK, NotYetExited, ParentUid
      <3>1. EntryOK(q, x[q])
        BY <2>5 DEF CacheOK
      <3>2. q # c
        BY <2>1, <3>1 DEF EntryOK, NotYetExited
      <3>3. /\ start_time'[q] = start_time[q] /\ st'[q] = st[q]
            /\ lineage'[q] = lineage[q] /\ real_parent'[q] = real_parent[q]
        BY <1>t, <2>1, <3>2 DEF TypeOK
      <3> QED BY <3>1, <3>2, <3>3 DEF EntryOK, NotYetExited, ParentUid
    <2>6. CASE alive' = alive
      <3>1. CacheOK(alive)'
        BY <1>t, <2>5, <2>6 DEF AliveInv, CacheOK
      <3> QED BY <1>t, <2>2, <2>3, <2>4, <2>h, <3>1 DEF AliveInv
    <2>7. CASE alive' # alive
      <3>1. /\ alive' = [cached EXCEPT ![c] = child]
            /\ p \notin related
        BY <1>3, <2>7 DEF Fork
      <3>2. CacheOK(cached) /\ cached[p] # Null
        BY <1>r, <2>1, <3>1, LookupOK, NullAssumption DEF Grown
      <3>4. "related" \notin lineage[p]
        BY <1>r, <2>1, <3>1
      <3>5. alive' \in AliveT
        BY <1>t DEF TypeOK, AliveT
      <3>6. ASSUME NEW q \in Pids, alive'[q] # Null
            PROVE  EntryOK(q, alive[q])'
        <4>1. CASE q = c
          <5>1. alive'[c] = child
            BY <3>1, <3>2 DEF CacheOK, AliveT
          <5>2. /\ start_time'[c] = clock + 1 /\ st'[c] = "run"
                /\ lineage'[c] = lineage[p] \ {"helper"}
                /\ real_parent'[c] = <<p, start_time[p]>>
            BY <1>t, <2>1 DEF TypeOK
          <5>3. TaskStart(p, w) = start_time[p]
            BY <2>1 DEF TaskStart
          <5> QED BY <3>4, <4>1, <5>1, <5>2, <5>3 DEF EntryOK, NotYetExited, ParentUid
        <4>2. CASE q # c
          <5> HIDE DEF cached, child
          <5>1. alive'[q] = cached[q]
            BY <3>1, <3>2, <4>2 DEF CacheOK, AliveT
          <5>2. cached[q] # Null
            BY <3>6, <5>1
          <5>3. EntryOK(q, cached[q])
            BY <3>2, <5>2 DEF CacheOK
          <5>4. /\ start_time'[q] = start_time[q] /\ st'[q] = st[q]
                /\ lineage'[q] = lineage[q] /\ real_parent'[q] = real_parent[q]
            BY <1>t, <2>1, <4>2 DEF TypeOK
          <5> QED BY <5>1, <5>3, <5>4 DEF EntryOK, NotYetExited, ParentUid
        <4> QED BY <4>1, <4>2
      <3>7. CacheOK(alive)'
        BY <3>5, <3>6 DEF CacheOK
      <3> QED BY <1>t, <2>2, <2>3, <2>4, <2>h, <3>7 DEF AliveInv
    <2> QED BY <2>6, <2>7
  <1>4. ASSUME NEW p \in Pids, NEW w \in Workers, NEW ok \in Reserve, NEW a \in Verdicts,
               ExecHook(p, w, ok, a) \/ MonitoredHook(p, w, ok, a)
        PROVE  AliveInv'
    <2>1. /\ CacheOK(alive') /\ dead' = dead /\ hooks \subseteq hooks'
          /\ \A g \in hooks' : g \in hooks \/
               \E h \in HookT : LeftBy(g, h) /\ h.hook # "exit" /\ st[h.pid] = "run"
      BY <1>4, RunningHook DEF Grown
    <2>2. UNCHANGED <<st, start_time, real_parent, lineage, mm, forker, kthread_exec_pids>>
      BY <1>4 DEF ExecHook, MonitoredHook
    <2>3. \A g \in hooks' : HookOK(g)
      BY <1>g, <2>1 DEF AliveInv
    <2>4. ExitedIsDead'
      BY <1>e, <2>1, <2>2
    <2> QED BY <1>a, <2>1, <2>2, <2>3, <2>4
  <1>6. ASSUME NEW p \in Pids, NEW w \in Workers, NEW q \in Pids, NEW ok \in Reserve,
               NEW a \in Verdicts, SignalHook(p, w, q, ok, a)
        PROVE  AliveInv'
    BY <1>q, <1>6 DEF SignalHook
  <1>7. ASSUME NEW c \in Pids, SpawnHelper(c)
        PROVE  AliveInv'
    BY <1>q, <1>7 DEF SpawnHelper
  <1>8. ASSUME NEW p \in Pids, NewThread(p)
        PROVE  AliveInv'
    BY <1>q, <1>8 DEF NewThread
  <1>9. ASSUME NEW p \in Pids, ExecFails(p)
        PROVE  AliveInv'
    BY <1>b, <1>h, <1>9 DEF ExecFails, maps, Grown
  <1>10. ASSUME NEW p \in Pids, NEW img \in Images, BprmCommittedCreds(p, img)
         PROVE  AliveInv'
    <2>1. /\ st[p] = "run" /\ st' = st /\ mm'  = [mm EXCEPT ![p] = TRUE]
          /\ real_parent' = [c \in Pids |-> IF real_parent[c][1] = p
                               THEN <<p, start_time[p]>> ELSE real_parent[c]]
          /\ UNCHANGED <<start_time, lineage, forker, hooks, alive, dead, kthread_exec_pids>>
      BY <1>10, <1>t DEF BprmCommittedCreds, LineageInv, SingleThreaded, TypeOK
    <2>2. \A c \in Pids : Exists(c) => real_parent'[c] = real_parent[c]
      <3> SUFFICES ASSUME NEW c \in Pids, Exists(c), real_parent[c][1] = p
                   PROVE  real_parent[c] = <<p, start_time[p]>>
        BY <2>1
      <3>1. real_parent[c] \in Pids \X Times
        BY <1>t DEF TypeOK
      <3>2. real_parent[c][2] = start_time[p]
        BY DEF AliveInv, ParentsExist
      <3> QED BY <3>1, <3>2
    <2>3. NoHelpers'
      BY <1>t, <2>1, <2>2, PidAssumption
      DEF AliveInv, LineageInv, InitIsSystem, NoHelpers, TypeOK, Exists
    <2>4. ParentsExist'
      BY <2>1, <2>2 DEF AliveInv, ParentsExist, Exists
    <2>5. ExitedIsDead'
      BY <2>1 DEF AliveInv, ExitedIsDead
    <2>6. CacheOK(alive)'
      <3> SUFFICES ASSUME NEW q \in Pids, alive[q] # Null PROVE EntryOK(q, alive[q])'
        BY <1>t, <2>1 DEF AliveInv, CacheOK
      <3>1. EntryOK(q, alive[q]) /\ Exists(q)
        BY DEF AliveInv, CacheOK, EntryOK, NotYetExited, Exists
      <3> QED BY <2>1, <2>2, <3>1 DEF EntryOK, NotYetExited, ParentUid
    <2>7. \A g \in hooks' : HookOK(g)'
      <3> SUFFICES ASSUME NEW g \in hooks PROVE HookOK(g)'
        BY <2>1
      <3>1. g.pid \in Pids /\ Exists(g.pid) /\ InitPid \in Pids /\ Exists(InitPid)
            /\ g \in HookT /\ HookOK(g)
        BY <1>t, <1>h, PidAssumption
        DEF AliveInv, HookOK, HookCore, EntryOK, NotYetExited, Exists, HookT, LineageInv,
            InitIsSystem
      <3> QED BY <1>t, <2>1, <2>2, <3>1, HookFrame
    <2> QED BY <1>t, <2>3, <2>4, <2>5, <2>6, <2>7 DEF AliveInv
  <1>11. ASSUME NEW p \in Pids, NEW ok \in Reserve, ExitHook(p, ok)
         PROVE  AliveInv'
    <2>1. /\ st[p] = "run" /\ p # InitPid /\ ok /\ is_userspace_program(p, "leader")
          /\ ~Busy(p, "leader")
          /\ UNCHANGED <<start_time, real_parent, mm, lineage, forker>>
      BY <1>11, <1>q DEF ExitHook, AliveInv, NoHelpers, is_userspace_program, Exists
    <2>2. kthread_exec_pids' = {}
      BY <1>11 DEF ExitHook, DropKthreadExec, AliveInv, NoHelpers
    \* The hooks of the others go on.
    <2>h. ASSUME NEW s, st' = [st EXCEPT ![p] = s], NEW g \in hooks
          PROVE  HookOK(g)'
      <3>1. g.pid \in Pids /\ g.pid # p /\ InitPid \in Pids /\ g \in HookT /\ HookOK(g)
        BY <1>h, <2>1, PidAssumption DEF AliveInv, HookOK, HookCore, Busy, HookT
      <3>2. st'[g.pid] = st[g.pid] /\ st'[InitPid] = st[InitPid]
        BY <1>t, <2>1, <2>h, <3>1 DEF TypeOK
      <3> QED BY <1>t, <2>1, <3>1, <3>2, HookFrame
    <2>3. CASE p \in related
      <3>1. "related" \in lineage[p]
        BY <1>t, <2>3 DEF LineageInv, RelatedIsExact
      <3>2. /\ st' = [st EXCEPT ![p] = "exiting"]
            /\ alive' = alive /\ dead' = dead /\ hooks' = hooks
        BY <1>11, <1>t, <2>3 DEF ExitHook, LineageInv, SingleThreaded
      <3>3. NoHelpers' /\ ParentsExist'
        BY <1>t, <2>1, <2>2, <3>1, <3>2
        DEF AliveInv, NoHelpers, ParentsExist, TypeOK, Exists
      <3>s. \A q \in Pids : q # p => st'[q] = st[q]
        BY <1>t, <3>2 DEF TypeOK
      <3>e. ExitedIsDead'
        BY <2>1, <3>1, <3>2, <3>s DEF AliveInv, ExitedIsDead
      <3>4. CacheOK(alive)'
        BY <1>t, <2>1, <3>1, <3>2
        DEF AliveInv, CacheOK, EntryOK, NotYetExited, ParentUid, TypeOK
      <3>5. \A g \in hooks' : HookOK(g)'
        BY <2>h, <3>2
      <3> QED BY <1>t, <3>3, <3>e, <3>4, <3>5 DEF AliveInv
    <2>4. CASE p \notin related
      <3>1. /\ CacheOK(alive') /\ DeadGrows /\ hooks \subseteq hooks'
            /\ st' = [st EXCEPT ![p] = "exit_hook"]
            /\ \A g \in hooks' : g \in hooks \/
                 /\ g \in HookT /\ g.pid = p /\ g.hook = "exit" /\ HookCore(g)
                 /\ g.op = "parent" /\ real_parent[p][1] = InitPid
            /\ \/ \E g \in hooks' : g.pid = p /\ g.hook = "exit"
               \/ \E e \in dead' : UidOf(e) = build_process_unique_id(p, start_time[p])
        BY <1>11, <2>4, ExitingHook DEF Grown
      <3>2. ExitedIsDead'
        <4> SUFFICES ASSUME NEW q \in Pids, st'[q] \in {"exit_hook", "exiting"},
                            "related" \notin lineage'[q]
                     PROVE  \/ \E h \in hooks' : h.pid = q /\ h.hook = "exit"
                            \/ \E e \in dead' :
                                 UidOf(e) = build_process_unique_id(q, start_time'[q])
          BY DEF ExitedIsDead, UidOf, build_process_unique_id
        <4>1. CASE q = p
          BY <2>1, <3>1, <4>1
        <4>2. CASE q # p
          <5>1. st[q] \in {"exit_hook", "exiting"}
            BY <1>t, <3>1, <4>2 DEF TypeOK
          <5>2. \/ \E h \in hooks : h.pid = q /\ h.hook = "exit"
                \/ \E e \in dead : UidOf(e) = build_process_unique_id(q, start_time[q])
            BY <2>1, <5>1 DEF AliveInv, ExitedIsDead
          <5>3. (\E e \in dead : UidOf(e) = build_process_unique_id(q, start_time[q])) =>
                  \E e \in dead' : UidOf(e) = build_process_unique_id(q, start_time[q])
            BY <3>1 DEF DeadGrows
          <5> QED BY <2>1, <3>1, <5>2, <5>3
        <4> QED BY <4>1, <4>2
      <3>3. NoHelpers' /\ ParentsExist'
        BY <1>t, <2>1, <2>2, <3>1 DEF AliveInv, NoHelpers, ParentsExist, TypeOK, Exists
      <3>4. ASSUME NEW q \in Pids, NEW e, EntryOK(q, e) PROVE EntryOK(q, e)'
        BY <1>t, <2>1, <3>1, <3>4 DEF EntryOK, NotYetExited, ParentUid, TypeOK
      <3>5. CacheOK(alive)'
        BY <3>1, <3>4 DEF CacheOK
      <3>6. ASSUME NEW g \in hooks' PROVE HookOK(g)'
        <4>1. CASE g \in hooks
          BY <2>h, <3>1, <4>1
        <4>2. CASE g \notin hooks
          <5>1. /\ g \in HookT /\ g.pid = p /\ g.hook = "exit" /\ HookCore(g)
                /\ g.op = "parent" /\ real_parent[p][1] = InitPid
            BY <3>1, <4>2
          <5>2. OriginOK(p, g.e)'
            BY <2>1, <5>1 DEF HookCore, OriginOK, Forked, ForkerUid
          <5>3. HookCore(g)'
            BY <3>4, <5>1, <5>2 DEF HookCore
          <5>4. st'[p] = "exit_hook"
            BY <1>t, <3>1 DEF TypeOK
          <5> QED BY <2>1, <5>1, <5>3, <5>4 DEF HookOK
        <4> QED BY <4>1, <4>2
      <3> QED BY <1>t, <3>2, <3>3, <3>5, <3>6 DEF AliveInv
    <2> QED BY <2>3, <2>4
  <1>12. ASSUME NEW p \in Pids, ExitHookDelete(p)
         PROVE  AliveInv'
    <2>1. /\ st[p] = "exit_hook" /\ st' = [st EXCEPT ![p] = "exiting"] /\ ~Busy(p, "leader")
          /\ alive' = [alive EXCEPT ![p] = Null]
          /\ UNCHANGED <<start_time, real_parent, lineage, forker, mm, hooks, dead,
                         kthread_exec_pids>>
      BY <1>12, <1>t DEF ExitHookDelete, LineageInv, SingleThreaded
    <2>2. NoHelpers' /\ ParentsExist'
      BY <1>t, <2>1 DEF AliveInv, NoHelpers, ParentsExist, TypeOK, Exists
    <2>3. ExitedIsDead'
      BY <1>t, <2>1 DEF AliveInv, ExitedIsDead, TypeOK
    <2>4. CacheOK(alive)'
      BY <1>t, <2>1 DEF AliveInv, CacheOK, AliveT, EntryOK, NotYetExited, ParentUid, TypeOK
    <2>5. ASSUME NEW g \in hooks PROVE HookOK(g)'
      <3>1. /\ g.pid \in Pids /\ g.pid # p /\ InitPid \in Pids /\ InitPid # p
            /\ g \in HookT /\ HookOK(g)
        BY <1>h, <1>t, <2>1, PidAssumption
        DEF AliveInv, HookOK, HookCore, Busy, HookT, LineageInv, InitIsSystem
      <3>2. st'[g.pid] = st[g.pid] /\ st'[InitPid] = st[InitPid]
        BY <1>t, <2>1, <3>1 DEF TypeOK
      <3> QED BY <1>t, <2>1, <3>1, <3>2, HookFrame
    <2> QED BY <1>t, <2>1, <2>2, <2>3, <2>4, <2>5 DEF AliveInv
  <1>13. ASSUME NEW p \in Pids, ThreadExit(p)
         PROVE  AliveInv'
    BY <1>13, <1>t DEF ThreadExit, LineageInv, SingleThreaded
  <1>14. ASSUME NEW p \in Pids, Release(p)
         PROVE  AliveInv'
    <2>1. /\ st[p] = "exiting" /\ st' = [st EXCEPT ![p] = "free"]
          /\ start_time' = [start_time EXCEPT ![p] = 0]
          /\ real_parent' = [c \in Pids |-> IF c = p \/ real_parent[c][1] = p
                               THEN <<InitPid, 0>> ELSE real_parent[c]]
          /\ lineage' = [lineage EXCEPT ![p] = {}]
          /\ mm' = [mm EXCEPT ![p] = FALSE]
          /\ forker' = [forker EXCEPT ![p] = NoForker]
          /\ UNCHANGED <<hooks, alive, dead, kthread_exec_pids>>
      BY <1>14 DEF Release, maps
    <2>2. /\ p # InitPid /\ st[InitPid] = "run" /\ lineage[InitPid] = {}
          /\ start_time[InitPid] = 0 /\ real_parent[InitPid] = <<InitPid, 0>>
      BY <1>t, <2>1 DEF AliveInv, LineageInv, InitIsSystem, NoHelpers
    <2>3. NoHelpers'
      BY <1>t, <2>1, <2>2, PidAssumption DEF AliveInv, NoHelpers, TypeOK, Exists
    <2>4. ParentsExist'
      BY <1>t, <2>1, <2>2, PidAssumption DEF AliveInv, ParentsExist, TypeOK, Exists
    <2>5. ExitedIsDead'
      BY <1>t, <2>1 DEF AliveInv, ExitedIsDead, TypeOK
    <2>6. CacheOK(alive)'
      <3> SUFFICES ASSUME NEW q \in Pids, alive[q] # Null PROVE EntryOK(q, alive[q])'
        BY <1>t, <2>1 DEF AliveInv, CacheOK
      <3>1. EntryOK(q, alive[q]) /\ q # p
        BY <2>1 DEF AliveInv, CacheOK, EntryOK, NotYetExited
      <3>2. /\ st'[q] = st[q] /\ start_time'[q] = start_time[q] /\ lineage'[q] = lineage[q]
            /\ real_parent'[q] = real_parent[q] \/ real_parent'[q] = <<InitPid, 0>>
        BY <1>t, <2>1, <3>1 DEF TypeOK
      <3> QED BY <2>1, <3>1, <3>2 DEF EntryOK, NotYetExited, ParentUid
    <2>7. ASSUME NEW g \in hooks PROVE HookOK(g)'
      <3>1. /\ g.pid \in Pids /\ g.pid # p /\ InitPid \in Pids /\ g \in HookT /\ HookOK(g)
        BY <1>h, <2>1, PidAssumption
        DEF AliveInv, HookOK, HookCore, EntryOK, NotYetExited, HookT
      <3>2. \A q \in {g.pid, InitPid} :
              /\ st'[q] = st[q] /\ start_time'[q] = start_time[q] /\ lineage'[q] = lineage[q]
              /\ forker'[q] = forker[q]
              /\ real_parent'[q] = real_parent[q] \/ real_parent'[q][1] = InitPid
        BY <1>t, <2>1, <2>2, <3>1 DEF TypeOK
      <3> QED BY <1>t, <3>1, <3>2, HookFrame
    <2> QED BY <1>t, <2>1, <2>3, <2>4, <2>5, <2>6, <2>7 DEF AliveInv
  <1>15. ASSUME NEW e \in dead, Evict(e)
         PROVE  AliveInv'
    BY <1>q, <1>15 DEF Evict
  <1>16. ASSUME NEW h \in hooks, FillRemote(h)
         PROVE  AliveInv'
    <2>1. h \in HookT /\ HookOK(h) /\ h.op = "parent"
      BY <1>16, <1>h DEF AliveInv, HookOK, FillRemote
    <2>2. PICK new \in Fills(real_parent[h.pid]) :
            hooks' = (hooks \ {h}) \cup {[h EXCEPT !.op = "write", !.entry = new, !.target = @]}
      BY <1>16, <2>1 DEF FillRemote
    <2>3. new # Null /\ EntryOK(InitPid, new) /\ OriginOK(InitPid, new)
      BY <2>1, InitEntry
    <2> DEFINE g == [h EXCEPT !.op = "write", !.entry = new, !.target = @]
    <2>4. /\ g.op = "write" /\ g.entry = new /\ g.pid = h.pid /\ g.w = h.w /\ g.hook = h.hook
          /\ g.e = h.e /\ g.action = h.action
      BY <2>1 DEF HookT
    <2>5. hooks' = (hooks \ {h}) \cup {g}
      BY <2>2
    <2> HIDE DEF g
    <2>6. HookOK(g)
      BY <2>1, <2>3, <2>4 DEF HookOK, HookCore
    <2>7. UNCHANGED <<st, start_time, real_parent, lineage, mm, forker, kthread_exec_pids,
                      alive, dead>>
      BY <1>16 DEF FillRemote, tasks, maps
    <2>8. ExitedIsDead'
      BY <2>4, <2>5, <2>7 DEF AliveInv, ExitedIsDead
    <2>9. \A k \in hooks' : HookOK(k)
      BY <2>5, <2>6 DEF AliveInv
    <2> QED BY <1>a, <1>h, <2>7, <2>8, <2>9 DEF Grown
  <1>17. ASSUME NEW h \in hooks, WriteRemote(h)
         PROVE  AliveInv'
    <2>1. h \in HookT /\ (h.hook = "exit" <=> st[h.pid] = "exit_hook")
      BY <1>h DEF AliveInv, HookOK
    <2>2. UNCHANGED <<st, start_time, real_parent, lineage, mm, forker, kthread_exec_pids>>
      BY <1>17 DEF WriteRemote
    <2>3. /\ CacheOK(alive') /\ DeadGrows /\ hooks \ {h} \subseteq hooks'
          /\ \A g \in hooks' : g \in hooks \ {h} \/ LeftBy(g, h)
          /\ h.hook = "exit" =>
               \E e \in dead' : UidOf(e) = build_process_unique_id(h.pid, start_time[h.pid])
      BY <1>17, LateWrite DEF Grown
    <2>4. \A g \in hooks' : HookOK(g)
      BY <1>g, <2>1, <2>3 DEF AliveInv
    <2>5. ExitedIsDead'
      <3> SUFFICES ASSUME NEW q \in Pids, st[q] \in {"exit_hook", "exiting"},
                          "related" \notin lineage[q]
                   PROVE  \/ \E g \in hooks' : g.pid = q /\ g.hook = "exit"
                          \/ \E e \in dead' :
                               UidOf(e) = build_process_unique_id(q, start_time[q])
        BY <2>2 DEF ExitedIsDead, UidOf, build_process_unique_id
      <3>1. CASE \E g \in hooks : g.pid = q /\ g.hook = "exit"
        BY <2>3, <3>1
      <3>2. CASE \E e \in dead : UidOf(e) = build_process_unique_id(q, start_time[q])
        BY <2>3, <3>2 DEF DeadGrows
      <3> QED BY <3>1, <3>2 DEF AliveInv, ExitedIsDead
    <2> QED BY <1>a, <2>2, <2>3, <2>4, <2>5
  <1>18. ASSUME NEW h \in hooks, MarkParent(h)
         PROVE  AliveInv'
    <2>1. /\ hooks' = hooks \ {h}
          /\ UNCHANGED <<st, start_time, real_parent, lineage, mm, forker, kthread_exec_pids,
                         alive, dead>>
      BY <1>18 DEF MarkParent, tasks
    <2>2. \A g \in hooks' : HookOK(g)
      BY <2>1 DEF AliveInv
    <2>3. h.hook # "exit"
      BY <1>18 DEF AliveInv, HookOK, MarkParent
    <2>4. ExitedIsDead'
      BY <2>1, <2>3 DEF AliveInv, ExitedIsDead
    <2> QED BY <1>a, <1>h, <2>1, <2>2, <2>4 DEF Grown
  <1>19. CASE UNCHANGED vars
    BY <1>b, <1>h, <1>19 DEF vars, tasks, maps, Grown
  <1> QED BY <1>1, <1>2, <1>3, <1>4, <1>6, <1>7, <1>8, <1>9, <1>10, <1>11,
             <1>12, <1>13, <1>14, <1>15, <1>16, <1>17, <1>18, <1>19 DEF Next, Step, Actions

\* What is in the cache has the unique id of its task.
LEMMA CachedUid ==
  ASSUME NEW al, CacheOK(al), NEW p \in Pids, al[p] # Null
  PROVE  /\ UidOf(al[p]) = build_process_unique_id(p, start_time[p])
         /\ NotYetExited(p) /\ "related" \notin lineage[p]
  BY DEF CacheOK, EntryOK, UidOf

LEMMA InitOrigin == Init /\ Quiet => OriginInv
  <1> SUFFICES ASSUME Init, Quiet PROVE OriginInv
    OBVIOUS
  <1>1. \A p \in Pids : TaskOrigin(p)
    BY SetupFacts DEF Init, TaskOrigin, Forked
  <1> QED BY <1>1 DEF Init, OriginInv, CacheOrigin

\* Every action keeps the invariant.
LEMMA NextOrigin ==
  ASSUME Quiet, AliveInv, OriginInv, [Next]_vars
  PROVE  OriginInv'
  <1>q. /\ NoThreads /\ "threads" \notin Env /\ "helpers" \notin Env /\ "tampering" \notin Env
        /\ "lru_evict" \notin Env /\ Reserve = {TRUE}
    BY DEF Quiet, Reserve, NoThreads
  <1>t. AliveInv' /\ LineageInv /\ TypeOK /\ TypeOK' /\ CacheOK(alive) /\ CacheOK(alive)'
    BY NextAlive DEF AliveInv, LineageInv
  <1>r. ASSUME NEW p \in Pids, st[p] = "run", p \notin related
        PROVE  "related" \notin lineage[p] /\ NotYetExited(p) /\ Exists(p)
    BY <1>r, <1>t DEF LineageInv, RelatedIsExact, NotYetExited, Exists
  \* A step that changes the caches only as look-ups and exits do.
  <1>a. ASSUME UNCHANGED <<start_time, real_parent, lineage, forker>>, DeadGrows,
               \A r \in Pids : NotYetExited(r)' => NotYetExited(r), Grown(alive')
        PROVE  OriginInv'
    <2>1. ASSUME NEW p \in Pids, alive'[p] # Null
          PROVE  /\ UidOf(alive'[p]) = build_process_unique_id(p, start_time[p])
                 /\ Forked(p) => alive[p] # Null
      <3>1. NotYetExited(p)' /\ "related" \notin lineage'[p]
            /\ UidOf(alive'[p]) = build_process_unique_id(p, start_time'[p])
        BY <1>t, <2>1 DEF CacheOK, EntryOK, UidOf, build_process_unique_id
      <3>2. NotYetExited(p) /\ "related" \notin lineage[p]
        BY <1>a, <3>1
      <3> QED BY <1>a, <3>1, <3>2 DEF OriginInv, TaskOrigin
    <2>2. \A p \in Pids : TaskOrigin(p)'
      BY <1>a DEF OriginInv, TaskOrigin, Forked, Grown, Covers
    <2>3. CacheOrigin(alive)'
      BY <1>a DEF Grown, CacheOrigin, OriginOK, Forked, ForkerUid
    <2>4. ASSUME NEW p \in Pids, alive'[p] # Null, Forked(p)' PROVE Findable(p)'
      <3>1. Forked(p) /\ ForkerUid(p)' = ForkerUid(p) /\ forker[p].pid \in Pids
        BY <1>a, <1>t, <2>4 DEF Forked, ForkerUid, TypeOK
      <3>2. Findable(p)
        BY <2>1, <2>4, <3>1 DEF OriginInv
      <3>3. CASE \E e \in dead : UidOf(e) = ForkerUid(p)
        BY <1>a, <3>1, <3>3 DEF Findable, DeadGrows, UidOf
      <3>4. CASE /\ alive[forker[p].pid] # Null
                 /\ UidOf(alive[forker[p].pid]) = ForkerUid(p)
        <4>1. alive'[forker[p].pid] # Null
          BY <1>a, <3>1, <3>4 DEF Grown, Covers
        <4>2. UidOf(alive'[forker[p].pid]) = UidOf(alive[forker[p].pid])
          BY <1>t, <2>1, <3>1, <3>4, <4>1, CachedUid
        <4> QED BY <1>a, <3>1, <3>4, <4>1, <4>2 DEF Findable
      <3> QED BY <3>2, <3>3, <3>4 DEF Findable
    <2> QED BY <2>2, <2>3, <2>4 DEF OriginInv
  <1>b. ASSUME UNCHANGED <<st, start_time, real_parent, lineage, forker, dead>>, Grown(alive')
        PROVE  OriginInv'
    BY <1>a, <1>b DEF NotYetExited, DeadGrows
  <1>g. Grown(alive)
    BY <1>t DEF Grown, OriginInv, Covers
  <1>1. ASSUME NEW p \in Pids, NEW w \in Workers, SyscallEnter(p, w)
        PROVE  OriginInv'
    BY <1>b, <1>g, <1>1 DEF SyscallEnter
  <1>2. ASSUME NEW p \in Pids, NEW w \in Workers, BprmCredsForExec(p, w)
        PROVE  OriginInv'
    <2>1. w = "leader" /\ st[p] = "run"
      BY <1>2, <1>t, OnlyLeader DEF BprmCredsForExec, LineageInv
    <2>2. Grown(alive')
      BY <1>2, <1>g, <1>r, <2>1, LookupOK DEF BprmCredsForExec
    <2> QED BY <1>2, <1>b, <2>2 DEF BprmCredsForExec
  <1>3. ASSUME NEW p \in Pids, NEW w \in Workers, NEW c \in Pids, NEW ok \in Reserve,
               Fork(p, w, c, ok)
        PROVE  OriginInv'
    <2> DEFINE child == [ pid |-> c, start |-> clock + 1, ppid |-> p,
                 unique_ppid |-> build_process_unique_id(p, TaskStart(p, w)),
                 image |-> image[p], inc |-> clock + 1, remote |-> FALSE ]
               cached == fill_event_process_from_cache(alive, p, w)
    <2>1. /\ w = "leader" /\ st[p] = "run" /\ mm[p] /\ st[c] = "free" /\ p # c
          /\ st' = [st EXCEPT ![c] = "run"]
          /\ start_time' = [start_time EXCEPT ![c] = clock + 1]
          /\ real_parent' = [real_parent EXCEPT ![c] = <<p, start_time[p]>>]
          /\ lineage' = [lineage EXCEPT ![c] = lineage[p] \ {"helper"}]
          /\ forker' = [forker EXCEPT ![c] = [pid |-> p, start |-> start_time[p],
                          monitored |-> ~Ignored(p) /\ p # InitPid]]
          /\ dead' = dead
      BY <1>3, <1>t, OnlyLeader DEF Fork, CreateTask, LineageInv, TaskStart
    <2>2. \A r \in Pids : r # c =>
            /\ st'[r] = st[r] /\ start_time'[r] = start_time[r]
            /\ real_parent'[r] = real_parent[r] /\ lineage'[r] = lineage[r]
            /\ forker'[r] = forker[r]
      BY <1>t, <2>1 DEF TypeOK
    <2>3. /\ st'[c] = "run" /\ start_time'[c] = clock + 1 /\ clock + 1 > 0
          /\ real_parent'[c][1] = p /\ lineage'[c] = lineage[p] \ {"helper"}
          /\ forker'[c].pid = p /\ forker'[c].start = start_time[p]
      BY <1>t, <2>1, BoundAssumption DEF TypeOK, Times
    <2>m. /\ ~Ignored(p) /\ p # InitPid => forker'[c].monitored
          /\ Ignored(p) \/ p = InitPid => ~forker'[c].monitored
      <3> DEFINE m == ~Ignored(p) /\ p # InitPid
      <3>1. forker'[c] = [pid |-> p, start |-> start_time[p], monitored |-> m]
        <4> HIDE DEF m
        <4>1. forker' = [forker EXCEPT ![c] = [pid |-> p, start |-> start_time[p], monitored |-> m]]
          BY <2>1, Zenon DEF m
        <4> QED BY <1>t, <4>1 DEF TypeOK
      <3> HIDE DEF m
      <3>2. forker'[c].monitored = m
        BY <3>1
      <3> QED BY <3>2, Zenon DEF m
    <2>4. TRUE \in Reserve /\ ok
      BY <1>q
    <2>5. p \in related <=> "related" \in lineage[p]
      BY <1>t, <2>1 DEF LineageInv, RelatedIsExact
    <2>6. "helper" \notin lineage[p] /\ kthread_exec_pids = {}
      BY DEF OriginInv, TaskOrigin, AliveInv, NoHelpers
    \* fork_hook caches the child, unless the parent is init or owLSM's own.
    <2>7. CASE p # InitPid /\ "related" \notin lineage[p]
      <3>1. alive' = [cached EXCEPT ![c] = child]
        BY <1>3, <2>1, <2>4, <2>5, <2>6, <2>7 DEF Fork, is_userspace_program
      <3>2. /\ CacheOK(cached) /\ cached[p] # Null /\ CacheOrigin(cached) /\ Covers(cached)
        BY <1>r, <2>1, <2>5, <2>7, LookupOK, NullAssumption DEF Grown
      <3>4. child.ppid = p /\ child.unique_ppid = build_process_unique_id(p, start_time[p])
        BY <2>1 DEF TaskStart
      <3> HIDE DEF cached, child
      <3>5. alive'[c] = child /\ \A r \in Pids : r # c => alive'[r] = cached[r]
        BY <3>1, <3>2 DEF CacheOK, AliveT
      <3>6. Forked(c)' /\ forker'[c].pid = p /\ ForkerUid(c)' = build_process_unique_id(p, start_time[p])
        BY <2>3, <2>6, <2>7, <2>m DEF Forked, ForkerUid, Ignored, build_process_unique_id
      <3>7. cached[c] = Null /\ alive[c] = Null
        BY <1>t, <2>1, <3>2, CachedUid DEF NotYetExited
      <3>8. child # Null
        <4>1. child \in ProcessT \/ child = Null
          BY <1>t, <3>5 DEF TypeOK
        <4>2. clock + 1 \in Times
          BY <1>3, <1>t, BoundAssumption DEF Fork, CreateTask, TypeOK, Times
        <4>3. child \in ProcessT
          <5>1. start_time[p] \in Times /\ image[p] \in Images
            BY <1>t DEF TypeOK
          <5>2. build_process_unique_id(p, start_time[p])
                  \in {build_process_unique_id(x, t) : x \in Pids, t \in Times}
            BY <5>1
          <5> QED BY <2>1, <4>2, <5>1, <5>2 DEF child, ProcessT, TaskStart
        <4> QED BY <4>3, NullAssumption
      <3>9. ASSUME NEW r \in Pids, r # c
            PROVE  /\ Forked(r)' = Forked(r) /\ ForkerUid(r)' = ForkerUid(r)
                   /\ NotYetExited(r)' = NotYetExited(r)
        BY <2>2, <3>9 DEF Forked, ForkerUid, NotYetExited, build_process_unique_id
      <3>10. ASSUME NEW r \in Pids PROVE TaskOrigin(r)'
        <4>1. CASE r = c
          BY <2>3, <2>6, <2>7, <3>5, <3>6, <3>8, <4>1 DEF TaskOrigin
        <4>2. CASE r # c
          <5>1. TaskOrigin(r) /\ (alive[r] # Null => alive'[r] # Null)
            BY <3>2, <3>5, <4>2 DEF OriginInv, Covers
          <5> QED BY <2>2, <3>9, <4>2, <5>1 DEF TaskOrigin
        <4> QED BY <4>1, <4>2
      <3>11. CacheOrigin(alive)'
        <4> SUFFICES ASSUME NEW r \in Pids, alive'[r] # Null PROVE OriginOK(r, alive[r])'
          BY DEF CacheOrigin
        <4>1. CASE r = c
          BY <3>4, <3>5, <3>6, <4>1 DEF OriginOK
        <4>2. CASE r # c
          <5>1. OriginOK(r, cached[r]) /\ alive'[r] = cached[r]
            BY <3>2, <3>5, <4>2 DEF CacheOrigin
          <5> QED BY <2>2, <3>9, <4>2, <5>1 DEF OriginOK
        <4> QED BY <4>1, <4>2
      <3>12. ASSUME NEW r \in Pids, alive'[r] # Null, Forked(r)' PROVE Findable(r)'
        <4>1. CASE r = c
          <5>1. UidOf(cached[p]) = build_process_unique_id(p, start_time[p])
            BY <3>2, CachedUid
          <5>2. alive'[p] = cached[p]
            BY <2>1, <3>5
          <5> QED BY <3>2, <3>6, <4>1, <5>1, <5>2 DEF Findable, UidOf
        <4>2. CASE r # c
          <5>1. /\ cached[r] # Null /\ Forked(r) /\ forker'[r].pid = forker[r].pid
                /\ ForkerUid(r)' = ForkerUid(r) /\ forker[r].pid \in Pids
            BY <1>t, <2>2, <3>5, <3>9, <3>12, <4>2 DEF TypeOK
          <5>2. alive[r] # Null
            BY <3>2, <5>1, CachedUid DEF OriginInv, TaskOrigin
          <5>3. Findable(r)
            BY <5>1, <5>2 DEF OriginInv
          <5>4. CASE \E e \in dead : UidOf(e) = ForkerUid(r)
            BY <2>1, <5>1, <5>4 DEF Findable, UidOf
          <5>5. CASE alive[forker[r].pid] # Null /\ UidOf(alive[forker[r].pid]) = ForkerUid(r)
            <6>1. cached[forker[r].pid] # Null /\ forker[r].pid # c
              BY <3>2, <3>7, <5>1, <5>5 DEF Covers
            <6>2. UidOf(cached[forker[r].pid]) = UidOf(alive[forker[r].pid])
              BY <1>t, <3>2, <5>1, <5>5, <6>1, CachedUid
            <6>3. alive'[forker[r].pid] = cached[forker[r].pid]
              BY <3>5, <5>1, <6>1
            <6> QED BY <5>1, <5>5, <6>1, <6>2, <6>3 DEF Findable, UidOf
          <5> QED BY <5>3, <5>4, <5>5 DEF Findable
        <4> QED BY <4>1, <4>2
      <3> QED BY <3>10, <3>11, <3>12 DEF OriginInv
    <2>8. CASE p = InitPid \/ "related" \in lineage[p]
      <3>1. alive' = alive
        BY <1>3, <2>5, <2>8 DEF Fork, is_userspace_program
      <3>2. ~Forked(c)'
        BY <2>3, <2>8, <2>m DEF Forked, Ignored
      <3>3. alive[c] = Null
        BY <1>t, <2>1, CachedUid DEF NotYetExited
      <3>4. ASSUME NEW r \in Pids, r # c
            PROVE  /\ Forked(r)' = Forked(r) /\ ForkerUid(r)' = ForkerUid(r)
                   /\ NotYetExited(r)' = NotYetExited(r)
        BY <2>2, <3>4 DEF Forked, ForkerUid, NotYetExited, build_process_unique_id
      <3>5. ASSUME NEW r \in Pids PROVE TaskOrigin(r)'
        <4>1. CASE r = c
          BY <2>3, <2>6, <2>8, <3>2, <4>1 DEF TaskOrigin
        <4>2. CASE r # c
          BY <2>2, <3>1, <3>4, <4>2 DEF OriginInv, TaskOrigin
        <4> QED BY <4>1, <4>2
      <3>6. CacheOrigin(alive)'
        BY <2>2, <3>1, <3>3, <3>4 DEF OriginInv, CacheOrigin, OriginOK
      <3>7. ASSUME NEW r \in Pids, alive'[r] # Null, Forked(r)' PROVE Findable(r)'
        <4>1. r # c
          BY <3>2, <3>7
        <4>2. Findable(r)
          BY <3>1, <3>4, <3>7, <4>1 DEF OriginInv
        <4> QED BY <2>1, <2>2, <3>1, <3>4, <4>1, <4>2 DEF Findable, UidOf
      <3> QED BY <3>5, <3>6, <3>7 DEF OriginInv
    <2> QED BY <2>7, <2>8
  <1>4. ASSUME NEW p \in Pids, NEW w \in Workers, NEW ok \in Reserve, NEW a \in Verdicts,
               ExecHook(p, w, ok, a) \/ MonitoredHook(p, w, ok, a)
        PROVE  OriginInv'
    <2>1. Grown(alive') /\ dead' = dead
      BY <1>4, RunningHook
    <2> QED BY <1>4, <1>b, <2>1 DEF ExecHook, MonitoredHook
  <1>6. ASSUME NEW p \in Pids, NEW w \in Workers, NEW q \in Pids, NEW ok \in Reserve,
               NEW a \in Verdicts, SignalHook(p, w, q, ok, a)
        PROVE  OriginInv'
    BY <1>q, <1>6 DEF SignalHook
  <1>7. ASSUME NEW c \in Pids, SpawnHelper(c)
        PROVE  OriginInv'
    BY <1>q, <1>7 DEF SpawnHelper
  <1>8. ASSUME NEW p \in Pids, NewThread(p)
        PROVE  OriginInv'
    BY <1>q, <1>8 DEF NewThread
  <1>9. ASSUME NEW p \in Pids, ExecFails(p)
        PROVE  OriginInv'
    BY <1>b, <1>g, <1>9 DEF ExecFails, maps
  <1>10. ASSUME NEW p \in Pids, NEW img \in Images, BprmCommittedCreds(p, img)
         PROVE  OriginInv'
    <2>1. /\ st' = st
          /\ \A c \in Pids : real_parent'[c][1] = real_parent[c][1]
          /\ UNCHANGED <<start_time, lineage, alive, dead, forker>>
      BY <1>10, <1>t DEF BprmCommittedCreds, LineageInv, SingleThreaded, TypeOK
    <2>2. \A r \in Pids : TaskOrigin(r)'
      BY <2>1 DEF OriginInv, TaskOrigin, Forked, NotYetExited
    <2>3. CacheOrigin(alive)'
      BY <2>1 DEF OriginInv, CacheOrigin, OriginOK, Forked, ForkerUid
    <2>4. \A r \in Pids : (alive[r] # Null /\ Forked(r) => Findable(r))'
      BY <2>1 DEF OriginInv, Findable, Forked, ForkerUid
    <2> QED BY <2>2, <2>3, <2>4 DEF OriginInv
  <1>11. ASSUME NEW p \in Pids, NEW ok \in Reserve, ExitHook(p, ok)
         PROVE  OriginInv'
    <2>1. /\ st[p] = "run" /\ \A r \in Pids : NotYetExited(r)' => NotYetExited(r)
          /\ UNCHANGED <<start_time, real_parent, lineage, forker>>
      BY <1>11, <1>t DEF ExitHook, NotYetExited, TypeOK
    <2>2. CASE p \in related
      <3>1. alive' = alive /\ dead' = dead
        BY <1>11, <2>2 DEF ExitHook
      <3> QED BY <1>a, <1>g, <2>1, <3>1 DEF DeadGrows
    <2>3. CASE p \notin related
      <3>1. Grown(alive') /\ DeadGrows
        BY <1>11, <2>3, ExitingHook
      <3> QED BY <1>a, <2>1, <3>1
    <2> QED BY <2>2, <2>3
  <1>12. ASSUME NEW p \in Pids, ExitHookDelete(p)
         PROVE  OriginInv'
    <2>1. /\ st[p] = "exit_hook" /\ st' = [st EXCEPT ![p] = "exiting"] /\ ~Busy(p, "leader")
          /\ alive' = [alive EXCEPT ![p] = Null]
          /\ UNCHANGED <<start_time, real_parent, lineage, forker, dead>>
      BY <1>12, <1>t DEF ExitHookDelete, LineageInv, SingleThreaded
    <2>2. /\ alive'[p] = Null /\ \A r \in Pids : r # p => alive'[r] = alive[r]
          /\ \A r \in Pids : NotYetExited(r)' => NotYetExited(r) /\ r # p
      BY <1>t, <2>1 DEF TypeOK, NotYetExited
    <2>3. \A r \in Pids : TaskOrigin(r)'
      BY <2>1, <2>2 DEF OriginInv, TaskOrigin, Forked
    <2>4. CacheOrigin(alive)'
      BY <2>1, <2>2 DEF OriginInv, CacheOrigin, OriginOK, Forked, ForkerUid
    <2>5. ASSUME NEW r \in Pids, alive'[r] # Null, Forked(r)' PROVE Findable(r)'
      <3>1. /\ Forked(r) /\ ForkerUid(r)' = ForkerUid(r) /\ forker[r].pid \in Pids
            /\ r # p /\ alive[r] # Null
        BY <1>t, <2>1, <2>2, <2>5 DEF Forked, ForkerUid, TypeOK
      <3>2. Findable(r)
        BY <3>1 DEF OriginInv
      <3>3. CASE \E e \in dead : UidOf(e) = ForkerUid(r)
        BY <2>1, <3>1, <3>3 DEF Findable, UidOf
      <3>4. CASE /\ alive[forker[r].pid] # Null /\ UidOf(alive[forker[r].pid]) = ForkerUid(r)
                 /\ forker[r].pid # p
        BY <2>1, <2>2, <3>1, <3>4 DEF Findable, UidOf
      \* The forker itself is removed: exit_hook has put it into the dead LRU.
      <3>5. CASE /\ alive[forker[r].pid] # Null /\ UidOf(alive[forker[r].pid]) = ForkerUid(r)
                 /\ forker[r].pid = p
        <4>1. /\ UidOf(alive[p]) = build_process_unique_id(p, start_time[p])
              /\ "related" \notin lineage[p]
          BY <1>t, <3>5, CachedUid
        <4>2. \E e \in dead : UidOf(e) = build_process_unique_id(p, start_time[p])
          BY <2>1, <4>1 DEF AliveInv, ExitedIsDead, Busy, HookOK, HookCore
        <4> QED BY <2>1, <3>1, <3>5, <4>1, <4>2 DEF Findable, UidOf
      <3> QED BY <3>2, <3>3, <3>4, <3>5 DEF Findable
    <2> QED BY <2>3, <2>4, <2>5 DEF OriginInv
  <1>13. ASSUME NEW p \in Pids, ThreadExit(p)
         PROVE  OriginInv'
    BY <1>13, <1>t DEF ThreadExit, LineageInv, SingleThreaded
  <1>14. ASSUME NEW p \in Pids, Release(p)
         PROVE  OriginInv'
    <2>1. /\ st[p] = "exiting" /\ st'[p] = "free" /\ start_time'[p] = 0
          /\ lineage'[p] = {}
          /\ \A r \in Pids : r # p =>
               /\ st'[r] = st[r] /\ start_time'[r] = start_time[r]
               /\ lineage'[r] = lineage[r] /\ forker'[r] = forker[r]
               /\ real_parent'[r][1] \in {real_parent[r][1], InitPid}
          /\ UNCHANGED <<alive, dead>>
      BY <1>14, <1>t DEF Release, maps, TypeOK
    <2>2. alive[p] = Null
      BY <1>t, <2>1, CachedUid DEF NotYetExited
    <2>3. ~Forked(p)' /\ ~NotYetExited(p)'
      BY <2>1 DEF Forked, NotYetExited
    <2>4. ASSUME NEW r \in Pids, r # p
          PROVE  /\ Forked(r)' = Forked(r) /\ ForkerUid(r)' = ForkerUid(r)
                 /\ NotYetExited(r)' = NotYetExited(r)
      BY <2>1, <2>4 DEF Forked, ForkerUid, NotYetExited, build_process_unique_id
    <2>5. ASSUME NEW r \in Pids PROVE TaskOrigin(r)'
      <3>1. CASE r = p
        BY <2>1, <2>3, <3>1 DEF TaskOrigin
      <3>2. CASE r # p
        BY <2>1, <2>4, <3>2 DEF OriginInv, TaskOrigin
      <3> QED BY <3>1, <3>2
    <2>6. CacheOrigin(alive)'
      BY <2>1, <2>2, <2>4 DEF OriginInv, CacheOrigin, OriginOK
    <2>7. ASSUME NEW r \in Pids, alive'[r] # Null, Forked(r)' PROVE Findable(r)'
      <3>1. r # p /\ Findable(r)
        BY <2>1, <2>2, <2>4, <2>7 DEF OriginInv
      <3> QED BY <2>1, <2>4, <3>1 DEF Findable, UidOf
    <2> QED BY <2>5, <2>6, <2>7 DEF OriginInv
  <1>15. ASSUME NEW e \in dead, Evict(e)
         PROVE  OriginInv'
    BY <1>q, <1>15 DEF Evict
  <1>16. ASSUME NEW h \in hooks, FillRemote(h) \/ MarkParent(h)
         PROVE  OriginInv'
    BY <1>b, <1>g, <1>16 DEF FillRemote, MarkParent, tasks, maps
  <1>17. ASSUME NEW h \in hooks, WriteRemote(h)
         PROVE  OriginInv'
    <2>1. Grown(alive') /\ DeadGrows
      BY <1>17, LateWrite
    <2> QED BY <1>a, <1>17, <2>1 DEF WriteRemote, NotYetExited
  <1>18. CASE UNCHANGED vars
    BY <1>b, <1>g, <1>18 DEF vars, tasks, maps
  <1> QED BY <1>1, <1>2, <1>3, <1>4, <1>6, <1>7, <1>8, <1>9, <1>10, <1>11,
             <1>12, <1>13, <1>14, <1>15, <1>16, <1>17, <1>18 DEF Next, Step, Actions

LEMMA InitQuiet == Init => (Quiet => AliveInv /\ OriginInv)
  BY InitAlive, InitOrigin

LEMMA StepQuiet ==
  ASSUME Quiet => AliveInv /\ OriginInv, [Next]_vars
  PROVE  (Quiet => AliveInv /\ OriginInv)'
  BY SetupKept, NextAlive, NextOrigin DEF Quiet, Env

\* While reservations succeed, every process that runs at attach is a child of
\* init, and no helper, second thread, LRU eviction or signal to a protected
\* process interferes, the alive cache holds running processes only, whatever
\* is forked, looked up, written late, re-parented and recycled.
THEOREM AliveCorrect == Spec => []AliveEntryIsLive
  <1>1. (Quiet => AliveInv /\ OriginInv) => AliveEntryIsLive
    BY DEF AliveInv, CacheOK, EntryOK, AliveEntryIsLive, AliveIsExact, IsCurrent,
           NotYetExited, Exists
  <1> QED BY <1>1, InitQuiet, StepQuiet, PTL DEF Spec

\* While nothing interferes with the hooks, a process in the alive cache that a
\* monitored process has forked names that process as its parent for its whole
\* life: exec_hook copies the parent, and re-parenting to init is not read.
THEOREM OriginCorrect == Spec => []OriginalParentKept
  <1>1. (Quiet => AliveInv /\ OriginInv) => OriginalParentKept
    BY DEF OriginInv, CacheOrigin, OriginOK, Forked, ForkerUid, OriginalParentKept, Tracked
  <1> QED BY <1>1, InitQuiet, StepQuiet, PTL DEF Spec

\* While nothing interferes with the hooks, the process that forked a cached
\* process is in the alive cache or in the dead LRU at every moment, and before
\* exit_hook removes it from the one it is in the other.
THEOREM FindableCorrect == Spec => []ParentIsFindable
  <1>1. ASSUME Quiet => AliveInv /\ OriginInv PROVE ParentIsFindable
    <2> SUFFICES ASSUME Quiet, NEW p \in Pids, Tracked(p)
                 PROVE  \/ \E e \in dead : UidOf(e) = alive[p].unique_ppid
                        \/ /\ alive[alive[p].ppid] # Null
                           /\ UidOf(alive[alive[p].ppid]) = alive[p].unique_ppid
      BY DEF ParentIsFindable
    <2>1. alive[p] # Null /\ Forked(p)
      BY DEF Tracked, Forked
    <2>2. alive[p].ppid = forker[p].pid /\ alive[p].unique_ppid = ForkerUid(p)
      BY <1>1, <2>1 DEF OriginInv, CacheOrigin, OriginOK
    <2>3. Findable(p)
      BY <1>1, <2>1 DEF OriginInv
    <2> QED BY <2>2, <2>3 DEF Findable
  <1> QED BY <1>1, InitQuiet, StepQuiet, PTL DEF Spec

-----------------------------------------------------------------------------
\* Whom a rule kills.

\* A hook that has checked the parent is about to mark the forker of its
\* process, or one with the same pid and unique id.
LEMMA LeftMarks ==
  ASSUME AliveInv, Grown(alive'), NEW h \in HookT, NEW g, LeftBy(g, h), g.op = "mark"
  PROVE  /\ Exists(g.e.ppid)
         /\ build_process_unique_id(g.e.ppid, start_time[g.e.ppid]) = ForkerUid(g.pid)
  <1> DEFINE e == g.e
  <1>1. MayKillParent(alive', e) /\ OriginOK(g.pid, e) /\ e.ppid \in Pids
    BY DEF LeftBy, HookCore, HookT, ProcessT
  <1> HIDE DEF e
  <1>2. /\ alive'[e.ppid] # Null /\ e.unique_ppid = UidOf(alive'[e.ppid])
        /\ alive'[e.ppid].start > 0
        /\ alive'[e.ppid].pid = e.ppid /\ alive'[e.ppid].start = start_time[e.ppid]
        /\ Exists(e.ppid)
    BY <1>1 DEF MayKillParent, is_process_created_after_ebpf_attached, Grown, CacheOK, EntryOK,
                NotYetExited, Exists
  <1>3. e.ppid # InitPid
    BY <1>2 DEF AliveInv, NoHelpers
  <1>4. e.ppid = forker[g.pid].pid /\ e.unique_ppid = ForkerUid(g.pid)
    BY <1>1, <1>3 DEF OriginOK
  <1> QED BY <1>2, <1>4 DEF UidOf, e

\* Every step checks so, and marks nobody unchecked.
LEMMA StepMarks ==
  ASSUME Quiet, AliveInv, OriginInv, [Next]_vars
  PROVE  /\ \A g \in Marking' \ Marking :
              /\ Exists(g.e.ppid)
              /\ build_process_unique_id(g.e.ppid, start_time[g.e.ppid]) = ForkerUid(g.pid)
         /\ \A m \in to_kill' \ to_kill : \E h \in Marking : h.e.ppid = m[1]
  <1> DEFINE Checked(g) ==
               /\ Exists(g.e.ppid)
               /\ build_process_unique_id(g.e.ppid, start_time[g.e.ppid]) = ForkerUid(g.pid)
             Goal == /\ \A g \in Marking' \ Marking : Checked(g)
                     /\ \A m \in to_kill' \ to_kill : \E h \in Marking : h.e.ppid = m[1]
  <1>q. "tampering" \notin Env
    BY DEF Quiet
  <1>h. hooks \subseteq HookT
    BY DEF AliveInv, LineageInv, TypeOK
  <1>1. ASSUME NEW p \in Pids, NEW w \in Workers, NEW ok \in Reserve, NEW a \in Verdicts,
               ExecHook(p, w, ok, a) \/ MonitoredHook(p, w, ok, a)
        PROVE  Goal
    <2>1. /\ Grown(alive')
          /\ \A g \in hooks' : g \in hooks \/ \E h \in HookT : LeftBy(g, h)
      BY <1>1, RunningHook
    <2>2. ASSUME NEW g \in Marking' \ Marking PROVE Checked(g)
      <3>1. g \in hooks' /\ g \notin hooks /\ g.op = "mark"
        BY <2>2 DEF Marking
      <3>2. PICK h \in HookT : LeftBy(g, h)
        BY <2>1, <3>1
      <3> QED BY <2>1, <3>1, <3>2, LeftMarks
    <2>3. to_kill' = to_kill
      BY <1>1 DEF ExecHook, MonitoredHook
    <2> HIDE DEF Checked
    <2> QED BY <2>2, <2>3
  <1>2. ASSUME NEW h \in hooks, WriteRemote(h)
        PROVE  Goal
    <2>1. /\ Grown(alive')
          /\ \A g \in hooks' : g \in hooks \/ LeftBy(g, h)
      BY <1>2, LateWrite
    <2>2. ASSUME NEW g \in Marking' \ Marking PROVE Checked(g)
      <3>1. g \in hooks' /\ g \notin hooks /\ g.op = "mark"
        BY <2>2 DEF Marking
      <3> QED BY <1>h, <2>1, <3>1, LeftMarks
    <2>3. to_kill' = to_kill
      BY <1>2 DEF WriteRemote
    <2> HIDE DEF Checked
    <2> QED BY <2>2, <2>3
  \* exit_hook's look-ups are followed by no check.
  <1>3. ASSUME NEW p \in Pids, NEW ok \in Reserve, ExitHook(p, ok)
        PROVE  Goal
    <2>1. p \in related => hooks' = hooks
      BY <1>3 DEF ExitHook
    <2>2. p \notin related => \A g \in hooks' : g \in hooks \/ g.op = "parent"
      BY <1>3, ExitingHook
    <2>3. Marking' \subseteq Marking
      BY <2>1, <2>2 DEF Marking
    <2>4. to_kill' = to_kill
      BY <1>3 DEF ExitHook
    <2> HIDE DEF Checked
    <2> QED BY <2>3, <2>4
  <1>4. ASSUME NEW h \in hooks, FillRemote(h)
        PROVE  Goal
    <2>1. h \in HookT
      BY <1>h
    <2>2. PICK new : hooks' \subseteq hooks \cup
            {[h EXCEPT !.op = "write", !.entry = new,
                       !.target = IF h.op = "target" THEN NoTarget ELSE @]}
      BY <1>4 DEF FillRemote
    <2>w. [h EXCEPT !.op = "write", !.entry = new,
                    !.target = IF h.op = "target" THEN NoTarget ELSE @].op = "write"
      BY <2>1 DEF HookT
    <2>3. \A g \in hooks' : g \in hooks \/ g.op = "write"
      BY <2>2, <2>w
    <2>4. Marking' \subseteq Marking
      BY <2>3 DEF Marking
    <2>5. to_kill' = to_kill
      BY <1>4 DEF FillRemote, maps
    <2> HIDE DEF Checked
    <2> QED BY <2>4, <2>5
  <1>5. ASSUME NEW h \in hooks, MarkParent(h)
        PROVE  Goal
    <2>1. Marking' \subseteq Marking /\ h \in Marking
      BY <1>5 DEF MarkParent, Marking
    <2>2. \A m \in to_kill' \ to_kill : m[1] = h.e.ppid
      BY <1>5 DEF MarkParent
    <2> HIDE DEF Checked
    <2> QED BY <2>1, <2>2
  \* No other hook checks or marks a process.
  <1>6. ASSUME NEW q \in Pids, NEW w \in Workers,
               \/ SyscallEnter(q, w) \/ BprmCredsForExec(q, w)
               \/ \E c \in Pids, ok \in Reserve : Fork(q, w, c, ok)
               \/ \E r \in Pids, ok \in Reserve, a \in Verdicts : SignalHook(q, w, r, ok, a)
        PROVE  Goal
    <2>1. to_kill' \subseteq to_kill /\ hooks' = hooks
      BY <1>q, <1>6 DEF SyscallEnter, BprmCredsForExec, Fork, SignalHook
    <2> HIDE DEF Checked
    <2> QED BY <2>1 DEF Marking
  <1>7. ASSUME NEW q \in Pids,
               \/ SpawnHelper(q) \/ NewThread(q) \/ ExecFails(q)
               \/ \E img \in Images : BprmCommittedCreds(q, img)
               \/ ExitHookDelete(q) \/ ThreadExit(q) \/ Release(q)
        PROVE  Goal
    <2>1. to_kill' = to_kill /\ hooks' = hooks
      BY <1>7 DEF SpawnHelper, NewThread, ExecFails, BprmCommittedCreds,
                  ExitHookDelete, ThreadExit, Release, maps
    <2> HIDE DEF Checked
    <2> QED BY <2>1 DEF Marking
  <1>e. ASSUME NEW e \in dead, Evict(e)
        PROVE  Goal
    <2>1. to_kill' = to_kill /\ hooks' = hooks
      BY <1>e DEF Evict
    <2> HIDE DEF Checked
    <2> QED BY <2>1 DEF Marking
  <1>8. ASSUME UNCHANGED vars
        PROVE  Goal
    <2> HIDE DEF Checked
    <2> QED BY <1>8 DEF vars, maps, Marking
  <1> HIDE DEF Goal
  <1>9. Goal
    <2>1. ASSUME NEW p \in Pids, NEW w \in Workers,
                 \/ SyscallEnter(p, w)
                 \/ BprmCredsForExec(p, w)
                 \/ \E c \in Pids, ok \in Reserve : Fork(p, w, c, ok)
                 \/ \E ok \in Reserve, a \in Verdicts :
                      ExecHook(p, w, ok, a) \/ MonitoredHook(p, w, ok, a)
                 \/ \E q \in Pids, ok \in Reserve, a \in Verdicts : SignalHook(p, w, q, ok, a)
          PROVE  Goal
      BY <1>1, <1>6, <2>1
    <2>2. ASSUME NEW p \in Pids,
                 \/ SpawnHelper(p) \/ NewThread(p) \/ ExecFails(p)
                 \/ \E img \in Images : BprmCommittedCreds(p, img)
                 \/ \E ok \in Reserve : ExitHook(p, ok)
                 \/ ExitHookDelete(p) \/ ThreadExit(p) \/ Release(p)
          PROVE  Goal
      BY <1>3, <1>7, <2>2
    <2>3. ASSUME NEW h \in hooks, FillRemote(h) \/ WriteRemote(h) \/ MarkParent(h)
          PROVE  Goal
      BY <1>2, <1>4, <1>5, <2>3
    <2>4. Step => Goal
      BY <1>e, <2>1, <2>2, <2>3 DEF Step, Actions
    <2> QED BY <1>8, <2>4 DEF Next
  <1> QED BY <1>9 DEF Goal

\* A rule with KILL_PARENT checks, whatever the granule of the unique id is, that
\* the process it is about to mark exists and has the pid and the unique id of the
\* one that forked the offender; nothing marks a process that was not checked.
THEOREM MarksCorrect == Spec => MarksOriginalParent
  <1>1. ASSUME Quiet => AliveInv /\ OriginInv, [Next]_vars
        PROVE  [Quiet =>
                  /\ \A h \in Marking' \ Marking :
                       /\ Exists(h.e.ppid)
                       /\ build_process_unique_id(h.e.ppid, start_time[h.e.ppid]) =
                            build_process_unique_id(forker[h.pid].pid, forker[h.pid].start)
                  /\ \A m \in to_kill' \ to_kill : \E h \in Marking : h.e.ppid = m[1]]_vars
    BY <1>1, StepMarks DEF ForkerUid
  <1> QED BY <1>1, InitQuiet, StepQuiet, PTL DEF Spec, MarksOriginalParent

-----------------------------------------------------------------------------
\* No change of image is lost, in any environment.

\* The pid sets hold running members of their lineages only, a second thread
\* belongs to a process with an mm that the kernel has not reaped, and no task
\* is newer than the clock.
TaskOK(p) ==
  /\ p \in related => "related" \in lineage[p] /\ st[p] = "run"
  /\ p \in kthread_exec_pids => "helper" \in lineage[p] /\ st[p] = "run"
  /\ "helper" \in lineage[p] => lineage[p] = {"helper"}
  /\ st[p] = "run" /\ ~mm[p] => "helper" \in lineage[p]
  /\ thr[p] # 0 => mm[p] /\ st[p] \notin {"exiting", "free"}
  /\ start_time[p] <= clock

\* An entry e of p, even that of an earlier owner of the pid, is no newer than
\* the clock; if it is that of the present owner, and no other process wrote it,
\* it has its image, or the exec is pending.
ImageOK(p, e) ==
  /\ e.pid = p /\ e.inc <= clock
  /\ Exists(p) /\ start_time[p] = e.inc /\ ~e.remote /\ ~Ignored(p) /\ e.image # image[p] =>
       p \in exec_pids

ImagesOK(al) == al \in AliveT /\ \A p \in Pids : al[p] # Null => ImageOK(p, al[p])

\* What a hook is about to write is known to come from another process.
EntryIsRemote(h) == h.entry # Null => h.entry.remote /\ h.entry.inc <= clock

ImageInv ==
  /\ TypeOK /\ (\A p \in Pids : TaskOK(p)) /\ ImagesOK(alive)
  /\ \A h \in hooks : EntryIsRemote(h)

\* What is read from a task has its image.
LEMMA FillImage ==
  ASSUME ImageInv, NEW p \in Pids, NEW start
  PROVE  ImageOK(p, fill_process_t(p, start))
  <1>1. start_time[p] <= clock
    BY DEF ImageInv, TaskOK
  <1> QED BY <1>1 DEF ImageOK, fill_process_t

LEMMA LookupImages ==
  ASSUME ImageInv, NEW al, ImagesOK(al), NEW p \in Pids, NEW w \in Workers
  PROVE  ImagesOK(fill_event_process_from_cache(al, p, w))
  <1>1. fill_event_process_from_cache(al, p, w) \in AliveT
    BY LookupType DEF ImageInv, ImagesOK
  <1>2. ImageOK(p, fill_process_t(p, TaskStart(p, w)))
    BY FillImage
  <1> QED BY <1>1, <1>2 DEF ImagesOK, AliveT, fill_event_process_from_cache

\* The rest of a hook: exec_hook forgets the exec when it writes the new image.
LEMMA RestImages ==
  ASSUME ImageInv, TypeOK', NEW h \in HookT, NEW al, ImagesOK(al), NEW others \in SUBSET hooks,
         Rest(h, al, others), UNCHANGED <<clock, start_time, image, lineage>>,
         \A q \in Pids : Exists(q)' => Exists(q)
  PROVE  ImagesOK(alive)' /\ \A g \in hooks' : EntryIsRemote(g)'
  <1> DEFINE new == NewProcess(h.pid, h.w, h.e)
  <1>t. TypeOK /\ al \in AliveT /\ alive' \in AliveT /\ h.pid \in Pids
    BY DEF ImageInv, ImagesOK, TypeOK, AliveT, HookT
  <1>1. /\ new.pid = h.pid /\ new.inc = start_time[h.pid] /\ new.image = image[h.pid]
        /\ start_time[h.pid] <= clock
    BY <1>t DEF NewProcess, fill_process_t, ImageInv, TaskOK
  <1>2. /\ alive' = (IF h.hook = "exec" THEN [al EXCEPT ![h.pid] = new] ELSE al)
        /\ exec_pids' = IF h.hook = "exec" THEN exec_pids \ {h.pid} ELSE exec_pids
    BY DEF Rest
  <1> HIDE DEF new
  <1>3. ASSUME NEW q \in Pids, alive'[q] # Null PROVE ImageOK(q, alive[q])'
    <2>1. CASE h.hook = "exec" /\ q = h.pid
      <3>1. alive'[q] = new
        BY <1>t, <1>2, <2>1 DEF AliveT
      <3> QED BY <1>1, <2>1, <3>1 DEF ImageOK
    <2>2. CASE ~(h.hook = "exec" /\ q = h.pid)
      <3>1. alive'[q] = al[q] /\ (q \in exec_pids => q \in exec_pids')
        BY <1>t, <1>2, <2>2 DEF AliveT
      <3>2. ImageOK(q, alive'[q])
        BY <1>3, <3>1 DEF ImagesOK
      <3> QED BY <3>1, <3>2 DEF ImageOK, Ignored
    <2> QED BY <2>1, <2>2
  <1>4. ASSUME NEW g \in hooks' PROVE EntryIsRemote(g)'
    <2> DEFINE k == [h EXCEPT !.target = NoTarget]
    <2>1. k \in HookT
      BY NoTargetType DEF HookT
    <2>2. \/ g \in others
          \/ g = [h EXCEPT !.op = "target", !.hook = "other", !.entry = Null]
          \/ g = [k EXCEPT !.op = "mark", !.hook = "other", !.entry = Null]
      BY <1>4 DEF Rest, kill_proccesses
    <2> HIDE DEF k
    <2>3. g \in others \/ g.entry = Null
      BY <2>1, <2>2 DEF HookT
    <2> QED BY <2>3 DEF EntryIsRemote, ImageInv
  <1> QED BY <1>t, <1>3, <1>4 DEF ImagesOK, AliveT

\* So does a hook that begins.
LEMMA ParentLookupImages ==
  ASSUME ImageInv, TypeOK', NEW h \in HookT, h.entry = Null, NEW al, ImagesOK(al),
         fill_event_parent_process_from_cache(h, al),
         UNCHANGED <<clock, start_time, image, lineage>>,
         \A q \in Pids : Exists(q)' => Exists(q)
  PROVE  ImagesOK(alive)' /\ \A g \in hooks' : EntryIsRemote(g)'
  <1>1. CASE get_process_from_caches(al, h.e.ppid, h.e.unique_ppid) # Null
    <2>1. Rest(h, al, hooks) /\ hooks \in SUBSET hooks
      BY <1>1 DEF fill_event_parent_process_from_cache
    <2> QED BY <2>1, RestImages
  <1>2. CASE get_process_from_caches(al, h.e.ppid, h.e.unique_ppid) = Null
    <2>1. hooks' = hooks \cup {h} /\ alive' = al /\ exec_pids' = exec_pids
      BY <1>2 DEF fill_event_parent_process_from_cache
    <2>2. ASSUME NEW q \in Pids, alive'[q] # Null PROVE ImageOK(q, alive[q])'
      <3>1. ImageOK(q, alive'[q])
        BY <2>1, <2>2 DEF ImagesOK
      <3> QED BY <2>1, <3>1 DEF ImageOK, Ignored
    <2>3. \A g \in hooks' : EntryIsRemote(g)'
      BY <2>1 DEF ImageInv, EntryIsRemote
    <2>4. alive' \in AliveT
      BY DEF TypeOK, AliveT
    <2> QED BY <2>2, <2>3, <2>4 DEF ImagesOK, AliveT
  <1> QED BY <1>1, <1>2

LEMMA InitImage == Init => ImageInv
  <1> SUFFICES ASSUME Init PROVE ImageInv
    OBVIOUS
  <1>1. TypeOK
    BY InitType
  <1>2. ASSUME NEW p \in Pids PROVE TaskOK(p)
    <2>1. "helper" \notin lineage[p] /\ ("related" \in lineage[p] <=> p \in Owlsm)
      BY DEF Init
    <2>2. st[p] = "run" <=> p \in Running
      BY DEF Init
    <2>3. mm[p] <=> p \in Running
      BY Zenon DEF Init
    <2>4. thr[p] = 0 /\ start_time[p] = 0 /\ clock = 0 /\ related = Owlsm /\ kthread_exec_pids = {}
      BY DEF Init
    <2> QED BY <2>1, <2>2, <2>3, <2>4, SetupFacts DEF TaskOK, Running
  <1>3. ImagesOK(alive) /\ hooks = {}
    BY DEF Init, ImagesOK, AliveT
  <1> QED BY <1>1, <1>2, <1>3 DEF ImageInv

\* Every action keeps the invariant.
LEMMA NextImage ==
  ASSUME ImageInv, [Next]_vars
  PROVE  ImageInv'
  <1>t. TypeOK /\ TypeOK' /\ ImagesOK(alive) /\ "leader" \in Workers
        /\ (\A p \in Pids : TaskOK(p)) /\ clock \in Nat
    BY NextType, BoundAssumption DEF ImageInv, TypeOK, Times, Workers
  <1>a. alive' \in AliveT
    BY <1>t DEF TypeOK, AliveT
  <1>e. ASSUME hooks' \subseteq hooks, clock' \in Nat, clock <= clock'
        PROVE  \A h \in hooks' : EntryIsRemote(h)'
    <2> SUFFICES ASSUME NEW h \in hooks', h.entry # Null PROVE h.entry.remote /\ h.entry.inc <= clock'
      BY DEF EntryIsRemote
    <2>1. EntryIsRemote(h) /\ h.entry.inc \in Nat
      BY <1>e, BoundAssumption DEF ImageInv, TypeOK, HookT, ProcessT, Times
    <2> QED BY <1>e, <1>t, <2>1 DEF EntryIsRemote
  \* A step that neither creates nor reaps a task nor changes an image.
  <1>b. ASSUME UNCHANGED <<st, start_time, image, lineage>>, clock' \in Nat, clock <= clock',
               exec_pids \subseteq exec_pids', ImagesOK(alive')
        PROVE  ImagesOK(alive)'
    <2> SUFFICES ASSUME NEW p \in Pids, alive'[p] # Null PROVE ImageOK(p, alive[p])'
      BY <1>a DEF ImagesOK, AliveT
    <2>1. ImageOK(p, alive'[p]) /\ alive'[p].inc \in Nat
      BY <1>a, <1>b, BoundAssumption DEF ImagesOK, AliveT, ProcessT, Times
    <2> QED BY <1>b, <1>t, <2>1 DEF ImageOK, Exists, Ignored
  <1>c. ASSUME UNCHANGED <<clock, st, start_time, thr, mm, lineage, related>>,
               kthread_exec_pids' = kthread_exec_pids
        PROVE  \A p \in Pids : TaskOK(p)'
    BY <1>c, <1>t DEF TaskOK
  <1>d. ASSUME UNCHANGED <<clock, st, start_time, image, thr, mm, lineage, related>>,
               exec_pids' = exec_pids, kthread_exec_pids' = kthread_exec_pids, ImagesOK(alive'),
               hooks' = hooks
        PROVE  ImageInv'
    BY <1>b, <1>c, <1>d, <1>e, <1>t DEF ImageInv
  <1>1. ASSUME NEW p \in Pids, NEW w \in Workers, SyscallEnter(p, w)
        PROVE  ImageInv'
    BY <1>1, <1>d, <1>t DEF SyscallEnter
  <1>2. ASSUME NEW p \in Pids, NEW w \in Workers, BprmCredsForExec(p, w)
        PROVE  ImageInv'
    <2>1. ImagesOK(alive')
      BY <1>2, <1>t, LookupImages DEF BprmCredsForExec
    <2>2. UNCHANGED <<clock, st, start_time, image, thr, mm, lineage, related, exec_pids, hooks>>
      BY <1>2 DEF BprmCredsForExec
    <2>3. ImagesOK(alive)'
      BY <1>b, <1>t, <2>1, <2>2
    <2>4. p \in kthread_exec_pids' /\ p \notin kthread_exec_pids => ~mm[p] /\ st[p] = "run"
      BY <1>2, <1>t DEF BprmCredsForExec, Runs, TaskOK
    <2>5. \A q \in Pids : q # p /\ q \in kthread_exec_pids' => q \in kthread_exec_pids
      BY <1>2 DEF BprmCredsForExec
    <2>6. \A q \in Pids : TaskOK(q)'
      BY <1>t, <2>2, <2>4, <2>5 DEF TaskOK
    <2>7. \A g \in hooks' : EntryIsRemote(g)'
      BY <1>e, <1>t, <2>2
    <2> QED BY <1>t, <2>3, <2>6, <2>7 DEF ImageInv
  <1>3. ASSUME NEW p \in Pids, NEW w \in Workers, NEW c \in Pids, NEW ok \in Reserve,
               Fork(p, w, c, ok)
        PROVE  ImageInv'
    <2> DEFINE child == [ pid |-> c, start |-> clock + 1, ppid |-> p,
                 unique_ppid |-> build_process_unique_id(p, TaskStart(p, w)),
                 image |-> image[p], inc |-> clock + 1, remote |-> FALSE ]
               cached == fill_event_process_from_cache(alive, p, w)
    <2>1. /\ st[c] = "free" /\ clock' = clock + 1 /\ Runs(p, w) /\ mm[p]
          /\ st' = [st EXCEPT ![c] = "run"]
          /\ start_time' = [start_time EXCEPT ![c] = clock + 1]
          /\ image' = [image EXCEPT ![c] = image[p]]
          /\ mm' = [mm EXCEPT ![c] = TRUE]
          /\ lineage' = [lineage EXCEPT ![c] = lineage[p] \ {"helper"}]
          /\ UNCHANGED <<thr, exec_pids, kthread_exec_pids, hooks>>
      BY <1>3 DEF Fork, CreateTask
    <2>2. /\ st'[c] = "run" /\ start_time'[c] = clock + 1 /\ image'[c] = image[p] /\ mm'[c]
          /\ lineage'[c] = lineage[p] \ {"helper"} /\ thr[c] = 0 /\ c \notin kthread_exec_pids
          /\ c \notin related
          /\ \A r \in Pids : r # c =>
               /\ st'[r] = st[r] /\ start_time'[r] = start_time[r] /\ image'[r] = image[r]
               /\ mm'[r] = mm[r] /\ lineage'[r] = lineage[r]
      BY <1>t, <2>1 DEF TypeOK, TaskOK
    <2>3. related' \subseteq related \cup {c} /\ (c \in related' => p \in related)
      BY <1>3, <2>2 DEF Fork
    <2>4. \A q \in Pids : TaskOK(q)'
      <3> SUFFICES ASSUME NEW q \in Pids PROVE TaskOK(q)'
        OBVIOUS
      <3>1. CASE q = c
        BY <1>t, <2>1, <2>2, <2>3, <3>1 DEF TaskOK
      <3>2. CASE q # c
        <4>1. start_time[q] \in Nat
          BY <1>t, BoundAssumption DEF TypeOK, Times
        <4> QED BY <1>t, <2>1, <2>2, <2>3, <3>2, <4>1 DEF TaskOK
      <3> QED BY <3>1, <3>2
    <2>5. ImagesOK(cached)
      BY <1>t, LookupImages
    <2>6. alive' = alive \/ alive' = [cached EXCEPT ![c] = child]
      BY <1>3 DEF Fork
    <2>7. child.pid = c /\ child.inc = clock + 1 /\ child.image = image[p]
      OBVIOUS
    <2> HIDE DEF cached, child
    <2>8. ImagesOK(alive)'
      <3> SUFFICES ASSUME NEW q \in Pids, alive'[q] # Null PROVE ImageOK(q, alive[q])'
        BY <1>a DEF ImagesOK, AliveT
      <3>1. CASE q = c /\ alive'[q] = child
        BY <1>t, <2>1, <2>2, <2>7, <3>1 DEF ImageOK
      <3>2. CASE ~(q = c /\ alive'[q] = child)
        <4>1. ImageOK(q, alive'[q])
          BY <1>t, <2>5, <2>6, <3>2 DEF ImagesOK, AliveT
        <4>2. alive'[q].inc \in Nat
          BY <1>a, BoundAssumption DEF AliveT, ProcessT, Times
        <4>3. CASE q = c
          BY <1>t, <2>1, <2>2, <4>1, <4>2, <4>3 DEF ImageOK
        <4>4. CASE q # c
          BY <1>t, <2>1, <2>2, <4>1, <4>2, <4>4 DEF ImageOK, Exists, Ignored
        <4> QED BY <4>3, <4>4
      <3> QED BY <3>1, <3>2
    <2>9. \A g \in hooks' : EntryIsRemote(g)'
      BY <1>e, <1>t, <2>1
    <2> QED BY <1>t, <2>4, <2>8, <2>9 DEF ImageInv
  <1>4. ASSUME NEW p \in Pids, NEW w \in Workers, NEW ok \in Reserve, NEW a \in Verdicts,
               ExecHook(p, w, ok, a)
        PROVE  ImageInv'
    <2> DEFINE h == HookOf(p, w, "exec", alive[p], a, NoTarget)
    <2>1. alive[p] \in ProcessT
      BY <1>4, <1>t DEF ExecHook, TypeOK
    <2>2. h \in HookT /\ h.entry = Null
      BY <1>t, <2>1, HookOfType, NoTargetType DEF HookOf
    <2>3. fill_event_parent_process_from_cache(h, alive)
      BY <1>4 DEF ExecHook
    <2>4. UNCHANGED <<clock, st, start_time, image, thr, mm, lineage, related,
                      kthread_exec_pids>>
      BY <1>4 DEF ExecHook
    <2> HIDE DEF h
    <2>5. ImagesOK(alive)' /\ \A g \in hooks' : EntryIsRemote(g)'
      BY <1>t, <2>2, <2>3, <2>4, ParentLookupImages DEF Exists
    <2> QED BY <1>c, <1>t, <2>4, <2>5 DEF ImageInv
  <1>5. ASSUME NEW p \in Pids, NEW w \in Workers, NEW ok \in Reserve, NEW a \in Verdicts,
               MonitoredHook(p, w, ok, a)
        PROVE  ImageInv'
    <2> DEFINE al == fill_event_process_from_cache(alive, p, w)
               h == HookOf(p, w, "other", al[p], a, NoTarget)
    <2>1. ImagesOK(al) /\ al[p] \in ProcessT
      BY <1>t, LookupImages, LookupType DEF ImagesOK
    <2>2. h \in HookT /\ h.entry = Null
      <3> HIDE DEF al
      <3> QED BY <1>t, <2>1, HookOfType, NoTargetType DEF HookOf
    <2>3. fill_event_parent_process_from_cache(h, al)
      BY <1>5 DEF MonitoredHook
    <2>4. UNCHANGED <<clock, st, start_time, image, thr, mm, lineage, related,
                      kthread_exec_pids>>
      BY <1>5 DEF MonitoredHook
    <2> HIDE DEF h, al
    <2>5. ImagesOK(alive)' /\ \A g \in hooks' : EntryIsRemote(g)'
      BY <1>t, <2>1, <2>2, <2>3, <2>4, ParentLookupImages DEF Exists
    <2> QED BY <1>c, <1>t, <2>4, <2>5 DEF ImageInv
  <1>6. ASSUME NEW p \in Pids, NEW w \in Workers, NEW q \in Pids, NEW ok \in Reserve,
               NEW a \in Verdicts, SignalHook(p, w, q, ok, a)
        PROVE  ImageInv'
    <2> DEFINE al == fill_event_process_from_cache(alive, p, w)
               t == <<q, start_time[q]>>
               h == HookOf(p, w, "signal", al[p], a, t)
    <2>1. ImagesOK(al) /\ al[p] \in ProcessT
      BY <1>t, LookupImages, LookupType DEF ImagesOK
    <2>2. h \in HookT /\ h.entry = Null
      <3>1. t \in Pids \X Times
        BY <1>t DEF TypeOK
      <3> HIDE DEF al, t
      <3> QED BY <1>t, <2>1, <3>1, HookOfType DEF HookOf
    <2>3. fill_event_parent_process_from_cache(h, al)
      BY <1>6 DEF SignalHook
    <2>4. UNCHANGED <<clock, st, start_time, image, thr, mm, lineage, related,
                      kthread_exec_pids>>
      BY <1>6 DEF SignalHook
    <2> HIDE DEF h, al
    <2>5. ImagesOK(alive)' /\ \A g \in hooks' : EntryIsRemote(g)'
      BY <1>t, <2>1, <2>2, <2>3, <2>4, ParentLookupImages DEF Exists
    <2> QED BY <1>c, <1>t, <2>4, <2>5 DEF ImageInv
  <1>7. ASSUME NEW c \in Pids, SpawnHelper(c)
        PROVE  ImageInv'
    <2>1. /\ st[c] = "free" /\ clock' = clock + 1
          /\ st' = [st EXCEPT ![c] = "run"]
          /\ start_time' = [start_time EXCEPT ![c] = clock + 1]
          /\ image' = [image EXCEPT ![c] = image[InitPid]]
          /\ mm' = [mm EXCEPT ![c] = ~TRUE]
          /\ lineage' = [lineage EXCEPT ![c] = {"helper"}]
          /\ UNCHANGED <<thr, hooks, maps>>
      BY <1>7 DEF SpawnHelper, CreateTask
    <2>2. /\ st'[c] = "run" /\ start_time'[c] = clock + 1
          /\ lineage'[c] = {"helper"} /\ thr[c] = 0 /\ c \notin kthread_exec_pids
          /\ c \notin related
          /\ \A r \in Pids : r # c =>
               /\ st'[r] = st[r] /\ start_time'[r] = start_time[r] /\ image'[r] = image[r]
               /\ mm'[r] = mm[r] /\ lineage'[r] = lineage[r]
      BY <1>t, <2>1 DEF TypeOK, TaskOK
    <2>3. ASSUME NEW q \in Pids PROVE TaskOK(q)'
      <3>1. start_time[q] \in Nat
        BY <1>t, BoundAssumption DEF TypeOK, Times
      <3> QED BY <1>t, <2>1, <2>2, <3>1 DEF TaskOK, maps
    <2>4. ASSUME NEW q \in Pids, alive'[q] # Null PROVE ImageOK(q, alive[q])'
      <3>1. ImageOK(q, alive[q]) /\ alive'[q] = alive[q]
        BY <1>t, <2>1, <2>4 DEF ImagesOK, maps
      <3>2. alive[q].inc \in Nat
        BY <1>a, <2>4, <3>1, BoundAssumption DEF AliveT, ProcessT, Times
      <3>3. CASE q = c
        BY <1>t, <2>1, <2>2, <3>1, <3>2, <3>3 DEF ImageOK
      <3>4. CASE q # c
        BY <1>t, <2>1, <2>2, <3>1, <3>2, <3>4 DEF ImageOK, Exists, Ignored, maps
      <3> QED BY <3>3, <3>4
    <2>5. \A g \in hooks' : EntryIsRemote(g)'
      BY <1>e, <1>t, <2>1
    <2> QED BY <1>a, <1>t, <2>3, <2>4, <2>5 DEF ImageInv, ImagesOK, AliveT
  <1>8. ASSUME NEW p \in Pids, NewThread(p)
        PROVE  ImageInv'
    <2>1. /\ mm[p] /\ st[p] = "run" /\ clock' = clock + 1
          /\ \A q \in Pids : q # p => thr'[q] = thr[q]
          /\ UNCHANGED <<st, start_time, image, mm, lineage, hooks, maps>>
      BY <1>8, <1>t DEF NewThread, Runs, TypeOK
    <2>2. ImagesOK(alive)'
      BY <1>b, <1>t, <2>1 DEF maps
    <2>3. ASSUME NEW q \in Pids PROVE TaskOK(q)'
      <3>1. start_time[q] \in Nat
        BY <1>t, BoundAssumption DEF TypeOK, Times
      <3> QED BY <1>t, <2>1, <3>1 DEF TaskOK, maps
    <2>4. \A g \in hooks' : EntryIsRemote(g)'
      BY <1>e, <1>t, <2>1
    <2> QED BY <1>t, <2>2, <2>3, <2>4 DEF ImageInv
  <1>9. ASSUME NEW p \in Pids, ExecFails(p)
        PROVE  ImageInv'
    BY <1>9, <1>d, <1>t DEF ExecFails, maps
  <1>10. ASSUME NEW p \in Pids, NEW img \in Images, BprmCommittedCreds(p, img)
         PROVE  ImageInv'
    <2>1. /\ st[p] \in {"run", "headless"} /\ st'[p] = "run" /\ thr'[p] = 0 /\ mm'[p]
          /\ \A q \in Pids : q # p =>
               st'[q] = st[q] /\ thr'[q] = thr[q] /\ mm'[q] = mm[q] /\ image'[q] = image[q]
          /\ UNCHANGED <<clock, start_time, lineage, alive, related, kthread_exec_pids, hooks>>
      BY <1>10, <1>t DEF BprmCommittedCreds, TypeOK
    <2>2. /\ exec_pids \subseteq exec_pids'
          /\ p \in exec_pids' \/ p \in related \/ p \in kthread_exec_pids
      BY <1>10 DEF BprmCommittedCreds
    \* A process that is left out of exec_pids is one that the hooks ignore.
    <2>3. p \in exec_pids' \/ Ignored(p)
      BY <1>t, <2>2 DEF TaskOK, Ignored
    <2>4. \A q \in Pids : TaskOK(q)'
      BY <1>t, <2>1 DEF TaskOK
    <2>5. ASSUME NEW q \in Pids, alive'[q] # Null PROVE ImageOK(q, alive[q])'
      <3>1. ImageOK(q, alive[q]) /\ alive'[q] = alive[q]
        BY <1>t, <2>1, <2>5 DEF ImagesOK
      <3>2. CASE q = p
        BY <2>1, <2>3, <3>1, <3>2 DEF ImageOK, Ignored
      <3>3. CASE q # p
        BY <2>1, <2>2, <3>1, <3>3 DEF ImageOK, Exists, Ignored
      <3> QED BY <3>2, <3>3
    <2>6. \A g \in hooks' : EntryIsRemote(g)'
      BY <1>e, <1>t, <2>1
    <2> QED BY <1>a, <1>t, <2>4, <2>5, <2>6 DEF ImageInv, ImagesOK, AliveT
  <1>11. ASSUME NEW p \in Pids, NEW ok \in Reserve, ExitHook(p, ok)
         PROVE  ImageInv'
    <2> DEFINE user == is_userspace_program(p, "leader")
               reported == user /\ p \notin related /\ ok
    <2>1. /\ st[p] = "run" /\ p # InitPid
          /\ st'[p] = IF reported THEN "exit_hook"
                      ELSE IF thr[p] # 0 THEN "headless" ELSE "exiting"
          /\ \A q \in Pids : q # p => st'[q] = st[q]
          /\ kthread_exec_pids' = IF user THEN kthread_exec_pids ELSE kthread_exec_pids \ {p}
          /\ related' = IF user THEN related \ {p} ELSE related
          /\ UNCHANGED <<clock, start_time, thr, mm, image, lineage>>
      BY <1>11, <1>t DEF ExitHook, DropKthreadExec, DropRelated, TypeOK
    <2>3. p \in kthread_exec_pids => ~user
      BY DEF is_userspace_program
    <2>4. p \in related => user
      BY <1>t, <2>1 DEF TaskOK, is_userspace_program
    <2>5. st'[p] \in {"exit_hook", "headless", "exiting"} /\ (thr[p] # 0 => st'[p] # "exiting")
      BY <2>1
    <2>6. p \notin related' /\ p \notin kthread_exec_pids'
      BY <2>1, <2>3, <2>4
    <2>7. related' \subseteq related /\ kthread_exec_pids' \subseteq kthread_exec_pids
      BY <2>1
    <2> HIDE DEF user, reported
    <2>8. ASSUME NEW q \in Pids PROVE TaskOK(q)'
      BY <1>t, <2>1, <2>5, <2>6, <2>7 DEF TaskOK
    <2>9. ImagesOK(alive)' /\ \A g \in hooks' : EntryIsRemote(g)'
      <3> DEFINE al == fill_event_process_from_cache(alive, p, "leader")
                 h == HookOf(p, "leader", "exit", al[p], "ALLOW_EVENT", NoTarget)
      <3>1. ImagesOK(al) /\ al[p] \in ProcessT
        BY <1>t, LookupImages, LookupType DEF ImagesOK
      <3>2. \/ fill_event_parent_process_from_cache(h, al)
            \/ UNCHANGED <<hooks, alive, exec_pids>>
        BY <1>11 DEF ExitHook
      <3>3. h \in HookT /\ h.entry = Null
        <4> HIDE DEF al
        <4> QED BY <1>t, <3>1, HookOfType, NoTargetType DEF HookOf
      <3>4. \A q \in Pids : Exists(q)' => Exists(q)
        BY <2>1 DEF Exists
      <3> HIDE DEF h, al
      <3>5. CASE fill_event_parent_process_from_cache(h, al)
        BY <1>t, <2>1, <3>1, <3>3, <3>4, <3>5, ParentLookupImages
      <3>6. CASE UNCHANGED <<hooks, alive, exec_pids>>
        <4>1. ASSUME NEW q \in Pids, alive'[q] # Null PROVE ImageOK(q, alive[q])'
          <5>1. ImageOK(q, alive'[q])
            BY <1>t, <3>6, <4>1 DEF ImagesOK
          <5> QED BY <2>1, <3>4, <3>6, <5>1 DEF ImageOK, Ignored
        <4>2. \A g \in hooks' : EntryIsRemote(g)'
          BY <1>e, <1>t, <2>1, <3>6
        <4> QED BY <1>a, <4>1, <4>2 DEF ImagesOK, AliveT
      <3> QED BY <3>2, <3>5, <3>6
    <2> QED BY <1>t, <2>8, <2>9 DEF ImageInv
  <1>12. ASSUME NEW p \in Pids, ExitHookDelete(p)
         PROVE  ImageInv'
    <2>1. /\ st[p] = "exit_hook" /\ st'[p] = IF thr[p] # 0 THEN "headless" ELSE "exiting"
          /\ \A q \in Pids : q # p => st'[q] = st[q] /\ alive'[q] = alive[q]
          /\ alive'[p] = Null
          /\ UNCHANGED <<clock, start_time, thr, mm, image, lineage, exec_pids, related,
                         kthread_exec_pids, hooks>>
      BY <1>12, <1>t DEF ExitHookDelete, TypeOK
    <2>2. ASSUME NEW q \in Pids PROVE TaskOK(q)'
      BY <1>t, <2>1 DEF TaskOK
    <2>3. ASSUME NEW q \in Pids, alive'[q] # Null PROVE ImageOK(q, alive[q])'
      <3>1. ImageOK(q, alive[q]) /\ q # p /\ alive'[q] = alive[q]
        BY <1>t, <2>1, <2>3 DEF ImagesOK
      <3> QED BY <2>1, <3>1 DEF ImageOK, Exists, Ignored
    <2>4. \A g \in hooks' : EntryIsRemote(g)'
      BY <1>e, <1>t, <2>1
    <2> QED BY <1>a, <1>t, <2>2, <2>3, <2>4 DEF ImageInv, ImagesOK, AliveT
  <1>13. ASSUME NEW p \in Pids, ThreadExit(p)
         PROVE  ImageInv'
    <2>1. /\ thr[p] # 0 /\ thr'[p] = 0
          /\ st'[p] = IF st[p] = "headless" THEN "exiting" ELSE st[p]
          /\ \A q \in Pids : q # p => st'[q] = st[q] /\ thr'[q] = thr[q]
          /\ UNCHANGED <<clock, start_time, mm, image, lineage, hooks, maps>>
      BY <1>13, <1>t DEF ThreadExit, TypeOK
    <2>2. ASSUME NEW q \in Pids PROVE TaskOK(q)'
      BY <1>t, <2>1 DEF TaskOK, maps
    <2>3. ASSUME NEW q \in Pids, alive'[q] # Null PROVE ImageOK(q, alive[q])'
      <3>1. ImageOK(q, alive[q])
        BY <1>t, <2>1, <2>3 DEF ImagesOK, maps
      <3>2. Exists(q)' => Exists(q)
        BY <2>1 DEF Exists
      <3> QED BY <2>1, <3>1, <3>2 DEF ImageOK, Ignored, maps
    <2>4. \A g \in hooks' : EntryIsRemote(g)'
      BY <1>e, <1>t, <2>1
    <2> QED BY <1>a, <1>t, <2>2, <2>3, <2>4 DEF ImageInv, ImagesOK, AliveT
  <1>14. ASSUME NEW p \in Pids, Release(p)
         PROVE  ImageInv'
    <2>1. /\ st[p] = "exiting" /\ st'[p] = "free" /\ start_time'[p] = 0 /\ ~mm'[p]
          /\ lineage'[p] = {}
          /\ \A q \in Pids : q # p =>
               /\ st'[q] = st[q] /\ start_time'[q] = start_time[q] /\ mm'[q] = mm[q]
               /\ image'[q] = image[q] /\ lineage'[q] = lineage[q]
          /\ UNCHANGED <<clock, thr, hooks, maps>>
      BY <1>14, <1>t DEF Release, TypeOK
    <2>2. ASSUME NEW q \in Pids PROVE TaskOK(q)'
      BY <1>t, <2>1 DEF TaskOK, maps
    <2>3. ASSUME NEW q \in Pids, alive'[q] # Null PROVE ImageOK(q, alive[q])'
      <3>1. ImageOK(q, alive[q])
        BY <1>t, <2>1, <2>3 DEF ImagesOK, maps
      <3> QED BY <2>1, <3>1 DEF ImageOK, Exists, Ignored, maps
    <2>4. \A g \in hooks' : EntryIsRemote(g)'
      BY <1>e, <1>t, <2>1
    <2> QED BY <1>a, <1>t, <2>2, <2>3, <2>4 DEF ImageInv, ImagesOK, AliveT
  <1>15. ASSUME NEW e \in dead, Evict(e)
         PROVE  ImageInv'
    BY <1>15, <1>d, <1>t DEF Evict, tasks
  <1>16. ASSUME NEW h \in hooks, FillRemote(h)
         PROVE  ImageInv'
    <2> DEFINE s == IF h.op = "parent" THEN real_parent[h.pid] ELSE h.target
    <2>1. h \in HookT /\ UNCHANGED <<tasks, maps>>
      BY <1>16, <1>t DEF TypeOK, FillRemote
    <2>2. s \in Pids \X Times
      BY <1>t, <2>1 DEF TypeOK, HookT
    <2>3. PICK new \in Fills(s) : hooks' \subseteq hooks \cup
            {[h EXCEPT !.op = "write", !.entry = new,
                       !.target = IF h.op = "target" THEN NoTarget ELSE @]}
      BY <1>16 DEF FillRemote
    <2> HIDE DEF s
    <2>4. new # Null => new.remote /\ new.inc <= clock
      <3> SUFFICES ASSUME new # Null PROVE new.remote /\ new.inc <= clock
        OBVIOUS
      <3>1. new = [fill_process_t(s[1], s[2]) EXCEPT !.remote = TRUE]
        BY DEF Fills
      <3>2. new.remote /\ new.inc = start_time[s[1]] /\ s[1] \in Pids
        BY <2>2, <3>1 DEF fill_process_t
      <3> QED BY <1>t, <3>2 DEF TaskOK
    <2>5. [h EXCEPT !.op = "write", !.entry = new,
                    !.target = IF h.op = "target" THEN NoTarget ELSE @].entry = new
      BY <2>1 DEF HookT
    <2>6. \A g \in hooks' : g \in hooks \/ g.entry = new
      BY <2>3, <2>5
    <2>7. \A g \in hooks' : EntryIsRemote(g)'
      BY <2>1, <2>4, <2>6 DEF EntryIsRemote, ImageInv, tasks
    <2>8. (\A p \in Pids : TaskOK(p)') /\ ImagesOK(alive)'
      BY <1>b, <1>c, <1>t, <2>1 DEF tasks, maps
    <2> QED BY <1>t, <2>7, <2>8 DEF ImageInv
  <1>17. ASSUME NEW h \in hooks, WriteRemote(h)
         PROVE  ImageInv'
    <2> DEFINE al == IF h.entry = Null THEN alive ELSE [alive EXCEPT ![h.entry.pid] = h.entry]
    <2>1. h \in HookT /\ EntryIsRemote(h) /\ hooks \ {h} \in SUBSET hooks
      BY <1>t DEF TypeOK, ImageInv
    <2>2. Rest(h, al, hooks \ {h})
      BY <1>17 DEF WriteRemote
    <2>3. UNCHANGED <<clock, st, start_time, image, thr, mm, lineage, related,
                      kthread_exec_pids>>
      BY <1>17 DEF WriteRemote
    <2>4. ImagesOK(al)
      <3>1. CASE h.entry = Null
        BY <1>t, <3>1
      <3>2. CASE h.entry # Null
        <4>1. /\ al = [alive EXCEPT ![h.entry.pid] = h.entry] /\ h.entry \in ProcessT
              /\ h.entry.pid \in Pids /\ alive \in AliveT
          BY <1>t, <2>1, <3>2 DEF HookT, ProcessT, ImagesOK
        <4> HIDE DEF al
        <4>2. ImageOK(h.entry.pid, h.entry)
          BY <2>1, <3>2 DEF ImageOK, EntryIsRemote
        <4>3. /\ al \in AliveT /\ al[h.entry.pid] = h.entry
              /\ \A q \in Pids : q # h.entry.pid => al[q] = alive[q]
          BY <4>1 DEF AliveT
        <4> QED BY <1>t, <4>2, <4>3 DEF ImagesOK
      <3> QED BY <3>1, <3>2
    <2> HIDE DEF al
    <2>5. ImagesOK(alive)' /\ \A g \in hooks' : EntryIsRemote(g)'
      BY <1>t, <2>1, <2>2, <2>3, <2>4, RestImages DEF Exists
    <2> QED BY <1>c, <1>t, <2>3, <2>5 DEF ImageInv
  <1>18. ASSUME NEW h \in hooks, MarkParent(h)
         PROVE  ImageInv'
    <2>1. /\ UNCHANGED <<clock, st, start_time, image, thr, mm, lineage, related, alive,
                         exec_pids, kthread_exec_pids>>
          /\ hooks' \subseteq hooks
      BY <1>18 DEF MarkParent, tasks
    <2>2. (\A p \in Pids : TaskOK(p)') /\ ImagesOK(alive)' /\ \A g \in hooks' : EntryIsRemote(g)'
      BY <1>b, <1>c, <1>e, <1>t, <2>1
    <2> QED BY <1>t, <2>2 DEF ImageInv
  <1>19. CASE UNCHANGED vars
    BY <1>19, <1>d, <1>t DEF vars, tasks, maps
  <1> QED BY <1>1, <1>2, <1>3, <1>4, <1>5, <1>6, <1>7, <1>8, <1>9, <1>10, <1>11,
             <1>12, <1>13, <1>14, <1>15, <1>16, <1>17, <1>18, <1>19 DEF Next, Step, Actions

\* Whatever the ring buffer, the LRU, kernel helpers, second threads and signals
\* do: if the alive cache has another image for a process than the one it runs,
\* written by its own hooks or by its creator, the exec is still in exec_pids and exec_hook reports it at the next open.
THEOREM ImageCorrect == Spec => []StaleImageIsPending
  <1>1. ImageInv => StaleImageIsPending
    BY DEF ImageInv, ImagesOK, ImageOK, StaleImageIsPending, IsCurrent
  <1> QED BY <1>1, InitImage, NextImage, PTL DEF Spec
=============================================================================
