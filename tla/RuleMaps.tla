------------------------------- MODULE RuleMaps -------------------------------
(***************************************************************************)
(* The start and the end of owLSM seen from the BPF file system: the maps  *)
(* that hold the rules are created, pinned, filled and frozen by           *)
(* RulesIntoBpfMaps, found again by name when libbpf loads the programs,   *)
(* and unpinned at the end, or at the next start if owLSM was killed.      *)
(*                                                                         *)
(* An instance is one execution of owLSM.  Each has a configuration of its *)
(* own, so an entry is told by the instance that wrote it.                 *)
(***************************************************************************)
EXTENDS Naturals, Sequences

CONSTANTS Instances,  \* executions of owLSM, numbered in the order they start
          Ids,        \* keys in the rule maps
          MaxObjs,    \* bound: maps that exist at the same time; one instance at a
                      \* time needs one for each name
          Envs        \* behaviours of the environment, one of which holds

EnvChoices ==
  { "killed",         \* an instance may die at any point
    "cleanup_fails",  \* remove_all may leave pins behind
    "no_bpffs",       \* /sys/fs/bpf is not, and cannot be, mounted
    "create_fails",   \* bpf_map_create may be refused (memory, privileges)
    "fill_fails",     \* a predicate, a regular expression or a rule may be one that
                      \* cannot be converted, or one too many for its map
    "load_fails",     \* the kernel may refuse the programs or an attachment
    "overlap" }       \* a second instance starts before the first is gone

ASSUME InstanceAssumption == Instances \subseteq Nat \ {0}
ASSUME EnvAssumption == \A e \in Envs : e \subseteq EnvChoices

\* One map that is always created, one that is created when a rule needs it and
\* the rules of one event type, in the order they are created.
MapOrder == <<"predicates_map", "rules_ips_map", "exec_rules">>
Maps == {MapOrder[k] : k \in DOMAIN MapOrder}

ASSUME BoundAssumption == MaxObjs \in Nat /\ MaxObjs >= Len(MapOrder)

Configs == [Maps -> SUBSET Ids]

VARIABLES env,
          pins,   \* /sys/fs/bpf/owLSM: the map pinned under each name, 0 for none
          objs,   \* the maps; one that nothing refers to is freed
          inst    \* the instances

vars == <<env, pins, objs, inst>>

NoMap == 0
Unpinned == [m \in Maps |-> NoMap]

Objs == 1 .. MaxObjs
EmptyMap == [entries |-> [k \in Ids |-> 0], frozen |-> FALSE]

\* pc: where main is.  next, left: the map being filled and its missing ids.
\* fd: that map.  maps: the maps of the skeleton.
NotStarted == [pc |-> "off", config |-> [m \in Maps |-> {}], next |-> 1, left |-> {},
               fd |-> NoMap, maps |-> Unpinned]

Init ==
  /\ env \in Envs
  /\ pins = Unpinned /\ objs = [o \in Objs |-> EmptyMap]
  /\ inst = [i \in Instances |-> NotStarted]

Gone(i) == inst[i].pc \in {"exited", "failed", "dead"}

\* A map lives as long as it is pinned or open (external: the kernel).
Held(p, is) ==
  {p[m] : m \in Maps} \cup UNION {{is[i].fd} \cup {is[i].maps[m] : m \in Maps} : i \in Instances}
Kept(p, is) == [o \in Objs |-> IF o \in Held(p, is) THEN objs[o] ELSE EmptyMap]

\* The process ends; what it had in its memory, or open, is gone with it.
Ends(i, pc) == inst' = [inst EXCEPT ![i] = [NotStarted EXCEPT !.pc = pc]]

\* An exception that leaves setup: exit(1), with the pins as they are.
Throw(i) == Ends(i, "failed") /\ objs' = Kept(pins, inst') /\ UNCHANGED <<env, pins>>

-----------------------------------------------------------------------------
\* system_setup.cpp

\* What remove_all leaves: nothing, or if it fails any part of it.
cleanupOwlsmDirectory ==
  {[m \in Maps |-> IF m \in kept THEN pins[m] ELSE NoMap] :
     kept \in IF "cleanup_fails" \in env THEN SUBSET Maps ELSE {{}}}

KeepPins(i) ==
  /\ inst[i].pc = "setup"
  /\ inst' = [inst EXCEPT ![i].pc = "open"]
  /\ UNCHANGED <<env, pins, objs>>

\* SystemSetup::start, whose result main ignores.
start(i) ==
  /\ inst[i].pc = "setup"
  /\ IF "no_bpffs" \in env THEN UNCHANGED pins ELSE pins' \in cleanupOwlsmDirectory
  /\ inst' = [inst EXCEPT ![i].pc = "open"]
  /\ objs' = Kept(pins', inst)
  /\ UNCHANGED env

-----------------------------------------------------------------------------
\* rules_into_bpf_maps.cpp

Name(i) == MapOrder[inst[i].next]
Populating(i) == inst[i].pc = "open" /\ inst[i].next <= Len(MapOrder)

\* The maps for ips, accepting states and rules of an event are created only if
\* they get an entry.
Skipped(i) == Name(i) # "predicates_map" /\ inst[i].config[Name(i)] = {}

Skip(i) ==
  /\ Populating(i) /\ inst[i].fd = NoMap /\ Skipped(i)
  /\ inst' = [inst EXCEPT ![i].next = @ + 1]
  /\ UNCHANGED <<env, pins, objs>>

\* The instance goes on with a map and the entries it has to write.
Filling(i, obj, ids) == inst' = [inst EXCEPT ![i].fd = obj, ![i].left = ids]

\* The kernel's choice of a map; which one makes no difference.
NewObj == CHOOSE o \in Objs : o \notin Held(pins, inst)

Created(i) ==
  /\ pins' = [pins EXCEPT ![Name(i)] = NewObj]
  /\ Filling(i, NewObj, inst[i].config[Name(i)])
  /\ UNCHANGED objs

\* Mutant: a map that is there is taken to be filled.
TrustExisting(i) ==
  /\ Populating(i) /\ inst[i].fd = NoMap /\ ~Skipped(i)
  /\ IF pins[Name(i)] # NoMap
       THEN Filling(i, pins[Name(i)], {}) /\ UNCHANGED <<env, pins, objs>>
       ELSE Created(i) /\ UNCHANGED env

\* A map that is pinned under the name is used as it is; otherwise one is created
\* and pinned.  Creating it may fail, and pinning it does without the file system
\* or if another instance pins one in between.
create_pin_map(i) ==
  /\ Populating(i) /\ inst[i].fd = NoMap /\ ~Skipped(i)
  /\ \/ /\ pins[Name(i)] # NoMap
        /\ Filling(i, pins[Name(i)], inst[i].config[Name(i)])
        /\ UNCHANGED <<env, pins, objs>>
     \/ /\ pins[Name(i)] = NoMap /\ "no_bpffs" \notin env
        /\ Created(i) /\ UNCHANGED env
     \/ /\ pins[Name(i)] = NoMap /\ {"create_fails", "no_bpffs", "overlap"} \cap env # {}
        /\ Throw(i)

\* The conversion of an entry, which may throw, and bpf_map_update_elem, which a
\* frozen map refuses.
update_elem(i) ==
  /\ Populating(i) /\ inst[i].fd # NoMap
  /\ \E k \in inst[i].left :
       \/ /\ objs[inst[i].fd].frozen \/ "fill_fails" \in env
          /\ Throw(i)
       \/ /\ ~objs[inst[i].fd].frozen
          /\ objs' = [objs EXCEPT ![inst[i].fd].entries[k] = i]
          /\ inst' = [inst EXCEPT ![i].left = @ \ {k}]
          /\ UNCHANGED <<env, pins>>

\* A map can be frozen once only.
freeze_map(i) ==
  /\ Populating(i) /\ inst[i].fd # NoMap /\ inst[i].left = {}
  /\ IF objs[inst[i].fd].frozen THEN Throw(i)
     ELSE /\ objs' = [objs EXCEPT ![inst[i].fd].frozen = TRUE]
          /\ inst' = [inst EXCEPT ![i].fd = NoMap, ![i].next = @ + 1]
          /\ UNCHANGED <<env, pins>>

-----------------------------------------------------------------------------
\* probe_manager.cpp and main.cpp

\* Without "overlap", owLSM is started when no instance of it runs.
Start(i) ==
  /\ inst[i].pc = "off"
  /\ \A j \in Instances : j < i => inst[j].pc # "off" /\ ("overlap" \in env \/ Gone(j))
  /\ \E c \in Configs : inst' = [inst EXCEPT ![i].pc = "setup", ![i].config = c]
  /\ UNCHANGED <<env, pins, objs>>

\* all_bpf__load (libbpf): a map that is pinned under its name is used, the
\* others are created and pinned.
bpfLoad(i) ==
  LET missing == {m \in Maps : pins[m] = NoMap}
      created == CHOOSE f \in [missing -> Objs \ Held(pins, inst)] :
                   \A m, n \in missing : f[m] = f[n] => m = n
      bound == [m \in Maps |-> IF m \in missing THEN created[m] ELSE pins[m]]
  IN /\ inst[i].pc = "open" /\ inst[i].next > Len(MapOrder)
     /\ \/ "load_fails" \in env /\ Throw(i)
        \/ /\ pins' = bound
           /\ inst' = [inst EXCEPT ![i].pc = "loaded", ![i].maps = bound]
           /\ UNCHANGED <<env, objs>>

bpfAttach(i) ==
  /\ inst[i].pc = "loaded"
  /\ \/ "load_fails" \in env /\ Throw(i)
     \/ /\ inst' = [inst EXCEPT ![i].pc = "attached"]
        /\ UNCHANGED <<env, pins, objs>>

\* SIGINT or SIGTERM: main comes back from waitForExitSignal and detaches.
bpfDetach(i) ==
  /\ inst[i].pc = "attached"
  /\ inst' = [inst EXCEPT ![i].pc = "detached"]
  /\ UNCHANGED <<env, pins, objs>>

bpfDestroy(i) ==
  /\ inst[i].pc = "detached"
  /\ pins' \in cleanupOwlsmDirectory
  /\ Ends(i, "exited")
  /\ objs' = Kept(pins', inst')
  /\ UNCHANGED env

\* SIGKILL, a crash (external).
Die(i) ==
  /\ "killed" \in env /\ inst[i].pc # "off" /\ ~Gone(i)
  /\ Ends(i, "dead")
  /\ objs' = Kept(pins, inst')
  /\ UNCHANGED <<env, pins>>

Setup(i) ==
  start(i) \/ Skip(i) \/ create_pin_map(i) \/ update_elem(i) \/ freeze_map(i)
    \/ bpfLoad(i) \/ bpfAttach(i)

Next == \E i \in Instances :
  Start(i) \/ Setup(i) \/ bpfDetach(i) \/ bpfDestroy(i) \/ Die(i)

\* main runs on until it waits for a signal.
Spec == Init /\ [][Next]_vars /\ \A i \in Instances : WF_vars(Setup(i))

-----------------------------------------------------------------------------
(* Properties *)

\* While owLSM is attached, the maps that its programs read hold every entry of
\* its own configuration, and nobody can change them any more: nothing that
\* an earlier instance left pinned, half filled or frozen, is evaluated.
LoadedIsCurrent ==
  \A i \in Instances : inst[i].pc \in {"attached", "detached"} =>
    \A m \in Maps : inst[i].config[m] # {} =>
      LET map == objs[inst[i].maps[m]] IN
      map.frozen /\ \A k \in inst[i].config[m] : map.entries[k] = i

\* Wherever the instance before was stopped, a start gets as far as attaching if
\* it can clean the directory, its own rules can be put into maps and the kernel
\* takes the programs.
StartSucceeds ==
  \A i \in Instances :
    (inst[i].pc = "setup" /\ env \subseteq {"killed"})
      ~> (inst[i].pc \in {"attached", "dead"})
=============================================================================
