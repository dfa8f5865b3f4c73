---------------------------- MODULE ShellDetection ----------------------------
(***************************************************************************)
(* How owLSM finds the shells to hook: the shells of /etc/shells and of    *)
(* the database at the start (ShellsFinder, ShellsDB, CreateProbeObjects), *)
(* and at run time the shells that ShellAsyncWorker recognises in events.  *)
(* Both end in a UprobeProbe, one attached by main and the other by the    *)
(* worker's thread, while files are replaced, linked and removed and owLSM *)
(* is stopped or killed and started again.                                 *)
(*                                                                         *)
(* A file stands for its FileKey (inode, device, time of modification): a  *)
(* new version of a program is another file.                               *)
(***************************************************************************)
EXTENDS Naturals, Sequences, SequencesExt, FiniteSets

CONSTANTS
  Files, NoFile,
  Paths, NoPath,
  ShellPaths,  \* paths that end in the name of a known shell
  ZshPaths,    \* the ones of zsh
  EtcShells,   \* paths in /etc/shells
  Known,       \* files with symbols, or with offsets in the offsets table
  Start0,      \* the files at the beginning, by path
  Envs,        \* behaviours of the environment, one of which holds
  MaxStarts,   \* bound: starts of owLSM
  MaxChanges,  \* bound: changes of the file system
  MaxImages    \* bound: programs executed

EnvChoices ==
  { "upgrade",      \* a path gets a new file
    "link",         \* a file gets a second path, or loses a path
    "insert_fails", \* SQLite may fail to write a row
    "db_fails",     \* ShellsDB::init may throw
    "attach_fails", \* the kernel may refuse a uprobe
    "killed" }      \* owLSM may die at any point

ASSUME ConstantAssumption ==
  /\ IsFiniteSet(Files)
  /\ ShellPaths \subseteq Paths /\ ZshPaths \subseteq ShellPaths /\ EtcShells \subseteq Paths
  /\ Known \subseteq Files
  /\ NoFile \notin Files /\ NoPath \notin Paths
  /\ Start0 \in [Paths -> Files \cup {NoFile}]
  /\ \A e \in Envs : e \subseteq EnvChoices

VARIABLES
  env,
  fs,          \* the file at each path
  unused,      \* files that are not installed yet
  images,      \* the file and path of programs that were executed
  table,       \* shell_db_table, on disk: the path recorded for each file
  m_db,        \* is the database open?
  m_cache,     \* of ShellsDB
  m_non_shells_quick_cache,
  m_queue,     \* the worker's queue
  worker,      \* where the worker is, and the probe that it prepares
  main,        \* where main is, and in a loop over m_probes its position and end
  attaching,   \* what attachProbe does for main and for the worker
  m_probes,    \* the UprobeProbes
  starts, changes

disk == <<fs, unused, images, table>>
heap == <<m_db, m_cache, m_non_shells_quick_cache, m_queue, worker, main, attaching, m_probes>>
vars == <<env, disk, heap, starts, changes>>

NoRows == [f \in Files |-> NoPath]
Rows(t) == {f \in Files : t[f] # NoPath}

NewProbe(path) == [path |-> path, links |-> {}]
IdleWorker == [pc |-> "idle", file |-> NoFile, probe |-> NewProbe(NoPath)]
AtRest == [prog |-> 1, offset |-> NoFile]

\* The programs of a shell: a uretprobe and a uprobe, and a third for zsh.
Programs(path) == IF path \in ZshPaths THEN 1 .. 3 ELSE 1 .. 2

Idle == /\ m_db' = FALSE /\ m_cache' = NoRows /\ m_non_shells_quick_cache' = {}
        /\ m_queue' = <<>> /\ worker' = IdleWorker
        /\ attaching' = [t \in {"main", "worker"} |-> AtRest]
        /\ m_probes' = <<>>

Init ==
  /\ env \in Envs
  /\ fs = Start0 /\ unused = Files \ {Start0[p] : p \in Paths}
  /\ images = {} /\ table = NoRows
  /\ m_db = FALSE /\ m_cache = NoRows /\ m_non_shells_quick_cache = {}
  /\ m_queue = <<>> /\ worker = IdleWorker
  /\ attaching = [t \in {"main", "worker"} |-> AtRest]
  /\ m_probes = <<>>
  /\ main = [pc |-> "off", n |-> 0, end |-> 0]
  /\ starts = 0 /\ changes = 0

-----------------------------------------------------------------------------
\* The machine that owLSM runs on (external).

Change == changes < MaxChanges /\ changes' = changes + 1

Upgrade(p) ==
  /\ "upgrade" \in env /\ Change
  /\ \E f \in unused : fs' = [fs EXCEPT ![p] = f] /\ unused' = unused \ {f}
  /\ UNCHANGED <<env, images, table, heap, starts>>

Link(p, q) ==
  /\ "link" \in env /\ Change
  /\ fs[p] # NoFile /\ fs[q] # fs[p]
  /\ fs' = [fs EXCEPT ![q] = fs[p]]
  /\ UNCHANGED <<env, unused, images, table, heap, starts>>

Unlink(p) ==
  /\ "link" \in env /\ Change
  /\ fs[p] # NoFile /\ fs' = [fs EXCEPT ![p] = NoFile]
  /\ UNCHANGED <<env, unused, images, table, heap, starts>>

Execute(p) ==
  /\ fs[p] # NoFile /\ Cardinality(images) < MaxImages
  /\ images' = images \cup {<<fs[p], p>>}
  /\ UNCHANGED <<env, fs, unused, table, heap, starts, changes>>

-----------------------------------------------------------------------------
\* shell_binary_info_extractor.cpp, shells_finder.cpp and shells_db.cpp

\* getShellType: a program, by its name.
IsShell(p) == fs[p] # NoFile /\ p \in ShellPaths

\* getShellInfo: the file at a path if it is a shell.
getShellInfo(p) == IF IsShell(p) THEN fs[p] ELSE NoFile

\* The offsets of a row: from the symbols of the file, or by its build id from
\* the offsets table.
HasOffsets(f) == f \in Known

\* getUniqueShellsFromEtcShells: one path for each file.
UniqueShells ==
  LET shells == {getShellInfo(p) : p \in EtcShells} \ {NoFile}
  IN {s \in [shells -> EtcShells] : \A f \in shells : getShellInfo(s[f]) = f}

\* INSERT OR REPLACE: a file has one row.
Recorded(t, f, p) == [t EXCEPT ![f] = p]

\* The same for the shells of a set, one after the other.
With(t, s, set) == [f \in Files |-> IF f \in set THEN s[f] ELSE t[f]]

\* Every row is cached under its file, also one whose path has another file now.
loadCacheFromDb == table

\* Mutant: a shell is known by its path.
FindByPath(f, p) == \E g \in Files : m_cache[g] = p

\* Mutant: a shell is taken to be new.
FindNothing(f, p) == FALSE

find(f, p) == f \in Rows(m_cache)

-----------------------------------------------------------------------------
\* setupShellDetection, addShellCommandsMonitoringProbes and ProbeManager

Iterating == main.pc \in {"attach", "detach"}

\* Main gets to its loop over the probes; end() is evaluated once.
Loop(pc, probes) == main' = [pc |-> pc, n |-> 1, end |-> Len(probes)]

\* Mutant: only what is in /etc/shells gets a probe.
ProbesForListed(cache) ==
  {[k \in DOMAIN s |-> NewProbe(cache[s[k]])] :
     s \in SetToSeqs({f \in Rows(cache) : cache[f] \in EtcShells})}

\* One UprobeProbe for each row that is cached, in any order.
ProbesFor(cache) ==
  {[k \in DOMAIN s |-> NewProbe(cache[s[k]])] : s \in SetToSeqs(Rows(cache))}

\* The database stays closed, and what it holds unread, if /etc/shells has no
\* shell.  Each row that cannot be written is cached all the same.
setupShellDetection ==
  /\ main.pc = "off" /\ starts < MaxStarts /\ starts' = starts + 1
  /\ \E shells \in UniqueShells :
       IF DOMAIN shells = {}
         THEN UNCHANGED <<m_db, m_cache, table>>
         ELSE /\ m_db' = TRUE
              /\ m_cache' = With(loadCacheFromDb, shells, DOMAIN shells)
              /\ \E written \in IF "insert_fails" \in env THEN SUBSET DOMAIN shells ELSE {DOMAIN shells} :
                   table' = With(table, shells, written)
  /\ m_probes' \in ProbesFor(m_cache')
  /\ Loop("attach", m_probes')
  /\ UNCHANGED <<env, fs, unused, images, m_non_shells_quick_cache, m_queue, worker,
                 attaching, changes>>

\* The start ends early: ShellsDB::init throws before the first row is written,
\* or owLSM is killed between two rows.
setupFails ==
  /\ main.pc = "off" /\ starts < MaxStarts /\ starts' = starts + 1
  /\ \E shells \in UniqueShells :
       /\ DOMAIN shells # {}
       /\ \/ "db_fails" \in env /\ UNCHANGED table
          \/ /\ "killed" \in env
             /\ \E written \in SUBSET DOMAIN shells : table' = With(table, shells, written)
  /\ UNCHANGED <<env, fs, unused, images, heap, changes>>

\* The path of the UprobeProbe that a thread attaches.
Target(t) == IF t = "main" THEN m_probes[main.n].path ELSE worker.probe.path

Attaching(t) ==
  /\ IF t = "main" THEN main.pc = "attach" /\ main.n <= main.end ELSE worker.pc = "attach"
  /\ attaching[t].prog \in Programs(Target(t))

NextProgram(t) == [attaching EXCEPT ![t] = [prog |-> @.prog + 1, offset |-> NoFile]]

\* attachProbe: the offset comes from the row of the file that is at the path.
attachProbe(t) ==
  LET f == getShellInfo(Target(t)) IN
  /\ Attaching(t) /\ attaching[t].offset = NoFile
  /\ attaching' = IF f # NoFile /\ f \in Rows(m_cache) /\ HasOffsets(f)
                    THEN [attaching EXCEPT ![t].offset = f]
                    ELSE NextProgram(t)
  /\ UNCHANGED <<env, disk, m_db, m_cache, m_non_shells_quick_cache, m_queue, worker, main,
                 m_probes, starts, changes>>

\* attachProbeByOffset: the kernel hooks the file that is now at the path.  A
\* link that it does not give is only logged.
attachProbeByOffset(t) ==
  LET f == fs[Target(t)]
      link == [prog |-> attaching[t].prog, file |-> f, offset |-> attaching[t].offset]
  IN
  /\ Attaching(t) /\ attaching[t].offset # NoFile
  /\ \E new \in (IF f = NoFile THEN {{}} ELSE {{link}}) \cup (IF "attach_fails" \in env THEN {{}} ELSE {}) :
       IF t = "main"
         THEN m_probes' = [m_probes EXCEPT ![main.n].links = @ \cup new] /\ UNCHANGED worker
         ELSE worker' = [worker EXCEPT !.probe.links = @ \cup new] /\ UNCHANGED m_probes
  /\ attaching' = NextProgram(t)
  /\ UNCHANGED <<env, disk, m_db, m_cache, m_non_shells_quick_cache, m_queue, main,
                 starts, changes>>

\* bpfAttach and bpfDetach walk m_probes; bpfAttach returns to setup and main
\* waits for a signal.
bpfAttach ==
  /\ main.pc = "attach"
  /\ \/ /\ main.n <= main.end /\ attaching["main"].prog \notin Programs(Target("main"))
        /\ main' = [main EXCEPT !.n = @ + 1]
        /\ attaching' = [attaching EXCEPT !["main"] = AtRest]
     \/ /\ main.n > main.end
        /\ main' = [main EXCEPT !.pc = "wait"]
        /\ UNCHANGED attaching
  /\ UNCHANGED <<env, disk, m_db, m_cache, m_non_shells_quick_cache, m_queue, worker,
                 m_probes, starts, changes>>

\* A signal arrives.
waitForExitSignal ==
  /\ main.pc = "wait" /\ Loop("detach", m_probes)
  /\ UNCHANGED <<env, disk, m_db, m_cache, m_non_shells_quick_cache, m_queue, worker,
                 attaching, m_probes, starts, changes>>

bpfDetach ==
  /\ main.pc = "detach"
  /\ IF main.n <= main.end
       THEN /\ m_probes' = [m_probes EXCEPT ![main.n].links = {}]
            /\ main' = [main EXCEPT !.n = @ + 1]
       ELSE main' = [main EXCEPT !.pc = "destroy"] /\ UNCHANGED m_probes
  /\ UNCHANGED <<env, disk, m_db, m_cache, m_non_shells_quick_cache, m_queue, worker,
                 attaching, starts, changes>>

Off == main' = [pc |-> "off", n |-> 0, end |-> 0]

\* bpfDestroy stops the worker, which finishes what it has begun; when the
\* process ends the kernel removes the hooks that are left.
bpfDestroy ==
  /\ main.pc = "destroy" /\ worker.pc = "idle"
  /\ Idle /\ Off
  /\ UNCHANGED <<env, disk, starts, changes>>

Ends == Idle /\ Off /\ UNCHANGED <<env, disk, starts, changes>>

Die == "killed" \in env /\ main.pc # "off" /\ Ends

-----------------------------------------------------------------------------
\* shell_async_worker.cpp

\* The consumer has an event of a process with this image.  A path is queued
\* once, which bounds the queue.
distributeIfNeeded(f, p) ==
  /\ main.pc # "off" /\ <<f, p>> \in images
  /\ f \notin m_non_shells_quick_cache
  /\ IF IsShell(p)
       THEN /\ p \notin ToSet(m_queue) /\ m_queue' = Append(m_queue, p)
            /\ UNCHANGED m_non_shells_quick_cache
       ELSE /\ m_non_shells_quick_cache' = m_non_shells_quick_cache \cup {f}
            /\ UNCHANGED m_queue
  /\ UNCHANGED <<env, disk, m_db, m_cache, worker, main, attaching, m_probes, starts, changes>>

\* processItem, as far as find.
processItem ==
  /\ main.pc \notin {"off", "destroy"} /\ worker.pc = "idle" /\ m_queue # <<>>
  /\ m_queue' = Tail(m_queue)
  /\ LET f == getShellInfo(Head(m_queue)) IN
     worker' = IF f = NoFile \/ find(f, Head(m_queue)) THEN IdleWorker
               ELSE [pc |-> "set", file |-> f, probe |-> NewProbe(Head(m_queue))]
  /\ UNCHANGED <<env, disk, m_db, m_cache, m_non_shells_quick_cache, main, attaching,
                 m_probes, starts, changes>>

\* ShellsDB::set caches the shell first; only if the row is written too does the
\* worker go on.
set ==
  /\ worker.pc = "set"
  /\ m_cache' = Recorded(m_cache, worker.file, worker.probe.path)
  /\ \/ /\ m_db /\ table' = Recorded(table, worker.file, worker.probe.path)
        /\ worker' = [worker EXCEPT !.pc = "attach"]
     \/ /\ ~m_db \/ "insert_fails" \in env
        /\ worker' = IdleWorker /\ UNCHANGED table
  /\ UNCHANGED <<env, fs, unused, images, m_db, m_non_shells_quick_cache, m_queue, main,
                 attaching, m_probes, starts, changes>>

\* addAndAttachProbe, after the attachment.  The lock keeps nobody from walking
\* m_probes: the walk sees the vector as it was, or memory that was freed, and
\* then owLSM may die.
addAndAttachProbe ==
  /\ worker.pc = "attach" /\ attaching["worker"].prog \notin Programs(Target("worker"))
  /\ \/ /\ m_probes' = Append(m_probes, worker.probe)
        /\ worker' = IdleWorker
        /\ attaching' = [attaching EXCEPT !["worker"] = AtRest]
        /\ UNCHANGED <<env, disk, m_db, m_cache, m_non_shells_quick_cache, m_queue, main,
                       starts, changes>>
     \/ Iterating /\ Ends

-----------------------------------------------------------------------------
Machine ==
  \E p \in Paths : Upgrade(p) \/ Unlink(p) \/ Execute(p) \/ \E q \in Paths : Link(p, q)

Attach(t) == attachProbe(t) \/ attachProbeByOffset(t)
Worker == processItem \/ set \/ Attach("worker") \/ addAndAttachProbe
Stop == waitForExitSignal \/ bpfDetach \/ bpfDestroy

Next ==
  \/ Machine
  \/ setupShellDetection \/ setupFails \/ Attach("main") \/ bpfAttach \/ Stop \/ Die
  \/ Worker
  \/ \E f \in Files, p \in Paths : distributeIfNeeded(f, p)

\* The threads run, and a shell in use keeps causing events.
Fairness ==
  /\ WF_vars(Worker) /\ WF_vars(Attach("main") \/ bpfAttach)
  /\ \A p \in ShellPaths : WF_vars(\E f \in Files : distributeIfNeeded(f, p))

Spec == Init /\ [][Next]_vars /\ Fairness

-----------------------------------------------------------------------------
(* Properties *)

Placed == UNION {m_probes[n].links : n \in DOMAIN m_probes} \cup worker.probe.links

\* All programs of the path's shell are on the file, at offsets that are its own.
Hooked(f, p) ==
  \A prog \in Programs(p) : [prog |-> prog, file |-> f, offset |-> f] \in Placed

\* No row is lost, which takes an open database and so a shell in /etc/shells, a
\* file that has left a path does not return to it, and the kernel gives the links.
Undisturbed == m_db /\ env \cap {"link", "insert_fails", "attach_fails"} = {}

\* Every path keeps its file.
Unmoved == env \cap {"upgrade", "link"} = {}

\* No path has more probes than rows: a path gets another probe only with another
\* row.
HooksMatchRows ==
  \A p \in Paths :
    Cardinality({n \in DOMAIN m_probes : m_probes[n].path = p})
        + (IF worker.probe.path = p /\ worker.pc = "attach" THEN 1 ELSE 0)
      <= Cardinality({f \in Rows(m_cache) : m_cache[f] = p})

\* While no path gets another file, no program of a shell runs twice for one event:
\* at most one probe, of main's or the worker's, is linked to a file, whatever
\* paths the file has, whoever finds it first, and however often owLSM is killed
\* and started again.
HookedOnce ==
  Unmoved =>
    /\ \A n, k \in DOMAIN m_probes : \A l \in m_probes[n].links, r \in m_probes[k].links :
          l.file = r.file => n = k
    /\ \A n \in DOMAIN m_probes : \A l \in m_probes[n].links, r \in worker.probe.links :
          l.file # r.file

\* When all work is done, a shell that is recorded, and is still where it was
\* recorded, is hooked: being recorded is what keeps the worker from ever looking
\* at it again.
RecordedIsHooked ==
  (Undisturbed /\ main.pc = "wait" /\ worker.pc = "idle") =>
    \A f \in Rows(m_cache) \cap Known : fs[m_cache[f]] = f => Hooked(f, m_cache[f])

\* A shell that runs is hooked in the end, whether or not it is in /etc/shells,
\* unless it is replaced, owLSM stops, or the file is recorded under another of
\* its paths: then that path decides.
DiscoveredIsHooked ==
  \A p \in ShellPaths :
    LET runs == /\ <<fs[p], p>> \in images /\ fs[p] \in Known /\ main.pc = "wait"
                /\ m_cache[fs[p]] \in {NoPath, p}
    IN (Undisturbed /\ runs) ~> (~runs \/ Hooked(fs[p], p))
=============================================================================
