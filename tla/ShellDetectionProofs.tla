------------------------ MODULE ShellDetectionProofs ------------------------
(***************************************************************************)
(* Proofs about ShellDetection, for any files and paths, any number of     *)
(* starts and changes: no shell is hooked twice while paths keep their     *)
(* files, and a row that the worker takes for a reason not to look again   *)
(* has its hooks.                                                          *)
(***************************************************************************)
EXTENDS ShellDetection, FiniteSetTheorems, TLAPS

-----------------------------------------------------------------------------
\* The database and its cache, the probes, and where the two threads are.

RowsT == [Files -> ShellPaths \cup {NoPath}]
LinkT == [prog : 1 .. 3, file : Files, offset : Files]
ProbeT == [path : ShellPaths, links : SUBSET LinkT]

\* What attachProbe does for a thread that is in it.
AttachT == [prog : 1 .. 4, offset : Files \cup {NoFile}]

DataInv ==
  /\ fs \in [Paths -> Files \cup {NoFile}] /\ unused \subseteq Files
  /\ table \in RowsT /\ m_cache \in RowsT
  /\ m_queue \in Seq(ShellPaths)
  /\ m_probes \in Seq(ProbeT)
  /\ attaching \in [{"main", "worker"} -> AttachT]

\* Only the worker adds rows: what it did not find is still not there when it
\* records it, and afterwards the row is its own.
WorkerInv ==
  /\ worker.pc \in {"idle", "set", "attach"}
  /\ worker.pc = "idle" => worker = IdleWorker
  /\ worker.pc # "idle" =>
       worker \in [pc : {"set", "attach"}, file : Files, probe : ProbeT]
  /\ worker.pc = "set" => worker.file \notin Rows(m_cache) /\ worker.probe.links = {}
  /\ worker.pc = "attach" => m_cache[worker.file] = worker.probe.path
  /\ worker.pc # "attach" => attaching["worker"] = AtRest

MainInv ==
  /\ main \in [pc : {"off", "attach", "wait", "detach", "destroy"}, n : Nat, end : Nat]
  /\ main.end <= Len(m_probes)
  /\ main.pc = "attach" => main.n >= 1 /\ main.n <= main.end + 1
  /\ main.pc = "off" => /\ m_cache = NoRows /\ worker = IdleWorker /\ m_probes = <<>>
                        /\ ~m_db
  /\ main.pc # "attach" \/ main.n > main.end => attaching["main"] = AtRest

\* A file that is not installed yet is unknown everywhere.
UnusedInv ==
  \A f \in unused :
    /\ f \notin Rows(table) /\ f \notin Rows(m_cache)
    /\ worker.file # f /\ \A p \in Paths : fs[p] # f

BaseInv == DataInv /\ WorkerInv /\ MainInv /\ UnusedInv

-----------------------------------------------------------------------------
\* Every row has a probe that is, or is going to be, attached for it.

\* The number after the last program of a path's shell.
Done(p) == IF p \in ZshPaths THEN 4 ELSE 3

LEMMA DoneIsAll ==
  ASSUME NEW p
  PROVE  /\ Done(p) \in {3, 4} /\ Programs(p) \subseteq 1 .. 3
         /\ \A k \in 1 .. 4 : (k \in Programs(p) <=> k < Done(p))
  BY DEF Done, Programs

\* The programs before upto are linked to f.
Linked(links, upto, f) ==
  \A prog \in 1 .. 3 : prog < upto => [prog |-> prog, file |-> f, offset |-> f] \in links

\* So are the programs that the thread has done with, and it has no offset but f's.
Progress(t, links, f) ==
  Linked(links, attaching[t].prog, f) /\ attaching[t].offset \in {NoFile, f}

\* The probe at n: still to come in main's loop, at its turn, or attached.
Served(n, f) ==
  \/ main.pc \in {"detach", "destroy"}
  \/ main.pc = "attach" /\ main.n < n /\ n <= main.end
  \/ main.pc = "attach" /\ main.n = n /\ n <= main.end /\ Progress("main", m_probes[n].links, f)
  \/ Linked(m_probes[n].links, Done(m_probes[n].path), f)

RowServed(f) ==
  \/ worker.pc = "attach" /\ worker.file = f /\ Progress("worker", worker.probe.links, f)
  \/ \E n \in DOMAIN m_probes : m_probes[n].path = m_cache[f] /\ Served(n, f)

InPlace(f) == f \in Known /\ f \in Rows(m_cache) /\ fs[m_cache[f]] = f

ServedInv == Undisturbed => \A f \in Files : InPlace(f) => RowServed(f)

DetectInv == BaseInv /\ HooksMatchRows /\ ServedInv

-----------------------------------------------------------------------------
\* Counting.

ProbesAt(p) == {n \in DOMAIN m_probes : m_probes[n].path = p}
RowsAt(p) == {f \in Rows(m_cache) : m_cache[f] = p}
AtWork(p) == IF worker.probe.path = p /\ worker.pc = "attach" THEN 1 ELSE 0

LEMMA HooksUnfold ==
  HooksMatchRows <=>
    \A p \in Paths : Cardinality(ProbesAt(p)) + AtWork(p) <= Cardinality(RowsAt(p))
  BY DEF HooksMatchRows, ProbesAt, RowsAt, AtWork

\* Both sets are finite.
LEMMA CountTypes ==
  ASSUME DataInv, NEW p \in Paths
  PROVE  /\ IsFiniteSet(ProbesAt(p)) /\ Cardinality(ProbesAt(p)) \in Nat
         /\ IsFiniteSet(RowsAt(p)) /\ Cardinality(RowsAt(p)) \in Nat
  <1>1. IsFiniteSet(1 .. Len(m_probes)) /\ DOMAIN m_probes = 1 .. Len(m_probes)
    <2>1. m_probes \in Seq(ProbeT)
      BY DEF DataInv
    <2>2. Len(m_probes) \in Nat /\ DOMAIN m_probes = 1 .. Len(m_probes)
      BY <2>1
    <2> QED BY <2>2, FS_Interval
  <1>2. ProbesAt(p) \subseteq 1 .. Len(m_probes) /\ RowsAt(p) \subseteq Files
    BY <1>1 DEF ProbesAt, RowsAt, Rows
  <1>3. IsFiniteSet(ProbesAt(p)) /\ IsFiniteSet(RowsAt(p))
    BY <1>1, <1>2, FS_Subset, ConstantAssumption
  <1> QED BY <1>3, FS_CardinalityType

\* What a step does to neither the cache, nor the paths of the probes, nor the
\* path that the worker attaches, keeps the counts.
LEMMA CountFrame ==
  ASSUME DataInv, HooksMatchRows, m_cache' = m_cache, DOMAIN m_probes' = DOMAIN m_probes,
         \A n \in DOMAIN m_probes : m_probes'[n].path = m_probes[n].path,
         worker'.pc = "attach" => worker.pc = "attach" /\ worker'.probe.path = worker.probe.path
  PROVE  HooksMatchRows'
  <1> SUFFICES ASSUME NEW p \in Paths
               PROVE  Cardinality(ProbesAt(p)') + AtWork(p)' <= Cardinality(RowsAt(p)')
    BY HooksUnfold DEF HooksMatchRows, ProbesAt, RowsAt, AtWork
  <1>1. ProbesAt(p)' = ProbesAt(p) /\ RowsAt(p)' = RowsAt(p)
    BY DEF ProbesAt, RowsAt, Rows
  <1>2. AtWork(p)' = AtWork(p) \/ AtWork(p)' = 0
    BY DEF AtWork
  <1>3. Cardinality(ProbesAt(p)) + AtWork(p) <= Cardinality(RowsAt(p))
    BY HooksUnfold
  <1> QED BY <1>1, <1>2, <1>3, CountTypes DEF AtWork

-----------------------------------------------------------------------------
\* What keeps a row served, whatever else happens.

\* Where the cache, the worker, its place in attachProbe and main's are as before,
\* links only grow and no file comes to a place of its own, rows stay served.
LEMMA ServedFrame ==
  ASSUME ServedInv, DataInv, Undisturbed' => Undisturbed,
         m_cache' = m_cache, worker' = worker, main' = main, attaching' = attaching,
         m_probes' = m_probes,
         Undisturbed' => \A f \in Files : InPlace(f)' => InPlace(f)
  PROVE  ServedInv'
  BY DEF ServedInv, RowServed, Served, Progress, Linked

\* The file system: only an upgrade, which brings a new file, leaves rows that are
\* to be trusted.
LEMMA MachineStep ==
  ASSUME DetectInv, Machine
  PROVE  DetectInv'
  <1> USE DEF DetectInv, BaseInv
  <1>0. UNCHANGED <<env, table, heap>>
    BY DEF Machine, Upgrade, Unlink, Execute, Link
  <1> DEFINE NoReturn ==
        /\ fs' \in [Paths -> Files \cup {NoFile}] /\ unused' \subseteq unused
        /\ \A f \in unused' : \A p \in Paths : fs'[p] # f
        /\ Undisturbed => \A f \in Files, p \in Paths : f \notin unused /\ fs'[p] = f => fs[p] = f
  <1>1. NoReturn
    <2>0. fs \in [Paths -> Files \cup {NoFile}] /\ unused \subseteq Files
      BY DEF DataInv
    <2>1. ASSUME NEW p \in Paths, Upgrade(p) PROVE NoReturn
      BY <2>0, <2>1, ConstantAssumption DEF Upgrade, UnusedInv
    <2>2. ASSUME NEW p \in Paths, Unlink(p) PROVE NoReturn
      BY <2>0, <2>2, ConstantAssumption DEF Unlink, UnusedInv, Undisturbed
    <2>3. ASSUME NEW p \in Paths, Execute(p) PROVE NoReturn
      BY <2>0, <2>3 DEF Execute, UnusedInv
    <2>4. ASSUME NEW p \in Paths, NEW q \in Paths, Link(p, q) PROVE NoReturn
      BY <2>0, <2>4, ConstantAssumption DEF Link, UnusedInv, Undisturbed
    <2> QED BY <2>1, <2>2, <2>3, <2>4 DEF Machine
  <1>2. DataInv'
    BY <1>0, <1>1 DEF DataInv, heap
  <1>3. WorkerInv' /\ MainInv'
    BY <1>0 DEF WorkerInv, MainInv, heap, Rows
  <1>4. UnusedInv'
    BY <1>0, <1>1 DEF UnusedInv, heap, Rows
  <1>5. HooksMatchRows'
    BY <1>0, CountFrame DEF heap
  <1>6. ServedInv'
    <2>1. ASSUME Undisturbed', NEW f \in Files, InPlace(f)' PROVE InPlace(f)
      <3>1. Undisturbed /\ f \in Rows(m_cache) /\ f \in Known
        BY <1>0, <2>1 DEF Undisturbed, heap, InPlace, Rows
      <3>2. f \notin unused /\ m_cache[f] \in Paths
        BY <3>1, ConstantAssumption DEF UnusedInv, DataInv, RowsT, Rows
      <3>3. fs'[m_cache[f]] = f
        BY <1>0, <2>1 DEF InPlace, heap
      <3> QED BY <1>1, <3>1, <3>2, <3>3 DEF InPlace
    <2> QED BY <1>0, <2>1, ServedFrame DEF heap, Undisturbed
  <1> QED BY <1>2, <1>3, <1>4, <1>5, <1>6

\* A path that is queued is that of a shell.
LEMMA DistributeStep ==
  ASSUME DetectInv, NEW f \in Files, NEW p \in Paths, distributeIfNeeded(f, p)
  PROVE  DetectInv'
  <1> USE DEF DetectInv, BaseInv
  <1>0. UNCHANGED <<env, disk, m_db, m_cache, worker, main, attaching, m_probes>>
    BY DEF distributeIfNeeded
  <1>1. m_queue' \in Seq(ShellPaths)
    <2>1. m_queue' = m_queue \/ (p \in ShellPaths /\ m_queue' = Append(m_queue, p))
      BY DEF distributeIfNeeded, IsShell
    <2>2. m_queue \in Seq(ShellPaths)
      BY DEF DataInv
    <2> QED BY <2>1, <2>2
  <1>2. DataInv' /\ WorkerInv' /\ MainInv' /\ UnusedInv'
    BY <1>0, <1>1 DEF DataInv, WorkerInv, MainInv, UnusedInv, disk, Rows
  <1>3. HooksMatchRows'
    BY <1>0, CountFrame
  <1>4. ServedInv'
    BY <1>0, ServedFrame DEF InPlace, Rows, Undisturbed, disk
  <1> QED BY <1>2, <1>3, <1>4

\* The worker takes an item; it prepares a probe if no row has the file.
LEMMA ProcessItemStep ==
  ASSUME DetectInv, processItem
  PROVE  DetectInv'
  <1> USE DEF DetectInv, BaseInv
  <1> DEFINE p == Head(m_queue)
             f == getShellInfo(p)
  <1>0. /\ UNCHANGED <<env, disk, m_db, m_cache, main, attaching, m_probes>>
        /\ worker = IdleWorker /\ m_queue # <<>> /\ m_queue' = Tail(m_queue)
        /\ main.pc # "off"
    BY DEF processItem, WorkerInv
  <1>1. m_queue' \in Seq(ShellPaths) /\ p \in ShellPaths /\ p \in Paths
    BY <1>0, ConstantAssumption DEF DataInv
  <1>2. \/ worker' = IdleWorker
        \/ /\ worker' = [pc |-> "set", file |-> f, probe |-> NewProbe(p)]
           /\ f \in Files /\ f \notin Rows(m_cache) /\ fs[p] = f
    <2>1. fs[p] \in Files \cup {NoFile}
      BY <1>1 DEF DataInv
    <2> QED BY <2>1 DEF processItem, find, getShellInfo, IsShell
  <1>3. DataInv'
    BY <1>0, <1>1 DEF DataInv, disk
  <1>4. WorkerInv'
    <2>1. attaching["worker"] = AtRest
      BY <1>0 DEF WorkerInv, IdleWorker
    <2>2. NewProbe(p) \in ProbeT /\ NewProbe(p).links = {}
      BY <1>1 DEF NewProbe, ProbeT
    <2> QED BY <1>0, <1>2, <2>1, <2>2 DEF WorkerInv, IdleWorker, Rows
  <1>5. MainInv' /\ UnusedInv'
    <2>1. MainInv'
      BY <1>0 DEF MainInv
    <2>2. worker'.file = NoFile \/ \E q \in Paths : worker'.file = fs[q]
      BY <1>1, <1>2 DEF IdleWorker
    <2> QED BY <1>0, <2>1, <2>2, ConstantAssumption DEF UnusedInv, disk, Rows, DataInv
  <1>6. HooksMatchRows'
    BY <1>0, <1>2, CountFrame DEF IdleWorker
  <1>7. ServedInv'
    <2> SUFFICES ASSUME Undisturbed', NEW g \in Files, InPlace(g)' PROVE RowServed(g)'
      BY DEF ServedInv
    <2>1. RowServed(g)
      BY <1>0 DEF ServedInv, Undisturbed, InPlace, Rows, disk
    <2> QED BY <1>0, <2>1 DEF RowServed, Served, Progress, Linked, IdleWorker
  <1> QED BY <1>3, <1>4, <1>5, <1>6, <1>7

\* ShellsDB::set makes one new row, for which the worker then attaches.
LEMMA SetStep ==
  ASSUME DetectInv, set
  PROVE  DetectInv'
  <1> USE DEF DetectInv, BaseInv
  <1> DEFINE f == worker.file
             p == worker.probe.path
  <1>0. /\ UNCHANGED <<env, fs, unused, m_db, m_queue, main, attaching, m_probes>>
        /\ m_cache' = [m_cache EXCEPT ![f] = p] /\ table' \in {table, [table EXCEPT ![f] = p]}
        /\ worker.pc = "set" /\ worker' \in {[worker EXCEPT !.pc = "attach"], IdleWorker}
    BY DEF set, Recorded
  <1>1. /\ worker \in [pc : {"set", "attach"}, file : Files, probe : ProbeT]
        /\ f \in Files /\ p \in ShellPaths /\ p \in Paths /\ f \notin Rows(m_cache) /\ p # NoPath
        /\ m_cache \in RowsT /\ table \in RowsT
    BY <1>0, ConstantAssumption DEF WorkerInv, ProbeT, DataInv
  <1>2. DataInv'
    BY <1>0, <1>1 DEF DataInv, RowsT
  <1>3. WorkerInv'
    BY <1>0, <1>1 DEF WorkerInv, IdleWorker, RowsT
  <1>4. MainInv'
    <2>1. main.pc # "off"
      BY <1>0 DEF MainInv, IdleWorker
    <2> QED BY <1>0, <2>1 DEF MainInv
  <1>5. UnusedInv'
    BY <1>0, <1>1, ConstantAssumption DEF UnusedInv, Rows, RowsT, IdleWorker, DataInv
  <1>6. HooksMatchRows'
    <2> SUFFICES ASSUME NEW q \in Paths
                 PROVE  Cardinality(ProbesAt(q)') + AtWork(q)' <= Cardinality(RowsAt(q)')
      BY DEF HooksMatchRows, ProbesAt, RowsAt, AtWork
    <2>1. /\ Cardinality(ProbesAt(q)) + AtWork(q) <= Cardinality(RowsAt(q))
          /\ ProbesAt(q)' = ProbesAt(q) /\ AtWork(q) = 0
      BY <1>0, HooksUnfold DEF ProbesAt, AtWork
    <2>2. CASE q = p
      <3>1. RowsAt(q)' = RowsAt(q) \cup {f} /\ f \notin RowsAt(q)
        BY <1>0, <1>1, <2>2 DEF RowsAt, Rows, RowsT
      <3>2. Cardinality(RowsAt(q)') = Cardinality(RowsAt(q)) + 1
        BY <3>1, FS_AddElement, CountTypes
      <3>3. AtWork(q)' \in {0, 1}
        BY DEF AtWork
      <3> QED BY <2>1, <3>2, <3>3, CountTypes
    <2>3. CASE q # p
      <3>1. RowsAt(q)' = RowsAt(q)
        BY <1>0, <1>1, <2>3 DEF RowsAt, Rows, RowsT
      <3>2. AtWork(q)' = 0
        BY <1>0, <1>1, <2>3 DEF AtWork, IdleWorker
      <3> QED BY <2>1, <3>1, <3>2
    <2> QED BY <2>2, <2>3
  <1>7. ServedInv'
    <2> SUFFICES ASSUME Undisturbed', NEW g \in Files, InPlace(g)' PROVE RowServed(g)'
      BY DEF ServedInv
    <2>1. Undisturbed /\ worker' = [worker EXCEPT !.pc = "attach"]
      BY <1>0 DEF set, Undisturbed
    <2>2. CASE g = f
      <3>1. worker'.pc = "attach" /\ worker'.file = g
        BY <1>1, <2>1, <2>2
      <3>2. attaching'["worker"] = AtRest
        BY <1>0 DEF WorkerInv
      <3> QED BY <3>1, <3>2 DEF RowServed, Progress, Linked, AtRest
    <2>3. CASE g # f
      <3>1. InPlace(g) /\ m_cache'[g] = m_cache[g]
        BY <1>0, <1>1, <2>3 DEF InPlace, Rows, RowsT
      <3>2. RowServed(g)
        BY <2>1, <3>1 DEF ServedInv
      <3> QED BY <1>0, <3>1, <3>2 DEF RowServed, Served, Progress, Linked
    <2> QED BY <2>2, <2>3
  <1> QED BY <1>2, <1>3, <1>4, <1>5, <1>6, <1>7

\* The end of a process, whatever it was doing.
LEMMA EndsStep ==
  ASSUME DetectInv, Ends
  PROVE  DetectInv'
  <1> USE DEF DetectInv, BaseInv
  <1>0. /\ UNCHANGED <<env, disk>> /\ Idle /\ Off
    BY DEF Ends
  <1>1. DataInv'
    <2>1. m_queue' \in Seq(ShellPaths) /\ m_probes' \in Seq(ProbeT)
      BY <1>0 DEF Idle
    <2>2. m_cache' \in RowsT
      BY <1>0 DEF Idle, NoRows, RowsT
    <2>3. attaching' \in [{"main", "worker"} -> AttachT]
      BY <1>0 DEF Idle, AtRest, AttachT
    <2> QED BY <1>0, <2>1, <2>2, <2>3 DEF DataInv, disk
  <1>2. WorkerInv' /\ MainInv'
    BY <1>0 DEF WorkerInv, MainInv, Idle, Off, IdleWorker
  <1>3. UnusedInv'
    BY <1>0, ConstantAssumption DEF UnusedInv, Idle, NoRows, Rows, IdleWorker, disk, DataInv
  <1>4. HooksMatchRows'
    <2> SUFFICES ASSUME NEW q \in Paths
                 PROVE  Cardinality(ProbesAt(q)') + AtWork(q)' <= Cardinality(RowsAt(q)')
      BY DEF HooksMatchRows, ProbesAt, RowsAt, AtWork
    <2>1. ProbesAt(q)' = {} /\ AtWork(q)' = 0
      BY <1>0 DEF ProbesAt, AtWork, Idle, IdleWorker
    <2>2. RowsAt(q)' = {}
      BY <1>0 DEF RowsAt, Rows, Idle, NoRows
    <2> QED BY <2>1, <2>2, FS_EmptySet
  <1>5. ServedInv'
    BY <1>0 DEF ServedInv, Undisturbed, Idle
  <1> QED BY <1>1, <1>2, <1>3, <1>4, <1>5

\* A probe that the worker has attached goes behind all that main walks over.
LEMMA AddStep ==
  ASSUME DetectInv, addAndAttachProbe
  PROVE  DetectInv'
  <1> USE DEF DetectInv, BaseInv
  <1>0. CASE Ends
    BY <1>0, EndsStep
  <1>1. CASE ~Ends
    <2>0. /\ UNCHANGED <<env, disk, m_db, m_cache, m_queue, main>>
          /\ m_probes' = Append(m_probes, worker.probe) /\ worker' = IdleWorker
          /\ attaching' = [attaching EXCEPT !["worker"] = AtRest]
          /\ worker.pc = "attach" /\ attaching["worker"].prog \notin Programs(worker.probe.path)
      BY <1>1 DEF addAndAttachProbe, Target
    <2>1. /\ worker.probe \in ProbeT /\ m_cache[worker.file] = worker.probe.path
          /\ worker.file \in Files /\ m_probes \in Seq(ProbeT)
      BY <2>0 DEF WorkerInv, DataInv
    <2> DEFINE N == Len(m_probes) + 1
    <2>2. /\ m_probes' \in Seq(ProbeT) /\ Len(m_probes') = N /\ DOMAIN m_probes' = 1 .. N
          /\ DOMAIN m_probes = 1 .. (N - 1) /\ m_probes'[N] = worker.probe
          /\ N \in Nat \ {0}
          /\ \A n \in DOMAIN m_probes : m_probes'[n] = m_probes[n] /\ n # N
      BY <2>0, <2>1
    <2>3. AtRest \in AttachT
      BY DEF AtRest, AttachT
    <2>4. DataInv'
      BY <2>0, <2>2, <2>3 DEF DataInv, disk
    <2>5. WorkerInv'
      BY <2>0 DEF WorkerInv, IdleWorker, DataInv
    <2>6. MainInv'
      <3>1. main.pc # "off"
        BY <2>0 DEF MainInv, IdleWorker
      <3>2. attaching'["main"] = attaching["main"]
        BY <2>0 DEF DataInv
      <3> QED BY <2>0, <2>2, <3>1, <3>2 DEF MainInv
    <2>7. UnusedInv'
      BY <2>0, ConstantAssumption DEF UnusedInv, disk, Rows, IdleWorker, DataInv
    <2>8. HooksMatchRows'
      <3> SUFFICES ASSUME NEW q \in Paths
                   PROVE  Cardinality(ProbesAt(q)') + AtWork(q)' <= Cardinality(RowsAt(q)')
        BY DEF HooksMatchRows, ProbesAt, RowsAt, AtWork
      <3>1. /\ Cardinality(ProbesAt(q)) + AtWork(q) <= Cardinality(RowsAt(q))
            /\ RowsAt(q)' = RowsAt(q) /\ AtWork(q)' = 0
        BY <2>0, HooksUnfold DEF RowsAt, Rows, AtWork, IdleWorker
      <3>2. CASE worker.probe.path = q
        <4>1. ProbesAt(q)' = ProbesAt(q) \cup {N} /\ N \notin ProbesAt(q) /\ AtWork(q) = 1
          BY <2>0, <2>2, <3>2 DEF ProbesAt, AtWork
        <4>2. Cardinality(ProbesAt(q)') = Cardinality(ProbesAt(q)) + 1
          BY <4>1, FS_AddElement, CountTypes
        <4> QED BY <3>1, <4>1, <4>2, CountTypes
      <3>3. CASE worker.probe.path # q
        <4>1. ProbesAt(q)' = ProbesAt(q) /\ AtWork(q) = 0
          BY <2>0, <2>2, <3>3 DEF ProbesAt, AtWork
        <4> QED BY <3>1, <4>1
      <3> QED BY <3>2, <3>3
    <2>9. ServedInv'
      <3> SUFFICES ASSUME Undisturbed', NEW g \in Files, InPlace(g)' PROVE RowServed(g)'
        BY DEF ServedInv
      <3>1. RowServed(g) /\ m_cache'[g] = m_cache[g]
        BY <2>0 DEF ServedInv, Undisturbed, InPlace, Rows, disk
      <3>2. CASE worker.file = g /\ Progress("worker", worker.probe.links, g)
        <4>1. attaching["worker"].prog \in 1 .. 4 /\ attaching["worker"].prog >= Done(worker.probe.path)
          <5>1. attaching["worker"].prog \in 1 .. 4
            BY DEF DataInv, AttachT
          <5> QED BY <2>0, <5>1, DoneIsAll
        <4>2. Linked(m_probes'[N].links, Done(m_probes'[N].path), g)
          BY <2>2, <3>2, <4>1, DoneIsAll DEF Progress, Linked
        <4> QED BY <2>1, <2>2, <3>1, <3>2, <4>2 DEF RowServed, Served, Linked
      <3>3. ASSUME NEW n \in DOMAIN m_probes, m_probes[n].path = m_cache[g], Served(n, g)
            PROVE  RowServed(g)'
        <4>1. attaching'["main"] = attaching["main"]
          BY <2>0 DEF DataInv
        <4>2. Served(n, g)' /\ n \in DOMAIN m_probes' /\ m_probes'[n].path = m_cache'[g]
          BY <2>0, <2>2, <3>1, <3>3, <4>1 DEF Served, Progress, Linked
        <4> QED BY <4>2 DEF RowServed
      <3> QED BY <3>1, <3>2, <3>3 DEF RowServed
    <2> QED BY <2>4, <2>5, <2>6, <2>7, <2>8, <2>9
  <1> QED BY <1>0, <1>1

-----------------------------------------------------------------------------
\* attachProbe, for main and for the worker.

\* One more program is linked.
LEMMA LinkedNext ==
  ASSUME NEW links, NEW more, NEW f, NEW k \in 1 .. 3, Linked(links, k, f),
         links \subseteq more, [prog |-> k, file |-> f, offset |-> f] \in more
  PROVE  Linked(more, k + 1, f)
  BY DEF Linked

\* The path that a thread attaches at is that of a probe.
LEMMA TargetType ==
  ASSUME BaseInv, NEW t \in {"main", "worker"}, Attaching(t)
  PROVE  /\ Target(t) \in ShellPaths /\ Target(t) \in Paths
         /\ fs[Target(t)] \in Files \cup {NoFile}
         /\ t = "main" => main.n \in DOMAIN m_probes /\ main.n <= main.end /\ main.pc = "attach"
         /\ t = "worker" => worker.pc = "attach"
         /\ attaching[t].prog \in 1 .. 3
  <1>1. CASE t = "main"
    <2>1. main.pc = "attach" /\ main.n <= main.end /\ attaching[t].prog \in 1 .. 3
      BY <1>1, DoneIsAll DEF Attaching
    <2>2. main.n \in 1 .. Len(m_probes)
      BY <2>1 DEF BaseInv, MainInv, DataInv
    <2>3. m_probes \in Seq(ProbeT)
      BY DEF BaseInv, DataInv
    <2>4. m_probes[main.n] \in ProbeT /\ main.n \in DOMAIN m_probes
      BY <2>2, <2>3
    <2>5. Target(t) \in ShellPaths
      BY <1>1, <2>4 DEF Target, ProbeT
    <2> QED BY <1>1, <2>1, <2>4, <2>5, ConstantAssumption DEF BaseInv, DataInv
  <1>2. CASE t = "worker"
    <2>1. worker.pc = "attach" /\ attaching[t].prog \in 1 .. 3
      BY <1>2, DoneIsAll DEF Attaching
    <2>2. Target(t) \in ShellPaths
      BY <1>2, <2>1 DEF Target, BaseInv, WorkerInv, ProbeT
    <2> QED BY <1>2, <2>1, <2>2, ConstantAssumption DEF BaseInv, DataInv
  <1> QED BY <1>1, <1>2

\* A new value for one thread leaves the other's alone.
LEMMA AttachingTypes ==
  ASSUME BaseInv, NEW t \in {"main", "worker"}, Attaching(t), NEW x \in AttachT,
         attaching' = [attaching EXCEPT ![t] = x]
  PROVE  /\ attaching' \in [{"main", "worker"} -> AttachT]
         /\ attaching'[t] = x
         /\ \A u \in {"main", "worker"} : u # t => attaching'[u] = attaching[u]
         /\ worker.pc # "attach" => attaching'["worker"] = AtRest
         /\ main.pc # "attach" \/ main.n > main.end => attaching'["main"] = AtRest
  <1>1. attaching \in [{"main", "worker"} -> AttachT]
    BY DEF BaseInv, DataInv
  <1>2. t = "main" => main.pc = "attach" /\ ~(main.n > main.end)
    BY TargetType DEF BaseInv, MainInv
  <1>3. t = "worker" => worker.pc = "attach"
    BY TargetType
  <1> QED BY <1>1, <1>2, <1>3 DEF BaseInv, WorkerInv, MainInv

\* The file in place at its row's path is the one whose offsets are taken.
LEMMA AttachProbeStep ==
  ASSUME DetectInv, NEW t \in {"main", "worker"}, attachProbe(t)
  PROVE  DetectInv'
  <1> USE DEF DetectInv, BaseInv
  <1> DEFINE f == getShellInfo(Target(t))
             k == attaching[t].prog
             found == f # NoFile /\ f \in Rows(m_cache) /\ HasOffsets(f)
             x == IF found THEN [prog |-> k, offset |-> f] ELSE [prog |-> k + 1, offset |-> NoFile]
  <1>0. /\ UNCHANGED <<env, disk, m_db, m_cache, m_queue, worker, main, m_probes>>
        /\ Attaching(t) /\ attaching[t].offset = NoFile
    BY DEF attachProbe
  <1>1. attaching \in [{"main", "worker"} -> AttachT] /\ attaching[t] \in AttachT
        /\ k \in 1 .. 3
    BY <1>0, TargetType DEF DataInv
  <1>2. x \in AttachT
    BY <1>1 DEF AttachT, Rows
  <1>3. attaching' = [attaching EXCEPT ![t] = x]
    <2>1. CASE found
      <3>1. attaching' = [attaching EXCEPT ![t].offset = f]
        BY <2>1 DEF attachProbe
      <3>2. [attaching[t] EXCEPT !.offset = f] = [prog |-> k, offset |-> f]
        BY <1>1 DEF AttachT
      <3> QED BY <1>1, <2>1, <3>1, <3>2
    <2>2. CASE ~found
      BY <1>1, <2>2 DEF attachProbe, NextProgram
    <2> QED BY <2>1, <2>2
  <1>4. /\ attaching' \in [{"main", "worker"} -> AttachT]
        /\ attaching'[t] = x
        /\ \A u \in {"main", "worker"} : u # t => attaching'[u] = attaching[u]
        /\ worker.pc # "attach" => attaching'["worker"] = AtRest
        /\ main.pc # "attach" \/ main.n > main.end => attaching'["main"] = AtRest
    BY <1>0, <1>2, <1>3, AttachingTypes
  <1>5. DataInv' /\ WorkerInv' /\ MainInv' /\ UnusedInv'
    BY <1>0, <1>4 DEF DataInv, WorkerInv, MainInv, UnusedInv, disk, Rows
  <1>6. HooksMatchRows'
    BY <1>0, CountFrame
  <1>7. ServedInv'
    <2> SUFFICES ASSUME Undisturbed', NEW g \in Files, InPlace(g)' PROVE RowServed(g)'
      BY DEF ServedInv
    <2>1. RowServed(g) /\ InPlace(g)
      BY <1>0 DEF ServedInv, Undisturbed, InPlace, Rows, disk
    <2>2. ASSUME NEW u \in {"main", "worker"}, NEW links, Progress(u, links, g),
                 u = t => Target(u) = m_cache[g]
          PROVE  Progress(u, links, g)'
      <3>1. CASE u = t
        <4>1. f = g /\ found
          <5>1. fs[Target(t)] = g /\ g # NoFile
            BY <2>1, <2>2, <3>1, ConstantAssumption DEF InPlace
          <5> QED BY <1>0, <2>1, <5>1, TargetType DEF getShellInfo, IsShell, InPlace, HasOffsets
        <4> QED BY <1>4, <2>2, <3>1, <4>1 DEF Progress, Linked
      <3>2. CASE u # t
        BY <1>4, <2>2, <3>2 DEF Progress, Linked
      <3> QED BY <3>1, <3>2
    <2>3. CASE worker.pc = "attach" /\ worker.file = g /\ Progress("worker", worker.probe.links, g)
      <3>1. "worker" = t => Target("worker") = m_cache[g]
        BY <2>3 DEF Target, WorkerInv
      <3> QED BY <1>0, <2>2, <2>3, <3>1 DEF RowServed, Progress, Linked
    <2>4. ASSUME NEW n \in DOMAIN m_probes, m_probes[n].path = m_cache[g], Served(n, g)
          PROVE  RowServed(g)'
      <3>1. CASE main.n = n /\ Progress("main", m_probes[n].links, g)
        <4>1. "main" = t => Target("main") = m_cache[g]
          BY <2>4, <3>1 DEF Target
        <4>2. Progress("main", m_probes[n].links, g)'
          BY <1>0, <2>2, <3>1, <4>1 DEF Progress, Linked
        <4>3. Served(n, g)'
          BY <1>0, <2>4, <4>2, <3>1 DEF Served, Linked
        <4> QED BY <1>0, <2>4, <4>3 DEF RowServed
      <3>2. CASE ~(main.n = n /\ Progress("main", m_probes[n].links, g))
        <4>1. Served(n, g)'
          BY <1>0, <2>4, <3>2 DEF Served, Linked
        <4> QED BY <1>0, <2>4, <4>1 DEF RowServed
      <3> QED BY <3>1, <3>2
    <2> QED BY <2>1, <2>3, <2>4 DEF RowServed
  <1> QED BY <1>5, <1>6, <1>7

\* The kernel hooks the file at the path: the one in place, if there is one.
LEMMA AttachByOffsetStep ==
  ASSUME DetectInv, NEW t \in {"main", "worker"}, attachProbeByOffset(t)
  PROVE  DetectInv'
  <1> USE DEF DetectInv, BaseInv
  <1> DEFINE f == fs[Target(t)]
             k == attaching[t].prog
             link == [prog |-> k, file |-> f, offset |-> attaching[t].offset]
             x == [prog |-> k + 1, offset |-> NoFile]
  <1>0. /\ UNCHANGED <<env, disk, m_db, m_cache, m_queue, main>>
        /\ Attaching(t) /\ attaching[t].offset # NoFile
        /\ attaching' = NextProgram(t)
    BY DEF attachProbeByOffset
  <1>a. PICK new \in {{}, {link}} :
          /\ IF t = "main"
               THEN m_probes' = [m_probes EXCEPT ![main.n].links = @ \cup new] /\ UNCHANGED worker
               ELSE worker' = [worker EXCEPT !.probe.links = @ \cup new] /\ UNCHANGED m_probes
          /\ f = NoFile => new = {}
          /\ f # NoFile /\ "attach_fails" \notin env => new = {link}
    BY DEF attachProbeByOffset
  <1>1. /\ attaching \in [{"main", "worker"} -> AttachT] /\ attaching[t] \in AttachT
        /\ k \in 1 .. 3 /\ f \in Files \cup {NoFile}
    BY <1>0, TargetType DEF DataInv
  <1>2. x \in AttachT /\ new \subseteq LinkT
    BY <1>0, <1>1, <1>a DEF AttachT, LinkT
  <1>3. attaching' = [attaching EXCEPT ![t] = x]
    BY <1>0, <1>1 DEF NextProgram
  <1>4. /\ attaching' \in [{"main", "worker"} -> AttachT]
        /\ attaching'[t] = x
        /\ \A u \in {"main", "worker"} : u # t => attaching'[u] = attaching[u]
        /\ worker.pc # "attach" => attaching'["worker"] = AtRest
        /\ main.pc # "attach" \/ main.n > main.end => attaching'["main"] = AtRest
    BY <1>0, <1>2, <1>3, AttachingTypes
  \* What becomes of the probes and of the worker.
  <1>5. /\ m_probes' \in Seq(ProbeT) /\ DOMAIN m_probes' = DOMAIN m_probes
        /\ Len(m_probes') = Len(m_probes)
        /\ \A n \in DOMAIN m_probes :
             /\ m_probes'[n].path = m_probes[n].path
             /\ m_probes'[n].links =
                  IF t = "main" /\ n = main.n THEN m_probes[n].links \cup new ELSE m_probes[n].links
    <2>1. m_probes \in Seq(ProbeT)
      BY DEF DataInv
    <2>2. CASE t = "main"
      <3>1. main.n \in DOMAIN m_probes
        BY <1>0, <2>2, TargetType
      <3>2. m_probes' = [m_probes EXCEPT ![main.n].links = @ \cup new]
        BY <1>a, <2>2
      <3>3. m_probes[main.n] \in ProbeT
        BY <2>1, <3>1
      <3>4. [m_probes[main.n] EXCEPT !.links = @ \cup new] \in ProbeT
        BY <1>2, <3>3 DEF ProbeT
      <3>5. m_probes' = [m_probes EXCEPT ![main.n] = [m_probes[main.n] EXCEPT !.links = @ \cup new]]
        BY <3>2
      <3>6. /\ m_probes' \in Seq(ProbeT) /\ DOMAIN m_probes' = DOMAIN m_probes
            /\ Len(m_probes') = Len(m_probes)
        BY <2>1, <3>1, <3>4, <3>5
      <3>7. ASSUME NEW n \in DOMAIN m_probes
            PROVE  m_probes'[n] = IF n = main.n THEN [m_probes[main.n] EXCEPT !.links = @ \cup new]
                                  ELSE m_probes[n]
        BY <3>5, <3>1
      <3> QED BY <2>2, <3>3, <3>6, <3>7 DEF ProbeT
    <2>3. CASE t = "worker"
      BY <1>a, <2>1, <2>3
    <2> QED BY <2>2, <2>3
  <1>6. /\ t = "main" => worker' = worker
        /\ t = "worker" => /\ worker' \in [pc : {"attach"}, file : Files, probe : ProbeT]
                           /\ worker'.file = worker.file /\ worker'.probe.path = worker.probe.path
                           /\ worker'.probe.links = worker.probe.links \cup new
                           /\ worker.pc = "attach"
    <2>1. CASE t = "main"
      BY <1>a, <2>1
    <2>2. CASE t = "worker"
      <3>1. worker' = [worker EXCEPT !.probe.links = @ \cup new] /\ worker.pc = "attach"
        BY <1>0, <1>a, <2>2, TargetType
      <3>2. worker \in [pc : {"set", "attach"}, file : Files, probe : ProbeT]
        BY <3>1 DEF WorkerInv
      <3>3. [worker.probe EXCEPT !.links = @ \cup new] \in ProbeT
        BY <1>2, <3>2 DEF ProbeT
      <3>4. worker' = [worker EXCEPT !.probe = [worker.probe EXCEPT !.links = @ \cup new]]
        BY <3>1, <3>2
      <3> QED BY <2>2, <3>1, <3>2, <3>3, <3>4 DEF ProbeT
    <2> QED BY <2>1, <2>2
  <1>7. DataInv'
    BY <1>0, <1>4, <1>5 DEF DataInv, disk
  <1>8. WorkerInv'
    <2>1. CASE t = "main"
      BY <1>0, <1>4, <1>6, <2>1 DEF WorkerInv
    <2>2. CASE t = "worker"
      BY <1>0, <1>4, <1>6, <2>2 DEF WorkerInv
    <2> QED BY <2>1, <2>2
  <1>9. MainInv'
    <2>1. main.pc # "off"
      BY <1>0, TargetType DEF MainInv, IdleWorker
    <2> QED BY <1>0, <1>4, <1>5, <2>1 DEF MainInv
  <1>10. UnusedInv'
    <2>1. worker'.file = worker.file
      BY <1>6
    <2> QED BY <1>0, <2>1 DEF UnusedInv, disk, Rows
  <1>11. HooksMatchRows'
    <2>1. worker'.pc = "attach" => worker.pc = "attach" /\ worker'.probe.path = worker.probe.path
      BY <1>6
    <2> QED BY <1>0, <1>5, <2>1, CountFrame
  <1>12. ServedInv'
    <2> SUFFICES ASSUME Undisturbed', NEW g \in Files, InPlace(g)' PROVE RowServed(g)'
      BY DEF ServedInv
    <2>1. RowServed(g) /\ InPlace(g)
      BY <1>0 DEF ServedInv, Undisturbed, InPlace, Rows, disk
    <2>2. ASSUME NEW u \in {"main", "worker"}, NEW links, NEW more, Progress(u, links, g),
                 u = t => Target(u) = m_cache[g] /\ more = links \cup new,
                 u # t => more = links
          PROVE  Linked(more, attaching'[u].prog, g) /\ attaching'[u].offset \in {NoFile, g}
      <3>1. CASE u = t
        <4>1. new = {[prog |-> k, file |-> g, offset |-> g]}
          <5>1. f = g /\ g # NoFile
            BY <2>1, <2>2, <3>1, ConstantAssumption DEF InPlace
          <5>2. attaching[t].offset = g
            BY <1>0, <2>2, <3>1 DEF Progress
          <5> QED BY <1>0, <1>a, <5>1, <5>2 DEF Undisturbed
        <4>2. Linked(more, k + 1, g)
          <5>1. Linked(links, k, g) /\ links \subseteq more
            BY <2>2, <3>1 DEF Progress
          <5>2. [prog |-> k, file |-> g, offset |-> g] \in more
            BY <2>2, <3>1, <4>1
          <5> QED BY <1>1, <5>1, <5>2, LinkedNext
        <4> QED BY <1>4, <3>1, <4>2
      <3>2. CASE u # t
        BY <1>4, <2>2, <3>2 DEF Progress
      <3> QED BY <3>1, <3>2
    <2>3. CASE worker.pc = "attach" /\ worker.file = g /\ Progress("worker", worker.probe.links, g)
      <3>1. "worker" = t => Target("worker") = m_cache[g] /\ worker'.probe.links = worker.probe.links \cup new
        BY <1>6, <2>3 DEF Target, WorkerInv
      <3>2. "worker" # t => worker'.probe.links = worker.probe.links
        BY <1>6
      <3>3. Progress("worker", worker.probe.links, g)'
        BY <2>2, <2>3, <3>1, <3>2 DEF Progress, Linked
      <3>4. worker'.pc = "attach" /\ worker'.file = g
        BY <1>6, <2>3
      <3> QED BY <3>3, <3>4 DEF RowServed
    <2>4. ASSUME NEW n \in DOMAIN m_probes, m_probes[n].path = m_cache[g], Served(n, g)
          PROVE  RowServed(g)'
      <3>0. m_probes'[n].path = m_cache'[g] /\ n \in DOMAIN m_probes'
        BY <1>0, <1>5, <2>4
      <3>1. CASE main.n = n /\ Progress("main", m_probes[n].links, g)
        <4>1. "main" = t => Target("main") = m_cache[g] /\ m_probes'[n].links = m_probes[n].links \cup new
          BY <1>5, <2>4, <3>1 DEF Target
        <4>2. "main" # t => m_probes'[n].links = m_probes[n].links
          BY <1>5
        <4>3. Progress("main", m_probes[n].links, g)'
          BY <2>2, <3>1, <4>1, <4>2 DEF Progress, Linked
        <4>4. m_probes[n].links \subseteq m_probes'[n].links
          BY <1>5
        <4>5. Served(n, g)'
          BY <1>0, <2>4, <3>0, <4>3, <4>4, <3>1 DEF Served, Linked
        <4> QED BY <3>0, <4>5 DEF RowServed
      <3>2. CASE ~(main.n = n /\ Progress("main", m_probes[n].links, g))
        <4>1. m_probes[n].links \subseteq m_probes'[n].links
          BY <1>5
        <4>2. Served(n, g)'
          BY <1>0, <2>4, <3>0, <3>2, <4>1 DEF Served, Linked
        <4> QED BY <3>0, <4>2 DEF RowServed
      <3> QED BY <3>1, <3>2
    <2> QED BY <2>1, <2>3, <2>4 DEF RowServed
  <1> QED BY <1>7, <1>8, <1>9, <1>10, <1>11, <1>12

-----------------------------------------------------------------------------
\* Main: the loops, the start and the end.

LEMMA BpfAttachStep ==
  ASSUME DetectInv, bpfAttach
  PROVE  DetectInv'
  <1> USE DEF DetectInv, BaseInv
  <1>0. /\ UNCHANGED <<env, disk, m_db, m_cache, m_queue, worker, m_probes>>
        /\ main.pc = "attach"
    BY DEF bpfAttach
  <1>1. /\ attaching \in [{"main", "worker"} -> AttachT] /\ AtRest \in AttachT
        /\ main \in [pc : {"off", "attach", "wait", "detach", "destroy"}, n : Nat, end : Nat]
    BY DEF DataInv, MainInv, AtRest, AttachT
  <1>2. /\ attaching' \in [{"main", "worker"} -> AttachT]
        /\ attaching'["worker"] = attaching["worker"]
        /\ attaching'["main"] = AtRest
        /\ main' \in [pc : {"attach", "wait"}, n : Nat, end : Nat] /\ main'.end = main.end
        /\ \/ /\ main.n <= main.end /\ attaching["main"].prog >= Done(m_probes[main.n].path)
              /\ main'.pc = "attach" /\ main'.n = main.n + 1
           \/ main.n > main.end /\ main'.pc = "wait"
    <2>1. CASE main.n <= main.end
      <3>1. /\ attaching["main"].prog \notin Programs(m_probes[main.n].path) /\ main' = [main EXCEPT !.n = @ + 1]
            /\ attaching' = [attaching EXCEPT !["main"] = AtRest]
        BY <1>1, <2>1 DEF bpfAttach, Target
      <3>2. attaching["main"].prog >= Done(m_probes[main.n].path)
        <4>1. attaching["main"].prog \in 1 .. 4
          BY <1>1 DEF AttachT
        <4> QED BY <3>1, <4>1, DoneIsAll
      <3> QED BY <1>0, <1>1, <2>1, <3>1, <3>2
    <2>2. CASE ~(main.n <= main.end)
      BY <1>0, <1>1, <2>2 DEF bpfAttach, MainInv
    <2> QED BY <2>1, <2>2
  <1>3. DataInv' /\ WorkerInv' /\ UnusedInv'
    BY <1>0, <1>2 DEF DataInv, WorkerInv, UnusedInv, disk, Rows
  <1>4. MainInv'
    BY <1>0, <1>1, <1>2 DEF MainInv
  <1>5. HooksMatchRows'
    BY <1>0, CountFrame
  <1>6. ServedInv'
    <2> SUFFICES ASSUME Undisturbed', NEW g \in Files, InPlace(g)' PROVE RowServed(g)'
      BY DEF ServedInv
    <2>1. RowServed(g)
      BY <1>0 DEF ServedInv, Undisturbed, InPlace, Rows, disk
    <2>2. CASE worker.pc = "attach" /\ worker.file = g /\ Progress("worker", worker.probe.links, g)
      BY <1>0, <1>2, <2>2 DEF RowServed, Progress, Linked
    <2>3. ASSUME NEW n \in DOMAIN m_probes, m_probes[n].path = m_cache[g], Served(n, g)
          PROVE  RowServed(g)'
      <3>1. n \in Nat
        BY DEF DataInv
      <3>2. CASE Linked(m_probes[n].links, Done(m_probes[n].path), g)
        BY <1>0, <2>3, <3>2 DEF RowServed, Served, Linked
      <3>3. CASE main.n < n /\ n <= main.end
        <4>1. main'.pc = "attach" /\ main'.n <= n /\ n <= main'.end
          BY <1>1, <1>2, <3>1, <3>3
        <4>2. Progress("main", m_probes[n].links, g)'
          BY <1>2 DEF Progress, Linked, AtRest
        <4>3. Served(n, g)'
          BY <1>1, <1>2, <3>1, <4>1, <4>2 DEF Served
        <4> QED BY <1>0, <2>3, <4>3 DEF RowServed
      <3>4. CASE main.n = n /\ n <= main.end /\ Progress("main", m_probes[n].links, g)
        <4>1. Linked(m_probes[n].links, Done(m_probes[n].path), g)
          <5>1. attaching["main"].prog \in 1 .. 4
            BY <1>1 DEF AttachT
          <5>2. attaching["main"].prog >= Done(m_probes[n].path)
            BY <1>1, <1>2, <3>4
          <5> QED BY <3>4, <5>1, <5>2, DoneIsAll DEF Progress, Linked
        <4> QED BY <3>2, <4>1
      <3> QED BY <1>0, <2>3, <3>2, <3>3, <3>4 DEF Served
    <2> QED BY <2>1, <2>2, <2>3 DEF RowServed
  <1> QED BY <1>3, <1>4, <1>5, <1>6

\* From the signal on nothing is promised of the hooks.
LEMMA StopStep ==
  ASSUME DetectInv, waitForExitSignal \/ bpfDetach
  PROVE  DetectInv'
  <1> USE DEF DetectInv, BaseInv
  <1>0. /\ UNCHANGED <<env, disk, m_db, m_cache, m_queue, worker, attaching>>
        /\ main.pc \in {"wait", "detach"} /\ main'.pc \in {"detach", "destroy"}
        /\ main' \in [pc : {"detach", "destroy"}, n : Nat, end : Nat]
        /\ main'.end <= Len(m_probes)
    <2>1. Len(m_probes) \in Nat
      BY DEF DataInv
    <2>2. CASE waitForExitSignal
      BY <2>1, <2>2 DEF waitForExitSignal, Loop
    <2>3. CASE bpfDetach
      BY <2>1, <2>3 DEF bpfDetach, MainInv
    <2> QED BY <2>2, <2>3
  <1>1. /\ m_probes' \in Seq(ProbeT) /\ DOMAIN m_probes' = DOMAIN m_probes
        /\ Len(m_probes') = Len(m_probes)
        /\ \A n \in DOMAIN m_probes : m_probes'[n].path = m_probes[n].path
    <2>1. m_probes \in Seq(ProbeT)
      BY DEF DataInv
    <2>2. CASE m_probes' = m_probes
      BY <2>1, <2>2
    <2>3. CASE m_probes' # m_probes
      <3>1. m_probes' = [m_probes EXCEPT ![main.n] = [m_probes[main.n] EXCEPT !.links = {}]]
        BY <2>3 DEF waitForExitSignal, bpfDetach
      <3>2. CASE main.n \in DOMAIN m_probes
        <4>1. m_probes[main.n] \in ProbeT
          BY <2>1, <3>2
        <4>2. /\ [m_probes[main.n] EXCEPT !.links = {}] \in ProbeT
              /\ [m_probes[main.n] EXCEPT !.links = {}].path = m_probes[main.n].path
          BY <4>1 DEF ProbeT
        <4> QED BY <2>1, <3>1, <3>2, <4>2
      <3>3. CASE main.n \notin DOMAIN m_probes
        BY <2>1, <2>3, <3>1, <3>3
      <3> QED BY <3>2, <3>3
    <2> QED BY <2>2, <2>3
  <1>2. DataInv' /\ WorkerInv' /\ UnusedInv'
    BY <1>0, <1>1 DEF DataInv, WorkerInv, UnusedInv, disk, Rows
  <1>3. MainInv'
    BY <1>0, <1>1 DEF MainInv
  <1>4. HooksMatchRows'
    BY <1>0, <1>1, CountFrame
  <1>5. ServedInv'
    <2> SUFFICES ASSUME Undisturbed', NEW g \in Files, InPlace(g)' PROVE RowServed(g)'
      BY DEF ServedInv
    <2>1. RowServed(g)
      BY <1>0 DEF ServedInv, Undisturbed, InPlace, Rows, disk
    <2> QED BY <1>0, <1>1, <2>1 DEF RowServed, Served, Progress, Linked
  <1> QED BY <1>2, <1>3, <1>4, <1>5

\* The probes of a start: one for each row.
LEMMA ProbesForRows ==
  ASSUME NEW cache \in RowsT, NEW probes \in ProbesFor(cache)
  PROVE  /\ probes \in Seq(ProbeT)
         /\ \A p \in Paths : Cardinality({n \in DOMAIN probes : probes[n].path = p})
                               <= Cardinality({f \in Rows(cache) : cache[f] = p})
         /\ \A f \in Rows(cache) : \E n \in DOMAIN probes : probes[n].path = cache[f]
  <1> DEFINE R == Rows(cache)
             N == Cardinality(R)
  <1>0. R \subseteq Files /\ IsFiniteSet(R) /\ N \in Nat
    <2>1. R \subseteq Files
      BY DEF Rows
    <2> QED BY <2>1, FS_Subset, FS_CardinalityType, ConstantAssumption
  <1>1. PICK s \in SetToSeqs(R) : probes = [k \in DOMAIN s |-> NewProbe(cache[s[k]])]
    BY DEF ProbesFor
  <1>2. s \in [1 .. N -> R] /\ \A i, j \in 1 .. N : i # j => s[i] # s[j]
    BY <1>1 DEF SetToSeqs
  <1>3. probes = [k \in 1 .. N |-> NewProbe(cache[s[k]])] /\ DOMAIN probes = 1 .. N
    BY <1>1, <1>2
  <1>4. \A k \in 1 .. N : /\ s[k] \in R /\ probes[k] \in ProbeT
                          /\ probes[k].path = cache[s[k]]
    BY <1>2, <1>3 DEF NewProbe, ProbeT, RowsT, Rows
  <1>5. probes \in Seq(ProbeT)
    BY <1>0, <1>3, <1>4
  <1>6. ASSUME NEW p \in Paths
        PROVE  Cardinality({n \in DOMAIN probes : probes[n].path = p})
                 <= Cardinality({f \in Rows(cache) : cache[f] = p})
    <2> DEFINE S == {n \in DOMAIN probes : probes[n].path = p}
               T == {f \in R : cache[f] = p}
               m == [n \in S |-> s[n]]
    <2>1. m \in Injection(S, T)
      BY <1>2, <1>3, <1>4 DEF Injection, IsInjective
    <2>2. IsFiniteSet(T)
      BY <1>0, FS_Subset
    <2> QED BY <2>1, <2>2, FS_Injection
  <1>7. ASSUME NEW f \in R PROVE \E n \in DOMAIN probes : probes[n].path = cache[f]
    <2>1. s \in Injection(1 .. N, R)
      BY <1>2 DEF Injection, IsInjective
    <2>2. Cardinality(1 .. N) = Cardinality(R)
      BY <1>0, FS_Interval
    <2>3. s \in Surjection(1 .. N, R)
      BY <1>0, <2>1, <2>2, FS_Injection
    <2>4. PICK k \in 1 .. N : s[k] = f
      BY <2>3 DEF Surjection
    <2> QED BY <1>3, <1>4, <2>4
  <1> QED BY <1>5, <1>6, <1>7

\* What a start records: installed shells under their paths.
LEMMA FoundShells ==
  ASSUME DataInv, NEW shells \in UniqueShells, NEW f \in DOMAIN shells
  PROVE  /\ shells[f] \in ShellPaths /\ shells[f] \in Paths /\ f \in Files
         /\ fs[shells[f]] = f
  <1> DEFINE S == {getShellInfo(p) : p \in EtcShells} \ {NoFile}
  <1>1. shells \in [S -> EtcShells] /\ \A g \in S : getShellInfo(shells[g]) = g
    BY DEF UniqueShells
  <1>2. getShellInfo(shells[f]) = f /\ f # NoFile /\ shells[f] \in Paths
    BY <1>1, ConstantAssumption
  <1>3. shells[f] \in ShellPaths /\ fs[shells[f]] = f
    BY <1>2 DEF getShellInfo, IsShell
  <1> QED BY <1>2, <1>3 DEF DataInv

LEMMA WithRows ==
  ASSUME DataInv, UnusedInv, NEW shells \in UniqueShells, NEW written \in SUBSET DOMAIN shells
  PROVE  /\ With(table, shells, written) \in RowsT
         /\ \A f \in unused : f \in Files /\ With(table, shells, written)[f] = table[f]
  <1>1. \A f \in written : shells[f] \in ShellPaths /\ shells[f] \in Paths /\ fs[shells[f]] = f
    BY FoundShells
  <1>2. \A f \in unused : f \in Files /\ f \notin written
    BY <1>1 DEF UnusedInv, DataInv
  <1>3. table \in RowsT
    BY DEF DataInv
  <1> QED BY <1>1, <1>2, <1>3 DEF With, RowsT

\* A start makes a probe for each row and begins to attach them.
LEMMA SetupStep ==
  ASSUME DetectInv, setupShellDetection
  PROVE  DetectInv'
  <1> USE DEF DetectInv, BaseInv
  <1>0. /\ UNCHANGED <<env, fs, unused, m_queue, worker, attaching>>
        /\ main.pc = "off" /\ m_probes' \in ProbesFor(m_cache')
        /\ main' = [pc |-> "attach", n |-> 1, end |-> Len(m_probes')]
    BY DEF setupShellDetection, Loop
  <1>1. /\ worker = IdleWorker /\ ~m_db /\ m_cache \in RowsT /\ table \in RowsT
        /\ attaching["main"] = AtRest /\ attaching["worker"] = AtRest
    BY <1>0 DEF MainInv, WorkerInv, DataInv, IdleWorker
  <1>2. /\ m_cache' \in RowsT /\ table' \in RowsT
        /\ \A f \in unused : f \notin Rows(m_cache)' /\ f \notin Rows(table)'
    <2>1. PICK shells \in UniqueShells :
            IF DOMAIN shells = {}
              THEN UNCHANGED <<m_db, m_cache, table>>
              ELSE /\ m_cache' = With(table, shells, DOMAIN shells)
                   /\ \E written \in SUBSET DOMAIN shells : table' = With(table, shells, written)
      BY DEF setupShellDetection, loadCacheFromDb
    <2>2. \A written \in SUBSET DOMAIN shells :
            /\ With(table, shells, written) \in RowsT
            /\ \A f \in unused : f \in Files /\ With(table, shells, written)[f] = table[f]
      BY WithRows
    <2> QED BY <1>1, <2>1, <2>2 DEF UnusedInv, Rows
  <1>3. /\ m_probes' \in Seq(ProbeT)
        /\ \A p \in Paths : Cardinality({n \in DOMAIN m_probes' : m_probes'[n].path = p})
                              <= Cardinality({f \in Rows(m_cache') : m_cache'[f] = p})
        /\ \A f \in Rows(m_cache') : \E n \in DOMAIN m_probes' : m_probes'[n].path = m_cache'[f]
    BY <1>0, <1>2, ProbesForRows
  <1>4. DataInv'
    BY <1>0, <1>2, <1>3 DEF DataInv
  <1>5. WorkerInv' /\ UnusedInv'
    BY <1>0, <1>1, <1>2 DEF WorkerInv, UnusedInv, IdleWorker
  <1>6. MainInv'
    <2>1. Len(m_probes') \in Nat
      BY <1>3
    <2> QED BY <1>0, <1>1, <2>1 DEF MainInv
  <1>7. HooksMatchRows'
    <2> SUFFICES ASSUME NEW p \in Paths
                 PROVE  Cardinality(ProbesAt(p)') + AtWork(p)' <= Cardinality(RowsAt(p)')
      BY DEF HooksMatchRows, ProbesAt, RowsAt, AtWork
    <2>1. AtWork(p)' = 0
      BY <1>0, <1>1 DEF AtWork, IdleWorker
    <2>2. Cardinality(ProbesAt(p)') <= Cardinality(RowsAt(p)')
      BY <1>3 DEF ProbesAt, RowsAt, Rows
    <2>3. Cardinality(ProbesAt(p)') \in Nat
      <3>1. IsFiniteSet(1 .. Len(m_probes')) /\ ProbesAt(p)' \subseteq 1 .. Len(m_probes')
        <4>1. Len(m_probes') \in Nat /\ DOMAIN m_probes' = 1 .. Len(m_probes')
          BY <1>3
        <4> QED BY <4>1, FS_Interval DEF ProbesAt
      <3> QED BY <3>1, FS_Subset, FS_CardinalityType
    <2> QED BY <2>1, <2>2, <2>3
  <1>8. ServedInv'
    <2> SUFFICES ASSUME NEW g \in Files, InPlace(g)' PROVE RowServed(g)'
      BY DEF ServedInv
    <2>1. PICK n \in DOMAIN m_probes' : m_probes'[n].path = m_cache'[g]
      BY <1>3 DEF InPlace, Rows
    <2>2. n \in Nat /\ 1 <= n /\ n <= Len(m_probes')
      BY <1>3
    <2>3. Progress("main", m_probes[n].links, g)'
      BY <1>0, <1>1 DEF Progress, Linked, AtRest
    <2>4. Served(n, g)'
      BY <1>0, <2>2, <2>3 DEF Served
    <2> QED BY <2>1, <2>4 DEF RowServed
  <1> QED BY <1>4, <1>5, <1>6, <1>7, <1>8

\* A start that fails leaves rows behind, of shells that are installed.
LEMMA SetupFailsStep ==
  ASSUME DetectInv, setupFails
  PROVE  DetectInv'
  <1> USE DEF DetectInv, BaseInv
  <1>0. /\ UNCHANGED <<env, fs, unused, heap>> /\ main.pc = "off"
    BY DEF setupFails
  <1>1. table' \in RowsT /\ \A f \in unused : f \notin Rows(table)'
    <2>1. PICK shells \in UniqueShells :
            \/ UNCHANGED table
            \/ \E written \in SUBSET DOMAIN shells : table' = With(table, shells, written)
      BY DEF setupFails
    <2>2. table \in RowsT
      BY DEF DataInv
    <2> QED BY <2>1, <2>2, WithRows DEF UnusedInv, Rows
  <1>2. DataInv' /\ WorkerInv' /\ MainInv' /\ UnusedInv'
    BY <1>0, <1>1 DEF DataInv, WorkerInv, MainInv, UnusedInv, heap, Rows
  <1>3. HooksMatchRows'
    BY <1>0, CountFrame DEF heap
  <1>4. ServedInv'
    BY <1>0, ServedFrame DEF heap, InPlace, Rows, Undisturbed
  <1> QED BY <1>2, <1>3, <1>4

-----------------------------------------------------------------------------
LEMMA InitDetect ==
  ASSUME Init
  PROVE  DetectInv
  <1> USE DEF Init
  <1>1. DataInv
    <2>1. m_queue \in Seq(ShellPaths) /\ m_probes \in Seq(ProbeT)
      OBVIOUS
    <2>2. m_cache \in RowsT /\ table \in RowsT
      BY DEF NoRows, RowsT
    <2>3. attaching \in [{"main", "worker"} -> AttachT]
      BY DEF AtRest, AttachT
    <2>4. fs \in [Paths -> Files \cup {NoFile}] /\ unused \subseteq Files
      BY ConstantAssumption
    <2> QED BY <2>1, <2>2, <2>3, <2>4 DEF DataInv
  <1>2. WorkerInv /\ MainInv
    BY DEF WorkerInv, MainInv, IdleWorker
  <1>3. UnusedInv
    BY ConstantAssumption DEF UnusedInv, NoRows, Rows, IdleWorker
  <1>4. HooksMatchRows
    <2> SUFFICES ASSUME NEW q \in Paths
                 PROVE  Cardinality(ProbesAt(q)) + AtWork(q) <= Cardinality(RowsAt(q))
      BY HooksUnfold
    <2>1. ProbesAt(q) = {} /\ AtWork(q) = 0
      BY DEF ProbesAt, AtWork, IdleWorker
    <2>2. RowsAt(q) = {}
      BY DEF RowsAt, Rows, NoRows
    <2> QED BY <2>1, <2>2, FS_EmptySet
  <1>5. ServedInv
    BY DEF ServedInv, Undisturbed
  <1> QED BY <1>1, <1>2, <1>3, <1>4, <1>5 DEF DetectInv, BaseInv

LEMMA NextDetect ==
  ASSUME DetectInv, [Next]_vars
  PROVE  DetectInv'
  <1>1. CASE Machine
    BY <1>1, MachineStep
  <1>2. CASE setupShellDetection
    BY <1>2, SetupStep
  <1>2a. CASE setupFails
    BY <1>2a, SetupFailsStep
  <1>3. ASSUME NEW t \in {"main", "worker"}, Attach(t) PROVE DetectInv'
    BY <1>3, AttachProbeStep, AttachByOffsetStep DEF Attach
  <1>4. CASE bpfAttach
    BY <1>4, BpfAttachStep
  <1>5. CASE Stop
    <2>1. CASE bpfDestroy
      BY <2>1, EndsStep DEF bpfDestroy, Ends
    <2> QED BY <1>5, <2>1, StopStep DEF Stop
  <1>6. CASE Die
    BY <1>6, EndsStep DEF Die
  <1>7. CASE Worker
    BY <1>3, <1>7, ProcessItemStep, SetStep, AddStep DEF Worker
  <1>8. ASSUME NEW f \in Files, NEW p \in Paths, distributeIfNeeded(f, p) PROVE DetectInv'
    BY <1>8, DistributeStep
  <1>9. CASE UNCHANGED vars
    <2>1. UNCHANGED <<env, disk, heap>>
      BY <1>9 DEF vars
    <2>2. DataInv' /\ WorkerInv' /\ MainInv' /\ UnusedInv'
      BY <2>1 DEF disk, heap, DetectInv, BaseInv, DataInv, WorkerInv, MainInv, UnusedInv, Rows
    <2>3. HooksMatchRows'
      BY <2>1, CountFrame DEF heap, DetectInv, BaseInv
    <2>4. ServedInv'
      BY <2>1, ServedFrame DEF heap, disk, DetectInv, BaseInv, InPlace, Rows, Undisturbed
    <2> QED BY <2>2, <2>3, <2>4 DEF DetectInv, BaseInv
  <1> QED BY <1>1, <1>2, <1>2a, <1>3, <1>4, <1>5, <1>6, <1>7, <1>8, <1>9 DEF Next

LEMMA DetectInvariant == Spec => []DetectInv
  BY InitDetect, NextDetect, PTL DEF Spec

-----------------------------------------------------------------------------
\* Where paths keep their files, rows and links are of the file at their path.

FixedInv ==
  Unmoved =>
    /\ \A f \in Rows(m_cache) : fs[m_cache[f]] = f
    /\ \A f \in Rows(table) : fs[table[f]] = f
    /\ worker.pc # "idle" => fs[worker.probe.path] = worker.file
    /\ \A n \in DOMAIN m_probes : \A l \in m_probes[n].links : fs[m_probes[n].path] = l.file
    /\ \A l \in worker.probe.links : fs[worker.probe.path] = l.file

LEMMA InitFixed ==
  ASSUME Init
  PROVE  FixedInv
  BY DEF Init, FixedInv, NoRows, Rows, IdleWorker, NewProbe

LEMMA EndsFixed ==
  ASSUME FixedInv, Ends
  PROVE  FixedInv'
  BY DEF Ends, Idle, FixedInv, NoRows, Rows, IdleWorker, NewProbe, disk, Unmoved

LEMMA SetupFixed ==
  ASSUME DetectInv, FixedInv, setupShellDetection \/ setupFails
  PROVE  FixedInv'
  <1> SUFFICES ASSUME Unmoved PROVE FixedInv'
    BY DEF FixedInv, Unmoved, setupShellDetection, setupFails
  <1>0. UNCHANGED <<env, fs, worker>> /\ main.pc = "off" /\ DataInv /\ worker = IdleWorker
    BY DEF DetectInv, BaseInv, MainInv, setupShellDetection, setupFails, heap
  <1>1. ASSUME NEW shells \in UniqueShells, NEW written \in SUBSET DOMAIN shells
        PROVE  \A f \in Rows(With(table, shells, written)) : fs[With(table, shells, written)[f]] = f
    <2>1. \A f \in written : fs[shells[f]] = f
      BY <1>0, FoundShells
    <2> QED BY <2>1 DEF FixedInv, With, Rows
  <1>2. /\ \A f \in Rows(m_cache)' : fs[m_cache'[f]] = f
        /\ \A f \in Rows(table)' : fs[table'[f]] = f
        /\ \A n \in DOMAIN m_probes' : m_probes'[n].links = {}
    <2>1. CASE setupShellDetection
      <3>1. PICK shells \in UniqueShells :
              IF DOMAIN shells = {}
                THEN UNCHANGED <<m_db, m_cache, table>>
                ELSE /\ m_cache' = With(table, shells, DOMAIN shells)
                     /\ \E written \in SUBSET DOMAIN shells : table' = With(table, shells, written)
        BY <2>1 DEF setupShellDetection, loadCacheFromDb
      <3>2. m_probes' \in ProbesFor(m_cache')
        BY <2>1 DEF setupShellDetection
      <3>3. \A n \in DOMAIN m_probes' : m_probes'[n].links = {}
        BY <3>2 DEF ProbesFor, NewProbe
      <3> QED BY <1>1, <3>1, <3>3 DEF FixedInv, Rows
    <2>2. CASE setupFails
      <3>1. PICK shells \in UniqueShells :
              \/ UNCHANGED table
              \/ \E written \in SUBSET DOMAIN shells : table' = With(table, shells, written)
        BY <2>2 DEF setupFails
      <3>2. UNCHANGED <<m_cache, m_probes>> /\ m_probes = <<>>
        BY <1>0, <2>2 DEF setupFails, heap, DetectInv, BaseInv, MainInv
      <3> QED BY <1>1, <3>1, <3>2 DEF FixedInv, Rows
    <2> QED BY <2>1, <2>2
  <1> QED BY <1>0, <1>2 DEF FixedInv, IdleWorker, NewProbe

LEMMA LinkFixed ==
  ASSUME DetectInv, FixedInv, NEW t \in {"main", "worker"}, attachProbeByOffset(t)
  PROVE  FixedInv'
  <1> DEFINE f == fs[Target(t)]
             link == [prog |-> attaching[t].prog, file |-> f, offset |-> attaching[t].offset]
  <1> SUFFICES ASSUME Unmoved PROVE FixedInv'
    BY DEF FixedInv, Unmoved, attachProbeByOffset
  <1>0. /\ UNCHANGED <<env, fs, table, m_cache, main>> /\ Attaching(t)
    BY DEF attachProbeByOffset, disk
  <1>1. PICK new \in {{}, {link}} :
          IF t = "main"
            THEN m_probes' = [m_probes EXCEPT ![main.n].links = @ \cup new] /\ UNCHANGED worker
            ELSE worker' = [worker EXCEPT !.probe.links = @ \cup new] /\ UNCHANGED m_probes
    BY DEF attachProbeByOffset
  <1>2. \A l \in new : l.file = f
    BY <1>1
  <1>3. CASE t = "main"
    <2>1. main.n \in DOMAIN m_probes /\ Target(t) = m_probes[main.n].path
      BY <1>0, <1>3, TargetType DEF DetectInv, Target
    <2>2. m_probes \in Seq(ProbeT)
      BY DEF DetectInv, BaseInv, DataInv
    <2>3. m_probes[main.n] \in ProbeT
      BY <2>1, <2>2
    <2>4. m_probes' = [m_probes EXCEPT ![main.n] = [m_probes[main.n] EXCEPT !.links = @ \cup new]]
      BY <1>1, <1>3
    <2>5. [m_probes[main.n] EXCEPT !.links = @ \cup new]
            = [path |-> m_probes[main.n].path, links |-> m_probes[main.n].links \cup new]
      BY <2>3 DEF ProbeT
    <2>6. /\ DOMAIN m_probes' = DOMAIN m_probes
          /\ \A n \in DOMAIN m_probes :
               m_probes'[n] = IF n = main.n THEN [path |-> m_probes[n].path, links |-> m_probes[n].links \cup new]
                              ELSE m_probes[n]
      BY <2>1, <2>2, <2>4, <2>5
    <2>7. \A n \in DOMAIN m_probes' : \A l \in m_probes'[n].links : fs[m_probes'[n].path] = l.file
      BY <1>2, <2>1, <2>6 DEF FixedInv
    <2> QED BY <1>0, <1>1, <1>3, <2>7 DEF FixedInv, Rows
  <1>4. CASE t = "worker"
    <2>1. worker.pc = "attach" /\ Target(t) = worker.probe.path
      BY <1>0, <1>4, TargetType DEF DetectInv, Target
    <2>2. worker \in [pc : {"set", "attach"}, file : Files, probe : ProbeT]
      BY <2>1 DEF DetectInv, BaseInv, WorkerInv
    <2>3. /\ worker'.pc = worker.pc /\ worker'.file = worker.file
          /\ worker'.probe.path = worker.probe.path
          /\ worker'.probe.links = worker.probe.links \cup new
      BY <1>1, <1>4, <2>2 DEF ProbeT
    <2>4. \A l \in worker'.probe.links : fs[worker'.probe.path] = l.file
      BY <1>2, <2>1, <2>3 DEF FixedInv
    <2> QED BY <1>0, <1>1, <1>4, <2>3, <2>4 DEF FixedInv, Rows
  <1> QED BY <1>3, <1>4

LEMMA NextFixed ==
  ASSUME DetectInv, FixedInv, [Next]_vars
  PROVE  FixedInv'
  <1> SUFFICES ASSUME Unmoved PROVE FixedInv'
    <2>1. env' = env
      BY DEF Next, vars, Machine, Upgrade, Unlink, Execute, Link, setupShellDetection, setupFails,
             Attach, attachProbe, attachProbeByOffset, bpfAttach, Stop, waitForExitSignal, bpfDetach,
             bpfDestroy, Die, Ends, Worker, processItem, set, addAndAttachProbe, distributeIfNeeded
    <2> QED BY <2>1 DEF FixedInv, Unmoved
  <1>1. CASE Machine
    <2>1. UNCHANGED <<fs, env, table, heap>>
      BY <1>1 DEF Machine, Upgrade, Unlink, Execute, Link, Unmoved
    <2> QED BY <2>1 DEF FixedInv, heap, Rows
  <1>2. CASE setupShellDetection \/ setupFails
    BY <1>2, SetupFixed
  <1>3. ASSUME NEW t \in {"main", "worker"}, Attach(t) PROVE FixedInv'
    <2>1. CASE attachProbe(t)
      BY <2>1 DEF attachProbe, FixedInv, disk, Rows
    <2> QED BY <1>3, <2>1, LinkFixed DEF Attach
  <1>4. CASE bpfAttach \/ waitForExitSignal
    BY <1>4 DEF bpfAttach, waitForExitSignal, FixedInv, disk, Rows
  <1>5. CASE bpfDetach
    <2>1. UNCHANGED <<env, disk, m_cache, worker>>
      BY <1>5 DEF bpfDetach
    <2>2. m_probes' = m_probes \/ m_probes' = [m_probes EXCEPT ![main.n] = [m_probes[main.n] EXCEPT !.links = {}]]
      BY <1>5 DEF bpfDetach
    <2>3. m_probes \in Seq(ProbeT)
      BY DEF DetectInv, BaseInv, DataInv
    <2>4. \A n \in DOMAIN m_probes' : m_probes'[n].links \subseteq m_probes[n].links
                                      /\ m_probes'[n].path = m_probes[n].path /\ n \in DOMAIN m_probes
      <3>1. CASE main.n \in DOMAIN m_probes
        <4>1. m_probes[main.n] \in ProbeT
          BY <2>3, <3>1
        <4>2. /\ [m_probes[main.n] EXCEPT !.links = {}].links = {}
              /\ [m_probes[main.n] EXCEPT !.links = {}].path = m_probes[main.n].path
          BY <4>1 DEF ProbeT
        <4> QED BY <2>2, <2>3, <3>1, <4>2
      <3>2. CASE main.n \notin DOMAIN m_probes
        BY <2>2, <2>3, <3>2
      <3> QED BY <3>1, <3>2
    <2> QED BY <2>1, <2>4 DEF FixedInv, disk, Rows
  <1>6. CASE bpfDestroy \/ Die
    BY <1>6, EndsFixed DEF bpfDestroy, Die, Ends
  <1>7. CASE processItem
    <2> DEFINE p == Head(m_queue)
    <2>1. /\ UNCHANGED <<env, disk, m_cache, m_probes>>
          /\ \/ worker' = IdleWorker
             \/ worker' = [pc |-> "set", file |-> getShellInfo(p), probe |-> NewProbe(p)]
                /\ getShellInfo(p) # NoFile
      BY <1>7 DEF processItem
    <2>2. getShellInfo(p) # NoFile => fs[p] = getShellInfo(p)
      BY DEF getShellInfo
    <2> QED BY <2>1, <2>2 DEF FixedInv, disk, Rows, IdleWorker, NewProbe
  <1>8. CASE set
    <2>1. /\ UNCHANGED <<env, fs, m_probes>> /\ worker.pc = "set"
          /\ m_cache' = [m_cache EXCEPT ![worker.file] = worker.probe.path]
          /\ table' \in {table, [table EXCEPT ![worker.file] = worker.probe.path]}
          /\ worker' \in {[worker EXCEPT !.pc = "attach"], IdleWorker}
      BY <1>8 DEF set, Recorded
    <2>2. /\ worker \in [pc : {"set", "attach"}, file : Files, probe : ProbeT]
          /\ m_cache \in RowsT /\ table \in RowsT
      BY <2>1 DEF DetectInv, BaseInv, WorkerInv, DataInv
    <2>3. fs[worker.probe.path] = worker.file
      BY <2>1 DEF FixedInv
    <2>4. /\ \A f \in Rows(m_cache)' : fs[m_cache'[f]] = f
          /\ \A f \in Rows(table)' : fs[table'[f]] = f
      BY <2>1, <2>2, <2>3 DEF FixedInv, Rows, RowsT
    <2>5. /\ worker'.pc # "idle" => fs[worker'.probe.path] = worker'.file
          /\ \A l \in worker'.probe.links : fs[worker'.probe.path] = l.file
      <3>1. CASE worker' = IdleWorker
        BY <3>1 DEF IdleWorker, NewProbe
      <3>2. CASE worker' = [worker EXCEPT !.pc = "attach"]
        BY <2>2, <2>3, <3>2 DEF FixedInv
      <3> QED BY <2>1, <3>1, <3>2
    <2> QED BY <2>1, <2>4, <2>5 DEF FixedInv
  <1>9. CASE addAndAttachProbe
    <2>1. CASE Ends
      BY <2>1, EndsFixed
    <2>2. CASE ~Ends
      <3>1. /\ UNCHANGED <<env, disk, m_cache>> /\ worker.pc = "attach"
            /\ m_probes' = Append(m_probes, worker.probe) /\ worker' = IdleWorker
        BY <1>9, <2>2 DEF addAndAttachProbe
      <3>2. m_probes \in Seq(ProbeT) /\ worker.probe \in ProbeT
        BY <3>1 DEF DetectInv, BaseInv, WorkerInv, DataInv
      <3>3. \A n \in DOMAIN m_probes' : \/ n \in DOMAIN m_probes /\ m_probes'[n] = m_probes[n]
                                        \/ m_probes'[n] = worker.probe
        BY <3>1, <3>2
      <3> QED BY <3>1, <3>3 DEF FixedInv, disk, Rows, IdleWorker, NewProbe
    <2> QED BY <2>1, <2>2
  <1>10. ASSUME NEW f \in Files, NEW p \in Paths, distributeIfNeeded(f, p) PROVE FixedInv'
    BY <1>10 DEF distributeIfNeeded, FixedInv, disk, Rows
  <1>11. CASE UNCHANGED vars
    BY <1>11 DEF vars, disk, heap, FixedInv, Rows
  <1> QED BY <1>1, <1>2, <1>3, <1>4, <1>5, <1>6, <1>7, <1>8, <1>9, <1>10, <1>11
      DEF Next, Stop, Worker

LEMMA FixedInvariant == Spec => [](DetectInv /\ FixedInv)
  BY InitDetect, NextDetect, InitFixed, NextFixed, PTL DEF Spec

\* Two probes at one path need two rows for it, and those would be the same file.
LEMMA OneProbe ==
  ASSUME DetectInv, FixedInv, Unmoved, NEW f, NEW p \in Paths, NEW q \in Paths,
         fs[p] = f, fs[q] = f, Cardinality(ProbesAt(p)) + AtWork(p) > 0,
         Cardinality(ProbesAt(q)) + AtWork(q) > 0
  PROVE  p = q /\ Cardinality(ProbesAt(p)) + AtWork(p) = 1
  <1>0. DataInv
    BY DEF DetectInv, BaseInv
  <1>1. ASSUME NEW r \in Paths, fs[r] = f, Cardinality(ProbesAt(r)) + AtWork(r) > 0
        PROVE  f \in Rows(m_cache) /\ m_cache[f] = r /\ Cardinality(ProbesAt(r)) + AtWork(r) = 1
    <2>1. /\ Cardinality(ProbesAt(r)) + AtWork(r) <= Cardinality(RowsAt(r))
          /\ Cardinality(ProbesAt(r)) \in Nat /\ Cardinality(RowsAt(r)) \in Nat /\ IsFiniteSet(RowsAt(r))
      BY <1>0, HooksUnfold, CountTypes DEF DetectInv
    <2>2. RowsAt(r) \subseteq {f}
      BY <1>1 DEF RowsAt, FixedInv
    <2>3. RowsAt(r) # {}
      <3>1. AtWork(r) \in {0, 1}
        BY DEF AtWork
      <3> QED BY <1>1, <2>1, <3>1, FS_EmptySet
    <2>4. RowsAt(r) = {f} /\ Cardinality(RowsAt(r)) = 1
      BY <2>2, <2>3, FS_Singleton
    <2>5. AtWork(r) \in {0, 1}
      BY DEF AtWork
    <2> QED BY <1>1, <2>1, <2>4, <2>5 DEF RowsAt
  <1> QED BY <1>1

\* While paths keep their files, no shell is hooked by two probes, however main's
\* loop over the probes, the worker's and restarts interleave.
THEOREM HooksCorrect == Spec => []HookedOnce
  <1>1. ASSUME DetectInv, FixedInv PROVE HookedOnce
    <2> SUFFICES ASSUME Unmoved PROVE HookedOnce
      BY DEF HookedOnce
    <2>0. DataInv /\ WorkerInv /\ m_probes \in Seq(ProbeT)
      BY <1>1 DEF DetectInv, BaseInv, DataInv
    <2>1. ASSUME NEW n \in DOMAIN m_probes, NEW l \in m_probes[n].links
          PROVE  /\ m_probes[n].path \in Paths /\ fs[m_probes[n].path] = l.file
                 /\ n \in ProbesAt(m_probes[n].path)
                 /\ Cardinality(ProbesAt(m_probes[n].path)) \in Nat \ {0}
                 /\ AtWork(m_probes[n].path) \in {0, 1}
      <3>1. m_probes[n].path \in Paths
        <4>1. m_probes[n] \in ProbeT
          BY <2>0
        <4> QED BY <4>1, ConstantAssumption DEF ProbeT
      <3>2. fs[m_probes[n].path] = l.file
        BY <1>1 DEF FixedInv
      <3>3. n \in ProbesAt(m_probes[n].path)
        BY DEF ProbesAt
      <3>4. Cardinality(ProbesAt(m_probes[n].path)) # 0
        BY <2>0, <3>1, <3>3, CountTypes, FS_EmptySet
      <3> QED BY <2>0, <3>1, <3>2, <3>3, <3>4, CountTypes DEF AtWork
    <2>2. ASSUME NEW n \in DOMAIN m_probes, NEW k \in DOMAIN m_probes,
                 NEW l \in m_probes[n].links, NEW r \in m_probes[k].links, l.file = r.file
          PROVE  n = k
      <3> DEFINE p == m_probes[n].path
                 q == m_probes[k].path
      <3>0. /\ p \in Paths /\ fs[p] = l.file /\ Cardinality(ProbesAt(p)) + AtWork(p) > 0
            /\ q \in Paths /\ fs[q] = l.file /\ Cardinality(ProbesAt(q)) + AtWork(q) > 0
        BY <2>1, <2>2
      <3>1. p = q /\ Cardinality(ProbesAt(p)) + AtWork(p) = 1
        BY <1>1, <3>0, OneProbe
      <3>2. Cardinality(ProbesAt(p)) = 1
        BY <2>1, <3>1
      <3>3. n \in ProbesAt(p) /\ k \in ProbesAt(p)
        BY <2>1, <3>1
      <3>4. PICK x : ProbesAt(p) = {x}
        BY <2>0, <2>1, <3>2, CountTypes, FS_Singleton
      <3> QED BY <3>3, <3>4
    <2>3. ASSUME NEW n \in DOMAIN m_probes, NEW l \in m_probes[n].links, NEW r \in worker.probe.links,
                 l.file = r.file
          PROVE  FALSE
      <3> DEFINE p == m_probes[n].path
                 q == worker.probe.path
      <3>1. worker.pc = "attach" /\ q \in Paths
        <4>1. worker.pc = "attach"
          BY <2>0, <2>3 DEF WorkerInv, IdleWorker, NewProbe
        <4> QED BY <2>0, <4>1, ConstantAssumption DEF WorkerInv, ProbeT
      <3>2. fs[q] = r.file /\ AtWork(q) = 1 /\ Cardinality(ProbesAt(q)) \in Nat
        BY <1>1, <2>0, <3>1, CountTypes DEF FixedInv, AtWork
      <3>a. /\ p \in Paths /\ fs[p] = l.file /\ Cardinality(ProbesAt(p)) + AtWork(p) > 0
            /\ fs[q] = l.file /\ Cardinality(ProbesAt(q)) + AtWork(q) > 0
        BY <2>1, <2>3, <3>2
      <3>3. p = q /\ Cardinality(ProbesAt(p)) + AtWork(p) = 1
        BY <1>1, <3>1, <3>a, OneProbe
      <3> QED BY <2>1, <3>2, <3>3
    <2> QED BY <2>2, <2>3 DEF HookedOnce
  <1> QED BY <1>1, FixedInvariant, PTL

\* A shell that is recorded, and so never looked at again by the worker, has its
\* hooks when main and the worker have done their work.
THEOREM RecordedCorrect == Spec => []RecordedIsHooked
  <1>1. ASSUME DetectInv PROVE RecordedIsHooked
    <2> SUFFICES ASSUME Undisturbed, main.pc = "wait", worker.pc = "idle",
                        NEW f \in Rows(m_cache) \cap Known, fs[m_cache[f]] = f
                 PROVE  Hooked(f, m_cache[f])
      BY DEF RecordedIsHooked
    <2>1. RowServed(f)
      BY <1>1 DEF DetectInv, ServedInv, InPlace, Rows
    <2>2. PICK n \in DOMAIN m_probes : Served(n, f) /\ m_probes[n].path = m_cache[f]
      BY <2>1 DEF RowServed
    <2>3. Linked(m_probes[n].links, Done(m_cache[f]), f)
      BY <2>2 DEF Served
    <2>4. m_probes[n].links \subseteq Placed
      BY DEF Placed
    <2> QED BY <2>3, <2>4, DoneIsAll DEF Hooked, Linked
  <1> QED BY <1>1, DetectInvariant, PTL
=============================================================================
