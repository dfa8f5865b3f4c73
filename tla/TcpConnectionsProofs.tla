------------------------ MODULE TcpConnectionsProofs ------------------------
(***************************************************************************)
(* Proofs about TcpConnections: the two hooks of an incoming connection    *)
(* never wait for each other, a report is about something that happened,   *)
(* a server that handles one connection at a time accepts none that was    *)
(* not judged and reported as its own, and the reports of a program that   *)
(* connects without polling are, in order, what it did.                    *)
(***************************************************************************)
EXTENDS TcpConnections, FiniteSetTheorems, SequenceTheorems, TLAPS

-----------------------------------------------------------------------------
\* Types.

EventT == [id : Nat, action : Chosen \cup {"ALLOW_EVENT"}, proc : Procs \cup {None},
           peer : Peers \cup {None}, accept : BOOLEAN, request : BOOLEAN]

ReportT == [id : Nat, action : Chosen \cup {"ALLOW_EVENT"}, proc : Procs \cup {None},
            peer : Peers \cup {None}, sock : Socks]

FlowT == [pc : MidHook \cup {"idle", "accepting"}, sock : Socks \cup {None},
          peer : Peers \cup {None}, cell : Cells \cup {0}, slot : EventT]

CommonT ==
  /\ "incoming" \in env <=> "outgoing" \notin env
  /\ rules \in [Procs \X Peers -> Chosen]
  /\ heap \in [Cells -> EventT]
  /\ storage \in [Socks -> Cells \cup {0}]
  /\ flow \in [Flows -> FlowT]
  /\ sent \in Seq(ReportT)
  /\ next_id \in Nat

\* A hook that is at work has a cell and a socket, other flows have no cell.
FlowOK(f) ==
  IF flow[f].pc \in MidHook THEN flow[f].cell \in Cells /\ flow[f].sock \in Socks
  ELSE flow[f].cell = 0

\* A cell is that of one socket, in the map and for all hooks that have it.
CellsOK ==
  /\ \A s, t \in Socks : storage[s] = storage[t] /\ storage[s] # 0 => s = t
  /\ \A f \in Flows, s \in Socks :
       flow[f].cell = storage[s] /\ storage[s] # 0 => flow[f].sock = s
  /\ \A f, g \in Flows : flow[f].cell = flow[g].cell /\ flow[f].cell # 0 =>
       flow[f].sock = flow[g].sock

CellInv == CommonT /\ (\A f \in Flows : FlowOK(f)) /\ CellsOK

LEMMA CellFacts ==
  /\ IsFiniteSet(Flows) /\ IsFiniteSet(Socks)
  /\ IsFiniteSet(Cells) /\ 0 \notin Cells
  /\ Cardinality(Flows) \in Nat /\ Cardinality(Socks) \in Nat
  /\ Cardinality(Cells) = Cardinality(Flows) + Cardinality(Socks)
  /\ EmptyEvent \in EventT
  <1>1. IsFiniteSet(Flows) /\ IsFiniteSet(Socks)
    BY SetAssumption, FS_Union DEF Flows
  <1>2. Cardinality(Flows) \in Nat /\ Cardinality(Socks) \in Nat
    BY <1>1, FS_CardinalityType
  <1>3. /\ IsFiniteSet(Cells) /\ 0 \notin Cells
        /\ Cardinality(Cells) = Cardinality(Flows) + Cardinality(Socks)
    <2> DEFINE n == Cardinality(Flows) + Cardinality(Socks)
    <2>1. n \in Nat
      BY <1>2
    <2> HIDE DEF n
    <2>2. /\ IsFiniteSet(1 .. n)
          /\ Cardinality(1 .. n) = IF 1 > n THEN 0 ELSE n - 1 + 1
      BY <2>1, FS_Interval
    <2>3. Cardinality(1 .. n) = n /\ 0 \notin 1 .. n
      BY <2>1, <2>2
    <2> QED BY <2>2, <2>3 DEF Cells, n
  <1>4. EmptyEvent \in EventT
    BY DEF EmptyEvent, EventT
  <1> QED BY <1>1, <1>2, <1>3, <1>4

\* While some flow has no cell there is one for a socket that has none: the
\* cells are as many as the flows and the sockets.
LEMMA CellOfFacts ==
  ASSUME CellInv, NEW s \in Socks, NEW f \in Flows, flow[f].cell = 0
  PROVE  /\ CellOf(s) \in Cells
         /\ CellOf(s) = storage[s] \/ (storage[s] = 0 /\ Unused(CellOf(s)))
         /\ ContentOf(s) \in EventT
         /\ storage[s] # 0 => ContentOf(s) = heap[CellOf(s)]
  <1>1. CASE storage[s] # 0
    BY <1>1 DEF CellOf, ContentOf, CellInv, CommonT
  <1>2. CASE storage[s] = 0
    <2> DEFINE S == {storage[t] : t \in Socks}
               cells == [g \in Flows |-> flow[g].cell]
               T == {cells[g] : g \in Flows}
    <2>1. storage \in Surjection(Socks, S)
      BY DEF Surjection, CellInv, CommonT
    <2>2. IsFiniteSet(S) /\ Cardinality(S) <= Cardinality(Socks)
      BY <2>1, CellFacts, FS_Surjection
    <2>3. cells \in Surjection(Flows, T)
      BY DEF Surjection
    <2>4. IsFiniteSet(T) /\ Cardinality(T) <= Cardinality(Flows)
      BY <2>3, CellFacts, FS_Surjection
    <2>5. \A c \in Cells : ~Unused(c) => c \in S \cup T
      BY DEF Unused
    <2>6. 0 \in S /\ 0 \in T
      BY <1>2
    <2> HIDE DEF S, T
    <2>7. /\ IsFiniteSet(S \cup T)
          /\ Cardinality(S \cup T) = Cardinality(S) + Cardinality(T) - Cardinality(S \cap T)
      BY <2>2, <2>4, FS_Union
    <2>8. Cardinality(S) \in Nat /\ Cardinality(T) \in Nat /\ Cardinality(S \cap T) \in Nat
      <3>1. IsFiniteSet(S \cap T)
        BY <2>2, FS_Intersection
      <3> QED BY <2>2, <2>4, <3>1, FS_CardinalityType
    <2>9. Cardinality(S \cup T) <= Cardinality(Cells)
      BY <2>2, <2>4, <2>7, <2>8, CellFacts
    <2>10. \E c \in Cells : Unused(c)
      <3> SUFFICES ASSUME \A c \in Cells : ~Unused(c) PROVE FALSE
        OBVIOUS
      <3>1. Cells \cup {0} \subseteq S \cup T
        BY <2>5, <2>6
      <3>2. /\ IsFiniteSet(Cells \cup {0})
            /\ Cardinality(Cells \cup {0}) = Cardinality(Cells) + 1
        BY CellFacts, FS_AddElement
      <3>3. Cardinality(Cells \cup {0}) <= Cardinality(S \cup T)
        BY <2>7, <3>1, FS_Subset
      <3>4. Cardinality(Cells) \in Nat /\ Cardinality(S \cup T) \in Nat
        BY <2>7, CellFacts, FS_CardinalityType
      <3> QED BY <2>9, <3>2, <3>3, <3>4
    <2>11. CellOf(s) \in Cells /\ Unused(CellOf(s))
      BY <1>2, <2>10 DEF CellOf
    <2> QED BY <1>2, <2>11, CellFacts DEF ContentOf
  <1> QED BY <1>1, <1>2

-----------------------------------------------------------------------------
\* The invariant.

\* The event is of an attempt on socket s, as at says; if hooks overlap, in the
\* environment e, the address is of one and the process, if any, of another.
Attempted(e, at, s, ev) ==
  IF "overlap" \in e
    THEN /\ \E p \in Procs : <<s, p, ev.peer>> \in at
         /\ ev.proc = None \/ \E a \in Peers : <<s, ev.proc, a>> \in at
    ELSE <<s, ev.proc, ev.peer>> \in at

\* A connect_hook that is alone has filled in the address and not the process.
HalfFilled(c) ==
  "overlap" \notin env /\ \E f \in Flows : flow[f].pc = "connect_process" /\ flow[f].cell = c

StoredOut(s) ==
  storage[s] # 0 /\ ~HalfFilled(storage[s]) => Attempted(env, attempts, s, heap[storage[s]])

FlowOut(f) ==
  /\ flow[f].pc \in MidHook /\ ~HalfFilled(flow[f].cell) =>
       Attempted(env, attempts, flow[f].sock, heap[flow[f].cell])
  /\ flow[f].pc \in {"connect_process", "connect_copy"} =>
       <<flow[f].sock, f, flow[f].peer>> \in attempts
  /\ flow[f].pc = "connect_process" /\ "overlap" \notin env =>
       heap[flow[f].cell].peer = flow[f].peer
  /\ flow[f].pc = "connect_2" => Attempted(env, attempts, flow[f].sock, flow[f].slot)
  /\ flow[f].pc = "established_2" => flow[f].sock = f

OneHook ==
  "overlap" \notin env =>
    \A f, g \in Flows : flow[f].pc \in MidHook /\ flow[g].pc \in MidHook => f = g

\* Outgoing: every event in a cell, in the slot of connect_hook_2 or sent is of an
\* attempt on its socket.
OutInv ==
  "outgoing" \in env =>
    /\ attempts \subseteq Socks \X Procs \X Peers
    /\ OneHook
    /\ \A s \in Socks : StoredOut(s)
    /\ \A f \in Flows : FlowOut(f)
    /\ \A i \in Reports : Attempted(env, attempts, sent[i].sock, sent[i])

\* Incoming, without overlap: the hook that is at work is alone, has the tracker
\* that its socket has, and is about to judge what is in it.
HookOK(f) ==
  flow[f].pc \in MidHook =>
    /\ \A g \in Flows : flow[g].pc \in MidHook => f = g
    /\ storage[flow[f].sock] = flow[f].cell
    /\ flow[f].pc \in {"accept_fill", "accept_2"} => <<flow[f].sock, f>> \in asked
    /\ flow[f].pc \in {"request_fill", "request_2", "accept_2"} => heap[flow[f].cell].request
    /\ flow[f].pc \in {"request_2", "accept_2"} =>
         flow[f].slot = heap[flow[f].cell] /\ <<flow[f].sock, flow[f].slot.proc>> \in asked

\* A tracker that waits for a SYN has the process of an accept() on its socket,
\* one that waits for an accept() only has no address of an earlier SYN.
TrackerOK(s) ==
  storage[s] # 0 =>
    /\ heap[storage[s]].accept =>
         \/ <<s, heap[storage[s]].proc>> \in asked
         \/ \E f \in Flows : flow[f].pc = "accept_fill" /\ flow[f].cell = storage[s]
    /\ ~heap[storage[s]].request => heap[storage[s]].peer = None

\* Reports about a, trackers that hold a SYN of a, and one that is being handled.
About(a) == {i \in Reports : sent[i].peer = a}
Holding(a) ==
  {s \in Socks : storage[s] # 0 /\ heap[storage[s]].request /\ heap[storage[s]].peer = a}
Arriving(a) == IF flow[a].pc = "request_fill" THEN 1 ELSE 0

\* Together they are no more than the SYNs that a has sent.
Counted(a) == Cardinality(About(a)) + Cardinality(Holding(a)) + Arriving(a) <= syns[a]

AloneInv ==
  /\ \A f \in Flows : HookOK(f)
  /\ \A s \in Socks : TrackerOK(s)
  /\ \A i \in Reports : <<sent[i].sock, sent[i].proc>> \in asked
  /\ syns \in [Peers -> Nat]
  /\ \A a \in Peers : Counted(a)

InInv == "incoming" \in env => PairIsJudged /\ ("overlap" \notin env => AloneInv)

TcpInv == CellInv /\ OutInv /\ InInv

-----------------------------------------------------------------------------
\* How steps treat the cells.

\* A hook begins: it gets the cell of socket s, or one that nobody has.
Enters(f, s, ev, r) ==
  /\ flow[f].pc \notin MidHook
  /\ ev \in EventT /\ r \in FlowT
  /\ r.pc \in MidHook /\ r.cell = CellOf(s) /\ r.sock = s
  /\ heap' = [heap EXCEPT ![CellOf(s)] = ev]
  /\ storage' = [storage EXCEPT ![s] = CellOf(s)]
  /\ flow' = [flow EXCEPT ![f] = r]
  /\ UNCHANGED <<env, rules, sent>> /\ next_id' \in Nat

LEMMA EnterStep ==
  ASSUME CellInv, NEW f \in Flows, NEW s \in Socks, NEW ev, NEW r, Enters(f, s, ev, r)
  PROVE  /\ CellInv'
         /\ storage'[s] = CellOf(s) /\ CellOf(s) \in Cells /\ CellOf(s) # 0
         /\ storage[s] # 0 => CellOf(s) = storage[s]
         /\ \A t \in Socks : t # s => storage'[t] = storage[t] /\ storage[t] # CellOf(s)
         /\ flow'[f] = r
         /\ \A g \in Flows : g # f => flow'[g] = flow[g]
         /\ \A g \in Flows : flow[g].cell = CellOf(s) => flow[g].sock = s
         /\ heap'[CellOf(s)] = ev
         /\ \A c \in Cells : c # CellOf(s) => heap'[c] = heap[c]
  <1> USE DEF Enters
  <1> DEFINE c == CellOf(s)
  <1>1. flow[f].cell = 0
    BY DEF CellInv, FlowOK
  <1>2. c \in Cells /\ c # 0 /\ (c = storage[s] \/ (storage[s] = 0 /\ Unused(c)))
    BY <1>1, CellOfFacts, CellFacts
  <1> HIDE DEF c
  <1>3. /\ storage'[s] = c /\ \A t \in Socks : t # s => storage'[t] = storage[t]
        /\ flow'[f] = r /\ \A g \in Flows : g # f => flow'[g] = flow[g]
        /\ heap'[c] = ev /\ \A x \in Cells : x # c => heap'[x] = heap[x]
    BY <1>2 DEF CellInv, CommonT, c
  <1>4. \A t \in Socks : t # s => storage[t] # c
    BY <1>2 DEF CellInv, CellsOK, Unused
  <1>5. \A g \in Flows : flow[g].cell = c => flow[g].sock = s
    BY <1>2 DEF CellInv, CellsOK, Unused
  <1>6. CommonT'
    <2>1. heap' \in [Cells -> EventT] /\ storage' \in [Socks -> Cells \cup {0}]
          /\ flow' \in [Flows -> FlowT]
      BY <1>2 DEF CellInv, CommonT, c
    <2> QED BY <2>1 DEF CellInv, CommonT
  <1>7. \A g \in Flows : FlowOK(g)'
    BY <1>2, <1>3 DEF CellInv, FlowOK, c
  <1>8. CellsOK'
    <2>1. \A t, u \in Socks : storage'[t] = storage'[u] /\ storage'[t] # 0 => t = u
      BY <1>3, <1>4 DEF CellInv, CellsOK
    <2>2. ASSUME NEW g \in Flows, NEW t \in Socks, flow'[g].cell = storage'[t], storage'[t] # 0
          PROVE  flow'[g].sock = t
      <3>1. CASE g = f
        BY <1>3, <1>4, <2>2, <3>1 DEF c
      <3>2. CASE g # f
        BY <1>3, <1>5, <2>2, <3>2 DEF CellInv, CellsOK
      <3> QED BY <3>1, <3>2
    <2>3. ASSUME NEW g \in Flows, NEW h \in Flows, flow'[g].cell = flow'[h].cell,
                 flow'[g].cell # 0
          PROVE  flow'[g].sock = flow'[h].sock
      BY <1>3, <1>5, <2>3 DEF CellInv, CellsOK, c
    <2> QED BY <2>1, <2>2, <2>3 DEF CellsOK
  <1> QED BY <1>2, <1>3, <1>4, <1>5, <1>6, <1>7, <1>8 DEF CellInv, c

\* A hook goes on with its cell or ends; trackers may be deleted, and cells are
\* freed that nobody has any more.
Ends(f, r, h) ==
  /\ r \in FlowT /\ h \in [Cells -> EventT]
  /\ \/ r.pc \notin MidHook /\ r.cell = 0
     \/ r.pc \in MidHook /\ flow[f].pc \in MidHook
          /\ r.cell = flow[f].cell /\ r.sock = flow[f].sock
  /\ flow' = [flow EXCEPT ![f] = r]
  /\ storage' \in [Socks -> Cells \cup {0}]
  /\ \A s \in Socks : storage'[s] \in {storage[s], 0}
  /\ heap' = Freed(h)
  /\ UNCHANGED <<env, rules>> /\ sent' \in Seq(ReportT) /\ next_id' \in Nat

LEMMA EndStep ==
  ASSUME CellInv, NEW f \in Flows, NEW r, NEW h, Ends(f, r, h)
  PROVE  /\ CellInv'
         /\ flow'[f] = r /\ \A g \in Flows : g # f => flow'[g] = flow[g]
         /\ \A s \in Socks : storage'[s] # 0 =>
              storage'[s] = storage[s] /\ storage[s] \in Cells /\ heap'[storage[s]] = h[storage[s]]
         /\ \A g \in Flows : flow'[g].pc \in MidHook =>
              flow'[g].cell \in Cells /\ heap'[flow'[g].cell] = h[flow'[g].cell]
  <1> USE DEF Ends
  <1>1. flow'[f] = r /\ \A g \in Flows : g # f => flow'[g] = flow[g]
    BY DEF CellInv, CommonT
  <1>2. flow' \in [Flows -> FlowT]
    BY DEF CellInv, CommonT
  <1>3. \A g \in Flows : FlowOK(g)'
    BY <1>1 DEF CellInv, FlowOK
  <1>4. CellsOK'
    <2>1. \A t, u \in Socks : storage'[t] = storage'[u] /\ storage'[t] # 0 => t = u
      BY DEF CellInv, CellsOK
    <2>2. ASSUME NEW g \in Flows, NEW t \in Socks, flow'[g].cell = storage'[t], storage'[t] # 0
          PROVE  flow'[g].sock = t
      <3>1. storage'[t] = storage[t]
        BY <2>2
      <3> QED BY <1>1, <2>2, <3>1 DEF CellInv, CellsOK
    <2>3. ASSUME NEW g \in Flows, NEW k \in Flows, flow'[g].cell = flow'[k].cell,
                 flow'[g].cell # 0
          PROVE  flow'[g].sock = flow'[k].sock
      BY <1>1, <2>3 DEF CellInv, CellsOK
    <2> QED BY <2>1, <2>2, <2>3 DEF CellsOK
  <1>5. /\ heap' \in [Cells -> EventT]
        /\ \A c \in Cells : ~Unused(c)' => heap'[c] = h[c]
    BY CellFacts DEF Freed
  <1>6. CommonT'
    BY <1>2, <1>5 DEF CellInv, CommonT
  <1>7. ASSUME NEW s \in Socks, storage'[s] # 0
        PROVE  storage'[s] = storage[s] /\ storage[s] \in Cells /\ heap'[storage[s]] = h[storage[s]]
    <2>1. storage'[s] = storage[s] /\ storage[s] \in Cells
      BY <1>7
    <2>2. ~Unused(storage[s])'
      BY <2>1 DEF Unused
    <2> QED BY <1>5, <2>1, <2>2
  <1>8. ASSUME NEW g \in Flows, flow'[g].pc \in MidHook
        PROVE  flow'[g].cell \in Cells /\ heap'[flow'[g].cell] = h[flow'[g].cell]
    <2>1. flow'[g].cell \in Cells
      BY <1>3, <1>8 DEF FlowOK
    <2>2. ~Unused(flow[g].cell)'
      BY DEF Unused
    <2> QED BY <1>5, <2>1, <2>2
  <1> QED BY <1>1, <1>3, <1>4, <1>6, <1>7, <1>8 DEF CellInv

\* A step of the kernel: no hook is at work in f before or after it.
LEMMA IdleStep ==
  ASSUME CellInv, NEW f \in Flows, NEW r \in FlowT,
         flow[f].pc \notin MidHook, r.pc \notin MidHook, r.cell = 0,
         flow' = [flow EXCEPT ![f] = r],
         UNCHANGED <<env, rules, heap, storage, sent, next_id>>
  PROVE  /\ CellInv'
         /\ flow'[f] = r /\ \A g \in Flows : g # f => flow'[g] = flow[g]
  <1>1. flow'[f] = r /\ \A g \in Flows : g # f => flow'[g] = flow[g]
    BY DEF CellInv, CommonT
  <1>2. CommonT'
    BY DEF CellInv, CommonT
  <1>3. \A g \in Flows : FlowOK(g)'
    BY <1>1 DEF CellInv, FlowOK
  <1>4. CellsOK'
    BY <1>1 DEF CellInv, CellsOK
  <1> QED BY <1>1, <1>2, <1>3, <1>4 DEF CellInv

-----------------------------------------------------------------------------
\* What is reported.

\* At most one report, with the process and the address of the event.
ReportOf(out, s, ev) ==
  \/ out = <<>>
  \/ \E r \in ReportT : out = <<r>> /\ r.sock = s /\ r.proc = ev.proc /\ r.peer = ev.peer

LEMMA SubmitFacts ==
  ASSUME NEW s \in Socks, NEW ev \in EventT
  PROVE  ReportOf(submit_event(s, ev), s, ev)
  <1> DEFINE r == [id |-> ev.id, action |-> ev.action, proc |-> ev.proc, peer |-> ev.peer,
                   sock |-> s]
  <1>1. r \in ReportT /\ r.sock = s /\ r.proc = ev.proc /\ r.peer = ev.peer
    BY DEF ReportT, EventT
  <1>2. submit_event(s, ev) = <<>> \/ submit_event(s, ev) = <<r>>
    BY DEF submit_event
  <1> HIDE DEF r
  <1> QED BY <1>1, <1>2 DEF ReportOf

LEMMA JudgedFacts ==
  ASSUME CommonT, NEW ev \in EventT
  PROVE  /\ Judged(ev) \in EventT
         /\ Judged(ev).proc = ev.proc /\ Judged(ev).peer = ev.peer /\ Judged(ev).id = ev.id
  <1>1. CASE <<ev.proc, ev.peer>> \in DOMAIN rules
    <2>1. rules[<<ev.proc, ev.peer>>] \in Chosen
      BY <1>1 DEF CommonT
    <2> QED BY <1>1, <2>1 DEF Judged, EventT
  <1>2. CASE <<ev.proc, ev.peer>> \notin DOMAIN rules
    BY <1>2 DEF Judged
  <1> QED BY <1>1, <1>2

LEMMA TailCallFacts ==
  ASSUME CommonT, NEW s \in Socks, NEW ev \in EventT
  PROVE  ReportOf(generic_tail_call(s, ev), s, ev)
  <1>1. ReportOf(submit_event(s, Judged(ev)), s, Judged(ev))
    BY JudgedFacts, SubmitFacts
  <1>2. ReportOf(submit_event(s, Judged(ev)), s, ev)
    BY <1>1, JudgedFacts DEF ReportOf
  <1> QED BY <1>2 DEF generic_tail_call, ReportOf

\* What a report adds to the reports.
LEMMA AppendReport ==
  ASSUME NEW q \in Seq(ReportT), NEW out, NEW s, NEW ev, ReportOf(out, s, ev)
  PROVE  /\ q \o out \in Seq(ReportT)
         /\ \/ q \o out = q
            \/ \E r \in ReportT :
                 /\ DOMAIN (q \o out) = DOMAIN q \cup {Len(q) + 1} /\ Len(q) + 1 \notin DOMAIN q
                 /\ \A i \in DOMAIN q : (q \o out)[i] = q[i]
                 /\ (q \o out)[Len(q) + 1] = r
                 /\ r.sock = s /\ r.proc = ev.proc /\ r.peer = ev.peer
  <1>1. CASE out = <<>>
    BY <1>1
  <1>2. ASSUME NEW r \in ReportT, out = <<r>>, r.sock = s, r.proc = ev.proc, r.peer = ev.peer
        PROVE  /\ q \o out \in Seq(ReportT)
               /\ DOMAIN (q \o out) = DOMAIN q \cup {Len(q) + 1} /\ Len(q) + 1 \notin DOMAIN q
               /\ \A i \in DOMAIN q : (q \o out)[i] = q[i]
               /\ (q \o out)[Len(q) + 1] = r
    BY <1>2
  <1> QED BY <1>1, <1>2 DEF ReportOf

-----------------------------------------------------------------------------
\* The outgoing hooks.

LEMMA FlowFacts ==
  /\ Procs \subseteq Flows /\ Peers \subseteq Flows /\ Socks \subseteq Flows
  /\ Idle \in FlowT /\ Idle.pc \notin MidHook /\ Idle.cell = 0 /\ Idle.pc = "idle"
  BY CellFacts DEF Flows, Idle, FlowT, MidHook

LEMMA InitTcp == Init => TcpInv
  <1> SUFFICES ASSUME Init PROVE TcpInv
    OBVIOUS
  <1>1. "incoming" \in env <=> "outgoing" \notin env
    BY EnvAssumption DEF Init, InitCommon
  <1>2. CommonT
    BY <1>1, CellFacts, FlowFacts DEF CommonT, Init, InitCommon
  <1>3. \A f \in Flows : flow[f] = Idle
    BY DEF Init, InitCommon
  <1>4. \A s \in Socks : storage[s] = 0
    BY DEF Init, InitCommon
  <1>5. CellInv
    BY <1>2, <1>3, <1>4, FlowFacts DEF CellInv, FlowOK, CellsOK
  <1>6. Reports = {}
    BY DEF Init, InitCommon, Reports
  <1>7. OutInv
    <2>1. \A f \in Flows : FlowOut(f)
      BY <1>3, FlowFacts DEF FlowOut
    <2>2. attempts = {} /\ OneHook /\ \A s \in Socks : StoredOut(s)
      BY <1>3, <1>4, FlowFacts DEF OneHook, StoredOut, Init, InitOutgoing
    <2> QED BY <1>6, <2>1, <2>2 DEF OutInv
  <1>8. PairIsJudged
    BY <1>4 DEF PairIsJudged
  <1>9. \A a \in Peers : Counted(a)
    <2> SUFFICES ASSUME NEW a \in Peers PROVE Counted(a)
      OBVIOUS
    <2>1. About(a) = {} /\ Holding(a) = {} /\ Arriving(a) = 0
      BY <1>3, <1>4, <1>6, FlowFacts DEF About, Holding, Arriving
    <2>2. syns[a] = 0
      BY DEF Init, InitIncoming
    <2> QED BY <2>1, <2>2, FS_EmptySet DEF Counted
  <1>10. AloneInv
    <2>1. \A f \in Flows : HookOK(f)
      BY <1>3, FlowFacts DEF HookOK
    <2>2. \A s \in Socks : TrackerOK(s)
      BY <1>4 DEF TrackerOK
    <2>3. syns \in [Peers -> Nat]
      BY DEF Init, InitIncoming
    <2> QED BY <1>6, <1>9, <2>1, <2>2, <2>3 DEF AloneInv
  <1> QED BY <1>5, <1>7, <1>8, <1>10 DEF TcpInv, InInv

\* An event stays one of an attempt when there are more attempts.
LEMMA AttemptedKept ==
  ASSUME NEW e, NEW at, NEW at2, at \subseteq at2, NEW s, NEW ev, NEW ew,
         ew.proc = ev.proc, ew.peer = ev.peer, Attempted(e, at, s, ev)
  PROVE  Attempted(e, at2, s, ew)
  BY DEF Attempted

\* OutInv after a step of f that leaves the other flows alone, from what it has to
\* keep: cells that stay keep the process and the address, or become f's.
LEMMA OutKept ==
  ASSUME TcpInv, "outgoing" \in env, env' = env, CellInv', NEW f \in Flows,
         \A g \in Flows : g # f => flow'[g] = flow[g],
         attempts \subseteq attempts', attempts' \subseteq Socks \X Procs \X Peers,
         "overlap" \notin env /\ flow'[f].pc \in MidHook =>
           \A g \in Flows : g # f => flow[g].pc \notin MidHook,
         \A s \in Socks : storage'[s] # 0 /\ ~HalfFilled(storage[s])' =>
           \/ Attempted(env, attempts', s, heap'[storage'[s]])
           \/ /\ storage[s] # 0 /\ ~HalfFilled(storage[s])
              /\ heap'[storage'[s]].proc = heap[storage[s]].proc
              /\ heap'[storage'[s]].peer = heap[storage[s]].peer,
         \A g \in Flows : g # f /\ flow[g].pc \in MidHook =>
           /\ heap'[flow[g].cell].peer = heap[flow[g].cell].peer \/ "overlap" \in env
           /\ ~HalfFilled(flow[g].cell)' =>
                \/ Attempted(env, attempts', flow[g].sock, heap'[flow[g].cell])
                \/ /\ ~HalfFilled(flow[g].cell)
                   /\ heap'[flow[g].cell].proc = heap[flow[g].cell].proc
                   /\ heap'[flow[g].cell].peer = heap[flow[g].cell].peer,
         FlowOut(f)',
         \A i \in Reports' : Attempted(env, attempts', sent'[i].sock, sent'[i])
  PROVE  OutInv'
  <1>1. /\ OneHook /\ (\A s \in Socks : StoredOut(s)) /\ \A g \in Flows : FlowOut(g)
    BY DEF TcpInv, OutInv
  <1>2. OneHook'
    BY <1>1 DEF OneHook
  <1>3. ASSUME NEW s \in Socks PROVE StoredOut(s)'
    <2> SUFFICES ASSUME storage'[s] # 0, ~HalfFilled(storage[s])'
                 PROVE  Attempted(env, attempts', s, heap'[storage'[s]])
      BY DEF StoredOut
    <2>1. CASE Attempted(env, attempts', s, heap'[storage'[s]])
      BY <2>1
    <2>2. CASE /\ storage[s] # 0 /\ ~HalfFilled(storage[s])
               /\ heap'[storage'[s]].proc = heap[storage[s]].proc
               /\ heap'[storage'[s]].peer = heap[storage[s]].peer
      <3>1. Attempted(env, attempts, s, heap[storage[s]])
        BY <1>1, <2>2 DEF StoredOut
      <3> QED BY <2>2, <3>1, AttemptedKept
    <2> QED BY <2>1, <2>2
  <1>4. ASSUME NEW g \in Flows, g # f PROVE FlowOut(g)'
    <2>1. flow'[g] = flow[g] /\ FlowOut(g)
      BY <1>1, <1>4
    <2>2. ASSUME flow[g].pc \in MidHook, ~HalfFilled(flow[g].cell)'
          PROVE  Attempted(env, attempts', flow[g].sock, heap'[flow[g].cell])
      <3>1. CASE Attempted(env, attempts', flow[g].sock, heap'[flow[g].cell])
        BY <3>1
      <3>2. CASE /\ ~HalfFilled(flow[g].cell)
                 /\ heap'[flow[g].cell].proc = heap[flow[g].cell].proc
                 /\ heap'[flow[g].cell].peer = heap[flow[g].cell].peer
        <4>1. Attempted(env, attempts, flow[g].sock, heap[flow[g].cell])
          BY <2>1, <2>2, <3>2 DEF FlowOut
        <4> QED BY <3>2, <4>1, AttemptedKept
      <3>3. flow'[g].cell = flow[g].cell
        BY <2>1
      <3> QED BY <1>4, <2>2, <3>1, <3>2
    <2>3. flow[g].pc = "connect_2" => Attempted(env, attempts', flow[g].sock, flow[g].slot)
      <3>1. flow[g].pc = "connect_2" => Attempted(env, attempts, flow[g].sock, flow[g].slot)
        BY <2>1 DEF FlowOut
      <3> QED BY <3>1, AttemptedKept
    <2>4. flow[g].pc = "connect_process" /\ "overlap" \notin env =>
            heap'[flow[g].cell].peer = flow[g].peer
      BY <1>4, <2>1 DEF FlowOut, MidHook
    <2>5. flow[g].pc \in {"connect_process", "connect_copy"} =>
            <<flow[g].sock, g, flow[g].peer>> \in attempts'
      BY <2>1 DEF FlowOut
    <2> QED BY <2>1, <2>2, <2>3, <2>4, <2>5 DEF FlowOut
  <1> QED BY <1>2, <1>3, <1>4 DEF OutInv

\* A hook goes on with its cell, which it may write to.
LEMMA GoOnStep ==
  ASSUME CellInv, NEW f \in Flows, NEW r \in FlowT,
         flow[f].pc \in MidHook, r.pc \in MidHook,
         r.cell = flow[f].cell, r.sock = flow[f].sock,
         flow' = [flow EXCEPT ![f] = r], heap' \in [Cells -> EventT],
         UNCHANGED <<env, rules, storage, sent, next_id>>
  PROVE  /\ CellInv'
         /\ flow'[f] = r /\ \A g \in Flows : g # f => flow'[g] = flow[g]
  <1>1. flow'[f] = r /\ \A g \in Flows : g # f => flow'[g] = flow[g]
    BY DEF CellInv, CommonT
  <1>2. CommonT'
    BY DEF CellInv, CommonT
  <1>3. \A g \in Flows : FlowOK(g)'
    BY <1>1 DEF CellInv, FlowOK
  <1>4. CellsOK'
    BY <1>1 DEF CellInv, CellsOK
  <1> QED BY <1>1, <1>2, <1>3, <1>4 DEF CellInv

\* Every step of the outgoing hooks keeps the invariant.
LEMMA OutgoingStep ==
  ASSUME TcpInv, OutgoingNext
  PROVE  TcpInv'
  <1>e. "outgoing" \in env /\ "incoming" \notin env /\ CellInv /\ CommonT
    BY DEF OutgoingNext, TcpInv, CellInv, CommonT
  <1>o. /\ attempts \subseteq Socks \X Procs \X Peers
        /\ OneHook
        /\ \A s \in Socks : StoredOut(s)
        /\ \A f \in Flows : FlowOut(f)
        /\ \A i \in Reports : Attempted(env, attempts, sent[i].sock, sent[i])
    BY <1>e DEF TcpInv, OutInv
  <1>m. /\ {"connect_process", "connect_copy", "connect_2", "established_2"} \subseteq MidHook
        /\ "idle" \notin MidHook
    BY DEF MidHook
  <1>i. ASSUME env' = env PROVE InInv'
    BY <1>e, <1>i DEF InInv
  \* Nothing is added to the cells, the slots or the reports.
  <1>u. ASSUME UNCHANGED <<env, rules, heap, storage, flow, sent, next_id, attempts>>
        PROVE  TcpInv'
    <2>1. CellInv'
      BY <1>u, <1>e DEF CellInv, CommonT, FlowOK, CellsOK
    <2>2. OutInv'
      BY <1>u, <1>o DEF OutInv, OneHook, StoredOut, FlowOut, HalfFilled, Attempted, Reports
    <2> QED BY <1>i, <1>u, <2>1, <2>2 DEF TcpInv
  \* A hook begins alone, unless hooks overlap.
  <1>a. ASSUME MayEnter, "overlap" \notin env
        PROVE  \A g \in Flows : flow[g].pc \notin MidHook
    BY <1>a DEF MayEnter
  <1>1. ASSUME NEW p \in Procs, NEW s \in Socks, NEW a \in Peers, ConnectHook(p, s, a)
        PROVE  TcpInv'
    <2> DEFINE ev == FirstPart(s, a)
               r == [pc |-> "connect_process", sock |-> s, peer |-> a, cell |-> CellOf(s),
                     slot |-> EmptyEvent]
    <2>1. p \in Flows /\ flow[p].pc = "idle" /\ flow[p].cell = 0
      BY <1>1, <1>e, <1>m, FlowFacts DEF ConnectHook, CellInv, FlowOK
    <2>2. ContentOf(s) \in EventT /\ CellOf(s) \in Cells
      BY <1>e, <2>1, CellOfFacts
    <2>3. ev \in EventT /\ ev.proc = ContentOf(s).proc /\ ev.peer = a
      BY <2>2 DEF FirstPart, EventT
    <2> HIDE DEF ev
    <2>4. /\ r \in FlowT /\ r.pc = "connect_process" /\ r.cell = CellOf(s) /\ r.sock = s
          /\ r.peer = a
      BY <1>m, <2>2, CellFacts DEF FlowT
    <2>5. /\ heap' = [heap EXCEPT ![CellOf(s)] = ev]
          /\ storage' = [storage EXCEPT ![s] = CellOf(s)]
          /\ flow' = [flow EXCEPT ![p] = r]
          /\ attempts' = attempts \cup {<<s, p, a>>}
          /\ UNCHANGED <<env, rules, sent, next_id>>
      BY <1>1 DEF ConnectHook, ev
    <2> HIDE DEF r
    <2>6. /\ CellInv'
          /\ storage'[s] = CellOf(s)
          /\ \A t \in Socks : t # s => storage'[t] = storage[t] /\ storage[t] # CellOf(s)
          /\ flow'[p] = r
          /\ \A g \in Flows : g # p => flow'[g] = flow[g]
          /\ \A g \in Flows : flow[g].cell = CellOf(s) => flow[g].sock = s
          /\ heap'[CellOf(s)] = ev
          /\ \A c \in Cells : c # CellOf(s) => heap'[c] = heap[c]
      <3>1. flow[p].pc \notin MidHook /\ r.pc \in MidHook
        BY <1>m, <2>1, <2>4
      <3>2. next_id' \in Nat /\ UNCHANGED <<env, rules, sent>>
        BY <1>e, <2>5 DEF CommonT
      <3>3. p \in Flows /\ ev \in EventT /\ r \in FlowT /\ r.cell = CellOf(s) /\ r.sock = s
        BY <2>1, <2>3, <2>4
      <3>4. Enters(p, s, ev, r)
        BY <2>5, <3>1, <3>2, <3>3 DEF Enters
      <3> QED BY <1>e, <3>3, <3>4, EnterStep
    <2>7. "overlap" \notin env => \A g \in Flows : flow[g].pc \notin MidHook
      BY <1>1, <1>a DEF ConnectHook
    <2>8. /\ attempts \subseteq attempts' /\ attempts' \subseteq Socks \X Procs \X Peers
          /\ <<s, p, a>> \in attempts'
      BY <1>o, <2>5
    <2>9. "overlap" \in env => Attempted(env, attempts', s, ev)
      <3> SUFFICES ASSUME "overlap" \in env
                   PROVE  ev.proc = None \/ \E b \in Peers : <<s, ev.proc, b>> \in attempts'
        BY <2>3, <2>8 DEF Attempted
      <3>1. CASE storage[s] = 0
        BY <2>3, <3>1 DEF ContentOf, EmptyEvent
      <3>2. CASE storage[s] # 0
        <4>1. Attempted(env, attempts, s, heap[storage[s]])
          BY <1>o, <3>2 DEF StoredOut, HalfFilled
        <4> QED BY <2>3, <2>8, <3>2, <4>1 DEF Attempted, ContentOf
      <3> QED BY <3>1, <3>2
    <2>11. ASSUME NEW t \in Socks, storage'[t] # 0, ~HalfFilled(storage[t])'
           PROVE  \/ Attempted(env, attempts', t, heap'[storage'[t]])
                  \/ /\ storage[t] # 0 /\ ~HalfFilled(storage[t])
                     /\ heap'[storage'[t]].proc = heap[storage[t]].proc
                     /\ heap'[storage'[t]].peer = heap[storage[t]].peer
      <3>1. CASE t = s
        <4>1. "overlap" \in env
          <5>1. flow'[p].pc = "connect_process" /\ flow'[p].cell = storage'[t] /\ env' = env
            BY <2>4, <2>5, <2>6, <3>1
          <5> QED BY <2>1, <2>11, <5>1 DEF HalfFilled
        <4> QED BY <2>6, <2>9, <3>1, <4>1
      <3>2. CASE t # s
        <4>1. storage'[t] = storage[t] /\ storage[t] # CellOf(s) /\ storage[t] \in Cells
          BY <1>e, <2>6, <2>11, <3>2 DEF CommonT
        <4>2. ~HalfFilled(storage[t])
          BY <1>m, <2>7 DEF HalfFilled
        <4> QED BY <2>6, <2>11, <4>1, <4>2
      <3> QED BY <3>1, <3>2
    <2>12. ASSUME NEW g \in Flows, g # p, flow[g].pc \in MidHook
           PROVE  /\ heap'[flow[g].cell].peer = heap[flow[g].cell].peer \/ "overlap" \in env
                  /\ \/ Attempted(env, attempts', flow[g].sock, heap'[flow[g].cell])
                     \/ /\ ~HalfFilled(flow[g].cell)
                        /\ heap'[flow[g].cell].proc = heap[flow[g].cell].proc
                        /\ heap'[flow[g].cell].peer = heap[flow[g].cell].peer
      <3>1. "overlap" \in env /\ flow[g].cell \in Cells
        BY <1>e, <2>7, <2>12 DEF CellInv, FlowOK
      <3>2. CASE flow[g].cell = CellOf(s)
        BY <2>6, <2>9, <3>1, <3>2
      <3>3. CASE flow[g].cell # CellOf(s)
        BY <2>6, <3>1, <3>3 DEF HalfFilled
      <3> QED BY <3>1, <3>2, <3>3
    <2>13. FlowOut(p)'
      <3>1. /\ flow'[p].pc = "connect_process" /\ flow'[p].sock = s /\ flow'[p].peer = a
            /\ flow'[p].cell = CellOf(s) /\ env' = env
        BY <2>4, <2>5, <2>6
      <3>2. heap'[flow'[p].cell] = ev
        BY <2>6, <3>1
      <3>3. flow'[p].pc \in MidHook /\ ~HalfFilled(flow[p].cell)' => "overlap" \in env
        BY <2>1, <3>1 DEF HalfFilled
      <3>4. ~HalfFilled(flow[p].cell)' => Attempted(env', attempts', flow'[p].sock, heap'[flow'[p].cell])
        BY <1>m, <2>9, <3>1, <3>2, <3>3
      <3> QED BY <2>3, <2>8, <3>1, <3>2, <3>4 DEF FlowOut
    <2>14. \A i \in Reports' : Attempted(env, attempts', sent'[i].sock, sent'[i])
      BY <1>o, <2>5, <2>8 DEF Reports, Attempted
    <2>15. OutInv'
      BY <1>e, <2>1, <2>5, <2>6, <2>7, <2>8, <2>11, <2>12, <2>13, <2>14, OutKept
    <2> QED BY <1>i, <2>5, <2>6, <2>15 DEF TcpInv
  <1>2. ASSUME NEW p \in Procs, NEW s \in Socks, NEW a \in Peers, ConnectIgnored(p, s, a)
        PROVE  TcpInv'
    BY <1>u, <1>2 DEF ConnectIgnored
  <1>b. ASSUME NEW p \in Procs, ConnectProcess(p)
        PROVE  TcpInv'
    <2> DEFINE c == flow[p].cell
               ev == [heap[c] EXCEPT !.proc = p]
               r == [flow[p] EXCEPT !.pc = "connect_copy"]
    <2>1. /\ p \in Flows /\ flow[p].pc = "connect_process" /\ c \in Cells
          /\ flow[p].sock \in Socks /\ flow[p] \in FlowT /\ heap[c] \in EventT
      BY <1>b, <1>e, <1>m, FlowFacts DEF ConnectProcess, CellInv, FlowOK, CommonT
    <2>2. /\ r \in FlowT /\ r.pc = "connect_copy" /\ r.cell = c
          /\ r.sock = flow[p].sock /\ r.peer = flow[p].peer
      BY <1>m, <2>1 DEF FlowT
    <2>3. ev \in EventT /\ ev.proc = p /\ ev.peer = heap[c].peer
      BY <2>1 DEF EventT
    <2>4. /\ flow' = [flow EXCEPT ![p] = r] /\ heap' = [heap EXCEPT ![c] = ev]
          /\ UNCHANGED <<env, rules, storage, sent, next_id, attempts>>
      BY <1>b DEF ConnectProcess, outgoing
    <2> HIDE DEF r, ev
    <2>5. /\ heap' \in [Cells -> EventT] /\ heap'[c] = ev
          /\ \A d \in Cells : d # c => heap'[d] = heap[d]
      BY <1>e, <2>1, <2>3, <2>4 DEF CommonT
    <2>6. /\ CellInv'
          /\ flow'[p] = r /\ \A g \in Flows : g # p => flow'[g] = flow[g]
      BY <1>e, <1>m, <2>1, <2>2, <2>4, <2>5, GoOnStep
    <2>7. <<flow[p].sock, p, flow[p].peer>> \in attempts /\ flow[p].peer \in Peers
      BY <1>o, <2>1 DEF FlowOut
    <2>8. Attempted(env, attempts, flow[p].sock, ev)
      <3>1. CASE "overlap" \notin env
        BY <1>o, <2>1, <2>3, <2>7, <3>1 DEF FlowOut, Attempted
      <3>2. CASE "overlap" \in env
        <4>1. Attempted(env, attempts, flow[p].sock, heap[c])
          BY <1>m, <1>o, <2>1, <3>2 DEF FlowOut, HalfFilled
        <4> QED BY <2>3, <2>7, <3>2, <4>1 DEF Attempted
      <3> QED BY <3>1, <3>2
    <2>9. "overlap" \notin env => \A g \in Flows : g # p => flow[g].pc \notin MidHook
      BY <1>m, <1>o, <2>1 DEF OneHook
    <2>10. \A d : d # c => ~HalfFilled(d)
      BY <1>m, <2>9 DEF HalfFilled
    <2>11. ASSUME NEW t \in Socks, storage'[t] # 0, ~HalfFilled(storage[t])'
           PROVE  \/ Attempted(env, attempts', t, heap'[storage'[t]])
                  \/ /\ storage[t] # 0 /\ ~HalfFilled(storage[t])
                     /\ heap'[storage'[t]].proc = heap[storage[t]].proc
                     /\ heap'[storage'[t]].peer = heap[storage[t]].peer
      <3>1. storage'[t] = storage[t] /\ storage[t] \in Cells /\ storage[t] # 0
        BY <1>e, <2>4, <2>11 DEF CommonT
      <3>2. CASE storage[t] = c
        <4>1. flow[p].sock = t
          BY <1>e, <2>1, <3>1, <3>2 DEF CellInv, CellsOK
        <4> QED BY <2>4, <2>5, <2>8, <3>1, <3>2, <4>1
      <3>3. CASE storage[t] # c
        BY <2>5, <2>10, <3>1, <3>3
      <3> QED BY <3>2, <3>3
    <2>12. ASSUME NEW g \in Flows, g # p, flow[g].pc \in MidHook
           PROVE  /\ heap'[flow[g].cell].peer = heap[flow[g].cell].peer \/ "overlap" \in env
                  /\ \/ Attempted(env, attempts', flow[g].sock, heap'[flow[g].cell])
                     \/ /\ ~HalfFilled(flow[g].cell)
                        /\ heap'[flow[g].cell].proc = heap[flow[g].cell].proc
                        /\ heap'[flow[g].cell].peer = heap[flow[g].cell].peer
      <3>1. "overlap" \in env /\ flow[g].cell \in Cells
        BY <1>e, <2>9, <2>12 DEF CellInv, FlowOK
      <3>2. CASE flow[g].cell = c
        <4>1. flow[g].sock = flow[p].sock
          BY <1>e, <2>1, <3>1, <3>2, CellFacts DEF CellInv, CellsOK
        <4> QED BY <2>4, <2>5, <2>8, <3>1, <3>2, <4>1
      <3>3. CASE flow[g].cell # c
        BY <2>5, <2>10, <3>1, <3>3
      <3> QED BY <3>1, <3>2, <3>3
    <2>13. FlowOut(p)'
      <3>1. /\ flow'[p].pc = "connect_copy" /\ flow'[p].sock = flow[p].sock
            /\ flow'[p].peer = flow[p].peer /\ flow'[p].cell = c
            /\ env' = env /\ attempts' = attempts
        BY <2>2, <2>4, <2>6
      <3>2. Attempted(env', attempts', flow'[p].sock, heap'[flow'[p].cell])
        BY <2>5, <2>8, <3>1
      <3> QED BY <2>7, <3>1, <3>2 DEF FlowOut
    <2>14. \A i \in Reports' : Attempted(env, attempts', sent'[i].sock, sent'[i])
      BY <1>o, <2>4 DEF Reports
    <2>15. attempts \subseteq attempts' /\ attempts' \subseteq Socks \X Procs \X Peers
      BY <1>o, <2>4
    <2>16. OutInv'
      BY <1>e, <2>1, <2>4, <2>6, <2>9, <2>11, <2>12, <2>13, <2>14, <2>15, OutKept
    <2> QED BY <1>i, <2>4, <2>6, <2>16 DEF TcpInv
  <1>c. ASSUME NEW p \in Procs, ConnectCopy(p)
        PROVE  TcpInv'
    <2> DEFINE c == flow[p].cell
               r == [flow[p] EXCEPT !.pc = "connect_2", !.slot = heap[c]]
    <2>1. /\ p \in Flows /\ flow[p].pc = "connect_copy" /\ c \in Cells
          /\ flow[p].sock \in Socks /\ flow[p] \in FlowT /\ heap[c] \in EventT
      BY <1>c, <1>e, <1>m, FlowFacts DEF ConnectCopy, CellInv, FlowOK, CommonT
    <2>2. /\ r \in FlowT /\ r.pc = "connect_2" /\ r.cell = c
          /\ r.sock = flow[p].sock /\ r.slot = heap[c]
      BY <1>m, <2>1 DEF FlowT
    <2>3. /\ flow' = [flow EXCEPT ![p] = r]
          /\ UNCHANGED <<env, rules, heap, storage, sent, next_id, attempts>>
      BY <1>c DEF ConnectCopy, outgoing
    <2> HIDE DEF r
    <2>4. heap' \in [Cells -> EventT]
      BY <1>e, <2>3 DEF CommonT
    <2>5. /\ CellInv'
          /\ flow'[p] = r /\ \A g \in Flows : g # p => flow'[g] = flow[g]
      BY <1>e, <1>m, <2>1, <2>2, <2>3, <2>4, GoOnStep
    <2>6. "overlap" \notin env => \A g \in Flows : g # p => flow[g].pc \notin MidHook
      BY <1>m, <1>o, <2>1 DEF OneHook
    <2>7. \A d : ~HalfFilled(d)
      BY <1>m, <2>1, <2>6 DEF HalfFilled
    <2>8. Attempted(env, attempts, flow[p].sock, heap[c])
      BY <1>m, <1>o, <2>1, <2>7 DEF FlowOut
    <2>9. FlowOut(p)'
      <3>1. /\ flow'[p].pc = "connect_2" /\ flow'[p].sock = flow[p].sock
            /\ flow'[p].cell = c /\ flow'[p].slot = heap[c]
            /\ env' = env /\ attempts' = attempts /\ heap' = heap
        BY <2>2, <2>3, <2>5
      <3> QED BY <2>8, <3>1 DEF FlowOut
    <2>10. \A i \in Reports' : Attempted(env, attempts', sent'[i].sock, sent'[i])
      BY <1>o, <2>3 DEF Reports
    <2>11. attempts \subseteq attempts' /\ attempts' \subseteq Socks \X Procs \X Peers
      BY <1>o, <2>3
    <2>12. OutInv'
      BY <1>e, <2>1, <2>3, <2>5, <2>6, <2>7, <2>9, <2>10, <2>11, OutKept
    <2> QED BY <1>i, <2>3, <2>5, <2>12 DEF TcpInv
  \* A hook ends, and what it reports is an attempt.
  <1>f. ASSUME NEW f \in Flows, NEW r \in FlowT, r.pc = "idle", r.cell = 0,
               flow[f].pc # "connect_process",
               flow' = [flow EXCEPT ![f] = r],
               storage' \in [Socks -> Cells \cup {0}],
               \A s \in Socks : storage'[s] \in {storage[s], 0},
               heap' = Freed(heap), UNCHANGED <<env, rules, attempts>>,
               sent' \in Seq(ReportT), next_id' \in Nat,
               \A i \in Reports' : Attempted(env, attempts, sent'[i].sock, sent'[i])
        PROVE  TcpInv'
    <2>1. /\ CellInv'
          /\ flow'[f] = r /\ \A g \in Flows : g # f => flow'[g] = flow[g]
          /\ \A s \in Socks : storage'[s] # 0 =>
               storage'[s] = storage[s] /\ storage[s] \in Cells /\ heap'[storage[s]] = heap[storage[s]]
          /\ \A g \in Flows : flow'[g].pc \in MidHook =>
               flow'[g].cell \in Cells /\ heap'[flow'[g].cell] = heap[flow'[g].cell]
      <3>1. heap \in [Cells -> EventT]
        BY <1>e DEF CommonT
      <3>2. Ends(f, r, heap)
        BY <1>f, <1>m, <3>1 DEF Ends
      <3> QED BY <1>e, <3>2, EndStep
    <2>2. \A s \in Socks : storage'[s] # 0 /\ ~HalfFilled(storage[s])' =>
            /\ storage[s] # 0 /\ ~HalfFilled(storage[s])
            /\ heap'[storage'[s]] = heap[storage[s]]
      BY <1>f, <2>1 DEF HalfFilled
    <2>3. ASSUME NEW g \in Flows, g # f, flow[g].pc \in MidHook
          PROVE  /\ heap'[flow[g].cell] = heap[flow[g].cell]
                 /\ ~HalfFilled(flow[g].cell)' => ~HalfFilled(flow[g].cell)
      <3>1. flow'[g] = flow[g]
        BY <2>1, <2>3
      <3>2. heap'[flow[g].cell] = heap[flow[g].cell]
        BY <2>1, <2>3, <3>1
      <3>3. ~HalfFilled(flow[g].cell)' => ~HalfFilled(flow[g].cell)
        BY <1>f, <2>1, <3>1 DEF HalfFilled
      <3> QED BY <3>2, <3>3
    <2>4. FlowOut(f)'
      BY <1>f, <1>m, <2>1 DEF FlowOut
    <2>5. OutInv'
      <3>1. attempts \subseteq attempts' /\ attempts' \subseteq Socks \X Procs \X Peers
        BY <1>f, <1>o
      <3>2. flow'[f].pc \notin MidHook /\ \A g \in Flows : g # f => flow'[g] = flow[g]
        BY <1>f, <1>m, <2>1
      <3>3. \A i \in Reports' : Attempted(env, attempts', sent'[i].sock, sent'[i])
        BY <1>f
      <3>4. env' = env /\ CellInv'
        BY <1>f, <2>1
      <3> QED BY <1>e, <2>2, <2>3, <2>4, <3>1, <3>2, <3>3, <3>4, OutKept
    <2> QED BY <1>f, <1>i, <2>1, <2>5 DEF TcpInv
  <1>3. ASSUME NEW p \in Procs, NEW s \in Socks, ConnectUnsupported(p, s)
        PROVE  TcpInv'
    <2>1. /\ p \in Flows /\ flow[p].pc = "idle" /\ flow[p].cell = 0 /\ flow[p] \in FlowT
          /\ flow' = [flow EXCEPT ![p] = flow[p]]
      BY <1>3, <1>e, <1>m, FlowFacts DEF ConnectUnsupported, CellInv, FlowOK, CommonT
    <2>2. /\ storage' = [storage EXCEPT ![s] = 0] /\ heap' = Freed(heap)
          /\ UNCHANGED <<env, rules, attempts, sent, next_id>>
      BY <1>3 DEF ConnectUnsupported
    <2>3. /\ storage' \in [Socks -> Cells \cup {0}]
          /\ \A t \in Socks : storage'[t] \in {storage[t], 0}
          /\ sent' \in Seq(ReportT) /\ next_id' \in Nat
      BY <1>e, <2>2 DEF CommonT
    <2>4. \A i \in Reports' : Attempted(env, attempts, sent'[i].sock, sent'[i])
      BY <1>o, <2>2 DEF Reports
    <2> QED BY <1>f, <2>1, <2>2, <2>3, <2>4
  <1>4. ASSUME NEW p \in Procs, ConnectHook2(p)
        PROVE  TcpInv'
    <2> DEFINE f == flow[p]
               ev == Judged(f.slot)
               withId == IF ev.id = 0 THEN [ev EXCEPT !.id = next_id] ELSE ev
               gen == generic_tail_call(f.sock, f.slot)
               sub == submit_event(f.sock, withId)
    <2>1. /\ p \in Flows /\ f.pc = "connect_2" /\ f.sock \in Socks /\ f.slot \in EventT
          /\ Attempted(env, attempts, f.sock, f.slot)
      BY <1>4, <1>e, <1>m, <1>o, FlowFacts DEF ConnectHook2, CellInv, FlowOK, CommonT, FlowT, FlowOut
    <2>2. /\ flow' = [flow EXCEPT ![p] = Idle] /\ heap' = Freed(heap)
          /\ UNCHANGED <<env, rules, attempts>>
          /\ storage' \in {storage, DiscardStorage(f.sock)}
          /\ next_id' \in {next_id, next_id + 1}
          /\ sent' \in {sent \o gen, sent \o gen \o sub}
      BY <1>4 DEF ConnectHook2
    <2>3. /\ storage' \in [Socks -> Cells \cup {0}]
          /\ \A t \in Socks : storage'[t] \in {storage[t], 0}
          /\ next_id' \in Nat
      BY <1>e, <2>1, <2>2 DEF CommonT, DiscardStorage
    <2>4. withId \in EventT /\ withId.proc = f.slot.proc /\ withId.peer = f.slot.peer
      <3>1. ev \in EventT /\ ev.proc = f.slot.proc /\ ev.peer = f.slot.peer /\ next_id \in Nat
        BY <1>e, <2>1, JudgedFacts DEF CommonT
      <3> HIDE DEF ev
      <3> QED BY <3>1 DEF EventT
    <2>5. ReportOf(gen, f.sock, f.slot)
      BY <1>e, <2>1, TailCallFacts
    <2>6. ReportOf(sub, f.sock, withId)
      BY <2>1, <2>4, SubmitFacts
    <2> HIDE DEF gen, sub, withId, f
    <2>7. sent \in Seq(ReportT)
      BY <1>e DEF CommonT
    <2>8. /\ sent \o gen \in Seq(ReportT)
          /\ \A i \in DOMAIN (sent \o gen) : Attempted(env, attempts, (sent \o gen)[i].sock, (sent \o gen)[i])
      <3>1. \/ sent \o gen = sent
            \/ \E r \in ReportT :
                 /\ DOMAIN (sent \o gen) = DOMAIN sent \cup {Len(sent) + 1}
                 /\ \A i \in DOMAIN sent : (sent \o gen)[i] = sent[i]
                 /\ (sent \o gen)[Len(sent) + 1] = r
                 /\ r.sock = f.sock /\ r.proc = f.slot.proc /\ r.peer = f.slot.peer
        BY <2>5, <2>7, AppendReport
      <3>2. sent \o gen \in Seq(ReportT)
        BY <2>5, <2>7, AppendReport
      <3> QED BY <1>o, <2>1, <3>1, <3>2 DEF Reports, Attempted
    <2> DEFINE q == sent \o gen
    <2>9. q \in Seq(ReportT) /\ \A i \in DOMAIN q : Attempted(env, attempts, q[i].sock, q[i])
      BY <2>8
    <2>10. sent' \in {q, q \o sub}
      BY <2>2
    <2> HIDE DEF q
    <2>11. /\ q \o sub \in Seq(ReportT)
           /\ \A i \in DOMAIN (q \o sub) : Attempted(env, attempts, (q \o sub)[i].sock, (q \o sub)[i])
      <3>1. \/ q \o sub = q
            \/ \E r \in ReportT :
                 /\ DOMAIN (q \o sub) = DOMAIN q \cup {Len(q) + 1}
                 /\ \A i \in DOMAIN q : (q \o sub)[i] = q[i]
                 /\ (q \o sub)[Len(q) + 1] = r
                 /\ r.sock = f.sock /\ r.proc = withId.proc /\ r.peer = withId.peer
        BY <2>6, <2>9, AppendReport
      <3>2. q \o sub \in Seq(ReportT)
        BY <2>6, <2>9, AppendReport
      <3> QED BY <2>1, <2>4, <2>9, <3>1, <3>2 DEF Attempted
    <2>12. sent' \in Seq(ReportT) /\ \A i \in Reports' : Attempted(env, attempts, sent'[i].sock, sent'[i])
      BY <2>9, <2>10, <2>11 DEF Reports
    <2>13. flow[p].pc # "connect_process"
      BY <2>1 DEF f
    <2> QED BY <1>f, <2>1, <2>2, <2>3, <2>12, <2>13, FlowFacts
  <1>5. ASSUME NEW s \in Socks, Established(s)
        PROVE  TcpInv'
    <2>1. CASE storage[s] = 0
      BY <1>5, <1>u, <2>1 DEF Established
    <2>2. CASE storage[s] # 0
      <3> DEFINE ev == [heap[storage[s]] EXCEPT !.id = next_id]
                 r == [pc |-> "established_2", sock |-> s, peer |-> None,
                       cell |-> CellOf(s), slot |-> EmptyEvent]
      <3>1. /\ s \in Flows /\ flow[s].pc = "idle" /\ storage[s] \in Cells
            /\ CellOf(s) = storage[s] /\ heap[storage[s]] \in EventT /\ next_id \in Nat
        BY <1>5, <1>e, <2>2, FlowFacts DEF Established, CellOf, CommonT
      <3>2. /\ ev \in EventT /\ ev.proc = heap[storage[s]].proc /\ ev.peer = heap[storage[s]].peer
        BY <3>1 DEF EventT
      <3>3. r \in FlowT /\ r.pc = "established_2" /\ r.cell = CellOf(s) /\ r.sock = s
        BY <1>m, <3>1, CellFacts DEF FlowT
      <3>4. /\ heap' = [heap EXCEPT ![CellOf(s)] = ev]
            /\ storage' = [storage EXCEPT ![s] = CellOf(s)]
            /\ flow' = [flow EXCEPT ![s] = r]
            /\ next_id' \in Nat
            /\ UNCHANGED <<env, rules, sent, attempts>>
        <4>1. storage' = storage /\ storage = [storage EXCEPT ![s] = CellOf(s)]
          BY <1>5, <1>e, <3>1 DEF Established, CommonT
        <4> QED BY <1>5, <2>2, <3>1, <4>1 DEF Established
      <3> HIDE DEF ev, r
      <3>5. /\ CellInv'
            /\ storage'[s] = CellOf(s)
            /\ \A t \in Socks : t # s => storage'[t] = storage[t] /\ storage[t] # CellOf(s)
            /\ flow'[s] = r
            /\ \A g \in Flows : g # s => flow'[g] = flow[g]
            /\ \A g \in Flows : flow[g].cell = CellOf(s) => flow[g].sock = s
            /\ heap'[CellOf(s)] = ev
            /\ \A c \in Cells : c # CellOf(s) => heap'[c] = heap[c]
        <4>1. flow[s].pc \notin MidHook /\ r.pc \in MidHook
          BY <1>m, <3>1, <3>3
        <4>2. s \in Flows /\ ev \in EventT /\ r \in FlowT /\ r.cell = CellOf(s) /\ r.sock = s
          BY <3>1, <3>2, <3>3
        <4>3. UNCHANGED <<env, rules, sent>> /\ next_id' \in Nat
          BY <3>4
        <4>4. Enters(s, s, ev, r)
          BY <3>4, <4>1, <4>2, <4>3 DEF Enters
        <4> QED BY <1>e, <4>2, <4>4, EnterStep
      <3>6. \A c \in Cells : heap'[c].proc = heap[c].proc /\ heap'[c].peer = heap[c].peer
        BY <3>1, <3>2, <3>5
      <3>7. \A t \in Socks : storage'[t] = storage[t]
        BY <3>1, <3>5
      <3>9. "overlap" \notin env => \A g \in Flows : flow[g].pc \notin MidHook
        BY <1>5, <1>a DEF Established
      <3>10. ASSUME NEW t \in Socks, storage'[t] # 0, ~HalfFilled(storage[t])'
             PROVE  /\ storage[t] # 0 /\ ~HalfFilled(storage[t])
                    /\ heap'[storage'[t]].proc = heap[storage[t]].proc
                    /\ heap'[storage'[t]].peer = heap[storage[t]].peer
        <4>1. storage[t] \in Cells /\ storage'[t] = storage[t] /\ storage[t] # 0
          BY <1>e, <3>7, <3>10 DEF CommonT
        <4>2. ~HalfFilled(storage[t])
          BY <1>m, <3>9 DEF HalfFilled
        <4> QED BY <3>6, <4>1, <4>2
      <3>11. ASSUME NEW g \in Flows, flow[g].pc \in MidHook
             PROVE  /\ ~HalfFilled(flow[g].cell)
                    /\ heap'[flow[g].cell].proc = heap[flow[g].cell].proc
                    /\ heap'[flow[g].cell].peer = heap[flow[g].cell].peer
        <4>1. flow[g].cell \in Cells /\ "overlap" \in env
          BY <1>e, <3>9, <3>11 DEF CellInv, FlowOK
        <4> QED BY <3>6, <4>1 DEF HalfFilled
      <3>12. FlowOut(s)'
        <4>1. /\ flow'[s].pc = "established_2" /\ flow'[s].sock = s
              /\ flow'[s].cell = storage[s] /\ env' = env /\ attempts' = attempts
          BY <3>1, <3>3, <3>4, <3>5
        <4>2. Attempted(env, attempts, s, heap[storage[s]])
          <5>1. ~HalfFilled(storage[s])
            BY <1>m, <3>9 DEF HalfFilled
          <5> QED BY <1>o, <2>2, <5>1 DEF StoredOut
        <4>3. Attempted(env, attempts, s, heap'[storage[s]])
          BY <3>1, <3>6, <4>2, AttemptedKept
        <4> QED BY <4>1, <4>3 DEF FlowOut
      <3>13. \A i \in Reports' : Attempted(env, attempts', sent'[i].sock, sent'[i])
        BY <1>o, <3>4 DEF Reports
      <3>14. attempts \subseteq attempts' /\ attempts' \subseteq Socks \X Procs \X Peers
        BY <1>o, <3>4
      <3>15. env' = env
        BY <3>4
      <3>16. OutInv'
        BY <1>e, <3>1, <3>5, <3>9, <3>10, <3>11, <3>12, <3>13, <3>14, <3>15, OutKept
      <3> QED BY <1>i, <3>4, <3>5, <3>16 DEF TcpInv
    <2> QED BY <2>1, <2>2
  <1>6. ASSUME NEW s \in Socks, Established2(s)
        PROVE  TcpInv'
    <2> DEFINE ev == heap[flow[s].cell]
               out == submit_event(s, ev)
    <2>1. /\ s \in Flows /\ flow[s].pc = "established_2" /\ flow[s].sock = s /\ ev \in EventT
          /\ Attempted(env, attempts, s, ev)
      <3>1. s \in Flows /\ flow[s].pc = "established_2" /\ flow[s].sock = s /\ ev \in EventT
        BY <1>6, <1>e, <1>m, <1>o, FlowFacts DEF Established2, CellInv, FlowOK, CommonT, FlowOut
      <3>2. ~HalfFilled(flow[s].cell)
        BY <1>m, <1>o, <3>1 DEF HalfFilled, OneHook
      <3> QED BY <1>m, <1>o, <3>1, <3>2 DEF FlowOut
    <2>2. /\ flow' = [flow EXCEPT ![s] = Idle] /\ heap' = Freed(heap)
          /\ UNCHANGED <<env, rules, attempts, next_id>>
          /\ storage' = DiscardStorage(s) /\ sent' = sent \o out
      BY <1>6 DEF Established2
    <2>3. /\ storage' \in [Socks -> Cells \cup {0}]
          /\ \A t \in Socks : storage'[t] \in {storage[t], 0}
          /\ next_id' \in Nat /\ sent \in Seq(ReportT)
      BY <1>e, <2>2 DEF CommonT, DiscardStorage
    <2>4. ReportOf(out, s, ev)
      BY <2>1, SubmitFacts
    <2> HIDE DEF out, ev
    <2>5. /\ sent' \in Seq(ReportT)
          /\ \/ sent' = sent
             \/ \E r \in ReportT :
                  /\ DOMAIN sent' = DOMAIN sent \cup {Len(sent) + 1}
                  /\ \A i \in DOMAIN sent : sent'[i] = sent[i]
                  /\ sent'[Len(sent) + 1] = r
                  /\ r.sock = s /\ r.proc = ev.proc /\ r.peer = ev.peer
      BY <2>2, <2>3, <2>4, AppendReport
    <2>6. \A i \in Reports' : Attempted(env, attempts, sent'[i].sock, sent'[i])
      BY <1>o, <2>1, <2>5 DEF Reports, Attempted
    <2> QED BY <1>f, <2>1, <2>2, <2>3, <2>5, <2>6, FlowFacts
  <1>7. ASSUME NEW s \in Socks, Disconnect(s)
        PROVE  TcpInv'
    BY <1>u, <1>7 DEF Disconnect, common
  <1> QED BY <1>1, <1>2, <1>b, <1>c, <1>3, <1>4, <1>5, <1>6, <1>7 DEF OutgoingNext

-----------------------------------------------------------------------------
\* The incoming hooks: both flags of a tracker are set only while it is judged.

\* A hook that begins is the one that judges.
LEMMA PairEnter ==
  ASSUME CellInv, PairIsJudged, "incoming" \in env, NEW f \in Flows, NEW s \in Socks,
         NEW ev, NEW r, Enters(f, s, ev, r)
  PROVE  PairIsJudged'
  <1>1. /\ storage'[s] = CellOf(s)
        /\ \A t \in Socks : t # s => storage'[t] = storage[t] /\ storage[t] # CellOf(s)
        /\ flow'[f] = r
        /\ \A g \in Flows : g # f => flow'[g] = flow[g]
        /\ \A c \in Cells : c # CellOf(s) => heap'[c] = heap[c]
    BY EnterStep
  <1>2. r.pc \in MidHook /\ r.cell = CellOf(s) /\ flow[f].pc \notin MidHook
    BY DEF Enters
  <1> SUFFICES ASSUME NEW t \in Socks, storage'[t] # 0,
                      heap'[storage'[t]].accept, heap'[storage'[t]].request
               PROVE  \E g \in Flows : flow'[g].pc \in MidHook /\ flow'[g].cell = storage'[t]
    BY DEF PairIsJudged
  <1>3. CASE t = s
    BY <1>1, <1>2, <1>3
  <1>4. CASE t # s
    <2>1. storage'[t] = storage[t] /\ storage[t] \in Cells /\ storage[t] # CellOf(s)
      BY <1>1, <1>4 DEF CellInv, CommonT
    <2>2. heap'[storage'[t]] = heap[storage[t]]
      BY <1>1, <2>1
    <2>3. PICK g \in Flows : flow[g].pc \in MidHook /\ flow[g].cell = storage[t]
      BY <2>1, <2>2 DEF PairIsJudged
    <2> QED BY <1>1, <1>2, <2>1, <2>3
  <1> QED BY <1>3, <1>4

\* A hook that ends leaves no tracker with both flags.
LEMMA PairEnd ==
  ASSUME CellInv, PairIsJudged, "incoming" \in env, NEW f \in Flows, NEW r, NEW h,
         Ends(f, r, h),
         \A c \in Cells : c # flow[f].cell => h[c] = heap[c],
         \A s \in Socks :
           storage'[s] # 0 /\ storage[s] = flow[f].cell /\ h[storage[s]].accept
               /\ h[storage[s]].request => r.pc \in MidHook
  PROVE  PairIsJudged'
  <1>1. /\ flow'[f] = r /\ \A g \in Flows : g # f => flow'[g] = flow[g]
        /\ \A s \in Socks : storage'[s] # 0 =>
             storage'[s] = storage[s] /\ storage[s] \in Cells /\ heap'[storage[s]] = h[storage[s]]
    BY EndStep
  <1> SUFFICES ASSUME NEW t \in Socks, storage'[t] # 0,
                      heap'[storage'[t]].accept, heap'[storage'[t]].request
               PROVE  \E g \in Flows : flow'[g].pc \in MidHook /\ flow'[g].cell = storage'[t]
    BY DEF PairIsJudged
  <1>2. storage'[t] = storage[t] /\ storage[t] \in Cells /\ heap'[storage'[t]] = h[storage[t]]
    BY <1>1
  <1>3. CASE storage[t] = flow[f].cell
    <2>1. r.pc \in MidHook /\ r.cell = storage[t]
      BY <1>2, <1>3 DEF Ends
    <2> QED BY <1>1, <1>2, <2>1
  <1>4. CASE storage[t] # flow[f].cell
    <2>1. h[storage[t]] = heap[storage[t]]
      BY <1>2, <1>4
    <2>2. PICK g \in Flows : flow[g].pc \in MidHook /\ flow[g].cell = storage[t]
      BY <1>2, <2>1 DEF PairIsJudged
    <2> QED BY <1>1, <1>2, <1>4, <2>2
  <1> QED BY <1>3, <1>4

-----------------------------------------------------------------------------
\* The incoming hooks when they do not overlap.

\* Reports and trackers are finitely many, before a step and after it.
LEMMA CountSets ==
  ASSUME NEW q \in Seq(ReportT), NEW A, NEW H, A \subseteq DOMAIN q, H \subseteq Socks
  PROVE  /\ IsFiniteSet(A) /\ Cardinality(A) \in Nat
         /\ IsFiniteSet(H) /\ Cardinality(H) \in Nat
  <1>1. IsFiniteSet(DOMAIN q)
    <2>1. DOMAIN q = 1 .. Len(q) /\ Len(q) \in Nat
      OBVIOUS
    <2> QED BY <2>1, FS_Interval
  <1>2. IsFiniteSet(A) /\ IsFiniteSet(H)
    BY <1>1, CellFacts, FS_Subset
  <1> QED BY <1>2, FS_CardinalityType

LEMMA CountFacts ==
  ASSUME CommonT, CommonT', NEW a \in Peers
  PROVE  /\ IsFiniteSet(About(a)) /\ Cardinality(About(a)) \in Nat
         /\ IsFiniteSet(Holding(a)) /\ Cardinality(Holding(a)) \in Nat
         /\ Arriving(a) \in {0, 1}
         /\ IsFiniteSet(About(a)') /\ Cardinality(About(a)') \in Nat
         /\ IsFiniteSet(Holding(a)') /\ Cardinality(Holding(a)') \in Nat
         /\ Arriving(a)' \in {0, 1}
  <1>1. About(a) \subseteq DOMAIN sent /\ Holding(a) \subseteq Socks /\ sent \in Seq(ReportT)
    BY DEF About, Holding, Reports, CommonT
  <1>2. About(a)' \subseteq DOMAIN sent' /\ Holding(a)' \subseteq Socks /\ sent' \in Seq(ReportT)
    BY DEF About, Holding, Reports, CommonT
  <1>3. Arriving(a) \in {0, 1} /\ Arriving(a)' \in {0, 1}
    BY DEF Arriving
  <1> QED BY <1>1, <1>2, <1>3, CountSets

\* No more SYNs are reported, held or arriving than before.
Count(a) == Cardinality(About(a)) + Cardinality(Holding(a)) + Arriving(a)

\* What a hook that goes on or ends must leave behind.
LEMMA AloneEnd ==
  ASSUME CellInv, AloneInv, NEW f \in Flows, NEW r, NEW h, Ends(f, r, h),
         flow[f].pc \in MidHook, UNCHANGED <<asked, syns>>,
         \A c \in Cells : c # flow[f].cell => h[c] = heap[c],
         r.pc \in MidHook =>
           /\ storage' = storage
           /\ r.pc = "accept_2" => <<r.sock, f>> \in asked
           /\ r.pc \in {"request_2", "accept_2"}
           /\ h[r.cell].request /\ r.slot = h[r.cell] /\ <<r.sock, r.slot.proc>> \in asked,
         \A s \in Socks : storage'[s] # 0 /\ storage[s] = flow[f].cell =>
           /\ h[storage[s]].accept => <<s, h[storage[s]].proc>> \in asked
           /\ ~h[storage[s]].request => h[storage[s]].peer = None,
         \A i \in Reports' : <<sent'[i].sock, sent'[i].proc>> \in asked,
         \A a \in Peers : Count(a)' <= Count(a)
  PROVE  AloneInv'
  <1>1. /\ CellInv'
        /\ flow'[f] = r /\ \A g \in Flows : g # f => flow'[g] = flow[g]
        /\ \A s \in Socks : storage'[s] # 0 =>
             storage'[s] = storage[s] /\ storage[s] \in Cells /\ heap'[storage[s]] = h[storage[s]]
        /\ \A g \in Flows : flow'[g].pc \in MidHook =>
             flow'[g].cell \in Cells /\ heap'[flow'[g].cell] = h[flow'[g].cell]
    BY EndStep
  <1>2. /\ \A g \in Flows : flow[g].pc \in MidHook => f = g
        /\ storage[flow[f].sock] = flow[f].cell
    BY DEF AloneInv, HookOK
  <1>3. ASSUME NEW g \in Flows PROVE HookOK(g)'
    <2>1. CASE flow'[g].pc \notin MidHook
      BY <2>1 DEF HookOK
    <2>2. CASE flow'[g].pc \in MidHook
      <3>1. g = f /\ flow'[g] = r /\ \A k \in Flows : flow'[k].pc \in MidHook => g = k
        BY <1>1, <1>2, <2>2
      <3>2. r.cell = flow[f].cell /\ r.sock = flow[f].sock /\ storage' = storage
        BY <2>2, <3>1 DEF Ends
      <3>3. storage'[flow'[g].sock] = flow'[g].cell
        BY <1>2, <3>1, <3>2
      <3>4. heap'[flow'[g].cell] = h[r.cell]
        BY <1>1, <2>2, <3>1
      <3> QED BY <2>2, <3>1, <3>3, <3>4 DEF HookOK
    <2> QED BY <2>1, <2>2
  <1>4. ASSUME NEW s \in Socks PROVE TrackerOK(s)'
    <2> SUFFICES ASSUME storage'[s] # 0 PROVE TrackerOK(s)'
      BY DEF TrackerOK
    <2>1. /\ storage'[s] = storage[s] /\ storage[s] \in Cells /\ storage[s] # 0
          /\ heap'[storage'[s]] = h[storage[s]]
      BY <1>1
    <2>2. CASE storage[s] = flow[f].cell
      BY <2>1, <2>2 DEF TrackerOK
    <2>3. CASE storage[s] # flow[f].cell
      <3>1. h[storage[s]] = heap[storage[s]]
        BY <2>1, <2>3
      <3>2. \A g \in Flows : ~(flow[g].pc = "accept_fill" /\ flow[g].cell = storage[s])
        BY <1>2, <2>3 DEF MidHook
      <3>3. TrackerOK(s)
        BY DEF AloneInv
      <3> QED BY <2>1, <3>1, <3>2, <3>3 DEF TrackerOK
    <2> QED BY <2>2, <2>3
  <1>5. ASSUME NEW a \in Peers PROVE Counted(a)'
    <2>1. /\ Cardinality(About(a)) \in Nat /\ Cardinality(Holding(a)) \in Nat
          /\ Arriving(a) \in {0, 1}
          /\ Cardinality(About(a)') \in Nat /\ Cardinality(Holding(a)') \in Nat
          /\ Arriving(a)' \in {0, 1}
      BY <1>1, CountFacts DEF CellInv
    <2>2. /\ Count(a) <= syns[a] /\ Count(a) \in Nat /\ syns[a] \in Nat
          /\ Count(a)' \in Nat
      BY <2>1 DEF AloneInv, Counted, Count
    <2>3. Count(a)' <= syns'[a]
      BY <2>1, <2>2
    <2> QED BY <2>3 DEF Count, Counted
  <1> QED BY <1>3, <1>4, <1>5 DEF AloneInv

\* What a hook that begins must find and leave.
LEMMA AloneEnter ==
  ASSUME CellInv, AloneInv, \A g \in Flows : flow[g].pc \notin MidHook,
         NEW f \in Flows, NEW s \in Socks, NEW ev, NEW r, Enters(f, s, ev, r),
         r.pc \in {"accept_fill", "request_fill"}, asked \subseteq asked',
         r.pc = "accept_fill" => <<s, f>> \in asked',
         r.pc = "request_fill" => ev.request,
         ev.accept => r.pc = "accept_fill" \/ <<s, ev.proc>> \in asked,
         ~ev.request => ev.peer = None,
         \A a \in Peers : ev.request /\ ev.peer = a => s \in Holding(a),
         syns' \in [Peers -> Nat],
         \A a \in Peers : syns[a] + Arriving(a)' <= syns'[a]
  PROVE  AloneInv'
  <1>1. /\ CellInv'
        /\ storage'[s] = CellOf(s) /\ CellOf(s) \in Cells /\ CellOf(s) # 0
        /\ \A t \in Socks : t # s => storage'[t] = storage[t] /\ storage[t] # CellOf(s)
        /\ flow'[f] = r
        /\ \A g \in Flows : g # f => flow'[g] = flow[g]
        /\ heap'[CellOf(s)] = ev
        /\ \A c \in Cells : c # CellOf(s) => heap'[c] = heap[c]
    BY EnterStep
  <1>2. /\ r.pc \in MidHook /\ r.cell = CellOf(s) /\ r.sock = s
        /\ sent' = sent
    BY DEF Enters
  <1>3. ASSUME NEW g \in Flows PROVE HookOK(g)'
    <2>1. CASE g # f
      BY <1>1, <2>1 DEF HookOK
    <2>2. CASE g = f
      <3>1. flow'[g] = r /\ \A k \in Flows : flow'[k].pc \in MidHook => g = k
        BY <1>1, <2>2
      <3>2. storage'[flow'[g].sock] = flow'[g].cell /\ heap'[flow'[g].cell] = ev
        BY <1>1, <1>2, <3>1
      <3>3. r.pc \notin {"accept_2", "request_2"}
        OBVIOUS
      <3> QED BY <1>2, <2>2, <3>1, <3>2, <3>3 DEF HookOK
    <2> QED BY <2>1, <2>2
  <1>4. \A t \in Socks : t # s /\ storage[t] # 0 => heap'[storage'[t]] = heap[storage[t]]
    BY <1>1 DEF CellInv, CommonT
  <1>5. ASSUME NEW t \in Socks PROVE TrackerOK(t)'
    <2>1. CASE t # s
      <3>1. TrackerOK(t) /\ storage'[t] = storage[t]
        BY <1>1, <2>1 DEF AloneInv
      <3>2. \A g \in Flows : flow[g].pc # "accept_fill"
        BY DEF MidHook
      <3> QED BY <1>4, <2>1, <3>1, <3>2 DEF TrackerOK
    <2>2. CASE t = s
      BY <1>1, <1>2, <2>2 DEF TrackerOK
    <2> QED BY <2>1, <2>2
  <1>6. \A i \in Reports' : <<sent'[i].sock, sent'[i].proc>> \in asked'
    BY <1>2 DEF AloneInv, Reports
  <1>7. ASSUME NEW a \in Peers PROVE Counted(a)'
    <2>1. About(a)' = About(a)
      BY <1>2 DEF About, Reports
    <2>2. Holding(a)' \subseteq Holding(a)
      BY <1>1, <1>4 DEF Holding
    <2>3. /\ IsFiniteSet(Holding(a)) /\ Cardinality(Holding(a)) \in Nat
          /\ Cardinality(About(a)) \in Nat /\ Cardinality(Holding(a)') \in Nat
          /\ Arriving(a) \in {0, 1} /\ Arriving(a)' \in {0, 1}
      BY <1>1, CountFacts DEF CellInv
    <2>4. Cardinality(Holding(a)') <= Cardinality(Holding(a))
      BY <2>2, <2>3, FS_Subset
    <2>5. /\ Cardinality(About(a)) + Cardinality(Holding(a)) + Arriving(a) <= syns[a]
          /\ syns[a] \in Nat /\ syns'[a] \in Nat /\ syns[a] + Arriving(a)' <= syns'[a]
      BY DEF AloneInv, Counted
    <2>6. Cardinality(About(a)') + Cardinality(Holding(a)') + Arriving(a)' <= syns'[a]
      BY <2>1, <2>3, <2>4, <2>5
    <2> QED BY <2>6 DEF Counted
  <1> QED BY <1>3, <1>5, <1>6, <1>7 DEF AloneInv

\* The content of a tracker when a hook begins.
LEMMA ContentFacts ==
  ASSUME CellInv, NEW s \in Socks
  PROVE  /\ storage[s] = 0 => ContentOf(s) = EmptyEvent
         /\ storage[s] # 0 => ContentOf(s) = heap[storage[s]]
         /\ ~EmptyEvent.accept /\ ~EmptyEvent.request /\ EmptyEvent.peer = None
  BY DEF ContentOf, EmptyEvent

\* Without a hook at work a tracker is as TrackerOK says of one that waits.
LEMMA WaitingFacts ==
  ASSUME CellInv, AloneInv, \A g \in Flows : flow[g].pc \notin MidHook, NEW s \in Socks
  PROVE  /\ ContentOf(s).accept => <<s, ContentOf(s).proc>> \in asked
         /\ ~ContentOf(s).request => ContentOf(s).peer = None
         /\ \A a \in Peers : ContentOf(s).request /\ ContentOf(s).peer = a => s \in Holding(a)
  <1>1. CASE storage[s] = 0
    BY <1>1, ContentFacts
  <1>2. CASE storage[s] # 0
    <2>1. ContentOf(s) = heap[storage[s]] /\ TrackerOK(s)
      BY <1>2, ContentFacts DEF AloneInv
    <2>2. \A g \in Flows : flow[g].pc # "accept_fill"
      BY DEF MidHook
    <2> QED BY <1>2, <2>1, <2>2 DEF TrackerOK, Holding
  <1> QED BY <1>1, <1>2

\* SYNs change from arriving to held and from held to reported; none is added.
LEMMA CountStep ==
  ASSUME CommonT, CommonT', NEW a \in Peers,
         \/ /\ About(a)' = About(a) /\ Holding(a)' \subseteq Holding(a)
            /\ Arriving(a)' <= Arriving(a)
         \/ /\ About(a)' = About(a) /\ \E s \in Socks : Holding(a)' \subseteq Holding(a) \cup {s}
            /\ Arriving(a)' = 0 /\ Arriving(a) = 1
         \/ /\ \E i : About(a)' \subseteq About(a) \cup {i}
            /\ \E s \in Holding(a) : Holding(a)' \subseteq Holding(a) \ {s}
            /\ Arriving(a)' <= Arriving(a)
  PROVE  Count(a)' <= Count(a)
  <1> DEFINE A == About(a)
             B == About(a)'
             H == Holding(a)
             K == Holding(a)'
  <1>1. /\ IsFiniteSet(A) /\ Cardinality(A) \in Nat
        /\ IsFiniteSet(H) /\ Cardinality(H) \in Nat
        /\ Arriving(a) \in {0, 1}
        /\ IsFiniteSet(B) /\ Cardinality(B) \in Nat
        /\ IsFiniteSet(K) /\ Cardinality(K) \in Nat
        /\ Arriving(a)' \in {0, 1}
    BY CountFacts
  <1> SUFFICES Cardinality(B) + Cardinality(K) + Arriving(a)'
                 <= Cardinality(A) + Cardinality(H) + Arriving(a)
    BY DEF Count
  <1> HIDE DEF A, B, H, K
  <1>2. ASSUME B = A, K \subseteq H, Arriving(a)' <= Arriving(a)
        PROVE  Cardinality(B) + Cardinality(K) + Arriving(a)'
                 <= Cardinality(A) + Cardinality(H) + Arriving(a)
    <2>1. Cardinality(K) <= Cardinality(H)
      BY <1>1, <1>2, FS_Subset
    <2> QED BY <1>1, <1>2, <2>1
  <1>p. ASSUME NEW X, NEW x, IsFiniteSet(X)
        PROVE  /\ IsFiniteSet(X \cup {x}) /\ Cardinality(X) \in Nat
               /\ Cardinality(X \cup {x}) \in Nat /\ Cardinality(X \cup {x}) <= Cardinality(X) + 1
    <2>1. /\ IsFiniteSet(X \cup {x})
          /\ Cardinality(X \cup {x}) = IF x \in X THEN Cardinality(X) ELSE Cardinality(X) + 1
      BY <1>p, FS_AddElement
    <2>2. Cardinality(X) \in Nat
      BY <1>p, FS_CardinalityType
    <2> QED BY <2>1, <2>2
  <1>3. ASSUME B = A, NEW s \in Socks, K \subseteq H \cup {s},
               Arriving(a)' = 0, Arriving(a) = 1
        PROVE  Cardinality(B) + Cardinality(K) + Arriving(a)'
                 <= Cardinality(A) + Cardinality(H) + Arriving(a)
    <2>1. /\ IsFiniteSet(H \cup {s}) /\ Cardinality(H \cup {s}) \in Nat
          /\ Cardinality(H \cup {s}) <= Cardinality(H) + 1
      BY <1>1, <1>p
    <2>2. Cardinality(K) <= Cardinality(H \cup {s})
      BY <1>3, <2>1, FS_Subset
    <2> QED BY <1>1, <1>3, <2>1, <2>2
  <1>4. ASSUME NEW i, B \subseteq A \cup {i}, NEW s \in H, K \subseteq H \ {s},
               Arriving(a)' <= Arriving(a)
        PROVE  Cardinality(B) + Cardinality(K) + Arriving(a)'
                 <= Cardinality(A) + Cardinality(H) + Arriving(a)
    <2>1. /\ IsFiniteSet(A \cup {i}) /\ Cardinality(A \cup {i}) \in Nat
          /\ Cardinality(A \cup {i}) <= Cardinality(A) + 1
      BY <1>1, <1>p
    <2>2. Cardinality(B) <= Cardinality(A \cup {i})
      BY <1>4, <2>1, FS_Subset
    <2>3. IsFiniteSet(H \ {s}) /\ Cardinality(H \ {s}) = Cardinality(H) - 1
      BY <1>1, FS_RemoveElement
    <2>4. Cardinality(K) <= Cardinality(H \ {s})
      BY <1>4, <2>3, FS_Subset
    <2> QED BY <1>1, <1>4, <2>1, <2>2, <2>3, <2>4
  <1> QED BY <1>2, <1>3, <1>4 DEF A, B, H, K

\* Every step of the incoming hooks keeps the invariant.
LEMMA IncomingStep ==
  ASSUME TcpInv, IncomingNext
  PROVE  TcpInv'
  <1>e. "incoming" \in env /\ "outgoing" \notin env /\ CellInv /\ CommonT /\ PairIsJudged
    BY DEF IncomingNext, TcpInv, InInv, CellInv, CommonT
  <1>a. "overlap" \notin env => AloneInv
    BY <1>e DEF TcpInv, InInv
  <1>m. /\ {"accept_fill", "accept_2", "request_fill", "request_2"} \subseteq MidHook
        /\ "idle" \notin MidHook /\ "accepting" \notin MidHook
    BY DEF MidHook
  <1>i. ASSUME env' = env, CellInv', PairIsJudged', "overlap" \notin env => AloneInv'
        PROVE  TcpInv'
    <2>1. OutInv'
      BY <1>e, <1>i DEF OutInv
    <2>2. InInv'
      BY <1>i DEF InInv
    <2> QED BY <1>i, <2>1, <2>2 DEF TcpInv
  <1>n. MayEnter /\ "overlap" \notin env => \A g \in Flows : flow[g].pc \notin MidHook
    BY DEF MayEnter
  <1>t. /\ \A s \in Socks : Accepting(s) \in FlowT /\ Accepting(s).pc = "accepting"
                              /\ Accepting(s).cell = 0
    BY FlowFacts, CellFacts DEF Accepting, Idle, FlowT
  \* No hook begins, goes on or ends.
  <1>d. ASSUME NEW f \in Flows, NEW r \in FlowT, flow[f].pc \notin MidHook,
               r.pc \notin MidHook, r.cell = 0, flow' = [flow EXCEPT ![f] = r],
               UNCHANGED <<env, rules, heap, storage, sent, next_id, asked, syns>>
        PROVE  TcpInv'
    <2>1. /\ CellInv'
          /\ flow'[f] = r /\ \A g \in Flows : g # f => flow'[g] = flow[g]
      BY <1>d, <1>e, IdleStep
    <2>2. \A g \in Flows : \/ flow'[g] = flow[g]
                           \/ flow[g].pc \notin MidHook /\ flow'[g].pc \notin MidHook
      BY <1>d, <2>1
    <2>3. PairIsJudged'
      BY <1>d, <1>e, <2>2 DEF PairIsJudged
    <2>4. ASSUME "overlap" \notin env PROVE AloneInv'
      <3>1. \A g \in Flows : HookOK(g)'
        BY <1>a, <1>d, <2>2, <2>4 DEF AloneInv, HookOK
      <3>2. ASSUME NEW s \in Socks PROVE TrackerOK(s)'
        <4>1. TrackerOK(s)
          BY <1>a, <2>4 DEF AloneInv
        <4>2. \A g \in Flows : flow[g].pc = "accept_fill" => flow'[g] = flow[g]
          BY <1>m, <2>2
        <4> QED BY <1>d, <4>1, <4>2 DEF TrackerOK
      <3>3. ASSUME NEW a \in Peers PROVE Counted(a)'
        <4>1. a \in Flows /\ Counted(a)
          BY <1>a, <2>4, FlowFacts DEF AloneInv
        <4>2. Arriving(a)' = Arriving(a)
          BY <1>m, <2>2, <4>1 DEF Arriving
        <4>3. About(a)' = About(a) /\ Holding(a)' = Holding(a) /\ syns'[a] = syns[a]
          BY <1>d DEF About, Holding, Reports
        <4> QED BY <4>1, <4>2, <4>3 DEF Counted
      <3> QED BY <1>a, <1>d, <2>4, <3>1, <3>2, <3>3 DEF AloneInv, Reports
    <2> QED BY <1>d, <1>i, <2>1, <2>3, <2>4
  <1>u. ASSUME UNCHANGED <<env, rules, heap, storage, flow, sent, next_id, asked, syns>>
        PROVE  TcpInv'
    <2>1. CellInv'
      BY <1>e, <1>u DEF CellInv, CommonT, FlowOK, CellsOK
    <2>2. PairIsJudged'
      BY <1>e, <1>u DEF PairIsJudged
    <2>3. \A a \in Peers : About(a)' = About(a) /\ Holding(a)' = Holding(a)
                             /\ Arriving(a)' = Arriving(a)
      BY <1>u DEF About, Holding, Arriving, Reports
    <2>4. ASSUME "overlap" \notin env PROVE AloneInv'
      <3>1. (\A g \in Flows : HookOK(g)') /\ (\A s \in Socks : TrackerOK(s)')
        BY <1>a, <1>u, <2>4 DEF AloneInv, HookOK, TrackerOK
      <3>2. \A a \in Peers : Counted(a)'
        BY <1>a, <1>u, <2>3, <2>4 DEF AloneInv, Counted
      <3> QED BY <1>a, <1>u, <2>4, <3>1, <3>2 DEF AloneInv, Reports
    <2> QED BY <1>i, <1>u, <2>1, <2>2, <2>4
  \* A hook begins.
  <1>b. ASSUME NEW f \in Flows, NEW s \in Socks, NEW ev, NEW r, Enters(f, s, ev, r),
               "overlap" \notin env => AloneInv'
        PROVE  TcpInv'
    <2>1. CellInv' /\ PairIsJudged'
      BY <1>b, <1>e, EnterStep, PairEnter
    <2> QED BY <1>b, <1>i, <2>1 DEF Enters
  <1>1. ASSUME NEW p \in Procs, NEW s \in Socks, AcceptHook(p, s)
        PROVE  TcpInv'
    <2> DEFINE ev == [ContentOf(s) EXCEPT !.accept = TRUE]
               r == [Idle EXCEPT !.pc = "accept_fill", !.sock = s, !.cell = CellOf(s)]
    <2>1. p \in Flows /\ flow[p].pc \notin MidHook /\ flow[p].cell = 0 /\ MayEnter
      BY <1>1, <1>e, <1>m, FlowFacts DEF AcceptHook, MayAccept, CellInv, FlowOK
    <2>2. ContentOf(s) \in EventT /\ CellOf(s) \in Cells
      BY <1>e, <2>1, CellOfFacts
    <2>3. /\ ev \in EventT /\ ev.proc = ContentOf(s).proc /\ ev.peer = ContentOf(s).peer
          /\ (ev.request <=> ContentOf(s).request)
      BY <2>2 DEF EventT
    <2>4. /\ r \in FlowT /\ r.pc = "accept_fill" /\ r.sock = s /\ r.cell = CellOf(s)
      BY <1>m, <2>2, FlowFacts DEF FlowT, Idle
    <2>5. /\ heap' = [heap EXCEPT ![CellOf(s)] = ev]
          /\ storage' = [storage EXCEPT ![s] = CellOf(s)]
          /\ flow' = [flow EXCEPT ![p] = r]
          /\ asked' = asked \cup {<<s, p>>}
          /\ UNCHANGED <<env, rules, sent, next_id, syns>>
      BY <1>1 DEF AcceptHook
    <2> HIDE DEF ev, r
    <2>6. Enters(p, s, ev, r)
      BY <1>e, <1>m, <2>1, <2>3, <2>4, <2>5 DEF Enters, CommonT
    <2>7. ASSUME "overlap" \notin env PROVE AloneInv'
      <3>1. \A g \in Flows : flow[g].pc \notin MidHook
        BY <1>n, <2>1, <2>7
      <3>2. /\ AloneInv
            /\ ~ev.request => ev.peer = None
            /\ \A a \in Peers : ev.request /\ ev.peer = a => s \in Holding(a)
        BY <1>a, <1>e, <2>3, <2>7, <3>1, WaitingFacts
      <3>3. \A a \in Peers : Arriving(a)' = 0
        <4>1. \A g \in Flows : flow'[g].pc # "request_fill"
          BY <1>e, <1>m, <2>4, <2>5, <3>1 DEF CommonT
        <4> QED BY <4>1, FlowFacts DEF Arriving
      <3>4. /\ syns' \in [Peers -> Nat]
            /\ \A a \in Peers : syns[a] + Arriving(a)' <= syns'[a]
        BY <2>5, <3>2, <3>3 DEF AloneInv
      <3>5. /\ r.pc \in {"accept_fill", "request_fill"} /\ asked \subseteq asked'
            /\ <<s, p>> \in asked' /\ r.pc # "request_fill"
        BY <2>4, <2>5
      <3> QED BY <1>e, <2>1, <2>4, <2>6, <3>1, <3>2, <3>4, <3>5, AloneEnter
    <2> QED BY <1>b, <2>1, <2>6, <2>7
  <1>2. ASSUME NEW p \in Procs, NEW s \in Socks, AcceptIgnored(p, s)
        PROVE  TcpInv'
    <2>1. p \in Flows /\ flow[p].pc \notin MidHook
      BY <1>2, <1>m, FlowFacts DEF AcceptIgnored, MayAccept
    <2>2. /\ flow' = [flow EXCEPT ![p] = Accepting(s)]
          /\ UNCHANGED <<env, rules, heap, storage, sent, next_id, asked, syns>>
      BY <1>2 DEF AcceptIgnored, incoming
    <2> HIDE DEF Accepting
    <2> QED BY <1>d, <1>m, <1>t, <2>1, <2>2
  <1>3. ASSUME NEW a \in Peers, NEW s \in Socks, RequestHook(a, s)
        PROVE  TcpInv'
    <2> DEFINE ev == [ContentOf(s) EXCEPT !.request = TRUE]
               r == [Idle EXCEPT !.pc = "request_fill", !.sock = s, !.cell = CellOf(s)]
    <2>1. a \in Flows /\ flow[a].pc \notin MidHook /\ flow[a].cell = 0 /\ MayEnter
      BY <1>3, <1>e, <1>m, FlowFacts DEF RequestHook, MaySyn, CellInv, FlowOK
    <2>2. ContentOf(s) \in EventT /\ CellOf(s) \in Cells
      BY <1>e, <2>1, CellOfFacts
    <2>3. /\ ev \in EventT /\ ev.proc = ContentOf(s).proc /\ ev.peer = ContentOf(s).peer
          /\ (ev.accept <=> ContentOf(s).accept) /\ ev.request
      BY <2>2 DEF EventT
    <2>4. /\ r \in FlowT /\ r.pc = "request_fill" /\ r.sock = s /\ r.cell = CellOf(s)
      BY <1>m, <2>2, FlowFacts DEF FlowT, Idle
    <2>5. /\ heap' = [heap EXCEPT ![CellOf(s)] = ev]
          /\ storage' = [storage EXCEPT ![s] = CellOf(s)]
          /\ flow' = [flow EXCEPT ![a] = r]
          /\ syns' = [syns EXCEPT ![a] = @ + 1]
          /\ UNCHANGED <<env, rules, sent, next_id, asked>>
      BY <1>3 DEF RequestHook
    <2> HIDE DEF ev, r
    <2>6. Enters(a, s, ev, r)
      BY <1>e, <1>m, <2>1, <2>3, <2>4, <2>5 DEF Enters, CommonT
    <2>7. ASSUME "overlap" \notin env PROVE AloneInv'
      <3>1. \A g \in Flows : flow[g].pc \notin MidHook
        BY <1>n, <2>1, <2>7
      <3>2. /\ AloneInv
            /\ ev.accept => <<s, ev.proc>> \in asked
        BY <1>a, <1>e, <2>3, <2>7, <3>1, WaitingFacts
      <3>3. \A b \in Peers : ev.peer = b => s \in Holding(b)
        <4> SUFFICES ASSUME NEW b \in Peers, ContentOf(s).peer = b PROVE s \in Holding(b)
          BY <2>3
        <4>1. b # None
          BY SetAssumption
        <4> QED BY <1>a, <1>e, <2>7, <3>1, <4>1, WaitingFacts
      <3>4. \A b \in Peers : Arriving(b)' = IF b = a THEN 1 ELSE 0
        <4>1. \A g \in Flows : flow'[g].pc = "request_fill" <=> g = a
          BY <1>e, <1>m, <2>1, <2>4, <2>5, <3>1 DEF CommonT
        <4> QED BY <4>1, FlowFacts DEF Arriving
      <3>5. /\ syns' \in [Peers -> Nat]
            /\ \A b \in Peers : syns[b] + Arriving(b)' <= syns'[b]
        <4>1. syns \in [Peers -> Nat]
          BY <3>2 DEF AloneInv
        <4> QED BY <2>5, <3>4, <4>1
      <3>6. /\ r.pc \in {"accept_fill", "request_fill"} /\ asked \subseteq asked'
            /\ r.pc # "accept_fill"
        BY <2>4, <2>5
      <3> QED BY <1>e, <2>1, <2>3, <2>4, <2>6, <3>1, <3>2, <3>3, <3>5, <3>6, AloneEnter
    <2> QED BY <1>b, <2>1, <2>6, <2>7
  <1>4. ASSUME NEW a \in Peers, NEW s \in Socks, RequestIgnored(a, s)
        PROVE  TcpInv'
    BY <1>4, <1>u DEF RequestIgnored
  <1>5. ASSUME NEW a \in Peers, Handshake(a) \/ HandshakeFails(a)
        PROVE  TcpInv'
    BY <1>5, <1>u DEF Handshake, HandshakeFails, common
  <1>6. ASSUME NEW p \in Procs, AcceptReturns(p) \/ AcceptReturnsEmpty(p)
        PROVE  TcpInv'
    <2>1. p \in Flows /\ flow[p].pc \notin MidHook
      BY <1>6, <1>m, FlowFacts DEF AcceptReturns, AcceptReturnsEmpty
    <2>2. /\ flow' = [flow EXCEPT ![p] = Idle]
          /\ UNCHANGED <<env, rules, heap, storage, sent, next_id, asked, syns>>
      BY <1>6 DEF AcceptReturns, AcceptReturnsEmpty, incoming
    <2> QED BY <1>d, <2>1, <2>2, FlowFacts
  \* A hook goes on or ends.
  <1>g. ASSUME NEW f \in Flows, NEW r, NEW h, Ends(f, r, h),
               \A c \in Cells : c # flow[f].cell => h[c] = heap[c],
               \A s \in Socks :
                 storage'[s] # 0 /\ storage[s] = flow[f].cell /\ h[storage[s]].accept
                     /\ h[storage[s]].request => r.pc \in MidHook,
               "overlap" \notin env => AloneInv'
        PROVE  TcpInv'
    <2>1. CellInv' /\ PairIsJudged'
      BY <1>e, <1>g, EndStep, PairEnd
    <2> QED BY <1>g, <1>i, <2>1 DEF Ends
  <1>7. ASSUME NEW p \in Procs, AcceptFill(p)
        PROVE  TcpInv'
    <2> DEFINE c == flow[p].cell
               s == flow[p].sock
               ev == [heap[c] EXCEPT !.proc = p]
               r == IF ev.request THEN [flow[p] EXCEPT !.pc = "accept_2", !.slot = ev]
                    ELSE Accepting(s)
               h == [heap EXCEPT ![c] = ev]
    <2>1. /\ p \in Flows /\ flow[p].pc = "accept_fill" /\ flow[p].pc \in MidHook
          /\ c \in Cells /\ s \in Socks /\ heap[c] \in EventT /\ flow[p] \in FlowT
      BY <1>7, <1>e, <1>m, FlowFacts DEF AcceptFill, CellInv, FlowOK, CommonT
    <2>2. /\ ev \in EventT /\ ev.proc = p /\ ev.peer = heap[c].peer
          /\ (ev.request <=> heap[c].request) /\ (ev.accept <=> heap[c].accept)
      BY <2>1 DEF EventT
    <2>3. /\ storage' = storage /\ flow' = [flow EXCEPT ![p] = r] /\ heap' = Freed(h)
          /\ UNCHANGED <<env, rules, sent, next_id, asked, syns>>
      BY <1>7 DEF AcceptFill, incoming
    <2> HIDE DEF ev
    <2>4. /\ r \in FlowT
          /\ ev.request => r.pc = "accept_2" /\ r.slot = ev /\ r.cell = c /\ r.sock = s
          /\ ~ev.request => r.pc = "accepting" /\ r.cell = 0
      <3>1. CASE ev.request
        BY <1>m, <2>1, <2>2, <3>1 DEF FlowT
      <3>2. CASE ~ev.request
        BY <1>t, <2>1, <3>2
      <3> QED BY <3>1, <3>2
    <2>5. h \in [Cells -> EventT] /\ h[c] = ev /\ \A d \in Cells : d # c => h[d] = heap[d]
      BY <1>e, <2>1, <2>2 DEF CommonT
    <2> HIDE DEF r, h
    <2>6. Ends(p, r, h)
      BY <1>e, <1>m, <2>1, <2>3, <2>4, <2>5 DEF Ends, CommonT
    <2>7. CommonT' /\ \A t \in Socks : storage[t] # 0 => heap'[storage[t]] = h[storage[t]]
      BY <1>e, <2>1, <2>3, <2>6, EndStep DEF CellInv
    <2>8. ASSUME "overlap" \notin env PROVE AloneInv'
      <3>1. /\ AloneInv /\ HookOK(p) /\ TrackerOK(s) /\ storage[s] = c /\ <<s, p>> \in asked
        BY <1>a, <2>1, <2>8 DEF AloneInv, HookOK
      <3>2. \A t \in Socks : storage[t] = c => t = s
        BY <1>e, <2>1, <3>1, CellFacts DEF CellInv, CellsOK
      <3>3. c # 0 /\ (~ev.request => ev.peer = None)
        BY <2>1, <2>2, <3>1, CellFacts DEF TrackerOK
      <3>4. ASSUME NEW a \in Peers PROVE Count(a)' <= Count(a)
        <4>1. About(a)' = About(a)
          BY <2>3 DEF About, Reports
        <4>2. \A t \in Socks : storage[t] # 0 =>
                /\ heap'[storage'[t]].peer = heap[storage[t]].peer
                /\ (heap'[storage'[t]].request <=> heap[storage[t]].request)
          BY <1>e, <2>2, <2>3, <2>5, <2>7 DEF CommonT
        <4>3. Holding(a)' \subseteq Holding(a)
          BY <2>3, <4>2 DEF Holding
        <4>4. Arriving(a)' <= Arriving(a)
          <5>1. flow'[a].pc = "request_fill" => flow[a].pc = "request_fill"
            BY <1>e, <2>1, <2>3, <2>4, FlowFacts DEF CommonT
          <5> QED BY <5>1 DEF Arriving
        <4> QED BY <1>e, <2>7, <4>1, <4>3, <4>4, CountStep
      <3>5. r.pc \in MidHook =>
              /\ storage' = storage
              /\ r.pc = "accept_2" => <<r.sock, p>> \in asked
              /\ r.pc \in {"request_2", "accept_2"}
              /\ h[r.cell].request /\ r.slot = h[r.cell] /\ <<r.sock, r.slot.proc>> \in asked
        BY <1>m, <2>2, <2>3, <2>4, <2>5, <3>1
      <3>6. \A t \in Socks : storage'[t] # 0 /\ storage[t] = flow[p].cell =>
              /\ h[storage[t]].accept => <<t, h[storage[t]].proc>> \in asked
              /\ ~h[storage[t]].request => h[storage[t]].peer = None
        BY <2>2, <2>5, <3>1, <3>2, <3>3
      <3>7. \A i \in Reports' : <<sent'[i].sock, sent'[i].proc>> \in asked
        BY <2>3, <3>1 DEF AloneInv, Reports
      <3> QED BY <1>e, <2>1, <2>3, <2>5, <2>6, <3>1, <3>4, <3>5, <3>6, <3>7, AloneEnd
    <2>9. \A t \in Socks :
            storage'[t] # 0 /\ storage[t] = flow[p].cell /\ h[storage[t]].accept
                /\ h[storage[t]].request => r.pc \in MidHook
      BY <1>m, <2>4, <2>5
    <2> QED BY <1>g, <2>1, <2>5, <2>6, <2>8, <2>9
  <1>8. ASSUME NEW a \in Peers, RequestFill(a)
        PROVE  TcpInv'
    <2> DEFINE c == flow[a].cell
               s == flow[a].sock
               ev == [heap[c] EXCEPT !.peer = a]
               r == IF ev.accept THEN [flow[a] EXCEPT !.pc = "request_2", !.slot = ev] ELSE Idle
               h == [heap EXCEPT ![c] = ev]
    <2>1. /\ a \in Flows /\ flow[a].pc = "request_fill" /\ flow[a].pc \in MidHook
          /\ c \in Cells /\ s \in Socks /\ heap[c] \in EventT /\ flow[a] \in FlowT
      BY <1>8, <1>e, <1>m, FlowFacts DEF RequestFill, CellInv, FlowOK, CommonT
    <2>2. /\ ev \in EventT /\ ev.proc = heap[c].proc /\ ev.peer = a
          /\ (ev.request <=> heap[c].request) /\ (ev.accept <=> heap[c].accept)
      BY <2>1 DEF EventT
    <2>3. /\ storage' = storage /\ flow' = [flow EXCEPT ![a] = r] /\ heap' = Freed(h)
          /\ UNCHANGED <<env, rules, sent, next_id, asked, syns>>
      BY <1>8 DEF RequestFill, RequestPart
    <2> HIDE DEF ev
    <2>4. /\ r \in FlowT
          /\ ev.accept => r.pc = "request_2" /\ r.slot = ev /\ r.cell = c /\ r.sock = s
          /\ ~ev.accept => r.pc = "idle" /\ r.cell = 0
      <3>1. CASE ev.accept
        BY <1>m, <2>1, <2>2, <3>1 DEF FlowT
      <3>2. CASE ~ev.accept
        BY <3>2, FlowFacts
      <3> QED BY <3>1, <3>2
    <2>5. h \in [Cells -> EventT] /\ h[c] = ev /\ \A d \in Cells : d # c => h[d] = heap[d]
      BY <1>e, <2>1, <2>2 DEF CommonT
    <2> HIDE DEF r, h
    <2>6. Ends(a, r, h)
      BY <1>e, <1>m, <2>1, <2>3, <2>4, <2>5 DEF Ends, CommonT
    <2>7. CommonT' /\ \A t \in Socks : storage[t] # 0 => heap'[storage[t]] = h[storage[t]]
      BY <1>e, <2>1, <2>3, <2>6, EndStep DEF CellInv
    <2>8. ASSUME "overlap" \notin env PROVE AloneInv'
      <3>1. /\ AloneInv /\ TrackerOK(s) /\ storage[s] = c /\ c # 0 /\ heap[c].request
            /\ \A g \in Flows : flow[g].pc \in MidHook => a = g
        BY <1>a, <2>1, <2>8, CellFacts DEF AloneInv, HookOK
      <3>2. \A t \in Socks : storage[t] = c => t = s
        BY <1>e, <2>1, <3>1 DEF CellInv, CellsOK
      <3>3. ev.accept => <<s, ev.proc>> \in asked
        <4>1. \A g \in Flows : flow[g].pc # "accept_fill"
          BY <1>m, <2>1, <3>1
        <4> QED BY <2>2, <3>1, <4>1 DEF TrackerOK
      <3>4. ASSUME NEW b \in Peers PROVE Count(b)' <= Count(b)
        <4>1. About(b)' = About(b)
          BY <2>3 DEF About, Reports
        <4>2. \A t \in Socks : storage[t] # 0 /\ t # s => heap'[storage'[t]] = heap[storage[t]]
          BY <1>e, <2>3, <2>5, <2>7, <3>2 DEF CommonT
        <4>3. heap'[storage'[s]].peer = a
          BY <2>1, <2>2, <2>3, <2>5, <2>7, <3>1
        <4>4. CASE b = a
          <5>1. Holding(b)' \subseteq Holding(b) \cup {s}
            BY <2>3, <4>2 DEF Holding
          <5>2. Arriving(b) = 1 /\ Arriving(b)' = 0
            BY <1>e, <2>1, <2>3, <2>4, <4>4 DEF Arriving, CommonT
          <5> QED BY <1>e, <2>1, <2>7, <4>1, <5>1, <5>2, CountStep
        <4>5. CASE b # a
          <5>1. Holding(b)' \subseteq Holding(b)
            BY <2>3, <4>2, <4>3, <4>5 DEF Holding
          <5>2. Arriving(b)' <= Arriving(b)
            <6>1. flow'[b] = flow[b]
              BY <1>e, <2>3, <4>5, FlowFacts DEF CommonT
            <6> QED BY <6>1 DEF Arriving
          <5> QED BY <1>e, <2>7, <4>1, <5>1, <5>2, CountStep
        <4> QED BY <4>4, <4>5
      <3>5. r.pc \in MidHook =>
              /\ storage' = storage
              /\ r.pc = "accept_2" => <<r.sock, a>> \in asked
              /\ r.pc \in {"request_2", "accept_2"}
              /\ h[r.cell].request /\ r.slot = h[r.cell] /\ <<r.sock, r.slot.proc>> \in asked
        BY <1>m, <2>2, <2>3, <2>4, <2>5, <3>1, <3>3
      <3>6. \A t \in Socks : storage'[t] # 0 /\ storage[t] = flow[a].cell =>
              /\ h[storage[t]].accept => <<t, h[storage[t]].proc>> \in asked
              /\ ~h[storage[t]].request => h[storage[t]].peer = None
        BY <2>2, <2>5, <3>1, <3>2, <3>3
      <3>7. \A i \in Reports' : <<sent'[i].sock, sent'[i].proc>> \in asked
        BY <2>3, <3>1 DEF AloneInv, Reports
      <3> QED BY <1>e, <2>1, <2>3, <2>5, <2>6, <3>1, <3>4, <3>5, <3>6, <3>7, AloneEnd
    <2>9. \A t \in Socks :
            storage'[t] # 0 /\ storage[t] = flow[a].cell /\ h[storage[t]].accept
                /\ h[storage[t]].request => r.pc \in MidHook
      BY <1>m, <2>4, <2>5
    <2> QED BY <1>g, <2>1, <2>5, <2>6, <2>8, <2>9
  \* A hook ends and its tracker goes, reported or not.
  <1>h. ASSUME NEW f \in Flows, flow[f].pc \in MidHook, NEW r \in FlowT,
               r.pc \notin MidHook, r.cell = 0, flow' = [flow EXCEPT ![f] = r],
               storage' = [storage EXCEPT ![flow[f].sock] = 0], heap' = Freed(heap),
               UNCHANGED <<env, rules, asked, syns>>, next_id' \in Nat,
               NEW out, sent' = sent \o out, ReportOf(out, flow[f].sock, flow[f].slot),
               out = <<>> \/ flow[f].pc \in {"accept_2", "request_2"}
        PROVE  TcpInv'
    <2> DEFINE c == flow[f].cell
               s == flow[f].sock
               ev == flow[f].slot
    <2>1. c \in Cells /\ s \in Socks /\ c # 0 /\ heap \in [Cells -> EventT] /\ sent \in Seq(ReportT)
      BY <1>e, <1>h, CellFacts DEF CellInv, FlowOK, CommonT
    <2>2. /\ sent' \in Seq(ReportT)
          /\ \/ sent' = sent
             \/ \E x \in ReportT :
                  /\ out # <<>>
                  /\ DOMAIN sent' = DOMAIN sent \cup {Len(sent) + 1}
                  /\ \A i \in DOMAIN sent : sent'[i] = sent[i]
                  /\ sent'[Len(sent) + 1] = x
                  /\ x.sock = s /\ x.proc = ev.proc /\ x.peer = ev.peer
      <3>1. CASE out = <<>>
        BY <1>h, <2>1, <3>1
      <3>2. CASE out # <<>>
        BY <1>h, <2>1, <3>2, AppendReport
      <3> QED BY <3>1, <3>2
    <2>3. /\ storage'[s] = 0 /\ \A t \in Socks : t # s => storage'[t] = storage[t]
          /\ storage' \in [Socks -> Cells \cup {0}]
      BY <1>e, <1>h, <2>1 DEF CommonT
    <2>4. Ends(f, r, heap)
      BY <1>h, <2>1, <2>2, <2>3 DEF Ends
    <2>5. /\ CommonT' /\ flow'[f] = r /\ \A g \in Flows : g # f => flow'[g] = flow[g]
          /\ \A t \in Socks : storage'[t] # 0 =>
               storage'[t] = storage[t] /\ storage[t] \in Cells /\ heap'[storage[t]] = heap[storage[t]]
      BY <1>e, <2>4, EndStep DEF CellInv
    <2>6. \A t \in Socks : storage'[t] # 0 => storage[t] # c
      BY <1>e, <2>1, <2>3 DEF CellInv, CellsOK
    <2>7. ASSUME "overlap" \notin env PROVE AloneInv'
      <3>1. /\ AloneInv /\ HookOK(f) /\ storage[s] = c
        BY <1>a, <1>h, <2>7 DEF AloneInv, HookOK
      <3>2. out # <<>> => ev = heap[c] /\ heap[c].request /\ <<s, ev.proc>> \in asked
        BY <1>h, <3>1 DEF HookOK
      <3>3. ASSUME NEW b \in Peers PROVE Count(b)' <= Count(b)
        <4>1. Holding(b)' \subseteq Holding(b) \ {s}
          BY <2>3, <2>5 DEF Holding
        <4>2. Arriving(b)' <= Arriving(b)
          <5>1. flow'[b].pc = "request_fill" => flow[b].pc = "request_fill"
            BY <1>h, <1>m, <2>5, FlowFacts
          <5> QED BY <5>1 DEF Arriving
        <4>3. CASE About(b)' = About(b)
          BY <1>e, <2>5, <4>1, <4>2, <4>3, CountStep
        <4>4. CASE About(b)' # About(b)
          <5>1. sent' # sent
            BY <4>4 DEF About, Reports
          <5>2. /\ out # <<>>
                /\ DOMAIN sent' = DOMAIN sent \cup {Len(sent) + 1}
                /\ \A i \in DOMAIN sent : sent'[i] = sent[i]
                /\ sent'[Len(sent) + 1].peer = ev.peer
            BY <2>2, <5>1
          <5>3. About(b)' \subseteq About(b) \cup {Len(sent) + 1}
            BY <5>2 DEF About, Reports
          <5>4. CASE ev.peer = b
            <6>1. s \in Holding(b)
              BY <2>1, <3>1, <3>2, <5>2, <5>4 DEF Holding
            <6> QED BY <1>e, <2>5, <4>1, <4>2, <5>3, <6>1, CountStep
          <5>5. CASE ev.peer # b
            <6>1. Len(sent) + 1 \notin DOMAIN sent
              BY <2>1
            <6>2. About(b)' = About(b)
              BY <5>2, <5>5, <6>1 DEF About, Reports
            <6> QED BY <4>4, <6>2
          <5> QED BY <5>4, <5>5
        <4> QED BY <4>3, <4>4
      <3>4. \A i \in Reports' : <<sent'[i].sock, sent'[i].proc>> \in asked
        BY <2>2, <3>1, <3>2 DEF AloneInv, Reports
      <3> QED BY <1>e, <1>h, <2>4, <2>6, <3>1, <3>3, <3>4, AloneEnd
    <2> QED BY <1>g, <2>4, <2>6, <2>7
  <1>9. ASSUME NEW a \in Peers, RequestUnsupported(a)
        PROVE  TcpInv'
    <2>1. a \in Flows /\ flow[a].pc \in MidHook
      BY <1>9, <1>m, FlowFacts DEF RequestUnsupported
    <2>2. /\ flow' = [flow EXCEPT ![a] = Idle]
          /\ storage' = [storage EXCEPT ![flow[a].sock] = 0] /\ heap' = Freed(heap)
          /\ UNCHANGED <<env, rules, asked, syns, sent, next_id>>
      BY <1>9 DEF RequestUnsupported
    <2>3. sent' = sent \o <<>> /\ next_id' \in Nat
      BY <1>e, <2>2 DEF CommonT
    <2>4. ReportOf(<<>>, flow[a].sock, flow[a].slot)
      BY DEF ReportOf
    <2> QED BY <1>h, <2>1, <2>2, <2>3, <2>4, FlowFacts
  \* The hooks that have the event judged.
  <1>j. ASSUME NEW f \in Flows, flow[f].pc \in {"accept_2", "request_2"}, NEW r \in FlowT,
               r.pc \notin MidHook, r.cell = 0, flow' = [flow EXCEPT ![f] = r],
               IncomingTailCall(flow[f]), heap' = Freed(heap),
               UNCHANGED <<env, rules, asked, syns>>
        PROVE  TcpInv'
    <2> DEFINE ev == [flow[f].slot EXCEPT !.id = next_id]
               out == generic_tail_call(flow[f].sock, ev)
    <2>1. flow[f].pc \in MidHook /\ flow[f].sock \in Socks /\ flow[f].slot \in EventT /\ next_id \in Nat
      BY <1>e, <1>j, <1>m DEF CellInv, FlowOK, CommonT, FlowT
    <2>2. ev \in EventT /\ ev.proc = flow[f].slot.proc /\ ev.peer = flow[f].slot.peer
      BY <2>1 DEF EventT
    <2>3. /\ sent' = sent \o out /\ next_id' \in Nat
          /\ storage' = [storage EXCEPT ![flow[f].sock] = 0]
      BY <1>j, <2>1 DEF IncomingTailCall, DiscardTracker
    <2> HIDE DEF ev
    <2>4. ReportOf(out, flow[f].sock, ev)
      BY <1>e, <2>1, <2>2, TailCallFacts
    <2>5. ReportOf(out, flow[f].sock, flow[f].slot)
      BY <2>2, <2>4 DEF ReportOf
    <2> HIDE DEF out
    <2> QED BY <1>h, <1>j, <2>1, <2>3, <2>5
  <1>10. ASSUME NEW p \in Procs, AcceptHook2(p)
         PROVE  TcpInv'
    <2> DEFINE r == IF Blocks(Judged(flow[p].slot).action) THEN Idle ELSE Accepting(flow[p].sock)
    <2>1. /\ p \in Flows /\ flow[p].pc = "accept_2" /\ flow[p].sock \in Socks
      BY <1>10, <1>e, <1>m, FlowFacts DEF AcceptHook2, CellInv, FlowOK
    <2>2. r \in FlowT /\ r.pc \notin MidHook /\ r.cell = 0
      BY <1>m, <1>t, <2>1, FlowFacts
    <2>3. /\ flow' = [flow EXCEPT ![p] = r] /\ IncomingTailCall(flow[p]) /\ heap' = Freed(heap)
          /\ UNCHANGED <<env, rules, asked, syns>>
      BY <1>10 DEF AcceptHook2
    <2> HIDE DEF r
    <2> QED BY <1>j, <2>1, <2>2, <2>3
  <1>11. ASSUME NEW a \in Peers, RequestHook2(a)
         PROVE  TcpInv'
    <2>1. a \in Flows /\ flow[a].pc = "request_2"
      BY <1>11, FlowFacts DEF RequestHook2
    <2>2. /\ flow' = [flow EXCEPT ![a] = Idle] /\ IncomingTailCall(flow[a]) /\ heap' = Freed(heap)
          /\ UNCHANGED <<env, rules, asked, syns>>
      BY <1>11 DEF RequestHook2
    <2> QED BY <1>j, <2>1, <2>2, FlowFacts
  <1> QED BY <1>1, <1>2, <1>3, <1>4, <1>5, <1>6, <1>7, <1>8, <1>9, <1>10, <1>11 DEF IncomingNext

-----------------------------------------------------------------------------
\* The theorems.

LEMMA TcpInvariant == Spec => []TcpInv
  <1>1. TcpInv /\ [Next]_vars => TcpInv'
    <2> SUFFICES ASSUME TcpInv, [Next]_vars PROVE TcpInv'
      OBVIOUS
    <2>1. CASE OutgoingNext
      BY <2>1, OutgoingStep
    <2>2. CASE IncomingNext
      BY <2>2, IncomingStep
    <2>3. CASE UNCHANGED vars
      <3>1. /\ UNCHANGED <<env, rules, heap, storage, flow, sent, next_id>>
            /\ UNCHANGED <<attempts, asked, syns>>
        BY <2>3 DEF vars, common, outgoing, incoming
      <3>2. CellInv'
        BY <3>1 DEF TcpInv, CellInv, CommonT, FlowOK, CellsOK
      <3>3. OutInv'
        BY <3>1 DEF TcpInv, OutInv, OneHook, StoredOut, FlowOut, HalfFilled, Attempted, Reports
      <3>4. \A a \in Peers : About(a)' = About(a) /\ Holding(a)' = Holding(a)
                               /\ Arriving(a)' = Arriving(a)
        BY <3>1 DEF About, Holding, Arriving, Reports
      <3>5. AloneInv => AloneInv'
        BY <3>1, <3>4 DEF AloneInv, HookOK, TrackerOK, Counted, Reports
      <3>6. PairIsJudged => PairIsJudged'
        BY <3>1 DEF PairIsJudged
      <3>7. InInv'
        BY <3>1, <3>5, <3>6 DEF TcpInv, InInv
      <3> QED BY <3>2, <3>3, <3>7 DEF TcpInv
    <2> QED BY <2>1, <2>2, <2>3 DEF Next
  <1> QED BY <1>1, InitTcp, PTL DEF Spec

\* accept_hook and inet_conn_request_hook set their flag in the tracker before
\* they look for that of the other: however the two overlap, and however many
\* processes accept, a tracker in which both flags are set is being judged.
THEOREM PairCorrect == Spec => []PairIsJudged
  <1>1. TcpInv => PairIsJudged
    BY DEF TcpInv, InInv, PairIsJudged
  <1> QED BY <1>1, TcpInvariant, PTL

\* A report is about something that happened: the process and the address that
\* connect_hook saw together on the socket or, if hooks overlap, each of the two in a
\* connect() on it; a process that accept_hook saw on it and a SYN
\* that inet_conn_request_hook saw, none of which is reported twice.
THEOREM ReportsCorrect == Spec => []ReportsAreReal
  <1>1. TcpInv => ReportsAreReal
    <2> SUFFICES ASSUME TcpInv PROVE ReportsAreReal
      OBVIOUS
    <2>1. ASSUME "outgoing" \in env, NEW i \in Reports
          PROVE  /\ "overlap" \notin env => Shape(sent[i]) \in attempts
                 /\ \E p \in Procs : <<sent[i].sock, p, sent[i].peer>> \in attempts
                 /\ sent[i].proc = None \/ \E a \in Peers : <<sent[i].sock, sent[i].proc, a>> \in attempts
      <3>1. /\ attempts \subseteq Socks \X Procs \X Peers
            /\ Attempted(env, attempts, sent[i].sock, sent[i])
        BY <2>1 DEF TcpInv, OutInv
      <3>2. CASE "overlap" \in env
        BY <3>1, <3>2 DEF Attempted
      <3>3. CASE "overlap" \notin env
        <4>1. <<sent[i].sock, sent[i].proc, sent[i].peer>> \in attempts
          BY <3>1, <3>3 DEF Attempted
        <4>2. sent[i].proc \in Procs /\ sent[i].peer \in Peers
          BY <3>1, <4>1
        <4> QED BY <4>1, <4>2 DEF Shape
      <3> QED BY <3>2, <3>3
    <2>2. ASSUME "incoming" \in env, "overlap" \notin env
          PROVE  /\ \A i \in Reports : <<sent[i].sock, sent[i].proc>> \in asked
                 /\ \A a \in Peers : Cardinality({i \in Reports : sent[i].peer = a}) <= syns[a]
      <3>1. AloneInv /\ CommonT
        BY <2>2 DEF TcpInv, InInv, CellInv
      <3>2. ASSUME NEW a \in Peers
            PROVE  Cardinality({i \in Reports : sent[i].peer = a}) <= syns[a]
        <4>1. /\ Cardinality(About(a)) + Cardinality(Holding(a)) + Arriving(a) <= syns[a]
              /\ syns[a] \in Nat
          BY <3>1 DEF AloneInv, Counted
        <4>2. /\ Cardinality(About(a)) \in Nat /\ Cardinality(Holding(a)) \in Nat
              /\ Arriving(a) \in {0, 1}
          <5>1. About(a) \subseteq DOMAIN sent /\ Holding(a) \subseteq Socks /\ sent \in Seq(ReportT)
            BY <3>1 DEF About, Holding, Reports, CommonT
          <5> QED BY <5>1, CountSets DEF Arriving
        <4>3. Cardinality(About(a)) <= syns[a]
          BY <4>1, <4>2
        <4> QED BY <4>3 DEF About
      <3> QED BY <3>1, <3>2 DEF AloneInv
    <2> QED BY <2>1, <2>2 DEF ReportsAreReal
  <1> QED BY <1>1, TcpInvariant, PTL

-----------------------------------------------------------------------------
\* Servers that handle one connection at a time.

SerialEnv == "incoming" \in env /\ env \cap {"overlap", "backlog", "ignored"} = {}

ConnT == [state : {"new", "syn", "half", "queued", "accepted"}, sock : Socks \cup {None}]

Tracker(s) == heap[storage[s]]
Callers(s) == {p \in Procs : flow[p].sock = s}
Open(s) == {a \in Peers : conn[a].sock = s /\ conn[a].state \in {"half", "queued"}}

\* The connection of a to p was judged, allowed and, unless excluded, reported.
Settled(s, p, a) ==
  /\ ~Blocks(rules[<<p, a>>])
  /\ rules[<<p, a>>] # "EXCLUDE_EVENT" => \E i \in Reports : Shape(sent[i]) = <<s, p, a>>

\* The kernel's state and the flows agree, on every socket.
ProcOK(p) ==
  /\ flow[p].pc \in {"idle", "accept_fill", "accept_2", "accepting"}
  /\ flow[p].sock \in Socks <=> flow[p].pc # "idle"

PeerOK(a) ==
  /\ flow[a].pc \in {"idle", "request_fill", "request_2"}
  /\ flow[a].pc # "idle" <=> conn[a].state = "syn"
  /\ flow[a].pc # "idle" => flow[a].sock = conn[a].sock
  /\ conn[a].sock \in Socks <=> conn[a].state # "new"

KernelInv ==
  /\ conn \in [Peers -> ConnT] /\ queue \in [Socks -> Seq(Peers)]
  /\ delivered \subseteq Socks \X Procs \X Peers
  /\ next_id > 0
  /\ \A p \in Procs : ProcOK(p)
  /\ \A a \in Peers : PeerOK(a)

\* One accept() and one connection at a time on a socket.
OneEach(s) ==
  /\ \A p, q \in Callers(s) : p = q
  /\ \A a, b \in Pending(s) : a = b
  /\ Len(queue[s]) <= 1
  /\ \A i \in DOMAIN queue[s] : queue[s][i] \in Open(s) /\ conn[queue[s][i]].state = "queued"

\* The flags of the tracker are those of the accept() and of the connection that
\* wait for each other; where both are there, they were paired and the tracker is gone.
Paired(s) ==
  /\ storage[s] # 0 /\ Tracker(s).accept =>
       \E p \in Callers(s) : flow[p].pc = "accept_fill" \/ Tracker(s).proc = p
  /\ storage[s] # 0 /\ Tracker(s).request =>
       \E a \in Pending(s) : flow[a].pc = "request_fill" \/ Tracker(s).peer = a
  /\ \A p \in Callers(s) :
       /\ flow[p].pc = "accept_fill" => storage[s] # 0 /\ Tracker(s).accept
       /\ flow[p].pc = "accept_2" => storage[s] # 0 /\ Tracker(s).proc = p
       /\ flow[p].pc = "accepting" /\ Open(s) = {} =>
            storage[s] # 0 /\ Tracker(s).accept /\ Tracker(s).proc = p
       /\ flow[p].pc = "accepting" => \A a \in Open(s) : storage[s] = 0 /\ Settled(s, p, a)
  /\ \A a \in Open(s) : (\A p \in Callers(s) : flow[p].pc # "accepting") =>
       storage[s] # 0 /\ Tracker(s).request /\ Tracker(s).peer = a
  /\ \A a \in Pending(s) : flow[a].pc = "request_2" => storage[s] # 0 /\ Tracker(s).accept

\* A connection is reported once, before it is handed over, and none that a rule excludes.
ReportedOnce(s) ==
  /\ \A i \in Reports : sent[i].sock = s =>
       /\ sent[i].proc \in Procs /\ sent[i].peer \in Peers
       /\ conn[sent[i].peer].sock = s /\ conn[sent[i].peer].state \in {"half", "queued", "accepted"}
       /\ rules[<<sent[i].proc, sent[i].peer>>] # "EXCLUDE_EVENT"
       /\ sent[i].peer \in Open(s) => storage[s] = 0
  /\ \A i, j \in Reports : sent[i].sock = s /\ sent[j].sock = s /\ sent[i].peer = sent[j].peer => i = j

SocketInv(s) == OneEach(s) /\ (s \notin upset => Paired(s) /\ ReportedOnce(s))

DeliveredInv == \A c \in delivered : c[1] \notin upset => Settled(c[1], c[2], c[3])

SerialBody == KernelInv /\ (\A s \in Socks : SocketInv(s)) /\ DeliveredInv

SerialInv == SerialEnv => SerialBody

-----------------------------------------------------------------------------
\* Where each thread of control can be.

\* Nobody is in a hook: what was begun has been judged or waits.
LEMMA NobodyInHook ==
  ASSUME CellInv, KernelInv, \A g \in Flows : flow[g].pc \notin MidHook
  PROVE  /\ \A p \in Procs : flow[p].pc \in {"idle", "accepting"}
         /\ \A a \in Peers : flow[a].pc = "idle" /\ conn[a].state # "syn"
         /\ \A s \in Socks : Pending(s) = Open(s)
  <1>1. \A p \in Procs : flow[p].pc \in {"idle", "accepting"}
    BY FlowFacts DEF KernelInv, ProcOK, MidHook
  <1>2. \A a \in Peers : flow[a].pc = "idle" /\ conn[a].state # "syn"
    BY FlowFacts DEF KernelInv, PeerOK, MidHook
  <1>3. \A s \in Socks : Pending(s) = Open(s)
    BY <1>2 DEF Pending, Open
  <1> QED BY <1>1, <1>2, <1>3

\* One hook is at work: the same holds of all others, and the tracker is the one
\* that the hook has.
LEMMA OneInHook ==
  ASSUME CellInv, AloneInv, KernelInv, NEW f \in Flows, flow[f].pc \in MidHook
  PROVE  /\ flow[f].sock \in Socks /\ flow[f].cell \in Cells /\ flow[f].cell # 0
         /\ storage[flow[f].sock] = flow[f].cell
         /\ \A t \in Socks : storage[t] = flow[f].cell => t = flow[f].sock
         /\ \A p \in Procs : p # f => flow[p].pc \in {"idle", "accepting"}
         /\ \A a \in Peers : a # f => flow[a].pc = "idle" /\ conn[a].state # "syn"
  <1>1. HookOK(f) /\ FlowOK(f) /\ CellsOK
    BY DEF AloneInv, CellInv
  <1>2. flow[f].sock \in Socks /\ flow[f].cell \in Cells /\ flow[f].cell # 0
    BY <1>1, CellFacts DEF FlowOK
  <1>3. storage[flow[f].sock] = flow[f].cell /\ \A g \in Flows : flow[g].pc \in MidHook => f = g
    BY <1>1 DEF HookOK
  <1>4. \A t \in Socks : storage[t] = flow[f].cell => t = flow[f].sock
    BY <1>1, <1>2, <1>3 DEF CellsOK
  <1>5. \A p \in Procs : p # f => flow[p].pc \in {"idle", "accepting"}
    BY <1>3, FlowFacts DEF KernelInv, ProcOK, MidHook
  <1>6. \A a \in Peers : a # f => flow[a].pc = "idle" /\ conn[a].state # "syn"
    BY <1>3, FlowFacts DEF KernelInv, PeerOK, MidHook
  <1> QED BY <1>2, <1>3, <1>4, <1>5, <1>6

-----------------------------------------------------------------------------
\* A step concerns one socket.

Untouched(t) ==
  /\ storage'[t] = storage[t]
  /\ storage[t] # 0 => heap'[storage[t]] = heap[storage[t]]
  /\ \A p \in Procs : flow'[p] = flow[p] \/ (flow[p].sock # t /\ flow'[p].sock # t)
  /\ \A a \in Peers : \/ conn'[a] = conn[a] /\ flow'[a] = flow[a]
                      \/ conn[a].sock # t /\ conn'[a].sock # t
  /\ queue'[t] = queue[t]

\* Reports are added for socket s only.
Adds(s) ==
  /\ Reports \subseteq Reports' /\ \A i \in Reports : sent'[i] = sent[i]
  /\ \A i \in Reports' : i \notin Reports => sent'[i].sock = s

LEMMA SettledGrows ==
  ASSUME NEW s, Adds(s), rules' = rules, NEW t, NEW p, NEW a, Settled(t, p, a)
  PROVE  Settled(t, p, a)'
  BY DEF Settled, Adds, Shape

LEMMA OtherSocket ==
  ASSUME CellInv, KernelInv, NEW s \in Socks, NEW t \in Socks, t # s, Untouched(t), Adds(s),
         rules' = rules, upset \subseteq upset', SocketInv(t)
  PROVE  SocketInv(t)'
  <1>1. /\ Callers(t)' = Callers(t) /\ \A p \in Callers(t) : flow'[p] = flow[p]
    BY DEF Callers, Untouched
  <1>2. /\ Pending(t)' = Pending(t) /\ Open(t)' = Open(t) /\ Open(t) \subseteq Pending(t)
        /\ \A a \in Pending(t) : conn'[a] = conn[a] /\ flow'[a] = flow[a]
    BY DEF Pending, Open, Untouched
  <1>3. storage'[t] = storage[t] /\ (storage[t] # 0 => Tracker(t)' = Tracker(t)) /\ queue'[t] = queue[t]
    BY DEF Untouched, Tracker
  <1>4. OneEach(t)'
    <2>1. OneEach(t)
      BY DEF SocketInv
    <2> QED BY <1>1, <1>2, <1>3, <2>1 DEF OneEach
  <1>5. ASSUME t \notin upset' PROVE Paired(t)' /\ ReportedOnce(t)'
    <2>1. Paired(t) /\ ReportedOnce(t)
      BY <1>5 DEF SocketInv
    <2>2. Paired(t)'
      <3>1. \A p \in Procs, a \in Peers : Settled(t, p, a) => Settled(t, p, a)'
        BY SettledGrows
      <3>2. Callers(t) \subseteq Procs /\ Open(t) \subseteq Peers
        BY DEF Callers, Open
      <3>3. (/\ storage[t] # 0 /\ Tracker(t).accept =>
                  \E p \in Callers(t) : flow[p].pc = "accept_fill" \/ Tracker(t).proc = p
             /\ storage[t] # 0 /\ Tracker(t).request =>
                  \E a \in Pending(t) : flow[a].pc = "request_fill" \/ Tracker(t).peer = a)'
        BY <1>1, <1>2, <1>3, <2>1 DEF Paired
      <3>4. ASSUME NEW p \in Callers(t)
            PROVE  (/\ flow[p].pc = "accept_fill" => storage[t] # 0 /\ Tracker(t).accept
                    /\ flow[p].pc = "accept_2" => storage[t] # 0 /\ Tracker(t).proc = p
                    /\ flow[p].pc = "accepting" /\ Open(t) = {} =>
                         storage[t] # 0 /\ Tracker(t).accept /\ Tracker(t).proc = p
                    /\ flow[p].pc = "accepting" => \A a \in Open(t) : storage[t] = 0 /\ Settled(t, p, a))'
        BY <1>1, <1>2, <1>3, <2>1, <3>1, <3>2, <3>4 DEF Paired
      <3>5. (/\ \A a \in Open(t) : (\A p \in Callers(t) : flow[p].pc # "accepting") =>
                  storage[t] # 0 /\ Tracker(t).request /\ Tracker(t).peer = a
             /\ \A a \in Pending(t) : flow[a].pc = "request_2" => storage[t] # 0 /\ Tracker(t).accept)'
        BY <1>1, <1>2, <1>3, <2>1 DEF Paired
      <3> QED BY <1>1, <3>3, <3>4, <3>5 DEF Paired
    <2>3. ReportedOnce(t)'
      <3>1. \A i \in Reports' : sent'[i].sock = t => i \in Reports /\ sent'[i] = sent[i]
        BY DEF Adds
      <3>2. ASSUME NEW i \in Reports', sent'[i].sock = t
            PROVE  /\ sent'[i].proc \in Procs /\ sent'[i].peer \in Peers
                   /\ conn'[sent'[i].peer].sock = t
                   /\ conn'[sent'[i].peer].state \in {"half", "queued", "accepted"}
                   /\ rules'[<<sent'[i].proc, sent'[i].peer>>] # "EXCLUDE_EVENT"
                   /\ sent'[i].peer \in Open(t)' => storage'[t] = 0
        <4>1. i \in Reports /\ sent'[i] = sent[i]
          BY <3>1, <3>2
        <4>2. /\ sent[i].proc \in Procs /\ sent[i].peer \in Peers
              /\ conn[sent[i].peer].sock = t
              /\ conn[sent[i].peer].state \in {"half", "queued", "accepted"}
              /\ rules[<<sent[i].proc, sent[i].peer>>] # "EXCLUDE_EVENT"
              /\ sent[i].peer \in Open(t) => storage[t] = 0
          BY <2>1, <3>2, <4>1 DEF ReportedOnce
        <4>3. conn'[sent[i].peer] = conn[sent[i].peer]
          BY <4>2 DEF Untouched
        <4> QED BY <1>2, <1>3, <4>1, <4>2, <4>3
      <3>3. \A i, j \in Reports' : sent'[i].sock = t /\ sent'[j].sock = t
                                     /\ sent'[i].peer = sent'[j].peer => i = j
        BY <2>1, <3>1 DEF ReportedOnce
      <3> QED BY <3>2, <3>3 DEF ReportedOnce
    <2> QED BY <2>2, <2>3
  <1> QED BY <1>4, <1>5 DEF SocketInv

\* What remains to be shown of a step on socket s.
LEMMA SocketStep ==
  ASSUME CellInv, SerialBody, KernelInv', rules' = rules, upset \subseteq upset',
         NEW s \in Socks, Adds(s),
         \A t \in Socks : t # s => Untouched(t),
         SocketInv(s)',
         \A c \in delivered' : \/ c \in delivered
                               \/ c[1] \notin upset' => Settled(c[1], c[2], c[3])
  PROVE  SerialBody'
  <1>1. \A t \in Socks : SocketInv(t)'
    BY OtherSocket DEF SerialBody
  <1>2. DeliveredInv'
    <2> SUFFICES ASSUME NEW c \in delivered', c[1] \notin upset'
                 PROVE  Settled(c[1], c[2], c[3])'
      BY DEF DeliveredInv
    <2>1. Settled(c[1], c[2], c[3])
      BY DEF SerialBody, DeliveredInv
    <2> QED BY <2>1, SettledGrows
  <1> QED BY <1>1, <1>2 DEF SerialBody

-----------------------------------------------------------------------------
\* What the steps have in common.

\* No thread is a process and a peer.
LEMMA Disjoint ==
  ASSUME NEW p \in Procs, NEW a \in Peers
  PROVE  p # a
  BY SetAssumption

\* What the invariant says of one socket.
LEMMA SerialFacts ==
  ASSUME SerialBody, NEW s \in Socks
  PROVE  /\ KernelInv /\ OneEach(s) /\ (s \notin upset => Paired(s) /\ ReportedOnce(s))
         /\ Callers(s) \subseteq Procs /\ Open(s) \subseteq Pending(s) /\ Pending(s) \subseteq Peers
  BY DEF SerialBody, SocketInv, Callers, Open, Pending

\* Nothing is reported: what has been stays as it is.
LEMMA ReportedKept ==
  ASSUME NEW s \in Socks, ReportedOnce(s), UNCHANGED <<sent, rules>>,
         \A a \in Peers :
           /\ conn[a].sock = s /\ conn[a].state \in {"half", "queued", "accepted"}
           /\ a \in Open(s) => storage[s] = 0
           => /\ conn'[a].sock = s /\ conn'[a].state \in {"half", "queued", "accepted"}
              /\ a \in Open(s)' => storage'[s] = 0
  PROVE  ReportedOnce(s)'
  <1>1. Reports' = Reports
    BY DEF Reports
  <1> QED BY <1>1 DEF ReportedOnce

\* The kernel's state and the flows, when one process or one peer takes a step.
LEMMA KernelStep ==
  ASSUME KernelInv, CommonT, CommonT',
         conn' \in [Peers -> ConnT], queue' \in [Socks -> Seq(Peers)],
         delivered' \subseteq Socks \X Procs \X Peers, next_id' > 0,
         NEW f \in Procs \cup Peers,
         \A g \in Flows : g # f => flow'[g] = flow[g],
         f \in Procs => ProcOK(f)',
         \A a \in Peers : \/ a # f /\ conn'[a] = conn[a]
                          \/ PeerOK(a)'
  PROVE  KernelInv'
  <1>1. ASSUME NEW p \in Procs PROVE ProcOK(p)'
    <2>1. CASE p = f
      BY <2>1
    <2>2. CASE p # f
      <3>1. flow'[p] = flow[p] /\ ProcOK(p)
        BY <2>2, FlowFacts DEF KernelInv
      <3> QED BY <3>1 DEF ProcOK
    <2> QED BY <2>1, <2>2
  <1>2. ASSUME NEW a \in Peers PROVE PeerOK(a)'
    <2>1. CASE a # f /\ conn'[a] = conn[a]
      <3>1. flow'[a] = flow[a] /\ PeerOK(a)
        BY <2>1, FlowFacts DEF KernelInv
      <3> QED BY <2>1, <3>1 DEF PeerOK
    <2> QED BY <2>1
  <1> QED BY <1>1, <1>2 DEF KernelInv

\* Nothing is sent.
LEMMA AddsNothing ==
  ASSUME sent' = sent, NEW s
  PROVE  Adds(s)
  BY DEF Adds, Reports

-----------------------------------------------------------------------------
\* accept_hook begins: nobody else accepts on the socket; a connection that pends
\* was not paired, and the tracker holds it.
LEMMA SerialAcceptHook ==
  ASSUME CellInv, AloneInv, SerialEnv, SerialBody, NEW p \in Procs, NEW s \in Socks,
         AcceptHook(p, s)
  PROVE  SerialBody'
  <1> DEFINE ev == [ContentOf(s) EXCEPT !.accept = TRUE]
             r == [Idle EXCEPT !.pc = "accept_fill", !.sock = s, !.cell = CellOf(s)]
  <1>1. /\ p \in Flows /\ flow[p].pc = "idle" /\ flow[p].pc \notin MidHook /\ flow[p].cell = 0
        /\ \A g \in Flows : flow[g].pc \notin MidHook
        /\ \A q \in Procs : flow[q].sock # s
    BY FlowFacts DEF AcceptHook, MayAccept, MayEnter, CellInv, FlowOK, SerialEnv, MidHook
  <1>2. ContentOf(s) \in EventT /\ CellOf(s) \in Cells
    BY <1>1, CellOfFacts
  <1>3. /\ ev \in EventT /\ ev.proc = ContentOf(s).proc /\ ev.peer = ContentOf(s).peer
        /\ (ev.request <=> ContentOf(s).request) /\ ev.accept
    BY <1>2 DEF EventT
  <1>4. /\ r \in FlowT /\ r.pc = "accept_fill" /\ r.sock = s /\ r.cell = CellOf(s) /\ r.pc \in MidHook
    BY <1>2, FlowFacts DEF FlowT, Idle, MidHook
  <1>5. /\ heap' = [heap EXCEPT ![CellOf(s)] = ev]
        /\ storage' = [storage EXCEPT ![s] = CellOf(s)]
        /\ flow' = [flow EXCEPT ![p] = r]
        /\ UNCHANGED <<env, rules, sent, next_id, conn, queue, delivered, upset>>
    BY DEF AcceptHook
  <1> HIDE DEF ev, r
  <1>6. Enters(p, s, ev, r)
    BY <1>1, <1>3, <1>4, <1>5 DEF Enters, CellInv, CommonT
  <1>7. /\ CommonT' /\ storage'[s] # 0 /\ Tracker(s)' = ev
        /\ \A t \in Socks : t # s => storage'[t] = storage[t] /\ storage[t] # CellOf(s)
        /\ flow'[p] = r /\ \A g \in Flows : g # p => flow'[g] = flow[g]
        /\ \A c \in Cells : c # CellOf(s) => heap'[c] = heap[c]
    BY <1>1, <1>6, EnterStep DEF CellInv, Tracker
  <1>8. KernelInv /\ OneEach(s) /\ (s \notin upset => Paired(s) /\ ReportedOnce(s))
    BY SerialFacts
  <1>9. /\ \A q \in Procs : flow[q].pc \in {"idle", "accepting"}
        /\ \A a \in Peers : flow[a].pc = "idle" /\ conn[a].state # "syn"
        /\ Pending(s) = Open(s)
    BY <1>1, <1>8, NobodyInHook
  <1>10. /\ \A a \in Peers : flow'[a] = flow[a]
         /\ \A q \in Procs : q # p => flow'[q] = flow[q]
    BY <1>7, Disjoint, FlowFacts
  <1>11. Callers(s) = {} /\ Callers(s)' = {p}
    BY <1>1, <1>4, <1>7, <1>10 DEF Callers
  <1>12. Open(s)' = Open(s) /\ Pending(s)' = Pending(s)
    BY <1>5 DEF Open, Pending
  <1>13. KernelInv'
    <2>1. ProcOK(p)'
      BY <1>4, <1>7 DEF ProcOK
    <2>2. \A a \in Peers : a # p /\ conn'[a] = conn[a]
      BY <1>5, Disjoint
    <2> QED BY <1>5, <1>7, <1>8, <2>1, <2>2, KernelStep DEF KernelInv, CellInv
  <1>14. ASSUME NEW t \in Socks, t # s PROVE Untouched(t)
    <2>1. storage[t] \in Cells \cup {0}
      BY DEF CellInv, CommonT
    <2>2. flow[p].sock # t /\ flow'[p].sock # t
      BY <1>1, <1>4, <1>7, <1>8, <1>14 DEF KernelInv, ProcOK
    <2> QED BY <1>5, <1>7, <1>10, <1>14, <2>1, <2>2 DEF Untouched
  <1>15. OneEach(s)'
    BY <1>5, <1>8, <1>11, <1>12 DEF OneEach
  <1>16. ASSUME s \notin upset PROVE Paired(s)' /\ ReportedOnce(s)'
    <2>1. Paired(s) /\ ReportedOnce(s)
      BY <1>8, <1>16
    <2>2. \A a \in Open(s) : storage[s] # 0 /\ Tracker(s).request /\ Tracker(s).peer = a
      BY <1>11, <2>1 DEF Paired
    <2>3. storage[s] # 0 => ContentOf(s) = Tracker(s)
      BY ContentFacts DEF Tracker
    <2>4. ASSUME ev.request PROVE \E a \in Pending(s) : ev.peer = a
      <3>1. ContentOf(s).request /\ storage[s] # 0
        BY <1>3, <2>4, ContentFacts
      <3>2. \E a \in Pending(s) : flow[a].pc = "request_fill" \/ Tracker(s).peer = a
        BY <2>1, <2>3, <3>1 DEF Paired
      <3> QED BY <1>3, <1>9, <2>3, <3>1, <3>2 DEF Pending
    <2>5. Paired(s)'
      <3>1. \A a \in Open(s)' : ev.request /\ ev.peer = a
        BY <1>3, <1>12, <2>2, <2>3
      <3>2. \A a \in Pending(s)' : flow'[a].pc # "request_2"
        BY <1>9, <1>10 DEF Pending
      <3> QED BY <1>3, <1>4, <1>7, <1>11, <1>12, <2>4, <3>1, <3>2 DEF Paired
    <2>6. ReportedOnce(s)'
      BY <1>5, <1>12, <2>1, <2>2, ReportedKept
    <2> QED BY <2>5, <2>6
  <1>17. SocketInv(s)'
    BY <1>5, <1>15, <1>16 DEF SocketInv
  <1> QED BY <1>5, <1>13, <1>14, <1>17, AddsNothing, SocketStep

\* inet_conn_request_hook begins: nothing pends on the socket; who accepts has
\* left its process in the tracker.
LEMMA SerialRequestHook ==
  ASSUME CellInv, AloneInv, SerialEnv, SerialBody, NEW a \in Peers, NEW s \in Socks,
         RequestHook(a, s)
  PROVE  SerialBody'
  <1> DEFINE ev == [ContentOf(s) EXCEPT !.request = TRUE]
             r == [Idle EXCEPT !.pc = "request_fill", !.sock = s, !.cell = CellOf(s)]
  <1>1. /\ a \in Flows /\ flow[a].pc = "idle" /\ flow[a].pc \notin MidHook /\ flow[a].cell = 0
        /\ \A g \in Flows : flow[g].pc \notin MidHook
        /\ Pending(s) = {} /\ conn[a].state = "new"
    BY FlowFacts DEF RequestHook, MaySyn, MayEnter, CellInv, FlowOK, SerialEnv, MidHook
  <1>2. ContentOf(s) \in EventT /\ CellOf(s) \in Cells
    BY <1>1, CellOfFacts
  <1>3. /\ ev \in EventT /\ ev.proc = ContentOf(s).proc /\ ev.peer = ContentOf(s).peer
        /\ (ev.accept <=> ContentOf(s).accept) /\ ev.request
    BY <1>2 DEF EventT
  <1>4. /\ r \in FlowT /\ r.pc = "request_fill" /\ r.sock = s /\ r.cell = CellOf(s) /\ r.pc \in MidHook
    BY <1>2, FlowFacts DEF FlowT, Idle, MidHook
  <1>5. /\ heap' = [heap EXCEPT ![CellOf(s)] = ev]
        /\ storage' = [storage EXCEPT ![s] = CellOf(s)]
        /\ flow' = [flow EXCEPT ![a] = r]
        /\ conn' = [conn EXCEPT ![a] = [state |-> "syn", sock |-> s]]
        /\ UNCHANGED <<env, rules, sent, next_id, queue, delivered, upset>>
    BY DEF RequestHook
  <1> HIDE DEF ev, r
  <1>6. Enters(a, s, ev, r)
    BY <1>1, <1>3, <1>4, <1>5 DEF Enters, CellInv, CommonT
  <1>7. /\ CommonT' /\ storage'[s] # 0 /\ Tracker(s)' = ev
        /\ \A t \in Socks : t # s => storage'[t] = storage[t] /\ storage[t] # CellOf(s)
        /\ flow'[a] = r /\ \A g \in Flows : g # a => flow'[g] = flow[g]
        /\ \A c \in Cells : c # CellOf(s) => heap'[c] = heap[c]
    BY <1>1, <1>6, EnterStep DEF CellInv, Tracker
  <1>8. KernelInv /\ OneEach(s) /\ (s \notin upset => Paired(s) /\ ReportedOnce(s))
    BY SerialFacts
  <1>9. /\ \A q \in Procs : flow[q].pc \in {"idle", "accepting"}
        /\ \A b \in Peers : flow[b].pc = "idle" /\ conn[b].state # "syn"
        /\ Pending(s) = Open(s)
    BY <1>1, <1>8, NobodyInHook
  <1>10. /\ \A q \in Procs : flow'[q] = flow[q]
         /\ \A b \in Peers : b # a => flow'[b] = flow[b]
    BY <1>7, Disjoint, FlowFacts
  <1>11. /\ conn' \in [Peers -> ConnT]
         /\ conn'[a].state = "syn" /\ conn'[a].sock = s
         /\ \A b \in Peers : b # a => conn'[b] = conn[b]
    BY <1>5, <1>8 DEF KernelInv, ConnT
  <1>12. Callers(s)' = Callers(s)
    BY <1>10 DEF Callers
  <1>13. Open(s)' = {} /\ Open(s) = {} /\ Pending(s)' = {a}
    BY <1>1, <1>9, <1>11 DEF Open, Pending
  <1>14. KernelInv'
    <2>1. a \notin Procs
      BY Disjoint
    <2>2. PeerOK(a)'
      BY <1>4, <1>7, <1>11 DEF PeerOK
    <2>3. \A b \in Peers : (b # a /\ conn'[b] = conn[b]) \/ PeerOK(b)'
      BY <1>11, <2>2
    <2>4. /\ queue' \in [Socks -> Seq(Peers)] /\ delivered' \subseteq Socks \X Procs \X Peers
          /\ next_id' > 0
      BY <1>5, <1>8 DEF KernelInv
    <2> QED BY <1>7, <1>8, <1>11, <2>1, <2>3, <2>4, KernelStep DEF CellInv
  <1>15. ASSUME NEW t \in Socks, t # s PROVE Untouched(t)
    <2>1. storage[t] \in Cells \cup {0}
      BY DEF CellInv, CommonT
    <2>2. conn[a].sock # t /\ conn'[a].sock # t
      BY <1>1, <1>8, <1>11, <1>15 DEF KernelInv, PeerOK
    <2> QED BY <1>5, <1>7, <1>10, <1>11, <1>15, <2>1, <2>2 DEF Untouched
  <1>16. OneEach(s)'
    BY <1>5, <1>8, <1>12, <1>13 DEF OneEach
  <1>17. ASSUME s \notin upset PROVE Paired(s)' /\ ReportedOnce(s)'
    <2>1. Paired(s) /\ ReportedOnce(s)
      BY <1>8, <1>17
    <2>2. \A p \in Callers(s) : flow'[p] = flow[p] /\ flow[p].pc \in {"idle", "accepting"}
      BY <1>9, <1>10 DEF Callers
    <2>3. storage[s] # 0 => ContentOf(s) = Tracker(s)
      BY ContentFacts DEF Tracker
    <2>4. ASSUME ev.accept PROVE \E p \in Callers(s) : ev.proc = p
      <3>1. ContentOf(s).accept /\ storage[s] # 0
        BY <1>3, <2>4, ContentFacts
      <3>2. \E p \in Callers(s) : flow[p].pc = "accept_fill" \/ Tracker(s).proc = p
        BY <2>1, <2>3, <3>1 DEF Paired
      <3> QED BY <1>3, <2>2, <2>3, <3>1, <3>2
    <2>5. \A p \in Callers(s) : flow[p].pc = "accepting" => ev.accept /\ ev.proc = p
      BY <1>3, <1>13, <2>1, <2>3 DEF Paired
    <2>6. Paired(s)'
      BY <1>3, <1>4, <1>7, <1>12, <1>13, <2>2, <2>4, <2>5 DEF Paired
    <2>7. ReportedOnce(s)'
      BY <1>1, <1>5, <1>11, <1>13, <2>1, ReportedKept
    <2> QED BY <2>6, <2>7
  <1>18. SocketInv(s)'
    BY <1>5, <1>16, <1>17 DEF SocketInv
  <1> QED BY <1>5, <1>14, <1>15, <1>18, AddsNothing, SocketStep

-----------------------------------------------------------------------------
\* accept_hook goes on: it found the request, or waits for one with its process
\* in the tracker.
LEMMA SerialAcceptFill ==
  ASSUME CellInv, AloneInv, SerialEnv, SerialBody, NEW p \in Procs, NEW s, s = flow[p].sock,
         AcceptFill(p)
  PROVE  SerialBody'
  <1> DEFINE c == flow[p].cell
             ev == [heap[c] EXCEPT !.proc = p]
             r == IF ev.request THEN [flow[p] EXCEPT !.pc = "accept_2", !.slot = ev]
                  ELSE Accepting(s)
             h == [heap EXCEPT ![c] = ev]
  <1>1. /\ p \in Flows /\ flow[p].pc = "accept_fill" /\ flow[p].pc \in MidHook
        /\ c \in Cells /\ s \in Socks /\ heap[c] \in EventT /\ flow[p] \in FlowT
    BY FlowFacts DEF AcceptFill, CellInv, FlowOK, CommonT, MidHook
  <1>2. /\ ev \in EventT /\ ev.proc = p /\ ev.peer = heap[c].peer
        /\ (ev.request <=> heap[c].request) /\ (ev.accept <=> heap[c].accept)
    BY <1>1 DEF EventT
  <1>3. /\ storage' = storage /\ flow' = [flow EXCEPT ![p] = r] /\ heap' = Freed(h)
        /\ UNCHANGED <<env, rules, sent, next_id, conn, queue, delivered, upset>>
    BY DEF AcceptFill, incoming
  <1> HIDE DEF ev
  <1>4. /\ r \in FlowT /\ r.sock = s
        /\ ev.request => r.pc = "accept_2" /\ r.pc \in MidHook /\ r.cell = c
        /\ ~ev.request => r.pc = "accepting" /\ r.pc \notin MidHook /\ r.cell = 0
    BY <1>1, <1>2, FlowFacts DEF FlowT, Accepting, Idle, MidHook
  <1>5. h \in [Cells -> EventT] /\ h[c] = ev /\ \A d \in Cells : d # c => h[d] = heap[d]
    BY <1>1, <1>2 DEF CellInv, CommonT
  <1> HIDE DEF r, h
  <1>6. Ends(p, r, h)
    BY <1>1, <1>3, <1>4, <1>5 DEF Ends, CellInv, CommonT
  <1>7. /\ CommonT' /\ \A t \in Socks : storage[t] # 0 => heap'[storage[t]] = h[storage[t]]
        /\ flow'[p] = r /\ \A g \in Flows : g # p => flow'[g] = flow[g]
    BY <1>1, <1>3, <1>6, EndStep DEF CellInv
  <1>8. KernelInv /\ OneEach(s) /\ (s \notin upset => Paired(s) /\ ReportedOnce(s))
    BY <1>1, SerialFacts
  <1>9. /\ storage[s] = c /\ c # 0 /\ \A t \in Socks : storage[t] = c => t = s
        /\ \A b \in Peers : flow[b].pc = "idle" /\ conn[b].state # "syn"
    BY <1>1, <1>8, OneInHook, Disjoint
  <1>10. /\ \A b \in Peers : flow'[b] = flow[b]
         /\ \A q \in Procs : q # p => flow'[q] = flow[q]
    BY <1>7, Disjoint, FlowFacts
  <1>11. Callers(s) = {p} /\ Callers(s)' = {p}
    <2>1. p \in Callers(s)
      BY DEF Callers
    <2>2. Callers(s) = {p}
      BY <1>8, <2>1 DEF OneEach
    <2> QED BY <1>4, <1>7, <1>10, <2>2 DEF Callers
  <1>12. Open(s)' = Open(s) /\ Pending(s)' = Pending(s) /\ Pending(s) = Open(s)
    BY <1>3, <1>9 DEF Open, Pending
  <1>13. KernelInv'
    <2>1. ProcOK(p)'
      BY <1>1, <1>4, <1>7 DEF ProcOK
    <2>2. \A b \in Peers : b # p /\ conn'[b] = conn[b]
      BY <1>3, Disjoint
    <2> QED BY <1>3, <1>7, <1>8, <2>1, <2>2, KernelStep DEF KernelInv, CellInv
  <1>14. ASSUME NEW t \in Socks, t # s PROVE Untouched(t)
    <2>1. storage[t] \in Cells \cup {0} /\ storage[t] # c
      BY <1>9, <1>14 DEF CellInv, CommonT
    <2> QED BY <1>3, <1>4, <1>5, <1>7, <1>10, <1>14, <2>1 DEF Untouched
  <1>15. OneEach(s)'
    BY <1>3, <1>8, <1>11, <1>12 DEF OneEach
  <1>16. ASSUME s \notin upset PROVE Paired(s)' /\ ReportedOnce(s)'
    <2>1. Paired(s) /\ ReportedOnce(s)
      BY <1>8, <1>16
    <2>2. /\ storage'[s] # 0 /\ Tracker(s)' = ev /\ Tracker(s) = heap[c] /\ storage[s] # 0
      BY <1>1, <1>3, <1>5, <1>7, <1>9 DEF Tracker
    <2>3. \A a \in Open(s) : Tracker(s).request /\ Tracker(s).peer = a
      BY <1>1, <1>11, <2>1 DEF Paired
    <2>4. ev.request => \E a \in Pending(s) : ev.peer = a
      BY <1>2, <1>9, <2>1, <2>2 DEF Paired, Pending
    <2>5. ev.accept
      BY <1>1, <1>2, <1>11, <2>1, <2>2 DEF Paired
    <2>6. \A a \in Open(s)' : ev.request /\ ev.peer = a
      BY <1>2, <1>12, <2>2, <2>3
    <2>7. \A a \in Pending(s)' : flow'[a].pc # "request_2"
      BY <1>9, <1>10 DEF Pending
    <2>8. Paired(s)'
      BY <1>2, <1>4, <1>7, <1>11, <1>12, <2>2, <2>4, <2>5, <2>6, <2>7 DEF Paired
    <2>9. ReportedOnce(s)'
      BY <1>1, <1>3, <1>12, <2>1, ReportedKept
    <2> QED BY <2>8, <2>9
  <1>17. SocketInv(s)'
    BY <1>3, <1>15, <1>16 DEF SocketInv
  <1> QED BY <1>1, <1>3, <1>13, <1>14, <1>17, AddsNothing, SocketStep

\* inet_conn_request_hook goes on: it found the accept(), or waits for one with
\* its address in the tracker.
LEMMA SerialRequestFill ==
  ASSUME CellInv, AloneInv, SerialEnv, SerialBody, NEW a \in Peers, NEW s, s = flow[a].sock,
         RequestFill(a)
  PROVE  SerialBody'
  <1> DEFINE c == flow[a].cell
             ev == [heap[c] EXCEPT !.peer = a]
             r == IF ev.accept THEN [flow[a] EXCEPT !.pc = "request_2", !.slot = ev] ELSE Idle
             h == [heap EXCEPT ![c] = ev]
  <1>1. /\ a \in Flows /\ flow[a].pc = "request_fill" /\ flow[a].pc \in MidHook
        /\ c \in Cells /\ s \in Socks /\ heap[c] \in EventT /\ flow[a] \in FlowT
    BY FlowFacts DEF RequestFill, CellInv, FlowOK, CommonT, MidHook
  <1>2. /\ ev \in EventT /\ ev.proc = heap[c].proc /\ ev.peer = a
        /\ (ev.request <=> heap[c].request) /\ (ev.accept <=> heap[c].accept)
    BY <1>1 DEF EventT
  <1>3. /\ storage' = storage /\ flow' = [flow EXCEPT ![a] = r] /\ heap' = Freed(h)
        /\ UNCHANGED <<env, rules, sent, next_id, queue, delivered, upset>>
        /\ IF ev.accept THEN conn' = conn ELSE conn' = [conn EXCEPT ![a].state = "half"]
    BY DEF RequestFill, RequestPart, HalfOpen
  <1> HIDE DEF ev
  <1>4. /\ r \in FlowT
        /\ ev.accept => r.pc = "request_2" /\ r.pc \in MidHook /\ r.cell = c /\ r.sock = s
        /\ ~ev.accept => r.pc = "idle" /\ r.pc \notin MidHook /\ r.cell = 0
    BY <1>1, <1>2, FlowFacts DEF FlowT, MidHook
  <1>5. h \in [Cells -> EventT] /\ h[c] = ev /\ \A d \in Cells : d # c => h[d] = heap[d]
    BY <1>1, <1>2 DEF CellInv, CommonT
  <1> HIDE DEF r, h
  <1>6. Ends(a, r, h)
    BY <1>1, <1>3, <1>4, <1>5 DEF Ends, CellInv, CommonT
  <1>7. /\ CommonT' /\ \A t \in Socks : storage[t] # 0 => heap'[storage[t]] = h[storage[t]]
        /\ flow'[a] = r /\ \A g \in Flows : g # a => flow'[g] = flow[g]
    BY <1>1, <1>3, <1>6, EndStep DEF CellInv
  <1>8. KernelInv /\ OneEach(s) /\ (s \notin upset => Paired(s) /\ ReportedOnce(s))
    BY <1>1, SerialFacts
  <1>9. /\ storage[s] = c /\ c # 0 /\ \A t \in Socks : storage[t] = c => t = s
        /\ \A q \in Procs : flow[q].pc \in {"idle", "accepting"}
    BY <1>1, <1>8, OneInHook, Disjoint
  <1>10. /\ \A q \in Procs : flow'[q] = flow[q]
         /\ \A b \in Peers : b # a => flow'[b] = flow[b]
    BY <1>7, Disjoint, FlowFacts
  <1>11. conn[a].state = "syn" /\ conn[a].sock = s /\ conn \in [Peers -> ConnT]
    BY <1>1, <1>8 DEF KernelInv, PeerOK
  <1>12. /\ conn' \in [Peers -> ConnT] /\ conn'[a].sock = s
         /\ conn'[a].state = IF ev.accept THEN "syn" ELSE "half"
         /\ \A b \in Peers : b # a => conn'[b] = conn[b]
    BY <1>3, <1>11 DEF ConnT
  <1>13. Callers(s)' = Callers(s)
    BY <1>10 DEF Callers
  <1>14. /\ Pending(s) = {a} /\ Open(s) = {} /\ DOMAIN queue[s] = {}
         /\ Pending(s)' = {a} /\ Open(s)' = IF ev.accept THEN {} ELSE {a}
    <2>1. a \in Pending(s)
      BY <1>11 DEF Pending
    <2>2. Pending(s) = {a}
      BY <1>8, <2>1 DEF OneEach
    <2>3. Open(s) = {}
      BY <1>11, <2>2 DEF Open, Pending
    <2>4. DOMAIN queue[s] = {}
      BY <1>8, <2>3 DEF OneEach
    <2> QED BY <1>12, <2>2, <2>3, <2>4 DEF Open, Pending
  <1>15. KernelInv'
    <2>1. PeerOK(a)' /\ a \notin Procs
      BY <1>1, <1>4, <1>7, <1>12, Disjoint DEF PeerOK
    <2>2. \A b \in Peers : (b # a /\ conn'[b] = conn[b]) \/ PeerOK(b)'
      BY <1>12, <2>1
    <2>3. /\ queue' \in [Socks -> Seq(Peers)] /\ delivered' \subseteq Socks \X Procs \X Peers
          /\ next_id' > 0
      BY <1>3, <1>8 DEF KernelInv
    <2> QED BY <1>7, <1>8, <1>12, <2>1, <2>2, <2>3, KernelStep DEF CellInv
  <1>16. ASSUME NEW t \in Socks, t # s PROVE Untouched(t)
    <2>1. storage[t] \in Cells \cup {0} /\ storage[t] # c
      BY <1>9, <1>16 DEF CellInv, CommonT
    <2> QED BY <1>3, <1>5, <1>7, <1>10, <1>11, <1>12, <1>16, <2>1 DEF Untouched
  <1>17. OneEach(s)'
    BY <1>3, <1>8, <1>13, <1>14 DEF OneEach
  <1>18. ASSUME s \notin upset PROVE Paired(s)' /\ ReportedOnce(s)'
    <2>1. Paired(s) /\ ReportedOnce(s)
      BY <1>8, <1>18
    <2>2. /\ storage'[s] # 0 /\ Tracker(s)' = ev /\ Tracker(s) = heap[c] /\ storage[s] # 0
      BY <1>1, <1>3, <1>5, <1>7, <1>9 DEF Tracker
    <2>3. heap[c].request
      BY <1>1 DEF AloneInv, HookOK
    <2>4. \A p \in Callers(s) : flow'[p] = flow[p] /\ flow[p].pc = "accepting"
      BY <1>1, <1>8, <1>9, <1>10 DEF Callers, KernelInv, ProcOK
    <2>5. \A p \in Callers(s) : ev.accept /\ ev.proc = p
      BY <1>2, <1>14, <2>1, <2>2, <2>4 DEF Paired
    <2>6. ev.accept => \E p \in Callers(s) : ev.proc = p
      BY <1>2, <2>1, <2>2, <2>4 DEF Paired
    <2>7. Paired(s)'
      BY <1>2, <1>4, <1>7, <1>13, <1>14, <2>2, <2>3, <2>4, <2>5, <2>6 DEF Paired
    <2>8. ReportedOnce(s)'
      BY <1>1, <1>3, <1>11, <1>12, <1>14, <2>1, ReportedKept
    <2> QED BY <2>7, <2>8
  <1>19. SocketInv(s)'
    BY <1>3, <1>17, <1>18 DEF SocketInv
  <1> QED BY <1>1, <1>3, <1>15, <1>16, <1>19, AddsNothing, SocketStep

-----------------------------------------------------------------------------
\* A hook ends and the tracker of its socket goes.
Discards(f, r, s) ==
  /\ flow[f].pc \in MidHook /\ s = flow[f].sock
  /\ r \in FlowT /\ r.pc \notin MidHook /\ r.cell = 0 /\ flow' = [flow EXCEPT ![f] = r]
  /\ storage' = [storage EXCEPT ![s] = 0] /\ heap' = Freed(heap)
  /\ UNCHANGED <<env, rules>> /\ next_id' \in Nat /\ sent' \in Seq(ReportT)

LEMMA TrackerGoes ==
  ASSUME CellInv, AloneInv, KernelInv, NEW f \in Flows, NEW r, NEW s, Discards(f, r, s)
  PROVE  /\ s \in Socks /\ CommonT' /\ storage'[s] = 0
         /\ flow'[f] = r /\ \A g \in Flows : g # f => flow'[g] = flow[g]
         /\ \A t \in Socks : t # s =>
              /\ storage'[t] = storage[t]
              /\ storage[t] # 0 => heap'[storage[t]] = heap[storage[t]]
  <1> USE DEF Discards
  <1>1. s \in Socks /\ storage[s] = flow[f].cell /\ \A t \in Socks : storage[t] = flow[f].cell => t = s
    BY OneInHook
  <1>2. /\ storage' \in [Socks -> Cells \cup {0}] /\ storage'[s] = 0
        /\ \A t \in Socks : t # s => storage'[t] = storage[t]
    BY <1>1 DEF CellInv, CommonT
  <1>3. heap \in [Cells -> EventT]
    BY DEF CellInv, CommonT
  <1>4. Ends(f, r, heap)
    BY <1>2, <1>3 DEF Ends
  <1> QED BY <1>1, <1>2, <1>4, EndStep DEF CellInv

\* The address family is not supported: the socket is upset.
LEMMA SerialRequestUnsupported ==
  ASSUME CellInv, AloneInv, SerialEnv, SerialBody, NEW a \in Peers, NEW s, s = flow[a].sock,
         RequestUnsupported(a)
  PROVE  SerialBody'
  <1>1. a \in Flows /\ flow[a].pc \in MidHook /\ flow[a].pc = "request_fill"
    BY FlowFacts DEF RequestUnsupported, MidHook
  <1>2. /\ flow' = [flow EXCEPT ![a] = Idle]
        /\ storage' = [storage EXCEPT ![s] = 0] /\ heap' = Freed(heap)
        /\ UNCHANGED <<env, rules, sent, next_id, queue, delivered>> /\ upset' = upset \cup {s}
        /\ conn' = [conn EXCEPT ![a].state = "half"]
    BY DEF RequestUnsupported, HalfOpen
  <1>3. /\ KernelInv /\ next_id' \in Nat /\ sent' \in Seq(ReportT) /\ UNCHANGED <<env, rules>>
    BY <1>2 DEF SerialBody, CellInv, CommonT
  <1>4. /\ s \in Socks /\ CommonT' /\ storage'[s] = 0
        /\ flow'[a] = Idle /\ \A g \in Flows : g # a => flow'[g] = flow[g]
        /\ \A t \in Socks : t # s =>
             /\ storage'[t] = storage[t]
             /\ storage[t] # 0 => heap'[storage[t]] = heap[storage[t]]
    <2>1. Discards(a, Idle, s)
      BY <1>1, <1>2, <1>3, FlowFacts DEF Discards
    <2> QED BY <1>1, <1>3, <2>1, TrackerGoes
  <1>5. /\ \A q \in Procs : flow'[q] = flow[q]
        /\ \A b \in Peers : b # a => flow'[b] = flow[b]
    BY <1>4, Disjoint, FlowFacts
  <1>6. conn[a].state = "syn" /\ conn[a].sock = s /\ conn \in [Peers -> ConnT] /\ OneEach(s)
    BY <1>1, <1>3, <1>4, SerialFacts DEF KernelInv, PeerOK
  <1>7. /\ conn' \in [Peers -> ConnT] /\ conn'[a].sock = s /\ conn'[a].state = "half"
        /\ \A b \in Peers : b # a => conn'[b] = conn[b]
    BY <1>2, <1>6 DEF ConnT
  <1>8. KernelInv'
    <2>1. PeerOK(a)' /\ a \notin Procs
      BY <1>4, <1>7, FlowFacts, Disjoint DEF PeerOK
    <2>2. \A b \in Peers : (b # a /\ conn'[b] = conn[b]) \/ PeerOK(b)'
      BY <1>7, <2>1
    <2>3. /\ queue' \in [Socks -> Seq(Peers)] /\ delivered' \subseteq Socks \X Procs \X Peers
          /\ next_id' > 0
      BY <1>2, <1>3 DEF KernelInv
    <2> QED BY <1>3, <1>4, <1>7, <2>1, <2>2, <2>3, KernelStep DEF CellInv
  <1>9. \A t \in Socks : t # s => Untouched(t)
    BY <1>2, <1>4, <1>5, <1>6, <1>7 DEF Untouched
  <1>10. OneEach(s)'
    <2>1. a \in Pending(s) /\ a \notin Open(s)
      BY <1>6 DEF Pending, Open
    <2>2. Pending(s) = {a} /\ Open(s) = {} /\ Pending(s)' = Pending(s)
      <3>1. Pending(s) = {a}
        BY <1>6, <2>1 DEF OneEach
      <3>2. Open(s) = {}
        BY <2>1, <3>1 DEF Pending, Open
      <3>3. Pending(s)' = Pending(s)
        BY <1>6, <1>7 DEF Pending
      <3> QED BY <3>1, <3>2, <3>3
    <2>3. Len(queue[s]) <= 1 /\ DOMAIN queue[s] = {} /\ queue'[s] = queue[s]
      BY <1>2, <1>6, <2>2 DEF OneEach
    <2>4. Callers(s)' = Callers(s)
      BY <1>5 DEF Callers
    <2> QED BY <1>6, <2>2, <2>3, <2>4 DEF OneEach
  <1>11. SocketInv(s)'
    BY <1>2, <1>10 DEF SocketInv
  <1> QED BY <1>2, <1>4, <1>8, <1>9, <1>11, AddsNothing, SocketStep

-----------------------------------------------------------------------------
\* The hooks that have a pair judged.

\* One report is added, of the connection of a to p on s.
NewReport(s, p, a) ==
  \E i : /\ i \notin Reports /\ Reports' = Reports \cup {i}
         /\ \A j \in Reports : sent'[j] = sent[j]
         /\ sent'[i].sock = s /\ sent'[i].proc = p /\ sent'[i].peer = a

\* The event in the slot is judged with a new id.
Submits(s, slot) == sent' = sent \o generic_tail_call(s, [slot EXCEPT !.id = next_id])

\* What IncomingTailCall reports of a tracker that holds a process and an address.
LEMMA PairReported ==
  ASSUME CommonT, next_id > 0, NEW s \in Socks, NEW slot \in EventT,
         NEW p \in Procs, NEW a \in Peers, slot.proc = p, slot.peer = a,
         Submits(s, slot)
  PROVE  /\ Judged(slot).action = rules[<<p, a>>]
         /\ rules[<<p, a>>] = "EXCLUDE_EVENT" => sent' = sent
         /\ rules[<<p, a>>] # "EXCLUDE_EVENT" => NewReport(s, p, a)
  <1> DEFINE ev == [slot EXCEPT !.id = next_id]
             j == Judged(ev)
             x == [id |-> j.id, action |-> j.action, proc |-> j.proc, peer |-> j.peer, sock |-> s]
  <1>1. <<p, a>> \in DOMAIN rules /\ rules[<<p, a>>] \in Chosen
    BY DEF CommonT
  <1>2. ev \in EventT /\ ev.proc = p /\ ev.peer = a /\ ev.id = next_id
    BY DEF EventT, CommonT
  <1>3. Judged(slot).action = rules[<<p, a>>]
    BY <1>1 DEF Judged, EventT
  <1> HIDE DEF ev
  <1>4. /\ j.action = rules[<<p, a>>] /\ j.id = next_id /\ j.proc = p /\ j.peer = a
        /\ j \in EventT
    <2>1. j = [ev EXCEPT !.action = rules[<<p, a>>]]
      BY <1>1, <1>2 DEF Judged
    <2> QED BY <1>1, <1>2, <2>1 DEF EventT
  <1>5. generic_tail_call(s, ev) = IF rules[<<p, a>>] = "EXCLUDE_EVENT" THEN <<>> ELSE <<x>>
    BY <1>4 DEF generic_tail_call, submit_event
  <1>6. x.sock = s /\ x.proc = p /\ x.peer = a /\ x \in ReportT
    BY <1>4 DEF ReportT, EventT
  <1> HIDE DEF j, x
  <1>7. sent' = sent \o generic_tail_call(s, ev) /\ sent \in Seq(ReportT)
    BY DEF ev, CommonT, Submits
  <1>q. ASSUME NEW q \in Seq(ReportT)
        PROVE  /\ q \o <<>> = q
               /\ Len(q) + 1 \notin DOMAIN q /\ DOMAIN (q \o <<x>>) = DOMAIN q \cup {Len(q) + 1}
               /\ \A k \in DOMAIN q : (q \o <<x>>)[k] = q[k]
               /\ (q \o <<x>>)[Len(q) + 1] = x
    <2>1. q \o <<>> = q
      OBVIOUS
    <2> QED BY <1>6, <2>1
  <1>8. ASSUME rules[<<p, a>>] # "EXCLUDE_EVENT" PROVE NewReport(s, p, a)
    <2>1. sent' = sent \o <<x>>
      BY <1>5, <1>7, <1>8
    <2>2. /\ Len(sent) + 1 \notin DOMAIN sent /\ DOMAIN sent' = DOMAIN sent \cup {Len(sent) + 1}
          /\ \A k \in DOMAIN sent : sent'[k] = sent[k]
          /\ sent'[Len(sent) + 1] = x
      BY <1>6, <1>7, <1>q, <2>1
    <2> QED BY <1>6, <2>2 DEF NewReport, Reports
  <1>9. ASSUME rules[<<p, a>>] = "EXCLUDE_EVENT" PROVE sent' = sent
    <2>1. sent' = sent \o <<>>
      BY <1>5, <1>7, <1>9
    <2> QED BY <1>7, <1>q, <2>1
  <1> QED BY <1>3, <1>8, <1>9

\* The tail call in any case: at most one report, on this socket.
LEMMA TailCallStep ==
  ASSUME CellInv, NEW f \in Flows, flow[f].pc \in {"accept_2", "request_2"},
         next_id > 0, NEW s, s = flow[f].sock, IncomingTailCall(flow[f])
  PROVE  /\ flow[f].pc \in MidHook /\ s \in Socks /\ flow[f].slot \in EventT
         /\ sent' \in Seq(ReportT) /\ Adds(s) /\ next_id' \in Nat /\ next_id' > 0
         /\ storage' = [storage EXCEPT ![s] = 0]
         /\ Submits(s, flow[f].slot)
  <1> DEFINE ev == [flow[f].slot EXCEPT !.id = next_id]
             out == generic_tail_call(s, ev)
  <1>1. /\ flow[f].pc \in MidHook /\ s \in Socks /\ flow[f].slot \in EventT
        /\ next_id \in Nat /\ sent \in Seq(ReportT)
    BY DEF CellInv, FlowOK, CommonT, FlowT, MidHook
  <1>2. /\ sent' = sent \o out /\ storage' = [storage EXCEPT ![s] = 0]
        /\ next_id' \in Nat /\ next_id' > 0
    BY <1>1 DEF IncomingTailCall, DiscardTracker
  <1>3. ev \in EventT
    BY <1>1 DEF EventT
  <1> HIDE DEF ev
  <1>4. ReportOf(out, s, ev)
    BY <1>1, <1>3, TailCallFacts DEF CellInv
  <1> HIDE DEF out
  <1>5. /\ sent' \in Seq(ReportT)
        /\ \/ sent' = sent
           \/ \E r \in ReportT :
                /\ DOMAIN sent' = DOMAIN sent \cup {Len(sent) + 1} /\ Len(sent) + 1 \notin DOMAIN sent
                /\ \A i \in DOMAIN sent : sent'[i] = sent[i]
                /\ sent'[Len(sent) + 1] = r
                /\ r.sock = s /\ r.proc = ev.proc /\ r.peer = ev.peer
    BY <1>1, <1>2, <1>4, AppendReport
  <1>6. Adds(s)
    BY <1>5 DEF Adds, Reports
  <1> QED BY <1>1, <1>2, <1>5, <1>6 DEF out, ev, Submits

\* A connection that was not reported before may be now.
LEMMA ReportedNew ==
  ASSUME NEW s \in Socks, ReportedOnce(s), rules' = rules, storage'[s] = 0,
         NEW p \in Procs, NEW a \in Peers,
         rules[<<p, a>>] = "EXCLUDE_EVENT" => sent' = sent,
         rules[<<p, a>>] # "EXCLUDE_EVENT" => NewReport(s, p, a),
         \A i \in Reports : sent[i].sock = s => sent[i].peer # a,
         conn'[a].sock = s, conn'[a].state \in {"half", "queued", "accepted"},
         \A b \in Peers : b # a => conn'[b] = conn[b]
  PROVE  ReportedOnce(s)'
  <1>1. \A i \in Reports : sent[i].sock = s =>
          /\ sent[i].proc \in Procs /\ sent[i].peer \in Peers
          /\ conn'[sent[i].peer].sock = s
          /\ conn'[sent[i].peer].state \in {"half", "queued", "accepted"}
          /\ rules[<<sent[i].proc, sent[i].peer>>] # "EXCLUDE_EVENT"
    BY DEF ReportedOnce
  <1>2. CASE rules[<<p, a>>] = "EXCLUDE_EVENT"
    <2>1. sent' = sent /\ Reports' = Reports
      BY <1>2 DEF Reports
    <2> QED BY <1>1, <2>1 DEF ReportedOnce
  <1>3. CASE rules[<<p, a>>] # "EXCLUDE_EVENT"
    <2>1. PICK n : /\ n \notin Reports /\ Reports' = Reports \cup {n}
                   /\ \A j \in Reports : sent'[j] = sent[j]
                   /\ sent'[n].sock = s /\ sent'[n].proc = p /\ sent'[n].peer = a
      BY <1>3 DEF NewReport
    <2>2. ASSUME NEW i \in Reports', sent'[i].sock = s
          PROVE  /\ sent'[i].proc \in Procs /\ sent'[i].peer \in Peers
                 /\ conn'[sent'[i].peer].sock = s
                 /\ conn'[sent'[i].peer].state \in {"half", "queued", "accepted"}
                 /\ rules[<<sent'[i].proc, sent'[i].peer>>] # "EXCLUDE_EVENT"
      <3>1. CASE i = n
        BY <1>3, <2>1, <3>1
      <3>2. CASE i \in Reports
        <4>1. sent'[i] = sent[i]
          BY <2>1, <3>2
        <4> QED BY <1>1, <2>2, <3>2, <4>1
      <3> QED BY <2>1, <3>1, <3>2
    <2>3. ASSUME NEW i \in Reports', NEW j \in Reports', sent'[i].sock = s, sent'[j].sock = s,
                 sent'[i].peer = sent'[j].peer
          PROVE  i = j
      <3>1. i \in Reports /\ j \in Reports => i = j
        BY <2>1, <2>3 DEF ReportedOnce
      <3> QED BY <2>1, <2>3, <3>1
    <2> QED BY <2>2, <2>3 DEF ReportedOnce
  <1> QED BY <1>2, <1>3

\* After that, the connection is settled.
LEMMA NowSettled ==
  ASSUME NEW s, NEW p, NEW a, rules' = rules, ~Blocks(rules[<<p, a>>]),
         rules[<<p, a>>] # "EXCLUDE_EVENT" => NewReport(s, p, a)
  PROVE  Settled(s, p, a)'
  BY DEF Settled, NewReport, Shape

\* accept_hook_2: the tracker holds the process and the connection that pends.
LEMMA SerialAcceptHook2 ==
  ASSUME CellInv, AloneInv, SerialEnv, SerialBody, NEW p \in Procs, NEW s, s = flow[p].sock,
         AcceptHook2(p)
  PROVE  SerialBody'
  <1> DEFINE slot == flow[p].slot
             refused == Blocks(Judged(slot).action)
             r == IF refused THEN Idle ELSE Accepting(s)
  <1>1. /\ p \in Flows /\ flow[p].pc = "accept_2" /\ KernelInv /\ next_id > 0
        /\ IncomingTailCall(flow[p])
    BY FlowFacts DEF AcceptHook2, SerialBody, KernelInv
  <1>2. /\ flow' = [flow EXCEPT ![p] = r] /\ heap' = Freed(heap)
        /\ UNCHANGED <<env, rules, conn, queue, delivered>>
        /\ upset' = IF refused THEN upset \cup {s} ELSE upset
    BY DEF AcceptHook2
  <1>3. /\ flow[p].pc \in MidHook /\ s \in Socks /\ slot \in EventT
        /\ sent' \in Seq(ReportT) /\ Adds(s) /\ next_id' \in Nat /\ next_id' > 0
        /\ storage' = [storage EXCEPT ![s] = 0]
        /\ Submits(s, slot)
    BY <1>1, TailCallStep
  <1> HIDE DEF refused, slot
  <1>4. /\ r \in FlowT /\ r.pc \notin MidHook /\ r.cell = 0
        /\ refused => r = Idle
        /\ ~refused => r.pc = "accepting" /\ r.sock = s
    BY <1>3, FlowFacts DEF Accepting, Idle, FlowT, MidHook
  <1> HIDE DEF r
  <1>5. Discards(p, r, s)
    BY <1>2, <1>3, <1>4 DEF Discards
  <1>6. /\ CommonT' /\ storage'[s] = 0
        /\ flow'[p] = r /\ \A g \in Flows : g # p => flow'[g] = flow[g]
        /\ \A t \in Socks : t # s =>
             /\ storage'[t] = storage[t]
             /\ storage[t] # 0 => heap'[storage[t]] = heap[storage[t]]
    BY <1>1, <1>5, TrackerGoes
  <1>7. OneEach(s) /\ (s \notin upset => Paired(s) /\ ReportedOnce(s))
    BY <1>3, SerialFacts
  <1>8. /\ storage[s] = flow[p].cell
        /\ \A b \in Peers : flow[b].pc = "idle" /\ conn[b].state # "syn"
    BY <1>1, <1>3, OneInHook, Disjoint
  <1>9. /\ \A b \in Peers : flow'[b] = flow[b]
        /\ \A q \in Procs : q # p => flow'[q] = flow[q]
    BY <1>6, Disjoint, FlowFacts
  <1>10. Callers(s) = {p} /\ Callers(s)' \subseteq {p} /\ (~refused => Callers(s)' = {p})
    <2>1. p \in Callers(s)
      BY DEF Callers
    <2>2. Callers(s) = {p}
      BY <1>7, <2>1 DEF OneEach
    <2> QED BY <1>4, <1>6, <1>9, <2>2 DEF Callers
  <1>11. Open(s)' = Open(s) /\ Pending(s)' = Pending(s) /\ Pending(s) = Open(s)
    BY <1>2, <1>8 DEF Open, Pending
  <1>12. KernelInv'
    <2>1. ProcOK(p)'
      BY <1>3, <1>4, <1>6, SetAssumption DEF ProcOK, Idle
    <2>2. \A b \in Peers : b # p /\ conn'[b] = conn[b]
      BY <1>2, Disjoint
    <2>3. /\ conn' \in [Peers -> ConnT] /\ queue' \in [Socks -> Seq(Peers)]
          /\ delivered' \subseteq Socks \X Procs \X Peers
      BY <1>1, <1>2 DEF KernelInv
    <2> QED BY <1>1, <1>3, <1>6, <2>1, <2>2, <2>3, KernelStep DEF CellInv
  <1>13. ASSUME NEW t \in Socks, t # s PROVE Untouched(t)
    <2>1. flow[p].sock # t /\ flow'[p].sock # t
      BY <1>4, <1>6, <1>13, SetAssumption DEF Idle
    <2> QED BY <1>2, <1>6, <1>9, <1>13, <2>1 DEF Untouched
  <1>14. OneEach(s)'
    BY <1>2, <1>7, <1>10, <1>11 DEF OneEach
  <1>15. ASSUME s \notin upset' PROVE Paired(s)' /\ ReportedOnce(s)'
    <2>1. Paired(s) /\ ReportedOnce(s) /\ ~refused
      BY <1>2, <1>7, <1>15
    <2>2. storage[s] # 0 /\ Tracker(s).proc = p
      BY <1>1, <1>10, <2>1 DEF Paired
    <2>3. slot = Tracker(s) /\ Tracker(s).request
      BY <1>1, <1>3, <1>8 DEF AloneInv, HookOK, Tracker, slot
    <2>4. PICK a \in Pending(s) : Tracker(s).peer = a
      BY <1>8, <2>1, <2>2, <2>3 DEF Paired, Pending
    <2>5. a \in Peers /\ Open(s) = {a}
      BY <1>7, <1>11, <2>4 DEF OneEach, Pending
    <2>6. /\ Judged(slot).action = rules[<<p, a>>]
          /\ rules[<<p, a>>] = "EXCLUDE_EVENT" => sent' = sent
          /\ rules[<<p, a>>] # "EXCLUDE_EVENT" => NewReport(s, p, a)
      BY <1>1, <1>3, <2>2, <2>3, <2>4, <2>5, PairReported DEF CellInv
    <2>7. Settled(s, p, a)'
      BY <1>2, <2>1, <2>6, NowSettled DEF refused
    <2>8. Paired(s)'
      <3>1. \A b \in Pending(s)' : flow'[b].pc # "request_2"
        BY <1>8, <1>9 DEF Pending
      <3> QED BY <1>4, <1>6, <1>10, <1>11, <2>1, <2>5, <2>7, <3>1 DEF Paired
    <2>9. ReportedOnce(s)'
      <3>1. \A i \in Reports : sent[i].sock = s => sent[i].peer # a
        BY <2>1, <2>2, <2>5 DEF ReportedOnce
      <3>2. conn'[a].sock = s /\ conn'[a].state \in {"half", "queued", "accepted"}
        BY <1>2, <2>5 DEF Open
      <3> QED BY <1>2, <1>3, <1>6, <2>1, <2>5, <2>6, <3>1, <3>2, ReportedNew
    <2> QED BY <2>8, <2>9
  <1>16. SocketInv(s)'
    BY <1>14, <1>15 DEF SocketInv
  <1> QED BY <1>2, <1>3, <1>12, <1>13, <1>16, SocketStep

\* inet_conn_request_hook_2: the tracker holds the address and the process that waits.
LEMMA SerialRequestHook2 ==
  ASSUME CellInv, AloneInv, SerialEnv, SerialBody, NEW a \in Peers, NEW s, s = flow[a].sock,
         RequestHook2(a)
  PROVE  SerialBody'
  <1> DEFINE slot == flow[a].slot
             refused == Blocks(Judged(slot).action)
  <1>1. /\ a \in Flows /\ flow[a].pc = "request_2" /\ KernelInv /\ next_id > 0
        /\ IncomingTailCall(flow[a])
    BY FlowFacts DEF RequestHook2, SerialBody, KernelInv
  <1>2. /\ flow' = [flow EXCEPT ![a] = Idle] /\ heap' = Freed(heap)
        /\ UNCHANGED <<env, rules, queue, delivered>>
        /\ upset' = IF refused THEN upset \cup {s} ELSE upset
        /\ conn' = IF refused THEN [conn EXCEPT ![a] = [state |-> "new", sock |-> None]]
                   ELSE [conn EXCEPT ![a].state = "half"]
    BY DEF RequestHook2, Forget, HalfOpen
  <1>3. /\ flow[a].pc \in MidHook /\ s \in Socks /\ slot \in EventT
        /\ sent' \in Seq(ReportT) /\ Adds(s) /\ next_id' \in Nat /\ next_id' > 0
        /\ storage' = [storage EXCEPT ![s] = 0]
        /\ Submits(s, slot)
    BY <1>1, TailCallStep
  <1> HIDE DEF refused, slot
  <1>4. Discards(a, Idle, s)
    BY <1>2, <1>3, FlowFacts DEF Discards
  <1>5. /\ CommonT' /\ storage'[s] = 0
        /\ flow'[a] = Idle /\ \A g \in Flows : g # a => flow'[g] = flow[g]
        /\ \A t \in Socks : t # s =>
             /\ storage'[t] = storage[t]
             /\ storage[t] # 0 => heap'[storage[t]] = heap[storage[t]]
    BY <1>1, <1>4, TrackerGoes
  <1>6. OneEach(s) /\ (s \notin upset => Paired(s) /\ ReportedOnce(s))
    BY <1>3, SerialFacts
  <1>7. /\ storage[s] = flow[a].cell
        /\ \A q \in Procs : flow[q].pc \in {"idle", "accepting"}
    BY <1>1, <1>3, OneInHook, Disjoint
  <1>8. /\ \A q \in Procs : flow'[q] = flow[q]
        /\ \A b \in Peers : b # a => flow'[b] = flow[b]
    BY <1>5, Disjoint, FlowFacts
  <1>9. conn[a].state = "syn" /\ conn[a].sock = s /\ conn \in [Peers -> ConnT]
    BY <1>1, <1>3 DEF KernelInv, PeerOK
  <1>10. /\ conn' \in [Peers -> ConnT]
         /\ refused => conn'[a].state = "new" /\ conn'[a].sock = None
         /\ ~refused => conn'[a].state = "half" /\ conn'[a].sock = s
         /\ \A b \in Peers : b # a => conn'[b] = conn[b]
    BY <1>2, <1>9 DEF ConnT
  <1>11. Callers(s)' = Callers(s)
    BY <1>8 DEF Callers
  <1>12. /\ Pending(s) = {a} /\ Open(s) = {} /\ DOMAIN queue[s] = {}
         /\ Pending(s)' \subseteq {a} /\ (~refused => Pending(s)' = {a} /\ Open(s)' = {a})
    <2>1. a \in Pending(s)
      BY <1>9 DEF Pending
    <2>2. Pending(s) = {a}
      BY <1>6, <2>1 DEF OneEach
    <2>3. Open(s) = {}
      BY <1>9, <2>2 DEF Open, Pending
    <2>4. DOMAIN queue[s] = {}
      BY <1>6, <2>3 DEF OneEach
    <2> QED BY <1>10, <2>2, <2>3, <2>4 DEF Open, Pending
  <1>13. KernelInv'
    <2>1. PeerOK(a)' /\ a \notin Procs
      BY <1>3, <1>5, <1>10, FlowFacts, SetAssumption, Disjoint DEF PeerOK
    <2>2. \A b \in Peers : (b # a /\ conn'[b] = conn[b]) \/ PeerOK(b)'
      BY <1>10, <2>1
    <2>3. /\ queue' \in [Socks -> Seq(Peers)] /\ delivered' \subseteq Socks \X Procs \X Peers
      BY <1>1, <1>2 DEF KernelInv
    <2> QED BY <1>1, <1>3, <1>5, <1>10, <2>1, <2>2, <2>3, KernelStep DEF CellInv
  <1>14. ASSUME NEW t \in Socks, t # s PROVE Untouched(t)
    <2>1. conn[a].sock # t /\ conn'[a].sock # t
      BY <1>9, <1>10, <1>14, SetAssumption
    <2> QED BY <1>2, <1>5, <1>8, <1>10, <1>14, <2>1 DEF Untouched
  <1>15. OneEach(s)'
    BY <1>2, <1>6, <1>11, <1>12 DEF OneEach
  <1>16. ASSUME s \notin upset' PROVE Paired(s)' /\ ReportedOnce(s)'
    <2>1. Paired(s) /\ ReportedOnce(s) /\ ~refused
      BY <1>2, <1>6, <1>16
    <2>2. storage[s] # 0 /\ Tracker(s).accept
      BY <1>1, <1>12, <2>1 DEF Paired
    <2>3. slot = Tracker(s) /\ Tracker(s).request
      BY <1>1, <1>3, <1>7 DEF AloneInv, HookOK, Tracker, slot
    <2>4. PICK p \in Callers(s) : Tracker(s).proc = p
      BY <1>7, <2>1, <2>2 DEF Paired, Callers
    <2>5. p \in Procs /\ Callers(s) = {p} /\ flow[p].pc = "accepting" /\ flow'[p] = flow[p]
      BY <1>1, <1>3, <1>6, <1>7, <1>8, <2>4 DEF OneEach, Callers, KernelInv, ProcOK
    <2>6. Tracker(s).peer = a
      BY <1>1, <1>12, <2>1, <2>2, <2>3 DEF Paired
    <2>7. /\ Judged(slot).action = rules[<<p, a>>]
          /\ rules[<<p, a>>] = "EXCLUDE_EVENT" => sent' = sent
          /\ rules[<<p, a>>] # "EXCLUDE_EVENT" => NewReport(s, p, a)
      BY <1>1, <1>3, <2>3, <2>4, <2>5, <2>6, PairReported DEF CellInv
    <2>8. Settled(s, p, a)'
      BY <1>2, <2>1, <2>7, NowSettled DEF refused
    <2>9. Paired(s)'
      BY <1>5, <1>11, <1>12, <2>1, <2>5, <2>8, FlowFacts DEF Paired
    <2>10. ReportedOnce(s)'
      <3>1. \A i \in Reports : sent[i].sock = s => sent[i].peer # a
        BY <1>9, <2>1 DEF ReportedOnce
      <3> QED BY <1>2, <1>3, <1>5, <1>10, <2>1, <2>5, <2>7, <3>1, ReportedNew
    <2> QED BY <2>9, <2>10
  <1>17. SocketInv(s)'
    BY <1>15, <1>16 DEF SocketInv
  <1> QED BY <1>2, <1>3, <1>13, <1>14, <1>17, SocketStep

-----------------------------------------------------------------------------
\* The kernel.

\* An accept queue of at most one connection.
LEMMA ShortQueue ==
  ASSUME NEW q \in Seq(Peers)
  PROVE  /\ DOMAIN q = {} => \A a \in Peers : /\ DOMAIN Append(q, a) = {1} /\ Append(q, a)[1] = a
                                              /\ Len(Append(q, a)) = 1
         /\ q # <<>> /\ Len(q) <= 1 => /\ 1 \in DOMAIN q /\ Head(q) = q[1]
                                       /\ DOMAIN Tail(q) = {} /\ Len(Tail(q)) = 0
  <1>1. ASSUME DOMAIN q = {}, NEW a \in Peers
        PROVE  DOMAIN Append(q, a) = {1} /\ Append(q, a)[1] = a /\ Len(Append(q, a)) = 1
    <2>1. Len(q) \in Nat /\ DOMAIN q = 1 .. Len(q)
      OBVIOUS
    <2>2. Len(q) = 0
      BY <1>1, <2>1
    <2> QED BY <2>2
  <1>2. ASSUME q # <<>>, Len(q) <= 1
        PROVE  1 \in DOMAIN q /\ Head(q) = q[1] /\ DOMAIN Tail(q) = {} /\ Len(Tail(q)) = 0
    <2>1. Len(q) \in Nat \ {0}
      BY <1>2, EmptySeq
    <2>2. Len(q) = 1
      <3> DEFINE n == Len(q)
      <3>1. n <= 1 /\ n \in Nat /\ n # 0
        BY <1>2, <2>1
      <3> HIDE DEF n
      <3>2. n = 1
        BY <3>1
      <3> QED BY <3>2 DEF n
    <2>3. Tail(q) \in Seq(Peers) /\ Len(Tail(q)) = Len(q) - 1
      BY <1>2, HeadTailProperties
    <2>4. DOMAIN Tail(q) = 1 .. Len(Tail(q))
      BY <2>3
    <2>5. Len(Tail(q)) = 0 /\ DOMAIN Tail(q) = {}
      <3>1. Len(Tail(q)) = 0
        BY <2>2, <2>3
      <3> QED BY <2>4, <3>1
    <2>6. 1 \in DOMAIN q
      <3>1. DOMAIN q = 1 .. Len(q)
        OBVIOUS
      <3> QED BY <2>2, <3>1
    <2>7. Head(q) = q[1]
      BY DEF Head
    <2> QED BY <2>5, <2>6, <2>7
  <1> QED BY <1>1, <1>2

\* A connection whose handshake has not ended is the only one of its socket.
LEMMA HalfFacts ==
  ASSUME SerialBody, NEW a \in Peers, conn[a].state = "half", NEW s, s = conn[a].sock
  PROVE  /\ s \in Socks /\ a \in Open(s) /\ Pending(s) = {a} /\ Open(s) = {a}
         /\ DOMAIN queue[s] = {} /\ flow[a].pc = "idle" /\ OneEach(s)
         /\ conn \in [Peers -> ConnT] /\ queue \in [Socks -> Seq(Peers)]
  <1>1. KernelInv /\ PeerOK(a)
    BY DEF SerialBody, KernelInv
  <1>2. s \in Socks /\ a \in Open(s) /\ a \in Pending(s) /\ flow[a].pc = "idle"
    BY <1>1 DEF PeerOK, Open, Pending
  <1>3. OneEach(s)
    BY <1>2, SerialFacts
  <1>4. Pending(s) = {a} /\ Open(s) \subseteq Pending(s)
    BY <1>2, <1>3 DEF OneEach, Open, Pending
  <1>5. DOMAIN queue[s] = {}
    BY <1>3, <1>4 DEF OneEach
  <1> QED BY <1>1, <1>2, <1>3, <1>4, <1>5 DEF KernelInv

\* The handshake ends: the queue of the socket was empty.
LEMMA SerialHandshake ==
  ASSUME CellInv, AloneInv, SerialEnv, SerialBody, NEW a \in Peers, NEW s, s = conn[a].sock,
         Handshake(a)
  PROVE  SerialBody'
  <1>1. /\ conn[a].state = "half" /\ conn' = [conn EXCEPT ![a].state = "queued"]
        /\ queue' = [queue EXCEPT ![s] = Append(queue[s], a)]
        /\ UNCHANGED <<env, rules, heap, storage, flow, sent, next_id, delivered, upset>>
    BY DEF Handshake, common
  <1>2. /\ s \in Socks /\ Pending(s) = {a} /\ Open(s) = {a}
        /\ DOMAIN queue[s] = {} /\ flow[a].pc = "idle" /\ OneEach(s)
        /\ conn \in [Peers -> ConnT] /\ queue \in [Socks -> Seq(Peers)]
    BY <1>1, HalfFacts
  <1>3. KernelInv /\ CommonT /\ (s \notin upset => Paired(s) /\ ReportedOnce(s))
    BY <1>2, SerialFacts DEF CellInv
  <1>4. /\ conn' \in [Peers -> ConnT] /\ conn'[a].state = "queued" /\ conn'[a].sock = s
        /\ \A b \in Peers : b # a => conn'[b] = conn[b]
    BY <1>1, <1>2 DEF ConnT
  <1>5. /\ queue' \in [Socks -> Seq(Peers)] /\ DOMAIN queue'[s] = {1} /\ queue'[s][1] = a
        /\ Len(queue'[s]) = 1 /\ \A t \in Socks : t # s => queue'[t] = queue[t]
    <2>1. queue[s] \in Seq(Peers)
      BY <1>2
    <2>2. /\ DOMAIN Append(queue[s], a) = {1} /\ Append(queue[s], a)[1] = a
          /\ Len(Append(queue[s], a)) = 1
      BY <1>2, <2>1, ShortQueue
    <2>3. Append(queue[s], a) \in Seq(Peers)
      BY <2>1
    <2> QED BY <1>1, <1>2, <2>2, <2>3
  <1>6. Pending(s)' = {a} /\ Open(s)' = {a} /\ Callers(s)' = Callers(s)
    BY <1>1, <1>2, <1>4 DEF Pending, Open, Callers
  <1>7. KernelInv'
    <2>1. PeerOK(a)' /\ a \notin Procs
      BY <1>1, <1>2, <1>4, Disjoint DEF PeerOK
    <2>2. \A b \in Peers : (b # a /\ conn'[b] = conn[b]) \/ PeerOK(b)'
      BY <1>4, <2>1
    <2>3. CommonT' /\ delivered' \subseteq Socks \X Procs \X Peers /\ next_id' > 0
      BY <1>1, <1>3 DEF KernelInv, CommonT
    <2>4. \A g \in Flows : g # a => flow'[g] = flow[g]
      BY <1>1
    <2> QED BY <1>3, <1>4, <1>5, <2>1, <2>2, <2>3, <2>4, KernelStep
  <1>8. \A t \in Socks : t # s => Untouched(t)
    BY <1>1, <1>4, <1>5 DEF Untouched
  <1>9. OneEach(s)'
    BY <1>2, <1>4, <1>5, <1>6 DEF OneEach
  <1>10. ASSUME s \notin upset PROVE Paired(s)' /\ ReportedOnce(s)'
    <2>1. Paired(s) /\ ReportedOnce(s)
      BY <1>3, <1>10
    <2>2. Tracker(s)' = Tracker(s) /\ storage'[s] = storage[s]
      BY <1>1 DEF Tracker
    <2>3. \A p : Settled(s, p, a) => Settled(s, p, a)'
      BY <1>1 DEF Settled, Reports, Shape
    <2>4. Paired(s)'
      BY <1>1, <1>2, <1>6, <2>1, <2>2, <2>3 DEF Paired
    <2>5. ReportedOnce(s)'
      BY <1>1, <1>2, <1>4, <1>6, <2>1, <2>2, ReportedKept
    <2> QED BY <2>4, <2>5
  <1>11. SocketInv(s)'
    BY <1>1, <1>9, <1>10 DEF SocketInv
  <1> QED BY <1>1, <1>2, <1>7, <1>8, <1>11, AddsNothing, SocketStep

\* The handshake fails: the socket is upset.
LEMMA SerialHandshakeFails ==
  ASSUME CellInv, AloneInv, SerialEnv, SerialBody, NEW a \in Peers, NEW s, s = conn[a].sock,
         HandshakeFails(a)
  PROVE  SerialBody'
  <1>1. /\ conn[a].state = "half" /\ conn' = [conn EXCEPT ![a] = [state |-> "new", sock |-> None]]
        /\ UNCHANGED <<env, rules, heap, storage, flow, sent, next_id, delivered, queue>>
        /\ upset' = upset \cup {s}
    BY DEF HandshakeFails, Forget, common
  <1>2. /\ s \in Socks /\ Pending(s) = {a} /\ Open(s) = {a}
        /\ DOMAIN queue[s] = {} /\ flow[a].pc = "idle" /\ OneEach(s)
        /\ conn \in [Peers -> ConnT] /\ queue \in [Socks -> Seq(Peers)]
    BY <1>1, HalfFacts
  <1>3. KernelInv /\ CommonT
    BY <1>2, SerialFacts DEF CellInv
  <1>4. /\ conn' \in [Peers -> ConnT] /\ conn'[a].state = "new" /\ conn'[a].sock = None
        /\ \A b \in Peers : b # a => conn'[b] = conn[b]
    BY <1>1, <1>2 DEF ConnT
  <1>5. Pending(s)' = {} /\ Callers(s)' = Callers(s)
    BY <1>1, <1>2, <1>4 DEF Pending, Callers
  <1>6. KernelInv'
    <2>1. PeerOK(a)' /\ a \notin Procs
      BY <1>1, <1>2, <1>4, Disjoint, SetAssumption DEF PeerOK
    <2>2. \A b \in Peers : (b # a /\ conn'[b] = conn[b]) \/ PeerOK(b)'
      BY <1>4, <2>1
    <2>3. /\ CommonT' /\ delivered' \subseteq Socks \X Procs \X Peers /\ next_id' > 0
          /\ queue' \in [Socks -> Seq(Peers)]
      BY <1>1, <1>3 DEF KernelInv, CommonT
    <2>4. \A g \in Flows : g # a => flow'[g] = flow[g]
      BY <1>1
    <2> QED BY <1>3, <1>4, <2>1, <2>2, <2>3, <2>4, KernelStep
  <1>7. \A t \in Socks : t # s => Untouched(t)
    BY <1>1, <1>4, SetAssumption DEF Untouched
  <1>8. OneEach(s)'
    BY <1>1, <1>2, <1>5 DEF OneEach
  <1>9. SocketInv(s)'
    BY <1>1, <1>8 DEF SocketInv
  <1> QED BY <1>1, <1>2, <1>6, <1>7, <1>9, AddsNothing, SocketStep

\* accept() returns the connection that was paired with it.
LEMMA SerialAcceptReturns ==
  ASSUME CellInv, AloneInv, SerialEnv, SerialBody, NEW p \in Procs, NEW s, s = flow[p].sock,
         NEW a, a = Head(queue[s]), AcceptReturns(p)
  PROVE  SerialBody'
  <1>1. /\ flow[p].pc = "accepting" /\ flow[p].pc \notin MidHook /\ queue[s] # <<>>
        /\ queue' = [queue EXCEPT ![s] = Tail(queue[s])]
        /\ conn' = [conn EXCEPT ![a].state = "accepted"]
        /\ delivered' = delivered \cup {<<s, p, a>>} /\ flow' = [flow EXCEPT ![p] = Idle]
        /\ UNCHANGED <<env, rules, heap, storage, sent, next_id, upset>>
    BY DEF AcceptReturns, MidHook
  <1>2. KernelInv /\ ProcOK(p) /\ p \in Flows
    BY FlowFacts DEF SerialBody, KernelInv
  <1>3. s \in Socks
    BY <1>1, <1>2 DEF ProcOK
  <1>4. OneEach(s) /\ (s \notin upset => Paired(s) /\ ReportedOnce(s))
    BY <1>3, SerialFacts
  <1>5. CommonT /\ CommonT' /\ flow'[p] = Idle /\ \A g \in Flows : g # p => flow'[g] = flow[g]
    BY <1>1, <1>2, IdleStep, FlowFacts DEF CellInv
  <1>6. /\ queue[s] \in Seq(Peers) /\ queue \in [Socks -> Seq(Peers)] /\ conn \in [Peers -> ConnT]
    BY <1>2, <1>3 DEF KernelInv
  <1>7. /\ 1 \in DOMAIN queue[s] /\ a = queue[s][1]
        /\ DOMAIN Tail(queue[s]) = {} /\ Len(Tail(queue[s])) = 0 /\ Tail(queue[s]) \in Seq(Peers)
    BY <1>1, <1>4, <1>6, ShortQueue DEF OneEach
  <1>8. a \in Peers /\ a \in Open(s) /\ conn[a].state = "queued" /\ conn[a].sock = s
    BY <1>4, <1>7 DEF OneEach, Open
  <1>9. /\ conn' \in [Peers -> ConnT] /\ conn'[a].state = "accepted" /\ conn'[a].sock = s
        /\ \A b \in Peers : b # a => conn'[b] = conn[b]
    BY <1>1, <1>6, <1>8 DEF ConnT
  <1>10. /\ queue' \in [Socks -> Seq(Peers)] /\ DOMAIN queue'[s] = {} /\ Len(queue'[s]) = 0
         /\ \A t \in Socks : t # s => queue'[t] = queue[t]
    BY <1>1, <1>3, <1>6, <1>7
  <1>11. /\ \A b \in Peers : flow'[b] = flow[b]
         /\ \A q \in Procs : q # p => flow'[q] = flow[q]
    BY <1>5, Disjoint, FlowFacts
  <1>12. Callers(s)' = {}
    <2>1. Callers(s) = {p}
      BY <1>4 DEF OneEach, Callers
    <2>2. Idle.sock # s
      BY <1>3, SetAssumption DEF Idle
    <2> QED BY <1>5, <1>11, <2>1, <2>2 DEF Callers
  <1>13. Pending(s)' = {} /\ Open(s)' = {}
    <2>1. Pending(s) = {a}
      BY <1>4, <1>8 DEF OneEach, Open, Pending
    <2> QED BY <1>9, <2>1 DEF Pending, Open
  <1>14. KernelInv'
    <2>1. PeerOK(a)'
      <3>1. PeerOK(a)
        BY <1>2, <1>8 DEF KernelInv
      <3> QED BY <1>3, <1>8, <1>9, <1>11, <3>1 DEF PeerOK
    <2>2. \A b \in Peers : (b # p /\ conn'[b] = conn[b]) \/ PeerOK(b)'
      BY <1>9, <2>1, Disjoint
    <2>3. ProcOK(p)'
      BY <1>5, SetAssumption DEF ProcOK, Idle
    <2>4. /\ delivered' \subseteq Socks \X Procs \X Peers /\ next_id' > 0
      BY <1>1, <1>2, <1>3, <1>8 DEF KernelInv
    <2> QED BY <1>2, <1>5, <1>9, <1>10, <2>2, <2>3, <2>4, KernelStep
  <1>15. ASSUME NEW t \in Socks, t # s PROVE Untouched(t)
    <2>1. flow'[p].sock # t
      BY <1>5, <1>15, SetAssumption DEF Idle
    <2> QED BY <1>1, <1>8, <1>9, <1>10, <1>11, <1>15, <2>1 DEF Untouched
  <1>16. OneEach(s)'
    BY <1>10, <1>12, <1>13 DEF OneEach
  <1>17. ASSUME s \notin upset PROVE Paired(s)' /\ ReportedOnce(s)' /\ Settled(s, p, a)
    <2>1. Paired(s) /\ ReportedOnce(s) /\ p \in Callers(s)
      BY <1>4, <1>17 DEF Callers
    <2>2. storage[s] = 0 /\ Settled(s, p, a)
      BY <1>1, <1>8, <2>1 DEF Paired
    <2>3. storage'[s] = 0
      BY <1>1, <2>2
    <2>4. Paired(s)'
      BY <1>12, <1>13, <2>3 DEF Paired
    <2>5. ReportedOnce(s)'
      BY <1>1, <1>3, <1>8, <1>9, <1>13, <2>1, ReportedKept
    <2> QED BY <2>2, <2>4, <2>5
  <1>18. SocketInv(s)'
    BY <1>1, <1>16, <1>17 DEF SocketInv
  <1>19. \A c \in delivered' : c \in delivered \/ (c[1] \notin upset' => Settled(c[1], c[2], c[3]))
    BY <1>1, <1>17
  <1>20. rules' = rules /\ upset \subseteq upset' /\ Adds(s)
    BY <1>1, AddsNothing
  <1> QED BY <1>3, <1>14, <1>15, <1>18, <1>19, <1>20, SocketStep

-----------------------------------------------------------------------------
\* A server that handles one connection at a time.

LEMMA InitSerial == Init => SerialInv
  <1> SUFFICES ASSUME Init PROVE SerialBody
    BY DEF SerialInv
  <1>1. /\ \A f \in Flows : flow[f].pc = "idle" /\ flow[f].sock = None
        /\ \A s \in Socks : storage[s] = 0 /\ Reports = {} /\ next_id = 1
    BY DEF Init, InitCommon, Idle, Reports
  <1>2. /\ conn \in [Peers -> ConnT] /\ queue \in [Socks -> Seq(Peers)] /\ delivered = {}
        /\ \A a \in Peers : conn[a].state = "new" /\ conn[a].sock = None
        /\ \A s \in Socks : queue[s] = <<>>
    BY DEF Init, InitIncoming, ConnT
  <1>3. KernelInv
    <2>1. next_id > 0
      BY DEF Init, InitCommon
    <2>2. \A p \in Procs : ProcOK(p)
      BY <1>1, FlowFacts, SetAssumption DEF ProcOK
    <2>3. \A a \in Peers : PeerOK(a)
      BY <1>1, <1>2, FlowFacts, SetAssumption DEF PeerOK
    <2> QED BY <1>2, <2>1, <2>2, <2>3 DEF KernelInv
  <1>4. ASSUME NEW s \in Socks PROVE SocketInv(s)
    <2>1. Callers(s) = {} /\ Pending(s) = {} /\ Open(s) = {}
      BY <1>1, <1>2, FlowFacts, SetAssumption DEF Callers, Pending, Open
    <2>2. Len(queue[s]) <= 1 /\ DOMAIN queue[s] = {}
      BY <1>2
    <2> QED BY <1>1, <2>1, <2>2 DEF SocketInv, OneEach, Paired, ReportedOnce
  <1>5. DeliveredInv
    BY <1>2 DEF DeliveredInv
  <1> QED BY <1>3, <1>4, <1>5 DEF SerialBody

\* The environment is that of the run.
LEMMA EnvKept ==
  ASSUME [Next]_vars
  PROVE  env' = env
  <1>1. CASE OutgoingNext
    BY <1>1 DEF OutgoingNext, ConnectHook, ConnectIgnored, ConnectUnsupported, ConnectProcess,
                ConnectCopy, ConnectHook2,
                Established, Established2, Disconnect, common
  <1>2. CASE IncomingNext
    BY <1>2 DEF IncomingNext, AcceptHook, AcceptIgnored, AcceptFill, AcceptHook2, AcceptReturns,
                AcceptReturnsEmpty, RequestHook, RequestIgnored, RequestFill, RequestUnsupported,
                RequestHook2, Handshake, HandshakeFails, common
  <1>3. CASE UNCHANGED vars
    BY <1>3 DEF vars, common
  <1> QED BY <1>1, <1>2, <1>3 DEF Next

LEMMA SerialStep ==
  ASSUME TcpInv, SerialInv, [Next]_vars
  PROVE  SerialInv'
  <1>1. env' = env
    BY EnvKept
  <1> SUFFICES ASSUME SerialEnv PROVE SerialBody'
    BY <1>1 DEF SerialInv, SerialEnv
  <1>2. CellInv /\ AloneInv /\ SerialBody /\ "outgoing" \notin env
    BY DEF TcpInv, InInv, SerialInv, SerialEnv, CellInv, CommonT
  <1>3. CASE UNCHANGED vars
    <2>1. UNCHANGED <<rules, heap, storage, flow, sent, next_id, conn, queue, delivered, upset>>
      BY <1>3 DEF vars, common, incoming
    <2>2. Reports' = Reports
      BY <2>1 DEF Reports
    <2>3. KernelInv'
      BY <1>2, <2>1 DEF SerialBody, KernelInv, ProcOK, PeerOK
    <2>4. ASSUME NEW s \in Socks PROVE SocketInv(s)'
      <3>1. /\ Callers(s)' = Callers(s) /\ Pending(s)' = Pending(s) /\ Open(s)' = Open(s)
            /\ Tracker(s)' = Tracker(s)
            /\ \A p, a : Settled(s, p, a)' <=> Settled(s, p, a)
        BY <2>1, <2>2 DEF Callers, Pending, Open, Tracker, Settled, Shape
      <3>2. OneEach(s)' /\ (s \notin upset => Paired(s)' /\ ReportedOnce(s)')
        <4>1. OneEach(s) /\ (s \notin upset => Paired(s) /\ ReportedOnce(s))
          BY <1>2, SerialFacts
        <4>2. OneEach(s)'
          BY <2>1, <3>1, <4>1 DEF OneEach
        <4>3. Paired(s) => Paired(s)'
          BY <2>1, <3>1 DEF Paired
        <4>4. ReportedOnce(s) => ReportedOnce(s)'
          BY <2>1, <2>2, <3>1 DEF ReportedOnce
        <4> QED BY <4>1, <4>2, <4>3, <4>4
      <3> QED BY <2>1, <3>2 DEF SocketInv
    <2>5. DeliveredInv'
      BY <1>2, <2>1, <2>2 DEF SerialBody, DeliveredInv, Settled, Shape
    <2> QED BY <2>3, <2>4, <2>5 DEF SerialBody
  <1>4. CASE IncomingNext
    <2>1. ASSUME NEW p \in Procs, NEW s \in Socks, AcceptHook(p, s) \/ AcceptIgnored(p, s)
          PROVE  SerialBody'
      BY <1>2, <2>1, SerialAcceptHook DEF AcceptIgnored, SerialEnv
    <2>2. ASSUME NEW p \in Procs,
                 AcceptFill(p) \/ AcceptHook2(p) \/ AcceptReturns(p) \/ AcceptReturnsEmpty(p)
          PROVE  SerialBody'
      <3>1. CASE AcceptFill(p)
        BY <1>2, <3>1, SerialAcceptFill
      <3>2. CASE AcceptHook2(p)
        BY <1>2, <3>2, SerialAcceptHook2
      <3>3. CASE AcceptReturns(p)
        BY <1>2, <3>3, SerialAcceptReturns
      <3>4. CASE AcceptReturnsEmpty(p)
        BY <3>4 DEF AcceptReturnsEmpty, SerialEnv
      <3> QED BY <2>2, <3>1, <3>2, <3>3, <3>4
    <2>3. ASSUME NEW a \in Peers, NEW s \in Socks, RequestHook(a, s) \/ RequestIgnored(a, s)
          PROVE  SerialBody'
      BY <1>2, <2>3, SerialRequestHook DEF RequestIgnored, SerialEnv
    <2>4. ASSUME NEW a \in Peers,
                 \/ RequestFill(a) \/ RequestUnsupported(a) \/ RequestHook2(a)
                 \/ Handshake(a) \/ HandshakeFails(a)
          PROVE  SerialBody'
      <3>1. CASE RequestFill(a)
        BY <1>2, <3>1, SerialRequestFill
      <3>2. CASE RequestUnsupported(a)
        BY <1>2, <3>2, SerialRequestUnsupported
      <3>3. CASE RequestHook2(a)
        BY <1>2, <3>3, SerialRequestHook2
      <3>4. CASE Handshake(a)
        BY <1>2, <3>4, SerialHandshake
      <3>5. CASE HandshakeFails(a)
        BY <1>2, <3>5, SerialHandshakeFails
      <3> QED BY <2>4, <3>1, <3>2, <3>3, <3>4, <3>5
    <2> QED BY <1>4, <2>1, <2>2, <2>3, <2>4 DEF IncomingNext
  <1>5. ~OutgoingNext
    BY <1>2 DEF OutgoingNext
  <1> QED BY <1>3, <1>4, <1>5 DEF Next

\* A server that handles one connection at a time, on whose socket nothing was
\* refused or failed, is handed by accept() only connections that were judged for it
\* and, unless a rule excludes them, reported exactly once: the one of accept_hook
\* and inet_conn_request_hook that comes second always finds the other's part, and
\* the tracker is gone before the next connection.
THEOREM SerialCorrect == Spec => []SerialIsExact
  <1>1. SerialInv /\ TcpInv => SerialIsExact
    <2> SUFFICES ASSUME SerialEnv, SerialInv, TcpInv, NEW c \in delivered, c[1] \notin upset
                 PROVE  /\ ~Blocks(rules[<<c[2], c[3]>>])
                        /\ Cardinality({i \in Reports : Shape(sent[i]) = c}) =
                             IF rules[<<c[2], c[3]>>] = "EXCLUDE_EVENT" THEN 0 ELSE 1
      BY DEF SerialIsExact, SerialEnv
    <2> DEFINE R == {i \in Reports : Shape(sent[i]) = c}
    <2>1. SerialBody /\ c \in Socks \X Procs \X Peers
      BY DEF SerialInv, SerialBody, KernelInv
    <2>2. PICK s \in Socks, p \in Procs, a \in Peers : c = <<s, p, a>>
      BY <2>1
    <2>3. ReportedOnce(s) /\ Settled(s, p, a)
      BY <2>1, <2>2 DEF SerialBody, SocketInv, DeliveredInv
    <2>4. \A i \in R : sent[i].sock = s /\ sent[i].proc = p /\ sent[i].peer = a
      BY <2>2 DEF Shape
    <2>5. ASSUME rules[<<p, a>>] = "EXCLUDE_EVENT" PROVE Cardinality(R) = 0
      <3>1. R = {}
        BY <2>3, <2>4, <2>5 DEF ReportedOnce
      <3> QED BY <3>1, FS_EmptySet
    <2>6. ASSUME rules[<<p, a>>] # "EXCLUDE_EVENT" PROVE Cardinality(R) = 1
      <3>1. PICK i \in R : TRUE
        BY <2>2, <2>3, <2>6 DEF Settled
      <3>2. \A j \in R : j = i
        BY <2>3, <2>4 DEF ReportedOnce
      <3>3. R = {i}
        BY <3>1, <3>2
      <3> QED BY <3>3, FS_Singleton
    <2> QED BY <2>2, <2>3, <2>5, <2>6 DEF Settled
  <1>2. TcpInv /\ SerialInv /\ [Next]_vars => SerialInv'
    BY SerialStep
  <1> QED BY <1>1, <1>2, InitSerial, TcpInvariant, PTL DEF Spec

-----------------------------------------------------------------------------
\* Programs that connect without polling.

PlainEnv == "outgoing" \in env /\ env \cap {"poll", "ignored", "overlap"} = {}

SkT == [state : {"closed", "syn_sent", "established"},
        proc : Procs \cup {None}, peer : Peers \cup {None}]
ShapeT == Socks \X (Procs \cup {None}) \X (Peers \cup {None})

Stored(s) == heap[storage[s]]

\* A stored event has no id and was not judged; that of a socket that connects is
\* about the attempt that the kernel works on.
StoredOK(s) ==
  /\ storage[s] # 0 => /\ Stored(s).action = "ALLOW_EVENT"
                       /\ flow[s].pc = "established_2" \/ Stored(s).id = 0
  /\ sk[s].state = "syn_sent" =>
       storage[s] # 0 /\ Stored(s).proc = sk[s].proc /\ Stored(s).peer = sk[s].peer

\* connect_hook fills in what it stores, and then judges a copy of it.
ConnectOK(f) ==
  flow[f].pc \in {"connect_process", "connect_copy", "connect_2"} =>
    /\ f \in Procs /\ flow[f].peer \in Peers /\ sk[flow[f].sock].state = "closed"
    /\ storage[flow[f].sock] = flow[f].cell /\ heap[flow[f].cell].peer = flow[f].peer
    /\ flow[f].pc # "connect_process" => heap[flow[f].cell].proc = f
    /\ flow[f].pc = "connect_2" => flow[f].slot = heap[flow[f].cell]

\* inet_conn_established is about to report the last connection.
EstablishedOK(f) ==
  flow[f].pc = "established_2" =>
    /\ flow[f].sock = f /\ storage[f] = flow[f].cell /\ sk[f].state = "established"
    /\ opened[Len(opened)] = <<f, Stored(f).proc, Stored(f).peer>>

Ahead == IF \E f \in Flows : flow[f].pc = "established_2" THEN 1 ELSE 0

\* The k-th member of S is about the k-th entry of the log.
Lists(q, log, S) == \A i \in S : log[Cardinality(S \cap 1 .. i)] = Shape(q[i])

LogInv ==
  /\ Len(opened) = Cardinality(Allowed) + Ahead /\ Lists(sent, opened, Allowed)
  /\ Len(denied) = Cardinality(Refused) /\ Lists(sent, denied, Refused)

PlainT == sk \in [Socks -> SkT] /\ opened \in Seq(ShapeT) /\ denied \in Seq(ShapeT)

HooksOK ==
  /\ \A f \in Flows : flow[f].pc \in
       {"idle", "connect_process", "connect_copy", "connect_2", "established_2"}
  /\ \A f, g \in Flows : flow[f].pc \in MidHook /\ flow[g].pc \in MidHook => f = g
  /\ \A f \in Flows : ConnectOK(f) /\ EstablishedOK(f)

PlainBody == PlainT /\ HooksOK /\ (\A s \in Socks : StoredOK(s)) /\ LogInv

PlainInv == PlainEnv => PlainBody

-----------------------------------------------------------------------------
\* Numbering the members of a set of positions.

LEMMA RankFacts ==
  ASSUME NEW n \in Nat, NEW S \in SUBSET (1 .. n)
  PROVE  /\ IsFiniteSet(S) /\ Cardinality(S) \in Nat
         /\ \A i \in S : Cardinality(S \cap 1 .. i) \in 1 .. Cardinality(S)
  <1>1. IsFiniteSet(S) /\ Cardinality(S) \in Nat
    <2>1. IsFiniteSet(1 .. n)
      BY FS_Interval
    <2>2. IsFiniteSet(S)
      BY <2>1, FS_Subset
    <2> QED BY <2>2, FS_CardinalityType
  <1>2. ASSUME NEW i \in S PROVE Cardinality(S \cap 1 .. i) \in 1 .. Cardinality(S)
    <2> DEFINE T == S \cap 1 .. i
    <2>1. T \subseteq S /\ i \in T
      OBVIOUS
    <2> HIDE DEF T
    <2>2. IsFiniteSet(T) /\ Cardinality(T) <= Cardinality(S)
      BY <1>1, <2>1, FS_Subset
    <2>3. Cardinality(T) \in Nat /\ Cardinality(T) # 0
      BY <2>1, <2>2, FS_CardinalityType, FS_EmptySet
    <2>4. Cardinality(T) \in 1 .. Cardinality(S)
      BY <1>1, <2>2, <2>3
    <2> QED BY <2>4 DEF T
  <1> QED BY <1>1, <1>2

\* Something is added to the log.
LEMMA LogGrows ==
  ASSUME NEW log \in Seq(ShapeT), NEW x \in ShapeT, NEW n \in Nat, NEW S \in SUBSET (1 .. n),
         Cardinality(S) <= Len(log), NEW q, Lists(q, log, S)
  PROVE  Lists(q, Append(log, x), S)
  <1> SUFFICES ASSUME NEW i \in S
               PROVE  Append(log, x)[Cardinality(S \cap 1 .. i)] = Shape(q[i])
    BY DEF Lists
  <1> DEFINE k == Cardinality(S \cap 1 .. i)
  <1>1. k \in 1 .. Cardinality(S) /\ Cardinality(S) \in Nat
    BY RankFacts
  <1>2. log[k] = Shape(q[i])
    BY DEF Lists
  <1> HIDE DEF k
  <1>3. k \in 1 .. Len(log)
    <2>1. Len(log) \in Nat
      OBVIOUS
    <2> QED BY <1>1, <2>1
  <1>4. Append(log, x)[k] = log[k]
    BY <1>3
  <1> QED BY <1>2, <1>4 DEF k

\* r is added to the reports q.
Extends(q, r, u) ==
  /\ DOMAIN u = DOMAIN q \cup {Len(q) + 1} /\ DOMAIN q = 1 .. Len(q) /\ Len(q) \in Nat
  /\ \A i \in DOMAIN q : u[i] = q[i]
  /\ u[Len(q) + 1] = r

\* It is one that is not counted, or it is about the next entry of the log.
LEMMA NotListed ==
  ASSUME NEW q, NEW r, NEW u, Extends(q, r, u), NEW S \in SUBSET DOMAIN q,
         NEW log, Lists(q, log, S)
  PROVE  Lists(u, log, S)
  BY DEF Lists, Extends, Shape

LEMMA NextListed ==
  ASSUME NEW q, NEW r, NEW u, Extends(q, r, u), NEW S \in SUBSET DOMAIN q,
         NEW log, Lists(q, log, S), log[Cardinality(S) + 1] = Shape(r)
  PROVE  /\ Cardinality(S \cup {Len(q) + 1}) = Cardinality(S) + 1
         /\ Lists(u, log, S \cup {Len(q) + 1})
  <1> DEFINE n == Len(q)
             T == S \cup {n + 1}
  <1>1. n \in Nat /\ S \subseteq 1 .. n /\ u[n + 1] = r
    BY DEF Extends
  <1> HIDE DEF n
  <1>2. IsFiniteSet(S) /\ n + 1 \notin S
    <2>1. S \in SUBSET (1 .. n)
      BY <1>1
    <2>2. IsFiniteSet(S)
      BY <1>1, <2>1, RankFacts
    <2>3. n + 1 \notin 1 .. n
      BY <1>1
    <2> QED BY <2>1, <2>2, <2>3
  <1>3. Cardinality(T) = Cardinality(S) + 1
    BY <1>2, FS_AddElement
  <1>4. ASSUME NEW i \in T PROVE log[Cardinality(T \cap 1 .. i)] = Shape(u[i])
    <2>1. CASE i = n + 1
      <3>1. T \cap 1 .. i = T
        BY <1>1, <2>1
      <3> QED BY <1>1, <1>3, <2>1, <3>1
    <2>2. CASE i \in S
      <3>1. T \cap 1 .. i = S \cap 1 .. i
        BY <1>1, <2>2
      <3>2. u[i] = q[i]
        BY <2>2 DEF Extends
      <3> QED BY <2>2, <3>1, <3>2 DEF Lists
    <2> QED BY <2>1, <2>2
  <1> QED BY <1>3, <1>4 DEF Lists, n

\* A single report at the end.
LEMMA AddReport ==
  ASSUME NEW q \in Seq(ReportT), NEW r \in ReportT
  PROVE  q \o <<r>> \in Seq(ReportT) /\ Extends(q, r, q \o <<r>>) /\ q \o <<>> = q
  <1>1. /\ DOMAIN (q \o <<r>>) = DOMAIN q \cup {Len(q) + 1} /\ DOMAIN q = 1 .. Len(q) /\ Len(q) \in Nat
        /\ \A i \in DOMAIN q : (q \o <<r>>)[i] = q[i]
        /\ (q \o <<r>>)[Len(q) + 1] = r
    OBVIOUS
  <1>2. q \o <<>> = q
    OBVIOUS
  <1> QED BY <1>1, <1>2 DEF Extends

\* The reports that are counted.
LEMMA CountedReports ==
  ASSUME CommonT, NEW r, Extends(sent, r, sent')
  PROVE  /\ Allowed \in SUBSET DOMAIN sent /\ Refused \in SUBSET DOMAIN sent
         /\ Blocks(r.action) => Allowed' = Allowed /\ Refused' = Refused \cup {Len(sent) + 1}
         /\ ~Blocks(r.action) => Allowed' = Allowed \cup {Len(sent) + 1} /\ Refused' = Refused
  <1>1. /\ Reports' = Reports \cup {Len(sent) + 1} /\ Len(sent) + 1 \notin Reports
        /\ \A i \in Reports : sent'[i] = sent[i]
        /\ sent'[Len(sent) + 1] = r
    BY DEF Extends, Reports
  <1>2. Allowed \in SUBSET DOMAIN sent /\ Refused \in SUBSET DOMAIN sent
    BY DEF Allowed, Refused, Reports
  <1>3. ASSUME Blocks(r.action)
        PROVE  Allowed' = Allowed /\ Refused' = Refused \cup {Len(sent) + 1}
    BY <1>1, <1>3 DEF Allowed, Refused, Blocks
  <1>4. ASSUME ~Blocks(r.action)
        PROVE  Allowed' = Allowed \cup {Len(sent) + 1} /\ Refused' = Refused
    BY <1>1, <1>4 DEF Allowed, Refused, Blocks
  <1> QED BY <1>2, <1>3, <1>4

-----------------------------------------------------------------------------
\* The steps.

\* No hook is at work.
LEMMA PlainQuiet ==
  ASSUME CellInv, PlainBody, \A g \in Flows : flow[g].pc \notin MidHook
  PROVE  /\ \A g \in Flows : flow[g].pc = "idle" /\ flow[g].cell = 0
         /\ Ahead = 0
         /\ \A s \in Socks : storage[s] # 0 =>
              storage[s] \in Cells /\ Stored(s).action = "ALLOW_EVENT" /\ Stored(s).id = 0
  <1>1. \A g \in Flows : flow[g].pc = "idle" /\ flow[g].cell = 0
    BY DEF PlainBody, HooksOK, MidHook, CellInv, FlowOK
  <1>2. Ahead = 0
    BY <1>1 DEF Ahead
  <1>3. \A s \in Socks : storage[s] # 0 =>
          storage[s] \in Cells /\ Stored(s).action = "ALLOW_EVENT" /\ Stored(s).id = 0
    BY <1>1, FlowFacts DEF PlainBody, StoredOK, CellInv, CommonT
  <1> QED BY <1>1, <1>2, <1>3

\* One is.
LEMMA PlainBusy ==
  ASSUME CellInv, PlainBody, NEW f \in Flows, flow[f].pc \in MidHook
  PROVE  /\ flow[f].sock \in Socks /\ flow[f].cell \in Cells /\ flow[f].cell # 0
         /\ storage[flow[f].sock] = flow[f].cell
         /\ \A t \in Socks : storage[t] = flow[f].cell => t = flow[f].sock
         /\ \A g \in Flows : g # f => flow[g].pc = "idle"
         /\ Ahead = IF flow[f].pc = "established_2" THEN 1 ELSE 0
  <1>1. flow[f].sock \in Socks /\ flow[f].cell \in Cells /\ flow[f].cell # 0
    BY CellFacts DEF CellInv, FlowOK
  <1>2. storage[flow[f].sock] = flow[f].cell
    BY DEF PlainBody, HooksOK, ConnectOK, EstablishedOK, MidHook
  <1>3. \A t \in Socks : storage[t] = flow[f].cell => t = flow[f].sock
    BY <1>1, <1>2 DEF CellInv, CellsOK
  <1>4. \A g \in Flows : g # f => flow[g].pc = "idle"
    BY DEF PlainBody, HooksOK, MidHook
  <1>5. Ahead = IF flow[f].pc = "established_2" THEN 1 ELSE 0
    BY <1>4 DEF Ahead
  <1> QED BY <1>1, <1>2, <1>3, <1>4, <1>5

\* No hook is at work after a step.
LEMMA NowQuiet ==
  ASSUME \A g \in Flows : flow'[g].pc = "idle"
  PROVE  HooksOK' /\ Ahead' = 0
  <1>1. HooksOK'
    BY DEF HooksOK, ConnectOK, EstablishedOK, MidHook
  <1>2. Ahead' = 0
    BY DEF Ahead
  <1> QED BY <1>1, <1>2

\* Nothing is logged or reported.
LEMMA LogKept ==
  ASSUME LogInv, UNCHANGED <<sent, opened, denied>>, Ahead' = Ahead
  PROVE  LogInv'
  <1>1. Allowed' = Allowed /\ Refused' = Refused
    BY DEF Allowed, Refused, Reports
  <1> QED BY <1>1 DEF LogInv

\* The logs of a state.
LEMMA LogFacts ==
  ASSUME CellInv, PlainBody
  PROVE  /\ DOMAIN sent = 1 .. Len(sent) /\ Len(sent) \in Nat
         /\ Allowed \in SUBSET (1 .. Len(sent)) /\ Cardinality(Allowed) \in Nat
         /\ Refused \in SUBSET (1 .. Len(sent)) /\ Cardinality(Refused) \in Nat
         /\ opened \in Seq(ShapeT) /\ Len(opened) = Cardinality(Allowed) + Ahead
         /\ Lists(sent, opened, Allowed)
         /\ denied \in Seq(ShapeT) /\ Len(denied) = Cardinality(Refused)
         /\ Lists(sent, denied, Refused)
  <1>1. sent \in Seq(ReportT) /\ PlainT /\ LogInv
    BY DEF CellInv, CommonT, PlainBody
  <1>2. DOMAIN sent = 1 .. Len(sent) /\ Len(sent) \in Nat
    BY <1>1
  <1>3. Allowed \in SUBSET (1 .. Len(sent)) /\ Refused \in SUBSET (1 .. Len(sent))
    BY <1>2 DEF Allowed, Refused, Reports
  <1>4. Cardinality(Allowed) \in Nat /\ Cardinality(Refused) \in Nat
    BY <1>2, <1>3, RankFacts
  <1> QED BY <1>1, <1>2, <1>3, <1>4 DEF PlainT, LogInv

\* connect_hook stores an event, over one of an attempt that failed.
LEMMA PlainConnectHook ==
  ASSUME CellInv, PlainEnv, PlainBody, NEW p \in Procs, NEW s \in Socks, NEW a \in Peers,
         ConnectHook(p, s, a)
  PROVE  PlainBody'
  <1> DEFINE ev == FirstPart(s, a)
             r == [pc |-> "connect_process", sock |-> s, peer |-> a, cell |-> CellOf(s),
                   slot |-> EmptyEvent]
  <1>1. /\ p \in Flows /\ flow[p].pc = "idle" /\ flow[p].pc \notin MidHook
        /\ \A g \in Flows : flow[g].pc \notin MidHook
        /\ sk[s].state = "closed"
    BY FlowFacts DEF ConnectHook, MayConnect, MayEnter, PlainEnv, MidHook
  <1>2. /\ \A g \in Flows : flow[g].pc = "idle" /\ flow[g].cell = 0
        /\ Ahead = 0
        /\ \A t \in Socks : storage[t] # 0 =>
             storage[t] \in Cells /\ Stored(t).action = "ALLOW_EVENT" /\ Stored(t).id = 0
    BY <1>1, PlainQuiet
  <1>3. ContentOf(s) \in EventT /\ CellOf(s) \in Cells
    BY <1>1, <1>2, CellOfFacts
  <1>4. ContentOf(s).action = "ALLOW_EVENT" /\ ContentOf(s).id = 0
    BY <1>2 DEF ContentOf, EmptyEvent, Stored
  <1>5. /\ ev \in EventT /\ ev.peer = a /\ ev.action = "ALLOW_EVENT" /\ ev.id = 0
    BY <1>3, <1>4 DEF FirstPart, EventT
  <1> HIDE DEF ev
  <1>6. /\ r \in FlowT /\ r.pc = "connect_process" /\ r.pc \in MidHook /\ r.cell = CellOf(s)
        /\ r.sock = s /\ r.peer = a
    BY <1>3, CellFacts DEF FlowT, MidHook
  <1>7. /\ heap' = [heap EXCEPT ![CellOf(s)] = ev]
        /\ storage' = [storage EXCEPT ![s] = CellOf(s)]
        /\ flow' = [flow EXCEPT ![p] = r]
        /\ UNCHANGED <<env, rules, sent, next_id, sk, opened, denied>>
    BY DEF ConnectHook, ev
  <1> HIDE DEF r
  <1>8. Enters(p, s, ev, r)
    BY <1>1, <1>5, <1>6, <1>7 DEF Enters, CellInv, CommonT
  <1>9. /\ storage'[s] = CellOf(s) /\ CellOf(s) # 0
        /\ \A t \in Socks : t # s => storage'[t] = storage[t] /\ storage[t] # CellOf(s)
        /\ flow'[p] = r /\ \A g \in Flows : g # p => flow'[g] = flow[g]
        /\ heap'[CellOf(s)] = ev
        /\ \A c \in Cells : c # CellOf(s) => heap'[c] = heap[c]
    BY <1>1, <1>8, EnterStep
  <1>10. PlainT'
    BY <1>7 DEF PlainBody, PlainT
  <1>11. ASSUME NEW t \in Socks PROVE StoredOK(t)'
    <2>1. CASE t = s
      BY <1>1, <1>5, <1>7, <1>9, <2>1 DEF StoredOK, Stored
    <2>2. CASE t # s
      <3>1. storage'[t] = storage[t] /\ (storage[t] # 0 => Stored(t)' = Stored(t))
        BY <1>2, <1>9, <2>2 DEF Stored
      <3>2. StoredOK(t)
        BY DEF PlainBody
      <3> QED BY <1>2, <1>7, <3>1, <3>2 DEF StoredOK
    <2> QED BY <2>1, <2>2
  <1>12. HooksOK'
    <2>1. \A g \in Flows : g # p => flow'[g].pc = "idle"
      BY <1>2, <1>9
    <2>2. ConnectOK(p)'
      BY <1>1, <1>5, <1>6, <1>7, <1>9 DEF ConnectOK
    <2>3. \A g \in Flows : ConnectOK(g)' /\ EstablishedOK(g)'
      BY <1>6, <1>9, <2>1, <2>2 DEF ConnectOK, EstablishedOK
    <2> QED BY <1>6, <1>9, <2>1, <2>3 DEF HooksOK, MidHook
  <1>13. Ahead' = 0
    BY <1>2, <1>6, <1>9 DEF Ahead
  <1>14. LogInv'
    BY <1>2, <1>7, <1>13, LogKept DEF PlainBody
  <1> QED BY <1>10, <1>11, <1>12, <1>14 DEF PlainBody

\* It goes on: it fills in the process, or copies the event.
LEMMA PlainConnectGoesOn ==
  ASSUME CellInv, PlainEnv, PlainBody, NEW p \in Procs, ConnectProcess(p) \/ ConnectCopy(p)
  PROVE  PlainBody'
  <1> DEFINE c == flow[p].cell
             s == flow[p].sock
  <1>1. /\ p \in Flows /\ flow[p].pc \in {"connect_process", "connect_copy"}
        /\ flow[p].pc \in MidHook
        /\ flow \in [Flows -> FlowT] /\ heap \in [Cells -> EventT]
    BY FlowFacts DEF ConnectProcess, ConnectCopy, MidHook, CellInv, CommonT
  <1>2. /\ s \in Socks /\ c \in Cells /\ c # 0 /\ storage[s] = c
        /\ \A t \in Socks : storage[t] = c => t = s
        /\ \A g \in Flows : g # p => flow[g].pc = "idle"
        /\ Ahead = 0
    BY <1>1, PlainBusy
  <1>3. UNCHANGED <<storage, sent, sk, opened, denied>>
    BY DEF ConnectProcess, ConnectCopy, outgoing
  <1>4. /\ flow'[p].pc \in {"connect_copy", "connect_2"}
        /\ flow'[p].cell = c /\ flow'[p].sock = s /\ flow'[p].peer = flow[p].peer
        /\ \A g \in Flows : g # p => flow'[g] = flow[g]
        /\ flow'[p].pc = "connect_2" => flow'[p].slot = heap[c] /\ heap' = heap
    BY <1>1 DEF ConnectProcess, ConnectCopy, FlowT
  <1>5. ConnectOK(p)
    BY <1>1 DEF PlainBody, HooksOK
  <1>6. /\ \A d \in Cells : d # c => heap'[d] = heap[d]
        /\ heap'[c].action = heap[c].action /\ heap'[c].id = heap[c].id
        /\ heap'[c].peer = heap[c].peer /\ heap'[c].proc = p
    <2>1. CASE ConnectProcess(p)
      <3>1. heap' = [heap EXCEPT ![c] = [heap[c] EXCEPT !.proc = p]] /\ heap[c] \in EventT
        BY <1>1, <1>2, <2>1 DEF ConnectProcess
      <3> QED BY <1>1, <1>2, <3>1 DEF EventT
    <2>2. CASE ConnectCopy(p)
      BY <1>5, <2>2 DEF ConnectCopy, ConnectOK
    <2> QED BY <2>1, <2>2
  <1>7. PlainT'
    BY <1>3 DEF PlainBody, PlainT
  <1>8. ASSUME NEW t \in Socks PROVE StoredOK(t)'
    <2>1. StoredOK(t) /\ storage'[t] = storage[t] /\ storage[t] \in Cells \cup {0}
      BY <1>3 DEF PlainBody, CellInv, CommonT
    <2>2. flow[t].pc # "established_2" /\ flow'[t].pc # "established_2"
      BY <1>1, <1>2, <1>4, FlowFacts
    <2>3. CASE t = s
      BY <1>1, <1>2, <1>3, <1>5, <1>6, <2>1, <2>2, <2>3 DEF StoredOK, Stored, ConnectOK
    <2>4. CASE t # s
      <3>1. storage[t] # 0 => heap'[storage[t]] = heap[storage[t]]
        BY <1>2, <1>6, <2>1, <2>4
      <3> QED BY <1>2, <1>3, <2>1, <2>2, <3>1 DEF StoredOK, Stored
    <2> QED BY <2>3, <2>4
  <1>9. HooksOK'
    <2>1. ConnectOK(p)'
      BY <1>1, <1>3, <1>4, <1>5, <1>6 DEF ConnectOK
    <2>2. \A g \in Flows : g # p => flow'[g].pc = "idle"
      BY <1>2, <1>4
    <2>3. \A g \in Flows : ConnectOK(g)' /\ EstablishedOK(g)'
      BY <1>4, <2>1, <2>2 DEF ConnectOK, EstablishedOK
    <2> QED BY <1>4, <2>2, <2>3 DEF HooksOK, MidHook
  <1>10. Ahead' = 0
    BY <1>2, <1>4 DEF Ahead
  <1>11. LogInv'
    BY <1>2, <1>3, <1>10, LogKept DEF PlainBody
  <1> QED BY <1>7, <1>8, <1>9, <1>11 DEF PlainBody

\* connect(AF_UNSPEC) deletes a stored event and disconnects.
LEMMA PlainConnectUnsupported ==
  ASSUME CellInv, PlainEnv, PlainBody, NEW p \in Procs, NEW s \in Socks, ConnectUnsupported(p, s)
  PROVE  PlainBody'
  <1>1. /\ p \in Flows /\ flow[p].pc \notin MidHook /\ \A g \in Flows : flow[g].pc \notin MidHook
        /\ flow[p] \in FlowT
    BY FlowFacts DEF ConnectUnsupported, MayEnter, PlainEnv, MidHook, CellInv, CommonT
  <1>2. /\ storage' = [storage EXCEPT ![s] = 0] /\ heap' = Freed(heap) /\ flow' = flow
        /\ sk' = [sk EXCEPT ![s].state = "closed"]
        /\ UNCHANGED <<env, rules, sent, next_id, opened, denied>>
    BY DEF ConnectUnsupported
  <1>3. /\ \A g \in Flows : flow[g].pc = "idle" /\ flow[g].cell = 0
        /\ Ahead = 0
        /\ \A t \in Socks : storage[t] # 0 =>
             storage[t] \in Cells /\ Stored(t).action = "ALLOW_EVENT" /\ Stored(t).id = 0
    BY <1>1, PlainQuiet
  <1>4. /\ storage' \in [Socks -> Cells \cup {0}] /\ storage'[s] = 0
        /\ \A t \in Socks : t # s => storage'[t] = storage[t]
    BY <1>2 DEF CellInv, CommonT
  <1>5. Ends(p, flow[p], heap)
    <2>1. flow' = [flow EXCEPT ![p] = flow[p]] /\ heap \in [Cells -> EventT]
      BY <1>1, <1>2 DEF CellInv, CommonT
    <2>2. UNCHANGED <<env, rules>> /\ sent' \in Seq(ReportT) /\ next_id' \in Nat
      BY <1>2 DEF CellInv, CommonT
    <2> QED BY <1>1, <1>2, <1>3, <1>4, <2>1, <2>2 DEF Ends
  <1>6. \A t \in Socks : storage'[t] # 0 => storage'[t] = storage[t] /\ Stored(t)' = Stored(t)
    BY <1>1, <1>5, EndStep DEF Stored
  <1>7. /\ sk' \in [Socks -> SkT] /\ sk'[s].state = "closed"
        /\ \A t \in Socks : t # s => sk'[t] = sk[t]
    BY <1>2 DEF PlainBody, PlainT, SkT
  <1>8. ASSUME NEW t \in Socks PROVE StoredOK(t)'
    <2>1. CASE t = s
      BY <1>4, <1>7, <2>1 DEF StoredOK
    <2>2. CASE t # s
      <3>1. StoredOK(t)
        BY DEF PlainBody
      <3> QED BY <1>3, <1>4, <1>6, <1>7, <2>2, <3>1 DEF StoredOK
    <2> QED BY <2>1, <2>2
  <1>9. HooksOK' /\ Ahead' = 0
    BY <1>2, <1>3, NowQuiet
  <1>10. LogInv'
    BY <1>2, <1>3, <1>9, LogKept DEF PlainBody
  <1> QED BY <1>2, <1>7, <1>8, <1>9, <1>10 DEF PlainBody, PlainT

\* connect_hook_2: a refused attempt is reported and its event deleted; an allowed
\* one is what the kernel works on from now on.
LEMMA PlainConnectHook2 ==
  ASSUME CellInv, PlainEnv, PlainBody, NEW p \in Procs, NEW s, s = flow[p].sock,
         NEW a, a = flow[p].peer, ConnectHook2(p)
  PROVE  PlainBody'
  <1> DEFINE slot == flow[p].slot
             ev == Judged(slot)
             withId == [ev EXCEPT !.id = next_id]
             x == [id |-> withId.id, action |-> withId.action, proc |-> withId.proc,
                   peer |-> withId.peer, sock |-> s]
  <1>1. /\ p \in Flows /\ flow[p].pc = "connect_2" /\ flow[p].pc \in MidHook
        /\ slot \in EventT /\ next_id \in Nat /\ sent \in Seq(ReportT) /\ CommonT
    BY FlowFacts DEF ConnectHook2, MidHook, CellInv, CommonT, FlowT
  <1>2. /\ s \in Socks /\ flow[p].cell \in Cells /\ flow[p].cell # 0
        /\ storage[s] = flow[p].cell
        /\ \A t \in Socks : storage[t] = flow[p].cell => t = s
        /\ \A g \in Flows : g # p => flow[g].pc = "idle"
        /\ Ahead = 0
    BY <1>1, PlainBusy
  <1>3. /\ a \in Peers /\ sk[s].state = "closed" /\ slot = Stored(s)
        /\ slot.proc = p /\ slot.peer = a
    BY <1>1, <1>2 DEF PlainBody, HooksOK, ConnectOK, Stored
  <1>4. \A t \in Socks : StoredOK(t) /\ flow[t].pc # "established_2"
    BY <1>1, <1>2, FlowFacts DEF PlainBody
  <1>5. slot.id = 0
    BY <1>2, <1>3, <1>4 DEF StoredOK
  <1>6. ev \in EventT /\ ev.proc = p /\ ev.peer = a /\ ev.id = 0
    BY <1>1, <1>3, <1>5, JudgedFacts
  <1>7. generic_tail_call(s, slot) = <<>>
    BY <1>6 DEF generic_tail_call
  <1>8. /\ flow' = [flow EXCEPT ![p] = Idle] /\ heap' = Freed(heap)
        /\ UNCHANGED <<env, rules, opened>>
        /\ Blocks(ev.action) =>
             /\ sent' = sent \o generic_tail_call(s, slot) \o submit_event(s, withId)
             /\ next_id' = next_id + 1 /\ storage' = [storage EXCEPT ![s] = 0]
             /\ denied' = Append(denied, <<s, p, a>>) /\ sk' = sk
        /\ ~Blocks(ev.action) =>
             /\ sent' = sent \o generic_tail_call(s, slot)
             /\ sk' = [sk EXCEPT ![s] = [state |-> "syn_sent", proc |-> p, peer |-> a]]
             /\ UNCHANGED <<next_id, storage, denied>>
    BY <1>3, <1>6 DEF ConnectHook2, DiscardStorage, StartConnect
  <1> HIDE DEF slot, ev
  <1>9. withId \in EventT /\ withId.proc = p /\ withId.peer = a /\ withId.action = ev.action
    BY <1>1, <1>6 DEF EventT
  <1> HIDE DEF withId
  <1>10. /\ x \in ReportT /\ x.action = ev.action /\ Shape(x) = <<s, p, a>>
         /\ Blocks(ev.action) => submit_event(s, withId) = <<x>>
    BY <1>2, <1>9 DEF ReportT, EventT, Shape, submit_event, Blocks
  <1> HIDE DEF x
  <1>11. /\ sent \o <<x>> \in Seq(ReportT) /\ Extends(sent, x, sent \o <<x>>) /\ sent \o <<>> = sent
    BY <1>1, <1>10, AddReport
  <1>12. /\ Blocks(ev.action) => sent' = sent \o <<x>>
         /\ ~Blocks(ev.action) => sent' = sent
    BY <1>7, <1>8, <1>10, <1>11
  <1>13. /\ storage' \in [Socks -> Cells \cup {0}] /\ \A t \in Socks : storage'[t] \in {storage[t], 0}
         /\ Blocks(ev.action) => storage'[s] = 0 /\ \A t \in Socks : t # s => storage'[t] = storage[t]
    BY <1>1, <1>2, <1>8 DEF CommonT
  <1>14. Ends(p, Idle, heap)
    <2>1. UNCHANGED <<env, rules>>
      BY <1>8
    <2>3. sent' \in Seq(ReportT)
      BY <1>1, <1>11, <1>12
    <2>4. next_id' = next_id + 1 \/ next_id' = next_id
      BY <1>8
    <2>5. next_id' \in Nat
      BY <1>1, <2>4
    <2>2. heap \in [Cells -> EventT]
      BY <1>1 DEF CommonT
    <2> QED BY <1>8, <1>13, <2>1, <2>2, <2>3, <2>5, FlowFacts DEF Ends
  <1>15. /\ flow'[p] = Idle /\ \A g \in Flows : g # p => flow'[g] = flow[g]
         /\ \A t \in Socks : storage'[t] # 0 => storage'[t] = storage[t] /\ Stored(t)' = Stored(t)
    BY <1>1, <1>14, EndStep DEF Stored
  <1>16. HooksOK' /\ Ahead' = 0
    <2>1. \A g \in Flows : flow'[g].pc = "idle"
      BY <1>2, <1>15, FlowFacts
    <2> QED BY <2>1, NowQuiet
  <1>17. CASE Blocks(ev.action)
    <2>1. PlainT'
      <3>1. <<s, p, a>> \in ShapeT
        BY <1>2, <1>3 DEF ShapeT
      <3>2. denied \in Seq(ShapeT) /\ sk \in [Socks -> SkT] /\ opened \in Seq(ShapeT)
        BY DEF PlainBody, PlainT
      <3>3. Append(denied, <<s, p, a>>) \in Seq(ShapeT)
        BY <3>1, <3>2
      <3>4. denied' = Append(denied, <<s, p, a>>) /\ sk' = sk /\ opened' = opened
        BY <1>8, <1>17
      <3> QED BY <3>2, <3>3, <3>4 DEF PlainT
    <2>2. ASSUME NEW t \in Socks PROVE StoredOK(t)'
      BY <1>3, <1>4, <1>8, <1>13, <1>15, <1>17 DEF StoredOK
    <2>3. LogInv'
      <3> DEFINE d == Append(denied, <<s, p, a>>)
      <3>1. /\ Allowed \in SUBSET DOMAIN sent /\ Refused \in SUBSET DOMAIN sent
            /\ Allowed' = Allowed /\ Refused' = Refused \cup {Len(sent) + 1}
            /\ Extends(sent, x, sent')
        BY <1>1, <1>10, <1>11, <1>12, <1>17, CountedReports
      <3>2. /\ DOMAIN sent = 1 .. Len(sent) /\ Len(sent) \in Nat
            /\ Allowed \in SUBSET (1 .. Len(sent)) /\ Cardinality(Allowed) \in Nat
            /\ Refused \in SUBSET (1 .. Len(sent)) /\ Cardinality(Refused) \in Nat
            /\ opened \in Seq(ShapeT) /\ Len(opened) = Cardinality(Allowed) + Ahead
            /\ Lists(sent, opened, Allowed)
            /\ denied \in Seq(ShapeT) /\ Len(denied) = Cardinality(Refused)
            /\ Lists(sent, denied, Refused)
        BY LogFacts
      <3>3. Lists(sent', opened, Allowed)
        BY <3>1, <3>2, NotListed
      <3>4. <<s, p, a>> \in ShapeT /\ Cardinality(Refused) <= Len(denied)
        BY <1>2, <1>3, <3>2 DEF ShapeT
      <3>5. Lists(sent, d, Refused)
        BY <3>2, <3>4, LogGrows
      <3>6. Len(d) = Cardinality(Refused) + 1 /\ d[Cardinality(Refused) + 1] = Shape(x)
        BY <1>10, <3>2, <3>4
      <3> HIDE DEF d
      <3>7. /\ Cardinality(Refused \cup {Len(sent) + 1}) = Cardinality(Refused) + 1
            /\ Lists(sent', d, Refused \cup {Len(sent) + 1})
        BY <3>1, <3>5, <3>6, NextListed
      <3>8. opened' = opened /\ denied' = d
        BY <1>8, <1>17 DEF d
      <3>9. Len(opened') = Cardinality(Allowed') + Ahead'
        BY <1>2, <1>16, <3>1, <3>2, <3>8
      <3> QED BY <3>1, <3>3, <3>6, <3>7, <3>8, <3>9 DEF LogInv
    <2> QED BY <1>16, <2>1, <2>2, <2>3 DEF PlainBody
  <1>18. CASE ~Blocks(ev.action)
    <2>1. /\ sk' \in [Socks -> SkT] /\ sk'[s].proc = p /\ sk'[s].peer = a
          /\ \A t \in Socks : t # s => sk'[t] = sk[t]
      <3>1. [state |-> "syn_sent", proc |-> p, peer |-> a] \in SkT
        BY <1>3 DEF SkT
      <3>2. sk \in [Socks -> SkT]
        BY DEF PlainBody, PlainT
      <3>3. sk' = [sk EXCEPT ![s] = [state |-> "syn_sent", proc |-> p, peer |-> a]]
        BY <1>8, <1>18
      <3> QED BY <1>2, <3>1, <3>2, <3>3
    <2>2. PlainT'
      BY <1>8, <1>18, <2>1 DEF PlainBody, PlainT
    <2>3. ASSUME NEW t \in Socks PROVE StoredOK(t)'
      <3>1. CASE t = s
        BY <1>2, <1>3, <1>4, <1>8, <1>15, <1>18, <2>1, <3>1 DEF StoredOK
      <3>2. CASE t # s
        BY <1>4, <1>8, <1>15, <1>18, <2>1, <3>2 DEF StoredOK
      <3> QED BY <3>1, <3>2
    <2>4. LogInv'
      BY <1>2, <1>8, <1>12, <1>16, <1>18, LogKept DEF PlainBody
    <2> QED BY <1>16, <2>2, <2>3, <2>4 DEF PlainBody
  <1> QED BY <1>17, <1>18

\* inet_conn_established finds the event of the attempt that succeeded.
LEMMA PlainEstablished ==
  ASSUME CellInv, PlainEnv, PlainBody, NEW s \in Socks, Established(s)
  PROVE  PlainBody'
  <1> DEFINE ev == [heap[storage[s]] EXCEPT !.id = next_id]
             r == [pc |-> "established_2", sock |-> s, peer |-> None,
                   cell |-> CellOf(s), slot |-> EmptyEvent]
             x == <<s, sk[s].proc, sk[s].peer>>
  <1>1. /\ s \in Flows /\ flow[s].pc = "idle" /\ flow[s].pc \notin MidHook
        /\ sk[s].state = "syn_sent" /\ \A g \in Flows : flow[g].pc \notin MidHook
    BY FlowFacts DEF Established, MayEnter, PlainEnv, MidHook
  <1>2. /\ \A g \in Flows : flow[g].pc = "idle" /\ flow[g].cell = 0
        /\ Ahead = 0
        /\ \A t \in Socks : storage[t] # 0 =>
             storage[t] \in Cells /\ Stored(t).action = "ALLOW_EVENT" /\ Stored(t).id = 0
    BY <1>1, PlainQuiet
  <1>3. storage[s] # 0 /\ Stored(s).proc = sk[s].proc /\ Stored(s).peer = sk[s].peer
    BY <1>1 DEF PlainBody, StoredOK
  <1>4. /\ storage[s] \in Cells /\ CellOf(s) = storage[s] /\ heap[storage[s]] \in EventT
        /\ next_id \in Nat /\ Stored(s) = heap[storage[s]]
    BY <1>2, <1>3 DEF CellOf, CellInv, CommonT, Stored
  <1>5. /\ ev \in EventT /\ ev.proc = sk[s].proc /\ ev.peer = sk[s].peer
        /\ ev.action = "ALLOW_EVENT"
    BY <1>2, <1>3, <1>4 DEF EventT
  <1>6. r \in FlowT /\ r.pc = "established_2" /\ r.pc \in MidHook /\ r.cell = CellOf(s) /\ r.sock = s
    BY <1>4, CellFacts DEF FlowT, MidHook
  <1>7. /\ heap' = [heap EXCEPT ![CellOf(s)] = ev]
        /\ storage' = [storage EXCEPT ![s] = CellOf(s)]
        /\ flow' = [flow EXCEPT ![s] = r]
        /\ UNCHANGED <<env, rules, sent, denied>> /\ next_id' \in Nat
        /\ sk' = [sk EXCEPT ![s].state = "established"]
        /\ opened' = Append(opened, x)
    <2>1. storage' = storage /\ storage = [storage EXCEPT ![s] = CellOf(s)]
      BY <1>4 DEF Established, CellInv, CommonT
    <2> QED BY <1>3, <1>4, <2>1 DEF Established
  <1> HIDE DEF ev, r
  <1>8. Enters(s, s, ev, r)
    BY <1>1, <1>5, <1>6, <1>7 DEF Enters
  <1>9. /\ storage'[s] = CellOf(s) /\ CellOf(s) # 0
        /\ \A t \in Socks : t # s => storage'[t] = storage[t] /\ storage[t] # CellOf(s)
        /\ flow'[s] = r /\ \A g \in Flows : g # s => flow'[g] = flow[g]
        /\ heap'[CellOf(s)] = ev
        /\ \A c \in Cells : c # CellOf(s) => heap'[c] = heap[c]
    BY <1>1, <1>8, EnterStep
  <1>10. /\ sk' \in [Socks -> SkT] /\ sk'[s].state = "established"
         /\ \A t \in Socks : t # s => sk'[t] = sk[t]
         /\ x \in ShapeT
    BY <1>7 DEF PlainBody, PlainT, SkT, ShapeT
  <1> HIDE DEF x
  <1>11. /\ opened \in Seq(ShapeT) /\ Len(opened) = Cardinality(Allowed) /\ Cardinality(Allowed) \in Nat
         /\ Allowed \in SUBSET (1 .. Len(sent)) /\ Len(sent) \in Nat /\ Lists(sent, opened, Allowed)
         /\ denied \in Seq(ShapeT)
    BY <1>2, LogFacts
  <1>12. /\ opened' \in Seq(ShapeT) /\ Len(opened') = Len(opened) + 1 /\ opened'[Len(opened) + 1] = x
    <2>1. opened' = Append(opened, x)
      BY <1>7
    <2>2. /\ Append(opened, x) \in Seq(ShapeT) /\ Len(Append(opened, x)) = Len(opened) + 1
          /\ Append(opened, x)[Len(opened) + 1] = x
      BY <1>10, <1>11
    <2> QED BY <2>1, <2>2
  <1>13. ASSUME NEW t \in Socks PROVE StoredOK(t)'
    <2>1. CASE t = s
      BY <1>5, <1>6, <1>9, <1>10, <2>1 DEF StoredOK, Stored
    <2>2. CASE t # s
      <3>1. storage'[t] = storage[t] /\ (storage[t] # 0 => Stored(t)' = Stored(t))
        BY <1>2, <1>9, <2>2 DEF Stored
      <3>2. StoredOK(t)
        BY DEF PlainBody
      <3> QED BY <1>2, <1>10, <2>2, <3>1, <3>2 DEF StoredOK
    <2> QED BY <2>1, <2>2
  <1>14. HooksOK'
    <2>1. \A g \in Flows : g # s => flow'[g].pc = "idle"
      BY <1>2, <1>9
    <2>2. EstablishedOK(s)'
      <3>1. Stored(s)' = ev
        BY <1>9 DEF Stored
      <3>2. x = <<s, ev.proc, ev.peer>>
        BY <1>5 DEF x
      <3> QED BY <1>6, <1>9, <1>10, <1>12, <3>1, <3>2 DEF EstablishedOK
    <2>3. \A g \in Flows : ConnectOK(g)' /\ EstablishedOK(g)'
      BY <1>6, <1>9, <2>1, <2>2 DEF ConnectOK, EstablishedOK
    <2> QED BY <1>6, <1>9, <2>1, <2>3 DEF HooksOK, MidHook
  <1>15. Ahead' = 1
    BY <1>1, <1>6, <1>9 DEF Ahead
  <1>16. LogInv'
    <2>1. Allowed' = Allowed /\ Refused' = Refused
      BY <1>7 DEF Allowed, Refused, Reports
    <2>2. Lists(sent, Append(opened, x), Allowed)
      <3>1. Cardinality(Allowed) <= Len(opened)
        BY <1>11
      <3> QED BY <1>10, <1>11, <3>1, LogGrows
    <2>3. Len(opened') = Cardinality(Allowed) + 1
      BY <1>11, <1>12
    <2>4. Len(denied) = Cardinality(Refused) /\ Lists(sent, denied, Refused)
      BY LogFacts
    <2> QED BY <1>7, <1>15, <2>1, <2>2, <2>3, <2>4 DEF LogInv
  <1> QED BY <1>7, <1>10, <1>11, <1>12, <1>13, <1>14, <1>16 DEF PlainBody, PlainT

\* The rest of it reports that event and deletes it.
LEMMA PlainEstablished2 ==
  ASSUME CellInv, PlainEnv, PlainBody, NEW s \in Socks, Established2(s)
  PROVE  PlainBody'
  <1> DEFINE ev == heap[flow[s].cell]
             x == [id |-> ev.id, action |-> ev.action, proc |-> ev.proc, peer |-> ev.peer, sock |-> s]
  <1>1. /\ s \in Flows /\ flow[s].pc = "established_2" /\ flow[s].pc \in MidHook
        /\ next_id \in Nat /\ sent \in Seq(ReportT) /\ CommonT
    BY FlowFacts DEF Established2, MidHook, CellInv, CommonT
  <1>2. /\ flow[s].cell \in Cells /\ flow[s].cell # 0
        /\ \A g \in Flows : g # s => flow[g].pc = "idle"
        /\ Ahead = 1
    BY <1>1, PlainBusy
  <1>3. /\ flow[s].sock = s /\ storage[s] = flow[s].cell /\ ev = Stored(s) /\ ev \in EventT
        /\ opened[Len(opened)] = <<s, ev.proc, ev.peer>>
    BY <1>1, <1>2 DEF PlainBody, HooksOK, EstablishedOK, Stored, CommonT
  <1>4. \A t \in Socks : StoredOK(t) /\ (t # s => flow[t].pc # "established_2")
    BY <1>2, FlowFacts DEF PlainBody
  <1>5. ev.action = "ALLOW_EVENT"
    BY <1>2, <1>3, <1>4 DEF StoredOK
  <1>6. /\ flow' = [flow EXCEPT ![s] = Idle] /\ heap' = Freed(heap)
        /\ UNCHANGED <<env, rules, next_id, sk, opened, denied>>
        /\ storage' = [storage EXCEPT ![s] = 0] /\ sent' = sent \o submit_event(s, ev)
    BY DEF Established2, DiscardStorage
  <1> HIDE DEF ev
  <1>7. /\ x \in ReportT /\ x.action = ev.action /\ Shape(x) = <<s, ev.proc, ev.peer>>
        /\ submit_event(s, ev) = <<x>> /\ ~Blocks(x.action)
    BY <1>3, <1>5 DEF ReportT, EventT, Shape, submit_event, Blocks
  <1> HIDE DEF x
  <1>8. /\ sent' \in Seq(ReportT) /\ Extends(sent, x, sent')
    <2>1. sent \o <<x>> \in Seq(ReportT) /\ Extends(sent, x, sent \o <<x>>)
      BY <1>1, <1>7, AddReport
    <2>2. sent' = sent \o <<x>>
      BY <1>6, <1>7
    <2> QED BY <2>1, <2>2
  <1>9. /\ storage' \in [Socks -> Cells \cup {0}] /\ storage'[s] = 0
        /\ \A t \in Socks : t # s => storage'[t] = storage[t]
    BY <1>1, <1>6 DEF CommonT
  <1>10. Ends(s, Idle, heap)
    <2>1. UNCHANGED <<env, rules>> /\ next_id' \in Nat /\ heap \in [Cells -> EventT]
      BY <1>1, <1>6 DEF CommonT
    <2> QED BY <1>6, <1>8, <1>9, <2>1, FlowFacts DEF Ends
  <1>11. /\ flow'[s] = Idle /\ \A g \in Flows : g # s => flow'[g] = flow[g]
         /\ \A t \in Socks : storage'[t] # 0 => storage'[t] = storage[t] /\ Stored(t)' = Stored(t)
    BY <1>1, <1>10, EndStep DEF Stored
  <1>12. HooksOK' /\ Ahead' = 0
    <2>1. \A g \in Flows : flow'[g].pc = "idle"
      BY <1>2, <1>11, FlowFacts
    <2> QED BY <2>1, NowQuiet
  <1>13. ASSUME NEW t \in Socks PROVE StoredOK(t)'
    <2>1. CASE t = s
      <3>1. sk[s].state # "syn_sent"
        BY <1>1 DEF PlainBody, HooksOK, EstablishedOK
      <3> QED BY <1>6, <1>9, <2>1, <3>1 DEF StoredOK
    <2>2. CASE t # s
      BY <1>4, <1>6, <1>9, <1>11, <2>2 DEF StoredOK
    <2> QED BY <2>1, <2>2
  <1>14. LogInv'
    <2>1. /\ Allowed \in SUBSET DOMAIN sent /\ Refused \in SUBSET DOMAIN sent
          /\ Allowed' = Allowed \cup {Len(sent) + 1} /\ Refused' = Refused
      BY <1>1, <1>7, <1>8, CountedReports
    <2>2. /\ Cardinality(Allowed) \in Nat /\ opened \in Seq(ShapeT)
          /\ Len(opened) = Cardinality(Allowed) + 1 /\ Lists(sent, opened, Allowed)
          /\ Len(denied) = Cardinality(Refused) /\ Lists(sent, denied, Refused)
      BY <1>2, LogFacts
    <2>3. Lists(sent', denied, Refused)
      BY <1>8, <2>1, <2>2, NotListed
    <2>4. opened[Cardinality(Allowed) + 1] = Shape(x)
      BY <1>3, <1>7, <2>2
    <2>5. /\ Cardinality(Allowed \cup {Len(sent) + 1}) = Cardinality(Allowed) + 1
          /\ Lists(sent', opened, Allowed \cup {Len(sent) + 1})
      BY <1>8, <2>1, <2>2, <2>4, NextListed
    <2>6. Len(opened') = Cardinality(Allowed') + Ahead'
      BY <1>6, <1>12, <2>1, <2>2, <2>5
    <2> QED BY <1>6, <2>1, <2>2, <2>3, <2>5, <2>6 DEF LogInv
  <1> QED BY <1>6, <1>12, <1>13, <1>14 DEF PlainBody, PlainT

LEMMA PlainDisconnect ==
  ASSUME CellInv, PlainEnv, PlainBody, NEW s \in Socks, Disconnect(s)
  PROVE  PlainBody'
  <1>1. /\ sk[s].state # "closed" /\ flow[s].pc = "idle" /\ sk' = [sk EXCEPT ![s].state = "closed"]
        /\ UNCHANGED <<heap, storage, flow, sent, opened, denied>>
    BY DEF Disconnect, common
  <1>2. /\ sk' \in [Socks -> SkT] /\ sk'[s].state = "closed"
        /\ \A t \in Socks : t # s => sk'[t] = sk[t]
    BY <1>1 DEF PlainBody, PlainT, SkT
  <1>3. \A t \in Socks : Stored(t)' = Stored(t)
    BY <1>1 DEF Stored
  <1>4. \A t \in Socks : StoredOK(t)'
    BY <1>1, <1>2, <1>3 DEF PlainBody, StoredOK
  <1>5. HooksOK'
    <2>1. \A f \in Flows : flow[f].pc \in MidHook => flow[f].sock \in Socks
      BY DEF CellInv, FlowOK
    <2>2. ASSUME NEW f \in Flows PROVE ConnectOK(f)' /\ EstablishedOK(f)'
      <3>1. ConnectOK(f) /\ EstablishedOK(f)
        BY DEF PlainBody, HooksOK
      <3> QED BY <1>1, <1>2, <2>1, <3>1 DEF ConnectOK, EstablishedOK, Stored, MidHook
    <2> QED BY <1>1, <2>2 DEF PlainBody, HooksOK
  <1>6. LogInv'
    <2>1. Ahead' = Ahead
      BY <1>1 DEF Ahead
    <2> QED BY <1>1, <2>1, LogKept DEF PlainBody
  <1> QED BY <1>1, <1>2, <1>4, <1>5, <1>6 DEF PlainBody, PlainT

LEMMA InitPlain == Init => PlainInv
  <1> SUFFICES ASSUME Init PROVE PlainBody
    BY DEF PlainInv
  <1>1. /\ \A f \in Flows : flow[f].pc = "idle"
        /\ \A s \in Socks : storage[s] = 0 /\ sk[s].state = "closed"
        /\ sent = <<>> /\ opened = <<>> /\ denied = <<>>
    BY DEF Init, InitCommon, InitOutgoing, Idle
  <1>2. PlainT
    BY DEF Init, InitOutgoing, PlainT, SkT
  <1>3. HooksOK
    BY <1>1 DEF HooksOK, ConnectOK, EstablishedOK, MidHook
  <1>4. \A s \in Socks : StoredOK(s)
    BY <1>1 DEF StoredOK
  <1>5. LogInv
    <2>1. Allowed = {} /\ Refused = {} /\ Ahead = 0
      BY <1>1 DEF Allowed, Refused, Reports, Ahead
    <2>2. Cardinality({}) = 0 /\ Len(opened) = 0 /\ Len(denied) = 0
      BY <1>1, FS_EmptySet
    <2> QED BY <2>1, <2>2 DEF LogInv, Lists
  <1> QED BY <1>2, <1>3, <1>4, <1>5 DEF PlainBody

LEMMA PlainStep ==
  ASSUME TcpInv, PlainInv, [Next]_vars
  PROVE  PlainInv'
  <1>1. env' = env
    BY EnvKept
  <1> SUFFICES ASSUME PlainEnv PROVE PlainBody'
    BY <1>1 DEF PlainInv, PlainEnv
  <1>2. CellInv /\ PlainBody /\ "incoming" \notin env
    BY DEF TcpInv, PlainInv, PlainEnv, CellInv, CommonT
  <1>3. CASE UNCHANGED vars
    <2>1. UNCHANGED <<heap, storage, flow, sent, sk, opened, denied>>
      BY <1>3 DEF vars, common, outgoing
    <2>2. Ahead' = Ahead /\ HooksOK' /\ PlainT'
      BY <1>2, <2>1 DEF PlainBody, PlainT, HooksOK, ConnectOK, EstablishedOK, Stored, Ahead
    <2>3. \A s \in Socks : StoredOK(s)'
      BY <1>2, <2>1 DEF PlainBody, StoredOK, Stored
    <2>4. LogInv'
      BY <1>2, <2>1, <2>2, LogKept DEF PlainBody
    <2> QED BY <2>2, <2>3, <2>4 DEF PlainBody
  <1>4. CASE OutgoingNext
    <2>1. ASSUME NEW p \in Procs, NEW s \in Socks, NEW a \in Peers,
                 ConnectHook(p, s, a) \/ ConnectIgnored(p, s, a)
          PROVE  PlainBody'
      BY <1>2, <2>1, PlainConnectHook DEF ConnectIgnored, PlainEnv
    <2>2. ASSUME NEW p \in Procs, NEW s \in Socks, ConnectUnsupported(p, s) PROVE PlainBody'
      BY <1>2, <2>2, PlainConnectUnsupported
    <2>3. ASSUME NEW p \in Procs, ConnectProcess(p) \/ ConnectCopy(p) \/ ConnectHook2(p)
          PROVE  PlainBody'
      BY <1>2, <2>3, PlainConnectGoesOn, PlainConnectHook2
    <2>4. ASSUME NEW s \in Socks, Established(s) \/ Established2(s) \/ Disconnect(s) PROVE PlainBody'
      BY <1>2, <2>4, PlainEstablished, PlainEstablished2, PlainDisconnect
    <2> QED BY <1>4, <2>1, <2>2, <2>3, <2>4 DEF OutgoingNext
  <1>5. ~IncomingNext
    BY <1>2 DEF IncomingNext
  <1> QED BY <1>3, <1>4, <1>5 DEF Next

\* The reports about outgoing connections of a program that does not poll are, if no
\* rule excludes events, in order, exactly its established connections and its refused attempts: connect_hook
\* overwrites what a failed attempt left in the socket, inet_conn_established finds
\* the event of the attempt that succeeded, and each event is sent once.
THEOREM OutgoingCorrect == Spec => []OutgoingIsExact
  <1>1. PlainInv /\ TcpInv => OutgoingIsExact
    <2> SUFFICES ASSUME PlainEnv, ~InHook, PlainInv, TcpInv
                 PROVE  Follows(opened, Allowed) /\ Follows(denied, Refused)
      BY DEF OutgoingIsExact, PlainEnv
    <2>1. CellInv /\ PlainBody
      BY DEF PlainInv, TcpInv
    <2>2. Ahead = 0
      BY <2>1, PlainQuiet DEF InHook
    <2>3. /\ Cardinality(Allowed) \in Nat /\ Len(opened) = Cardinality(Allowed) + Ahead
          /\ Lists(sent, opened, Allowed)
          /\ Len(denied) = Cardinality(Refused) /\ Lists(sent, denied, Refused)
      BY <2>1, LogFacts
    <2>4. Len(opened) = Cardinality(Allowed)
      BY <2>2, <2>3
    <2> QED BY <2>3, <2>4 DEF Follows, Lists
  <1>2. TcpInv /\ PlainInv /\ [Next]_vars => PlainInv'
    BY PlainStep
  <1> QED BY <1>1, <1>2, InitPlain, TcpInvariant, PTL DEF Spec
=============================================================================
