--------------------------- MODULE SocketStorage ---------------------------
(***************************************************************************)
(* What the hooks for outgoing and for incoming TCP connections share: the *)
(* event that each socket carries from one hook to the next in a map of    *)
(* type SK_STORAGE, the copy of it in the slot of the CPU that the second  *)
(* half of a hook judges, and the reports.                                 *)
(*                                                                         *)
(* A hook keeps the pointer that it got from the map.  A cell that another *)
(* CPU deletes meanwhile stays readable until the hook ends (RCU), and a   *)
(* later hook on the socket gets a new one: storage maps a socket to its   *)
(* present cell, and every flow remembers the cell it works on.            *)
(***************************************************************************)
EXTENDS Naturals, Sequences, FiniteSets

CONSTANTS
  Procs,     \* processes that connect or accept
  Peers,     \* remote addresses; an incoming connection is named by its peer
  Socks,     \* sockets
  Chosen,    \* actions that the rules may choose
  Envs,      \* behaviours of the environment, one of which holds in a run
  MaxRules,  \* bound: pairs of a process and an address that a rule is about
  MaxCalls,  \* bound: hook invocations
  None       \* a field that nobody has filled

\* "incoming" or "outgoing" says which hooks are at work.
EnvChoices ==
  { "incoming", "outgoing",
    "overlap",     \* hooks on one socket overlap, on two CPUs or by a softirq
    "ignored",     \* is_current_pid_related: the hook returns at once
    "poll",        \* connect() is called again while a connection is pending
    "backlog" }    \* several connections pend, several processes accept

\* A socket connects or listens: one variable can stand for both maps.
ASSUME EnvAssumption == \A e \in Envs :
  e \subseteq EnvChoices /\ ("incoming" \in e <=> "outgoing" \notin e)

ASSUME BoundAssumption == MaxCalls \in Nat /\ MaxRules \in Nat

ASSUME SetAssumption ==
  /\ IsFiniteSet(Procs) /\ IsFiniteSet(Peers) /\ IsFiniteSet(Socks)
  /\ None \notin Procs \cup Peers \cup Socks
  /\ Procs \cap Peers = {}

VARIABLES
  env,      \* the behaviour of the environment
  rules,    \* the action of the first matching rule
  heap,     \* the cells
  storage,  \* sk_outgoing_connections and sk_incoming_connections: 0 for none
  flow,     \* what every thread of control is doing
  sent,     \* the events submitted, in order
  next_id,  \* global_event_id_counter
  calls     \* hook invocations so far

common == <<env, rules, heap, storage, flow, sent, next_id, calls>>

\* A process makes system calls; a softirq works for one socket or one peer.
Flows == Procs \cup Peers \cup Socks
Cells == 1 .. Cardinality(Flows) + Cardinality(Socks)

EmptyEvent ==
  [id |-> 0, action |-> "ALLOW_EVENT", proc |-> None, peer |-> None,
   accept |-> FALSE, request |-> FALSE]

Idle == [pc |-> "idle", sock |-> None, peer |-> None, cell |-> 0, slot |-> EmptyEvent]

\* pc of a flow whose hook has begun and not ended.
MidHook == {"connect_process", "connect_copy", "connect_2", "established_2",
            "accept_fill", "accept_2", "request_fill", "request_2"}

\* A hook may begin.
MayEnter ==
  /\ calls < MaxCalls
  /\ "overlap" \in env \/ \A f \in Flows : flow[f].pc \notin MidHook

Blocks(action) ==
  action \in {"BLOCK_EVENT", "BLOCK_KILL_PROCESS", "BLOCK_KILL_PROCESS_KILL_PARENT"}

-----------------------------------------------------------------------------
\* The map (external: the kernel's socket storage).

Unused(c) ==
  /\ \A s \in Socks : storage[s] # c
  /\ \A f \in Flows : flow[f].cell # c

\* The cell that bpf_sk_storage_get returns with BPF_SK_STORAGE_GET_F_CREATE.
CellOf(s) == IF storage[s] # 0 THEN storage[s] ELSE CHOOSE c \in Cells : Unused(c)

\* Its content: new cells are zero.
ContentOf(s) == IF storage[s] # 0 THEN heap[storage[s]] ELSE EmptyEvent

\* The cells after a step that wrote h: one that neither the map nor a hook
\* refers to any more is freed.
Freed(h) ==
  [c \in Cells |-> IF Unused(c)' THEN EmptyEvent ELSE h[c]]

-----------------------------------------------------------------------------
\* Judging and reporting.

\* Mutant: a submitted event does not carry the data of the slot.
SubmitWithoutPeer(s, ev) ==
  IF ev.action = "EXCLUDE_EVENT" THEN <<>>
  ELSE <<[id |-> ev.id, action |-> ev.action, proc |-> ev.proc, peer |-> None, sock |-> s]>>

\* submit_event: what it appends to the reports.
submit_event(s, ev) ==
  IF ev.action = "EXCLUDE_EVENT" THEN <<>>
  ELSE <<[id |-> ev.id, action |-> ev.action, proc |-> ev.proc, peer |-> ev.peer, sock |-> s]>>

\* The slot after the rules were matched; a rule about a process or an
\* address does not match a field that is still zero.
Judged(ev) ==
  IF <<ev.proc, ev.peer>> \in DOMAIN rules
    THEN [ev EXCEPT !.action = rules[<<ev.proc, ev.peer>>]] ELSE ev

\* generic_tail_call reports the judged event if it has an id.
generic_tail_call(s, ev) ==
  IF Judged(ev).id > 0 THEN submit_event(s, Judged(ev)) ELSE <<>>

InitCommon ==
  /\ env \in Envs
  /\ rules \in [Procs \X Peers -> Chosen]
  /\ Cardinality({x \in Procs \X Peers : rules[x] # "ALLOW_EVENT"}) <= MaxRules
  /\ heap = [c \in Cells |-> EmptyEvent]
  /\ storage = [s \in Socks |-> 0]
  /\ flow = [f \in Flows |-> Idle]
  /\ sent = <<>>
  /\ next_id = 1
  /\ calls = 0
=============================================================================
