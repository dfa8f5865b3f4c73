---------------------------- MODULE TcpIncoming ----------------------------
(***************************************************************************)
(* The hooks for incoming TCP connections.  accept_hook knows the process, *)
(* inet_conn_request_hook, in the softirq that handles a SYN, knows the    *)
(* addresses; either may come first.  Each leaves what it knows in the     *)
(* tracker of the listening socket, and the one that finds the other's     *)
(* flag set has the event judged and reported and deletes the tracker.     *)
(***************************************************************************)
EXTENDS SocketStorage

VARIABLES
  conn,       \* the kernel's view of the connection of each peer
  queue,      \* the accept queue of each listening socket
  asked,      \* ghost: accept() calls seen, as <<sock, proc>>
  syns,       \* ghost: SYNs seen of each peer
  delivered,  \* ghost: connections that accept() returned, <<sock, proc, peer>>
  upset       \* ghost: listening sockets on which a connection did not come about

incoming == <<conn, queue, asked, syns, delivered, upset>>

Pending(s) ==
  {a \in Peers : conn[a].sock = s /\ conn[a].state \in {"syn", "half", "queued"}}

\* One connection at a time, unless there is a backlog.
MaySyn(s, a) ==
  /\ flow[a].pc = "idle" /\ conn[a].state = "new"
  /\ "backlog" \in env \/ Pending(s) = {}

MayAccept(p, s) ==
  /\ flow[p].pc = "idle"
  /\ "backlog" \in env \/ \A q \in Procs : flow[q].sock # s

\* The kernel's answer to a SYN that the hook allowed or refused (external).
HalfOpen(a)  == conn' = [conn EXCEPT ![a].state = "half"]
Forget(a)    == conn' = [conn EXCEPT ![a] = [state |-> "new", sock |-> None]]

\* Where a process waits once accept_hook has let it (external).
Accepting(s) == [Idle EXCEPT !.pc = "accepting", !.sock = s]

-----------------------------------------------------------------------------
\* is_current_pid_related, or not TCP: the call proceeds unseen.
AcceptIgnored(p, s) ==
  /\ "ignored" \in env
  /\ MayAccept(p, s) /\ MayEnter
  /\ calls' = calls + 1
  /\ flow' = [flow EXCEPT ![p] = Accepting(s)]
  /\ UNCHANGED <<env, rules, heap, storage, sent, next_id, incoming>>

\* accept_hook: the flag is set first.
AcceptHook(p, s) ==
  /\ MayAccept(p, s) /\ MayEnter
  /\ calls' = calls + 1
  /\ heap' = [heap EXCEPT ![CellOf(s)] = [ContentOf(s) EXCEPT !.accept = TRUE]]
  /\ storage' = [storage EXCEPT ![s] = CellOf(s)]
  /\ flow' = [flow EXCEPT ![p] = [Idle EXCEPT !.pc = "accept_fill", !.sock = s,
                                              !.cell = CellOf(s)]]
  /\ asked' = asked \cup {<<s, p>>}
  /\ UNCHANGED <<env, rules, sent, next_id, conn, queue, syns, delivered, upset>>

\* Then the process is filled in, and a request that came before is judged.
AcceptFill(p) ==
  LET f  == flow[p]
      ev == [heap[f.cell] EXCEPT !.proc = p]
  IN  /\ f.pc = "accept_fill"
      /\ flow' = [flow EXCEPT ![p] = IF ev.request THEN [f EXCEPT !.pc = "accept_2", !.slot = ev]
                                     ELSE Accepting(f.sock)]
      /\ UNCHANGED storage
      /\ heap' = Freed([heap EXCEPT ![f.cell] = ev])
      /\ UNCHANGED <<env, rules, sent, next_id, calls, incoming>>

-----------------------------------------------------------------------------
RequestIgnored(a, s) ==
  /\ "ignored" \in env
  /\ MaySyn(s, a) /\ MayEnter
  /\ calls' = calls + 1
  /\ conn' = [conn EXCEPT ![a] = [state |-> "half", sock |-> s]]
  /\ UNCHANGED <<env, rules, heap, storage, flow, sent, next_id, queue, asked,
                 syns, delivered, upset>>

\* inet_conn_request_hook: the flag is set first.
RequestHook(a, s) ==
  /\ MaySyn(s, a) /\ MayEnter
  /\ calls' = calls + 1
  /\ heap' = [heap EXCEPT ![CellOf(s)] = [ContentOf(s) EXCEPT !.request = TRUE]]
  /\ storage' = [storage EXCEPT ![s] = CellOf(s)]
  /\ flow' = [flow EXCEPT ![a] = [Idle EXCEPT !.pc = "request_fill", !.sock = s,
                                              !.cell = CellOf(s)]]
  /\ conn' = [conn EXCEPT ![a] = [state |-> "syn", sock |-> s]]
  /\ syns' = [syns EXCEPT ![a] = @ + 1]
  /\ UNCHANGED <<env, rules, sent, next_id, queue, asked, delivered, upset>>

\* fill_incomming_connection_network_event_t: the addresses of the request,
\* over those of an earlier one.
RequestPart(ev, a) == [ev EXCEPT !.peer = a]

\* Mutant: only accept_hook looks for its counterpart.
RequestFillOnly(a) ==
  /\ flow[a].pc = "request_fill"
  /\ flow' = [flow EXCEPT ![a] = Idle]
  /\ UNCHANGED storage
  /\ heap' = Freed([heap EXCEPT ![flow[a].cell].peer = a])
  /\ HalfOpen(a)
  /\ UNCHANGED <<env, rules, sent, next_id, calls, queue, asked, syns, delivered, upset>>

\* Then the addresses are filled in and a waiting accept() is judged.
RequestFill(a) ==
  LET f  == flow[a]
      ev == RequestPart(heap[f.cell], a)
  IN  /\ f.pc = "request_fill"
      /\ flow' = [flow EXCEPT ![a] = IF ev.accept THEN [f EXCEPT !.pc = "request_2", !.slot = ev]
                                     ELSE Idle]
      /\ IF ev.accept THEN UNCHANGED conn ELSE HalfOpen(a)
      /\ UNCHANGED storage
      /\ heap' = Freed([heap EXCEPT ![f.cell] = ev])
      /\ UNCHANGED <<env, rules, sent, next_id, calls, queue, asked,
                     syns, delivered, upset>>

\* The address family is not supported: the tracker goes, with all it holds.
RequestUnsupported(a) ==
  /\ flow[a].pc = "request_fill"
  /\ storage' = [storage EXCEPT ![flow[a].sock] = 0]
  /\ flow' = [flow EXCEPT ![a] = Idle]
  /\ upset' = upset \cup {flow[a].sock}
  /\ HalfOpen(a)
  /\ heap' = Freed(heap)
  /\ UNCHANGED <<env, rules, sent, next_id, calls, queue, asked, syns, delivered>>

-----------------------------------------------------------------------------
\* Mutant: the tracker is kept, so that its flags pair again.
KeepTracker(s) == storage

\* discard_sk_from_sk_storage
DiscardTracker(s) == [storage EXCEPT ![s] = 0]

\* network_event_tcp_incoming_tail_call on the copy in the slot.  The tracker
\* itself never gets an id, so set_event_id_when_id_is_zero always does.
IncomingTailCall(f) ==
  /\ sent' = sent \o generic_tail_call(f.sock, [f.slot EXCEPT !.id = next_id])
  /\ next_id' = next_id + 1
  /\ storage' = DiscardTracker(f.sock)

\* accept_hook_2: a refused accept() fails before it looks at the queue.
AcceptHook2(p) ==
  LET f == flow[p]
      refused == Blocks(Judged(f.slot).action)
  IN  /\ f.pc = "accept_2"
      /\ IncomingTailCall(f)
      /\ flow' = [flow EXCEPT ![p] = IF refused THEN Idle ELSE Accepting(f.sock)]
      /\ upset' = IF refused THEN upset \cup {f.sock} ELSE upset
      /\ heap' = Freed(heap)
      /\ UNCHANGED <<env, rules, calls, conn, queue, asked, syns, delivered>>

\* inet_conn_request_hook_2: a refused SYN is dropped; the client may repeat it.
RequestHook2(a) ==
  LET f == flow[a]
      refused == Blocks(Judged(f.slot).action)
  IN  /\ f.pc = "request_2"
      /\ IncomingTailCall(f)
      /\ flow' = [flow EXCEPT ![a] = Idle]
      /\ upset' = IF refused THEN upset \cup {f.sock} ELSE upset
      /\ IF refused THEN Forget(a) ELSE HalfOpen(a)
      /\ heap' = Freed(heap)
      /\ UNCHANGED <<env, rules, calls, queue, asked, syns, delivered>>

-----------------------------------------------------------------------------
\* The kernel (external): the handshake ends or fails, accept() returns the
\* oldest connection or, when it does not block, nothing.
Handshake(a) ==
  /\ conn[a].state = "half"
  /\ conn' = [conn EXCEPT ![a].state = "queued"]
  /\ queue' = [queue EXCEPT ![conn[a].sock] = Append(@, a)]
  /\ UNCHANGED <<common, asked, syns, delivered, upset>>

HandshakeFails(a) ==
  /\ conn[a].state = "half"
  /\ upset' = upset \cup {conn[a].sock}
  /\ Forget(a)
  /\ UNCHANGED <<common, queue, asked, syns, delivered>>

AcceptReturns(p) ==
  LET s == flow[p].sock
  IN  /\ flow[p].pc = "accepting" /\ queue[s] # <<>>
      /\ queue' = [queue EXCEPT ![s] = Tail(@)]
      /\ conn' = [conn EXCEPT ![Head(queue[s])].state = "accepted"]
      /\ delivered' = delivered \cup {<<s, p, Head(queue[s])>>}
      /\ flow' = [flow EXCEPT ![p] = Idle]
      /\ UNCHANGED <<env, rules, heap, storage, sent, next_id, calls, asked, syns, upset>>

AcceptReturnsEmpty(p) ==
  /\ "backlog" \in env
  /\ flow[p].pc = "accepting" /\ queue[flow[p].sock] = <<>>
  /\ flow' = [flow EXCEPT ![p] = Idle]
  /\ UNCHANGED <<env, rules, heap, storage, sent, next_id, calls, incoming>>

InitIncoming ==
  /\ conn = [a \in Peers |-> [state |-> "new", sock |-> None]]
  /\ queue = [s \in Socks |-> <<>>]
  /\ asked = {} /\ delivered = {} /\ upset = {}
  /\ syns = [a \in Peers |-> 0]

IncomingNext ==
  /\ "incoming" \in env
  /\ \/ \E p \in Procs, s \in Socks : AcceptHook(p, s) \/ AcceptIgnored(p, s)
     \/ \E p \in Procs : \/ AcceptFill(p) \/ AcceptHook2(p)
                         \/ AcceptReturns(p) \/ AcceptReturnsEmpty(p)
     \/ \E a \in Peers, s \in Socks : RequestHook(a, s) \/ RequestIgnored(a, s)
     \/ \E a \in Peers : \/ RequestFill(a) \/ RequestUnsupported(a) \/ RequestHook2(a)
                         \/ Handshake(a) \/ HandshakeFails(a)
=============================================================================
