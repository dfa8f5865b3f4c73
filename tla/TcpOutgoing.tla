---------------------------- MODULE TcpOutgoing ----------------------------
(***************************************************************************)
(* The hooks for outgoing TCP connections.  connect_hook stores the event  *)
(* in the socket and has it judged; the event stays there until the        *)
(* handshake is over and inet_conn_established, in a softirq, adds the     *)
(* local address and reports it.                                           *)
(***************************************************************************)
EXTENDS SocketStorage

VARIABLES
  sk,        \* the kernel's view of the socket: state, who connected, to whom
  attempts,  \* ghost: connect() calls seen, as <<sock, proc, peer>>
  opened,    \* ghost: established connections, in order, same shape
  denied     \* ghost: connect() calls that were refused, in order, same shape

outgoing == <<sk, attempts, opened, denied>>

\* A program that does not poll calls connect() on an unconnected socket only.
MayConnect(s) ==
  \/ "poll" \in env
  \/ sk[s].state = "closed" /\ \A p \in Procs : flow[p].sock # s

\* What the kernel does once connect_hook has allowed the call (external).
StartConnect(p, s, a) ==
  sk' = IF sk[s].state = "closed"
          THEN [sk EXCEPT ![s] = [state |-> "syn_sent", proc |-> p, peer |-> a]] ELSE sk

\* connect_hook returns before it touches the socket: is_current_pid_related.
ConnectIgnored(p, s, a) ==
  /\ "ignored" \in env
  /\ flow[p].pc = "idle" /\ MayConnect(s) /\ MayEnter
  /\ calls' = calls + 1
  /\ StartConnect(p, s, a)
  /\ UNCHANGED <<env, rules, heap, storage, flow, sent, next_id, attempts, opened, denied>>

\* Mutant: a second attempt keeps the destination of the first.
KeepStoredPeer(s, a) == [ContentOf(s) EXCEPT !.peer = IF @ = None THEN a ELSE @]

\* The stored event once connect_hook has filled in the addresses, over what it
\* held before.
FirstPart(s, a) == [ContentOf(s) EXCEPT !.peer = a]

\* connect_hook: the addresses go into the event of the socket.  The kernel has
\* not locked the socket yet.
ConnectHook(p, s, a) ==
  /\ flow[p].pc = "idle" /\ MayConnect(s) /\ MayEnter
  /\ calls' = calls + 1
  /\ heap' = [heap EXCEPT ![CellOf(s)] = FirstPart(s, a)]
  /\ storage' = [storage EXCEPT ![s] = CellOf(s)]
  /\ flow' = [flow EXCEPT ![p] = [pc |-> "connect_process", sock |-> s, peer |-> a,
                cell |-> CellOf(s), slot |-> EmptyEvent]]
  /\ attempts' = attempts \cup {<<s, p, a>>}
  /\ UNCHANGED <<env, rules, sent, next_id, sk, opened, denied>>

\* Then the process does ...
ConnectProcess(p) ==
  /\ flow[p].pc = "connect_process"
  /\ heap' = [heap EXCEPT ![flow[p].cell].proc = p]
  /\ flow' = [flow EXCEPT ![p].pc = "connect_copy"]
  /\ UNCHANGED <<env, rules, storage, sent, next_id, calls, outgoing>>

\* ... and store_currently_handled_event copies it all into the slot.
ConnectCopy(p) ==
  /\ flow[p].pc = "connect_copy"
  /\ flow' = [flow EXCEPT ![p].pc = "connect_2", ![p].slot = heap[flow[p].cell]]
  /\ UNCHANGED <<env, rules, heap, storage, sent, next_id, calls, outgoing>>

\* connect(AF_UNSPEC): the first part is NOT_SUPPORTED, the event is deleted
\* and the kernel disconnects the socket.
ConnectUnsupported(p, s) ==
  /\ flow[p].pc = "idle" /\ MayConnect(s) /\ MayEnter
  /\ calls' = calls + 1
  /\ storage' = [storage EXCEPT ![s] = 0]
  /\ sk' = [sk EXCEPT ![s].state = "closed"]
  /\ UNCHANGED flow
  /\ heap' = Freed(heap)
  /\ UNCHANGED <<env, rules, sent, next_id, attempts, opened, denied>>

\* discard_sk_from_sk_storage
DiscardStorage(s) == [storage EXCEPT ![s] = 0]

\* network_event_tcp_outgoing_tail_call: an allowed connection is reported
\* when it is established, a refused one now.  Both paths work on the copy.
ConnectHook2(p) ==
  LET f  == flow[p]
      ev == Judged(f.slot)
      withId == IF ev.id = 0 THEN [ev EXCEPT !.id = next_id] ELSE ev
  IN  /\ f.pc = "connect_2"
      /\ flow' = [flow EXCEPT ![p] = Idle]
      /\ IF Blocks(ev.action)
           THEN /\ sent' = sent \o generic_tail_call(f.sock, f.slot) \o submit_event(f.sock, withId)
                /\ next_id' = IF ev.id = 0 THEN next_id + 1 ELSE next_id
                /\ storage' = DiscardStorage(f.sock)
                /\ denied' = Append(denied, <<f.sock, p, f.peer>>)
                /\ UNCHANGED sk
           ELSE /\ sent' = sent \o generic_tail_call(f.sock, f.slot)
                /\ StartConnect(p, f.sock, f.peer)
                /\ UNCHANGED <<next_id, storage, denied>>
      /\ heap' = Freed(heap)
      /\ UNCHANGED <<env, rules, calls, attempts, opened>>

\* inet_conn_established up to the id, in the softirq that ends the handshake.
Established(s) ==
  /\ sk[s].state = "syn_sent" /\ flow[s].pc = "idle" /\ MayEnter
  /\ calls' = calls + 1
  /\ sk' = [sk EXCEPT ![s].state = "established"]
  /\ opened' = Append(opened, <<s, sk[s].proc, sk[s].peer>>)
  /\ IF storage[s] = 0 THEN UNCHANGED <<heap, next_id, flow>>
     ELSE /\ heap' = [heap EXCEPT ![storage[s]].id = next_id]
          /\ next_id' = next_id + 1
          /\ flow' = [flow EXCEPT ![s] = [pc |-> "established_2", sock |-> s,
                       peer |-> None, cell |-> storage[s], slot |-> EmptyEvent]]
  /\ UNCHANGED <<env, rules, storage, sent, attempts, denied>>

\* The rest of it: report the stored event and delete it.
Established2(s) ==
  /\ flow[s].pc = "established_2"
  /\ sent' = sent \o submit_event(s, heap[flow[s].cell])
  /\ storage' = DiscardStorage(s)
  /\ flow' = [flow EXCEPT ![s] = Idle]
  /\ heap' = Freed(heap)
  /\ UNCHANGED <<env, rules, next_id, calls, sk, attempts, opened, denied>>

\* The handshake fails, or the connection is shut down and the socket used
\* again (external); no hook runs and a stored event stays.
Disconnect(s) ==
  /\ sk[s].state # "closed" /\ flow[s].pc = "idle"
  /\ sk' = [sk EXCEPT ![s].state = "closed"]
  /\ UNCHANGED <<common, attempts, opened, denied>>

InitOutgoing ==
  /\ sk = [s \in Socks |-> [state |-> "closed", proc |-> None, peer |-> None]]
  /\ attempts = {} /\ opened = <<>> /\ denied = <<>>

OutgoingNext ==
  /\ "outgoing" \in env
  /\ \/ \E p \in Procs, s \in Socks :
          \/ \E a \in Peers : ConnectHook(p, s, a) \/ ConnectIgnored(p, s, a)
          \/ ConnectUnsupported(p, s)
     \/ \E p \in Procs : ConnectProcess(p) \/ ConnectCopy(p) \/ ConnectHook2(p)
     \/ \E s \in Socks : Established(s) \/ Established2(s) \/ Disconnect(s)
=============================================================================
