--------------------------- MODULE TcpConnections ---------------------------
(***************************************************************************)
(* The network hooks of owLSM: outgoing and incoming connections, each in  *)
(* the environments in which its guarantees differ.                        *)
(***************************************************************************)
EXTENDS TcpOutgoing, TcpIncoming, TLC

vars == <<common, outgoing, incoming>>

Init == InitCommon /\ InitOutgoing /\ InitIncoming

Next ==
  \/ OutgoingNext /\ UNCHANGED incoming
  \/ IncomingNext /\ UNCHANGED outgoing

Spec == Init /\ [][Next]_vars

Symmetry == Permutations(Procs) \cup Permutations(Peers)

-----------------------------------------------------------------------------
\* Properties.

Reports == DOMAIN sent

\* What a report is about.
Shape(r) == <<r.sock, r.proc, r.peer>>

\* The reports of calls that were, and that were not, allowed.
Allowed == {i \in Reports : ~Blocks(sent[i].action)}
Refused == {i \in Reports : Blocks(sent[i].action)}

\* The k-th of these reports is about the k-th entry of the log, and there are
\* no others.
Follows(log, reports) ==
  /\ Len(log) = Cardinality(reports)
  /\ \A i \in reports : log[Cardinality(reports \cap 1 .. i)] = Shape(sent[i])

InHook == \E f \in Flows : flow[f].pc \in MidHook

Excludes == \E x \in Procs \X Peers : rules[x] = "EXCLUDE_EVENT"

\* A program that connects without polling gets, if no rule excludes events,
\* exactly one report for every connection that is established and one for every
\* attempt that is refused, in the order in which they happened, with the process
\* and the address of that attempt and not of an earlier one on the same socket.
OutgoingIsExact ==
  "outgoing" \in env /\ env \cap {"poll", "ignored", "overlap"} = {} /\ ~Excludes /\ ~InHook =>
    Follows(opened, Allowed) /\ Follows(denied, Refused)

\* The two hooks of incoming connections never wait for each other: a tracker
\* in which both flags are set is being judged.
PairIsJudged ==
  "incoming" \in env => \A s \in Socks :
    storage[s] # 0 /\ heap[storage[s]].accept /\ heap[storage[s]].request =>
      \E f \in Flows : flow[f].pc \in MidHook /\ flow[f].cell = storage[s]

\* A connection that a rule excludes is not reported.  This does not hold (README,
\* section 6): the stored event never gets the action that the copy was given.
ExcludedIsSilent ==
  \A i \in Reports : <<sent[i].proc, sent[i].peer>> \in DOMAIN rules =>
    rules[<<sent[i].proc, sent[i].peer>>] # "EXCLUDE_EVENT"

\* A report is about something that happened.  When hooks do not overlap, a
\* report about an outgoing connection names a process and an address that were
\* used together on that very socket, and when they do the address, and the
\* process if there is one, were used on it.  When hooks do not overlap, an
\* incoming report pairs a process that called accept() on the socket with a
\* SYN that it received, and no SYN is reported twice, whatever the backlog
\* and however many processes accept.
ReportsAreReal ==
  /\ "outgoing" \in env /\ "overlap" \notin env => \A i \in Reports : Shape(sent[i]) \in attempts
  /\ "outgoing" \in env => \A i \in Reports :
       /\ \E p \in Procs : <<sent[i].sock, p, sent[i].peer>> \in attempts
       /\ sent[i].proc = None \/ \E a \in Peers : <<sent[i].sock, sent[i].proc, a>> \in attempts
  /\ "incoming" \in env /\ "overlap" \notin env =>
       /\ \A i \in Reports : <<sent[i].sock, sent[i].proc>> \in asked
       /\ \A a \in Peers : Cardinality({i \in Reports : sent[i].peer = a}) <= syns[a]

\* A server that handles one connection at a time, and on whose socket none
\* has been refused or has failed, accepts no connection that was not judged
\* and, unless a rule excludes it, reported exactly once, as its own.
SerialIsExact ==
  "incoming" \in env /\ env \cap {"overlap", "backlog", "ignored"} = {} =>
    \A c \in delivered : c[1] \notin upset =>
      /\ ~Blocks(rules[<<c[2], c[3]>>])
      /\ Cardinality({i \in Reports : Shape(sent[i]) = c}) =
           IF rules[<<c[2], c[3]>>] = "EXCLUDE_EVENT" THEN 0 ELSE 1

\* A connection that was reported as blocked for a process is not handed to
\* it.  This does not hold (README, section 6): the client repeats its SYN.
BlockedIsNotDelivered ==
  \A i \in Reports : Blocks(sent[i].action) => Shape(sent[i]) \notin delivered
=============================================================================
