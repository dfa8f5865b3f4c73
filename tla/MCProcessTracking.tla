------------------------- MODULE MCProcessTracking -------------------------
(* Small instances of ProcessTracking for TLC. *)
EXTENDS ProcessTracking, TLC

CONSTANTS init, x, y   \* pids

Setup(o, g, pre, e, n) ==
  [owlsm |-> o, guarded |-> g, preexist |-> pre, env |-> e, tasks |-> n,
   parent |-> [p \in Pids |-> InitPid], verdicts |-> {"ALLOW_EVENT"}]

\* A quiet system with many forks and a rule that kills parents.
QuietSetup == [Setup({}, {}, {}, {}, 4) EXCEPT !.verdicts = Verdicts]

\* owLSM itself is protected and attacked while the ring buffer is full, the
\* LRU evicts and the kernel starts helpers.
NoisySetups ==
  {Setup({o}, {o}, {}, {"ringbuf_full", "tampering", "helpers", "lru_evict"}, 2) :
     o \in {x, y}}

\* A process that may get a second thread, older than owLSM.
ThreadSetups ==
  UNION {{Setup({}, {}, {p}, {"threads"}, 2),
          [Setup({}, {}, {p}, {"threads", "ringbuf_full"}, 1)
             EXCEPT !.verdicts = Verdicts]} : p \in {x, y}}

\* Two processes older than owLSM, one of which is the child of the other.
FamilySetups ==
  {[Setup({}, {}, {x, y}, {"families"}, 1) EXCEPT !.parent[p] = q] :
     <<p, q>> \in {<<x, y>>, <<y, x>>}}

MCSetups == {QuietSetup} \cup NoisySetups \cup ThreadSetups \cup FamilySetups

Symmetry == Permutations({x, y})
=============================================================================
