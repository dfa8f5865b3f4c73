---------------------------- MODULE OrderedOutput ----------------------------
(***************************************************************************)
(* What a consumer of owLSM's standard output may rely on: events come in  *)
(* the order in which the hooks submitted them, each at most once, and     *)
(* only events that were submitted.  Events may be lost.                   *)
(***************************************************************************)
EXTENDS Naturals, Sequences

VARIABLES submitted,   \* the number of the last event submitted
          output       \* the numbers of the events written, in order

Init == submitted = 0 /\ output = <<>>

Submit == submitted' = submitted + 1 /\ UNCHANGED output

Newest == IF output = <<>> THEN 0 ELSE output[Len(output)]

Write ==
    /\ Len(output') > Len(output)
    /\ SubSeq(output', 1, Len(output)) = output
    /\ output'[Len(output) + 1] > Newest
    /\ \A i \in Len(output) + 1 .. Len(output') - 1 : output'[i] < output'[i + 1]
    /\ output'[Len(output')] <= submitted
    /\ UNCHANGED submitted

Spec == Init /\ [][Submit \/ Write]_<<submitted, output>>
=============================================================================
