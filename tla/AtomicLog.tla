----------------------------- MODULE AtomicLog ------------------------------
(* What the operation log promises its callers: a sequence of operations,  *)
(* extended and rewound at its end, one operation at a time; and to its    *)
(* readers a list of the operations in it, sorted by time.                 *)
EXTENDS Naturals, Sequences

CONSTANT Op      \* the operations, numbered by time

VARIABLES
    log,         \* the published operations, in the order of publication
    listed       \* what a reader finds

\* The list has the operations of the log, the older first.
Lists(list, ops) ==
    /\ {list[i] : i \in 1..Len(list)} = {ops[i] : i \in 1..Len(ops)}
    /\ \A i, j \in 1..Len(list) : i < j => list[i] < list[j]

Append1 == \E o \in Op : log' = Append(log, o)

Pop1 == log # <<>> /\ log' = SubSeq(log, 1, Len(log) - 1)

Init == log = <<>> /\ listed = <<>>

Next == (Append1 \/ Pop1) /\ Lists(listed', log')

Spec == Init /\ [][Next]_<<log, listed>>
=============================================================================
