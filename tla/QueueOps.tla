------------------------------ MODULE QueueOps ------------------------------
(***************************************************************************)
(* The in-order view of the run queue: a sequence q of tasks and a         *)
(* function vr giving each its vruntime.                                   *)
(***************************************************************************)
EXTENDS Naturals, Sequences

\* q with t inserted behind its first p tasks.
Insert(q, p, t) ==
    [k \in 1..(Len(q) + 1) |-> IF k <= p THEN q[k]
                               ELSE IF k = p + 1 THEN t ELSE q[k - 1]]

\* The gaps a task of vruntime v may land in.  The descent of a search tree
\* ends at a null link both of whose in-order neighbours it has compared with:
\* it went right of the one before, left of the one behind.  A queue in order
\* has exactly one such gap; one whose keys were changed while queued may have
\* several, and the shape of the tree decides.
Gaps(q, vr, v) ==
    {p \in 0..Len(q) : /\ p > 0 => vr[q[p]] <= v
                       /\ p < Len(q) => v < vr[q[p + 1]]}

Elements(q) == {q[i] : i \in 1..Len(q)}
NoRepeats(q) == \A i, j \in 1..Len(q) : q[i] = q[j] => i = j
InOrder(q, vr) == \A i, j \in 1..Len(q) : i < j => vr[q[i]] <= vr[q[j]]
=============================================================================
