--------------------------- MODULE MCQueryMemory ---------------------------
\* Instances of QueryMemory for TLC.
EXTENDS QueryMemory, TLC

Direct1 == [kind |-> "direct", slots |-> {1}, size |-> 1]
Direct2 == [kind |-> "direct", slots |-> {2}, size |-> 2]
Vector12 == [kind |-> "vector", slots |-> {1, 2}, size |-> 2]
Scalar1 == [kind |-> "scalar", slots |-> {1}, size |-> 1]

\* One projection of views only and one of all three kinds, whose sparse form
\* reads a gathered column again.
MCPlans == {<<Direct1, Direct2>>, <<Direct1, Vector12, Scalar1>>}

\* The system hands out the lowest free address: reuse comes at once.
MCAllocator(S) == {b \in Buffer : b \notin S /\ \A c \in Buffer \ S : b <= c}

\* An odd size, an aligned one that then leaves a gap, and a large block.
MCRequest == {[size |-> 3, alignment |-> 1], [size |-> 3, alignment |-> 2], [size |-> 6, alignment |-> 1]}

Symmetry == Permutations(Worker) \cup Permutations(Arena)
=============================================================================
