--------------------------- MODULE MCMinerWorkers ---------------------------
\* MinerWorkers for TLC: a GPU and a CPU worker alone, against a node and against a pool, with a
\* template, a second command and the last one; and two workers of one queue, which are joined in
\* turn, with one command before the last.
EXTENDS MinerWorkers

CONSTANTS c1, g1

Session(full, crew, posts) == [full |-> full, crew |-> crew, posts |-> posts]

MCSessions ==
    {Session(full, crew, 3) : full \in BOOLEAN, crew \in {{g1}, {c1}}}
      \cup {Session(TRUE, {g1, c1}, 2)}
=============================================================================
