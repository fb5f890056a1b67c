----------------------------- MODULE MCRtKernel -----------------------------
EXTENDS RtKernel

CONSTANTS idle, main, a, b, fifo, byprio

MCThread == {idle, main, a, b}

\* The runs on control and liveness do without b.
MCThread3 == {idle, main, a}

\* main and a share a priority, b preempts them.
MCInitPrio == [t \in Thread |-> IF t = idle THEN 2 ELSE IF t = b THEN 0 ELSE 1]
MCInitTick == [t \in Thread |-> IF t = main THEN 2 ELSE 1]
=============================================================================
