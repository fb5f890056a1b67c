----------------------------- MODULE MCRtObjects -----------------------------
EXTENDS RtObjects

CONSTANTS a, b, c

MCThread == {a, b, c}

\* a outranks b, and b outranks c where it matters.
MCLevel == [t \in Thread |-> CASE t = a -> 0 [] t = b -> 1 [] OTHER -> 2]

MCBits == {0, 1}

MCOptions == {[all |-> FALSE, clear |-> TRUE], [all |-> TRUE, clear |-> FALSE]}

\* The error of a thread that is in no call is read by nobody, and the next call
\* that waits resets it.
MCView ==
  <<class, wait, armed, [t \in Thread |-> IF pc[t] = "run" THEN "OK" ELSE err[t]],
    callVars, left, channelVars, eventVars, poolVars, mutexVars>>
=============================================================================
