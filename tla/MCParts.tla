------------------------------ MODULE MCParts ------------------------------
EXTENDS Parts

CONSTANTS a, b, c, sem

MCThread == {a, b, c}
MCList == {sem}

\* a outranks b and c.
MCLevel == [t \in Thread |-> IF t = a THEN 0 ELSE 1]

MCByte == {<<i, j>> : i, j \in 0..1}

MCTyped == {"A", "["}

\* Two names that begin alike.
MCCommands == {<<"A", "[", "[">>, <<"A", "[", "A">>}

\* The ends of the words, of their halves and of the immediates, and numbers in between.
MCOperands == {0, 1, 2, 7, 8, 15, 16, 100, 127, 128, 129, 200, 240, 254, 255}

\* Numbers of one digit, so that a token leaves nothing behind.
MCDigits == {<<1>>, <<2>>}
=============================================================================
