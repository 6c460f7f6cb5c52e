----------------------- MODULE MCExternalAssignments -----------------------
EXTENDS ExternalAssignments, TLC

CONSTANTS a1, a2, c1

\* Slot c1 belongs to the first agent, any other slot to the second.
OneEach == [c \in Chans |-> IF c = c1 THEN a1 ELSE a2]

\* Both slots for the first agent: an old stream and its successor.
Reconnect == [c \in Chans |-> a1]

\* Two lists that differ whatever the ceiling.
PlainLists == {<< >>, <<"x">>, <<"y">>}

\* As long as the ceiling or longer, with a refused spec among the others or alone.
MixedLists == {<< >>, <<"bad">>, <<"x", "y">>, <<"bad", "y">>}

=============================================================================
