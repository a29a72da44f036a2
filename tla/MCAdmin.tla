-------------------------------- MODULE MCAdmin --------------------------------
EXTENDS AdminCon

CONSTANTS c1, c2

MCContents == {[size |-> 1, compiles |-> TRUE], [size |-> 1, compiles |-> FALSE]}
MCUsernames == {<<1>>, <<2>>}
MCPasswords == {<<>>, <<1>>}
MCUsername == <<1>>
MCPassword == <<1>>
MCChallenge == [c \in Conns |-> IF c = c1 THEN <<1>> ELSE <<2>>]
=============================================================================
