------------------------------ MODULE MCOverseer ------------------------------
(* Instance of Overseer: startup commands of one line, a command of two lines *)
(* over HTTP, and one of one line from the operator or the account manager.   *)
EXTENDS Overseer

CONSTANTS startup, request, operator    \* model values

ThreeCalls == {startup, request, operator}
OneRequest == {request}
TwoLineRequest == [c \in ThreeCalls |-> IF c = request THEN 2 ELSE 1]
=============================================================================
