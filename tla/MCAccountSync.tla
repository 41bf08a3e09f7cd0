--------------------------- MODULE MCAccountSync ---------------------------
(***************************************************************************)
(* Instance of AccountSync for TLC: one login that is an offline account,  *)
(* an official account or revoked, and two passwords for it.               *)
(***************************************************************************)
EXTENDS AccountSync

CONSTANTS Ann, P1, P2    \* model values

OneLogin == {Ann}
TwoPasswords == {P1, P2}
AnnLists == {{}, {<<Ann, "offline">>}, {<<Ann, "online">>}}
=============================================================================
