-------------------------- MODULE MCMinecraftLogins --------------------------
(***************************************************************************)
(* Instances of MinecraftLogins for TLC: two users, one of whom may become *)
(* an admin, who compete for two logins with a limit of one.  In the first *)
(* Ann has two ChatHandlers and Bob one, two of them in a conversation at  *)
(* the same time; in the second each has one.                              *)
(***************************************************************************)
EXTENDS MinecraftLogins, TLC

CONSTANTS Ann, Bob, AnnChat, AnnOther, BobChat, L1, L2    \* model values

Users == {Ann, Bob}
AnnChats == {AnnChat, AnnOther}
ThreeChats == {AnnChat, AnnOther, BobChat}
TwoChats == {AnnChat, BobChat}
ThreeChatsOf == [h \in ThreeChats |-> IF h \in AnnChats THEN Ann ELSE Bob]
TwoChatsOf == [h \in TwoChats |-> IF h \in AnnChats THEN Ann ELSE Bob]
OneEach == [a \in Users |-> 1]
Tagged == {Bob}
TwoLogins == {L1, L2}
LoginSymmetry == Permutations(TwoLogins)
ChatLoginSymmetry == Permutations(AnnChats) \cup Permutations(TwoLogins)

\* Bound: at most two conversations are open, which is what every race needs.
TwoOpen == Cardinality({h \in Handlers : conv[h] # Menu}) <= 2
=============================================================================
