------------------------------ MODULE MCServer ------------------------------
(* Constants for TLC: a careful user, and somebody else at another address. *)
EXTENDS Server

CONSTANTS owner, other, k1, k2, k3

MCTabs == {owner, other}
MCClient == [t \in MCTabs |-> <<t, "browser">>]
MCIP == [c \in {<<t, "browser">> : t \in MCTabs} |-> c[1]]
MCTokens == {k1, k2, k3}
MCCareful == {owner}
=============================================================================
