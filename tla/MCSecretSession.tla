-------------------------- MODULE MCSecretSession ---------------------------
(* SecretSession for TLC: the two workers of one refresh, or a refresh and *)
(* a reload of one worker each.  Of the two leaves the second embeds two   *)
(* references of one provider.                                             *)
EXTENDS SecretSession

CONSTANTS refresh, reload, w1, w2, w3, l1, l2, db, api, vault

Workforce == [w \in Worker |-> IF w = w3 THEN reload ELSE refresh]
Sorted == [o \in Op |-> IF o = refresh THEN <<l1, l2>> ELSE <<l1>>]
References == [l \in {l1, l2} |-> IF l = l1 THEN <<db>> ELSE <<api, db>>]
Routes == [r \in Ref |-> vault]

Pairs == [router |-> {{w1, w2}, {w1, w3}}, resolver |-> {{w1, w2}, {w1, w3}}]
=============================================================================
