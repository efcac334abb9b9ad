----------------------------- MODULE MCConfigTxn -----------------------------
(***************************************************************************)
(* Instances of ConfigTxn for TLC: two keys, the first one the target of   *)
(* every self reference, with small payloads and file contents, and a      *)
(* validator that relates the two keys.                                    *)
(***************************************************************************)
EXTENDS ConfigTxn, TLC

CONSTANTS a, b, x, y

Pair(va, vb) == [k \in Key |-> IF k = a THEN va ELSE vb]

\* Everything but a missing SelfKey and the pair (y, x) is valid: a change of
\* either key can turn a valid change of the other into an invalid one.
Valid == {t \in Tree : t[a] # Absent /\ ~(t[a] = y /\ t[b] = x)}

\* A validator that only requires a.
Complete == {t \in Tree : t[a] # Absent}

\* A plain value for a and a self reference for b.
TxnPayload == {Pair(y, Absent), Pair(Absent, SelfRef)}

\* A source that leaves b open or reads it from the provider.
TxnContent == {Pair(x, Absent), Pair(x, SecretRef)}

\* Overrides of one key and of both, one of them with a secret reference.
ScopePayload == {Pair(y, Absent), Pair(x, SecretRef)}
ScopeContent == {Pair(x, Absent)}
SecretContent == {Pair(x, SecretRef)}

Goroutines == Permutations(Proc)
=============================================================================
