------------------------------ MODULE MCStores ------------------------------
\* A remote store before a memory store before the process environment, where
\* two keys are one variable.
EXTENDS Stores, TLC

CONSTANT X

RemoteFirst == <<"remote", "memory", "env">>
OneVariable == [k \in Key |-> X]

Symmetry == Permutations(Key)
=============================================================================
