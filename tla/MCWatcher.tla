------------------------------ MODULE MCWatcher ------------------------------
(***************************************************************************)
(* Instances of Watcher for TLC: one source, which may include a file of   *)
(* another directory, edited while the watcher and another goroutine       *)
(* reload it.                                                              *)
(***************************************************************************)
EXTENDS Watcher, TLC

CONSTANTS app, common, plain, other, including, broken, near, far

OneLoader == [s \in Source |-> 1]
Inclusion == [t \in Text |-> IF t = including THEN common ELSE None]
Directories == [h \in File |-> IF h = app THEN near ELSE far]

Contents == [h \in File |-> IF h = app THEN {plain, including, broken, Missing}
                                       ELSE {plain, other}]
\* A debounce interval, and none with the include in a directory that is refused.
DebounceAndRefusal == {[immediate |-> FALSE, refused |-> {}], [immediate |-> TRUE, refused |-> {far}]}
=============================================================================
