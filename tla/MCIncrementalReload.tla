------------------------- MODULE MCIncrementalReload -------------------------
(***************************************************************************)
(* Instances of IncrementalReload for TLC: a mandatory source app that may *)
(* include common, an optional source extra that does, and a text that     *)
(* does not parse.                                                         *)
(***************************************************************************)
EXTENDS IncrementalReload, TLC

CONSTANTS app, extra, common, plain, other, including, broken

LoaderOrder == [s \in Source |-> IF s = app THEN 1 ELSE 2]
Inclusion == [t \in Text |-> IF t = including THEN common ELSE None]

\* app includes common or not, extra does when it exists; common changes, goes, returns.
Contents == [h \in File |-> CASE h = app -> {plain, including, broken, Missing}
                              [] h = extra -> {including, Missing}
                              [] h = common -> {plain, other, Missing}]

\* One source, whose text changes.
OneFile == [h \in File |-> {plain, other}]

Goroutines == Permutations(Proc)
=============================================================================
