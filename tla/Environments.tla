---------------------------- MODULE Environments ----------------------------
(***************************************************************************)
(* Which part of a tree the active environment selects (envhandler), and   *)
(* which keys two environment models both write                            *)
(* (config_environment_strategy.go).                                       *)
(***************************************************************************)
EXTENDS Trees

IsEnvironmentAware(t, env) ==
  \/ env # "" /\ env \in DOMAIN t
  \/ /\ "default" \in DOMAIN t /\ IsDict(t["default"])
     /\ \E k \in DOMAIN t \ {"default"} : IsDict(t[k])

Resolve(t, env) ==
  LET base == IF "default" \in DOMAIN t /\ IsDict(t["default"]) THEN t["default"].map ELSE EmptyTree
  IN IF ~IsEnvironmentAware(t, env) THEN t
     ELSE IF env \notin DOMAIN t \/ ~IsDict(t[env]) THEN base
     ELSE DeepMerge(base, t[env].map)

\* The environments a sectioned layer offers.
SectionNames(t) == {k \in DOMAIN t \ {"default"} : IsDict(t[k])}

\* mixedEnvironmentConflicts: the keys written by both families.
MixedConflicts(writers) ==
  {[key |-> p, sources |-> {writers[p][i].source : i \in DOMAIN writers[p]},
    last |-> writers[p][Len(writers[p])].source] :
     p \in {q \in DOMAIN writers : Cardinality({writers[q][i].family : i \in DOMAIN writers[q]}) > 1}}
=============================================================================
