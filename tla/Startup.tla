------------------------------ MODULE Startup -------------------------------
(***************************************************************************)
(* New with the load it makes, and the use of what it returned: Creation   *)
(* decides, Layers loads, Introspection looks.  Every step is a step of    *)
(* Creation or leaves its variables alone.                                 *)
(*                                                                         *)
(* A scene says more of what the call meets: store (provider -> the value  *)
(* it has), model (the type parameter T), files (those that can be         *)
(* included), and sysenv, intended and assignments, what the caller does   *)
(* once New has returned.                                                  *)
(***************************************************************************)
EXTENDS Introspection, Creation

CONSTANT EnvReferences    \* leaves that name an OS variable -> that variable

loaded == <<vars, copied, decoding>>
allVars == <<creationVars, loaded>>

Init ==
  /\ CreationInit /\ LoadInit /\ NothingViewed /\ opts = Missing
  /\ surroundings = [sysenv |-> scene.sysenv, intended |-> scene.intended, assignments |-> scene.assignments]

(***************************************************************************)
(* The hook chain in the order it is registered, and the plan of the load. *)
(***************************************************************************)
Expander ==
  LET known == {n \in DOMAIN EnvReferences : EnvReferences[n] \in DOMAIN osenv}
  IN [kind |-> "global", at |-> <<>>, map |-> [n \in known |-> Leaf(osenv[EnvReferences[n]])]]

Caster == [kind |-> "global", at |-> <<>>, map |-> Numerals]

Hooks ==
  (IF o.v.use_env_expander THEN <<Expander>> ELSE <<>>)
  \o (IF o.v.use_type_casting THEN <<Caster>> ELSE <<>>) \o o.hooks

Provider(n) == IF Placeholders[n].provider = "" THEN router.default ELSE Placeholders[n].provider

\* A hook of the caller, the router's store, or the reference as it stands.
Resolution(n) ==
  IF CallersSecretHook(o) THEN scene.store["caller"]
  ELSE IF o.secrets = NoSecrets THEN n
  ELSE IF Provider(n) \in router.providers \cap DOMAIN scene.store THEN scene.store[Provider(n)]
  ELSE Unresolvable

LoadPlan(loaders) ==
  [hooks |-> Hooks, resolve |-> [n \in DOMAIN Placeholders |-> Resolution(n)],
   casting |-> o.v.use_type_casting, validate |-> o.v.validate_on_load,
   strict |-> o.v.strict_validation, rejectUnknown |-> o.v.reject_unknown_keys,
   model |-> scene.model, schema |-> o.v.schema.requires, validators |-> o.validators,
   merger |-> [default |-> o.v.merge_strategy, paths |-> o.v.merge_strategy_map],
   env |-> o.v.env, strategy |-> o.v.environment_strategy, policy |-> o.v.environment_conflict_policy,
   onError |-> o.v.on_error, sources |-> loaders, declared |-> o.v.sensitive_paths,
   frozen |-> o.v.freeze_on_load, sysenvFallback |-> o.v.sysenv_fallback, files |-> scene.files]

AssembleLoad ==
  /\ Assemble /\ opts' = LoadPlan(o'.loaders)
  /\ UNCHANGED <<surroundings, next, phase, layers, writers, planError, conflicts, tracker, merged, raw, live,
                 sensitive, before, validatedModel, sets, copied, decoding>>

(***************************************************************************)
(* The load, and the secret stores it asks.                                *)
(***************************************************************************)
\* The stores that the references left by the hooks are routed to.
Asked ==
  LET named == ReferenceProviders(Dict(AfterHooks), router.default)
  IN IF CallersSecretHook(o) THEN IF named = {} THEN {} ELSE {"caller"}
     ELSE named \cap router.providers

Load ==
  /\ stage = "load" /\ (LoadStep \/ RefuseShape \/ Validate)
  /\ UNCHANGED <<creationVars, copied, decoding>>

ResolveSecrets ==
  /\ AskProviders
  /\ \/ Materialize /\ contacted' = contacted \cup Asked
     \/ ResolutionFails /\ contacted' \subseteq contacted \cup Asked
  /\ UNCHANGED <<copied, decoding>>

\* New returns the configuration that was loaded, or an error.
Return ==
  /\ \/ phase = "live" /\ (Publish \/ WatchFails)
     \/ (stage = "load" => phase = "failed") /\ Abandon
  /\ UNCHANGED loaded

Use ==
  /\ result = "config"
  /\ (ViewStep \/ (SetKey /\ UNCHANGED <<copied, decoding>>))
  /\ UNCHANGED creationVars

\* New has returned, and the caller may leave it at that.
Returned == stage = "done" /\ UNCHANGED allVars

Next ==
  \/ Decide /\ UNCHANGED loaded
  \/ AssembleLoad \/ Load \/ ResolveSecrets \/ Return \/ Use \/ Returned

Spec == Init /\ [][Next]_allVars

(***************************************************************************)
(* Properties.                                                             *)
(***************************************************************************)
\* No hook of the application is given a resolved secret, and a reference that
\* a hook makes up is resolved like one of the sources, whatever kinds of hooks
\* are registered in which order (config.go, hook/processor.go): "seen" is what
\* the hooks of the scenes make of a secret.
SecretsLast ==
  phase = "live" =>
    /\ ~Holds(Dict(live), {Leaf("seen")})
    /\ \A n \in DOMAIN Placeholders : opts.resolve[n] # n => ~Holds(Dict(live), {n})
=============================================================================
