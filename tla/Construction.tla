---------------------------- MODULE Construction ----------------------------
(***************************************************************************)
(* What New makes of its options and of the project's own settings before  *)
(* a source is read: the options a caller applies (config_options.go,      *)
(* builder.go), the settings that fill the gaps (config_self.go), the      *)
(* admission of the result (config_option_admission.go), the router of     *)
(* declared secret providers (config_secret_self.go) and the list of       *)
(* sources (config_environment_files.go, config_source_self.go).           *)
(*                                                                         *)
(* An option is [set, to]: the setting it changes and its value.  Settings *)
(* of a file have the same names.  An empty string in a file is a setting  *)
(* that is not there, and "bogus" is a name no parser accepts.             *)
(***************************************************************************)
EXTENDS Integers, Sequences, FiniteSets, SequencesExt

Strategies == {"replace", "shallow", "deep", "append", "prepend", "intersection", "union"}

NilOption == [set |-> "nil", to |-> ""]
NilName == "<nil>"                \* a loader, validator or exporter that is nil
NoSchema == [compiles |-> TRUE, requires |-> {}]
NoHook == "none"
NoSecrets == [none |-> TRUE]

Defaults ==
  [env |-> "", env_switcher |-> "", env_prefix |-> "", sysenv_fallback |-> FALSE,
   merge_strategy |-> "deep", merge_strategy_map |-> [p \in {} |-> ""],
   use_env_expander |-> TRUE, use_type_casting |-> TRUE, sensitive_paths |-> {},
   validate_on_load |-> FALSE, strict_validation |-> TRUE, reject_unknown_keys |-> FALSE,
   schema |-> NoSchema, dynamic_reloading |-> FALSE, freeze_on_load |-> FALSE,
   on_error |-> "raise", environment_strategy |-> "auto", environment_conflict_policy |-> "last_wins",
   startup_timeout |-> 60, operation_timeout |-> 30, reload_debounce |-> 150,
   secret_resolution_concurrency |-> 4, debug_mode |-> FALSE]

NoOptions ==
  [v |-> Defaults, explicit |-> {}, loaders |-> <<>>, hooks |-> <<>>, validators |-> <<>>,
   exporters |-> <<>>, secretHook |-> NoHook, secretResolver |-> NoHook, policySet |-> FALSE,
   sources |-> <<>>, applied |-> 0, appended |-> 0, secrets |-> NoSecrets]

(***************************************************************************)
(* Options.                                                                *)
(***************************************************************************)
Put(o, f, x) == [o EXCEPT !.v[f] = x, !.explicit = @ \cup {f}]

EnvSource(prefix) == "environment:" \o prefix
EnvLoader(prefix) == [name |-> EnvSource(prefix), envFile |-> FALSE, auto |-> TRUE]

WithEnv(o, env) == Put(Put(o, "env", env), "env_switcher", "")

\* Mutant: a switcher named after WithEnv is recorded all the same.
WithEnvSwitcherAlways(o, variable) ==
  [Put(o, "env_switcher", variable) EXCEPT !.explicit = (@ \cup {"env_switcher"}) \ {"env"}]

WithEnvSwitcher(o, variable) == IF "env" \in o.explicit THEN o ELSE Put(o, "env_switcher", variable)

WithEnvPrefix(o, prefix) ==
  LET named == Put(o, "env_prefix", prefix)
      there == \E i \in DOMAIN o.loaders : o.loaders[i].name = EnvSource(prefix)
  IN IF prefix = "" \/ there THEN named ELSE [named EXCEPT !.loaders = Append(@, EnvLoader(prefix))]

WithLoaders(o, loaders) == [o EXCEPT !.loaders = loaders, !.explicit = @ \cup {"loaders"}]
AddLoaders(o, loaders) == WithLoaders(o, o.loaders \o loaders)
WithHook(o, h) == [o EXCEPT !.hooks = Append(@, h)]
WithExporter(o, format) == [o EXCEPT !.exporters = Append(@, format)]
WithValidator(o, p) == [Put(o, "validate_on_load", TRUE) EXCEPT !.validators = Append(@, p)]
WithSecretHook(o, h) == [o EXCEPT !.secretHook = h, !.explicit = @ \cup {"secret_hook"}]
WithSecretResolver(o, r) == [o EXCEPT !.secretResolver = r, !.explicit = @ \cup {"secret_hook"}]
WithConflictPolicy(o, policy) == [Put(o, "environment_conflict_policy", policy) EXCEPT !.policySet = TRUE]

ApplyOption(o, option) ==
  LET f == option.set
      x == option.to
  IN CASE f = "env" -> WithEnv(o, x)
       [] f = "env_switcher" -> WithEnvSwitcher(o, x)
       [] f = "env_prefix" -> WithEnvPrefix(o, x)
       [] f = "loaders" -> WithLoaders(o, x)
       [] f = "add_loaders" -> AddLoaders(o, x)
       [] f = "hook" -> WithHook(o, x)
       [] f = "exporter" -> WithExporter(o, x)
       [] f = "validator" -> WithValidator(o, x)
       [] f = "secret_hook" -> WithSecretHook(o, x)
       [] f = "secret_resolver" -> WithSecretResolver(o, x)
       [] f = "environment_conflict_policy" -> WithConflictPolicy(o, x)
       [] OTHER -> Put(o, f, x)

(***************************************************************************)
(* The Builder appends the options that each of its methods stands for:    *)
(* a call is [do, with].                                                   *)
(***************************************************************************)
To(setting, x) == [set |-> setting, to |-> x]

Switches ==
  [EnableDynamicReloading |-> To("dynamic_reloading", TRUE), DisableDynamicReloading |-> To("dynamic_reloading", FALSE),
   EnableEnvExpander |-> To("use_env_expander", TRUE), DisableEnvExpander |-> To("use_env_expander", FALSE),
   EnableTypeCasting |-> To("use_type_casting", TRUE), DisableTypeCasting |-> To("use_type_casting", FALSE),
   EnableDebug |-> To("debug_mode", TRUE), EnableFreezeOnLoad |-> To("freeze_on_load", TRUE)]

Methods ==
  [WithEnv |-> "env", AddLoaders |-> "add_loaders", WithReloadDebounce |-> "reload_debounce",
   WithSensitivePaths |-> "sensitive_paths", WithMergeStrategy |-> "merge_strategy",
   WithExporter |-> "exporter", WithValidator |-> "validator", WithHook |-> "hook"]

WithSchemaValidation(schema, strict) ==
  <<To("schema", schema), To("validate_on_load", TRUE), To("strict_validation", strict)>>

Appended(method, x) ==
  IF method \in DOMAIN Switches THEN <<Switches[method]>>
  ELSE IF method = "WithSchemaValidation" THEN WithSchemaValidation(x.schema, x.strict)
  ELSE <<To(Methods[method], x)>>

Build(calls) == FlattenSeq([i \in DOMAIN calls |-> Appended(calls[i].do, calls[i].with)])

(***************************************************************************)
(* Settings of the project fill what no option set.                        *)
(***************************************************************************)
SettingName(f) == IF f = "env" THEN "default_environment" ELSE f

Parsed == {"merge_strategy", "environment_strategy", "environment_conflict_policy", "on_error",
           "reload_debounce", "startup_timeout", "operation_timeout"}

ApplySelfConfig(o, s) ==
  LET used == {f \in DOMAIN Defaults \ o.explicit : SettingName(f) \in DOMAIN s}
      bogus == \/ \E f \in used \cap Parsed : s[f] = "bogus"
               \/ "merge_strategy_map" \in used /\ "bogus" \in Range(s["merge_strategy_map"])
               \/ "logger" \notin o.explicit /\ "log_level" \in DOMAIN s /\ s["log_level"] = "bogus"
      sources == IF "sources" \in DOMAIN s /\ "loaders" \notin o.explicit THEN s["sources"] ELSE <<>>
      secrets == IF "secrets" \in DOMAIN s /\ "secret_hook" \notin o.explicit THEN s["secrets"] ELSE NoSecrets
  IN [ok |-> ~bogus,
      o |-> [o EXCEPT !.v = [f \in DOMAIN Defaults |-> IF f \in used THEN s[SettingName(f)] ELSE @[f]],
                      !.policySet = @ \/ "environment_conflict_policy" \in used,
                      !.sources = sources, !.secrets = secrets]]

(***************************************************************************)
(* Admission of the effective options.                                     *)
(***************************************************************************)
NamesNil(names) == NilName \in Range(names)

ValidateAndOwnOptions(o) ==
  /\ o.v.on_error \in {"raise", "warn", "ignore"}
  /\ o.v.startup_timeout >= 0 /\ o.v.operation_timeout >= 0 /\ o.v.reload_debounce >= 0
  /\ o.v.secret_resolution_concurrency >= 1
  /\ ~(o.v.freeze_on_load /\ o.v.dynamic_reloading)
  /\ o.v.merge_strategy \in Strategies /\ Range(o.v.merge_strategy_map) \subseteq Strategies
  /\ <<>> \notin DOMAIN o.v.merge_strategy_map /\ <<>> \notin o.v.sensitive_paths
  /\ \A i \in DOMAIN o.loaders : o.loaders[i].name # NilName
  /\ \A i \in DOMAIN o.hooks : o.hooks[i].kind # NilName
  /\ "secret_hook" \in o.explicit =>
       LET h == IF o.secretResolver # NoHook THEN o.secretResolver ELSE o.secretHook
       IN h \notin {NoHook, NilName}

\* The hook the caller supplies, a managed resolver before a plain one.
CallersSecretHook(o) == "secret_hook" \in o.explicit

\* ResolveEnv: an explicit name, else a non-empty OS variable, else the fallback.
ResolveEnv(isSet, explicit, variable, fallback) ==
  IF isSet THEN explicit ELSE IF variable # "" THEN variable ELSE fallback

ActiveEnvironment(o, variable) == ResolveEnv("env" \in o.explicit, o.v.env, variable, o.v.env)

EnvironmentStrategies == {"auto", "sectioned", "named_files", "hybrid"}
ConflictPolicies == {"error", "warn", "last_wins"}

(***************************************************************************)
(* resolveEnvironmentStrategy: o has the fields strategy, policy,          *)
(* policySet (given explicitly), envFiles (an environment_files source is  *)
(* declared) and loaders (WithLoaders was used).  It returns the strategy, *)
(* or "invalid".                                                           *)
(***************************************************************************)
ResolveEnvironmentStrategy(o) ==
  LET strategy == IF o.strategy = "auto" /\ o.envFiles THEN "named_files" ELSE o.strategy
      refused ==
        \/ o.strategy \notin EnvironmentStrategies \/ o.policy \notin ConflictPolicies
        \/ strategy = "sectioned" /\ o.envFiles
        \/ strategy \in {"named_files", "hybrid"} /\ ~o.envFiles /\ ~o.loaders
        \/ strategy = "hybrid" /\ ~o.policySet
  IN IF refused THEN "invalid" ELSE strategy

DeclaresEnvironmentFiles(o) == \E i \in DOMAIN o.sources : o.sources[i].type = "environment_files"

Strategy(o) ==
  ResolveEnvironmentStrategy(
    [strategy |-> o.v.environment_strategy, policy |-> o.v.environment_conflict_policy,
     policySet |-> o.policySet, envFiles |-> DeclaresEnvironmentFiles(o),
     loaders |-> "loaders" \in o.explicit])

(***************************************************************************)
(* The router of declared secret providers: an alias per provider, and the *)
(* default for unqualified references in the active environment.           *)
(***************************************************************************)
RouterDefault(secrets, env) ==
  IF env \in DOMAIN secrets.environment_defaults THEN secrets.environment_defaults[env]
  ELSE secrets.default_provider

BuildRouter(secrets, env, types) ==
  LET aliases == DOMAIN secrets.providers
      default == RouterDefault(secrets, env)
  IN [ok |-> /\ aliases # {} /\ \A a \in aliases : secrets.providers[a] \in types
             /\ Range(secrets.environment_defaults) \subseteq aliases
             /\ default \in aliases \cup {""},
      default |-> default, providers |-> aliases]

(***************************************************************************)
(* Sources.  project is a set of [dir, name, regular]: the files, and the  *)
(* directories that bear a file's name, where environment_files searches.  *)
(***************************************************************************)
NoFile == [ok |-> TRUE, loaders |-> <<>>]
Refused == [ok |-> FALSE, loaders |-> <<>>]

UnsafeEnvironmentName(env) == env \in {"..", " "}

\* The first search directory that has something of that name decides.
FindEnvironmentFile(project, dirs, name) ==
  LET Here(d) == {f \in project : f.dir = d /\ f.name = name}
      hits == {i \in DOMAIN dirs : Here(dirs[i]) # {}}
      first == CHOOSE i \in hits : \A j \in hits : i <= j
  IN IF hits = {} THEN NoFile
     ELSE IF \E f \in Here(dirs[first]) : ~f.regular THEN Refused
     ELSE [ok |-> TRUE, loaders |-> <<[name |-> name, envFile |-> TRUE, auto |-> FALSE]>>]

BuildEnvironmentFileLoaders(project, source, env) ==
  LET shared == FindEnvironmentFile(project, source.search, "default")
      selected == FindEnvironmentFile(project, source.search, env)
  IN IF ~shared.ok \/ (source.default_required /\ shared.loaders = <<>>) THEN Refused
     ELSE IF env = "" THEN shared
     ELSE IF UnsafeEnvironmentName(env) \/ ~selected.ok THEN Refused
     ELSE IF source.environment_required /\ selected.loaders = <<>> THEN Refused
     ELSE [ok |-> TRUE, loaders |-> shared.loaders \o selected.loaders]

\* Mutant: the listing ends with the first search directory there is.
DiscoverInFirst(project, source) ==
  {f.name : f \in {g \in project : /\ g.dir = source.search[1] /\ g.regular
                                   /\ g.name # "default" /\ ~UnsafeEnvironmentName(g.name)}}

DiscoverNamedEnvironments(project, source) ==
  {f.name : f \in {g \in project : /\ g.dir \in Range(source.search) /\ g.regular
                                   /\ g.name # "default" /\ ~UnsafeEnvironmentName(g.name)}}

AppendSource(loaders, source, project, env) ==
  CASE source.type = "environment_files" ->
         LET built == BuildEnvironmentFileLoaders(project, source, env)
         IN [built EXCEPT !.loaders = loaders \o @]
    [] source.type = "environment" ->
         IF source.name = "" THEN Refused
         ELSE [ok |-> TRUE, loaders |-> IF \E i \in DOMAIN loaders : loaders[i].name = EnvSource(source.name)
                                        THEN loaders ELSE Append(loaders, EnvLoader(source.name))]
    [] source.type = "unknown" -> Refused
    [] OTHER -> [ok |-> source.name # "", loaders |->
                   Append(loaders, [name |-> source.name, envFile |-> FALSE, auto |-> FALSE])]

\* Mutant: a loader of the prefix that is there already keeps its place.
EnsureSomewhere(loaders, prefix) ==
  IF prefix = "" \/ \E i \in DOMAIN loaders : loaders[i].name = EnvSource(prefix) THEN loaders
  ELSE Append(loaders, EnvLoader(prefix))

\* The automatic loader of the prefix goes last; the caller's own stays.
EnsureEnvPrefixLoader(loaders, prefix) ==
  LET at == {i \in DOMAIN loaders : loaders[i].name = EnvSource(prefix)}
      first == CHOOSE i \in at : \A j \in at : i <= j
  IN IF prefix = "" THEN loaders
     ELSE IF at = {} THEN Append(loaders, EnvLoader(prefix))
     ELSE IF ~loaders[first].auto THEN loaders
     ELSE Append(RemoveAt(loaders, first), EnvLoader(prefix))

ExporterRegistry(exporters) == {"json", "yaml", "toml"} \cup Range(exporters)
=============================================================================
