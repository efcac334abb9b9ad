------------------------------ MODULE Creation ------------------------------
(***************************************************************************)
(* One call of New (config.go), from the options to the returned           *)
(* configuration or the error: Construction decides, SelfConfig reads the  *)
(* project's own settings, and what New opens on the way is closed again   *)
(* when it fails.  What the load does with the sources is left open here:  *)
(* it asks secret providers and ends well or not.                          *)
(*                                                                         *)
(* A scene is everything the call meets: call (its options), disk, home,   *)
(* osenv (SelfConfig), churns (whether they change while New reads them),  *)
(* project (the files and directories of environment_files), types (the    *)
(* secret store types known) and frail (what may break: "watcher", source  *)
(* factories by name).                                                     *)
(***************************************************************************)
EXTENDS SelfConfig, Construction

CONSTANT Scenes

New == "new"      \* the reader that is the call of New

\* A source of environment files lists the directories it searches.
SearchesListed(settings) ==
  "sources" \in DOMAIN settings =>
    \A i \in DOMAIN settings["sources"] :
      settings["sources"][i].type = "environment_files" => settings["sources"][i].search \in Seq(STRING)

\* The options of a call are a sequence, a variable and a file have names.
ScenesAssumption ==
  /\ New \in Readers
  /\ \A files \in Editions : \A f \in files : SearchesListed(f.settings)
  /\ \A s \in Scenes :
       /\ Len(s.call) \in Nat /\ DOMAIN s.call = 1..Len(s.call)
       /\ "" \notin DOMAIN s.osenv
       /\ \A f \in s.disk \cup s.home : SearchesListed(f.settings)
       /\ \A f \in s.project : f.name # ""

ASSUME ScenesAssumption

VARIABLES
  stage,          \* how far New is
  scene,
  o,              \* opts of NewWithContext
  taken,          \* the settings applySelfConfig applied
  router,         \* the secret router, from BuildRouter
  open,           \* what New has opened: [id, collected], collected by the registry
  contacted,      \* providers asked for a secret
  watching,       \* the watcher runs
  result          \* "pending", "config" or "error"

decided == <<o, taken, router>>
held == <<open, contacted, watching>>
creationVars == <<stage, scene, decided, held, result, selfVars>>

NoRouter == [ok |-> TRUE, default |-> "", providers |-> {}]

CreationInit ==
  /\ scene \in Scenes
  /\ stage = "options" /\ o = NoOptions /\ taken = NoSettings /\ router = NoRouter
  /\ open = {} /\ contacted = {} /\ watching = FALSE /\ result = "pending"
  /\ SelfInit(scene.disk, scene.home, scene.osenv, IF scene.churns THEN 0 ELSE MaxChurn)

Goes(sound, to) == stage' = IF sound THEN to ELSE "failing"

(***************************************************************************)
(* Options, one by one, and settings.                                      *)
(***************************************************************************)
Configure ==
  /\ stage = "options" /\ o.applied < Len(scene.call)
  /\ LET option == scene.call[o.applied + 1]
     IN /\ Goes(option # NilOption, "options")
        /\ o' = IF option = NilOption THEN o
                ELSE [ApplyOption(o, option) EXCEPT !.applied = @ + 1]
  /\ UNCHANGED <<scene, taken, router, held, result, selfVars>>

BeginSettings ==
  /\ stage = "options" /\ o.applied = Len(scene.call) /\ stage' = "reading"
  /\ StartRead(New, IF "env" \in o.explicit THEN o.v.env ELSE Unset)
  /\ UNCHANGED <<scene, decided, held, result>>

ReadSettings ==
  /\ stage = "reading" /\ ReadStep(New)
  /\ UNCHANGED <<stage, scene, decided, held, result>>

TakeSettings ==
  /\ stage = "reading" /\ reads[New].at = "done"
  /\ LET read == reads[New].result
         applied == ApplySelfConfig(o, read.settings)
     IN /\ Goes(~read.error /\ applied.ok, "prepare")
        /\ taken' = read.settings
        /\ o' = IF read.error THEN o ELSE applied.o
  /\ EndRead(New)
  /\ UNCHANGED <<scene, router, held, result>>

\* Another reader of the settings, and what else happens on the machine.
Meanwhile ==
  /\ scene.churns /\ stage \in {"options", "reading"}
  /\ \/ \E r \in Readers \ {New} : StartRead(r, Unset) \/ ReadStep(r) \/ EndRead(r)
     \/ Churn
  /\ UNCHANGED <<stage, scene, decided, held, result>>

(***************************************************************************)
(* Environment, secret router and sources.                                 *)
(***************************************************************************)
Prepare ==
  /\ stage = "prepare"
  /\ LET env == ActiveEnvironment(o, Getenv(o.v.env_switcher))
         built == IF o.secrets = NoSecrets THEN NoRouter ELSE BuildRouter(o.secrets, env, scene.types)
     IN /\ Goes(ValidateAndOwnOptions(o) /\ Strategy(o) # "invalid" /\ built.ok, "sources")
        /\ o' = [o EXCEPT !.v.env = env, !.v.environment_strategy = Strategy(o)]
        /\ router' = built
  /\ UNCHANGED <<scene, taken, held, result, selfVars>>

\* A factory of the application builds the loader, which no registry knows.
FromFactory(source) == source.type = "factory"

AppendNext ==
  /\ stage = "sources" /\ o.appended < Len(o.sources)
  /\ LET source == o.sources[o.appended + 1]
         sources == AppendSource(o.loaders, source, scene.project, o.v.env)
     IN /\ \/ Goes(sources.ok, "sources")
           \/ FromFactory(source) /\ source.name \in scene.frail /\ Goes(FALSE, "")
        /\ o' = [o EXCEPT !.appended = @ + 1, !.loaders = sources.loaders]
        /\ open' = IF FromFactory(source) /\ stage' = "sources"
                   THEN open \cup {[id |-> source.name, collected |-> FALSE]} ELSE open
  /\ UNCHANGED <<scene, taken, router, contacted, watching, result, selfVars>>

\* The prefix gets its loader, and the collaborators are validated.
Assemble ==
  /\ stage = "sources" /\ o.appended = Len(o.sources)
  /\ o' = [o EXCEPT !.loaders = EnsureEnvPrefixLoader(o.loaders, o.v.env_prefix)]
  /\ Goes(/\ NilName \notin ExporterRegistry(o.exporters)
          /\ <<>> \notin Range(o.validators) /\ o.v.schema.compiles, "load")
  /\ UNCHANGED <<scene, taken, router, held, result, selfVars>>

(***************************************************************************)
(* The secret stores the load asks, and the end of New.                    *)
(***************************************************************************)
Contact(providers) ==
  /\ contacted' = contacted \cup providers
  /\ open' = open \cup {[id |-> p, collected |-> TRUE] : p \in providers \cap router.providers}

AskProviders ==
  /\ stage = "load"
  /\ \E providers \in SUBSET (router.providers \cup {"caller"}) : Contact(providers)
  /\ UNCHANGED <<stage, scene, decided, watching, result, selfVars>>

Publish ==
  /\ stage = "load"
  /\ stage' = "done" /\ result' = "config" /\ watching' = o.v.dynamic_reloading
  /\ UNCHANGED <<scene, decided, open, contacted, selfVars>>

\* Mutant: the configuration counts as constructed before the watcher has started.
WatchFailsConstructed ==
  /\ stage = "load" /\ o.v.dynamic_reloading /\ "watcher" \in scene.frail
  /\ stage' = "done" /\ result' = "error"
  /\ UNCHANGED <<scene, decided, held, selfVars>>

WatchFails ==
  /\ stage = "load" /\ o.v.dynamic_reloading /\ "watcher" \in scene.frail
  /\ Goes(FALSE, "")
  /\ UNCHANGED <<scene, decided, held, result, selfVars>>

\* The deferred function of New, after an error of any step or of the load:
\* what the registry collected is closed.
Abandon ==
  /\ stage \in {"failing", "load"}
  /\ stage' = "done" /\ result' = "error"
  /\ open' = {r \in open : ~r.collected}
  /\ UNCHANGED <<scene, decided, contacted, watching, selfVars>>

Decide ==
  \/ Configure \/ BeginSettings \/ ReadSettings \/ TakeSettings \/ Meanwhile
  \/ Prepare \/ AppendNext

CreationNext == Decide \/ Assemble \/ AskProviders \/ Publish \/ WatchFails \/ Abandon

CreationSpec == CreationInit /\ [][CreationNext]_creationVars

(***************************************************************************)
(* Properties.                                                             *)
(***************************************************************************)
\* The option of the call that was given last for f, or else the setting, or
\* else the default.
Calls(f) == {i \in DOMAIN scene.call : scene.call[i].set = f}
Chosen(f) ==
  IF Calls(f) # {} THEN scene.call[Max(Calls(f))].to
  ELSE IF SettingName(f) \in DOMAIN taken THEN taken[SettingName(f)] ELSE Defaults[f]

ChosenEnvironment ==
  LET switched == Getenv(Chosen("env_switcher"))
  IN IF Calls("env") = {} /\ switched # "" THEN switched ELSE Chosen("env")

\* A validator turns validation on, and "auto" is settled by the sources.
Combined == {"env", "env_switcher", "validate_on_load", "environment_strategy"}

\* New honours the call before the settings and the settings before the
\* defaults, in whatever order the options are given; and the environment is
\* the one named by the caller, by the switcher variable, by the settings, in
\* that order (config.go, docs/environment.md).
PlanFollowsPrecedence ==
  stage = "load" \/ result = "config" =>
    /\ o.v.env = ChosenEnvironment
    /\ \A f \in DOMAIN Defaults \ Combined : o.v[f] = Chosen(f)

\* The loaders of the caller: those of the last WithLoaders and those added since.
CallersLoaders ==
  FoldLeft(LAMBDA acc, option: IF option.set = "loaders" THEN option.to
                               ELSE IF option.set = "add_loaders" THEN acc \o option.to ELSE acc,
           <<>>, scene.call)

\* The loaders of the caller keep their order, and the variables under the
\* prefix are read once and last, unless the caller has placed a loader for
\* them (config_options.go, docs/environment.md).
LoadersInOrder ==
  stage = "load" \/ result = "config" =>
    LET name == EnvSource(Chosen("env_prefix"))
        auto == {i \in DOMAIN o.loaders : o.loaders[i].auto /\ o.loaders[i].name = name}
        placed == \E i \in DOMAIN CallersLoaders : CallersLoaders[i].name = name /\ ~CallersLoaders[i].auto
    IN /\ (Chosen("env_prefix") # "" /\ ~placed) => auto = {Len(o.loaders)}
       /\ CallersLoaders # <<>> =>
            SelectSeq(o.loaders, LAMBDA l: ~l.auto) = SelectSeq(CallersLoaders, LAMBDA l: ~l.auto)

\* When New returns an error, nothing its registry knows of stays open and no
\* watcher runs; when it returns a configuration, every store it asked is open.
FailedNewLeaksNothing ==
  /\ result = "error" => ~watching /\ \A r \in open : ~r.collected
  /\ result = "config" =>
       \A p \in contacted \cap router.providers : [id |-> p, collected |-> TRUE] \in open

\* Every environment the inventory offers from files brings a file of its own
\* when it is selected, or the selection is refused: none loads as if it had
\* nothing to add; and what it does not offer has no file of its own
\* (config_environments.go, config_environment_files.go).
InventoryLoads ==
  stage = "done" =>
    \A i \in DOMAIN o.sources, env \in {f.name : f \in scene.project} \ {"default"} :
      o.sources[i].type = "environment_files" =>
        LET found == BuildEnvironmentFileLoaders(scene.project, o.sources[i], env)
            own == \E j \in DOMAIN found.loaders : found.loaders[j].name = env
        IN IF env \in DiscoverNamedEnvironments(scene.project, o.sources[i])
           THEN own \/ ~found.ok ELSE ~own
=============================================================================
