----------------------------- MODULE SelfConfig -----------------------------
(***************************************************************************)
(* Reading the project's own settings (selfconfig/reader.go): discovery of *)
(* the base file and of the overlay for the selected environment, and the  *)
(* process-wide cache of what was read.                                    *)
(*                                                                         *)
(* A file is [family, extension, env, settings], env being "" for a base   *)
(* file; settings map field names to values, nested fields under one name  *)
(* each.  A parse error is a file whose settings are Unparsable.  Reads of  *)
(* several goroutines interleave with edits, changes of the environment    *)
(* variables and ClearCache.                                               *)
(***************************************************************************)
EXTENDS Naturals, FiniteSets

CONSTANTS
  Readers,        \* goroutines that read settings
  Editions,       \* contents the project directory may be given: sets of files
  Values,         \* values a switcher variable may be given
  MaxChurn        \* bound on edits, variable changes and cache clears

VARIABLES
  disk,           \* the files of the project directory
  home,           \* the files of ~/.config/confii
  osenv,          \* environment variables that are set: name -> value
  cache,          \* cache: explicit environment or Unset -> entry
  reads,          \* the read each reader is in
  clean,          \* history: nothing was disturbed since the last quiet clear
  churn           \* disturbances so far (bound)

selfVars == <<disk, home, osenv, cache, reads, clean, churn>>

Unset == "<unset>"
NoSettings == [none |-> TRUE]
Unparsable == [unparsable |-> TRUE]

TrimSpace(v) == IF v = " " THEN "" ELSE v
Getenv(name) == IF name \in DOMAIN osenv THEN osenv[name] ELSE ""

Field(settings, f) == IF f \in DOMAIN settings THEN settings[f] ELSE ""

(***************************************************************************)
(* Discovery.  A directory has at most one base file; an overlay follows   *)
(* the family and the extension of its base.                               *)
(***************************************************************************)
Ok(settings) == [error |-> FALSE, settings |-> settings]
Error == [error |-> TRUE, settings |-> NoSettings]

BaseFiles(files) == {f \in files : f.env = ""}
Overlays(files, env) == {f \in files : f.env = env}

Over(base, overlay) ==
  [k \in DOMAIN base \cup DOMAIN overlay |-> IF k \in DOMAIN overlay THEN overlay[k] ELSE base[k]]

\* Settings that are maps are merged in turn, the others replaced; a list is replaced.
MergeSecrets(base, overlay) ==
  [providers |-> Over(base.providers, overlay.providers),
   environment_defaults |-> Over(base.environment_defaults, overlay.environment_defaults),
   default_provider |-> IF overlay.default_provider = "" THEN base.default_provider
                        ELSE overlay.default_provider]

MergeSettingsMaps(base, overlay) ==
  [f \in DOMAIN base \cup DOMAIN overlay |->
     IF f \notin DOMAIN overlay THEN base[f]
     ELSE IF f \notin DOMAIN base THEN overlay[f]
     ELSE IF f = "merge_strategy_map" THEN Over(base[f], overlay[f])
     ELSE IF f = "secrets" THEN MergeSecrets(base[f], overlay[f])
     ELSE overlay[f]]

SelectedEnvironment(base, explicit) ==
  LET named == TrimSpace(Getenv(Field(base, "env_switcher")))
  IN IF explicit # Unset THEN explicit
     ELSE IF named # "" THEN named ELSE Field(base, "default_environment")

UnsafeName(env) == env \in {"..", " "}

WithOverlay(files, base, env) ==
  LET found == Overlays(files, env)
      overlay == CHOOSE f \in found : TRUE
  IN IF env = "" THEN Ok(base.settings)
     ELSE IF UnsafeName(env) \/ Cardinality(found) > 1 THEN Error
     ELSE IF found = {} THEN Ok(base.settings)
     ELSE IF \/ overlay.settings = Unparsable
             \/ <<overlay.family, overlay.extension>> # <<base.family, base.extension>> THEN Error
     ELSE Ok(MergeSettingsMaps(base.settings, overlay.settings))

ReadFirstFromDir(files, explicit) ==
  LET base == CHOOSE f \in BaseFiles(files) : TRUE
  IN IF BaseFiles(files) = {} THEN Ok(NoSettings)
     ELSE IF Cardinality(BaseFiles(files)) > 1 \/ base.settings = Unparsable THEN Error
     ELSE WithOverlay(files, base, SelectedEnvironment(base.settings, explicit))

\* The project directory, or the user's when the project has no base file.
ReadFromDir(explicit) ==
  ReadFirstFromDir(IF BaseFiles(disk) # {} THEN disk ELSE home, explicit)

(***************************************************************************)
(* The cache.  An entry remembers the switcher the settings name and the   *)
(* value it had when the entry was stored.                                 *)
(***************************************************************************)
Idle == [at |-> "idle", key |-> Unset, result |-> Ok(NoSettings)]

EntryFor(settings) ==
  LET switcher == Field(settings, "env_switcher")
  IN [settings |-> settings, switcher |-> switcher, value |-> Getenv(switcher)]

\* Mutant: an entry stays valid when the switcher changes.
ValidForever(key) == key \in DOMAIN cache

Valid(key) ==
  key \in DOMAIN cache /\ (cache[key].switcher = "" \/ Getenv(cache[key].switcher) = cache[key].value)

StartRead(r, explicit) ==
  /\ reads[r].at = "idle"
  /\ IF Valid(explicit)
     THEN /\ reads' = [reads EXCEPT ![r] = [at |-> "done", key |-> explicit,
                                            result |-> Ok(cache[explicit].settings)]]
          /\ cache' = cache
     ELSE /\ reads' = [reads EXCEPT ![r] = [at |-> "read", key |-> explicit, result |-> Error]]
          /\ cache' = [k \in DOMAIN cache \ {explicit} |-> cache[k]]
  /\ UNCHANGED <<disk, home, osenv, clean, churn>>

ReadFiles(r) ==
  /\ reads[r].at = "read"
  /\ LET result == ReadFromDir(reads[r].key)
     IN reads' = [reads EXCEPT ![r].at = IF result.error THEN "done" ELSE "store", ![r].result = result]
  /\ UNCHANGED <<disk, home, osenv, cache, clean, churn>>

StoreEntry(r) ==
  /\ reads[r].at = "store"
  /\ cache' = [k \in DOMAIN cache \cup {reads[r].key} |->
                 IF k = reads[r].key THEN EntryFor(reads[r].result.settings) ELSE cache[k]]
  /\ reads' = [reads EXCEPT ![r].at = "done"]
  /\ UNCHANGED <<disk, home, osenv, clean, churn>>

\* The caller has its copy of the settings.
EndRead(r) ==
  /\ reads[r].at = "done"
  /\ reads' = [reads EXCEPT ![r] = Idle]
  /\ UNCHANGED <<disk, home, osenv, cache, clean, churn>>

Quiet == \A r \in Readers : reads[r].at = "idle"

ClearCache ==
  /\ churn < MaxChurn /\ churn' = churn + 1
  /\ cache' = <<>>
  /\ clean' = (clean \/ Quiet)
  /\ UNCHANGED <<disk, home, osenv, reads>>

(***************************************************************************)
(* The surroundings: files are edited, variables are set.                  *)
(***************************************************************************)
Edit ==
  /\ churn < MaxChurn /\ churn' = churn + 1
  /\ disk' \in Editions \ {disk}
  /\ clean' = FALSE
  /\ UNCHANGED <<home, osenv, cache, reads>>

Setenv ==
  /\ churn < MaxChurn /\ churn' = churn + 1
  /\ \E name \in DOMAIN osenv : \E v \in Values \ {osenv[name]} : osenv' = [osenv EXCEPT ![name] = v]
  /\ clean' = (clean /\ Quiet)
  /\ UNCHANGED <<disk, home, cache, reads>>

SelfInit(files, user, variables, disturbed) ==
  /\ disk = files /\ home = user /\ osenv = variables
  /\ cache = <<>> /\ clean = TRUE /\ churn = disturbed
  /\ reads = [r \in Readers |-> Idle]

ReadStep(r) == ReadFiles(r) \/ StoreEntry(r)
Churn == ClearCache \/ Edit \/ Setenv

(***************************************************************************)
(* Properties.                                                             *)
(***************************************************************************)
\* The settings that select an environment are in the base file, as
\* docs/mental-model.md asks: no overlay moves them.
SelectorsInBase ==
  \A f \in disk \cup home : f.env # "" /\ f.settings # Unparsable =>
     {"env_switcher", "default_environment"} \cap DOMAIN f.settings = {}

\* However reads share the cache, and whatever the variables become between
\* them, a read returns what the files hold for the environment selected at
\* that moment; only an edit without a ClearCache after it, or a change made
\* while a read is under way, can leave it something older.
SettingsCurrent ==
  SelectorsInBase /\ clean =>
    \A r \in Readers : reads[r].at = "done" => reads[r].result = ReadFromDir(reads[r].key)
=============================================================================
