--------------------------- MODULE Creation_proofs ---------------------------
(***************************************************************************)
(* Proofs about New, for any calls, settings, files and readers.           *)
(*                                                                         *)
(* The settings.  What a read returns depends on the variables only        *)
(* through the one the base file names as its switcher, and an entry of    *)
(* the cache remembers the value that one had.  An entry is therefore      *)
(* right for that value whatever the variables become, and is used for     *)
(* that value alone.                                                       *)
(*                                                                         *)
(* The call.  After any number of options, each setting has the value of   *)
(* the last of them that names it; the settings then fill in what none     *)
(* names, and nothing after that changes what was decided.                 *)
(***************************************************************************)
EXTENDS Creation, WellFoundedInduction, TLAPS

(* The readers and their surroundings on their own.  No variable of the    *)
(* environment has an empty name.                                          *)
Start == \E files, user, variables, disturbed :
           SelfInit(files, user, variables, disturbed) /\ "" \notin DOMAIN variables
Read(r) == (\E explicit : StartRead(r, explicit)) \/ ReadStep(r) \/ EndRead(r)
SelfNext == (\E r \in Readers : Read(r)) \/ Churn
SelfSpec == Start /\ [][SelfNext]_selfVars

-----------------------------------------------------------------------------
(* The file settings come from, and the variable it names. *)
Found == IF BaseFiles(disk) # {} THEN disk ELSE home
Base == CHOOSE f \in BaseFiles(Found) : TRUE
Switcher == Field(Base.settings, "env_switcher")

(* What a read returns if the switcher has this value. *)
Selection(explicit, value) ==
  IF explicit # Unset THEN explicit
  ELSE IF TrimSpace(value) # "" THEN TrimSpace(value)
  ELSE Field(Base.settings, "default_environment")

ReadWith(explicit, value) ==
  IF BaseFiles(Found) = {} THEN Ok(NoSettings)
  ELSE IF Cardinality(BaseFiles(Found)) > 1 \/ Base.settings = Unparsable THEN Error
  ELSE WithOverlay(Found, Base, Selection(explicit, value))

Shape ==
  /\ DOMAIN reads = Readers
  /\ \A r \in Readers : /\ DOMAIN reads[r] = {"at", "key", "result"}
                        /\ reads[r].at \in {"idle", "read", "store", "done"}
                        /\ reads[r].at = "store" => reads[r].result = Ok(reads[r].result.settings)
  /\ "" \notin DOMAIN osenv

(* An entry is right for the value it remembers. *)
EntryRight(k) ==
  /\ Ok(cache[k].settings) = ReadWith(k, cache[k].value)
  /\ cache[k].switcher = Field(cache[k].settings, "env_switcher")
  /\ cache[k].switcher = "" => cache[k].value = ""

(* A read under way has what the files hold. *)
ReadRight(r) ==
  reads[r].at \in {"store", "done"} => reads[r].result = ReadFromDir(reads[r].key)

SettingsInv ==
  /\ Shape
  /\ SelectorsInBase /\ clean => /\ \A k \in DOMAIN cache : EntryRight(k)
                                 /\ \A r \in Readers : ReadRight(r)
-----------------------------------------------------------------------------
\* Fields of the merged settings that the overlay does not have are the base's.
LEMMA MergedField ==
  ASSUME NEW base, NEW overlay, NEW f, f \notin DOMAIN overlay
  PROVE  Field(MergeSettingsMaps(base, overlay), f) = Field(base, f)
BY DEF Field, MergeSettingsMaps

\* A read depends on the variables through the switcher of its base file alone.
LEMMA ReadDependsOnSwitcher ==
  ASSUME NEW e PROVE ReadFromDir(e) = ReadWith(e, Getenv(Switcher))
BY DEF ReadFromDir, ReadFirstFromDir, ReadWith, SelectedEnvironment, Selection,
       Switcher, Base, Found

\* A read is an error or settings.
LEMMA ReadShape ==
  ASSUME NEW e, NEW v
  PROVE  ReadWith(e, v) = Error \/ ReadWith(e, v) = Ok(ReadWith(e, v).settings)
BY DEF ReadWith, WithOverlay, Error, Ok

\* While no overlay moves the selectors, settings that were read name the
\* switcher of the base file, or do not depend on a variable at all.
LEMMA SwitcherNamed ==
  ASSUME SelectorsInBase, NEW e, NEW v, NEW s, ReadWith(e, v) = Ok(s)
  PROVE  \/ Field(s, "env_switcher") = Switcher
         \/ s = NoSettings /\ \A w : ReadWith(e, w) = Ok(s)
<1>1. CASE BaseFiles(Found) = {}
  BY <1>1 DEF ReadWith, Ok
<1>2. CASE BaseFiles(Found) # {}
  <2> DEFINE env == Selection(e, v)
             overlay == CHOOSE f \in Overlays(Found, env) : TRUE
  <2>1. Ok(s) = WithOverlay(Found, Base, env)
    BY <1>2 DEF ReadWith, Ok, Error
  <2>2. CASE Ok(s) = Ok(Base.settings)
    BY <2>2 DEF Ok, Switcher
  <2>3. CASE /\ env # "" /\ Overlays(Found, env) # {} /\ overlay.settings # Unparsable
             /\ Ok(s) = Ok(MergeSettingsMaps(Base.settings, overlay.settings))
    <3>1. overlay \in Found /\ overlay.env # "" BY <2>3 DEF Overlays
    <3>2. overlay \in disk \cup home BY <3>1 DEF Found
    <3>3. "env_switcher" \notin DOMAIN overlay.settings
      BY <2>3, <3>1, <3>2 DEF SelectorsInBase
    <3>4. s = MergeSettingsMaps(Base.settings, overlay.settings) BY <2>3 DEF Ok
    <3> HIDE DEF overlay, env
    <3> QED BY <3>3, <3>4, MergedField DEF Switcher
  <2> QED BY <2>1, <2>2, <2>3 DEF WithOverlay, Ok, Error
<1> QED BY <1>1, <1>2

\* An entry that is right and valid is what a read would return.
LEMMA ValidEntryCurrent ==
  ASSUME SettingsInv, SelectorsInBase, clean, NEW k, Valid(k)
  PROVE  Ok(cache[k].settings) = ReadFromDir(k)
<1>1. k \in DOMAIN cache /\ EntryRight(k) BY DEF Valid, SettingsInv
<1> DEFINE s == cache[k].settings
           v == cache[k].value
<1>2. /\ Ok(s) = ReadWith(k, v) /\ cache[k].switcher = Field(s, "env_switcher")
      /\ cache[k].switcher = "" => v = ""
      /\ cache[k].switcher = "" \/ Getenv(cache[k].switcher) = v
  BY <1>1 DEF EntryRight, Valid
<1>3. Getenv("") = "" BY DEF SettingsInv, Shape, Getenv
<1>4. \/ Field(s, "env_switcher") = Switcher
      \/ \A w : ReadWith(k, w) = Ok(s)
  <2> HIDE DEF s, v
  <2> QED BY <1>2, SwitcherNamed
<1>5. Ok(s) = ReadWith(k, Getenv(Switcher))
  <2> HIDE DEF s, v
  <2> QED BY <1>2, <1>3, <1>4
<1> QED BY <1>5, ReadDependsOnSwitcher

\* What the files hold changes only with the files, and what a read returns only
\* with them and the variables.
LEMMA SameFiles ==
  ASSUME UNCHANGED <<disk, home>>
  PROVE  /\ SelectorsInBase' = SelectorsInBase
         /\ \A e, v : ReadWith(e, v)' = ReadWith(e, v)
         /\ osenv' = osenv => \A e : ReadFromDir(e)' = ReadFromDir(e)
<1>1. SelectorsInBase' = SelectorsInBase BY DEF SelectorsInBase
<1>2. Found' = Found BY DEF Found, BaseFiles
<1>3. Base' = Base BY <1>2 DEF Base, BaseFiles
<1>4. ASSUME NEW e, NEW v PROVE ReadWith(e, v)' = ReadWith(e, v)
  <2>1. Selection(e, v)' = Selection(e, v) BY <1>3 DEF Selection
  <2> QED BY <1>2, <1>3, <2>1 DEF ReadWith
<1>5. ASSUME osenv' = osenv, NEW e PROVE ReadFromDir(e)' = ReadFromDir(e)
  BY <1>5 DEF ReadFromDir, ReadFirstFromDir, SelectedEnvironment, Getenv
<1> QED BY <1>1, <1>4, <1>5

\* Initially nobody reads and nothing is cached.
LEMMA InitSelf == Start => SettingsInv
<1> SUFFICES ASSUME Start PROVE SettingsInv OBVIOUS
<1>1. "" \notin DOMAIN osenv /\ cache = <<>> /\ reads = [r \in Readers |-> Idle]
  <2>1. PICK files, user, variables, disturbed :
          SelfInit(files, user, variables, disturbed) /\ "" \notin DOMAIN variables
    BY DEF Start
  <2> QED BY <2>1 DEF SelfInit
<1>2. DOMAIN Idle = {"at", "key", "result"} /\ Idle.at = "idle" BY DEF Idle
<1>3. DOMAIN cache = {}
  <2>1. cache = <<>> BY <1>1
  <2> QED BY <2>1, SMT
<1> QED BY <1>1, <1>2, <1>3 DEF SettingsInv, Shape, ReadRight

\* Every step of a read keeps the invariant.
LEMMA ReadKeeps == ASSUME SettingsInv, NEW r \in Readers, Read(r) PROVE SettingsInv'
<1>1. UNCHANGED <<disk, home, osenv, clean>>
  BY DEF Read, StartRead, ReadStep, ReadFiles, StoreEntry, EndRead
<1>2. /\ SelectorsInBase' = SelectorsInBase
      /\ \A e, v : ReadWith(e, v)' = ReadWith(e, v)
      /\ \A e : ReadFromDir(e)' = ReadFromDir(e)
  BY <1>1, SameFiles
<1>3. /\ DOMAIN reads = Readers
      /\ \A q \in Readers : /\ DOMAIN reads[q] = {"at", "key", "result"}
                            /\ reads[q].at \in {"idle", "read", "store", "done"}
                            /\ reads[q].at = "store" => reads[q].result = Ok(reads[q].result.settings)
      /\ "" \notin DOMAIN osenv
  BY DEF SettingsInv, Shape
<1>4. \A e : ReadFromDir(e) = Error \/ ReadFromDir(e) = Ok(ReadFromDir(e).settings)
  BY ReadShape, ReadDependsOnSwitcher
<1>5. SelectorsInBase /\ clean => \A k : Valid(k) => Ok(cache[k].settings) = ReadFromDir(k)
  BY ValidEntryCurrent
<1>6. CASE \E explicit : StartRead(r, explicit)
  <2>1. PICK explicit : StartRead(r, explicit) BY <1>6
  <2>2. CASE Valid(explicit)
    <3> DEFINE new == [at |-> "done", key |-> explicit, result |-> Ok(cache[explicit].settings)]
    <3>1. reads' = [reads EXCEPT ![r] = new] /\ cache' = cache BY <2>1, <2>2 DEF StartRead
    <3>2. new.at = "done" /\ new.key = explicit /\ new.result = Ok(cache[explicit].settings)
          /\ DOMAIN new = {"at", "key", "result"}
      OBVIOUS
    <3> HIDE DEF new
    <3>3. Shape' BY <1>1, <1>3, <3>1, <3>2 DEF Shape
    <3>4. SelectorsInBase /\ clean =>
            (\A k \in DOMAIN cache : EntryRight(k)) /\ \A q \in Readers : ReadRight(q)
      BY DEF SettingsInv
    <3>5. SelectorsInBase /\ clean => \A k \in DOMAIN cache' : EntryRight(k)'
      BY <1>2, <3>1, <3>4 DEF EntryRight
    <3>6. SelectorsInBase /\ clean => \A q \in Readers : ReadRight(q)'
      BY <1>2, <1>3, <1>5, <2>2, <3>1, <3>2, <3>4 DEF ReadRight
    <3> QED BY <1>1, <1>2, <3>3, <3>5, <3>6 DEF SettingsInv
  <2>3. CASE ~Valid(explicit)
    <3> DEFINE new == [at |-> "read", key |-> explicit, result |-> Error]
    <3>1. /\ reads' = [reads EXCEPT ![r] = new]
          /\ cache' = [k \in DOMAIN cache \ {explicit} |-> cache[k]]
      BY <2>1, <2>3 DEF StartRead
    <3>2. new.at = "read" /\ DOMAIN new = {"at", "key", "result"} OBVIOUS
    <3> HIDE DEF new
    <3>3. Shape' BY <1>1, <1>3, <3>1, <3>2 DEF Shape
    <3>4. SelectorsInBase /\ clean =>
            (\A k \in DOMAIN cache : EntryRight(k)) /\ \A q \in Readers : ReadRight(q)
      BY DEF SettingsInv
    <3>5. SelectorsInBase /\ clean => \A k \in DOMAIN cache' : EntryRight(k)'
      BY <1>2, <3>1, <3>4 DEF EntryRight
    <3>6. SelectorsInBase /\ clean => \A q \in Readers : ReadRight(q)'
      BY <1>2, <1>3, <3>1, <3>2, <3>4 DEF ReadRight
    <3> QED BY <1>1, <1>2, <3>3, <3>5, <3>6 DEF SettingsInv
  <2> QED BY <2>2, <2>3
<1>7. CASE ReadFiles(r)
  <2> DEFINE found == ReadFromDir(reads[r].key)
             new == [reads[r] EXCEPT !.at = IF found.error THEN "done" ELSE "store",
                                     !.result = found]
  <2>1. reads' = [reads EXCEPT ![r] = new] /\ cache' = cache BY <1>7 DEF ReadFiles
  <2>2. /\ DOMAIN new = {"at", "key", "result"} /\ new.at \in {"store", "done"}
        /\ new.key = reads[r].key /\ new.result = ReadFromDir(new.key)
        /\ new.at = "store" => ~new.result.error
    BY <1>3
  <2>3. new.at = "store" => new.result = Ok(new.result.settings)
    <3> HIDE DEF new
    <3> QED BY <1>4, <2>2 DEF Error
  <2> HIDE DEF new
  <2>4. Shape' BY <1>1, <1>3, <2>1, <2>2, <2>3 DEF Shape
  <2>5. SelectorsInBase /\ clean =>
          (\A k \in DOMAIN cache : EntryRight(k)) /\ \A q \in Readers : ReadRight(q)
    BY DEF SettingsInv
  <2>6. SelectorsInBase /\ clean => \A k \in DOMAIN cache' : EntryRight(k)'
    BY <1>2, <2>1, <2>5 DEF EntryRight
  <2>7. SelectorsInBase /\ clean => \A q \in Readers : ReadRight(q)'
    BY <1>2, <1>3, <2>1, <2>2, <2>5 DEF ReadRight
  <2> QED BY <1>1, <1>2, <2>4, <2>6, <2>7 DEF SettingsInv
<1>8. CASE StoreEntry(r)
  <2> DEFINE key == reads[r].key
             s == reads[r].result.settings
             entry == EntryFor(s)
             new == [reads[r] EXCEPT !.at = "done"]
  <2>1. /\ reads' = [reads EXCEPT ![r] = new] /\ reads[r].at = "store"
        /\ cache' = [k \in DOMAIN cache \cup {key} |-> IF k = key THEN entry ELSE cache[k]]
    BY <1>8 DEF StoreEntry
  <2>2. /\ DOMAIN new = {"at", "key", "result"} /\ new.at = "done"
        /\ new.key = key /\ new.result = reads[r].result /\ reads[r].result = Ok(s)
    BY <1>3, <2>1
  <2>3. /\ entry.settings = s /\ entry.switcher = Field(s, "env_switcher")
        /\ entry.value = Getenv(entry.switcher)
    BY DEF EntryFor
  <2>4. entry.switcher = "" => entry.value = "" BY <1>3, <2>3 DEF Getenv
  <2> HIDE DEF new, entry, s, key
  <2>5. Shape' BY <1>1, <1>3, <2>1, <2>2 DEF Shape
  <2>6. SelectorsInBase /\ clean =>
          (\A k \in DOMAIN cache : EntryRight(k)) /\ \A q \in Readers : ReadRight(q)
    BY DEF SettingsInv
  <2>7. SelectorsInBase /\ clean => Ok(s) = ReadWith(key, entry.value)
    <3> SUFFICES ASSUME SelectorsInBase, clean PROVE Ok(s) = ReadWith(key, entry.value)
      OBVIOUS
    <3>1. Ok(s) = ReadFromDir(key) BY <2>1, <2>2, <2>6 DEF ReadRight, key
    <3>2. ReadWith(key, Getenv(Switcher)) = Ok(s) BY <3>1, ReadDependsOnSwitcher
    <3>3. \/ Field(s, "env_switcher") = Switcher
          \/ \A w : ReadWith(key, w) = Ok(s)
      BY <3>2, SwitcherNamed
    <3> QED BY <2>3, <3>2, <3>3
  <2>8. SelectorsInBase /\ clean => \A k \in DOMAIN cache' : EntryRight(k)'
    BY <1>2, <2>1, <2>3, <2>4, <2>6, <2>7 DEF EntryRight
  <2>9. SelectorsInBase /\ clean => \A q \in Readers : ReadRight(q)'
    BY <1>2, <1>3, <2>1, <2>2, <2>6 DEF ReadRight, key
  <2> QED BY <1>1, <1>2, <2>5, <2>8, <2>9 DEF SettingsInv
<1>9. CASE EndRead(r)
  <2>1. reads' = [reads EXCEPT ![r] = Idle] /\ cache' = cache BY <1>9 DEF EndRead
  <2>2. DOMAIN Idle = {"at", "key", "result"} /\ Idle.at = "idle" BY DEF Idle
  <2>3. Shape' BY <1>1, <1>3, <2>1, <2>2 DEF Shape
  <2>4. SelectorsInBase /\ clean =>
          (\A k \in DOMAIN cache : EntryRight(k)) /\ \A q \in Readers : ReadRight(q)
    BY DEF SettingsInv
  <2>5. SelectorsInBase /\ clean => \A k \in DOMAIN cache' : EntryRight(k)'
    BY <1>2, <2>1, <2>4 DEF EntryRight
  <2>6. SelectorsInBase /\ clean => \A q \in Readers : ReadRight(q)'
    BY <1>2, <1>3, <2>1, <2>2, <2>4 DEF ReadRight
  <2> QED BY <1>1, <1>2, <2>3, <2>5, <2>6 DEF SettingsInv
<1> QED BY <1>6, <1>7, <1>8, <1>9 DEF Read, ReadStep

\* So do the surroundings: an edit, or a variable that changes during a read,
\* ends what is promised, and an entry does not depend on the variables.
LEMMA ChurnKeeps == ASSUME SettingsInv, Churn PROVE SettingsInv'
<1>1. CASE Edit
  BY <1>1 DEF Edit, SettingsInv, Shape
<1>2. CASE ClearCache
  <2>1. UNCHANGED <<disk, home, osenv, reads>> /\ cache' = <<>> /\ clean' = (clean \/ Quiet)
    BY <1>2 DEF ClearCache
  <2>2. /\ SelectorsInBase' = SelectorsInBase
        /\ \A e : ReadFromDir(e)' = ReadFromDir(e)
    BY <2>1, SameFiles
  <2>3. Shape' BY <2>1 DEF SettingsInv, Shape
  <2>4. SelectorsInBase' /\ clean' => \A q \in Readers : ReadRight(q)'
    BY <2>1, <2>2 DEF SettingsInv, ReadRight, Quiet
  <2>5. DOMAIN cache' = {} BY <2>1
  <2> QED BY <2>3, <2>4, <2>5 DEF SettingsInv
<1>3. CASE Setenv
  <2>1. UNCHANGED <<disk, home, cache, reads>> /\ DOMAIN osenv' = DOMAIN osenv
        /\ clean' = (clean /\ Quiet)
    BY <1>3 DEF Setenv
  <2>2. /\ SelectorsInBase' = SelectorsInBase
        /\ \A e, v : ReadWith(e, v)' = ReadWith(e, v)
    BY <2>1, SameFiles
  <2>3. Shape' BY <2>1 DEF SettingsInv, Shape
  <2>4. SelectorsInBase' /\ clean' => \A k \in DOMAIN cache' : EntryRight(k)'
    BY <2>1, <2>2 DEF SettingsInv, EntryRight
  <2>5. clean' => \A q \in Readers : ReadRight(q)'
    BY <2>1 DEF ReadRight, Quiet
  <2> QED BY <2>3, <2>4, <2>5 DEF SettingsInv
<1> QED BY <1>1, <1>2, <1>3 DEF Churn

\* The readers and their surroundings keep the invariant.
LEMMA SelfKeeps == SettingsInv /\ [SelfNext]_selfVars => SettingsInv'
<1> SUFFICES ASSUME SettingsInv, [SelfNext]_selfVars PROVE SettingsInv' OBVIOUS
<1>1. CASE SelfNext BY <1>1, ReadKeeps, ChurnKeeps DEF SelfNext
<1>2. CASE UNCHANGED selfVars
  <2>1. UNCHANGED <<disk, home, osenv, cache, reads, clean>> BY <1>2 DEF selfVars
  <2>2. /\ SelectorsInBase' = SelectorsInBase
        /\ \A e, v : ReadWith(e, v)' = ReadWith(e, v)
        /\ \A e : ReadFromDir(e)' = ReadFromDir(e)
    BY <2>1, SameFiles
  <2> QED BY <2>1, <2>2 DEF SettingsInv, Shape, EntryRight, ReadRight
<1> QED BY <1>1, <1>2

\* Every step of New leaves the settings alone or is one of their readers'.
LEMMA CreationReads == [CreationNext]_creationVars => [SelfNext]_selfVars
<1> SUFFICES ASSUME [CreationNext]_creationVars PROVE [SelfNext]_selfVars OBVIOUS
<1>1. New \in Readers BY ScenesAssumption DEF ScenesAssumption
<1>2. CASE BeginSettings BY <1>1, <1>2 DEF BeginSettings, SelfNext, Read
<1>3. CASE ReadSettings BY <1>1, <1>3 DEF ReadSettings, SelfNext, Read
<1>4. CASE TakeSettings BY <1>1, <1>4 DEF TakeSettings, SelfNext, Read
<1>5. CASE Meanwhile BY <1>5 DEF Meanwhile, SelfNext, Read
<1>6. CASE Configure \/ Prepare \/ AppendNext BY <1>6 DEF Configure, Prepare, AppendNext
<1>7. CASE Assemble \/ AskProviders BY <1>7 DEF Assemble, AskProviders
<1>8. CASE Publish \/ WatchFails \/ Abandon BY <1>8 DEF Publish, WatchFails, Abandon
<1>9. CASE UNCHANGED creationVars BY <1>9 DEF creationVars
<1> QED BY <1>2, <1>3, <1>4, <1>5, <1>6, <1>7, <1>8, <1>9 DEF CreationNext, Decide

\* New begins where its readers do.
LEMMA CreationStarts == CreationInit => Start
<1> SUFFICES ASSUME CreationInit PROVE Start OBVIOUS
<1>1. "" \notin DOMAIN scene.osenv BY ScenesAssumption DEF CreationInit, ScenesAssumption
<1>2. SelfInit(scene.disk, scene.home, scene.osenv, IF scene.churns THEN 0 ELSE MaxChurn)
  BY DEF CreationInit
<1> QED BY <1>1, <1>2 DEF Start

\* The settings a read returns, New's own or another's, are those the files hold
\* for the environment selected at that moment, however readers share the cache
\* and whatever the variables were before, unless files were edited or something
\* changed under the read (selfconfig/reader.go).
THEOREM SettingsFresh == CreationSpec => []SettingsCurrent
<1>1. SettingsInv => SettingsCurrent BY DEF SettingsInv, SettingsCurrent, ReadRight
<1>2. CreationSpec => SelfSpec BY CreationStarts, CreationReads, PTL DEF CreationSpec, SelfSpec
<1> QED BY InitSelf, SelfKeeps, <1>1, <1>2, PTL DEF SelfSpec
-----------------------------------------------------------------------------
(* What New holds. *)

(* A store that was asked is open until New abandons the call, and nothing *)
(* watches before New has returned.                                        *)
HoldingInv ==
  /\ stage = "done" => result \in {"config", "error"}
  /\ stage # "done" => result = "pending" /\ ~watching
  /\ stage \in {"options", "reading", "prepare"} => contacted = {}
  /\ result # "error" =>
       \A p \in contacted \cap router.providers : [id |-> p, collected |-> TRUE] \in open
  /\ result = "error" => ~watching /\ \A r \in open : ~r.collected

\* New holds nothing at first.
LEMMA InitHolding == CreationInit => HoldingInv
BY DEF CreationInit, HoldingInv

\* Every step of New keeps what it holds accounted for.
LEMMA HoldingKept == HoldingInv /\ [CreationNext]_creationVars => HoldingInv'
<1> SUFFICES ASSUME HoldingInv, [CreationNext]_creationVars PROVE HoldingInv' OBVIOUS
<1>1. CASE Configure
  BY <1>1 DEF HoldingInv, Configure, Goes, held
<1>2. CASE BeginSettings
  BY <1>2 DEF HoldingInv, BeginSettings, held, decided
<1>3. CASE ReadSettings
  BY <1>3 DEF HoldingInv, ReadSettings, held, decided
<1>4. CASE TakeSettings
  BY <1>4 DEF HoldingInv, TakeSettings, Goes, held
<1>5. CASE Meanwhile
  BY <1>5 DEF HoldingInv, Meanwhile, held, decided
<1>6. CASE Prepare
  BY <1>6 DEF HoldingInv, Prepare, Goes, held
<1>7. CASE AppendNext
  <2>1. /\ stage = "sources" /\ stage' \in {"sources", "failing"} /\ open \subseteq open'
        /\ UNCHANGED <<contacted, router, result, watching>>
    BY <1>7 DEF AppendNext, Goes
  <2> QED BY <2>1 DEF HoldingInv
<1>8. CASE Assemble
  BY <1>8 DEF HoldingInv, Assemble, Goes, held
<1>9. CASE AskProviders
  <2>1. PICK providers : Contact(providers) BY <1>9 DEF AskProviders
  <2>2. stage = "load" /\ UNCHANGED <<stage, router, result, watching>>
    BY <1>9 DEF AskProviders, decided
  <2> QED BY <2>1, <2>2 DEF HoldingInv, Contact
<1>10. CASE Publish
  BY <1>10 DEF HoldingInv, Publish, decided
<1>11. CASE WatchFails
  BY <1>11 DEF HoldingInv, WatchFails, Goes, held, decided
<1>12. CASE Abandon
  BY <1>12 DEF HoldingInv, Abandon, decided
<1>13. CASE UNCHANGED creationVars
  BY <1>13 DEF HoldingInv, creationVars, held, decided
<1> QED BY <1>1, <1>2, <1>3, <1>4, <1>5, <1>6, <1>7, <1>8, <1>9, <1>10, <1>11, <1>12, <1>13
        DEF CreationNext, Decide

\* Whatever goes wrong and whenever, a New that returns an error leaves nothing
\* open that its registry knows of and no watcher, and one that returns a
\* configuration has open every store it asked (config.go, config_secret_self.go).
THEOREM NewLeaksNothing == CreationSpec => []FailedNewLeaksNothing
<1>1. HoldingInv => FailedNewLeaksNothing BY DEF HoldingInv, FailedNewLeaksNothing
<1> QED BY InitHolding, HoldingKept, <1>1, PTL DEF CreationSpec
-----------------------------------------------------------------------------
(* What New decides. *)

OptionFields ==
  {"v", "explicit", "loaders", "hooks", "validators", "exporters", "secretHook", "secretResolver",
   "policySet", "sources", "applied", "appended", "secrets"}
OptionsRecord(p) == DOMAIN p = OptionFields /\ DOMAIN p.v = DOMAIN Defaults

(* A validator turns validation on, and the switcher gives way to WithEnv:  *)
(* every other setting is changed by options of its name alone.             *)
Plain == DOMAIN Defaults \ {"env_switcher", "validate_on_load"}

(* q is p after an option that names f and gives it x. *)
Effect(p, q, f, x) ==
  /\ OptionsRecord(q) /\ q.applied = p.applied /\ q.sources = p.sources
  /\ \A g \in Plain : /\ q.v[g] = IF g = f THEN x ELSE p.v[g]
                      /\ g \in q.explicit <=> g \in p.explicit \/ g = f
  /\ "env" \notin q.explicit =>
       /\ q.v["env_switcher"] = IF f = "env_switcher" THEN x ELSE p.v["env_switcher"]
       /\ "env_switcher" \in q.explicit <=> "env_switcher" \in p.explicit \/ f = "env_switcher"

\* The names of the settings.
LEMMA SettingNames ==
  /\ {"env", "env_switcher", "env_prefix", "environment_conflict_policy", "environment_strategy",
      "validate_on_load"} \subseteq DOMAIN Defaults
  /\ {"loaders", "add_loaders", "hook", "exporter", "validator", "secret_hook", "secret_resolver"}
       \cap DOMAIN Defaults = {}
BY DEF Defaults

\* Put changes one setting and remembers that it was named.
LEMMA PutEffect ==
  ASSUME NEW p, OptionsRecord(p), NEW f, NEW x
  PROVE  /\ OptionsRecord(Put(p, f, x))
         /\ Put(p, f, x).applied = p.applied /\ Put(p, f, x).sources = p.sources
         /\ \A g \in DOMAIN Defaults : Put(p, f, x).v[g] = IF g = f THEN x ELSE p.v[g]
         /\ Put(p, f, x).explicit = p.explicit \cup {f}
<1> DEFINE q == Put(p, f, x)
           v == [p.v EXCEPT ![f] = x]
<1>1. DOMAIN p = OptionFields /\ DOMAIN p.v = DOMAIN Defaults BY DEF OptionsRecord
<1>2. q = [[p EXCEPT !.v = v] EXCEPT !.explicit = p.explicit \cup {f}] BY <1>1 DEF Put, OptionFields
<1>3. DOMAIN v = DOMAIN Defaults /\ \A g \in DOMAIN Defaults : v[g] = IF g = f THEN x ELSE p.v[g]
  BY <1>1
<1> HIDE DEF v, q
<1>4. DOMAIN q = OptionFields /\ q.v = v /\ q.explicit = p.explicit \cup {f}
      /\ q.applied = p.applied /\ q.sources = p.sources
  BY <1>1, <1>2 DEF OptionFields
<1> QED BY <1>3, <1>4 DEF q, OptionsRecord

\* An option that names no setting leaves the settings alone.
LEMMA ElsewhereEffect ==
  ASSUME NEW p, OptionsRecord(p), NEW q, DOMAIN q = OptionFields, NEW f, f \notin DOMAIN Defaults, NEW x,
         q.v = p.v, q.applied = p.applied, q.sources = p.sources,
         \A g \in DOMAIN Defaults : g \in q.explicit <=> g \in p.explicit
  PROVE  Effect(p, q, f, x)
BY SettingNames DEF Effect, OptionsRecord, Plain

\* Put of a setting that no other option stands for.
LEMMA SettingEffect ==
  ASSUME NEW p, OptionsRecord(p), NEW f, NEW x, f # "env"
  PROVE  Effect(p, Put(p, f, x), f, x)
BY PutEffect, SettingNames DEF Effect, Plain

\* A change to fields that are neither settings nor the account of the call.
LEMMA AsideEffect ==
  ASSUME NEW p, OptionsRecord(p), NEW f, NEW x, NEW q, NEW k, NEW y,
         k \in OptionFields \ {"v", "explicit", "applied", "sources"},
         Effect(p, q, f, x)
  PROVE  Effect(p, [q EXCEPT ![k] = y], f, x)
<1> DEFINE z == [q EXCEPT ![k] = y]
<1>1. DOMAIN q = OptionFields BY DEF Effect, OptionsRecord
<1>2. DOMAIN z = OptionFields /\ z.v = q.v /\ z.explicit = q.explicit /\ z.applied = q.applied
      /\ z.sources = q.sources
  BY <1>1 DEF OptionFields
<1> HIDE DEF z
<1> QED BY <1>2 DEF Effect, OptionsRecord

\* What an option does to the settings, whichever it is.
LEMMA OptionEffect ==
  ASSUME NEW p, OptionsRecord(p), NEW option
  PROVE  Effect(p, ApplyOption(p, option), option.set, option.to)
<1> DEFINE f == option.set
           x == option.to
           q == ApplyOption(p, option)
<1> SUFFICES Effect(p, q, f, x) OBVIOUS
<1>0. DOMAIN p = OptionFields BY DEF OptionsRecord
<1>1. CASE f = "env"
  <2> DEFINE first == Put(p, "env", x)
             none == ""
             second == Put(first, "env_switcher", none)
  <2>1. q = second BY <1>1 DEF ApplyOption, WithEnv
  <2>2. /\ OptionsRecord(first) /\ first.applied = p.applied /\ first.sources = p.sources
        /\ \A g \in DOMAIN Defaults : first.v[g] = IF g = "env" THEN x ELSE p.v[g]
        /\ first.explicit = p.explicit \cup {"env"}
    BY PutEffect
  <2> HIDE DEF first, none
  <2>3. /\ OptionsRecord(second) /\ second.applied = first.applied /\ second.sources = first.sources
        /\ \A g \in DOMAIN Defaults : second.v[g] = IF g = "env_switcher" THEN none ELSE first.v[g]
        /\ second.explicit = first.explicit \cup {"env_switcher"}
    <3>1. OptionsRecord(first) BY <2>2
    <3> HIDE DEF q, f, x
    <3> QED BY <3>1, PutEffect
  <2> HIDE DEF second, q, x, f
  <2> QED BY <1>1, <2>1, <2>2, <2>3, SettingNames DEF Effect, Plain
<1>2. CASE f = "env_switcher"
  <2>1. q = IF "env" \in p.explicit THEN p ELSE Put(p, f, x)
    BY <1>2 DEF ApplyOption, WithEnvSwitcher
  <2>2. CASE "env" \in p.explicit
    BY <1>2, <2>1, <2>2, SettingNames DEF Effect, Plain
  <2> QED BY <1>2, <2>1, <2>2, SettingEffect
<1>3. CASE f = "env_prefix"
  <2> DEFINE named == Put(p, f, x)
  <2>1. Effect(p, named, f, x) BY <1>3, SettingEffect
  <2>2. \/ q = named
        \/ q = [named EXCEPT !.loaders = Append(@, EnvLoader(x))]
    BY <1>3 DEF ApplyOption, WithEnvPrefix
  <2>3. q = named \/ \E y : q = [named EXCEPT !["loaders"] = y]
    BY <2>2
  <2> HIDE DEF named, q, f, x
  <2> QED BY <2>1, <2>3, AsideEffect DEF OptionFields
<1>4. CASE f = "environment_conflict_policy"
  <2> DEFINE named == Put(p, f, x)
  <2>1. Effect(p, named, f, x) BY <1>4, SettingEffect
  <2>2. q = [named EXCEPT !["policySet"] = TRUE]
    BY <1>4 DEF ApplyOption, WithConflictPolicy
  <2> HIDE DEF named, q, f, x
  <2> QED BY <2>1, <2>2, AsideEffect DEF OptionFields
<1>5. CASE f = "validator"
  <2> DEFINE yes == TRUE
             on == Put(p, "validate_on_load", yes)
  <2>1. q = [on EXCEPT !.validators = Append(@, x)] BY <1>5 DEF ApplyOption, WithValidator
  <2> HIDE DEF yes
  <2>2. /\ OptionsRecord(on) /\ on.applied = p.applied /\ on.sources = p.sources
        /\ \A g \in DOMAIN Defaults : on.v[g] = IF g = "validate_on_load" THEN yes ELSE p.v[g]
        /\ on.explicit = p.explicit \cup {"validate_on_load"}
    <3> HIDE DEF q, f, x
    <3> QED BY PutEffect
  <2> HIDE DEF on
  <2>3. DOMAIN on = OptionFields BY <2>2 DEF OptionsRecord
  <2>4. DOMAIN q = OptionFields /\ q.v = on.v /\ q.explicit = on.explicit /\ q.applied = on.applied
        /\ q.sources = on.sources
    BY <2>1, <2>3 DEF OptionFields
  <2> HIDE DEF q
  <2>5. f \notin DOMAIN Defaults /\ "validate_on_load" \notin Plain /\ "validate_on_load" # "env"
    BY <1>5, SettingNames DEF Plain
  <2>6. /\ OptionsRecord(q) /\ q.applied = p.applied /\ q.sources = p.sources
        /\ \A g \in Plain : q.v[g] = p.v[g] /\ (g \in q.explicit <=> g \in p.explicit)
        /\ q.v["env_switcher"] = p.v["env_switcher"]
        /\ "env_switcher" \in q.explicit <=> "env_switcher" \in p.explicit
    BY <2>2, <2>4, <2>5, SettingNames DEF OptionsRecord, Plain
  <2>7. f \notin Plain /\ f # "env_switcher" BY <2>5, SettingNames DEF Plain
  <2> HIDE DEF f, x
  <2> QED BY <2>6, <2>7 DEF Effect
<1>6. CASE f \in {"loaders", "add_loaders", "hook", "exporter", "secret_hook", "secret_resolver"}
  <2>1. f \notin DOMAIN Defaults BY <1>6, SettingNames
  <2>2. CASE f \in {"loaders", "add_loaders"}
    <3>1. \E y : q = [p EXCEPT !.loaders = y, !.explicit = @ \cup {"loaders"}]
      BY <2>2 DEF ApplyOption, WithLoaders, AddLoaders
    <3>2. DOMAIN q = OptionFields /\ q.v = p.v /\ q.applied = p.applied /\ q.sources = p.sources
          /\ q.explicit = p.explicit \cup {"loaders"}
      BY <1>0, <3>1 DEF OptionFields
    <3> HIDE DEF q, f, x
    <3>3. \A g \in DOMAIN Defaults : g \in q.explicit <=> g \in p.explicit BY <3>2, SettingNames
    <3> QED BY <2>1, <3>2, <3>3, ElsewhereEffect
  <2>3. CASE f \in {"hook", "exporter"}
    <3>1. \/ \E y : q = [p EXCEPT !.hooks = y]
          \/ \E y : q = [p EXCEPT !.exporters = y]
      BY <2>3 DEF ApplyOption, WithHook, WithExporter
    <3>2. DOMAIN q = OptionFields /\ q.v = p.v /\ q.applied = p.applied /\ q.sources = p.sources
          /\ q.explicit = p.explicit
      BY <1>0, <3>1 DEF OptionFields
    <3> HIDE DEF q, f, x
    <3> QED BY <2>1, <3>2, ElsewhereEffect
  <2>4. CASE f \in {"secret_hook", "secret_resolver"}
    <3>1. \/ \E y : q = [p EXCEPT !.secretHook = y, !.explicit = @ \cup {"secret_hook"}]
          \/ \E y : q = [p EXCEPT !.secretResolver = y, !.explicit = @ \cup {"secret_hook"}]
      BY <2>4 DEF ApplyOption, WithSecretHook, WithSecretResolver
    <3>2. DOMAIN q = OptionFields /\ q.v = p.v /\ q.applied = p.applied /\ q.sources = p.sources
          /\ q.explicit = p.explicit \cup {"secret_hook"}
      BY <1>0, <3>1 DEF OptionFields
    <3> HIDE DEF q, f, x
    <3>3. \A g \in DOMAIN Defaults : g \in q.explicit <=> g \in p.explicit BY <3>2, SettingNames
    <3> QED BY <2>1, <3>2, <3>3, ElsewhereEffect
  <2> QED BY <1>6, <2>2, <2>3, <2>4
<1>7. CASE f \notin {"env", "env_switcher", "env_prefix", "loaders", "add_loaders", "hook", "exporter", "validator",
                     "secret_hook", "secret_resolver", "environment_conflict_policy"}
  <2>1. q = Put(p, f, x) BY <1>7 DEF ApplyOption
  <2> QED BY <1>7, <2>1, SettingEffect
<1> QED BY <1>1, <1>2, <1>3, <1>4, <1>5, <1>6, <1>7

\* What the settings of the project fill in.
LEMMA FilledIn ==
  ASSUME NEW p, OptionsRecord(p), NEW s, NEW q, q = ApplySelfConfig(p, s).o
  PROVE  /\ OptionsRecord(q) /\ q.applied = p.applied /\ q.explicit = p.explicit
         /\ \A f \in DOMAIN Defaults :
              q.v[f] = IF f \notin p.explicit /\ SettingName(f) \in DOMAIN s THEN s[SettingName(f)] ELSE p.v[f]
         /\ q.sources = <<>> \/ ("sources" \in DOMAIN s /\ q.sources = s["sources"])
<1> DEFINE used == {f \in DOMAIN Defaults \ p.explicit : SettingName(f) \in DOMAIN s}
           v == [f \in DOMAIN Defaults |-> IF f \in used THEN s[SettingName(f)] ELSE p.v[f]]
<1>1. DOMAIN p = OptionFields BY DEF OptionsRecord
<1>2. \E x, y, z : /\ q = [p EXCEPT !.v = v, !.policySet = x, !.sources = y, !.secrets = z]
                   /\ y = <<>> \/ ("sources" \in DOMAIN s /\ y = s["sources"])
  BY <1>1 DEF ApplySelfConfig, OptionFields
<1>3. DOMAIN v = DOMAIN Defaults /\ \A f \in DOMAIN Defaults :
        v[f] = IF f \notin p.explicit /\ SettingName(f) \in DOMAIN s THEN s[SettingName(f)] ELSE p.v[f]
  OBVIOUS
<1> HIDE DEF v
<1>4. PICK x, y, z : /\ q = [p EXCEPT !.v = v, !.policySet = x, !.sources = y, !.secrets = z]
                     /\ y = <<>> \/ ("sources" \in DOMAIN s /\ y = s["sources"])
  BY <1>2
<1>5. DOMAIN q = OptionFields /\ q.v = v /\ q.applied = p.applied /\ q.explicit = p.explicit /\ q.sources = y
  BY <1>1, <1>4 DEF OptionFields
<1> QED BY <1>3, <1>4, <1>5 DEF OptionsRecord

-----------------------------------------------------------------------------
(* The options for f that have been applied, and what the last one gave it. *)
Given(f) == {i \in 1..o.applied : scene.call[i].set = f}
Latest(f) == IF Given(f) = {} THEN Defaults[f] ELSE scene.call[Max(Given(f))].to

Progress ==
  /\ scene \in Scenes /\ OptionsRecord(o) /\ o.applied \in 0..Len(scene.call)
  /\ stage = "reading" => o.applied = Len(scene.call)
  /\ stage \in {"options", "reading"} => taken = NoSettings

OptionsTaken ==
  /\ \A f \in Plain : o.v[f] = Latest(f) /\ (f \in o.explicit <=> Given(f) # {})
  /\ Given("env") = {} =>
       /\ o.v["env_switcher"] = Latest("env_switcher")
       /\ "env_switcher" \in o.explicit <=> Given("env_switcher") # {}

SettingsTaken ==
  /\ \A f \in Plain : o.v[f] = Chosen(f)
  /\ "env" \in o.explicit <=> Calls("env") # {}
  /\ Calls("env") = {} => o.v["env_switcher"] = Chosen("env_switcher")

Planned ==
  /\ o.v["env"] = ChosenEnvironment
  /\ \A f \in Plain \ {"env", "environment_strategy"} : o.v[f] = Chosen(f)

(* What has been decided so far, at each stage. *)
PlanInv ==
  /\ Progress
  /\ stage \in {"options", "reading"} => OptionsTaken
  /\ stage = "prepare" => SettingsTaken
  /\ stage \in {"sources", "load"} \/ result = "config" => Planned

\* The options of a call are numbered from 1.
LEMMA CallNumbers ==
  ASSUME Progress
  PROVE  /\ Len(scene.call) \in Nat /\ DOMAIN scene.call = 1..Len(scene.call) /\ o.applied \in Nat
         /\ \A f : o.applied = Len(scene.call) => Given(f) = Calls(f)
<1>1. Len(scene.call) \in Nat /\ DOMAIN scene.call = 1..Len(scene.call)
  BY ScenesAssumption DEF Progress, ScenesAssumption
<1>2. o.applied \in Nat BY <1>1 DEF Progress
<1> QED BY <1>1, <1>2 DEF Given, Calls

\* The last option applied is the latest of those before it.
LEMMA LastApplied ==
  ASSUME NEW n \in Nat, NEW S, S \subseteq 1..n
  PROVE  Max(S \cup {n + 1}) = n + 1
<1>1. \A x \in S \cup {n + 1} : x \in Nat /\ n + 1 >= x OBVIOUS
<1>2. \A x \in S \cup {n + 1} : (\A y \in S \cup {n + 1} : x >= y) => x = n + 1 BY <1>1
<1> QED BY <1>1, <1>2 DEF Max

\* An option becomes the latest for its setting.
LEMMA OptionTaken ==
  ASSUME Progress, OptionsTaken, stage = "options", Configure, stage' = "options"
  PROVE  Progress' /\ OptionsTaken'
<1> DEFINE n == o.applied
           option == scene.call[n + 1]
           f == option.set
           p == ApplyOption(o, option)
<1>1. /\ n < Len(scene.call) /\ scene' = scene /\ taken' = taken
      /\ o' = [p EXCEPT !.applied = p.applied + 1]
  BY DEF Configure, Goes
<1>2. Effect(o, p, f, option.to)
  <2>1. OptionsRecord(o) BY DEF Progress
  <2> QED BY <2>1, OptionEffect
<1>3. Len(scene.call) \in Nat /\ n \in Nat /\ n + 1 \in 1..Len(scene.call)
  BY <1>1, CallNumbers
<1> HIDE DEF p
<1>4. OptionsRecord(p) /\ p.applied = n BY <1>2 DEF Effect
<1>5. OptionsRecord(o') /\ o'.v = p.v /\ o'.explicit = p.explicit /\ o'.applied = n + 1
  BY <1>1, <1>4 DEF OptionsRecord, OptionFields
<1>6. Progress' BY <1>1, <1>3, <1>5 DEF Progress
<1>7. ASSUME NEW g
      PROVE  /\ Given(g)' = IF g = f THEN Given(g) \cup {n + 1} ELSE Given(g)
             /\ Latest(g)' = IF g = f THEN option.to ELSE Latest(g)
  <2>1. Given(g)' = {i \in 1..(n + 1) : scene.call[i].set = g} BY <1>1, <1>5 DEF Given
  <2>2. Given(g) = {i \in 1..n : scene.call[i].set = g} BY DEF Given
  <2>3. Given(g)' = IF g = f THEN Given(g) \cup {n + 1} ELSE Given(g)
    BY <1>3, <2>1, <2>2
  <2>4. Given(g) \subseteq 1..n BY <2>2
  <2>5. Latest(g)' = IF Given(g)' = {} THEN Defaults[g] ELSE scene.call[Max(Given(g)')].to
    BY <1>1 DEF Latest
  <2>6. Max(Given(g) \cup {n + 1}) = n + 1 BY <1>3, <2>4, LastApplied
  <2> QED BY <2>3, <2>5, <2>6 DEF Latest
<1> HIDE DEF n, option, f
<1>8. \A g \in Plain : o'.v[g] = Latest(g)' /\ (g \in o'.explicit <=> Given(g)' # {})
  BY <1>2, <1>5, <1>7 DEF OptionsTaken, Effect
<1>9. Given("env")' = {} => "env" \notin o'.explicit
  BY <1>8, SettingNames DEF Plain
<1>10. Given("env")' = {} => Given("env") = {} BY <1>7
<1>11. Given("env")' = {} =>
         /\ o'.v["env_switcher"] = Latest("env_switcher")'
         /\ "env_switcher" \in o'.explicit <=> Given("env_switcher")' # {}
  BY <1>2, <1>5, <1>7, <1>9, <1>10 DEF OptionsTaken, Effect
<1> QED BY <1>6, <1>8, <1>11 DEF OptionsTaken

\* The settings of the project fill in what no option named.
LEMMA SettingsFillIn ==
  ASSUME Progress, OptionsTaken, TakeSettings, stage' = "prepare"
  PROVE  Progress' /\ SettingsTaken'
<1> DEFINE s == reads[New].result.settings
           p == ApplySelfConfig(o, s).o
<1>1. stage = "reading" /\ o' = p /\ taken' = s /\ scene' = scene
  BY DEF TakeSettings, Goes
<1>2. OptionsRecord(o) /\ o.applied = Len(scene.call) BY <1>1 DEF Progress
<1>3. /\ OptionsRecord(p) /\ p.applied = o.applied /\ p.explicit = o.explicit
      /\ \A f \in DOMAIN Defaults :
           p.v[f] = IF f \notin o.explicit /\ SettingName(f) \in DOMAIN s THEN s[SettingName(f)] ELSE o.v[f]
  BY <1>2, FilledIn
<1> HIDE DEF p, s
<1>4. Progress' BY <1>1, <1>3 DEF Progress
<1>5. \A f : Given(f) = Calls(f) BY <1>2, CallNumbers
<1>6. ASSUME NEW f
      PROVE  /\ Calls(f)' = Calls(f)
             /\ Chosen(f)' = IF Calls(f) # {} THEN Latest(f)
                             ELSE IF SettingName(f) \in DOMAIN s THEN s[SettingName(f)] ELSE Latest(f)
  BY <1>1, <1>5 DEF Calls, Chosen, Latest
<1>7. \A f \in Plain : o'.v[f] = Chosen(f)' /\ (f \in o'.explicit <=> Calls(f)' # {})
  BY <1>1, <1>3, <1>5, <1>6 DEF OptionsTaken, Plain
<1>8. Calls("env")' = {} => o'.v["env_switcher"] = Chosen("env_switcher")'
  <2>1. "env_switcher" \in DOMAIN Defaults BY SettingNames
  <2> QED BY <1>1, <1>3, <1>5, <1>6, <2>1 DEF OptionsTaken
<1>9. "env" \in Plain BY SettingNames DEF Plain
<1> QED BY <1>4, <1>7, <1>8, <1>9 DEF SettingsTaken

\* What is chosen does not change once the options are applied and the settings
\* taken: nothing touches the call, the settings and the variables.
LEMMA ChoicesStay ==
  ASSUME UNCHANGED <<scene, taken, osenv>>
  PROVE  (\A f : Calls(f)' = Calls(f) /\ Chosen(f)' = Chosen(f)) /\ ChosenEnvironment' = ChosenEnvironment
<1>1. ASSUME NEW f PROVE Calls(f)' = Calls(f) /\ Chosen(f)' = Chosen(f) BY DEF Calls, Chosen
<1>2. /\ Calls("env")' = Calls("env") /\ Chosen("env")' = Chosen("env")
      /\ Chosen("env_switcher")' = Chosen("env_switcher")
  BY <1>1
<1>3. ChosenEnvironment' = ChosenEnvironment
  BY <1>2, Zenon DEF ChosenEnvironment, Getenv
<1> QED BY <1>1, <1>3

\* The environment is resolved, and nothing else is decided again.
LEMMA EnvironmentResolved ==
  ASSUME Progress, SettingsTaken, Prepare
  PROVE  Progress' /\ Planned'
<1> DEFINE env == ActiveEnvironment(o, Getenv(o.v.env_switcher))
           strategy == Strategy(o)
           v == [[o.v EXCEPT !["env"] = env] EXCEPT !["environment_strategy"] = strategy]
<1>1. UNCHANGED <<scene, taken, osenv>> /\ stage' \in {"sources", "failing"}
      /\ o' = [o EXCEPT !.v.env = env, !.v.environment_strategy = strategy]
  BY DEF Prepare, Goes, selfVars
<1>2. OptionsRecord(o) BY DEF Progress
<1>3. env = ChosenEnvironment
  <2>1. "env" \in Plain BY SettingNames DEF Plain
  <2>2. o.v["env"] = Chosen("env") /\ ("env" \in o.explicit <=> Calls("env") # {})
        /\ (Calls("env") = {} => o.v["env_switcher"] = Chosen("env_switcher"))
    BY <2>1 DEF SettingsTaken
  <2> QED BY <2>2 DEF ActiveEnvironment, ResolveEnv, ChosenEnvironment
<1> HIDE DEF env, strategy
<1>4. o' = [o EXCEPT !.v = v] BY <1>1, <1>2 DEF OptionsRecord, OptionFields
<1>5. /\ DOMAIN v = DOMAIN Defaults /\ v["env"] = env
      /\ \A f \in Plain \ {"env", "environment_strategy"} : v[f] = o.v[f]
  BY <1>2, SettingNames DEF OptionsRecord, Plain
<1> HIDE DEF v
<1>6. OptionsRecord(o') /\ o'.v = v /\ o'.applied = o.applied
  BY <1>2, <1>4, <1>5 DEF OptionsRecord, OptionFields
<1>7. Progress' BY <1>1, <1>6 DEF Progress
<1>8. (\A f : Chosen(f)' = Chosen(f)) /\ ChosenEnvironment' = ChosenEnvironment
  BY <1>1, ChoicesStay
<1>9. \A f \in Plain \ {"env", "environment_strategy"} : o'.v[f] = Chosen(f)'
  BY <1>5, <1>6, <1>8 DEF SettingsTaken
<1> QED BY <1>3, <1>5, <1>6, <1>7, <1>8, <1>9 DEF Planned

\* Steps that leave the settings, the account of the call and the variables alone.
LEMMA PlanStays ==
  ASSUME Progress, OptionsRecord(o)', UNCHANGED <<scene, taken, osenv>>,
         o'.v = o.v, o'.applied = o.applied, stage' \notin {"options", "reading"}
  PROVE  Progress' /\ (Planned => Planned')
<1>1. Progress' BY DEF Progress
<1>2. (\A f : Chosen(f)' = Chosen(f)) /\ ChosenEnvironment' = ChosenEnvironment BY ChoicesStay
<1> QED BY <1>1, <1>2 DEF Planned

\* Steps of the stages in which options are applied and settings read.
LEMMA OptionsStay ==
  ASSUME Progress, OptionsTaken, UNCHANGED <<scene, taken, o>>,
         stage \in {"options", "reading"},
         stage' = "options" \/ (stage' = "reading" /\ o.applied = Len(scene.call))
  PROVE  Progress' /\ OptionsTaken'
<1>1. \A f : Given(f)' = Given(f) /\ Latest(f)' = Latest(f) BY DEF Given, Latest
<1>2. o.v' = o.v /\ o.explicit' = o.explicit OBVIOUS
<1>3. OptionsTaken' BY <1>1, <1>2 DEF OptionsTaken
<1>4. Progress' BY DEF Progress, OptionsRecord
<1> QED BY <1>3, <1>4

\* New begins with the defaults.
LEMMA InitPlan == CreationInit => PlanInv
<1> SUFFICES ASSUME CreationInit PROVE PlanInv OBVIOUS
<1>1. /\ scene \in Scenes /\ stage = "options" /\ o = NoOptions /\ taken = NoSettings /\ result = "pending"
  BY DEF CreationInit
<1>2. /\ DOMAIN NoOptions = OptionFields /\ NoOptions.v = Defaults /\ NoOptions.explicit = {}
      /\ NoOptions.applied = 0
  BY DEF NoOptions, OptionFields
<1>3. Len(scene.call) \in Nat BY <1>1, ScenesAssumption DEF ScenesAssumption
<1>4. Progress BY <1>1, <1>2, <1>3 DEF Progress, OptionsRecord
<1>5. \A f : Given(f) = {} /\ Latest(f) = Defaults[f] BY <1>1, <1>2 DEF Given, Latest
<1>6. OptionsTaken BY <1>1, <1>2, <1>5 DEF OptionsTaken
<1> QED BY <1>1, <1>4, <1>6 DEF PlanInv

\* Every step of New keeps what has been decided.
LEMMA PlanKept == HoldingInv /\ PlanInv /\ [CreationNext]_creationVars => PlanInv'
<1> SUFFICES ASSUME HoldingInv, PlanInv, [CreationNext]_creationVars PROVE PlanInv' OBVIOUS
<1>0. Progress /\ (stage # "done" => result = "pending") BY DEF PlanInv, HoldingInv
<1>1. CASE Configure
  <2>1. stage = "options" /\ OptionsTaken /\ result' = "pending" /\ stage' \in {"options", "failing"}
    BY <1>0, <1>1 DEF Configure, Goes, PlanInv, held
  <2>2. CASE stage' = "options" BY <1>0, <1>1, <2>1, <2>2, OptionTaken DEF PlanInv
  <2>3. CASE stage' = "failing"
    <3>1. o' = o /\ scene' = scene BY <1>1, <2>3 DEF Configure, Goes
    <3>2. Progress' BY <1>0, <2>3, <3>1 DEF Progress, OptionsRecord
    <3> QED BY <2>1, <2>3, <3>2 DEF PlanInv
  <2> QED BY <2>1, <2>2, <2>3
<1>2. CASE BeginSettings
  <2>1. /\ stage = "options" /\ OptionsTaken /\ stage' = "reading" /\ o.applied = Len(scene.call)
        /\ UNCHANGED <<scene, taken, o, result>>
    BY <1>2 DEF BeginSettings, PlanInv, decided
  <2> QED BY <1>0, <2>1, OptionsStay DEF PlanInv
<1>3. CASE ReadSettings \/ Meanwhile
  <2>1. /\ stage \in {"options", "reading"} /\ OptionsTaken /\ UNCHANGED <<stage, scene, taken, o, result>>
    BY <1>3 DEF ReadSettings, Meanwhile, PlanInv, decided
  <2>2. stage = "reading" => o.applied = Len(scene.call) BY <1>0 DEF Progress
  <2> QED BY <1>0, <2>1, <2>2, OptionsStay DEF PlanInv
<1>4. CASE TakeSettings
  <2>1. stage = "reading" /\ OptionsTaken /\ result' = "pending" /\ stage' \in {"prepare", "failing"}
        /\ scene' = scene
    BY <1>0, <1>4 DEF TakeSettings, Goes, PlanInv, held
  <2>2. CASE stage' = "prepare" BY <1>0, <1>4, <2>1, <2>2, SettingsFillIn DEF PlanInv
  <2>3. CASE stage' = "failing"
    <3>1. o' = o \/ o' = ApplySelfConfig(o, reads[New].result.settings).o BY <1>4 DEF TakeSettings
    <3>2. OptionsRecord(o') /\ o'.applied = o.applied BY <1>0, <3>1, FilledIn DEF Progress
    <3>3. Progress' BY <1>0, <2>1, <2>3, <3>2 DEF Progress
    <3> QED BY <2>1, <2>3, <3>3 DEF PlanInv
  <2> QED BY <2>1, <2>2, <2>3
<1>5. CASE Prepare
  <2>1. SettingsTaken /\ stage' \in {"sources", "failing"} BY <1>5 DEF Prepare, Goes, PlanInv
  <2> QED BY <1>0, <1>5, <2>1, EnvironmentResolved DEF PlanInv
<1>6. CASE AppendNext \/ Assemble
  <2>1. /\ stage = "sources" /\ stage' \in {"sources", "load", "failing"}
        /\ UNCHANGED <<scene, taken, osenv, result>>
    BY <1>6 DEF AppendNext, Assemble, Goes, selfVars, held
  <2>2. \/ \E y : o' = [o EXCEPT !.loaders = y]
        \/ \E x, y : o' = [o EXCEPT !.appended = x, !.loaders = y]
    BY <1>6 DEF AppendNext, Assemble
  <2>3. OptionsRecord(o') /\ o'.v = o.v /\ o'.applied = o.applied
    BY <1>0, <2>2 DEF Progress, OptionsRecord, OptionFields
  <2>4. Progress' /\ (Planned => Planned') BY <1>0, <2>1, <2>3, PlanStays
  <2> QED BY <1>0, <2>1, <2>4 DEF PlanInv
<1>7. CASE AskProviders \/ Publish \/ WatchFails
  <2>1. /\ stage = "load" /\ stage' \in {"load", "failing", "done"} /\ UNCHANGED <<scene, taken, osenv, o>>
    BY <1>7 DEF AskProviders, Publish, WatchFails, Goes, selfVars, decided
  <2>2. OptionsRecord(o)' BY <1>0, <2>1 DEF Progress, OptionsRecord
  <2>3. Progress' /\ (Planned => Planned') BY <1>0, <2>1, <2>2, PlanStays
  <2> QED BY <2>1, <2>3 DEF PlanInv
<1>8. CASE Abandon
  <2>1. /\ stage' = "done" /\ result' = "error" /\ UNCHANGED <<scene, taken, osenv, o>>
    BY <1>8 DEF Abandon, selfVars, decided
  <2>2. OptionsRecord(o)' BY <1>0, <2>1 DEF Progress, OptionsRecord
  <2>3. Progress' BY <1>0, <2>1, <2>2, PlanStays
  <2> QED BY <2>1, <2>3 DEF PlanInv
<1>9. CASE UNCHANGED creationVars
  <2>1. UNCHANGED <<stage, scene, o, taken, result, osenv>> BY <1>9 DEF creationVars, decided, selfVars
  <2>2. \A f : Given(f)' = Given(f) /\ Latest(f)' = Latest(f) BY <2>1 DEF Given, Latest
  <2>3. (\A f : Calls(f)' = Calls(f) /\ Chosen(f)' = Chosen(f)) /\ ChosenEnvironment' = ChosenEnvironment
    BY <2>1, ChoicesStay
  <2> QED BY <2>1, <2>2, <2>3
          DEF PlanInv, Progress, OptionsRecord, OptionsTaken, SettingsTaken, Planned
<1> QED BY <1>1, <1>2, <1>3, <1>4, <1>5, <1>6, <1>7, <1>8, <1>9 DEF CreationNext, Decide

\* For every call of New, whatever its options and in whatever order, the load
\* that is made has for each setting the last option that names it, or else the
\* setting of the project, or else the default; and its environment is the
\* caller's, or else the switcher variable's, or else the one settled on so
\* (config.go, config_self.go, docs/environment.md).
THEOREM PrecedenceKept == CreationSpec => []PlanFollowsPrecedence
<1>1. PlanInv => PlanFollowsPrecedence
  BY DEF PlanInv, Planned, Plain, PlanFollowsPrecedence, Combined
<1> QED BY InitHolding, HoldingKept, InitPlan, PlanKept, <1>1, PTL DEF CreationSpec
-----------------------------------------------------------------------------
(* The inventory of environments. *)

SourcesListed(sources) ==
  \A i \in DOMAIN sources :
    sources[i].type = "environment_files" => sources[i].search \in Seq(STRING)

(* Wherever settings are kept, a source of environment files lists the       *)
(* directories it searches.                                                  *)
SearchesInv ==
  /\ \A f \in disk \cup home : SearchesListed(f.settings)
  /\ \A k \in DOMAIN cache : SearchesListed(cache[k].settings)
  /\ \A r \in Readers : SearchesListed(reads[r].result.settings)
  /\ SourcesListed(o.sources)

\* A nonempty set of naturals has a least element.
LEMMA Least ==
  ASSUME NEW S, S \subseteq Nat, S # {}
  PROVE  \E d \in S : \A c \in S : d <= c
<1> DEFINE Less == {ss \in Nat \X Nat : ss[1] < ss[2]}
<1>1. IsWellFoundedOn(Less, Nat)
  <2>1. Less = OpToRel(<, Nat) BY Zenon DEF OpToRel
  <2> QED BY <2>1, NatLessThanWellFounded, Zenon
<1>2. PICK d \in S : \A c \in S : ~(<<c, d>> \in Less)
  <2> HIDE DEF Less
  <2> QED BY <1>1, WFMin
<1>3. ASSUME NEW c \in S PROVE d <= c
  <2>1. c \in Nat /\ d \in Nat OBVIOUS
  <2>2. <<c, d>> \notin Less BY <1>2, Zenon
  <2> QED BY <2>1, <2>2
<1> QED BY <1>3

(* What a search for a name may find: something that is no regular file, *)
(* nothing, or a file.                                                    *)
Entry(name) == [name |-> name, envFile |-> TRUE, auto |-> FALSE]
Finds(project, dirs, name, found) ==
  \/ ~found.ok /\ found.loaders = <<>>
  \/ /\ found.ok /\ found.loaders = <<>>
     /\ \A f \in project : f.name = name => f.dir \notin Range(dirs)
  \/ /\ found.ok /\ found.loaders = <<Entry(name)>>
     /\ \E f \in project : f.name = name /\ f.dir \in Range(dirs) /\ f.regular

\* A file that is found is a regular one of that name in a directory searched,
\* and a search that finds nothing has no such name in any of them.
LEMMA FileFound ==
  ASSUME NEW project, NEW dirs \in Seq(STRING), NEW name
  PROVE  Finds(project, dirs, name, FindEnvironmentFile(project, dirs, name))
<1> DEFINE found == FindEnvironmentFile(project, dirs, name)
           Here(d) == {f \in project : f.dir = d /\ f.name = name}
           hits == {i \in DOMAIN dirs : Here(dirs[i]) # {}}
           first == CHOOSE i \in hits : \A j \in hits : i <= j
<1>1. CASE hits = {}
  <2>1. found = NoFile BY <1>1 DEF FindEnvironmentFile
  <2>2. \A f \in project : f.name = name => f.dir \notin Range(dirs) BY <1>1 DEF Range
  <2> QED BY <2>1, <2>2 DEF NoFile, Finds
<1>2. CASE hits # {}
  <2>1. hits \subseteq Nat OBVIOUS
  <2>2. first \in hits
    <3>1. \E i \in hits : \A j \in hits : i <= j
      <4> HIDE DEF hits
      <4> QED BY <1>2, <2>1, Least
    <3> HIDE DEF hits
    <3> QED BY <3>1
  <2>3. first \in DOMAIN dirs /\ Here(dirs[first]) # {} BY <2>2
  <2>4. found = IF \E f \in Here(dirs[first]) : ~f.regular THEN Refused
                ELSE [ok |-> TRUE, loaders |-> <<Entry(name)>>]
    BY <1>2, Zenon DEF FindEnvironmentFile, Entry
  <2> HIDE DEF first, found
  <2> SUFFICES Finds(project, dirs, name, found) BY DEF found
  <2>5. CASE \E f \in Here(dirs[first]) : ~f.regular BY <2>4, <2>5 DEF Refused, Finds
  <2>6. CASE ~ \E f \in Here(dirs[first]) : ~f.regular
    <3>1. PICK f \in project : f.dir = dirs[first] /\ f.name = name BY <2>3
    <3>2. f.regular BY <2>6, <3>1
    <3>3. f.dir \in Range(dirs) BY <2>3, <3>1 DEF Range
    <3>4. found.ok /\ found.loaders = <<Entry(name)>> BY <2>4, <2>6
    <3> QED BY <3>1, <3>2, <3>3, <3>4 DEF Finds
  <2> QED BY <2>5, <2>6
<1> QED BY <1>1, <1>2

\* The last of one or two.
LEMMA LastOfTwo ==
  ASSUME NEW a, NEW b, NEW s, s = <<>> \/ s = <<a>>
  PROVE  LET t == s \o <<b>> IN Len(t) \in DOMAIN t /\ t[Len(t)] = b
<1>1. CASE s = <<>> BY <1>1
<1>2. CASE s = <<a>> BY <1>2
<1> QED BY <1>1, <1>2

(* A name of its own, not that of the file all environments share. *)
Selectable(env) == env # "default" /\ env # ""

\* What the inventory offers brings a file of its own or is refused, and what it
\* does not offer has none, for any directories and whatever they hold.
LEMMA InventoryExact ==
  ASSUME NEW project, NEW source, source.search \in Seq(STRING),
         NEW env, Selectable(env)
  PROVE  LET found == BuildEnvironmentFileLoaders(project, source, env)
             own == \E j \in DOMAIN found.loaders : found.loaders[j].name = env
         IN IF env \in DiscoverNamedEnvironments(project, source) THEN own \/ ~found.ok ELSE ~own
<1> DEFINE common == "default"
           shared == FindEnvironmentFile(project, source.search, common)
           selected == FindEnvironmentFile(project, source.search, env)
           found == BuildEnvironmentFileLoaders(project, source, env)
           own == \E j \in DOMAIN found.loaders : found.loaders[j].name = env
           offered == env \in DiscoverNamedEnvironments(project, source)
           both == shared.loaders \o selected.loaders
<1> SUFFICES IF offered THEN own \/ ~found.ok ELSE ~own OBVIOUS
<1>1. offered <=> /\ \E f \in project : f.name = env /\ f.dir \in Range(source.search) /\ f.regular
                  /\ ~UnsafeEnvironmentName(env)
  BY DEF DiscoverNamedEnvironments, Selectable
<1>2. shared.loaders = <<>> \/ shared.loaders = <<Entry(common)>>
  <2> HIDE DEF common
  <2> QED BY FileFound DEF Finds
<1>3. Finds(project, source.search, env, selected) BY FileFound
<1>4. \/ found = Refused
      \/ /\ ~UnsafeEnvironmentName(env) /\ selected.ok
         /\ found = [ok |-> TRUE, loaders |-> both]
  BY DEF BuildEnvironmentFileLoaders, Selectable
<1>0. env # common BY DEF Selectable
<1> HIDE DEF found, shared, selected, offered, common, both, own
<1>5. CASE found = Refused BY <1>5 DEF Refused, own
<1>6. CASE found # Refused
  <2>1. /\ found.ok /\ found.loaders = both
        /\ ~UnsafeEnvironmentName(env) /\ selected.ok
    BY <1>4, <1>6
  <2>2. CASE selected.loaders = <<>>
    <3>1. ~offered BY <1>1, <1>3, <2>1, <2>2 DEF Finds
    <3>2. found.loaders = <<>> \/ found.loaders = <<Entry(common)>> BY <1>2, <2>1, <2>2 DEF both
    <3>3. ~own BY <1>0, <3>2 DEF Entry, own
    <3> QED BY <3>1, <3>3
  <2>3. CASE selected.loaders = <<Entry(env)>>
    <3>1. offered BY <1>1, <1>3, <2>1, <2>3 DEF Finds
    <3>2. Len(both) \in DOMAIN both /\ both[Len(both)] = Entry(env)
      BY <1>2, <2>3, LastOfTwo DEF both
    <3>3. own BY <2>1, <3>2 DEF Entry, own
    <3> QED BY <3>1, <3>3
  <2> QED BY <1>3, <2>1, <2>2, <2>3 DEF Finds
<1> QED BY <1>5, <1>6

\* Settings of files that list their directories list them once they are read.
LEMMA ReadListed ==
  ASSUME \A f \in disk \cup home : SearchesListed(f.settings), NEW e
  PROVE  SearchesListed(ReadFromDir(e).settings)
<1> DEFINE v == Getenv(Switcher)
           env == Selection(e, v)
           overlay == CHOOSE f \in Overlays(Found, env) : TRUE
<1>1. SearchesListed(NoSettings) BY DEF SearchesListed, NoSettings
<1>2. \A f \in Found : SearchesListed(f.settings) BY DEF Found
<1>3. BaseFiles(Found) # {} => SearchesListed(Base.settings) BY <1>2 DEF Base, BaseFiles
<1>4. Overlays(Found, env) # {} => SearchesListed(overlay.settings) BY <1>2 DEF Overlays
<1>5. BaseFiles(Found) # {} /\ Overlays(Found, env) # {} =>
        SearchesListed(MergeSettingsMaps(Base.settings, overlay.settings))
  <2> DEFINE base == Base.settings
             over == overlay.settings
             merged == MergeSettingsMaps(base, over)
  <2> HIDE DEF overlay
  <2>1. DOMAIN merged = DOMAIN base \cup DOMAIN over BY DEF MergeSettingsMaps
  <2>2. "sources" \in DOMAIN merged =>
          \/ "sources" \in DOMAIN over /\ merged["sources"] = over["sources"]
          \/ "sources" \in DOMAIN base /\ merged["sources"] = base["sources"]
    BY DEF MergeSettingsMaps
  <2> HIDE DEF merged, base, over
  <2>3. SearchesListed(base) /\ SearchesListed(over) => SearchesListed(merged)
    BY <2>2 DEF SearchesListed
  <2> QED BY <1>3, <1>4, <2>3 DEF merged, base, over
<1>6. \/ BaseFiles(Found) = {} /\ ReadWith(e, v) = Ok(NoSettings)
      \/ ReadWith(e, v) = Error
      \/ BaseFiles(Found) # {} /\ ReadWith(e, v) = Ok(Base.settings)
      \/ /\ BaseFiles(Found) # {} /\ Overlays(Found, env) # {}
         /\ ReadWith(e, v) = Ok(MergeSettingsMaps(Base.settings, overlay.settings))
  BY DEF ReadWith, WithOverlay
<1>7. ReadFromDir(e) = ReadWith(e, v) BY ReadDependsOnSwitcher
<1> HIDE DEF overlay, env, v
<1> QED BY <1>1, <1>3, <1>5, <1>6, <1>7 DEF Ok, Error

\* The readers and their surroundings keep the lists of directories.
LEMMA ReadersListed ==
  ASSUME SettingsInv, SearchesInv, [SelfNext]_selfVars
  PROVE  /\ \A f \in disk' \cup home' : SearchesListed(f.settings)
         /\ \A k \in DOMAIN cache' : SearchesListed(cache'[k].settings)
         /\ \A r \in Readers : SearchesListed(reads'[r].result.settings)
<1>1. /\ DOMAIN reads = Readers /\ \A r \in Readers : DOMAIN reads[r] = {"at", "key", "result"}
  BY DEF SettingsInv, Shape
<1>2. /\ \A f \in disk \cup home : SearchesListed(f.settings)
      /\ \A k \in DOMAIN cache : SearchesListed(cache[k].settings)
      /\ \A r \in Readers : SearchesListed(reads[r].result.settings)
  BY DEF SearchesInv
<1>3. SearchesListed(Error.settings) /\ SearchesListed(Idle.result.settings)
  BY DEF SearchesListed, Error, Idle, Ok, NoSettings
<1>4. ASSUME NEW r \in Readers, Read(r)
      PROVE  /\ UNCHANGED <<disk, home>>
             /\ \A k \in DOMAIN cache' : SearchesListed(cache'[k].settings)
             /\ \A q \in Readers : SearchesListed(reads'[q].result.settings)
  <2>1. UNCHANGED <<disk, home>>
    BY <1>4 DEF Read, StartRead, ReadStep, ReadFiles, StoreEntry, EndRead
  <2>2. CASE \E explicit : StartRead(r, explicit)
    <3>1. PICK explicit : StartRead(r, explicit) BY <2>2
    <3> DEFINE used == [at |-> "done", key |-> explicit, result |-> Ok(cache[explicit].settings)]
               fresh == [at |-> "read", key |-> explicit, result |-> Error]
    <3>2. CASE Valid(explicit)
      <4>1. reads' = [reads EXCEPT ![r] = used] /\ cache' = cache BY <3>1, <3>2 DEF StartRead
      <4>2. explicit \in DOMAIN cache BY <3>2 DEF Valid
      <4>3. SearchesListed(used.result.settings) BY <1>2, <4>2 DEF Ok
      <4> HIDE DEF used
      <4> QED BY <1>1, <1>2, <2>1, <4>1, <4>3
    <3>3. CASE ~Valid(explicit)
      <4>1. /\ reads' = [reads EXCEPT ![r] = fresh]
            /\ cache' = [k \in DOMAIN cache \ {explicit} |-> cache[k]]
        BY <3>1, <3>3 DEF StartRead
      <4>2. SearchesListed(fresh.result.settings) BY <1>3
      <4> HIDE DEF fresh
      <4> QED BY <1>1, <1>2, <2>1, <4>1, <4>2
    <3> QED BY <3>2, <3>3
  <2>3. CASE ReadFiles(r)
    <3> DEFINE found == ReadFromDir(reads[r].key)
               new == [reads[r] EXCEPT !.at = IF found.error THEN "done" ELSE "store", !.result = found]
    <3>1. reads' = [reads EXCEPT ![r] = new] /\ cache' = cache BY <2>3 DEF ReadFiles
    <3>2. SearchesListed(found.settings) BY <1>2, ReadListed
    <3>3. new.result = found
      <4> HIDE DEF found
      <4> QED BY <1>1
    <3> HIDE DEF new, found
    <3> QED BY <1>1, <1>2, <2>1, <3>1, <3>2, <3>3
  <2>4. CASE StoreEntry(r)
    <3> DEFINE entry == EntryFor(reads[r].result.settings)
               new == [reads[r] EXCEPT !.at = "done"]
    <3>1. /\ reads' = [reads EXCEPT ![r] = new]
          /\ cache' = [k \in DOMAIN cache \cup {reads[r].key} |-> IF k = reads[r].key THEN entry ELSE cache[k]]
      BY <2>4 DEF StoreEntry
    <3>2. new.result = reads[r].result BY <1>1
    <3>3. SearchesListed(entry.settings) BY <1>2 DEF EntryFor
    <3> HIDE DEF new, entry
    <3> QED BY <1>1, <1>2, <2>1, <3>1, <3>2, <3>3
  <2>5. CASE EndRead(r)
    <3>1. reads' = [reads EXCEPT ![r] = Idle] /\ cache' = cache BY <2>5 DEF EndRead
    <3> QED BY <1>1, <1>2, <1>3, <2>1, <3>1
  <2> QED BY <1>4, <2>2, <2>3, <2>4, <2>5 DEF Read, ReadStep
<1>5. CASE Churn
  <2>1. /\ home' = home /\ reads' = reads /\ (disk' = disk \/ disk' \in Editions)
        /\ cache' = cache \/ cache' = <<>>
    BY <1>5 DEF Churn, ClearCache, Edit, Setenv
  <2>2. \A files \in Editions : \A f \in files : SearchesListed(f.settings)
    BY ScenesAssumption DEF ScenesAssumption
  <2>3. DOMAIN cache' = {} \/ cache' = cache BY <2>1, SMT
  <2> QED BY <1>2, <2>1, <2>2, <2>3
<1>6. CASE UNCHANGED selfVars BY <1>2, <1>6 DEF selfVars
<1> QED BY <1>2, <1>4, <1>5, <1>6 DEF SelfNext

\* New begins with files that list their directories, and no sources.
LEMMA InitSearches == CreationInit => SearchesInv
<1> SUFFICES ASSUME CreationInit PROVE SearchesInv OBVIOUS
<1>1. /\ disk = scene.disk /\ home = scene.home /\ cache = <<>> /\ reads = [r \in Readers |-> Idle]
      /\ scene \in Scenes /\ o = NoOptions
  BY DEF CreationInit, SelfInit
<1>2. \A f \in disk \cup home : SearchesListed(f.settings)
  BY <1>1, ScenesAssumption DEF ScenesAssumption
<1>3. SearchesListed(Idle.result.settings) BY DEF SearchesListed, Idle, Ok, NoSettings
<1>4. DOMAIN cache = {}
  <2>1. cache = <<>> BY <1>1
  <2> QED BY <2>1, SMT
<1>5. o.sources = <<>> BY <1>1 DEF NoOptions
<1>6. SourcesListed(o.sources) BY <1>5 DEF SourcesListed
<1> QED BY <1>1, <1>2, <1>3, <1>4, <1>6 DEF SearchesInv

\* Every step of New keeps the lists of directories.
LEMMA SearchesKept ==
  SettingsInv /\ PlanInv /\ SearchesInv /\ [CreationNext]_creationVars => SearchesInv'
<1> SUFFICES ASSUME SettingsInv, PlanInv, SearchesInv, [CreationNext]_creationVars PROVE SearchesInv'
  OBVIOUS
<1>1. /\ \A f \in disk' \cup home' : SearchesListed(f.settings)
      /\ \A k \in DOMAIN cache' : SearchesListed(cache'[k].settings)
      /\ \A r \in Readers : SearchesListed(reads'[r].result.settings)
  BY CreationReads, ReadersListed
<1>2. OptionsRecord(o) BY DEF PlanInv, Progress
<1>3. SourcesListed(o.sources) BY DEF SearchesInv
<1>4. SourcesListed(<<>>) BY DEF SourcesListed
<1>5. SourcesListed(o'.sources)
  <2>1. CASE o' = o BY <1>3, <2>1
  <2>2. CASE Configure /\ o' # o
    <3> DEFINE option == scene.call[o.applied + 1]
               p == ApplyOption(o, option)
    <3>1. o' = [p EXCEPT !.applied = p.applied + 1] BY <2>2 DEF Configure
    <3>2. Effect(o, p, option.set, option.to) BY <1>2, OptionEffect
    <3> HIDE DEF p
    <3>3. DOMAIN p = OptionFields /\ p.sources = o.sources BY <3>2 DEF Effect, OptionsRecord
    <3>4. o'.sources = o.sources BY <3>1, <3>3 DEF OptionFields
    <3> QED BY <1>3, <3>4
  <2>3. CASE TakeSettings /\ o' # o
    <3> DEFINE s == reads[New].result.settings
    <3>1. o' = ApplySelfConfig(o, s).o BY <2>3 DEF TakeSettings
    <3>2. o'.sources = <<>> \/ ("sources" \in DOMAIN s /\ o'.sources = s["sources"])
      BY <1>2, <3>1, FilledIn
    <3>3. New \in Readers BY ScenesAssumption DEF ScenesAssumption
    <3>4. SearchesListed(s) BY <3>3 DEF SearchesInv
    <3> HIDE DEF s
    <3> QED BY <1>4, <3>2, <3>4 DEF SearchesListed, SourcesListed
  <2>4. CASE Prepare \/ AppendNext \/ Assemble
    <3>1. \/ \E x, y : o' = [o EXCEPT !.v.env = x, !.v.environment_strategy = y]
          \/ \E x, y : o' = [o EXCEPT !.appended = x, !.loaders = y]
          \/ \E y : o' = [o EXCEPT !.loaders = y]
      BY <2>4 DEF Prepare, AppendNext, Assemble
    <3>2. DOMAIN o = OptionFields BY <1>2 DEF OptionsRecord
    <3>3. o'.sources = o.sources BY <3>1, <3>2 DEF OptionFields
    <3> QED BY <1>3, <3>3
  <2>5. CASE BeginSettings \/ ReadSettings \/ Meanwhile \/ AskProviders
    <3>1. o' = o BY <2>5 DEF BeginSettings, ReadSettings, Meanwhile, AskProviders, decided
    <3> QED BY <2>1, <3>1
  <2>6. CASE Publish \/ WatchFails \/ Abandon \/ UNCHANGED creationVars
    <3>1. o' = o BY <2>6 DEF Publish, WatchFails, Abandon, decided, creationVars
    <3> QED BY <2>1, <3>1
  <2> QED BY <2>1, <2>2, <2>3, <2>4, <2>5, <2>6 DEF CreationNext, Decide
<1> QED BY <1>1, <1>5 DEF SearchesInv

\* Whatever directories a source searches and whatever they hold, an environment
\* that the inventory offers loads a file of its own or is refused, and one that
\* it does not offer has none (config_environments.go, config_environment_files.go).
THEOREM InventoryKept == CreationSpec => []InventoryLoads
<1>1. PlanInv /\ SearchesInv => InventoryLoads
  <2> SUFFICES ASSUME PlanInv, SearchesInv PROVE InventoryLoads OBVIOUS
  <2>1. ASSUME NEW i \in DOMAIN o.sources, NEW env \in {f.name : f \in scene.project} \ {"default"},
               o.sources[i].type = "environment_files"
        PROVE  LET found == BuildEnvironmentFileLoaders(scene.project, o.sources[i], env)
                   own == \E j \in DOMAIN found.loaders : found.loaders[j].name = env
               IN IF env \in DiscoverNamedEnvironments(scene.project, o.sources[i])
                  THEN own \/ ~found.ok ELSE ~own
    <3>1. o.sources[i].search \in Seq(STRING) BY <2>1 DEF SearchesInv, SourcesListed
    <3>2. \A f \in scene.project : f.name # ""
      BY ScenesAssumption DEF ScenesAssumption, PlanInv, Progress
    <3>3. Selectable(env) BY <3>2 DEF Selectable
    <3> QED BY <3>1, <3>3, InventoryExact
  <2> QED BY <2>1 DEF InventoryLoads
<1>2. CreationSpec => []SettingsInv
  <2>1. CreationSpec => SelfSpec BY CreationStarts, CreationReads, PTL DEF CreationSpec, SelfSpec
  <2> QED BY InitSelf, SelfKeeps, <2>1, PTL DEF SelfSpec
<1> QED BY InitHolding, HoldingKept, InitPlan, PlanKept, InitSearches, SearchesKept, <1>1, <1>2, PTL
        DEF CreationSpec
=============================================================================
