------------------------- MODULE VersionStore_proofs -------------------------
(***************************************************************************)
(* Retention and lock-free reads of the version store, for any             *)
(* directories, limits and bounds.                                         *)
(*                                                                         *)
(* The stamp of a save exceeds every stamp of its manager, which gives the *)
(* order.  What evict dooms is a version with as many newer ones as the    *)
(* smallest limit, and stays one because versions are only ever added to   *)
(* "written".  A file can be removed only while it is doomed, and a doomed *)
(* version is not in memory: a reader whose version loses its file sees    *)
(* the gap.                                                                *)
(***************************************************************************)
EXTENDS VersionStore, FiniteSetTheorems, TLAPS

VersionRecord == [n : Nat, ts : Nat, rank : Nat, run : Nat]

Types ==
  /\ storagePath \in Dir \cup {NoDir} /\ maxVersions \in Caps
  /\ pc \in {"idle", "write", "publish", "evict"}
  /\ lastTimestamp \in Nat /\ run \in Nat
  /\ IsFiniteSet(written) /\ written \subseteq VersionRecord
  /\ disk \in [Dir -> SUBSET written]
  /\ versions \subseteq written /\ saved \subseteq written
  /\ reader \in [step : {"idle", "disk", "missing"}, want : VersionRecord]

(* The save in progress, and what its eviction still has to remove. *)
Locked ==
  /\ pc = "idle" => saving = Nothing
  /\ pc = "write" => /\ saving \in VersionRecord
                     /\ saving.n = Cardinality(written) + 1
                     /\ saving.run = run /\ saving.ts = lastTimestamp
                     /\ \A w \in written : w.run = run => w.ts < saving.ts
  /\ pc = "publish" => saving \in written
  /\ pc = "evict" /\ saving # Nothing => saving \in written
  /\ pc # "evict" => doomed = {}
  /\ doomed # {} => storagePath # NoDir
  /\ doomed \cap versions = {}
  /\ \A v \in doomed : v \in written /\ Evictable(v)

(* Numbers and stamps of what was written, by this manager and by others. *)
Stamped ==
  /\ \A w \in written : /\ w.n <= Cardinality(written) /\ w.run <= run
                        /\ w.run = run => w.ts <= lastTimestamp
  /\ SaveOrderKept

(* Where a returned version is, the one about to be returned included. *)
Returned == saved \cup (IF pc = "evict" THEN {saving} \ {Nothing} ELSE {})
Accounted(v) == \/ Evictable(v)
                \/ v \in versions
                \/ \E d \in Dir : v \in disk[d]
                \/ v.run # run
Kept == \A v \in Returned : Accounted(v)

(* A file of the directory in use is known, doomed, older than its use, or *)
(* could not be removed.                                                   *)
Known == versions \cup unscanned \cup undeletable \cup doomed
         \cup (IF pc = "publish" THEN {saving} ELSE {})
FilesKnown == Files \subseteq Known

Reading == /\ reader.step = "disk" /\ ~gap => reader.want \in Files
           /\ ReadsFindRetained

StoreInv == Types /\ Locked /\ Stamped /\ Kept /\ FilesKnown /\ Reading
-----------------------------------------------------------------------------
\* The smallest limit a caller may ask for is one of them, and none is smaller.
LEMMA MinCapLeast ==
  ASSUME Caps # {}
  PROVE  MinCap \in Caps /\ \A c \in Caps : MinCap <= c
<1> DEFINE T == {0 .. c : c \in Caps}
<1>1. Caps \subseteq Nat BY CapsAssumption
<1>2. \A c \in Caps : IsFiniteSet(0 .. c) BY <1>1, FS_Interval
<1>3. T \subseteq FiniteSubsetsOf(Nat) BY <1>1, <1>2 DEF FiniteSubsetsOf
<1>4. PICK x \in T : \A y \in T : ~ (<<y, x>> \in StrictSubsetOrdering(Nat))
  <2>1. T # {} OBVIOUS
  <2>2. IsWellFoundedOn(StrictSubsetOrdering(Nat), FiniteSubsetsOf(Nat))
    BY FS_StrictSubsetOrderingWellFounded
  <2> HIDE DEF T
  <2> QED BY <1>3, <2>1, <2>2, WFMin
<1>5. PICK c \in Caps : x = 0 .. c OBVIOUS
<1>6. ASSUME NEW d \in Caps, d < c PROVE FALSE
  <2>1. 0 .. d \subseteq 0 .. c /\ c \in 0 .. c /\ c \notin 0 .. d BY <1>1, <1>6
  <2>2. 0 .. d \in SUBSET Nat /\ 0 .. c \in SUBSET Nat /\ 0 .. d # 0 .. c BY <1>1, <2>1
  <2>3. <<0 .. d, 0 .. c>> \in StrictSubsetOrdering(Nat)
    BY <2>1, <2>2 DEF StrictSubsetOrdering
  <2> QED BY <1>4, <1>5, <2>3
<1>7. \A d \in Caps : c <= d BY <1>1, <1>6
<1> QED BY <1>7 DEF MinCap

\* A version newer than another one of its set is a record newer than it, so
\* what evict drops from known versions has its limit of newer ones.
LEMMA OldestEvictable ==
  ASSUME IsFiniteSet(written), NEW known \in SUBSET written,
         NEW cap \in Caps, NEW v \in Oldest(known, cap)
  PROVE  v \in known /\ Evictable(v)
<1> DEFINE Above == {w \in known : Newer(w, v)}
<1>1. v \in known /\ Cardinality(Above) >= cap BY DEF Oldest
<1>2. Above \in SUBSET NewerThan(v) BY DEF NewerThan
<1>3. NewerThan(v) \in SUBSET written BY DEF NewerThan
<1>4. IsFiniteSet(NewerThan(v)) BY <1>3, FS_Subset
<1>5. IsFiniteSet(Above) /\ Cardinality(Above) <= Cardinality(NewerThan(v))
  BY <1>2, <1>4, FS_Subset
<1>6. Cardinality(Above) \in Nat /\ Cardinality(NewerThan(v)) \in Nat
  BY <1>4, <1>5, FS_CardinalityType
<1>7. MinCap <= cap /\ MinCap \in Nat /\ cap \in Nat BY MinCapLeast, CapsAssumption
<1> HIDE DEF Above
<1> QED BY <1>1, <1>5, <1>6, <1>7 DEF Evictable

\* Versions are only added to those written: one that may be evicted stays so.
LEMMA EvictableStays ==
  ASSUME Caps # {}, IsFiniteSet(written'), written \subseteq written',
         NEW v, Evictable(v)
  PROVE  Evictable(v)'
<1>1. NewerThan(v) \in SUBSET NewerThan(v)' BY DEF NewerThan
<1>2. NewerThan(v)' \in SUBSET written' BY DEF NewerThan
<1>3. IsFiniteSet(NewerThan(v)') BY <1>2, FS_Subset
<1>4. IsFiniteSet(NewerThan(v)) /\ Cardinality(NewerThan(v)) <= Cardinality(NewerThan(v)')
  BY <1>1, <1>3, FS_Subset
<1>5. Cardinality(NewerThan(v)) \in Nat /\ Cardinality(NewerThan(v)') \in Nat
  BY <1>3, <1>4, FS_CardinalityType
<1>6. MinCap \in Nat BY MinCapLeast, CapsAssumption
<1> QED BY <1>4, <1>5, <1>6 DEF Evictable

\* The stamp of a save is later than every stamp of the manager so far.
LEMMA StampLater ==
  ASSUME NEW now \in 1 .. MaxClock, lastTimestamp \in Nat
  PROVE  Stamp(now) \in Nat /\ Stamp(now) > lastTimestamp
BY BoundsAssumption DEF Stamp

\* Initially nothing is stored.
LEMMA InitStore == Init => StoreInv
<1> SUFFICES ASSUME Init PROVE StoreInv OBVIOUS
<1> USE DEF Init
<1>1. Types BY FS_EmptySet DEF Types, Quiet, Nothing, VersionRecord
<1>2. Locked BY DEF Locked
<1>3. Stamped BY DEF Stamped, SaveOrderKept
<1>4. Kept BY DEF Kept, Returned
<1>5. FilesKnown BY DEF FilesKnown, Files
<1>6. Reading BY DEF Reading, ReadsFindRetained, Quiet
<1> QED BY <1>1, <1>2, <1>3, <1>4, <1>5, <1>6 DEF StoreInv

-----------------------------------------------------------------------------
\* Every action keeps the types.
LEMMA TypesStep == ASSUME StoreInv, Next PROVE Types'
<1> USE DEF StoreInv, Types, manager, history
<1>1. CASE SaveBegin BY <1>1, StampLater DEF SaveBegin
<1>2. CASE SaveWrite
  <2>1. CASE pc' = "publish"
    <3>1. pc = "write" /\ saving \in VersionRecord /\ written' = written \cup {saving}
          /\ disk' = IF storagePath = NoDir THEN disk
                     ELSE [disk EXCEPT ![storagePath] = @ \cup {saving}]
      BY <1>2, <2>1 DEF SaveWrite, Locked
    <3>2. IsFiniteSet(written') BY <3>1, FS_AddElement
    <3>3. disk' \in [Dir -> SUBSET written'] BY <3>1
    <3> QED BY <1>2, <2>1, <3>1, <3>2, <3>3 DEF SaveWrite
  <2>2. CASE pc' # "publish" BY <1>2, <2>2 DEF SaveWrite
  <2> QED BY <2>1, <2>2
<1>3. CASE SavePublish BY <1>3 DEF SavePublish, Evict, Locked
<1>4. CASE RemoveFile BY <1>4 DEF RemoveFile, Locked
<1>5. CASE Unlock BY <1>5 DEF Unlock, Locked
<1>6. CASE Reconfigure BY <1>6 DEF Reconfigure, Evict
<1>7. CASE ListVersions BY <1>7 DEF ListVersions, Listed, Files
<1>8. CASE GetMemory BY <1>8 DEF GetMemory
<1>9. CASE GetDisk BY <1>9 DEF GetDisk, Quiet, Nothing, VersionRecord
<1>10. CASE GetReturn BY <1>10 DEF GetReturn, Quiet, Nothing, VersionRecord
<1>11. CASE Restart BY <1>11 DEF Restart, Quiet, Nothing, VersionRecord
<1> QED BY <1>1, <1>2, <1>3, <1>4, <1>5, <1>6, <1>7, <1>8, <1>9, <1>10, <1>11
        DEF Next, Step

\* What is evictable or written before a step is so after it.
LEMMA Monotone ==
  ASSUME StoreInv, Next
  PROVE  /\ written \subseteq written'
         /\ \A v : Evictable(v) => Evictable(v)'
<1>1. written \subseteq written'
  BY DEF Next, Step, SaveBegin, SaveWrite, SavePublish, RemoveFile, Unlock,
         Reconfigure, ListVersions, GetMemory, GetDisk, GetReturn, Restart, history
<1>2. Caps # {} /\ IsFiniteSet(written') BY TypesStep DEF StoreInv, Types
<1> QED BY <1>1, <1>2, EvictableStays

\* An eviction of known versions dooms only what is written and evictable, and
\* what it forgets is evictable.
LEMMA EvictDooms ==
  ASSUME IsFiniteSet(written), written' = written,
         NEW known \in SUBSET written, NEW cap \in Caps, NEW path \in Dir \cup {NoDir},
         Evict(known, cap, path)
  PROVE  /\ \A v \in doomed' : v \in written' /\ Evictable(v)'
         /\ \A v \in known \ versions' : Evictable(v)'
         /\ doomed' \cap versions' = {}
         /\ doomed' # {} => path # NoDir
         /\ path # NoDir => known \subseteq versions' \cup doomed'
<1>1. \A v \in Oldest(known, cap) : v \in known /\ Evictable(v) BY OldestEvictable
<1>2. \A v \in Oldest(known, cap) : v \in known /\ Evictable(v)'
  BY <1>1, EvictableStays
<1> QED BY <1>2 DEF Evict

\* The record in progress and the files still to be removed stay as they are
\* described, step by step.
LEMMA LockedStep == ASSUME StoreInv, Next PROVE Locked'
<1> USE DEF StoreInv, manager, history
<1>0. Types' /\ written \subseteq written' /\ \A v : Evictable(v) => Evictable(v)'
  BY TypesStep, Monotone
<1>1. CASE SaveBegin
  <2>1. PICK now \in 1 .. MaxClock, r \in 0 .. 1 :
          /\ lastTimestamp' = Stamp(now)
          /\ \/ /\ pc' = "write"
                /\ saving' = [n |-> Cardinality(written) + 1,
                              ts |-> Stamp(now), rank |-> r, run |-> run]
             \/ UNCHANGED <<pc, saving>>
    BY <1>1 DEF SaveBegin
  <2>2. Stamp(now) \in Nat /\ Stamp(now) > lastTimestamp BY StampLater DEF Types
  <2>3. Cardinality(written) \in Nat BY FS_CardinalityType DEF Types
  <2>4. pc = "idle" /\ doomed = {} /\ doomed' = {} /\ UNCHANGED <<written, run>>
    BY <1>1 DEF SaveBegin, Locked
  <2>5. CASE UNCHANGED <<pc, saving>> BY <2>4, <2>5 DEF Locked
  <2>6. CASE /\ pc' = "write"
             /\ saving' = [n |-> Cardinality(written) + 1,
                           ts |-> Stamp(now), rank |-> r, run |-> run]
    <3>1. saving' \in VersionRecord BY <2>2, <2>3, <2>6 DEF VersionRecord, Types
    <3>2. \A w \in written : w.run = run => w.ts < saving'.ts
      BY <2>2, <2>6 DEF Stamped, Types, VersionRecord
    <3> QED BY <2>1, <2>4, <2>6, <3>1, <3>2 DEF Locked
  <2> QED BY <2>1, <2>5, <2>6
<1>2. CASE SaveWrite BY <1>2 DEF SaveWrite, Locked
<1>3. CASE SavePublish
  <2>1. versions \cup {saving} \in SUBSET written BY <1>3 DEF SavePublish, Locked, Types
  <2>2. /\ \A v \in doomed' : v \in written' /\ Evictable(v)'
        /\ doomed' \cap versions' = {}
        /\ doomed' # {} => storagePath # NoDir
    BY <1>3, <2>1, EvictDooms DEF SavePublish, Types
  <2> QED BY <1>3, <2>2 DEF SavePublish, Locked
<1>4. CASE RemoveFile BY <1>0, <1>4 DEF RemoveFile, Locked
<1>5. CASE Unlock BY <1>5 DEF Unlock, Locked
<1>6. CASE Reconfigure
  <2>1. PICK d \in Dir \cup {NoDir}, cap \in Caps \cup {maxVersions} :
          storagePath' = d /\ Evict(versions, cap, d)
    BY <1>6 DEF Reconfigure
  <2>2. cap \in Caps /\ written' = written BY <1>6 DEF Reconfigure, Types
  <2>3. /\ \A v \in doomed' : v \in written' /\ Evictable(v)'
        /\ doomed' \cap versions' = {}
        /\ doomed' # {} => d # NoDir
    BY <2>1, <2>2, EvictDooms DEF Types
  <2> QED BY <1>6, <2>1, <2>3, <2>2 DEF Reconfigure, Locked
<1>7. CASE ListVersions BY <1>7 DEF ListVersions, Locked
<1>8. CASE GetMemory BY <1>0, <1>8 DEF GetMemory, Locked
<1>9. CASE GetDisk BY <1>0, <1>9 DEF GetDisk, Locked
<1>10. CASE GetReturn BY <1>0, <1>10 DEF GetReturn, Locked
<1>11. CASE Restart BY <1>11 DEF Restart, Locked
<1> QED BY <1>1, <1>2, <1>3, <1>4, <1>5, <1>6, <1>7, <1>8, <1>9, <1>10, <1>11
        DEF Next, Step

\* Numbers and stamps: the version written by this step is the newest of its
\* manager, and no other step writes one.
LEMMA StampedStep == ASSUME StoreInv, Next PROVE Stamped'
<1> USE DEF StoreInv, manager, history
<1>0. Types /\ Types' BY TypesStep
<1>1. CASE SaveBegin
  <2>1. lastTimestamp' > lastTimestamp /\ lastTimestamp' \in Nat
    BY <1>1, StampLater DEF SaveBegin, Types
  <2> QED BY <1>1, <2>1 DEF SaveBegin, Stamped, SaveOrderKept, Types, VersionRecord
<1>2. CASE SaveWrite
  <2>1. CASE pc' = "publish"
    <3>1. /\ written' = written \cup {saving} /\ UNCHANGED <<run, lastTimestamp>>
          /\ pc = "write" /\ saving \in VersionRecord
          /\ saving.n = Cardinality(written) + 1
          /\ saving.run = run /\ saving.ts = lastTimestamp
          /\ \A w \in written : w.run = run => w.ts < saving.ts
      BY <1>2, <2>1 DEF SaveWrite, Locked
    <3>2. Cardinality(written) \in Nat BY FS_CardinalityType DEF Types
    <3>3. saving \notin written BY <3>1, <3>2 DEF Stamped, Types, VersionRecord
    <3>4. Cardinality(written') = Cardinality(written) + 1
      BY <3>1, <3>3, FS_AddElement DEF Types
    <3>5. ASSUME NEW w \in written'
          PROVE  w.n <= Cardinality(written') /\ w.run <= run' /\ (w.run = run' => w.ts <= lastTimestamp')
      BY <3>1, <3>2, <3>4 DEF Stamped, Types, VersionRecord
    <3>6. ASSUME NEW v \in written', NEW w \in written', v.run = w.run, v.n > w.n
          PROVE  Newer(v, w)
      <4>1. CASE v \in written /\ w \in written
        BY <3>6, <4>1 DEF Stamped, SaveOrderKept
      <4>2. CASE v = saving /\ w \in written
        BY <3>1, <3>6, <4>2 DEF Newer, Types, VersionRecord
      <4>3. CASE w = saving
        BY <3>1, <3>2, <3>5, <3>6, <4>3, <3>4 DEF Stamped, Types, VersionRecord
      <4> QED BY <3>1, <4>1, <4>2, <4>3
    <3> QED BY <3>5, <3>6 DEF Stamped, SaveOrderKept
  <2>2. CASE pc' # "publish" BY <1>2, <2>2 DEF SaveWrite, Stamped, SaveOrderKept
  <2> QED BY <2>1, <2>2
<1>3. CASE UNCHANGED <<written, run, lastTimestamp>>
  BY <1>3 DEF Stamped, SaveOrderKept
<1>4. CASE Restart
  BY <1>4 DEF Restart, Stamped, SaveOrderKept, Types, VersionRecord
<1>5. \/ SaveBegin \/ SaveWrite \/ Restart \/ UNCHANGED <<written, run, lastTimestamp>>
  BY DEF Next, Step, SavePublish, RemoveFile, Unlock, Reconfigure, ListVersions,
         GetMemory, GetDisk, GetReturn
<1> QED BY <1>1, <1>2, <1>3, <1>4, <1>5

\* A returned version leaves memory or its directory only when it is evictable.
LEMMA KeptStep == ASSUME StoreInv, Next PROVE Kept'
<1> USE DEF StoreInv, manager, history
<1>0. Types /\ Types' /\ Locked /\ Locked' /\ \A v : Evictable(v) => Evictable(v)'
  BY TypesStep, LockedStep, Monotone
<1>1. CASE SaveBegin
  <2>1. Returned' \subseteq Returned BY <1>1 DEF SaveBegin, Returned
  <2> QED BY <1>0, <1>1, <2>1 DEF SaveBegin, Kept, Accounted
<1>2. CASE SaveWrite
  <2>1. Returned' \subseteq Returned BY <1>2 DEF SaveWrite, Returned
  <2>2. \A d \in Dir : disk[d] \subseteq disk'[d] BY <1>2 DEF SaveWrite, Types
  <2> QED BY <1>0, <1>2, <2>1, <2>2 DEF SaveWrite, Kept, Accounted
<1>3. CASE SavePublish
  <2>1. versions \cup {saving} \in SUBSET written BY <1>3 DEF SavePublish, Locked, Types
  <2>2. \A v \in (versions \cup {saving}) \ versions' : Evictable(v)'
    BY <1>3, <2>1, EvictDooms DEF SavePublish, Types
  <2>3. Returned' \subseteq Returned \cup {saving} BY <1>3 DEF SavePublish, Returned
  <2> QED BY <1>0, <1>3, <2>2, <2>3 DEF SavePublish, Kept, Accounted
<1>4. CASE RemoveFile
  <2>1. Returned' = Returned BY <1>4 DEF RemoveFile, Returned
  <2>2. PICK v \in doomed : disk' = disk \/ disk' = [disk EXCEPT ![storagePath] = @ \ {v}]
    BY <1>4 DEF RemoveFile
  <2>3. Evictable(v)' BY <1>0 DEF Locked
  <2>4. \A u, d : d \in Dir /\ u \in disk[d] /\ u # v => u \in disk'[d]
    BY <2>2 DEF Types
  <2> QED BY <1>0, <1>4, <2>1, <2>3, <2>4 DEF RemoveFile, Kept, Accounted
<1>5. CASE Unlock
  <2>1. Returned' \subseteq Returned BY <1>5 DEF Unlock, Returned
  <2> QED BY <1>0, <1>5, <2>1 DEF Unlock, Kept, Accounted
<1>6. CASE Reconfigure
  <2>1. PICK d \in Dir \cup {NoDir}, cap \in Caps \cup {maxVersions} :
          Evict(versions, cap, d)
    BY <1>6 DEF Reconfigure
  <2>2. cap \in Caps /\ written' = written BY <1>6 DEF Reconfigure, Types
  <2>3. \A v \in versions \ versions' : Evictable(v)'
    BY <2>1, <2>2, EvictDooms DEF Types
  <2>4. Returned' \subseteq Returned BY <1>6 DEF Reconfigure, Returned, Locked
  <2> QED BY <1>0, <1>6, <2>3, <2>4 DEF Reconfigure, Kept, Accounted
<1>7. CASE ListVersions
  <2>1. Returned' \subseteq Returned BY <1>7 DEF ListVersions, Returned
  <2> QED BY <1>0, <1>7, <2>1 DEF ListVersions, Listed, Kept, Accounted
<1>8. CASE GetMemory \/ GetDisk \/ GetReturn
  <2>1. UNCHANGED <<disk, versions, pc, saving, run, written, saved>>
    BY <1>8 DEF GetMemory, GetDisk, GetReturn
  <2>2. Returned' = Returned BY <2>1 DEF Returned
  <2> QED BY <1>0, <2>1, <2>2 DEF Kept, Accounted
<1>9. CASE Restart
  <2>1. ASSUME NEW v \in written PROVE v.run # run'
    BY <1>9 DEF Restart, Stamped, Types, VersionRecord
  <2>2. Returned' \subseteq written BY <1>9 DEF Restart, Returned, Types
  <2> QED BY <2>1, <2>2 DEF Kept, Accounted
<1> QED BY <1>1, <1>2, <1>3, <1>4, <1>5, <1>6, <1>7, <1>8, <1>9 DEF Next, Step

\* No step leaves a file of the directory in use unaccounted for.
LEMMA FilesStep == ASSUME StoreInv, Next PROVE FilesKnown'
<1> USE DEF StoreInv, manager, history
<1>0. Types /\ Types' /\ Locked /\ Locked' BY TypesStep, LockedStep
<1>1. CASE SaveBegin BY <1>0, <1>1 DEF SaveBegin, FilesKnown, Files, Known, Locked
<1>2. CASE SaveWrite
  <2>1. Files' \subseteq Files \cup (IF pc' = "publish" THEN {saving'} ELSE {})
    BY <1>2 DEF SaveWrite, Files, Types
  <2>2. Known \subseteq Known' BY <1>2 DEF SaveWrite, Known
  <2> QED BY <2>1, <2>2 DEF FilesKnown, Known
<1>3. CASE SavePublish
  <2>1. versions \cup {saving} \in SUBSET written BY <1>3 DEF SavePublish, Locked, Types
  <2>2. storagePath # NoDir => versions \cup {saving} \subseteq versions' \cup doomed'
    BY <1>3, <2>1, EvictDooms DEF SavePublish, Types
  <2> QED BY <1>3, <2>2 DEF SavePublish, Locked, FilesKnown, Files, Known
<1>4. CASE RemoveFile
  <2>1. PICK v \in doomed :
          /\ doomed' = doomed \ {v}
          /\ \/ disk' = [disk EXCEPT ![storagePath] = @ \ {v}] /\ UNCHANGED undeletable
             \/ undeletable' = undeletable \cup {v} /\ UNCHANGED disk
    BY <1>4 DEF RemoveFile
  <2>2. storagePath \in Dir BY DEF Locked, Types
  <2>3. v \in Files' => v \in undeletable' BY <1>4, <2>1, <2>2 DEF RemoveFile, Files, Types
  <2>4. Files' \subseteq Files BY <1>4, <2>1, <2>2 DEF RemoveFile, Files, Types
  <2>5. Known \subseteq Known' \cup {v} BY <1>4, <2>1 DEF RemoveFile, Known
  <2>6. undeletable' \subseteq Known' BY DEF Known
  <2> QED BY <2>3, <2>4, <2>5, <2>6 DEF FilesKnown
<1>5. CASE Unlock BY <1>5 DEF Unlock, FilesKnown, Files, Known
<1>6. CASE Reconfigure
  <2>1. PICK d \in Dir \cup {NoDir}, cap \in Caps \cup {maxVersions} :
          /\ storagePath' = d /\ Evict(versions, cap, d)
          /\ unscanned' = IF d \in {storagePath, NoDir} THEN unscanned
                          ELSE disk[d] \ versions
    BY <1>6 DEF Reconfigure
  <2>2. cap \in Caps /\ written' = written BY <1>6 DEF Reconfigure, Types
  <2>3. d # NoDir => versions \subseteq versions' \cup doomed'
    BY <2>1, <2>2, EvictDooms DEF Types
  <2> QED BY <1>6, <2>1, <2>3 DEF Reconfigure, Locked, FilesKnown, Files, Known
<1>7. CASE ListVersions
  BY <1>7 DEF ListVersions, Listed, FilesKnown, Files, Known
<1>8. CASE GetMemory \/ GetDisk \/ GetReturn
  BY <1>8 DEF GetMemory, GetDisk, GetReturn, FilesKnown, Files, Known
<1>9. CASE Restart BY <1>9 DEF Restart, FilesKnown, Files, Known
<1> QED BY <1>1, <1>2, <1>3, <1>4, <1>5, <1>6, <1>7, <1>8, <1>9 DEF Next, Step

\* A reader that goes to the directory finds its version there, unless the gap
\* was seen: a file is removed only while its version is not in memory.
LEMMA ReadingStep == ASSUME StoreInv, Next PROVE Reading'
<1> USE DEF StoreInv, manager, history
<1>0. Types /\ Locked /\ Reading BY DEF StoreInv
<1>g. gap' = /\ reader'.step # "idle"
             /\ \/ gap
                \/ reader.step # "idle" /\ storagePath' # storagePath
                \/ ~Retrievable(reader.want)'
  BY DEF Next
<1>r. Retrievable(reader.want)' = (reader'.want \in versions' \cup Files')
  BY DEF Retrievable
<1>1. CASE GetMemory
  <2>1. reader'.step = "disk" /\ reader'.want \notin versions /\ versions' = versions
    BY <1>1 DEF GetMemory
  <2> QED BY <1>1, <1>g, <1>r, <2>1 DEF GetMemory, Reading, ReadsFindRetained
<1>2. CASE GetDisk
  <2>1. UNCHANGED <<versions, storagePath>> /\ Files' = Files BY <1>2 DEF GetDisk, Files
  <2>2. CASE reader.want \in Files
    BY <1>2, <2>2 DEF GetDisk, Quiet, Reading, ReadsFindRetained
  <2>3. CASE reader.want \notin Files
    <3>1. reader'.step = "missing" BY <1>2, <2>3 DEF GetDisk, Types
    <3>2. gap BY <1>2, <2>3 DEF GetDisk, Reading
    <3> QED BY <3>1, <3>2, <1>g DEF Reading, ReadsFindRetained
  <2> QED BY <2>2, <2>3
<1>3. CASE GetReturn \/ Restart
  BY <1>3 DEF GetReturn, Restart, Quiet, Reading, ReadsFindRetained
<1>4. CASE RemoveFile
  <2>1. PICK v \in doomed : disk' = disk \/ disk' = [disk EXCEPT ![storagePath] = @ \ {v}]
    BY <1>4 DEF RemoveFile
  <2>2. UNCHANGED <<reader, versions, storagePath>> /\ v \notin versions
    BY <1>4 DEF RemoveFile, Locked
  <2>3. \A u \in Files : u = v \/ u \in Files' BY <2>1, <2>2 DEF Files, Types, Locked
  <2>4. Files' \subseteq Files BY <2>1, <2>2 DEF Files, Types, Locked
  <2> QED BY <1>g, <1>r, <2>2, <2>3, <2>4 DEF Reading, ReadsFindRetained
<1>5. CASE SaveBegin \/ SaveWrite \/ SavePublish \/ Unlock \/ Reconfigure \/ ListVersions
  <2>1. reader' = reader
    BY <1>5 DEF SaveBegin, SaveWrite, SavePublish, Unlock, Reconfigure, ListVersions
  <2>2. storagePath' = storagePath => Files \subseteq Files'
    BY <1>5 DEF SaveBegin, SaveWrite, SavePublish, Unlock, Reconfigure, ListVersions,
                Files, Types
  <2> QED BY <1>g, <2>1, <2>2 DEF Reading, ReadsFindRetained
<1> QED BY <1>1, <1>2, <1>3, <1>4, <1>5 DEF Next, Step

-----------------------------------------------------------------------------
\* What the store keeps is invariant.
THEOREM StoreInvariant == Spec => []StoreInv
<1>1. StoreInv /\ [Next]_vars => StoreInv'
  <2> SUFFICES ASSUME StoreInv, [Next]_vars PROVE StoreInv' OBVIOUS
  <2>1. CASE Next
    BY <2>1, TypesStep, LockedStep, StampedStep, KeptStep, FilesStep, ReadingStep
    DEF StoreInv
  <2>2. CASE UNCHANGED vars
    <3>1. \A v : Evictable(v)' <=> Evictable(v)
      BY <2>2 DEF vars, manager, history, Evictable, NewerThan
    <3>2. Types' BY <2>2 DEF StoreInv, Types, vars, manager, history
    <3>3. Locked' BY <2>2, <3>1 DEF StoreInv, Locked, vars, manager, history
    <3>4. Stamped'
      BY <2>2 DEF StoreInv, Stamped, SaveOrderKept, vars, manager, history
    <3>5. Kept'
      BY <2>2, <3>1 DEF StoreInv, Kept, Returned, Accounted, vars, manager, history
    <3>6. FilesKnown'
      BY <2>2 DEF StoreInv, FilesKnown, Files, Known, vars, manager, history
    <3>7. Reading'
      BY <2>2 DEF StoreInv, Reading, ReadsFindRetained, Files, vars, manager, history
    <3> QED BY <3>2, <3>3, <3>4, <3>5, <3>6, <3>7 DEF StoreInv
  <2> QED BY <2>1, <2>2
<1> QED BY InitStore, <1>1, PTL DEF Spec

\* Retention, for any number of saves, restarts and directories: versions are
\* ordered as they were saved, none returned is lost while it is among the
\* newest of the smallest limit, and an unlocked manager knows every file of
\* its directory that is not older than its use or could not be removed.
THEOREM RetentionKept == Spec => []RetentionExact
<1>1. StoreInv => RetentionExact
  <2> SUFFICES ASSUME StoreInv PROVE RetentionExact OBVIOUS
  <2>1. SaveOrderKept BY DEF StoreInv, Stamped
  <2>2. NoVersionLostEarly
    BY DEF StoreInv, Kept, Returned, Accounted, NoVersionLostEarly
  <2>3. pc = "idle" => Files \subseteq versions \cup unscanned \cup undeletable
    BY DEF StoreInv, FilesKnown, Known, Locked
  <2> QED BY <2>1, <2>2, <2>3 DEF RetentionExact
<1> QED BY StoreInvariant, <1>1, PTL

\* A version that can be retrieved during the whole of a GetVersion call is
\* found by it, although it holds no lock between memory and directory.
THEOREM ReadsSound == Spec => []ReadsFindRetained
<1>1. StoreInv => ReadsFindRetained BY DEF StoreInv, Reading
<1> QED BY StoreInvariant, <1>1, PTL
=============================================================================
