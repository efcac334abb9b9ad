---------------------------- MODULE VersionStore ----------------------------
(***************************************************************************)
(* observe/version.go: the store behind SaveVersion and RollbackToVersion. *)
(* A save takes the write lock, stamps the version, writes its file, then  *)
(* puts it in memory and evicts the oldest versions from memory and disk.  *)
(* The process may crash between any two of these steps; a new manager on  *)
(* the same directory starts with an empty memory and with a zero          *)
(* lastTimestamp, and time.Now may be set back at any time.  A reader looks into   *)
(* memory under the read lock and into the directory without any lock.     *)
(*                                                                         *)
(* A version is [n, ts, rank, run]: its payload is the number n of the     *)
(* save, rank stands for the random part of its ULID, run for the manager  *)
(* that saved it.                                                          *)
(***************************************************************************)
EXTENDS Integers, FiniteSets

CONSTANTS Dir,          \* storage directories
          NoDir,        \* the empty storage path: memory only
          Caps,         \* retention limits a caller may ask for
          MaxSaves, MaxClock, MaxRestarts, MaxUndeletable     \* bounds of a run

ASSUME CapsAssumption == Caps \subseteq Nat \ {0} /\ IsFiniteSet(Caps)
ASSUME DirAssumption == NoDir \notin Dir
ASSUME BoundsAssumption ==
  MaxSaves \in Nat /\ MaxClock \in Nat /\ MaxRestarts \in Nat /\ MaxUndeletable \in Nat

VARIABLES
  disk,           \* Dir -> the version files it holds
  storagePath, maxVersions, versions, lastTimestamp,   \* the manager
  pc,             \* the call that holds the lock, and its step
  saving,         \* the version of a save in progress
  doomed,         \* evicted from memory, files still to be removed
  reader,         \* a GetVersion call: [step, want]
  gap,            \* its version was gone, or the path moved, during the call
  run,            \* how many managers this history has seen
  written,        \* every version whose file or memory record was made
  saved,          \* the versions that SaveVersion has returned
  unscanned,      \* files already there when the manager was created
  undeletable     \* files whose removal failed

manager == <<storagePath, maxVersions, versions, lastTimestamp>>
history == <<run, written, saved, unscanned, undeletable>>
vars == <<disk, manager, pc, saving, doomed, reader, gap, history>>

Nothing == [n |-> 0, ts |-> 0, rank |-> 0, run |-> 0]
Quiet == [step |-> "idle", want |-> Nothing]

MaxTime == MaxClock + MaxSaves
Version == [n : 1 .. MaxSaves, ts : 1 .. MaxTime, rank : 0 .. 1,
            run : 0 .. MaxRestarts]

(* ListVersions and evict order versions by timestamp, then by identifier. *)
Newer(v, w) == \/ v.ts > w.ts
               \/ v.ts = w.ts /\ v.rank > w.rank
               \/ v.ts = w.ts /\ v.rank = w.rank /\ v.n > w.n

(* The len(entries) - cap oldest entries of a set of versions. *)
Oldest(S, cap) == {v \in S : Cardinality({w \in S : Newer(w, v)}) >= cap}

Files == IF storagePath = NoDir THEN {} ELSE disk[storagePath]

Init == /\ disk = [d \in Dir |-> {}]
        /\ storagePath \in Dir \cup {NoDir}
        /\ maxVersions \in Caps
        /\ versions = {} /\ lastTimestamp = 0
        /\ pc = "idle" /\ saving = Nothing /\ doomed = {} /\ reader = Quiet
        /\ gap = FALSE
        /\ run = 0 /\ written = {} /\ saved = {} /\ unscanned = {} /\ undeletable = {}

(* A failed stamp, encoding, ULID or write leaves lastTimestamp advanced   *)
(* and nothing else: no file is written before the record is complete.     *)
(* (Bounds: saves fail only while timestamps have not left the clock.)      *)
Stamp(now) == IF now > lastTimestamp THEN now ELSE lastTimestamp + 1

SaveBegin == /\ pc = "idle"
             /\ Cardinality(written) < MaxSaves
             /\ \E now \in 1 .. MaxClock, r \in 0 .. 1 :
                  /\ lastTimestamp' = Stamp(now)
                  /\ \/ /\ pc' = "write"
                        /\ saving' = [n |-> Cardinality(written) + 1,
                                      ts |-> Stamp(now), rank |-> r, run |-> run]
                     \/ Stamp(now) <= MaxClock /\ UNCHANGED <<pc, saving>>
             /\ UNCHANGED <<disk, storagePath, maxVersions, versions,
                            doomed, reader, history>>

(* MkdirAll and an atomic WriteFile, only with a storage path. *)
SaveWrite == /\ pc = "write"
             /\ \/ /\ pc' = "publish" /\ UNCHANGED saving
                   /\ disk' = IF storagePath = NoDir THEN disk
                              ELSE [disk EXCEPT ![storagePath] = @ \cup {saving}]
                   /\ written' = written \cup {saving}
                \/ /\ storagePath # NoDir /\ lastTimestamp <= MaxClock
                   /\ pc' = "idle" /\ saving' = Nothing
                   /\ UNCHANGED <<disk, written>>
             /\ UNCHANGED <<manager, doomed, reader, run, saved, unscanned,
                            undeletable>>

\* Mutants: an off-by-one between memory and disk; files left behind.
EvictMemoryLate(known, cap, path) ==
  /\ versions' = known \ Oldest(known, cap + 1)
  /\ doomed' = IF path = NoDir THEN {} ELSE Oldest(known, cap)
EvictMemoryOnly(known, cap, path) ==
  versions' = known \ Oldest(known, cap) /\ doomed' = {}

(* evict drops the oldest known versions; their files, if any are in the   *)
(* current path, are removed one by one and a failed removal is ignored.   *)
Evict(known, cap, path) ==
  /\ versions' = known \ Oldest(known, cap)
  /\ doomed' = IF path = NoDir THEN {} ELSE Oldest(known, cap)

SavePublish == /\ pc = "publish"
               /\ Evict(versions \cup {saving}, maxVersions, storagePath)
               /\ pc' = "evict"
               /\ UNCHANGED <<disk, storagePath, maxVersions, lastTimestamp,
                              saving, reader, history>>

RemoveFile == /\ pc = "evict" /\ doomed # {}
              /\ \E v \in doomed :
                   /\ doomed' = doomed \ {v}
                   /\ \/ disk' = [disk EXCEPT ![storagePath] = @ \ {v}]
                         /\ UNCHANGED undeletable
                      \/ v \in Files /\ Cardinality(undeletable) < MaxUndeletable
                         /\ undeletable' = undeletable \cup {v}
                         /\ UNCHANGED disk
              /\ UNCHANGED <<manager, pc, saving, reader, run, written, saved,
                             unscanned>>

Unlock == /\ pc = "evict" /\ doomed = {}
          /\ pc' = "idle"
          /\ saved' = IF saving = Nothing THEN saved ELSE saved \cup {saving}
          /\ saving' = Nothing
          /\ UNCHANGED <<disk, manager, doomed, reader, run, written, unscanned,
                         undeletable>>

(* EnableVersioning on an existing manager. *)
Reconfigure == /\ pc = "idle"
               /\ \E d \in Dir \cup {NoDir}, cap \in Caps \cup {maxVersions} :
                    /\ <<d, cap>> # <<storagePath, maxVersions>>
                    /\ storagePath' = d /\ maxVersions' = cap
                    /\ Evict(versions, cap, d)
                    /\ unscanned' = IF d \in {storagePath, NoDir} THEN unscanned
                                    ELSE disk[d] \ versions
               /\ pc' = "evict"
               /\ UNCHANGED <<disk, lastTimestamp, saving, reader, run, written,
                              saved, undeletable>>

(* ListVersions, LatestVersion: every readable file of the directory is    *)
(* brought into memory; nothing is evicted.                                *)
Listed == versions \cup Files

ListVersions == /\ pc = "idle"
                /\ versions' = Listed
                /\ unscanned' = unscanned \ Files
                /\ Files \ versions # {}
                /\ UNCHANGED <<disk, storagePath, maxVersions, lastTimestamp, pc,
                               saving, doomed, reader, run, written, saved, undeletable>>

(* GetVersion: memory under the read lock, then storagePath and its        *)
(* directory with no lock held.  A version found changes nothing.          *)
Retrievable(v) == v \in versions \cup Files

GetMemory == /\ pc = "idle" /\ reader.step = "idle"
             /\ \E v \in saved \ versions : reader' = [step |-> "disk", want |-> v]
             /\ UNCHANGED <<disk, manager, pc, saving, doomed, history>>

GetDisk == /\ reader.step = "disk"
           /\ reader' = IF reader.want \in Files THEN Quiet
                        ELSE [reader EXCEPT !.step = "missing"]
           /\ UNCHANGED <<disk, manager, pc, saving, doomed, history>>

GetReturn == /\ reader.step = "missing"
             /\ reader' = Quiet
             /\ UNCHANGED <<disk, manager, pc, saving, doomed, history>>

(* The process ends at any step and another one opens the directory. *)
Restart == /\ run < MaxRestarts
           /\ run' = run + 1
           /\ \E d \in Dir \cup {NoDir}, cap \in Caps :
                /\ storagePath' = d /\ maxVersions' = cap
                /\ unscanned' = IF d = NoDir THEN {} ELSE disk[d]
           /\ versions' = {} /\ lastTimestamp' = 0
           /\ pc' = "idle" /\ saving' = Nothing /\ doomed' = {} /\ reader' = Quiet
           /\ UNCHANGED <<disk, written, saved, undeletable>>

Step == \/ SaveBegin \/ SaveWrite \/ SavePublish \/ RemoveFile \/ Unlock
        \/ Reconfigure \/ ListVersions
        \/ GetMemory \/ GetDisk \/ GetReturn
        \/ Restart

Next == /\ Step
        /\ gap' = /\ reader'.step # "idle"
                  /\ \/ gap
                     \/ reader.step # "idle" /\ storagePath' # storagePath
                     \/ ~Retrievable(reader.want)'

Spec == Init /\ [][Next]_vars

-----------------------------------------------------------------------------
(* What retention keeps.  Versions saved by one manager are ordered as     *)
(* they were saved, although the clock may stand still or be set back.     *)
SaveOrderKept == \A v, w \in written : v.run = w.run /\ v.n > w.n => Newer(v, w)

NewerThan(v) == {w \in written : Newer(w, v)}
MinCap == CHOOSE c \in Caps : \A d \in Caps : c <= d
Evictable(v) == Cardinality(NewerThan(v)) >= MinCap

(* Nothing is removed too early: once a version has been returned and its  *)
(* directory is the one in use, it can be retrieved, across crashes and    *)
(* restarts, until as many newer versions as the smallest limit exist.     *)
NoVersionLostEarly ==
  \A v \in saved :
    \/ Evictable(v)
    \/ v \in versions
    \/ \E d \in Dir : v \in disk[d]
    \/ v.run # run            \* kept in memory only, by a process that ended

(* And the limit covers all that a manager knows: with no call holding the *)
(* lock, a file of its directory that is not in memory was there before    *)
(* the manager used the directory, or could not be removed.                *)
RetentionExact ==
  /\ SaveOrderKept /\ NoVersionLostEarly
  /\ pc = "idle" => Files \subseteq versions \cup unscanned \cup undeletable

(* GetVersion holds no lock between memory and disk: a version that can be *)
(* retrieved during the whole call, with one storage path, is found,       *)
(* whatever is saved, listed or evicted meanwhile.                         *)
ReadsFindRetained == reader.step = "missing" => gap
=============================================================================
