---------------------------- MODULE AtomicConfig ----------------------------
(***************************************************************************)
(* What a Config promises its callers: every operation takes effect at one *)
(* instant, on exactly the state it replaces.  No candidate, no retry and  *)
(* no lock appears here.  Sources and secret providers may answer with any *)
(* of their contents; a value given to Set or Override was materialized    *)
(* against some earlier root.                                              *)
(***************************************************************************)
EXTENDS ConfigData

CONSTANTS Payload,   \* partial trees given to Set (one key) and Override
          Content,   \* what a source may hold
          ValidEnv   \* effective trees that validation accepts

VARIABLES live,      \* the published snapshot
          loaders,   \* the ordered sources
          frozen, closed,
          frames,    \* active override frames
          base,      \* what was captured when the first frame was pushed
          lastId,    \* the id of the last frame pushed
          versions   \* saved versions

vars == <<live, loaders, frozen, closed, frames, base, lastId, versions>>

Disk == [Source -> Content]
NoBase == [taken |-> FALSE]

Init ==
  /\ \E s \in Source, disk \in Disk, v \in SecretVal :
       /\ loaders = <<s>>
       /\ live = Reloaded(<<s>>, disk, v)
       /\ live.env \in ValidEnv
  /\ frozen \in BOOLEAN
  /\ closed = FALSE
  /\ frames = {}
  /\ base = NoBase
  /\ lastId = 0
  /\ versions = {}

-----------------------------------------------------------------------------
\* An ordinary mutation: refused when closed or frozen, validated, and
\* replacing the snapshot alone.
Mutable == ~closed /\ ~frozen
Replace(S) ==
  /\ S.env \in ValidEnv
  /\ live' = S

Set(pay) ==
  /\ Mutable
  /\ \E eff \in Materialized(pay) : Replace(SetPaths(live, pay, eff, "runtime"))
  /\ UNCHANGED <<loaders, frozen, closed, frames, base, lastId, versions>>

Reload ==
  /\ Mutable
  /\ \E disk \in Disk, secret \in SecretVal : Replace(Reloaded(loaders, disk, secret))
  /\ UNCHANGED <<loaders, frozen, closed, frames, base, lastId, versions>>

Extend(src) ==
  /\ Mutable
  /\ \E disk \in Disk, secret \in SecretVal : Replace(Extended(live, src, disk, secret))
  /\ loaders' = Append(loaders, src)
  /\ UNCHANGED <<frozen, closed, frames, base, lastId, versions>>

RefreshSecrets ==
  /\ Mutable
  /\ \E secret \in SecretVal : Replace(Refreshed(live, secret))
  /\ UNCHANGED <<loaders, frozen, closed, frames, base, lastId, versions>>

RollbackToVersion ==
  /\ Mutable
  /\ \E v \in versions : Replace(RolledBack(v))
  /\ UNCHANGED <<loaders, frozen, closed, frames, base, lastId, versions>>

SaveVersion ==
  /\ versions' = versions \cup {Saved(live)}
  /\ UNCHANGED <<live, loaders, frozen, closed, frames, base, lastId>>

\* Retention may drop versions, and a failed store leaves none behind.
ForgetVersions ==
  /\ \E kept \in SUBSET versions : versions' = kept
  /\ UNCHANGED <<live, loaders, frozen, closed, frames, base, lastId>>

\* Override is allowed on a frozen Config and makes it mutable; the first frame
\* captures what the last restore reinstates.
Override(pay) ==
  /\ ~closed
  /\ lastId' = lastId + 1
  /\ \E eff \in Materialized(pay) :
       /\ frames' = frames \cup {[id |-> lastId', pay |-> pay, eff |-> eff]}
       /\ Replace(SetPaths(live, pay, eff, "override"))
  /\ base' = IF frames = {} THEN [taken |-> TRUE, snap |-> live, frozen |-> frozen] ELSE base
  /\ frozen' = FALSE
  /\ UNCHANGED <<loaders, closed, versions>>

\* Restore removes one frame.  It never validates.
Restore(f) ==
  /\ ~closed
  /\ frames' = frames \ {f}
  /\ IF frames' = {}
       THEN /\ live' = base.snap
            /\ frozen' = base.frozen
            /\ base' = NoBase
       ELSE /\ live' = Replay(base.snap, frames')
            /\ frozen' = FALSE
            /\ UNCHANGED base
  /\ UNCHANGED <<loaders, closed, lastId, versions>>

Freeze ==
  /\ frozen' = TRUE
  /\ UNCHANGED <<live, loaders, closed, frames, base, lastId, versions>>

Close ==
  /\ closed' = TRUE
  /\ UNCHANGED <<live, loaders, frozen, frames, base, lastId, versions>>

Next ==
  \/ \E pay \in Payload : Set(pay) \/ Override(pay)
  \/ \E src \in Source : Extend(src)
  \/ \E f \in frames : Restore(f)
  \/ Reload \/ RefreshSecrets \/ RollbackToVersion
  \/ SaveVersion \/ ForgetVersions \/ Freeze \/ Close

Spec == Init /\ [][Next]_vars
=============================================================================
