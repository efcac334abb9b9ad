--------------------------- MODULE Watcher_proofs ---------------------------
(***************************************************************************)
(* Proofs about the file watcher.  A step of the watcher, of its event     *)
(* loop or of the goroutines around it is a step of the incremental reload *)
(* or leaves the Config alone, so what is proved of the reload holds of it *)
(* driven by the watcher too.                                              *)
(***************************************************************************)
EXTENDS Watcher, IncrementalReload_proofs

-----------------------------------------------------------------------------
(* The watched Config is an IncrementalReload *)

\* What the watcher does to the Config is one of its own steps.
LEMMA WatchStepReloads == [WatchNext]_allvars => [Next]_vars
<1> SUFFICES ASSUME [WatchNext]_allvars PROVE Next \/ UNCHANGED vars
  OBVIOUS
<1>1. ASSUME NEW p \in Proc, ReloadStep(p) PROVE Step(p)
  <2>1. CASE CommitWatched(p)
    BY <2>1 DEF CommitWatched, Step
  <2>2. CASE CommitRefusedByWatcher(p) \/ CancelReload(p)
    BY <2>2 DEF CommitRefusedByWatcher, CancelReload, CanPublish, Discard, Step
  <2>3. CASE \/ Snapshot(p) \/ Decide(p) \/ Compose(p) \/ Finish(p)
             \/ \E s \in Source : InspectSource(p, s) \/ InspectDependency(p, s)
                                    \/ Load(p, s) \/ TrackLayer(p, s)
    BY <2>3 DEF Step
  <2> QED
    BY <1>1, <2>1, <2>2, <2>3 DEF ReloadStep
<1>2. ASSUME Handle \/ Fired PROVE Step(Loop) \/ UNCHANGED vars
  BY <1>2 DEF Handle, Fired, Schedule, RunReload, Step
<1>3. ASSUME Start \/ Install \/ Stop \/ TimerFires \/ Exit PROVE UNCHANGED vars
  BY <1>3 DEF Start, Install, Stop, TimerFires, Exit
<1>4. ASSUME NEW p \in Proc, UserCall(p) PROVE Step(p)
  BY <1>4 DEF UserCall, Step
<1>5. ASSUME NEW f \in File, EditWatched(f) PROVE Edit(f)
  BY <1>5 DEF EditWatched
<1>6. Loop \in Proc
  BY WatcherAssumption
<1> QED
  BY <1>1, <1>2, <1>3, <1>4, <1>5, <1>6 DEF WatchNext, LoopStep, Next, allvars

\* The Config that a watcher reloads, with edits, stops and calls of others in
\* between, behaves like one whose reloads come at any moment.
THEOREM WatcherReloads == WatchSpec => Spec
<1>1. WatchInit => Init
  BY DEF WatchInit
<1> QED
  BY <1>1, WatchStepReloads, PTL DEF WatchSpec, Spec

\* So a reload of the watcher, too, leaves every file as fresh as a full load.
THEOREM WatchedReloadComplete == WatchSpec => []ReloadIsComplete
BY WatcherReloads, Completeness, PTL

\* And what the watcher publishes never goes back to an older file.
THEOREM WatchedNoRegression == WatchSpec => LayersNeverRegress
BY WatcherReloads, NoRegression, PTL

\* Nor does it ever publish without the layer of a mandatory source, when the
\* policy is to raise: the failed reload leaves the old configuration there.
THEOREM WatchedRequiredLayers == WatchSpec => []RequiredLayersStay
BY WatcherReloads, RequiredLayersAlways, PTL

-----------------------------------------------------------------------------
(* Triggers *)

\* A step that publishes nothing and leaves the triggers alone.
LEMMA TriggersStable ==
  ASSUME TriggersMatchPublished, UNCHANGED <<live, triggers, dirs, early>>,
         loop' = "running" => loop = "running", stopped => stopped'
  PROVE  TriggersMatchPublished'
BY DEF TriggersMatchPublished, WatchedFiles, DirsOf

\* Replacing the files of the watcher by the ones of the published configuration.
LEMMA ReplacedFiles ==
  ASSUME NEW c, ReplaceFiles(WatchedFiles(c)), live' = c PROVE TriggersMatchPublished'
<1>1. triggers' = WatchedFiles(c) /\ dirs' = dirs \cup DirsOf(WatchedFiles(c))
  BY DEF ReplaceFiles
<1> QED
  BY <1>1 DEF TriggersMatchPublished, WatchedFiles, DirsOf

\* A reload that publishes hands its files to the watcher, or leaves word that there
\* was none to hand them to.
LEMMA ReloadTriggers ==
  ASSUME TriggersMatchPublished, NEW p \in Proc, ReloadStep(p) PROVE TriggersMatchPublished'
<1>1. CASE CommitWatched(p)
  <2>1. CASE CanPublish(p) /\ HasWatcher
    <3>1. live' = job[p].cand /\ ReplaceFiles(WatchedFiles(job[p].cand))
      BY <1>1, <2>1 DEF CommitWatched, AdoptFiles, Commit, CanPublish
    <3> QED
      BY <3>1, ReplacedFiles
  <2>2. CASE CanPublish(p) /\ ~installed
    <3>1. /\ live' = job[p].cand
          /\ early' = (WatchedFiles(job[p].cand) # triggers)
          /\ UNCHANGED <<loop, stopped, triggers, dirs>>
      BY <1>1, <2>2 DEF CommitWatched, AdoptFiles, HasWatcher, Commit, CanPublish
    <3>2. ~early' => triggers' = WatchedFiles(live')
      BY <3>1
    <3> QED
      BY <3>1, <3>2 DEF TriggersMatchPublished, WatchedFiles, DirsOf
  <2>3. CASE stopped
    BY <1>1, <2>3 DEF CommitWatched, TriggersMatchPublished
  <2>4. CASE ~CanPublish(p)
    BY <1>1, <2>4, TriggersStable DEF CommitWatched, AdoptFiles, Commit, CanPublish, tracked
  <2> QED
    BY <2>1, <2>2, <2>3, <2>4 DEF HasWatcher
<1>2. CASE CommitRefusedByWatcher(p) \/ CancelReload(p)
  BY <1>2, TriggersStable DEF CommitRefusedByWatcher, CancelReload, tracked, watch, history
<1>3. CASE /\ UNCHANGED <<watch, history>>
           /\ \/ Snapshot(p) \/ Decide(p) \/ Compose(p) \/ Finish(p)
              \/ \E s \in Source : InspectSource(p, s) \/ InspectDependency(p, s)
                                     \/ Load(p, s) \/ TrackLayer(p, s)
  <2>1. UNCHANGED tracked
    BY <1>3 DEF Snapshot, Decide, Compose, Finish, InspectSource, InspectDependency, Load,
                TrackLayer
  <2> QED
    BY <1>3, <2>1, TriggersStable DEF tracked, watch, history
<1> QED
  BY <1>1, <1>2, <1>3 DEF ReloadStep

\* Every step keeps the triggers in step with what is published.
LEMMA TriggersStep ==
  TriggersMatchPublished /\ [WatchNext]_allvars => TriggersMatchPublished'
<1> SUFFICES ASSUME TriggersMatchPublished, [WatchNext]_allvars PROVE TriggersMatchPublished'
  OBVIOUS
<1>1. CASE Start
  <2>1. ReplaceFiles(WatchedFiles(live)) /\ live' = live
    BY <1>1 DEF Start, vars, tracked
  <2> QED
    BY <2>1, ReplacedFiles
<1>2. CASE Install \/ Stop \/ TimerFires \/ Exit
  BY <1>2, TriggersStable DEF Install, Stop, TimerFires, Exit, vars, tracked, history
<1>3. CASE Handle \/ Fired
  <2>1. UNCHANGED <<live, loop, stopped, triggers, dirs, early>>
    BY <1>3 DEF Handle, Fired, Schedule, RunReload, Call, vars, tracked, history
  <2> QED
    BY <2>1, TriggersStable
<1>4. ASSUME NEW p \in Proc, UserCall(p) PROVE TriggersMatchPublished'
  BY <1>4, TriggersStable DEF UserCall, Call, tracked, watch, history
<1>5. ASSUME NEW f \in File, EditWatched(f) PROVE TriggersMatchPublished'
  BY <1>5, TriggersStable DEF EditWatched, Edit, tracked
<1>6. CASE UNCHANGED allvars
  BY <1>6, TriggersStable DEF allvars, vars, tracked, watch, history
<1>7. Loop \in Proc
  BY WatcherAssumption
<1> QED
  BY <1>1, <1>2, <1>3, <1>4, <1>5, <1>6, <1>7, ReloadTriggers DEF WatchNext, LoopStep

\* From the installation of the watcher on there is no moment when a published include
\* is not a trigger, or when a refused candidate has changed the triggers; before it
\* they differ only when the loop itself has already published another set of files.
THEOREM TriggersPublished == WatchSpec => []TriggersMatchPublished
<1>1. WatchInit => TriggersMatchPublished
  BY DEF WatchInit, TriggersMatchPublished
<1> QED
  BY <1>1, TriggersStep, PTL DEF WatchSpec

-----------------------------------------------------------------------------
(* After StopWatching *)

\* Only a commit moves the revision, and the one of the loop looks at its context.
LEMMA OnlyCommits ==
  ASSUME TypeInv, [WatchNext]_allvars, stopped, revision' # revision
  PROVE  \E p \in Proc \ {Loop} : pc[p] # pc'[p]
<1>1. ASSUME NEW p \in Proc, ReloadStep(p) PROVE p # Loop /\ pc[p] # pc'[p]
  <2>1. CASE CommitWatched(p)
    BY <2>1 DEF CommitWatched, Canceled, Commit, tracked, Goto, TypeInv, TypeOK
  <2>2. CASE CommitRefusedByWatcher(p) \/ CancelReload(p)
    BY <2>2 DEF CommitRefusedByWatcher, CancelReload, tracked
  <2>3. CASE \/ Snapshot(p) \/ Decide(p) \/ Compose(p) \/ Finish(p)
             \/ \E s \in Source : InspectSource(p, s) \/ InspectDependency(p, s)
                                    \/ Load(p, s) \/ TrackLayer(p, s)
    BY <2>3 DEF Snapshot, Decide, Compose, Finish, InspectSource, InspectDependency, Load,
                TrackLayer, tracked
  <2> QED
    BY <1>1, <2>1, <2>2, <2>3 DEF ReloadStep
<1>2. CASE Start \/ Install \/ Stop \/ TimerFires \/ Handle \/ Fired \/ Exit
  BY <1>2 DEF Start, Install, Stop, TimerFires, Handle, Fired, Exit, Schedule, RunReload, Call, vars,
              tracked
<1>3. ASSUME NEW p \in Proc, UserCall(p) PROVE FALSE
  BY <1>3 DEF UserCall, Call, tracked
<1>4. ASSUME NEW f \in File, EditWatched(f) PROVE FALSE
  BY <1>4 DEF EditWatched, Edit, tracked
<1>5. CASE UNCHANGED allvars
  BY <1>5 DEF allvars, vars, tracked
<1>6. Loop \in Proc
  BY WatcherAssumption
<1> QED
  BY <1>1, <1>2, <1>3, <1>4, <1>5, <1>6 DEF WatchNext, LoopStep

\* Once StopWatching has returned, whatever is published is published by
\* another goroutine than the one of the watcher.
THEOREM StoppedPublishesNothing == WatchSpec => NothingPublishedAfterStop
<1>1. TypeInv /\ [WatchNext]_allvars =>
        [stopped /\ revision' # revision => \E p \in Proc \ {Loop} : pc[p] # pc'[p]]_allvars
  BY OnlyCommits
<1>2. WatchSpec => [][WatchNext]_allvars
  BY PTL DEF WatchSpec
<1> QED
  BY <1>1, <1>2, WatcherReloads, TypeCorrect, PTL DEF NothingPublishedAfterStop
=============================================================================
