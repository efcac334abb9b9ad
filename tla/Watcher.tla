------------------------------- MODULE Watcher -------------------------------
(***************************************************************************)
(* The file watcher that drives Reload, composed with IncrementalReload.   *)
(*                                                                         *)
(* fsnotify reports edits in the subscribed directories.  One goroutine    *)
(* (Loop) takes the events, keeps those of the files that the published    *)
(* configuration was built from, resets a debounce timer, and runs the     *)
(* reload itself when the timer has fired: meanwhile events wait.  Every   *)
(* source transaction, of the loop or of another goroutine, hands the      *)
(* watcher its files in the critical section that publishes it.            *)
(***************************************************************************)
EXTENDS IncrementalReload, Sequences

CONSTANTS Loop,        \* the goroutine of the watcher, a member of Proc
          Dir, DirOf,  \* the directory of each file
          Setups,      \* debounce interval zero or not, directories that are refused
          UserCalls,   \* bound: calls of Reload by each other goroutine
          MaxQueue     \* bound: events fsnotify holds before it drops some

ASSUME WatcherAssumption ==
  /\ Loop \in Proc
  /\ DirOf \in [File -> Dir]
  /\ Setups \subseteq [immediate : BOOLEAN, refused : SUBSET Dir]
  /\ UserCalls \in Nat /\ MaxQueue \in Nat
  /\ MaxCalls >= MaxEdits

VARIABLES
  setup,     \* one of Setups
  loop,      \* "starting", "running" or "exited"
  installed, \* c.watcher and c.watchCancel have been assigned, New has returned
  stopped,   \* ctx canceled and done closed: the Config holds no watcher
  triggers,  \* files: the watched files
  dirs,      \* subscribed directories
  queue,     \* events on their way
  timer,     \* "off", "armed" or "fired"
  missed,    \* history: files whose last edit no event could report
  blind,     \* history: files edited between their reading and their fingerprint
  reverted,  \* history: files whose edit was undone while another reload had read it
  early      \* history: the publication in force came before c.watcher was assigned,
             \*   with other files than the watched ones

watch == <<setup, loop, installed, stopped, triggers, dirs, queue, timer>>
history == <<missed, blind, reverted, early>>
allvars == <<vars, watch, history>>

\* watchedFiles: the sources, and the files they include.
WatchedFiles(c) == Source \cup ({c.deps[s] : s \in Source} \ {None})
DirsOf(F) == {DirOf[f] : f \in F}

\* The configuration has been loaded; nothing is watched yet.
WatchInit ==
  /\ Init
  /\ setup \in Setups
  /\ DirsOf(WatchedFiles(live)) \cap setup.refused = {}
  /\ loop = "starting"
  /\ installed = FALSE /\ stopped = FALSE
  /\ triggers = {} /\ dirs = {}
  /\ queue = <<>>
  /\ timer = "off"
  /\ missed = {} /\ blind = {} /\ reverted = {} /\ early = FALSE

-----------------------------------------------------------------------------
(* Start, replacement of the files, stop *)

\* A slip: the new files are adopted although a directory was refused.
AdoptedAnyway(F) ==
  /\ triggers' = F
  /\ dirs' = dirs \cup (DirsOf(F) \ setup.refused)

Refuses(F) == DirsOf(F) \cap (setup.refused \ dirs) # {}

\* ReplaceFiles: subscriptions are added and never dropped; if one is refused, the
\* files stay what they were.
ReplaceFiles(F) ==
  /\ ~Refuses(F)
  /\ triggers' = F
  /\ dirs' = dirs \cup DirsOf(F)

\* startWatching, at the end of New: the subscriptions, and the goroutine of the loop.
Start ==
  /\ loop = "starting"
  /\ ReplaceFiles(WatchedFiles(live))
  /\ loop' = "running"
  /\ UNCHANGED <<vars, setup, installed, stopped, queue, timer, history>>

\* The watcher becomes the one of the Config, while the loop is running and without
\* the lock: a reload of the loop that reads c.watcher sees nil or the watcher, that
\* is, comes before this step or after it.  New returns.
Install ==
  /\ loop # "starting" /\ ~installed
  /\ installed' = TRUE
  /\ UNCHANGED <<vars, setup, loop, stopped, triggers, dirs, queue, timer, history>>

\* StopWatching, or Close, of the Config that New has returned: under its lock.
Stop ==
  /\ installed /\ ~stopped
  /\ stopped' = TRUE
  /\ UNCHANGED <<vars, setup, loop, installed, triggers, dirs, queue, timer, history>>

-----------------------------------------------------------------------------
(* The event loop *)

Selecting == loop = "running" /\ pc[Loop] = "idle"

\* The reload of the loop is an incremental one.
RunReload == Call(Loop) /\ ~job'[Loop].full

\* scheduleReload, by the debounce interval: a running timer starts again.
Schedule ==
  IF setup.immediate
    THEN RunReload /\ UNCHANGED timer
    ELSE timer' = "armed" /\ UNCHANGED vars

\* A slip: a file that is created again does not count as changed.
WritesOnly(kind) == kind = "write"

Relevant(kind) == kind \in {"write", "create"}

\* An event of a watched file that was written or created; other events of it are
\* only logged, those of other files are skipped.
Handle ==
  LET e == Head(queue)
  IN  /\ Selecting
      /\ queue # <<>>
      /\ queue' = Tail(queue)
      /\ IF e.file \in triggers /\ Relevant(e.kind)
           THEN Schedule
           ELSE UNCHANGED <<vars, timer>>
      /\ missed' = IF e.file \notin triggers /\ \E p \in Proc : pc[p] # "idle"
                     THEN missed \cup {e.file} ELSE missed
      /\ UNCHANGED <<setup, loop, installed, stopped, triggers, dirs, blind, reverted, early>>

TimerFires ==
  /\ timer = "armed"
  /\ timer' = "fired"
  /\ UNCHANGED <<vars, setup, loop, installed, stopped, triggers, dirs, queue, history>>

Fired ==
  /\ Selecting
  /\ timer = "fired"
  /\ timer' = "off"
  /\ RunReload
  /\ UNCHANGED <<setup, loop, installed, stopped, triggers, dirs, queue, history>>

\* Go's select may take another ready case first.
Exit ==
  /\ Selecting
  /\ stopped
  /\ loop' = "exited"
  /\ UNCHANGED <<vars, setup, installed, stopped, triggers, dirs, queue, timer, history>>

-----------------------------------------------------------------------------
(* Reloads, of the loop and of others *)

\* The context of the loop's reload is the watcher's.
Canceled(p) == p = Loop /\ stopped

CanPublish(p) == pc[p] = "load" /\ job[p].todo = {} /\ ~Superseded(p)

\* The c.watcher that a publication finds: none before startWatching has assigned it
\* and after StopWatching.
HasWatcher == installed /\ ~stopped

\* A publication hands the files of its candidate to the watcher, if there is one.
AdoptFiles(p) ==
  LET F == WatchedFiles(job[p].cand)
  IN  /\ IF CanPublish(p) /\ HasWatcher
           THEN ReplaceFiles(F) ELSE UNCHANGED <<triggers, dirs>>
      /\ early' = IF CanPublish(p) THEN ~installed /\ F # triggers ELSE early

\* A slip: the context is not looked at again at the publication.
CommitUnchecked(p) ==
  /\ Commit(p)
  /\ AdoptFiles(p)
  /\ UNCHANGED <<setup, loop, installed, stopped, queue, timer, missed, blind, reverted>>

\* Publication, unless the context is done, the revision has moved or ...
CommitWatched(p) ==
  /\ ~Canceled(p)
  /\ Commit(p)
  /\ AdoptFiles(p)
  /\ UNCHANGED <<setup, loop, installed, stopped, queue, timer, missed, blind, reverted>>

\* ... the watcher refuses the files.
CommitRefusedByWatcher(p) ==
  /\ CanPublish(p) /\ ~Canceled(p) /\ HasWatcher
  /\ Refuses(WatchedFiles(job[p].cand))
  /\ Fail(p)
  /\ UNCHANGED <<world, lenient, tracked, calls, watch, history>>

\* A call whose context is done ends at the next place that looks at it.
CancelReload(p) ==
  /\ Canceled(p)
  /\ pc[p] \in {"attempt", "load"}
  /\ Fail(p)
  /\ UNCHANGED <<world, lenient, tracked, calls, watch, history>>

ReloadStep(p) ==
  \/ CommitWatched(p) \/ CommitRefusedByWatcher(p) \/ CancelReload(p)
  \/ /\ ~(Canceled(p) /\ pc[p] \in {"attempt", "load"})
     /\ \/ Snapshot(p) \/ Decide(p) \/ Compose(p) \/ Finish(p)
        \/ \E s \in Source : InspectSource(p, s) \/ InspectDependency(p, s)
                               \/ Load(p, s) \/ TrackLayer(p, s)
     /\ UNCHANGED <<watch, history>>

\* Another goroutine has the Config once New has returned it.
UserCall(p) ==
  /\ p # Loop /\ installed
  /\ calls[p] < UserCalls
  /\ Call(p)
  /\ UNCHANGED <<watch, history>>

\* Has p read f, and not yet recorded what it has read?  A file that several
\* sources include is also recorded by the reload of another source.
Between(p, f) ==
  \/ pc[p] \in {"compose", "track"} /\ First(f, job[p].todo)
  \/ pc[p] = "track" /\ f = IncludeOf[job[p].own.text]
  \/ pc[p] # "idle" /\ Cardinality({s \in Source : job[p].cand.deps[s] = f}) > 1

\* Does the edit give f the text that is published, when p has read another one?
UndoneUnder(p, f) ==
  /\ pc[p] # "idle"
  /\ disk'[f].text = live.prints[f]
  /\ job[p].cand.prints[f] # live.prints[f]

\* An edit, and its event if the directory is subscribed and the queue has room.
EditWatched(f) ==
  LET kind == IF disk'[f].text = Missing THEN "gone"
              ELSE IF disk[f].text = Missing THEN "create" ELSE "write"
      noted == DirOf[f] \in dirs /\ Len(queue) < MaxQueue
  IN  /\ Edit(f)
      /\ queue' = IF noted THEN Append(queue, [file |-> f, kind |-> kind]) ELSE queue
      /\ missed' = IF ~noted /\ (\/ loop = "starting" \/ f \in triggers
                                 \/ \E p \in Proc : pc[p] # "idle")
                     THEN missed \cup {f} ELSE missed
      /\ blind' = IF \E p \in Proc : Between(p, f) THEN blind \cup {f} ELSE blind
      /\ reverted' = IF \E p \in Proc \ {Loop} : UndoneUnder(p, f)
                       THEN reverted \cup {f} ELSE reverted
      /\ UNCHANGED <<setup, loop, installed, stopped, triggers, dirs, timer, early>>

LoopStep == Handle \/ Fired \/ Exit \/ ReloadStep(Loop)

WatchNext ==
  \/ Start \/ Install \/ Stop \/ TimerFires \/ LoopStep
  \/ \E p \in Proc \ {Loop} : UserCall(p) \/ ReloadStep(p)
  \/ \E f \in File : EditWatched(f)

\* New and the goroutine of the loop run, loaders return, and timers fire.
WatchFairness ==
  WF_allvars(Start) /\ WF_allvars(Install) /\ WF_allvars(LoopStep) /\ WF_allvars(TimerFires)

WatchSpec == WatchInit /\ [][WatchNext]_allvars /\ WatchFairness
-----------------------------------------------------------------------------
(* Properties *)

\* The trigger set is the one of the published configuration: from the moment the
\* Config holds its watcher there is no state in which a published include is not a
\* trigger, or in which a refused candidate has changed the triggers
\* (sourceTransactionAttempt, ReplaceFiles).  Left out is what follows a reload that the
\* loop has published before New had assigned c.watcher, until the next publication
\* (early).  A trigger is always in a subscribed directory.
TriggersMatchPublished ==
  loop = "running" /\ ~stopped =>
    /\ DirsOf(triggers) \subseteq dirs
    /\ ~early => triggers = WatchedFiles(live)

\* Stopping cancels pending work: once StopWatching has returned, the watcher
\* publishes nothing, although its goroutine may still be in the middle of a reload
\* or have a fired timer to look at (context check of sourceTransactionAttempt).
NothingPublishedAfterStop ==
  [][stopped /\ revision' # revision => \E p \in Proc \ {Loop} : pc[p] # pc'[p]]_allvars

\* Every edit is eventually loaded: when the files are left alone and hold
\* something that can be loaded, the published configuration catches up, whatever
\* was debounced, failed, superseded or edited during a reload.  Left out: edits
\* that no event could report, edits between a reading and its fingerprint, an
\* edit undone while another reload holds what it read, an include that was deleted,
\* a stopped watcher, a refused directory, and the includes of a reload that was
\* published before New had assigned c.watcher.
Reported(s) ==
  /\ ~stopped /\ ~early /\ ~lenient /\ Readable(s)
  /\ {s, IncludedNow(s)} \cap (missed \cup blind \cup reverted \cup deleted) = {}
  /\ DirsOf({IncludedNow(s)} \ {None}) \cap setup.refused = {}

EditsEventuallyLoaded ==
  \A s \in Source \ Optional : <>[](Reported(s) => UpToDate(s))
=============================================================================
