-------------------------- MODULE IncrementalReload --------------------------
(***************************************************************************)
(* The incremental Reload: which loader layers a reload reads again, and   *)
(* what its fingerprints claim about the layers it reuses.                 *)
(*                                                                         *)
(* The Config keeps, for each loader, the composed layer and the files its *)
(* includes came from, and a FileTracker with the content hash of each     *)
(* file.  A reload snapshots all of it, fingerprints every source and      *)
(* every include of every source, reads the selected sources (then their   *)
(* includes, then the fingerprints of both: three instants), and publishes *)
(* if the revision has not moved.  Files are edited at any moment.         *)
(*                                                                         *)
(* A file's contents are a text; its hash is the text itself.  A text      *)
(* includes at most one file, and an included file includes nothing.       *)
(* Frozen and closed Configs refuse the call (ConfigTxn).                  *)
(***************************************************************************)
EXTENDS Naturals, FiniteSets

CONSTANTS Source,     \* the local files of the loaders
          Order,      \* the position of each loader
          Optional,   \* sources whose loader returns no data for a missing file
          Include,    \* files that only the composer reads
          Text,       \* contents of a file
          Malformed,  \* texts that do not parse
          IncludeOf,  \* the file a text includes, or None
          Holds,      \* what each file may hold
          Missing,    \* a file that does not exist
          None,
          Policies,   \* OnError: FALSE raises, TRUE warns or ignores
          Proc,       \* goroutines calling Reload
          MaxCalls,   \* bound: calls per goroutine
          MaxEdits    \* bound: edits of files

File == Source \cup Include

ASSUME ReloadAssumption ==
  /\ Source \cap Include = {}
  /\ Order \in [Source -> Nat]
  /\ \A r, s \in Source : Order[r] = Order[s] => r = s
  /\ Optional \subseteq Source
  /\ Malformed \subseteq Text
  /\ Missing \notin Text
  /\ None \notin File \cup Text \cup {Missing}
  /\ IncludeOf \in [Text -> Include \cup {None}]
  /\ Holds \in [File -> SUBSET (Text \cup {Missing})]
  /\ \A i \in Include, t \in Text : t \in Holds[i] => IncludeOf[t] = None
  /\ Policies \subseteq BOOLEAN
  /\ MaxCalls \in Nat /\ MaxEdits \in Nat

VARIABLES
  disk,     \* each file's text and the edit that wrote it
  edits,    \* bound counter, the stamp of the last edit
  lenient,  \* OnError
  live,     \* layers, dependencies and file tracker of the Config
  revision,
  pc, job, calls,
  raced,    \* history: files edited while a reload was running
  deleted   \* history: included files that have been deleted

tracked == <<live, revision>>
world == <<disk, edits, raced, deleted>>
vars == <<world, lenient, tracked, pc, job, calls>>

-----------------------------------------------------------------------------
(* Layers and fingerprints *)

Stamped == [text : Text \cup {Missing}, at : Nat]
Unread == [text |-> None, at |-> 0]
Layer == [own : Stamped \cup {Unread}, inc : Stamped \cup {Unread}]
NoLayer == [own |-> Unread, inc |-> Unread]

\* What a Config or a candidate holds: loaderLayers, loaderDependencies, and the
\* files and untrackable sets of its FileTracker.
Cache == [layers : [Source -> Layer], deps : [Source -> Include \cup {None}],
          prints : [File -> Text \cup {None}], untrackable : SUBSET File]

Exists(f) == disk[f].text # Missing
Parses(f) == Exists(f) /\ disk[f].text \notin Malformed

\* A loader that fails is left out when the Config is lenient, or when its file
\* is missing and the loader itself tolerates that.
Tolerated(s) == lenient \/ (s \in Optional /\ ~Exists(s))

\* Layer and dependency of a source read into own, its include into inc.
Composed(own, inc) == [own |-> own, inc |-> inc]
DependencyOf(own, inc) == IF inc = Unread THEN None ELSE IncludeOf[own.text]

\* Track: files that can be read get the hash of this moment.
Track(c, F) ==
  LET seen == {f \in F : Exists(f)}
  IN  [c EXCEPT !.prints = [f \in File |-> IF f \in seen THEN disk[f].text ELSE @[f]],
                !.untrackable = @ \ seen]

\* HasChanged: an unreadable file is unchanged, and is not looked at again.
Changed(c, f) ==
  /\ f \notin c.untrackable
  /\ c.prints[f] # None => Exists(f) /\ disk[f].text # c.prints[f]

Looked(c, f) ==
  IF f \notin c.untrackable /\ c.prints[f] # None /\ ~Exists(f)
    THEN [c EXCEPT !.prints[f] = None, !.untrackable = @ \cup {f}]
    ELSE c

\* The first load, in New.
Include0(s) ==
  LET i == IF Parses(s) THEN IncludeOf[disk[s].text] ELSE None
  IN  IF i # None /\ Parses(i) THEN disk[i] ELSE Unread

Layer0(s) == IF Parses(s) THEN Composed(disk[s], Include0(s)) ELSE NoLayer

Loaded0 ==
  LET layers == [s \in Source |-> Layer0(s)]
      deps == [s \in Source |-> DependencyOf(layers[s].own, layers[s].inc)]
      read == {f \in File : \E s \in Source : Parses(s) /\ f \in {s, deps[s]}}
  IN  [layers |-> layers, deps |-> deps,
       prints |-> [f \in File |-> IF f \in read THEN disk[f].text ELSE None],
       untrackable |-> {}]

Loads(s) ==
  IF Parses(s)
    THEN ~lenient /\ IncludeOf[disk[s].text] # None => Parses(IncludeOf[disk[s].text])
    ELSE Tolerated(s)

Job == [full : BOOLEAN, rev : Nat, began : Nat, cand : Cache,
        look : SUBSET Source, lookDeps : SUBSET Source, todo : SUBSET Source,
        own : Stamped \cup {Unread}, inc : Stamped \cup {Unread}]
NoJob == [full |-> FALSE, rev |-> 0, began |-> 0,
          cand |-> [layers |-> [s \in Source |-> NoLayer], deps |-> [s \in Source |-> None],
                    prints |-> [f \in File |-> None], untrackable |-> {}],
          look |-> {}, lookDeps |-> {}, todo |-> {}, own |-> Unread, inc |-> Unread]

Labels == {"idle", "attempt", "select", "load", "compose", "track", "done"}

Init ==
  /\ disk \in [File -> [text : Text \cup {Missing}, at : {0}]]
  /\ \A f \in File : disk[f].text \in Holds[f]
  /\ edits = 0
  /\ lenient \in Policies
  /\ \A s \in Source : Loads(s)
  /\ live = Loaded0
  /\ revision = 0
  /\ pc = [p \in Proc |-> "idle"]
  /\ job = [p \in Proc |-> NoJob]
  /\ calls = [p \in Proc |-> 0]
  /\ raced = {} /\ deleted = {}

-----------------------------------------------------------------------------
(* Reload *)

Goto(p, l) == pc' = [pc EXCEPT ![p] = l]
First(s, S) == s \in S /\ \A r \in S : Order[s] <= Order[r]

\* Reload, or Reload with WithIncremental(false).
Call(p) ==
  /\ pc[p] = "idle"
  /\ calls[p] < MaxCalls
  /\ calls' = [calls EXCEPT ![p] = @ + 1]
  /\ \E full \in BOOLEAN : job' = [job EXCEPT ![p] = [NoJob EXCEPT !.full = full, !.began = edits]]
  /\ Goto(p, "attempt")
  /\ UNCHANGED <<world, lenient, tracked>>

\* The private candidate: a copy of everything, file tracker included.
Snapshot(p) ==
  /\ pc[p] = "attempt"
  /\ job' = [job EXCEPT ![p] = [NoJob EXCEPT
       !.full = job[p].full, !.began = job[p].began, !.rev = revision, !.cand = live,
       !.look = IF job[p].full THEN {} ELSE Source,
       !.lookDeps = IF job[p].full THEN {} ELSE {s \in Source : live.deps[s] # None},
       !.todo = IF job[p].full THEN Source ELSE {}]]
  /\ Goto(p, IF job[p].full THEN "load" ELSE "select")
  /\ UNCHANGED <<world, lenient, tracked, calls>>

\* Selection, one file at a time: a source is read again when it is untrackable or
\* its hash has changed, ...
InspectSource(p, s) ==
  LET c == job[p].cand
  IN  /\ pc[p] = "select"
      /\ First(s, job[p].look)
      /\ job' = [job EXCEPT ![p].look = @ \ {s},
                            ![p].todo = IF s \in c.untrackable \/ Changed(c, s)
                                          THEN @ \cup {s} ELSE @,
                            ![p].cand = Looked(c, s)]
      /\ UNCHANGED <<world, lenient, tracked, pc, calls>>

\* A slip: only the loader's own file is compared.
IncludesNotCompared(c, s) == FALSE

\* ... or when the hash of the file it includes has changed.
DependencyChanged(c, s) == Changed(c, c.deps[s])

InspectDependency(p, s) ==
  LET c == job[p].cand
  IN  /\ pc[p] = "select"
      /\ job[p].look = {}
      /\ First(s, job[p].lookDeps)
      /\ job' = [job EXCEPT ![p].lookDeps = @ \ {s},
                            ![p].todo = IF DependencyChanged(c, s) THEN @ \cup {s} ELSE @,
                            ![p].cand = Looked(c, c.deps[s])]
      /\ UNCHANGED <<world, lenient, tracked, pc, calls>>

\* Nothing selected: the call succeeds, and what it learned is dropped.
Decide(p) ==
  /\ pc[p] = "select"
  /\ job[p].look = {} /\ job[p].lookDeps = {}
  /\ Goto(p, IF job[p].todo = {} THEN "done" ELSE "load")
  /\ UNCHANGED <<world, lenient, tracked, job, calls>>

Fail(p) ==
  /\ Goto(p, "idle")
  /\ job' = [job EXCEPT ![p] = NoJob]

\* A layer that has been read and composed.
WithLayer(c, s, own, inc) ==
  [c EXCEPT !.layers[s] = Composed(own, inc), !.deps[s] = DependencyOf(own, inc)]

\* A layer left out: its dependencies are forgotten, its fingerprint is kept.
WithoutLayer(c, s) == [c EXCEPT !.layers[s] = NoLayer, !.deps[s] = None]

\* A slip: a missing file is left out whatever the loader and the policy say.
MissingLeftOut(p, s) ==
  IF lenient \/ ~Exists(s)
    THEN /\ job' = [job EXCEPT ![p].todo = @ \ {s}, ![p].cand = WithoutLayer(@, s)]
         /\ UNCHANGED pc
    ELSE Fail(p)

LoadFailed(p, s) ==
  IF Tolerated(s)
    THEN /\ job' = [job EXCEPT ![p].todo = @ \ {s}, ![p].cand = WithoutLayer(@, s)]
         /\ UNCHANGED pc
    ELSE Fail(p)

\* loader.Load, in loader order.
Load(p, s) ==
  /\ pc[p] = "load"
  /\ First(s, job[p].todo)
  /\ IF Parses(s)
       THEN /\ job' = [job EXCEPT ![p].own = disk[s]]
            /\ Goto(p, "compose")
       ELSE LoadFailed(p, s)
  /\ UNCHANGED <<world, lenient, tracked, calls>>

\* The composer reads the included file; under a lenient policy a failure leaves
\* the raw data of the source and no dependency.
Compose(p) ==
  LET i == IncludeOf[job[p].own.text]
  IN  /\ pc[p] = "compose"
      /\ IF i # None /\ ~Parses(i) /\ ~lenient
           THEN Fail(p)
           ELSE /\ job' = [job EXCEPT ![p].inc =
                             IF i # None /\ Parses(i) THEN disk[i] ELSE Unread]
                /\ Goto(p, "track")
      /\ UNCHANGED <<world, lenient, tracked, calls>>

\* The fingerprints are taken after the reads; an edit of another file in between
\* commutes with them, so one instant stands for both.
TrackLayer(p, s) ==
  LET j == job[p]
      dep == DependencyOf(j.own, j.inc)
  IN  /\ pc[p] = "track"
      /\ First(s, j.todo)
      /\ job' = [job EXCEPT ![p] = [j EXCEPT
                   !.todo = @ \ {s}, !.own = Unread, !.inc = Unread,
                   !.cand = WithLayer(Track(@, {s, dep} \ {None}), s, j.own, j.inc)]]
      /\ Goto(p, "load")
      /\ UNCHANGED <<world, lenient, tracked, calls>>

\* A call canceled before its snapshot or while it loads, a candidate that
\* validation refuses, a dry run.
Discard(p) ==
  /\ pc[p] \in {"attempt", "load"}
  /\ Fail(p)
  /\ UNCHANGED <<world, lenient, tracked, calls>>

\* A slip: the revision is not compared.
NeverSuperseded(p) == FALSE

Superseded(p) == revision # job[p].rev

Commit(p) ==
  /\ pc[p] = "load"
  /\ job[p].todo = {}
  /\ IF Superseded(p)
       THEN Goto(p, "attempt") /\ UNCHANGED tracked
       ELSE /\ live' = job[p].cand
            /\ revision' = revision + 1
            /\ Goto(p, "done")
  /\ UNCHANGED <<world, lenient, job, calls>>

Finish(p) ==
  /\ pc[p] = "done"
  /\ Fail(p)
  /\ UNCHANGED <<world, lenient, tracked, calls>>

\* Somebody edits, deletes or restores a file.
Edit(f) ==
  /\ edits < MaxEdits
  /\ edits' = edits + 1
  /\ \E t \in Holds[f] \ {disk[f].text} :
       /\ disk' = [disk EXCEPT ![f] = [text |-> t, at |-> edits + 1]]
       /\ deleted' = IF t = Missing /\ f \in Include THEN deleted \cup {f} ELSE deleted
  /\ raced' = IF \E p \in Proc : pc[p] # "idle" THEN raced \cup {f} ELSE raced
  /\ UNCHANGED <<lenient, tracked, pc, job, calls>>

Step(p) ==
  \/ Call(p) \/ Snapshot(p) \/ Decide(p) \/ Compose(p)
  \/ Discard(p) \/ Commit(p) \/ Finish(p)
  \/ \E s \in Source : InspectSource(p, s) \/ InspectDependency(p, s)
                         \/ Load(p, s) \/ TrackLayer(p, s)

Next == (\E p \in Proc : Step(p)) \/ (\E f \in File : Edit(f))

Spec == Init /\ [][Next]_vars
-----------------------------------------------------------------------------
(* Properties *)

\* Types of the state of Config[T], its FileTracker and the reloads in flight.
TypeOK ==
  /\ disk \in [File -> Stamped]
  /\ edits \in Nat
  /\ lenient \in BOOLEAN
  /\ live \in Cache
  /\ revision \in Nat
  /\ pc \in [Proc -> Labels]
  /\ job \in [Proc -> Job]
  /\ calls \in [Proc -> Nat]
  /\ raced \subseteq File
  /\ deleted \subseteq Include

\* The source and the file it includes can be read and parsed now.
IncludedNow(s) == IncludeOf[disk[s].text]
Readable(s) == Parses(s) /\ (IncludedNow(s) # None => Parses(IncludedNow(s)))

\* The published layer is what loading the source now would give.
UpToDate(s) ==
  /\ live.layers[s].own.text = disk[s].text
  /\ IncludedNow(s) # None => live.layers[s].inc.text = disk[IncludedNow(s)].text

\* When a reload returns success, incremental or not, every readable source is as
\* fresh as if all loaders had run, whatever concurrent reloads did: the skipped
\* layers were rightly skipped.  It is promised for a raising policy and a
\* mandatory source, none of whose files was edited while a reload ran or, being
\* an include, was ever deleted (prepareReloadCandidate, FileTracker.HasChanged).
ReloadIsComplete ==
  \A p \in Proc, s \in Source \ (Optional \cup raced) :
    (/\ pc[p] = "done" /\ ~lenient /\ Readable(s)
     /\ IncludedNow(s) \notin raced \cup deleted) => UpToDate(s)

\* Two reloads may read the files in any order, but what is published never goes
\* back: a committed layer is at least as recent as the one it replaces, and so is
\* the included file, unless the source now includes another one (revision check
\* of sourceTransactionAttempt).
LayersNeverRegress ==
  [][\A s \in Source :
       /\ live'.layers[s].own # Unread => live.layers[s].own.at <= live'.layers[s].own.at
       /\ live'.deps[s] # None /\ live'.deps[s] = live.deps[s]
            => live.layers[s].inc.at <= live'.layers[s].inc.at]_vars

\* Under a raising policy no reload publishes a configuration that lacks a
\* mandatory source: a missing or malformed file fails the call or leaves the layer
\* that was there (loadSelected, FileTracker.HasChanged).
RequiredLayersStay ==
  ~lenient => \A s \in Source \ Optional : live.layers[s].own # Unread

\* docs/reloading.md: the hash detects content that changes without an mtime tick.
\* A reload called after the last edit of a source sees that edit.
EarlierEditsSeen ==
  \A p \in Proc, s \in Source :
    (/\ pc[p] = "done" /\ Readable(s)
     /\ disk[s].at <= job[p].began
     /\ IncludedNow(s) # None => disk[IncludedNow(s)].at <= job[p].began) => UpToDate(s)
=============================================================================
