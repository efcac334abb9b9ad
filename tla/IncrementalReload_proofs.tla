----------------------- MODULE IncrementalReload_proofs -----------------------
(***************************************************************************)
(* Proofs about IncrementalReload: types, the layers that stay, the        *)
(* monotony of what is published, and that an incremental reload is as     *)
(* good as a full one, for any files, loaders, contents and goroutines.    *)
(***************************************************************************)
EXTENDS IncrementalReload, TLAPS

Running(p) == pc[p] \in {"select", "load", "compose", "track"}

\* A source that has been read holds a text, a dependency that has been read was
\* asked for by that text, and only real dependencies are inspected.
ReadOK ==
  \A p \in Proc :
    /\ pc[p] \in {"compose", "track"} => job[p].own.text \in Text
    /\ job[p].inc # Unread =>
         /\ pc[p] = "track"
         /\ IncludeOf[job[p].own.text] # None
    /\ pc[p] = "select" => \A s \in job[p].lookDeps : job[p].cand.deps[s] # None

TypeInv == TypeOK /\ ReadOK

\* Mandatory layers are there in what is published and in every candidate.
RequiredInv ==
  ~lenient => \A s \in Source \ Optional :
    /\ live.layers[s].own # Unread
    /\ \A p \in Proc : Running(p) => job[p].cand.layers[s].own # Unread

\* Nothing is more recent than the file it was read from.
AgeOK(c) ==
  \A s \in Source :
    /\ c.layers[s].own.at <= disk[s].at
    /\ c.deps[s] # None => c.layers[s].inc.at <= disk[c.deps[s]].at

\* The layer (own, inc) of s, with dependency dep, may replace the published one.
Recent(s, own, inc, dep) ==
  /\ own # Unread => live.layers[s].own.at <= own.at
  /\ dep # None /\ dep = live.deps[s] => live.layers[s].inc.at <= inc.at

\* What the goroutine has read of the source it is loading.
ReadAge(p, s) ==
  LET j == job[p] IN
    /\ pc[p] \in {"compose", "track"} =>
         /\ j.own.at <= disk[s].at
         /\ j.rev = revision => live.layers[s].own.at <= j.own.at
    /\ j.inc # Unread =>
         /\ j.inc.at <= disk[IncludeOf[j.own.text]].at
         /\ j.rev = revision /\ live.deps[s] = IncludeOf[j.own.text]
              => live.layers[s].inc.at <= j.inc.at

\* A candidate of the current revision is at least as recent as what is published.
AgeInv ==
  /\ \A f \in File : disk[f].at <= edits
  /\ AgeOK(live)
  /\ \A p \in Proc : Running(p) =>
       /\ AgeOK(job[p].cand)
       /\ job[p].rev <= revision
       /\ job[p].rev = revision => \A s \in Source :
            Recent(s, job[p].cand.layers[s].own, job[p].cand.layers[s].inc, job[p].cand.deps[s])
       /\ \A s \in Source : First(s, job[p].todo) => ReadAge(p, s)
-----------------------------------------------------------------------------
(* Helpers *)

\* Fingerprinting files keeps the shape of a cache, its layers and dependencies.
LEMMA TrackType ==
  ASSUME NEW c \in Cache, NEW F \in SUBSET File, disk \in [File -> Stamped]
  PROVE  /\ Track(c, F) \in Cache
         /\ Track(c, F).layers = c.layers
         /\ Track(c, F).deps = c.deps
<1> DEFINE seen == {f \in F : Exists(f)}
           prints == [f \in File |-> IF f \in seen THEN disk[f].text ELSE c.prints[f]]
<1>1. Track(c, F) = [c EXCEPT !.prints = prints, !.untrackable = @ \ seen]
  BY DEF Track, Cache
<1>2. prints \in [File -> Text \cup {None}]
  BY DEF Cache, Stamped, Exists
<1> HIDE DEF prints, seen
<1> QED BY <1>1, <1>2 DEF Cache

\* Looking at a file does too.
LEMMA LookedType ==
  ASSUME NEW c \in Cache, NEW f \in File
  PROVE  /\ Looked(c, f) \in Cache
         /\ Looked(c, f).layers = c.layers
         /\ Looked(c, f).deps = c.deps
<1>1. [c EXCEPT !.prints[f] = None, !.untrackable = @ \cup {f}] \in Cache
  BY DEF Cache
<1> QED BY <1>1 DEF Looked, Cache

\* The dependency of a layer that was read is an include, there when it was read.
LEMMA DependencyType ==
  ASSUME NEW own, NEW inc, own.text \in Text
  PROVE  /\ DependencyOf(own, inc) \in Include \cup {None}
         /\ DependencyOf(own, inc) # None => inc # Unread
BY ReloadAssumption DEF DependencyOf

\* Storing a layer changes that layer only.
LEMMA WithLayerType ==
  ASSUME NEW c \in Cache, NEW s \in Source, NEW own \in Stamped \cup {Unread},
         NEW inc \in Stamped \cup {Unread}, own.text \in Text
  PROVE  /\ WithLayer(c, s, own, inc) \in Cache
         /\ WithLayer(c, s, own, inc).layers = [c.layers EXCEPT ![s] = Composed(own, inc)]
         /\ WithLayer(c, s, own, inc).deps = [c.deps EXCEPT ![s] = DependencyOf(own, inc)]
<1>1. Composed(own, inc) \in Layer
  BY DEF Composed, Layer
<1>2. DependencyOf(own, inc) \in Include \cup {None}
  BY DependencyType
<1> QED BY <1>1, <1>2 DEF WithLayer, Cache

\* Leaving a layer out changes that layer only.
LEMMA WithoutLayerType ==
  ASSUME NEW c \in Cache, NEW s \in Source
  PROVE  /\ WithoutLayer(c, s) \in Cache
         /\ WithoutLayer(c, s).layers = [c.layers EXCEPT ![s] = NoLayer]
         /\ WithoutLayer(c, s).deps = [c.deps EXCEPT ![s] = None]
BY DEF WithoutLayer, Cache, Layer, NoLayer

\* What a source that parses holds is a text.
LEMMA ParsedText ==
  ASSUME NEW f \in File, disk \in [File -> Stamped], Parses(f)
  PROVE  /\ disk[f] \in Stamped
         /\ disk[f].text \in Text
         /\ disk[f] # Unread
BY ReloadAssumption DEF Parses, Exists, Stamped, Unread

LEMMA NoJobType == NoJob \in Job
BY DEF NoJob, Job, Cache, Layer, NoLayer

\* Only one source is the first of a set.
LEMMA FirstUnique ==
  ASSUME NEW S \in SUBSET Source, NEW r, NEW s, First(r, S), First(s, S)
  PROVE  r = s
<1>1. Order[r] <= Order[s] /\ Order[s] <= Order[r] /\ r \in Source /\ s \in Source
  BY DEF First
<1>2. Order[r] \in Nat /\ Order[s] \in Nat
  BY <1>1, ReloadAssumption
<1> QED BY <1>1, <1>2, ReloadAssumption

-----------------------------------------------------------------------------
(* Types *)

\* New loads what it publishes.
LEMMA InitType == Init => TypeInv
<1> SUFFICES ASSUME Init PROVE TypeInv
  OBVIOUS
<1>1. disk \in [File -> Stamped]
  BY DEF Init, Stamped
<1>2. \A s \in Source : Include0(s) \in Stamped \cup {Unread}
  <2> SUFFICES ASSUME NEW s \in Source PROVE Include0(s) \in Stamped \cup {Unread}
    OBVIOUS
  <2>1. Parses(s) => IncludeOf[disk[s].text] \in Include \cup {None}
    BY <1>1, ParsedText, ReloadAssumption DEF File
  <2> QED BY <1>1, <2>1 DEF Include0, File
<1>3. \A s \in Source : Layer0(s) \in Layer
  BY <1>1, <1>2 DEF Layer0, Composed, NoLayer, Layer, File
<1>4. \A s \in Source : DependencyOf(Layer0(s).own, Layer0(s).inc) \in Include \cup {None}
  <2> SUFFICES ASSUME NEW s \in Source
               PROVE  DependencyOf(Layer0(s).own, Layer0(s).inc) \in Include \cup {None}
    OBVIOUS
  <2>1. CASE Parses(s)
    BY <1>1, <2>1, ParsedText, DependencyType DEF Layer0, Composed, File
  <2>2. CASE ~Parses(s)
    BY <2>2 DEF Layer0, NoLayer, DependencyOf
  <2> QED BY <2>1, <2>2
<1>5. Loaded0 \in Cache
  <2>1. \A s \in Source : Parses(s) => disk[s].text \in Text
    BY <1>1, ParsedText DEF File
  <2>2. \A s \in Source : LET d == DependencyOf(Layer0(s).own, Layer0(s).inc) IN
          Parses(s) /\ d # None => disk[d].text \in Text
    BY <1>1, <2>1, ParsedText, ReloadAssumption
       DEF Layer0, Composed, DependencyOf, Include0, File
  <2> DEFINE layers == [s \in Source |-> Layer0(s)]
             deps == [s \in Source |-> DependencyOf(layers[s].own, layers[s].inc)]
             read == {f \in File : \E s \in Source : Parses(s) /\ f \in {s, deps[s]}}
             prints == [f \in File |-> IF f \in read THEN disk[f].text ELSE None]
  <2>3. layers \in [Source -> Layer] /\ deps \in [Source -> Include \cup {None}]
    BY <1>3, <1>4
  <2>4. prints \in [File -> Text \cup {None}]
    <3> SUFFICES ASSUME NEW f \in read PROVE disk[f].text \in Text
      OBVIOUS
    <3>1. PICK s \in Source : Parses(s) /\ f \in {s, deps[s]}
      OBVIOUS
    <3>2. f # None
      BY ReloadAssumption DEF File
    <3> QED BY <2>1, <2>2, <3>1, <3>2
  <2>5. Loaded0 = [layers |-> layers, deps |-> deps, prints |-> prints, untrackable |-> {}]
    BY DEF Loaded0
  <2> HIDE DEF layers, deps, prints
  <2> QED BY <2>3, <2>4, <2>5 DEF Cache
<1>6. \A p \in Proc : job[p] = NoJob /\ pc[p] = "idle"
  BY DEF Init
<1>7. ReadOK
  BY <1>6 DEF ReadOK, NoJob
<1> QED
  BY <1>1, <1>5, <1>7, NoJobType, ReloadAssumption DEF Init, TypeInv, TypeOK, Labels
\* Every step keeps the types.
LEMMA NextType == TypeInv /\ [Next]_vars => TypeInv'
<1> SUFFICES ASSUME TypeInv, [Next]_vars PROVE TypeInv'
  OBVIOUS
<1> USE DEF TypeInv
<1>0. TypeOK /\ ReadOK
  OBVIOUS
<1>1. CASE UNCHANGED vars
  BY <1>0, <1>1 DEF vars, tracked, world, TypeOK, ReadOK
<1>2. ASSUME NEW p \in Proc, Call(p) PROVE TypeInv'
  <2> PICK full \in BOOLEAN : job' = [job EXCEPT ![p] = [NoJob EXCEPT !.full = full, !.began = edits]]
    BY <1>2 DEF Call
  <2>1. [NoJob EXCEPT !.full = full, !.began = edits] \in Job
    BY <1>0, NoJobType DEF TypeOK, Job
  <2>2. TypeOK'
    BY <1>0, <1>2, <2>1 DEF TypeOK, Call, Goto, world, tracked, Labels
  <2>3. ReadOK'
    BY <1>0, <1>2 DEF TypeOK, ReadOK, Call, Goto, NoJob
  <2> QED BY <2>2, <2>3
<1>3. ASSUME NEW p \in Proc, Snapshot(p) PROVE TypeInv'
  <2> DEFINE j == [NoJob EXCEPT
               !.full = job[p].full, !.began = job[p].began, !.rev = revision, !.cand = live,
               !.look = IF job[p].full THEN {} ELSE Source,
               !.lookDeps = IF job[p].full THEN {} ELSE {s \in Source : live.deps[s] # None},
               !.todo = IF job[p].full THEN Source ELSE {}]
  <2>1. j \in Job /\ j.inc = Unread /\ j.cand = live
        /\ j.lookDeps \subseteq {s \in Source : live.deps[s] # None}
    BY <1>0, NoJobType DEF TypeOK, Job, NoJob
  <2>2. job' = [job EXCEPT ![p] = j]
    BY <1>3 DEF Snapshot
  <2> HIDE DEF j
  <2>3. TypeOK'
    BY <1>0, <1>3, <2>1, <2>2 DEF TypeOK, Snapshot, Goto, world, tracked, Labels
  <2>4. ReadOK'
    BY <1>0, <1>3, <2>1, <2>2 DEF TypeOK, ReadOK, Snapshot, Goto
  <2> QED BY <2>3, <2>4
<1>4. ASSUME NEW p \in Proc, NEW s \in Source, InspectSource(p, s) PROVE TypeInv'
  <2> DEFINE c == job[p].cand
             todo == IF s \in c.untrackable \/ Changed(c, s) THEN job[p].todo \cup {s} ELSE job[p].todo
             j == [job[p] EXCEPT !.look = @ \ {s}, !.todo = todo, !.cand = Looked(c, s)]
  <2>1. Looked(c, s) \in Cache /\ Looked(c, s).deps = c.deps
    BY <1>0, LookedType DEF TypeOK, Job, File
  <2>2. TypeOK'
    <3>1. todo \in SUBSET Source /\ job[p] \in Job
      BY <1>0 DEF TypeOK, Job
    <3>2. job' = [job EXCEPT ![p] = j]
      BY <1>4 DEF InspectSource
    <3> HIDE DEF todo
    <3>3. j \in Job
      BY <2>1, <3>1 DEF Job
    <3> HIDE DEF j
    <3> QED BY <1>0, <1>4, <3>2, <3>3 DEF TypeOK, InspectSource, world, tracked
  <2>3. ReadOK'
    <3>1. job' = [job EXCEPT ![p] = j] /\ pc' = pc
      BY <1>4 DEF InspectSource
    <3>2. \A q \in Proc : q # p => job'[q] = job[q]
      BY <1>0, <3>1 DEF TypeOK
    <3>3. job'[p] = j
      BY <1>0, <3>1 DEF TypeOK
    <3>4. j.own = job[p].own /\ j.inc = job[p].inc /\ j.lookDeps = job[p].lookDeps
          /\ j.cand.deps = job[p].cand.deps
      BY <2>1
    <3> HIDE DEF j
    <3> QED BY <1>0, <3>1, <3>2, <3>3, <3>4 DEF ReadOK
  <2> QED BY <2>2, <2>3
<1>5. ASSUME NEW p \in Proc, NEW s \in Source, InspectDependency(p, s) PROVE TypeInv'
  <2> DEFINE c == job[p].cand
             todo == IF DependencyChanged(c, s) THEN job[p].todo \cup {s} ELSE job[p].todo
             j == [job[p] EXCEPT !.lookDeps = @ \ {s}, !.todo = todo, !.cand = Looked(c, c.deps[s])]
  <2>1. c \in Cache /\ c.deps[s] # None
    BY <1>0, <1>5 DEF TypeOK, ReadOK, Job, InspectDependency, First
  <2>2. Looked(c, c.deps[s]) \in Cache /\ Looked(c, c.deps[s]).deps = c.deps
    <3>1. c.deps[s] \in File
      BY <2>1 DEF Cache, File
    <3> QED BY <2>1, <3>1, LookedType
  <2>3. TypeOK'
    <3>1. todo \in SUBSET Source /\ job[p] \in Job
      BY <1>0 DEF TypeOK, Job
    <3>2. job' = [job EXCEPT ![p] = j]
      BY <1>5 DEF InspectDependency
    <3> HIDE DEF todo
    <3>3. j \in Job
      BY <2>2, <3>1 DEF Job
    <3> HIDE DEF j
    <3> QED BY <1>0, <1>5, <3>2, <3>3 DEF TypeOK, InspectDependency, world, tracked
  <2>4. ReadOK'
    <3>1. job' = [job EXCEPT ![p] = j] /\ pc' = pc
      BY <1>5 DEF InspectDependency
    <3>2. \A q \in Proc : q # p => job'[q] = job[q]
      BY <1>0, <3>1 DEF TypeOK
    <3>3. job'[p] = j
      BY <1>0, <3>1 DEF TypeOK
    <3>4. j.own = job[p].own /\ j.inc = job[p].inc /\ j.lookDeps = job[p].lookDeps \ {s}
          /\ j.cand.deps = job[p].cand.deps
      BY <2>1, <2>2
    <3> HIDE DEF j
    <3> QED BY <1>0, <3>1, <3>2, <3>3, <3>4 DEF ReadOK
  <2> QED BY <2>3, <2>4
<1>6. ASSUME NEW p \in Proc, Decide(p) PROVE TypeInv'
  BY <1>0, <1>6 DEF TypeOK, ReadOK, Decide, Goto, world, tracked, Labels
<1>7. ASSUME NEW p \in Proc, Fail(p), UNCHANGED <<world, lenient, tracked, calls>> PROVE TypeInv'
  <2>1. TypeOK'
    BY <1>0, <1>7, NoJobType DEF TypeOK, Fail, Goto, world, tracked, Labels
  <2>2. ReadOK'
    BY <1>0, <1>7 DEF TypeOK, ReadOK, Fail, Goto, NoJob
  <2> QED BY <2>1, <2>2
<1>8. ASSUME NEW p \in Proc, NEW s \in Source, Load(p, s) PROVE TypeInv'
  <2>1. CASE Parses(s)
    <3>1. disk[s] \in Stamped /\ disk[s].text \in Text
      BY <1>0, <2>1, ParsedText DEF TypeOK, File
    <3>2. pc[p] = "load" /\ job[p].inc = Unread
      BY <1>0, <1>8 DEF Load, ReadOK
    <3>3. TypeOK'
      <4>1. [job[p] EXCEPT !.own = disk[s]] \in Job
        BY <1>0, <3>1 DEF TypeOK, Job
      <4>2. job' = [job EXCEPT ![p] = [job[p] EXCEPT !.own = disk[s]]] /\ Goto(p, "compose")
        BY <1>8, <2>1 DEF Load
      <4> QED BY <1>0, <1>8, <4>1, <4>2 DEF TypeOK, Load, Goto, world, tracked, Labels
    <3>4. ReadOK'
      BY <1>0, <1>8, <2>1, <3>1, <3>2 DEF TypeOK, ReadOK, Load, Goto, Job
    <3> QED BY <3>3, <3>4
  <2>2. CASE ~Parses(s) /\ Tolerated(s)
    <3>1. WithoutLayer(job[p].cand, s) \in Cache
      BY <1>0, WithoutLayerType DEF TypeOK, Job
    <3>2. TypeOK'
      BY <1>0, <1>8, <2>2, <3>1 DEF TypeOK, Load, LoadFailed, Job, world, tracked
    <3>3. ReadOK'
      BY <1>0, <1>8, <2>2 DEF TypeOK, ReadOK, Load, LoadFailed, Job
    <3> QED BY <3>2, <3>3
  <2>3. CASE ~Parses(s) /\ ~Tolerated(s)
    BY <1>7, <1>8, <2>3 DEF Load, LoadFailed
  <2> QED BY <2>1, <2>2, <2>3
<1>9. ASSUME NEW p \in Proc, Compose(p) PROVE TypeInv'
  <2> DEFINE i == IncludeOf[job[p].own.text]
             read == IF i # None /\ Parses(i) THEN disk[i] ELSE Unread
  <2>1. CASE i # None /\ ~Parses(i) /\ ~lenient
    BY <1>7, <1>9, <2>1 DEF Compose
  <2>2. CASE ~(i # None /\ ~Parses(i) /\ ~lenient)
    <3>1. i \in Include \cup {None}
      BY <1>0, <1>9, ReloadAssumption DEF ReadOK, Compose
    <3>2. read \in Stamped \cup {Unread} /\ (read # Unread => i # None)
      BY <1>0, <3>1 DEF TypeOK, File
    <3>3. job' = [job EXCEPT ![p].inc = read] /\ Goto(p, "track")
      BY <1>9, <2>2 DEF Compose
    <3> HIDE DEF read
    <3>4. TypeOK'
      BY <1>0, <1>9, <3>2, <3>3 DEF TypeOK, Compose, Goto, Job, world, tracked, Labels
    <3>5. ReadOK'
      BY <1>0, <1>9, <3>2, <3>3 DEF TypeOK, ReadOK, Compose, Goto, Job
    <3> QED BY <3>4, <3>5
  <2> QED BY <2>1, <2>2
<1>10. ASSUME NEW p \in Proc, NEW s \in Source, TrackLayer(p, s) PROVE TypeInv'
  <2> DEFINE j == job[p]
             dep == DependencyOf(j.own, j.inc)
             c == Track(j.cand, {s, dep} \ {None})
             d == WithLayer(c, s, j.own, j.inc)
             k == [j EXCEPT !.todo = @ \ {s}, !.own = Unread, !.inc = Unread, !.cand = d]
  <2>1. j \in Job /\ j.own.text \in Text /\ dep \in Include \cup {None}
    BY <1>0, <1>10, DependencyType DEF TypeOK, ReadOK, TrackLayer
  <2>2. d \in Cache
    <3>1. c \in Cache
      BY <1>0, <2>1, TrackType DEF TypeOK, Job, File
    <3> QED BY <2>1, <3>1, WithLayerType DEF Job
  <2>3. /\ job' = [job EXCEPT ![p] = k]
        /\ Goto(p, "load")
        /\ UNCHANGED <<world, lenient, tracked, calls>>
    BY <1>10 DEF TrackLayer
  <2>4. k \in Job /\ k.inc = Unread
    <3> HIDE DEF d
    <3> QED BY <2>1, <2>2 DEF Job
  <2> HIDE DEF k
  <2>5. TypeOK'
    BY <1>0, <2>3, <2>4 DEF TypeOK, Goto, world, tracked, Labels
  <2>6. ReadOK'
    BY <1>0, <2>3, <2>4 DEF TypeOK, ReadOK, Goto
  <2> QED BY <2>5, <2>6
<1>11. ASSUME NEW p \in Proc, Discard(p) PROVE TypeInv'
  BY <1>7, <1>11 DEF Discard
<1>12. ASSUME NEW p \in Proc, Commit(p) PROVE TypeInv'
  <2>1. TypeOK'
    BY <1>0, <1>12 DEF TypeOK, Commit, Goto, Job, world, tracked, Labels
  <2>2. ReadOK'
    BY <1>0, <1>12 DEF TypeOK, ReadOK, Commit, Goto
  <2> QED BY <2>1, <2>2
<1>13. ASSUME NEW p \in Proc, Finish(p) PROVE TypeInv'
  BY <1>7, <1>13 DEF Finish
<1>14. ASSUME NEW f \in File, Edit(f) PROVE TypeInv'
  <2> PICK t \in Holds[f] \ {disk[f].text} :
             disk' = [disk EXCEPT ![f] = [text |-> t, at |-> edits + 1]]
    BY <1>14 DEF Edit
  <2>1. t \in Text \cup {Missing}
    BY ReloadAssumption
  <2>2. TypeOK'
    BY <1>0, <1>14, <2>1 DEF TypeOK, Edit, Stamped, tracked
  <2>3. ReadOK'
    BY <1>0, <1>14 DEF ReadOK, Edit
  <2> QED BY <2>2, <2>3
<1> QED
  BY <1>1, <1>2, <1>3, <1>4, <1>5, <1>6, <1>8, <1>9, <1>10, <1>11, <1>12, <1>13, <1>14
     DEF Next, Step

\* The state of the Config, its file tracker and the reloads in flight always have
\* their types; what a reload has read is a text that can be composed.
THEOREM TypeCorrect == Spec => []TypeInv
BY InitType, NextType, PTL DEF Spec
-----------------------------------------------------------------------------
(* What each step does to the goroutine that takes it and to its candidate *)

\* Only p moves, and nothing of the Config or of the world does.
Private(p) ==
  /\ \A q \in Proc \ {p} : job'[q] = job[q] /\ pc'[q] = pc[q]
  /\ UNCHANGED <<world, lenient, tracked>>

\* The call of p is over, or has just begun.
Idles(p) == Private(p) /\ pc'[p] \in {"idle", "attempt"}

LEMMA FailStep ==
  ASSUME TypeInv, NEW p \in Proc, Fail(p), UNCHANGED <<world, lenient, tracked, calls>>
  PROVE  Idles(p)
BY DEF TypeInv, TypeOK, Fail, Goto, Idles, Private

LEMMA CallStep ==
  ASSUME TypeInv, NEW p \in Proc, Call(p)
  PROVE  Idles(p)
<1>1. PICK full \in BOOLEAN : job' = [job EXCEPT ![p] = [NoJob EXCEPT !.full = full, !.began = edits]]
  BY DEF Call
<1>2. Goto(p, "attempt") /\ UNCHANGED <<world, lenient, tracked>>
  BY DEF Call
<1> QED BY <1>1, <1>2 DEF TypeInv, TypeOK, Goto, Idles, Private

\* The candidate starts as a copy of what is published.
LEMMA SnapshotStep ==
  ASSUME TypeInv, NEW p \in Proc, Snapshot(p)
  PROVE  /\ Private(p)
         /\ pc'[p] \in {"load", "select"}
         /\ job'[p].cand = live /\ job'[p].rev = revision /\ job'[p].inc = Unread
<1> DEFINE j == [NoJob EXCEPT
             !.full = job[p].full, !.began = job[p].began, !.rev = revision, !.cand = live,
             !.look = IF job[p].full THEN {} ELSE Source,
             !.lookDeps = IF job[p].full THEN {} ELSE {s \in Source : live.deps[s] # None},
             !.todo = IF job[p].full THEN Source ELSE {}]
<1>1. job' = [job EXCEPT ![p] = j]
  BY DEF Snapshot
<1>2. j.cand = live /\ j.rev = revision /\ j.inc = Unread
  BY DEF NoJob
<1>3. UNCHANGED <<world, lenient, tracked>> /\ \E l \in {"load", "select"} : Goto(p, l)
  BY DEF Snapshot
<1> HIDE DEF j
<1> QED BY <1>1, <1>2, <1>3 DEF TypeInv, TypeOK, Goto, Private

\* Selection changes neither layers nor dependencies.
LEMMA InspectStep ==
  ASSUME TypeInv, NEW p \in Proc, NEW s \in Source,
         InspectSource(p, s) \/ InspectDependency(p, s)
  PROVE  /\ Private(p)
         /\ pc[p] = "select" /\ pc'[p] = "select"
         /\ job'[p].cand.layers = job[p].cand.layers
         /\ job'[p].cand.deps = job[p].cand.deps
         /\ job'[p].rev = job[p].rev /\ job'[p].inc = job[p].inc
<1> DEFINE c == job[p].cand
<1>1. job \in [Proc -> Job] /\ job[p] \in Job /\ c \in Cache
  BY DEF TypeInv, TypeOK, Job
<1>2. CASE InspectSource(p, s)
  <2> DEFINE todo == IF s \in c.untrackable \/ Changed(c, s) THEN job[p].todo \cup {s} ELSE job[p].todo
             j == [job[p] EXCEPT !.look = @ \ {s}, !.todo = todo, !.cand = Looked(c, s)]
  <2>1. job' = [job EXCEPT ![p] = j]
    BY <1>2 DEF InspectSource
  <2>2. Looked(c, s).layers = c.layers /\ Looked(c, s).deps = c.deps
    BY <1>1, LookedType DEF File
  <2> HIDE DEF todo
  <2>3. j.cand.layers = c.layers /\ j.cand.deps = c.deps /\ j.rev = job[p].rev /\ j.inc = job[p].inc
    BY <1>1, <2>2 DEF Job
  <2> HIDE DEF j
  <2>4. pc[p] = "select" /\ UNCHANGED <<world, lenient, tracked, pc>>
    BY <1>2 DEF InspectSource
  <2> QED BY <1>1, <2>1, <2>3, <2>4 DEF Private
<1>3. CASE InspectDependency(p, s)
  <2> DEFINE todo == IF DependencyChanged(c, s) THEN job[p].todo \cup {s} ELSE job[p].todo
             j == [job[p] EXCEPT !.lookDeps = @ \ {s}, !.todo = todo, !.cand = Looked(c, c.deps[s])]
  <2>1. job' = [job EXCEPT ![p] = j]
    BY <1>3 DEF InspectDependency
  <2>2. Looked(c, c.deps[s]).layers = c.layers /\ Looked(c, c.deps[s]).deps = c.deps
    <3>1. c.deps[s] \in File
      BY <1>1, <1>3 DEF TypeInv, ReadOK, InspectDependency, First, Cache, File
    <3> QED BY <1>1, <3>1, LookedType
  <2> HIDE DEF todo
  <2>3. j.cand.layers = c.layers /\ j.cand.deps = c.deps /\ j.rev = job[p].rev /\ j.inc = job[p].inc
    BY <1>1, <2>2 DEF Job
  <2> HIDE DEF j
  <2>4. pc[p] = "select" /\ UNCHANGED <<world, lenient, tracked, pc>>
    BY <1>3 DEF InspectDependency
  <2> QED BY <1>1, <2>1, <2>3, <2>4 DEF Private
<1> QED BY <1>2, <1>3

\* A source is read, left out, or ends the call.
LEMMA LoadStep ==
  ASSUME TypeInv, NEW p \in Proc, NEW s \in Source, Load(p, s)
  PROVE  \/ Idles(p)
         \/ /\ Private(p) /\ Parses(s) /\ First(s, job[p].todo)
            /\ pc[p] = "load" /\ pc'[p] = "compose"
            /\ job'[p] = [job[p] EXCEPT !.own = disk[s]]
         \/ /\ Private(p) /\ ~Parses(s) /\ Tolerated(s)
            /\ pc[p] = "load" /\ pc'[p] = "load"
            /\ job'[p].cand.layers = [job[p].cand.layers EXCEPT ![s] = NoLayer]
            /\ job'[p].cand.deps = [job[p].cand.deps EXCEPT ![s] = None]
            /\ job'[p].rev = job[p].rev /\ job'[p].inc = job[p].inc
<1>1. job \in [Proc -> Job] /\ job[p] \in Job /\ job[p].cand \in Cache /\ pc \in [Proc -> Labels]
  BY DEF TypeInv, TypeOK, Job
<1>2. pc[p] = "load" /\ First(s, job[p].todo) /\ UNCHANGED <<world, lenient, tracked, calls>>
  BY DEF Load
<1>3. CASE Parses(s)
  <2>1. job' = [job EXCEPT ![p] = [job[p] EXCEPT !.own = disk[s]]] /\ Goto(p, "compose")
    BY <1>3 DEF Load
  <2> QED BY <1>1, <1>2, <1>3, <2>1 DEF Goto, Private
<1>4. CASE ~Parses(s) /\ Tolerated(s)
  <2> DEFINE d == WithoutLayer(job[p].cand, s)
             j == [job[p] EXCEPT !.todo = @ \ {s}, !.cand = d]
  <2>1. job' = [job EXCEPT ![p] = j] /\ UNCHANGED pc
    BY <1>4 DEF Load, LoadFailed
  <2>2. /\ d.layers = [job[p].cand.layers EXCEPT ![s] = NoLayer]
        /\ d.deps = [job[p].cand.deps EXCEPT ![s] = None]
    BY <1>1, WithoutLayerType
  <2> HIDE DEF d
  <2>3. j.cand = d /\ j.rev = job[p].rev /\ j.inc = job[p].inc
    BY <1>1 DEF Job
  <2> HIDE DEF j
  <2> QED BY <1>1, <1>2, <1>4, <2>1, <2>2, <2>3 DEF Private
<1>5. CASE ~Parses(s) /\ ~Tolerated(s)
  BY <1>2, <1>5, FailStep DEF Load, LoadFailed
<1> QED BY <1>3, <1>4, <1>5

\* The include is read, is not there, or ends the call.
LEMMA ComposeStep ==
  ASSUME TypeInv, NEW p \in Proc, Compose(p)
  PROVE  \/ Idles(p)
         \/ /\ Private(p)
            /\ pc[p] = "compose" /\ pc'[p] = "track"
            /\ LET i == IncludeOf[job[p].own.text] IN
                 /\ i # None /\ ~lenient => Parses(i)
                 /\ job'[p] = [job[p] EXCEPT !.inc =
                                 IF i # None /\ Parses(i) THEN disk[i] ELSE Unread]
<1> DEFINE i == IncludeOf[job[p].own.text]
           read == IF i # None /\ Parses(i) THEN disk[i] ELSE Unread
<1>1. job \in [Proc -> Job] /\ job[p] \in Job /\ pc \in [Proc -> Labels]
  BY DEF TypeInv, TypeOK
<1>2. pc[p] = "compose" /\ UNCHANGED <<world, lenient, tracked, calls>>
  BY DEF Compose
<1>3. CASE i # None /\ ~Parses(i) /\ ~lenient
  BY <1>2, <1>3, FailStep DEF Compose
<1>4. CASE ~(i # None /\ ~Parses(i) /\ ~lenient)
  <2>1. job' = [job EXCEPT ![p] = [job[p] EXCEPT !.inc = read]] /\ Goto(p, "track")
    BY <1>4 DEF Compose
  <2> HIDE DEF read
  <2>2. Private(p) /\ pc'[p] = "track" /\ job'[p] = [job[p] EXCEPT !.inc = read]
    BY <1>1, <1>2, <2>1 DEF Goto, Private
  <2> QED BY <1>2, <1>4, <2>2 DEF read
<1> QED BY <1>3, <1>4

\* The layer that was read becomes the layer of the source.
LEMMA TrackStep ==
  ASSUME TypeInv, NEW p \in Proc, NEW s \in Source, TrackLayer(p, s)
  PROVE  LET j == job[p] IN
         /\ Private(p) /\ First(s, j.todo)
         /\ pc[p] = "track" /\ pc'[p] = "load"
         /\ j.own.text \in Text
         /\ job'[p].cand.layers = [j.cand.layers EXCEPT ![s] = Composed(j.own, j.inc)]
         /\ job'[p].cand.deps = [j.cand.deps EXCEPT ![s] = DependencyOf(j.own, j.inc)]
         /\ job'[p].rev = j.rev /\ job'[p].inc = Unread
<1> DEFINE j == job[p]
           dep == DependencyOf(j.own, j.inc)
           c == Track(j.cand, {s, dep} \ {None})
           d == WithLayer(c, s, j.own, j.inc)
           k == [j EXCEPT !.todo = @ \ {s}, !.own = Unread, !.inc = Unread, !.cand = d]
<1>1. job \in [Proc -> Job] /\ pc \in [Proc -> Labels] /\ j \in Job
      /\ j.cand \in Cache /\ disk \in [File -> Stamped]
  BY DEF TypeInv, TypeOK, Job
<1>2. pc[p] = "track" /\ First(s, j.todo) /\ j.own.text \in Text
  BY DEF TrackLayer, TypeInv, ReadOK
<1>3. /\ job' = [job EXCEPT ![p] = k]
      /\ Goto(p, "load")
      /\ UNCHANGED <<world, lenient, tracked>>
  BY DEF TrackLayer
<1>4. c \in Cache /\ c.layers = j.cand.layers /\ c.deps = j.cand.deps
  <2>1. {s, dep} \ {None} \in SUBSET File
    BY <1>2, DependencyType DEF File
  <2> QED BY <1>1, <2>1, TrackType
<1> HIDE DEF c
<1>5. /\ d.layers = [j.cand.layers EXCEPT ![s] = Composed(j.own, j.inc)]
      /\ d.deps = [j.cand.deps EXCEPT ![s] = dep]
  <2>1. j.own \in Stamped \cup {Unread} /\ j.inc \in Stamped \cup {Unread}
    BY <1>1 DEF Job
  <2>2. d.layers = [c.layers EXCEPT ![s] = Composed(j.own, j.inc)] /\ d.deps = [c.deps EXCEPT ![s] = dep]
    BY <1>2, <1>4, <2>1, WithLayerType
  <2> QED BY <1>4, <2>2
<1> HIDE DEF d
<1>6. k.cand = d /\ k.rev = j.rev /\ k.inc = Unread
  BY <1>1 DEF Job
<1> HIDE DEF k
<1> QED BY <1>1, <1>2, <1>3, <1>5, <1>6 DEF Goto, Private

\* A commit publishes the candidate, unless the revision has moved.
LEMMA CommitStep ==
  ASSUME TypeInv, NEW p \in Proc, Commit(p)
  PROVE  \/ Idles(p)
         \/ /\ pc[p] = "load" /\ job[p].todo = {} /\ job[p].rev = revision
            /\ live' = job[p].cand /\ revision' = revision + 1
            /\ UNCHANGED <<world, lenient, job>>
            /\ pc'[p] = "done" /\ \A q \in Proc \ {p} : pc'[q] = pc[q]
BY DEF TypeInv, TypeOK, Commit, Superseded, Goto, Idles, Private, tracked

\* The steps, by what they do to the candidates and to what is published.
LEMMA StepCases ==
  ASSUME TypeInv, [Next]_vars
  PROVE  \/ UNCHANGED vars
         \/ \E p \in Proc : Idles(p)
         \/ \E p \in Proc : Snapshot(p)
         \/ \E p \in Proc, s \in Source : InspectSource(p, s) \/ InspectDependency(p, s)
         \/ \E p \in Proc : Decide(p)
         \/ \E p \in Proc, s \in Source : Load(p, s)
         \/ \E p \in Proc : Compose(p)
         \/ \E p \in Proc, s \in Source : TrackLayer(p, s)
         \/ \E p \in Proc : Commit(p)
         \/ \E f \in File : Edit(f)
<1>1. ASSUME NEW p \in Proc, Discard(p) \/ Finish(p) PROVE Idles(p)
  BY <1>1, FailStep DEF Discard, Finish
<1> QED BY <1>1, CallStep DEF Next, Step
\* The error policy never changes.
LEMMA PolicyConstant ==
  ASSUME TypeInv, [Next]_vars
  PROVE  lenient' = lenient
<1>1. ASSUME NEW p \in Proc, Idles(p) \/ Snapshot(p) \/ Decide(p) \/ Compose(p) \/ Commit(p)
      PROVE  lenient' = lenient
  BY <1>1 DEF Idles, Private, Snapshot, Decide, Compose, Commit
<1>2. ASSUME NEW p \in Proc, NEW s \in Source,
             InspectSource(p, s) \/ InspectDependency(p, s) \/ Load(p, s) \/ TrackLayer(p, s)
      PROVE  lenient' = lenient
  BY <1>2 DEF InspectSource, InspectDependency, Load, TrackLayer
<1>3. ASSUME NEW f \in File, Edit(f) PROVE lenient' = lenient
  BY <1>3 DEF Edit
<1> QED BY <1>1, <1>2, <1>3, StepCases DEF vars

-----------------------------------------------------------------------------
(* Mandatory layers *)

LEMMA InitRequired == Init => RequiredInv
<1> SUFFICES ASSUME Init, ~lenient, NEW s \in Source \ Optional
             PROVE  live.layers[s].own # Unread /\ \A p \in Proc : ~Running(p)
  BY DEF RequiredInv
<1>1. disk \in [File -> Stamped]
  BY InitType DEF Init, TypeInv, TypeOK
<1>2. Parses(s)
  BY DEF Init, Loads, Tolerated
<1>3. live.layers[s].own = disk[s]
  BY <1>2 DEF Init, Loaded0, Layer0, Composed
<1> QED BY <1>1, <1>2, <1>3, ParsedText DEF Init, Running, File

\* A mandatory layer is replaced by one that was read, or not at all.
LEMMA NextRequired == TypeInv /\ RequiredInv /\ [Next]_vars => RequiredInv'
<1> DEFINE Here(s, c) == c.layers[s].own # Unread
<1> SUFFICES ASSUME TypeInv, RequiredInv, [Next]_vars, ~lenient, NEW s \in Source \ Optional
             PROVE  Here(s, live') /\ \A q \in Proc : Running(q)' => Here(s, job'[q].cand)
  <2>1. TypeInv /\ [Next]_vars => lenient' = lenient
    BY PolicyConstant
  <2> QED BY <2>1 DEF RequiredInv
<1> DEFINE Goal == Here(s, live') /\ \A q \in Proc : Running(q)' => Here(s, job'[q].cand)
<1>0. Here(s, live) /\ \A q \in Proc : Running(q) => Here(s, job[q].cand)
  BY DEF RequiredInv
<1>a. ASSUME NEW p \in Proc, Private(p), Running(p)' => Here(s, job'[p].cand) PROVE Goal
  BY <1>0, <1>a DEF Private, Running, tracked
<1>b. \A p \in Proc : job[p] \in Job /\ job[p].cand \in Cache
  BY DEF TypeInv, TypeOK, Job
<1>1. CASE UNCHANGED vars
  BY <1>0, <1>1 DEF vars, tracked, Running
<1>2. ASSUME NEW p \in Proc, Idles(p) PROVE Goal
  BY <1>2, <1>a DEF Idles, Running
<1>3. ASSUME NEW p \in Proc, Snapshot(p) PROVE Goal
  BY <1>0, <1>3, <1>a, SnapshotStep
<1>4. ASSUME NEW p \in Proc, NEW r \in Source, InspectSource(p, r) \/ InspectDependency(p, r)
      PROVE  Goal
  BY <1>0, <1>4, <1>a, InspectStep DEF Running
<1>5. ASSUME NEW p \in Proc, Decide(p) PROVE Goal
  <2>1. Running(p) /\ UNCHANGED <<world, lenient, tracked, job>> /\ \A q \in Proc \ {p} : pc'[q] = pc[q]
    BY <1>5 DEF Decide, Running, Goto, TypeInv, TypeOK
  <2> QED BY <1>0, <1>a, <2>1 DEF Private
<1>6. ASSUME NEW p \in Proc, NEW r \in Source, Load(p, r) PROVE Goal
  <2>1. CASE Idles(p)
    BY <1>2, <2>1
  <2>2. CASE pc[p] = "load" /\ Private(p) /\ job'[p] = [job[p] EXCEPT !.own = disk[r]]
    BY <1>0, <1>a, <1>b, <2>2 DEF Running, Job
  <2>3. CASE /\ pc[p] = "load" /\ Private(p) /\ Tolerated(r)
             /\ job'[p].cand.layers = [job[p].cand.layers EXCEPT ![r] = NoLayer]
    <3>1. r # s
      BY <2>3 DEF Tolerated
    <3>2. job'[p].cand.layers[s] = job[p].cand.layers[s]
      BY <1>b, <2>3, <3>1 DEF Cache
    <3> QED BY <1>0, <1>a, <2>3, <3>2 DEF Running
  <2> QED BY <1>6, <2>1, <2>2, <2>3, LoadStep
<1>7. ASSUME NEW p \in Proc, Compose(p) PROVE Goal
  <2>1. CASE Idles(p)
    BY <1>2, <2>1
  <2>2. ASSUME NEW x, Private(p), pc[p] = "compose", job'[p] = [job[p] EXCEPT !.inc = x]
        PROVE  Goal
    <3>1. job'[p].cand = job[p].cand
      BY <1>b, <2>2 DEF Job
    <3> QED BY <1>0, <1>a, <2>2, <3>1 DEF Running
  <2> QED BY <1>7, <2>1, <2>2, ComposeStep
<1>8. ASSUME NEW p \in Proc, NEW r \in Source, TrackLayer(p, r) PROVE Goal
  <2> DEFINE new == Composed(job[p].own, job[p].inc)
  <2>1. /\ Private(p) /\ pc[p] = "track" /\ job[p].own.text \in Text
        /\ job'[p].cand.layers = [job[p].cand.layers EXCEPT ![r] = new]
    BY <1>8, TrackStep
  <2>2. new.own # Unread
    BY <2>1, ReloadAssumption DEF Composed, Unread
  <2>3. Here(s, job[p].cand)
    BY <1>0, <2>1 DEF Running
  <2> HIDE DEF new
  <2>4. Here(s, job'[p].cand)
    BY <1>b, <2>1, <2>2, <2>3 DEF Cache
  <2> QED BY <1>a, <2>1, <2>4
<1>9. ASSUME NEW p \in Proc, Commit(p) PROVE Goal
  <2>1. CASE Idles(p)
    BY <1>2, <2>1
  <2>2. CASE /\ pc[p] = "load" /\ live' = job[p].cand /\ UNCHANGED job
             /\ pc'[p] = "done" /\ \A q \in Proc \ {p} : pc'[q] = pc[q]
    BY <1>0, <2>2 DEF Running
  <2> QED BY <1>9, <2>1, <2>2, CommitStep
<1>10. ASSUME NEW f \in File, Edit(f) PROVE Goal
  BY <1>0, <1>10 DEF Edit, Running, tracked
<1> QED
  BY <1>1, <1>2, <1>3, <1>4, <1>5, <1>6, <1>7, <1>8, <1>9, <1>10, StepCases

\* Whatever fails, a Config that raises on errors never publishes a configuration
\* without the layer of a mandatory source.
THEOREM RequiredLayersAlways == Spec => []RequiredLayersStay
<1>1. Init => TypeInv /\ RequiredInv
  BY InitType, InitRequired
<1>2. TypeInv /\ RequiredInv /\ [Next]_vars => (TypeInv /\ RequiredInv)'
  BY NextType, NextRequired
<1>3. TypeInv /\ RequiredInv => RequiredLayersStay
  BY DEF RequiredInv, RequiredLayersStay
<1> QED BY <1>1, <1>2, <1>3, PTL DEF Spec
-----------------------------------------------------------------------------
(* Nothing published goes back *)

LEMMA InitAge == Init => AgeInv
<1> SUFFICES ASSUME Init PROVE AgeInv
  OBVIOUS
<1>1. TypeInv
  BY InitType
<1>2. \A f \in File : disk[f] \in Stamped /\ disk[f].at = 0
  BY DEF Init, Stamped
<1>3. \A s \in Source : live.layers[s] = Layer0(s)
  BY DEF Init, Loaded0
<1>4. \A s \in Source : live.layers[s].own.at = 0 /\ live.layers[s].inc.at = 0
  <2> SUFFICES ASSUME NEW s \in Source PROVE Layer0(s).own.at = 0 /\ Layer0(s).inc.at = 0
    BY <1>3
  <2>1. Include0(s).at = 0
    <3>1. Parses(s) => IncludeOf[disk[s].text] \in Include \cup {None}
      BY <1>2, ParsedText, ReloadAssumption DEF Init, File, Stamped
    <3> QED BY <1>2, <3>1 DEF Include0, Unread, File
  <2> QED BY <1>2, <2>1 DEF Layer0, Composed, NoLayer, Unread, File
<1>5. AgeOK(live)
  BY <1>1, <1>2, <1>4 DEF AgeOK, TypeInv, TypeOK, Cache, File
<1>6. \A p \in Proc : ~Running(p)
  BY DEF Init, Running
<1> QED BY <1>2, <1>5, <1>6 DEF AgeInv, Init

\* The part of AgeInv about one goroutine.
AgeOf(p) ==
  Running(p) =>
    /\ AgeOK(job[p].cand)
    /\ job[p].rev <= revision
    /\ job[p].rev = revision => \A s \in Source :
         Recent(s, job[p].cand.layers[s].own, job[p].cand.layers[s].inc, job[p].cand.deps[s])
    /\ \A s \in Source : First(s, job[p].todo) => ReadAge(p, s)

\* A goroutine that does not move keeps its part while nothing is published and no
\* file is edited.
LEMMA PrivateAge ==
  ASSUME TypeInv, AgeInv, NEW p \in Proc, Private(p), AgeOf(p)'
  PROVE  AgeInv'
<1>1. /\ \A f \in File : disk'[f].at <= edits'
      /\ AgeOK(live)'
  BY DEF AgeInv, Private, AgeOK, world, tracked
<1>2. ASSUME NEW q \in Proc \ {p} PROVE AgeOf(q)'
  BY <1>2 DEF AgeInv, AgeOf, Private, AgeOK, Recent, ReadAge, Running, world, tracked
<1>3. \A q \in Proc : AgeOf(q)'
  BY <1>2
<1> QED BY <1>1, <1>3 DEF AgeInv, AgeOf

\* Ages are numbers.
LEMMA AgeType ==
  ASSUME TypeInv
  PROVE  /\ edits \in Nat /\ revision \in Nat
         /\ \A f \in File : disk[f] \in Stamped /\ disk[f].at \in Nat
         /\ \A c \in Cache, s \in Source :
              /\ c.layers[s] \in Layer
              /\ c.layers[s].own.at \in Nat /\ c.layers[s].inc.at \in Nat
              /\ c.deps[s] \in Include \cup {None}
         /\ live \in Cache
         /\ \A p \in Proc :
              /\ job[p] \in Job /\ job[p].cand \in Cache /\ job[p].rev \in Nat
              /\ job[p].own \in Stamped \cup {Unread} /\ job[p].own.at \in Nat
              /\ job[p].inc \in Stamped \cup {Unread} /\ job[p].inc.at \in Nat
BY DEF TypeInv, TypeOK, Cache, Layer, Stamped, Unread, Job

\* An edit only makes files younger.
LEMMA EditAge ==
  ASSUME TypeInv, NEW f \in File, Edit(f), AgeInv
  PROVE  AgeInv'
<1>1. \A h \in File : disk[h].at <= disk'[h].at /\ disk'[h].at <= edits' /\ disk'[h].at \in Nat
  <2>1. PICK t : disk' = [disk EXCEPT ![f] = [text |-> t, at |-> edits + 1]]
    BY DEF Edit
  <2>2. edits' = edits + 1 /\ disk \in [File -> Stamped] /\ edits \in Nat
    BY DEF Edit, TypeInv, TypeOK
  <2>3. \A h \in File : disk[h].at \in Nat /\ disk[h].at <= edits
    BY AgeType DEF AgeInv
  <2> QED BY <2>1, <2>2, <2>3
<1>2. UNCHANGED <<live, revision, pc, job>>
  BY DEF Edit, tracked
<1>3. ASSUME NEW c \in Cache, AgeOK(c) PROVE AgeOK(c)'
  <2> SUFFICES ASSUME NEW s \in Source
               PROVE  /\ c.layers[s].own.at <= disk'[s].at
                      /\ c.deps[s] # None => c.layers[s].inc.at <= disk'[c.deps[s]].at
    BY DEF AgeOK
  <2>1. /\ c.layers[s].own.at \in Nat /\ c.layers[s].inc.at \in Nat
        /\ c.deps[s] # None => c.deps[s] \in File
        /\ \A h \in File : disk[h].at \in Nat
    BY AgeType DEF File
  <2>2. s \in File
    BY DEF File
  <2> QED BY <1>1, <1>3, <2>1, <2>2 DEF AgeOK
<1>4. ASSUME NEW p \in Proc, NEW s \in Source, Running(p), ReadAge(p, s) PROVE ReadAge(p, s)'
  <2>1. /\ job[p].own.at \in Nat /\ job[p].inc.at \in Nat /\ s \in File
        /\ \A h \in File : disk[h].at \in Nat
    BY AgeType DEF File
  <2>2. job[p].inc # Unread => IncludeOf[job[p].own.text] \in File
    BY ReloadAssumption DEF TypeInv, ReadOK, File
  <2> QED BY <1>1, <1>2, <1>4, <2>1, <2>2 DEF ReadAge
<1>5. ASSUME NEW p \in Proc PROVE AgeOf(p)'
  BY <1>2, <1>3, <1>4, AgeType DEF AgeInv, AgeOf, Running, Recent, First
<1>6. AgeOK(live)'
  BY <1>2, <1>3, AgeType DEF AgeInv, AgeOK
<1> QED BY <1>1, <1>5, <1>6 DEF AgeInv, AgeOf
LEMMA NextAge == TypeInv /\ AgeInv /\ [Next]_vars => AgeInv'
<1> SUFFICES ASSUME TypeInv, AgeInv, [Next]_vars PROVE AgeInv'
  OBVIOUS
<1>0. \A p \in Proc : AgeOf(p)
  BY DEF AgeInv, AgeOf
<1>1. CASE UNCHANGED vars
  BY <1>1 DEF AgeInv, AgeOK, Recent, ReadAge, Running, vars, world, tracked
<1>2. ASSUME NEW p \in Proc, Idles(p) PROVE AgeInv'
  BY <1>2, PrivateAge DEF Idles, AgeOf, Running
<1>3. ASSUME NEW p \in Proc, Snapshot(p) PROVE AgeInv'
  <2>1. /\ Private(p) /\ pc'[p] \in {"load", "select"}
        /\ job'[p].cand = live /\ job'[p].rev = revision /\ job'[p].inc = Unread
    BY <1>3, SnapshotStep
  <2>2. UNCHANGED <<live, revision, disk>>
    BY <2>1 DEF Private, tracked, world
  <2>3. AgeOK(job[p].cand)'
    BY <2>1, <2>2 DEF AgeInv, AgeOK
  <2>4. \A s \in Source :
          Recent(s, job[p].cand.layers[s].own, job[p].cand.layers[s].inc, job[p].cand.deps[s])'
    BY <2>1, <2>2, AgeType DEF Recent
  <2>5. \A s \in Source : ReadAge(p, s)'
    BY <2>1 DEF ReadAge
  <2>6. AgeOf(p)'
    BY <2>1, <2>2, <2>3, <2>4, <2>5, AgeType DEF AgeOf
  <2> QED BY <2>1, <2>6, PrivateAge
<1>4. ASSUME NEW p \in Proc, NEW r \in Source, InspectSource(p, r) \/ InspectDependency(p, r)
      PROVE  AgeInv'
  <2>1. /\ Private(p) /\ pc[p] = "select" /\ pc'[p] = "select"
        /\ job'[p].cand.layers = job[p].cand.layers /\ job'[p].cand.deps = job[p].cand.deps
        /\ job'[p].rev = job[p].rev /\ job'[p].inc = job[p].inc
    BY <1>4, InspectStep
  <2>2. job[p].inc = Unread
    BY <2>1 DEF TypeInv, ReadOK
  <2>3. \A s \in Source : ReadAge(p, s)'
    BY <2>1, <2>2 DEF ReadAge
  <2>4. AgeOf(p)'
    BY <1>0, <2>1, <2>3 DEF AgeOf, Running, AgeOK, Recent, Private, world, tracked
  <2> QED BY <2>1, <2>4, PrivateAge
<1>5. ASSUME NEW p \in Proc, Decide(p) PROVE AgeInv'
  <2>1. /\ pc[p] = "select" /\ pc'[p] \in {"done", "load"}
        /\ Private(p) /\ UNCHANGED job
    BY <1>5 DEF Decide, Private, Goto, TypeInv, TypeOK
  <2>2. \A s \in Source : ReadAge(p, s)'
    BY <2>1 DEF ReadAge, TypeInv, ReadOK
  <2>3. AgeOf(p)'
    BY <1>0, <2>1, <2>2 DEF AgeOf, Running, AgeOK, Recent, Private, world, tracked
  <2> QED BY <2>1, <2>3, PrivateAge
<1>6. ASSUME NEW p \in Proc, NEW r \in Source, Load(p, r) PROVE AgeInv'
  <2>1. CASE Idles(p)
    BY <1>2, <2>1
  <2>2. CASE /\ Private(p) /\ Parses(r) /\ First(r, job[p].todo)
             /\ pc[p] = "load" /\ pc'[p] = "compose"
             /\ job'[p] = [job[p] EXCEPT !.own = disk[r]]
    <3>1. /\ job'[p].own = disk[r] /\ job'[p].cand = job[p].cand /\ job'[p].rev = job[p].rev
          /\ job'[p].inc = job[p].inc /\ job'[p].todo = job[p].todo
          /\ job[p].todo \in SUBSET Source
      BY <2>2, AgeType DEF Job
    <3>2. UNCHANGED <<live, revision, disk>>
      BY <2>2 DEF Private, world, tracked
    <3>3. ReadAge(p, r)'
      <4>1. job[p].inc = Unread
        BY <2>2 DEF TypeInv, ReadOK
      <4>2. live.layers[r].own.at <= disk[r].at
        BY DEF AgeInv, AgeOK
      <4>3. disk[r].at \in Nat
        BY AgeType DEF File
      <4> QED BY <3>1, <3>2, <4>1, <4>2, <4>3 DEF ReadAge
    <3>4. \A s \in Source : First(s, job'[p].todo) => ReadAge(p, s)'
      BY <2>2, <3>1, <3>3, FirstUnique
    <3>5. AgeOf(p)'
      BY <1>0, <2>2, <3>1, <3>2, <3>4 DEF AgeOf, Running, AgeOK, Recent
    <3> QED BY <2>2, <3>5, PrivateAge
  <2>3. CASE /\ Private(p) /\ pc[p] = "load" /\ pc'[p] = "load"
             /\ job'[p].cand.layers = [job[p].cand.layers EXCEPT ![r] = NoLayer]
             /\ job'[p].cand.deps = [job[p].cand.deps EXCEPT ![r] = None]
             /\ job'[p].rev = job[p].rev /\ job'[p].inc = job[p].inc
    <3> DEFINE c == job[p].cand
               d == job'[p].cand
    <3>1. c \in Cache /\ AgeOK(c)
      BY <1>0, <2>3, AgeType DEF AgeOf, Running
    <3>2. \A s \in Source : /\ d.layers[s] = IF s = r THEN NoLayer ELSE c.layers[s]
                            /\ d.deps[s] = IF s = r THEN None ELSE c.deps[s]
      BY <2>3, <3>1 DEF Cache
    <3>3. UNCHANGED <<live, revision, disk>>
      BY <2>3 DEF Private, world, tracked
    <3>4. AgeOK(job[p].cand)'
      BY <3>1, <3>2, <3>3, AgeType DEF AgeOK, NoLayer, Unread, File
    <3>5. job'[p].rev = revision' => \A s \in Source :
            Recent(s, job[p].cand.layers[s].own, job[p].cand.layers[s].inc, job[p].cand.deps[s])'
      <4> SUFFICES ASSUME job[p].rev = revision, NEW s \in Source
                   PROVE  Recent(s, d.layers[s].own, d.layers[s].inc, d.deps[s])
        BY <2>3, <3>3 DEF Recent
      <4>1. Recent(s, c.layers[s].own, c.layers[s].inc, c.deps[s])
        BY <1>0, <2>3 DEF AgeOf, Running
      <4> HIDE DEF c, d
      <4>2. CASE s = r
        BY <3>2, <4>2 DEF Recent, NoLayer
      <4>3. CASE s # r
        BY <3>2, <4>1, <4>3
      <4> QED BY <4>2, <4>3
    <3>6. \A s \in Source : ReadAge(p, s)'
      BY <2>3 DEF ReadAge, TypeInv, ReadOK
    <3>7. AgeOf(p)'
      BY <1>0, <2>3, <3>3, <3>4, <3>5, <3>6 DEF AgeOf, Running
    <3> QED BY <2>3, <3>7, PrivateAge
  <2> QED BY <1>6, <2>1, <2>2, <2>3, LoadStep
<1>7. ASSUME NEW p \in Proc, Compose(p) PROVE AgeInv'
  <2> DEFINE i == IncludeOf[job[p].own.text]
             read == IF i # None /\ Parses(i) THEN disk[i] ELSE Unread
  <2>1. CASE Idles(p)
    BY <1>2, <2>1
  <2>2. CASE /\ Private(p) /\ pc[p] = "compose" /\ pc'[p] = "track"
             /\ job'[p] = [job[p] EXCEPT !.inc = read]
    <3>1. /\ job'[p].inc = read /\ job'[p].own = job[p].own /\ job'[p].cand = job[p].cand
          /\ job'[p].rev = job[p].rev /\ job'[p].todo = job[p].todo
      BY <2>2, AgeType DEF Job
    <3>2. UNCHANGED <<live, revision, disk>>
      BY <2>2 DEF Private, world, tracked
    <3>3. ASSUME NEW s \in Source, First(s, job[p].todo) PROVE ReadAge(p, s)'
      <4>1. ReadAge(p, s)
        BY <1>0, <2>2, <3>3 DEF AgeOf, Running
      <4>2. read # Unread => /\ read.at <= disk[i].at
                             /\ live.deps[s] = i => live.layers[s].inc.at <= read.at
        <5>1. i \in Include \cup {None}
          BY <2>2, ReloadAssumption DEF TypeInv, ReadOK
        <5>2. live.deps[s] # None => live.layers[s].inc.at <= disk[live.deps[s]].at
          BY DEF AgeInv, AgeOK
        <5>3. i # None => disk[i].at \in Nat
          BY <5>1, AgeType DEF File
        <5> QED BY <5>1, <5>2, <5>3
      <4> HIDE DEF read
      <4> QED BY <2>2, <3>1, <3>2, <4>1, <4>2 DEF ReadAge
    <3>4. AgeOf(p)'
      BY <1>0, <2>2, <3>1, <3>2, <3>3 DEF AgeOf, Running, AgeOK, Recent
    <3> QED BY <2>2, <3>4, PrivateAge
  <2> QED BY <1>7, <2>1, <2>2, ComposeStep
<1>8. ASSUME NEW p \in Proc, NEW r \in Source, TrackLayer(p, r) PROVE AgeInv'
  <2> DEFINE j == job[p]
             c == j.cand
             d == job'[p].cand
             dep == DependencyOf(j.own, j.inc)
  <2>1. /\ Private(p) /\ First(r, j.todo)
        /\ pc[p] = "track" /\ pc'[p] = "load"
        /\ j.own.text \in Text
        /\ job'[p].cand.layers = [j.cand.layers EXCEPT ![r] = Composed(j.own, j.inc)]
        /\ job'[p].cand.deps = [j.cand.deps EXCEPT ![r] = DependencyOf(j.own, j.inc)]
        /\ job'[p].rev = j.rev /\ job'[p].inc = Unread
    BY <1>8, TrackStep
  <2>2. c \in Cache /\ AgeOK(c) /\ ReadAge(p, r)
    BY <1>0, <2>1, AgeType DEF AgeOf, Running
  <2>3. \A s \in Source :
          /\ d.layers[s].own = IF s = r THEN j.own ELSE c.layers[s].own
          /\ d.layers[s].inc = IF s = r THEN j.inc ELSE c.layers[s].inc
          /\ d.deps[s] = IF s = r THEN dep ELSE c.deps[s]
    BY <2>1, <2>2 DEF Cache, Composed
  <2>4. UNCHANGED <<live, revision, disk>>
    BY <2>1 DEF Private, world, tracked
  <2>5. dep # None => j.inc # Unread /\ dep = IncludeOf[j.own.text]
    BY DEF DependencyOf
  <2> HIDE DEF dep
  <2>6. AgeOK(job[p].cand)'
    BY <2>1, <2>2, <2>3, <2>4, <2>5 DEF AgeOK, ReadAge
  <2>7. job'[p].rev = revision' => \A s \in Source :
          Recent(s, job[p].cand.layers[s].own, job[p].cand.layers[s].inc, job[p].cand.deps[s])'
    <3> SUFFICES ASSUME j.rev = revision, NEW s \in Source
                 PROVE  Recent(s, d.layers[s].own, d.layers[s].inc, d.deps[s])
      BY <2>1, <2>4 DEF Recent
    <3>1. Recent(s, c.layers[s].own, c.layers[s].inc, c.deps[s])
      BY <1>0, <2>1 DEF AgeOf, Running
    <3>2. Recent(r, j.own, j.inc, dep)
      BY <2>1, <2>2, <2>5 DEF ReadAge, Recent
    <3> HIDE DEF c, d
    <3>3. CASE s = r
      BY <2>3, <3>2, <3>3 DEF Recent
    <3>4. CASE s # r
      BY <2>3, <3>1, <3>4 DEF Recent
    <3> QED BY <3>3, <3>4
  <2>8. \A s \in Source : ReadAge(p, s)'
    BY <2>1 DEF ReadAge
  <2>9. AgeOf(p)'
    BY <1>0, <2>1, <2>4, <2>6, <2>7, <2>8 DEF AgeOf, Running
  <2> QED BY <2>1, <2>9, PrivateAge
<1>9. ASSUME NEW p \in Proc, Commit(p) PROVE AgeInv'
  <2>1. CASE Idles(p)
    BY <1>2, <2>1
  <2>2. CASE /\ pc[p] = "load" /\ job[p].todo = {} /\ job[p].rev = revision
             /\ live' = job[p].cand /\ revision' = revision + 1
             /\ UNCHANGED <<world, lenient, job>>
             /\ pc'[p] = "done" /\ \A q \in Proc \ {p} : pc'[q] = pc[q]
    <3>1. UNCHANGED <<disk, edits>>
      BY <2>2 DEF world
    <3>2. AgeOK(live)'
      BY <1>0, <2>2, <3>1 DEF AgeOf, Running, AgeOK
    <3>3. ASSUME NEW q \in Proc, Running(q)' PROVE AgeOf(q)'
      <4>1. Running(q) /\ job[q].rev <= revision /\ job[q].rev \in Nat /\ revision \in Nat
        BY <1>0, <2>2, <3>3, AgeType DEF AgeOf, Running
      <4>2. job'[q].rev <= revision' /\ job'[q].rev # revision'
        BY <2>2, <4>1
      <4> QED BY <1>0, <2>2, <3>1, <4>1, <4>2 DEF AgeOf, AgeOK, ReadAge, Running
    <3>4. \A q \in Proc : AgeOf(q)'
      BY <3>3 DEF AgeOf
    <3>5. \A f \in File : disk'[f].at <= edits'
      BY <3>1 DEF AgeInv
    <3> QED BY <3>2, <3>4, <3>5 DEF AgeInv, AgeOf
  <2> QED BY <1>9, <2>1, <2>2, CommitStep
<1>10. ASSUME NEW f \in File, Edit(f) PROVE AgeInv'
  BY <1>10, EditAge
<1> QED
  BY <1>1, <1>2, <1>3, <1>4, <1>5, <1>6, <1>7, <1>8, <1>9, <1>10, StepCases

\* Only a commit of a candidate of the current revision changes what is published.
LEMMA Publishes ==
  ASSUME TypeInv, [Next]_vars
  PROVE  UNCHANGED live \/ \E p \in Proc : Running(p) /\ job[p].rev = revision /\ live' = job[p].cand
<1>1. ASSUME NEW p \in Proc, Idles(p) \/ Snapshot(p) \/ Decide(p) \/ Compose(p)
      PROVE  UNCHANGED live
  BY <1>1 DEF Idles, Private, Snapshot, Decide, Compose, tracked
<1>2. ASSUME NEW p \in Proc, NEW s \in Source,
             InspectSource(p, s) \/ InspectDependency(p, s) \/ Load(p, s) \/ TrackLayer(p, s)
      PROVE  UNCHANGED live
  BY <1>2 DEF InspectSource, InspectDependency, Load, TrackLayer, tracked
<1>3. ASSUME NEW f \in File, Edit(f) PROVE UNCHANGED live
  BY <1>3 DEF Edit, tracked
<1>4. ASSUME NEW p \in Proc, Commit(p)
      PROVE  UNCHANGED live \/ (Running(p) /\ job[p].rev = revision /\ live' = job[p].cand)
  BY <1>4, CommitStep DEF Idles, Private, tracked, Running
<1> QED BY <1>1, <1>2, <1>3, <1>4, StepCases DEF vars, tracked

\* However reloads interleave with each other and with edits, a published layer is
\* never replaced by an older reading of the same files.
THEOREM NoRegression == Spec => LayersNeverRegress
<1> DEFINE Forward ==
      \A s \in Source :
        /\ live'.layers[s].own # Unread => live.layers[s].own.at <= live'.layers[s].own.at
        /\ live'.deps[s] # None /\ live'.deps[s] = live.deps[s]
             => live.layers[s].inc.at <= live'.layers[s].inc.at
<1>1. Init => TypeInv /\ AgeInv
  BY InitType, InitAge
<1>2. TypeInv /\ AgeInv /\ [Next]_vars => (TypeInv /\ AgeInv)'
  BY NextType, NextAge
<1>3. TypeInv /\ AgeInv /\ [Next]_vars => [Forward]_vars
  <2> SUFFICES ASSUME TypeInv, AgeInv, [Next]_vars PROVE Forward
    OBVIOUS
  <2>1. CASE UNCHANGED live
    BY <2>1, AgeType
  <2>2. ASSUME NEW p \in Proc, Running(p), job[p].rev = revision, live' = job[p].cand
        PROVE  Forward
    BY <2>2 DEF AgeInv, Recent
  <2> QED BY <2>1, <2>2, Publishes
<1> QED BY <1>1, <1>2, <1>3, PTL DEF Spec, LayersNeverRegress

-----------------------------------------------------------------------------
(***************************************************************************)
(* Completeness: what an incremental reload skips did not need to be read. *)
(***************************************************************************)
\* The sources the promise is about, and the includes it can rest on.
Kept == Source \ (Optional \cup raced)
Clean(i) == i \notin raced \cup deleted

\* A file tracker has seen the includes it has a print of, and stops looking at an
\* include only once it is deleted.
TracksOK(c) ==
  \A i \in Include :
    /\ c.prints[i] # None => Exists(i) \/ i \in deleted
    /\ i \in c.untrackable => i \in deleted

\* The prints of a source and of its include are those of the layer it has.
Faith(c, s) ==
  LET layer == c.layers[s]
      i == c.deps[s]
  IN  /\ layer.own.text \in Text
      /\ c.prints[s] # None => c.prints[s] = layer.own.text
      /\ i = IncludeOf[layer.own.text]
      /\ i # None /\ Clean(i) => layer.inc.text \in Text /\ c.prints[i] = layer.inc.text

\* The layer is what the files hold now.
OwnFresh(c, s) == Exists(s) => c.layers[s].own.text = disk[s].text
IncFresh(c, s) ==
  c.deps[s] # None /\ Clean(c.deps[s]) => c.layers[s].inc.text = disk[c.deps[s]].text
Fresh(c, s) == Faith(c, s) /\ OwnFresh(c, s) /\ IncFresh(c, s)

\* What a reload at label l with job j has just read of s, the source it is loading.
ReadFresh(l, j, s) ==
  LET i == IncludeOf[j.own.text]
  IN  /\ l \in {"compose", "track"} => j.own.text = disk[s].text
      /\ l = "track" /\ i # None =>
           /\ j.inc.text \in Text
           /\ i \notin raced => j.inc.text = disk[i].text

\* The sources it will not read (again) are fresh, and if somebody has committed
\* meanwhile, so is what is published.
SourceOK(l, j, s) ==
  /\ l = "select" \/ s \notin j.todo => Faith(j.cand, s)
  /\ s \notin j.look \cup j.todo => OwnFresh(j.cand, s)
  /\ s \notin j.lookDeps \cup j.todo => IncFresh(j.cand, s)
  /\ j.rev # revision => Fresh(live, s)
  /\ l = "select" /\ j.rev = revision =>
       j.cand.layers[s] = live.layers[s] /\ j.cand.deps[s] = live.deps[s]
  /\ First(s, j.todo) => ReadFresh(l, j, s)

ReloadOK(l, j) ==
  /\ l \in {"select", "load", "compose", "track"} =>
       /\ TracksOK(j.cand)
       /\ l # "select" => j.look = {} /\ j.lookDeps = {}
       /\ \A s \in Kept : SourceOK(l, j, s)
  /\ l = "done" => \A s \in Kept : Fresh(live, s)

PublishedOK == TracksOK(live) /\ \A s \in Kept : Faith(live, s)

CompleteInv == ~lenient => PublishedOK /\ \A p \in Proc : ReloadOK(pc[p], job[p])
-----------------------------------------------------------------------------
(* Steps, with what they do to the fingerprints *)

\* Looking at a file forgets its print when it is gone, and nothing else.
LEMMA LookedPrints ==
  ASSUME NEW c \in Cache, NEW f \in File
  PROVE  /\ \A h \in File : \/ Looked(c, f).prints[h] = c.prints[h]
                            \/ h = f /\ Looked(c, f).prints[h] = None
         /\ \A h \in File : h \in Looked(c, f).untrackable =>
              h \in c.untrackable \/ (h = f /\ c.prints[f] # None /\ ~Exists(f))
         /\ \A h \in File : Exists(h) => Looked(c, f).prints[h] = c.prints[h]
<1> DEFINE d == [c EXCEPT !.prints[f] = None, !.untrackable = @ \cup {f}]
<1>1. d.prints = [c.prints EXCEPT ![f] = None] /\ d.untrackable = c.untrackable \cup {f}
  BY DEF Cache
<1>2. c.prints \in [File -> Text \cup {None}]
  BY DEF Cache
<1>3. CASE f \notin c.untrackable /\ c.prints[f] # None /\ ~Exists(f)
  <2>1. Looked(c, f) = d
    BY <1>3 DEF Looked
  <2> HIDE DEF d
  <2> QED BY <1>1, <1>2, <1>3, <2>1
<1>4. CASE ~(f \notin c.untrackable /\ c.prints[f] # None /\ ~Exists(f))
  BY <1>4 DEF Looked
<1> QED BY <1>3, <1>4

\* Fingerprints are of the moment they are taken.
LEMMA TrackPrints ==
  ASSUME NEW c \in Cache, NEW F \in SUBSET File
  PROVE  /\ \A h \in File : Track(c, F).prints[h] =
                IF h \in F /\ Exists(h) THEN disk[h].text ELSE c.prints[h]
         /\ Track(c, F).untrackable \subseteq c.untrackable
<1> DEFINE seen == {f \in F : Exists(f)}
           prints == [f \in File |-> IF f \in seen THEN disk[f].text ELSE c.prints[f]]
<1>1. Track(c, F) = [c EXCEPT !.prints = prints, !.untrackable = @ \ seen]
  BY DEF Track, Cache
<1>2. \A h \in File : prints[h] = IF h \in F /\ Exists(h) THEN disk[h].text ELSE c.prints[h]
  OBVIOUS
<1> HIDE DEF prints, seen
<1> QED BY <1>1, <1>2 DEF Cache

LEMMA InspectSourceJob ==
  ASSUME TypeInv, NEW p \in Proc, NEW s \in Source, InspectSource(p, s)
  PROVE  LET j == job[p] IN
         /\ Private(p) /\ First(s, j.look)
         /\ pc[p] = "select" /\ pc'[p] = "select"
         /\ job'[p].look = j.look \ {s} /\ job'[p].lookDeps = j.lookDeps
         /\ job'[p].todo = IF s \in j.cand.untrackable \/ Changed(j.cand, s)
                             THEN j.todo \cup {s} ELSE j.todo
         /\ job'[p].cand = Looked(j.cand, s)
         /\ job'[p].rev = j.rev
<1> DEFINE c == job[p].cand
           todo == IF s \in c.untrackable \/ Changed(c, s) THEN job[p].todo \cup {s} ELSE job[p].todo
           d == Looked(c, s)
           j == [job[p] EXCEPT !.look = @ \ {s}, !.todo = todo, !.cand = d]
<1>1. job' = [job EXCEPT ![p] = j]
  BY DEF InspectSource
<1>2. job \in [Proc -> Job] /\ job[p] \in Job
  BY DEF TypeInv, TypeOK
<1>3. First(s, job[p].look) /\ pc[p] = "select" /\ UNCHANGED <<world, lenient, tracked, pc>>
  BY DEF InspectSource
<1> HIDE DEF todo, d
<1>4. /\ j.look = job[p].look \ {s} /\ j.lookDeps = job[p].lookDeps /\ j.todo = todo
      /\ j.cand = d /\ j.rev = job[p].rev
  BY <1>2 DEF Job
<1> HIDE DEF j
<1>5. Private(p) /\ job'[p] = j /\ pc'[p] = "select"
  BY <1>1, <1>2, <1>3 DEF Private
<1> QED BY <1>3, <1>4, <1>5 DEF todo, d

LEMMA InspectDependencyJob ==
  ASSUME TypeInv, NEW p \in Proc, NEW s \in Source, InspectDependency(p, s)
  PROVE  LET j == job[p] IN
         /\ Private(p) /\ First(s, j.lookDeps) /\ j.look = {}
         /\ pc[p] = "select" /\ pc'[p] = "select"
         /\ job'[p].look = {} /\ job'[p].lookDeps = j.lookDeps \ {s}
         /\ job'[p].todo = IF Changed(j.cand, j.cand.deps[s]) THEN j.todo \cup {s} ELSE j.todo
         /\ job'[p].cand = Looked(j.cand, j.cand.deps[s])
         /\ j.cand.deps[s] \in Include
         /\ job'[p].rev = j.rev
<1> DEFINE c == job[p].cand
           todo == IF Changed(c, c.deps[s]) THEN job[p].todo \cup {s} ELSE job[p].todo
           d == Looked(c, c.deps[s])
           j == [job[p] EXCEPT !.lookDeps = @ \ {s}, !.todo = todo, !.cand = d]
<1>1. job' = [job EXCEPT ![p] = j]
  BY DEF InspectDependency, DependencyChanged
<1>2. job \in [Proc -> Job] /\ job[p] \in Job /\ c \in Cache
  BY DEF TypeInv, TypeOK, Job
<1>3. /\ First(s, job[p].lookDeps) /\ job[p].look = {} /\ pc[p] = "select"
      /\ UNCHANGED <<world, lenient, tracked, pc>>
  BY DEF InspectDependency
<1>4. c.deps[s] \in Include
  BY <1>2, <1>3 DEF TypeInv, ReadOK, First, Cache
<1> HIDE DEF todo, d
<1>5. /\ j.look = job[p].look /\ j.lookDeps = job[p].lookDeps \ {s} /\ j.todo = todo
      /\ j.cand = d /\ j.rev = job[p].rev
  BY <1>2 DEF Job
<1> HIDE DEF j
<1>6. Private(p) /\ job'[p] = j /\ pc'[p] = "select"
  BY <1>1, <1>2, <1>3 DEF Private
<1> QED BY <1>3, <1>4, <1>5, <1>6 DEF todo, d

LEMMA SnapshotJob ==
  ASSUME TypeInv, NEW p \in Proc, Snapshot(p)
  PROVE  /\ Private(p)
         /\ job'[p].cand = live /\ job'[p].rev = revision
         /\ \/ /\ pc'[p] = "load" /\ job'[p].look = {} /\ job'[p].lookDeps = {}
               /\ job'[p].todo = Source
            \/ /\ pc'[p] = "select" /\ job'[p].look = Source /\ job'[p].todo = {}
               /\ job'[p].lookDeps = {s \in Source : live.deps[s] # None}
<1> DEFINE full == job[p].full
           look == IF full THEN {} ELSE Source
           lookDeps == IF full THEN {} ELSE {s \in Source : live.deps[s] # None}
           todo == IF full THEN Source ELSE {}
           j == [NoJob EXCEPT
             !.full = full, !.began = job[p].began, !.rev = revision, !.cand = live,
             !.look = look, !.lookDeps = lookDeps, !.todo = todo]
<1>1. job' = [job EXCEPT ![p] = j]
  BY DEF Snapshot
<1>2. job \in [Proc -> Job] /\ pc \in [Proc -> Labels] /\ full \in BOOLEAN
  BY DEF TypeInv, TypeOK, Job
<1>3. UNCHANGED <<world, lenient, tracked>> /\ Goto(p, IF full THEN "load" ELSE "select")
  BY DEF Snapshot
<1>4. pc'[p] = IF full THEN "load" ELSE "select"
  BY <1>2, <1>3 DEF Goto
<1> HIDE DEF full, look, lookDeps, todo
<1>5. j.cand = live /\ j.rev = revision /\ j.look = look /\ j.lookDeps = lookDeps /\ j.todo = todo
  BY DEF NoJob
<1> HIDE DEF j
<1>6. Private(p) /\ job'[p] = j
  BY <1>1, <1>2, <1>3 DEF Private, Goto
<1>7. CASE full
  BY <1>4, <1>5, <1>6, <1>7 DEF look, lookDeps, todo
<1>8. CASE ~full
  BY <1>4, <1>5, <1>6, <1>8 DEF look, lookDeps, todo
<1> QED BY <1>7, <1>8

\* A source left out, when it is.
LEMMA LeftOutJob ==
  ASSUME TypeInv, NEW p \in Proc, NEW s \in Source, Load(p, s), ~Parses(s), Tolerated(s)
  PROVE  LET j == job[p] IN
         /\ Private(p) /\ pc[p] = "load" /\ pc'[p] = "load"
         /\ job'[p].look = j.look /\ job'[p].lookDeps = j.lookDeps
         /\ job'[p].todo = j.todo \ {s} /\ job'[p].rev = j.rev
         /\ job'[p].cand = WithoutLayer(j.cand, s)
<1> DEFINE d == WithoutLayer(job[p].cand, s)
           j == [job[p] EXCEPT !.todo = @ \ {s}, !.cand = d]
<1>1. job \in [Proc -> Job] /\ job[p] \in Job
  BY DEF TypeInv, TypeOK
<1>2. /\ job' = [job EXCEPT ![p] = j] /\ pc[p] = "load"
      /\ UNCHANGED <<world, lenient, tracked, pc>>
  BY DEF Load, LoadFailed
<1> HIDE DEF d
<1>3. /\ j.look = job[p].look /\ j.lookDeps = job[p].lookDeps /\ j.todo = job[p].todo \ {s}
      /\ j.rev = job[p].rev /\ j.cand = d
  BY <1>1 DEF Job
<1> HIDE DEF j
<1> QED BY <1>1, <1>2, <1>3 DEF Private, d

LEMMA TrackJob ==
  ASSUME TypeInv, NEW p \in Proc, NEW s \in Source, TrackLayer(p, s)
  PROVE  LET j == job[p]
             F == {s, DependencyOf(j.own, j.inc)} \ {None}
         IN
         /\ F \in SUBSET File
         /\ job'[p].look = j.look /\ job'[p].lookDeps = j.lookDeps
         /\ job'[p].todo = j.todo \ {s}
         /\ job'[p].cand.prints = Track(j.cand, F).prints
         /\ job'[p].cand.untrackable = Track(j.cand, F).untrackable
<1> DEFINE F == {s, DependencyOf(job[p].own, job[p].inc)} \ {None}
           c == Track(job[p].cand, F)
           d == WithLayer(c, s, job[p].own, job[p].inc)
           j == [job[p] EXCEPT !.todo = @ \ {s}, !.own = Unread, !.inc = Unread, !.cand = d]
<1>1. job \in [Proc -> Job] /\ job[p] \in Job /\ job[p].cand \in Cache /\ disk \in [File -> Stamped]
  BY DEF TypeInv, TypeOK, Job
<1>2. F \in SUBSET File
  <2>1. job[p].own.text \in Text
    BY DEF TrackLayer, TypeInv, ReadOK
  <2> QED BY <2>1, DependencyType DEF File
<1>3. job' = [job EXCEPT ![p] = j]
  BY DEF TrackLayer
<1>4. c \in Cache
  BY <1>1, <1>2, TrackType
<1> HIDE DEF F, c
<1>5. d.prints = c.prints /\ d.untrackable = c.untrackable
  BY <1>4 DEF WithLayer, Cache
<1> HIDE DEF d
<1>6. /\ j.look = job[p].look /\ j.lookDeps = job[p].lookDeps /\ j.todo = job[p].todo \ {s}
      /\ j.cand = d
  BY <1>1 DEF Job
<1> HIDE DEF j
<1> QED BY <1>1, <1>2, <1>3, <1>5, <1>6 DEF F, c
-----------------------------------------------------------------------------
(* The inductive invariant *)

\* The first load takes the fingerprints of what it reads.
LEMMA InitComplete == Init => CompleteInv
<1> SUFFICES ASSUME Init, ~lenient
             PROVE  PublishedOK /\ \A p \in Proc : ReloadOK(pc[p], job[p])
  BY DEF CompleteInv
<1>1. TypeInv
  BY InitType
<1>2. \A f \in File : disk[f] \in Stamped
  BY <1>1, AgeType
<1>3. \A p \in Proc : pc[p] = "idle"
  BY DEF Init
<1>4. \A f \in File : live.prints[f] # None => Exists(f) /\ live.prints[f] = disk[f].text
  <2> SUFFICES ASSUME NEW f \in File, live.prints[f] # None
               PROVE  Exists(f) /\ live.prints[f] = disk[f].text
    OBVIOUS
  <2>1. live = Loaded0
    BY DEF Init
  <2>2. live.prints[f] = disk[f].text
    BY <2>1 DEF Loaded0
  <2>3. live.prints[f] \in Text
    BY <1>1 DEF TypeInv, TypeOK, Cache
  <2> QED BY <2>2, <2>3, ReloadAssumption DEF Exists
<1>5. TracksOK(live)
  <2>1. live.untrackable = {}
    BY DEF Init, Loaded0
  <2> QED BY <1>4, <2>1 DEF TracksOK, File
<1>6. ASSUME NEW s \in Kept PROVE Faith(live, s)
  <2> DEFINE i == IncludeOf[disk[s].text]
  <2>1. s \in Source /\ s \in File /\ Parses(s) /\ (i # None => Parses(i))
    BY DEF Kept, Init, Loads, Tolerated, File
  <2>2. disk[s].text \in Text /\ i \in Include \cup {None}
    BY <1>2, <2>1, ParsedText, ReloadAssumption DEF Init, Stamped
  <2>3. i # None => disk[i] \in Stamped /\ disk[i].text \in Text /\ disk[i] # Unread
    BY <1>1, <2>1, <2>2, ParsedText DEF TypeInv, TypeOK, File
  <2>4. Layer0(s) = [own |-> disk[s], inc |-> IF i # None THEN disk[i] ELSE Unread]
    BY <2>1 DEF Layer0, Composed, Include0
  <2>5. live.layers[s] = Layer0(s) /\ live.deps[s] = DependencyOf(Layer0(s).own, Layer0(s).inc)
    BY <2>1 DEF Init, Loaded0
  <2>6. live.deps[s] = i
    BY <2>3, <2>4, <2>5 DEF DependencyOf
  <2>7. i # None => live.prints[i] = disk[i].text
    <3> SUFFICES ASSUME i # None PROVE live.prints[i] = disk[i].text
      OBVIOUS
    <3>1. i \in File /\ live = Loaded0
      BY <2>2 DEF File, Init
    <3>2. i = DependencyOf(Layer0(s).own, Layer0(s).inc)
      BY <2>5, <2>6
    <3> HIDE DEF i
    <3> QED BY <2>1, <3>1, <3>2 DEF Loaded0
  <2> QED BY <1>4, <2>1, <2>2, <2>3, <2>4, <2>5, <2>6, <2>7 DEF Faith
<1> QED BY <1>3, <1>5, <1>6 DEF PublishedOK, ReloadOK

\* What the invariant says of a reload depends on the files and on what is
\* published, and on nothing else of the state.
LEMMA SameWorld ==
  ASSUME UNCHANGED <<disk, raced, deleted, live, revision>>
  PROVE  /\ PublishedOK' <=> PublishedOK
         /\ \A l, j : ReloadOK(l, j)' <=> ReloadOK(l, j)
<1>1. Kept' = Kept
  BY DEF Kept
<1>2. \A c, s : Faith(c, s)' <=> Faith(c, s)
  BY DEF Faith, Clean
<1>3. \A c, s : OwnFresh(c, s)' <=> OwnFresh(c, s)
  BY DEF OwnFresh, Exists
<1>4. \A c, s : IncFresh(c, s)' <=> IncFresh(c, s)
  BY DEF IncFresh, Clean
<1>5. \A s : Fresh(live, s)' <=> Fresh(live, s)
  BY <1>2, <1>3, <1>4 DEF Fresh
<1>6. \A c : TracksOK(c)' <=> TracksOK(c)
  BY DEF TracksOK, Exists
<1>7. \A l, j, s : ReadFresh(l, j, s)' <=> ReadFresh(l, j, s)
  BY DEF ReadFresh
<1>8. \A l, j, s : SourceOK(l, j, s)' <=> SourceOK(l, j, s)
  <2> TAKE l, j, s
  <2>1. Faith(j.cand, s)' <=> Faith(j.cand, s)
    BY <1>2
  <2>2. OwnFresh(j.cand, s)' <=> OwnFresh(j.cand, s)
    BY <1>3
  <2>3. IncFresh(j.cand, s)' <=> IncFresh(j.cand, s)
    BY <1>4
  <2>4. ReadFresh(l, j, s)' <=> ReadFresh(l, j, s)
    BY <1>7
  <2> QED BY <1>5, <2>1, <2>2, <2>3, <2>4 DEF SourceOK
<1>9. PublishedOK' <=> PublishedOK
  <2>1. TracksOK(live)' <=> TracksOK(live)
    BY <1>6
  <2>2. \A s : Faith(live, s)' <=> Faith(live, s)
    BY <1>2
  <2> QED BY <1>1, <2>1, <2>2 DEF PublishedOK
<1>10. \A l, j : ReloadOK(l, j)' <=> ReloadOK(l, j)
  <2> TAKE l, j
  <2>1. TracksOK(j.cand)' <=> TracksOK(j.cand)
    BY <1>6
  <2>2. (\A s \in Kept : SourceOK(l, j, s))' <=> (\A s \in Kept : SourceOK(l, j, s))
    BY <1>1, <1>8
  <2>3. (\A s \in Kept : Fresh(live, s))' <=> (\A s \in Kept : Fresh(live, s))
    BY <1>1, <1>5
  <2> QED BY <2>1, <2>2, <2>3 DEF ReloadOK
<1> QED BY <1>9, <1>10

\* A private step only has to keep its own part.
LEMMA MoveComplete ==
  ASSUME TypeInv, ~lenient, CompleteInv, NEW p \in Proc, Private(p), ReloadOK(pc'[p], job'[p])
  PROVE  CompleteInv'
<1>1. UNCHANGED <<disk, raced, deleted, live, revision>>
  BY DEF Private, world, tracked
<1>2. PublishedOK'
  BY <1>1, SameWorld DEF CompleteInv
<1>3. ASSUME NEW q \in Proc PROVE ReloadOK(pc[q], job[q])'
  <2>1. ReloadOK(pc'[q], job'[q])
    BY DEF CompleteInv, Private
  <2>2. \A l, j : ReloadOK(l, j)' <=> ReloadOK(l, j)
    BY <1>1, SameWorld
  <2> QED BY <2>1, <2>2
<1> QED BY <1>2, <1>3 DEF CompleteInv

\* A call that is over, or that has not taken its snapshot, promises nothing.
LEMMA IdleComplete ==
  ASSUME TypeInv, ~lenient, CompleteInv, NEW p \in Proc, Idles(p)
  PROVE  CompleteInv'
BY MoveComplete DEF Idles, ReloadOK

LEMMA SnapshotComplete ==
  ASSUME TypeInv, ~lenient, CompleteInv, NEW p \in Proc, Snapshot(p)
  PROVE  CompleteInv'
<1> DEFINE k == job'[p]
           l == pc'[p]
<1>1. /\ Private(p) /\ k.cand = live /\ k.rev = revision
      /\ \/ l = "load" /\ k.look = {} /\ k.lookDeps = {} /\ k.todo = Source
         \/ /\ l = "select" /\ k.look = Source /\ k.todo = {}
            /\ k.lookDeps = {s \in Source : live.deps[s] # None}
  BY SnapshotJob
<1>2. PublishedOK
  BY DEF CompleteInv
<1> HIDE DEF k, l
<1>3. ASSUME NEW s \in Kept PROVE SourceOK(l, k, s)
  BY <1>1, <1>2, <1>3 DEF SourceOK, PublishedOK, IncFresh, ReadFresh, Kept
<1>4. ReloadOK(l, k)
  BY <1>1, <1>2, <1>3 DEF ReloadOK, PublishedOK
<1> QED BY <1>1, <1>4, MoveComplete DEF k, l

\* A source that is not selected has the text its layer was made of.
LEMMA InspectSourceComplete ==
  ASSUME TypeInv, ~lenient, CompleteInv, NEW p \in Proc, NEW r \in Source, InspectSource(p, r)
  PROVE  CompleteInv'
<1> DEFINE j == job[p]
           k == job'[p]
           c == j.cand
           d == Looked(c, r)
<1>1. /\ Private(p) /\ pc[p] = "select" /\ pc'[p] = "select"
      /\ k.look = j.look \ {r} /\ k.lookDeps = j.lookDeps
      /\ k.todo = IF r \in c.untrackable \/ Changed(c, r) THEN j.todo \cup {r} ELSE j.todo
      /\ k.cand = d /\ k.rev = j.rev
  BY InspectSourceJob
<1>2. ReloadOK("select", j) /\ c \in Cache
  BY <1>1, AgeType DEF CompleteInv
<1>3. /\ d.layers = c.layers /\ d.deps = c.deps
      /\ \A h \in File : d.prints[h] = c.prints[h] \/ (h = r /\ d.prints[h] = None)
      /\ \A h \in File : h \in d.untrackable => h \in c.untrackable \/ h = r
  BY <1>2, LookedType, LookedPrints DEF File
<1> HIDE DEF k, d
<1>4. TracksOK(d)
  BY <1>2, <1>3, ReloadAssumption DEF ReloadOK, TracksOK, File
<1>5. ASSUME NEW s \in Kept PROVE SourceOK("select", k, s)
  <2>1. SourceOK("select", j, s) /\ Faith(c, s) /\ s \in Source
    BY <1>2, <1>5 DEF ReloadOK, SourceOK, Kept
  <2>2. Faith(d, s)
    <3>1. c.deps[s] \in Include \cup {None}
      BY <1>2, <2>1 DEF Cache
    <3>2. s \in File /\ (c.deps[s] # None => c.deps[s] \in File /\ c.deps[s] # r)
      BY <2>1, <3>1, ReloadAssumption DEF File
    <3> QED BY <1>3, <2>1, <3>2 DEF Faith
  <2>3. s \notin k.look \cup k.todo => OwnFresh(d, s)
    <3>1. CASE s = r /\ s \notin k.todo
      <4>1. ~Changed(c, s) /\ s \notin c.untrackable
        BY <1>1, <3>1
      <4>2. Exists(s) => disk[s].text = c.prints[s] /\ c.prints[s] # None
        BY <4>1 DEF Changed
      <4> QED BY <1>3, <2>1, <4>2 DEF OwnFresh, Faith
    <3>2. CASE s # r
      BY <1>1, <1>3, <2>1, <3>2 DEF SourceOK, OwnFresh
    <3> QED BY <3>1, <3>2
  <2>4. s \notin k.lookDeps \cup k.todo => IncFresh(d, s)
    BY <1>1, <1>3, <2>1 DEF SourceOK, IncFresh
  <2> QED BY <1>1, <1>3, <2>1, <2>2, <2>3, <2>4 DEF SourceOK, ReadFresh
<1>6. ReloadOK("select", k)
  BY <1>1, <1>4, <1>5 DEF ReloadOK
<1> QED BY <1>1, <1>6, MoveComplete DEF k

\* A source that is not selected for its include has the text of the include.
LEMMA InspectDependencyComplete ==
  ASSUME TypeInv, ~lenient, CompleteInv, NEW p \in Proc, NEW r \in Source, InspectDependency(p, r)
  PROVE  CompleteInv'
<1> DEFINE j == job[p]
           k == job'[p]
           c == j.cand
           f == c.deps[r]
           d == Looked(c, f)
<1>1. /\ Private(p) /\ pc[p] = "select" /\ pc'[p] = "select" /\ f \in Include
      /\ j.look = {} /\ k.look = {} /\ k.lookDeps = j.lookDeps \ {r}
      /\ k.todo = IF Changed(c, f) THEN j.todo \cup {r} ELSE j.todo
      /\ k.cand = d /\ k.rev = j.rev
  BY InspectDependencyJob
<1>2. ReloadOK("select", j) /\ c \in Cache /\ TracksOK(c)
  BY <1>1, AgeType DEF CompleteInv, ReloadOK
<1>3. /\ d.layers = c.layers /\ d.deps = c.deps
      /\ \A h \in File : d.prints[h] = c.prints[h] \/ (h = f /\ d.prints[h] = None)
      /\ \A h \in File : h \in d.untrackable =>
           h \in c.untrackable \/ (h = f /\ c.prints[f] # None /\ ~Exists(f))
      /\ \A h \in File : Exists(h) => d.prints[h] = c.prints[h]
  <2>1. f \in File
    BY <1>1 DEF File
  <2> HIDE DEF c, f
  <2>2. d.layers = c.layers /\ d.deps = c.deps
    BY <1>2, <2>1, LookedType
  <2> QED BY <1>2, <2>1, <2>2, LookedPrints
<1> HIDE DEF k, d
<1>4. TracksOK(d)
  BY <1>1, <1>2, <1>3 DEF TracksOK, File
<1>5. ASSUME NEW s \in Kept PROVE SourceOK("select", k, s)
  <2>1. SourceOK("select", j, s) /\ Faith(c, s) /\ s \in Source
    BY <1>2, <1>5 DEF ReloadOK, SourceOK, Kept
  <2>2. c.deps[s] \in Include \cup {None} /\ s \in File /\ s # f
    BY <1>1, <1>2, <2>1, ReloadAssumption DEF Cache, File
  <2>3. c.deps[s] # None /\ Clean(c.deps[s]) =>
          /\ Exists(c.deps[s]) /\ c.prints[c.deps[s]] # None
          /\ c.deps[s] \notin c.untrackable
    BY <1>2, <2>1, <2>2, ReloadAssumption DEF TracksOK, Faith, Clean
  <2>4. Faith(d, s)
    BY <1>3, <2>1, <2>2, <2>3 DEF Faith, File
  <2>5. s \notin k.look \cup k.todo => OwnFresh(d, s)
    BY <1>1, <1>3, <2>1 DEF SourceOK, OwnFresh
  <2>6. s \notin k.lookDeps \cup k.todo => IncFresh(d, s)
    <3>1. CASE s = r /\ s \notin k.todo
      <4>1. ~Changed(c, f)
        BY <1>1, <3>1
      <4>2. Clean(f) => disk[f].text = c.prints[f]
        BY <1>1, <2>3, <3>1, <4>1, ReloadAssumption DEF Changed, File
      <4> QED BY <1>3, <2>1, <3>1, <4>2 DEF IncFresh, Faith
    <3>2. CASE s # r
      BY <1>1, <1>3, <2>1, <3>2 DEF SourceOK, IncFresh
    <3> QED BY <3>1, <3>2
  <2> QED BY <1>1, <1>3, <2>1, <2>4, <2>5, <2>6 DEF SourceOK, ReadFresh
<1>6. ReloadOK("select", k)
  BY <1>1, <1>4, <1>5 DEF ReloadOK
<1> QED BY <1>1, <1>6, MoveComplete DEF k

\* With nothing selected, what is published is fresh: it is the snapshot that was
\* inspected, or somebody has published since.
LEMMA DecideComplete ==
  ASSUME TypeInv, ~lenient, CompleteInv, NEW p \in Proc, Decide(p)
  PROVE  CompleteInv'
<1> DEFINE j == job[p]
<1>1. /\ Private(p) /\ pc[p] = "select" /\ job'[p] = j
      /\ pc'[p] = IF j.todo = {} THEN "done" ELSE "load"
      /\ j.look = {} /\ j.lookDeps = {}
  BY DEF Decide, Goto, Private, TypeInv, TypeOK
<1>2. ReloadOK("select", j) /\ PublishedOK
  BY <1>1 DEF CompleteInv
<1> HIDE DEF j
<1>3. CASE j.todo = {}
  <2>1. ASSUME NEW s \in Kept PROVE Fresh(live, s)
    <3>1. SourceOK("select", j, s) /\ Faith(live, s)
      BY <1>2, <2>1 DEF ReloadOK, PublishedOK
    <3> QED BY <1>1, <1>3, <3>1 DEF SourceOK, Fresh, OwnFresh, IncFresh
  <2>2. ReloadOK("done", j)
    BY <2>1 DEF ReloadOK
  <2> QED BY <1>1, <1>3, <2>2, MoveComplete
<1>4. CASE j.todo # {}
  <2>1. ASSUME NEW s \in Kept PROVE SourceOK("load", j, s)
    BY <1>2, <2>1 DEF ReloadOK, SourceOK, ReadFresh
  <2>2. ReloadOK("load", j)
    BY <1>1, <1>2, <2>1 DEF ReloadOK
  <2> QED BY <1>1, <1>4, <2>2, MoveComplete
<1> QED BY <1>3, <1>4
\* A source that is read matches the disk, or the call fails.
LEMMA LoadComplete ==
  ASSUME TypeInv, ~lenient, CompleteInv, NEW p \in Proc, NEW r \in Source, Load(p, r)
  PROVE  CompleteInv'
<1> DEFINE j == job[p]
           c == j.cand
<1>1. CASE Idles(p)
  BY <1>1, IdleComplete
<1>2. CASE /\ Private(p) /\ Parses(r) /\ First(r, j.todo)
           /\ pc[p] = "load" /\ pc'[p] = "compose"
           /\ job'[p] = [j EXCEPT !.own = disk[r]]
  <2> DEFINE k == [j EXCEPT !.own = disk[r]]
  <2>1. /\ k.own = disk[r] /\ k.cand = c /\ k.rev = j.rev /\ k.todo = j.todo
        /\ k.look = j.look /\ k.lookDeps = j.lookDeps /\ j.todo \in SUBSET Source
    BY AgeType DEF Job
  <2>2. ReloadOK("load", j)
    BY <1>2 DEF CompleteInv
  <2> HIDE DEF k
  <2>3. ASSUME NEW s \in Kept PROVE SourceOK("compose", k, s)
    <3>1. First(s, j.todo) => s = r
      BY <1>2, <2>1, FirstUnique
    <3>2. First(s, k.todo) => ReadFresh("compose", k, s)
      BY <2>1, <3>1 DEF ReadFresh
    <3> QED BY <2>1, <2>2, <2>3, <3>2 DEF ReloadOK, SourceOK
  <2>4. ReloadOK("compose", k)
    BY <2>1, <2>2, <2>3 DEF ReloadOK
  <2> QED BY <1>2, <2>4, MoveComplete DEF k
<1>3. CASE ~Parses(r) /\ Tolerated(r)
  <2> DEFINE k == job'[p]
             d == WithoutLayer(c, r)
  <2>1. /\ Private(p) /\ pc[p] = "load" /\ pc'[p] = "load"
        /\ k.look = j.look /\ k.lookDeps = j.lookDeps
        /\ k.todo = j.todo \ {r} /\ k.rev = j.rev /\ k.cand = d
    BY <1>3, LeftOutJob
  <2>2. ReloadOK("load", j) /\ c \in Cache
    BY <2>1, AgeType DEF CompleteInv
  <2>3. /\ d.prints = c.prints /\ d.untrackable = c.untrackable
        /\ \A s \in Source \ {r} : d.layers[s] = c.layers[s] /\ d.deps[s] = c.deps[s]
    BY <2>2 DEF WithoutLayer, Cache
  <2> HIDE DEF k, d
  <2>4. ASSUME NEW s \in Kept PROVE SourceOK("load", k, s)
    <3>1. s \in Source \ {r}
      BY <1>3 DEF Kept, Tolerated
    <3>2. SourceOK("load", j, s)
      BY <2>2 DEF ReloadOK
    <3> QED BY <2>1, <2>3, <3>1, <3>2 DEF SourceOK, Faith, OwnFresh, IncFresh, ReadFresh
  <2>5. ReloadOK("load", k)
    BY <2>1, <2>2, <2>3, <2>4 DEF ReloadOK, TracksOK
  <2> QED BY <2>1, <2>5, MoveComplete DEF k
<1>4. CASE ~Parses(r) /\ ~Tolerated(r)
  <2>1. Fail(p) /\ UNCHANGED <<world, lenient, tracked, calls>>
    BY <1>4 DEF Load, LoadFailed
  <2> QED BY <2>1, FailStep, IdleComplete
<1> QED BY <1>1, <1>2, <1>3, <1>4, LoadStep

\* So does the include.
LEMMA ComposeComplete ==
  ASSUME TypeInv, ~lenient, CompleteInv, NEW p \in Proc, Compose(p)
  PROVE  CompleteInv'
<1> DEFINE j == job[p]
           i == IncludeOf[j.own.text]
           read == IF i # None /\ Parses(i) THEN disk[i] ELSE Unread
           k == [j EXCEPT !.inc = read]
<1>1. CASE Idles(p)
  BY <1>1, IdleComplete
<1>2. CASE /\ Private(p) /\ pc[p] = "compose" /\ pc'[p] = "track"
           /\ (i # None => Parses(i)) /\ job'[p] = k
  <2>1. /\ k.inc = read /\ k.own = j.own /\ k.cand = j.cand /\ k.rev = j.rev /\ k.todo = j.todo
        /\ k.look = j.look /\ k.lookDeps = j.lookDeps
    BY AgeType DEF Job
  <2>2. ReloadOK("compose", j)
    BY <1>2 DEF CompleteInv
  <2>3. i # None => disk[i].text \in Text /\ read = disk[i]
    <3>1. i \in Include \cup {None}
      BY <1>2, ReloadAssumption DEF TypeInv, ReadOK
    <3> QED BY <1>2, <3>1, ParsedText DEF TypeInv, TypeOK, File
  <2> HIDE DEF k, read
  <2>4. ASSUME NEW s \in Kept PROVE SourceOK("track", k, s)
    <3>1. SourceOK("compose", j, s)
      BY <2>2, <2>4 DEF ReloadOK
    <3>2. First(s, k.todo) => ReadFresh("track", k, s)
      BY <2>1, <2>3, <3>1 DEF SourceOK, ReadFresh
    <3> QED BY <2>1, <3>1, <3>2 DEF SourceOK
  <2>5. ReloadOK("track", k)
    BY <2>1, <2>2, <2>4 DEF ReloadOK
  <2> QED BY <1>2, <2>5, MoveComplete
<1> QED BY <1>1, <1>2, ComposeStep

\* The new layer and its fingerprints agree; the other layers that include the same
\* file already had its present text.
LEMMA TrackComplete ==
  ASSUME TypeInv, ~lenient, CompleteInv, NEW p \in Proc, NEW r \in Source, TrackLayer(p, r)
  PROVE  CompleteInv'
<1> DEFINE j == job[p]
           k == job'[p]
           c == j.cand
           d == k.cand
           dep == DependencyOf(j.own, j.inc)
           F == {r, dep} \ {None}
<1>1. /\ Private(p) /\ First(r, j.todo)
      /\ pc[p] = "track" /\ pc'[p] = "load"
      /\ j.own.text \in Text
      /\ d.layers = [c.layers EXCEPT ![r] = Composed(j.own, j.inc)]
      /\ d.deps = [c.deps EXCEPT ![r] = dep]
      /\ k.rev = j.rev
  BY TrackStep
<1>2. /\ F \in SUBSET File
      /\ k.look = j.look /\ k.lookDeps = j.lookDeps /\ k.todo = j.todo \ {r}
      /\ d.prints = Track(c, F).prints /\ d.untrackable = Track(c, F).untrackable
  BY TrackJob
<1>3. ReloadOK("track", j) /\ c \in Cache /\ j.look = {} /\ j.lookDeps = {}
  BY <1>1, AgeType DEF CompleteInv, ReloadOK
<1>4. /\ \A s \in Source : /\ d.layers[s].own = IF s = r THEN j.own ELSE c.layers[s].own
                           /\ d.layers[s].inc = IF s = r THEN j.inc ELSE c.layers[s].inc
                           /\ d.deps[s] = IF s = r THEN dep ELSE c.deps[s]
      /\ \A s \in Source : c.deps[s] \in Include \cup {None}
  BY <1>1, <1>3 DEF Cache, Composed
<1>5. dep \in Include \cup {None}
  BY <1>1, DependencyType
<1>6. /\ \A h \in File : d.prints[h] = IF h \in F /\ Exists(h) THEN disk[h].text ELSE c.prints[h]
      /\ d.untrackable \subseteq c.untrackable
  BY <1>2, <1>3, TrackPrints
<1>7. r \in F /\ r # dep /\ (dep # None => dep \in F) /\ F \subseteq {r, dep}
  BY <1>5, ReloadAssumption DEF File
<1>8. ReadOK /\ k.cand = d
  BY DEF TypeInv
<1> HIDE DEF k, d, F
<1>9. TracksOK(d)
  BY <1>3, <1>6 DEF ReloadOK, TracksOK, File
<1>10. ASSUME NEW s \in Kept, s # r PROVE SourceOK("load", k, s)
  <2>1. SourceOK("track", j, s) /\ s \in Source /\ s \in File
    BY <1>3, <1>10 DEF ReloadOK, Kept, File
  <2>2. s \notin k.todo => Faith(d, s)
    <3> SUFFICES ASSUME s \notin k.todo PROVE Faith(d, s)
      OBVIOUS
    <3>1. Faith(c, s) /\ IncFresh(c, s)
      BY <1>2, <1>3, <1>10, <2>1 DEF SourceOK
    <3>2. s \notin F
      BY <1>5, <1>7, <1>10, <2>1, ReloadAssumption
    <3>3. d.prints[s] = c.prints[s]
      BY <1>6, <2>1, <3>2
    <3>4. c.deps[s] # None => d.prints[c.deps[s]] \in {c.prints[c.deps[s]], disk[c.deps[s]].text}
      BY <1>4, <1>6, <2>1 DEF File
    <3> QED BY <1>4, <1>10, <2>1, <3>1, <3>3, <3>4 DEF Faith, IncFresh
  <2>3. s \notin k.todo => OwnFresh(d, s) /\ IncFresh(d, s)
    BY <1>2, <1>3, <1>4, <1>10, <2>1 DEF SourceOK, OwnFresh, IncFresh
  <2> QED BY <1>1, <1>2, <1>3, <1>8, <2>1, <2>2, <2>3 DEF SourceOK, ReadFresh
<1>11. ASSUME r \in Kept PROVE SourceOK("load", k, r)
  <2> DEFINE i == IncludeOf[j.own.text]
  <2>1. ReadFresh("track", j, r) /\ SourceOK("track", j, r)
    BY <1>1, <1>3, <1>11 DEF ReloadOK, SourceOK
  <2>2. j.own.text = disk[r].text /\ Exists(r)
    BY <1>1, <2>1, ReloadAssumption DEF ReadFresh, Exists
  <2>3. dep = i /\ (i # None => j.inc.text \in Text)
    <3>1. i # None => j.inc.text \in Text /\ j.inc # Unread
      BY <2>1, ReloadAssumption DEF ReadFresh, Unread
    <3>2. i = None => j.inc = Unread
      BY <1>8 DEF ReadOK
    <3> QED BY <3>1, <3>2 DEF DependencyOf
  <2>4. i # None /\ Clean(i) => j.inc.text = disk[i].text /\ Exists(i)
    BY <2>1, <2>3, ReloadAssumption DEF ReadFresh, Clean, Exists
  <2>5. d.prints[r] = disk[r].text
    BY <1>6, <1>7, <2>2 DEF File
  <2>6. i # None /\ Clean(i) => d.prints[i] = disk[i].text
    BY <1>5, <1>6, <1>7, <2>3, <2>4 DEF File
  <2>7. d.layers[r].own = j.own /\ d.layers[r].inc = j.inc /\ d.deps[r] = i
    BY <1>4, <2>3
  <2>8. Faith(d, r) /\ OwnFresh(d, r) /\ IncFresh(d, r)
    BY <1>1, <2>2, <2>3, <2>4, <2>5, <2>6, <2>7 DEF Faith, OwnFresh, IncFresh
  <2> QED BY <1>1, <1>2, <1>3, <1>8, <2>1, <2>8 DEF SourceOK, ReadFresh
<1>12. ReloadOK("load", k)
  BY <1>2, <1>3, <1>8, <1>9, <1>10, <1>11 DEF ReloadOK
<1> QED BY <1>1, <1>12, MoveComplete DEF k, d

\* A commit publishes fresh layers, and every reload still running can rely on it.
LEMMA CommitComplete ==
  ASSUME TypeInv, AgeInv, ~lenient, CompleteInv, NEW p \in Proc, Commit(p)
  PROVE  CompleteInv'
<1> DEFINE c == job[p].cand
<1>1. CASE Idles(p)
  BY <1>1, IdleComplete
<1>2. CASE /\ pc[p] = "load" /\ job[p].todo = {} /\ job[p].rev = revision
           /\ live' = c /\ revision' = revision + 1
           /\ UNCHANGED <<world, lenient, job>>
           /\ pc'[p] = "done" /\ \A q \in Proc \ {p} : pc'[q] = pc[q]
  <2>1. UNCHANGED <<disk, raced, deleted, lenient>>
    BY <1>2 DEF world
  <2>2. ReloadOK("load", job[p])
    BY <1>2 DEF CompleteInv
  <2>3. TracksOK(c) /\ \A s \in Kept : Fresh(c, s)
    BY <1>2, <2>2 DEF ReloadOK, SourceOK, Fresh
  <2>4. Kept' = Kept /\ \A s \in Kept : Fresh(live, s)'
    BY <1>2, <2>1, <2>3 DEF Kept, Fresh, Faith, OwnFresh, IncFresh, Clean, Exists
  <2>5. PublishedOK'
    <3>1. TracksOK(live)'
      BY <1>2, <2>1, <2>3 DEF TracksOK, Exists
    <3> QED BY <2>4, <3>1 DEF PublishedOK, Fresh
  <2>6. ReloadOK(pc[p], job[p])'
    BY <1>2, <2>4 DEF ReloadOK
  <2>7. ASSUME NEW q \in Proc \ {p} PROVE ReloadOK(pc[q], job[q])'
    <3>1. ReloadOK(pc[q], job[q]) /\ pc'[q] = pc[q] /\ job'[q] = job[q]
      BY <1>2 DEF CompleteInv
    <3>2. Running(q) => job[q].rev # revision'
      BY <1>2, AgeType DEF AgeInv
    <3>3. ASSUME Running(q), NEW s \in Kept PROVE SourceOK(pc[q], job[q], s)'
      <4>1. SourceOK(pc[q], job[q], s)
        BY <3>1, <3>3 DEF ReloadOK, Running
      <4> QED BY <2>1, <2>4, <3>1, <3>2, <3>3, <4>1
              DEF SourceOK, ReadFresh, First, Faith, OwnFresh, IncFresh, Clean, Exists
    <3> QED BY <2>1, <2>4, <3>1, <3>3 DEF ReloadOK, Running, TracksOK, Exists
  <2> QED BY <2>1, <2>5, <2>6, <2>7 DEF CompleteInv
<1> QED BY <1>1, <1>2, CommitStep

\* An edit between reloads leaves the fingerprints as they were; one during a reload
\* takes its file out of the promise.
LEMMA EditComplete ==
  ASSUME TypeInv, ~lenient, CompleteInv, NEW f \in File, Edit(f)
  PROVE  CompleteInv'
<1>1. UNCHANGED <<lenient, live, revision, pc, job>> /\ raced \subseteq raced' /\ deleted \subseteq deleted'
  BY DEF Edit, tracked
<1>2. /\ \A h \in File \ {f} : disk'[h] = disk[h]
      /\ f \in Include => Exists(f)' \/ f \in deleted'
  <2>1. PICK t \in Holds[f] \ {disk[f].text} :
          /\ disk' = [disk EXCEPT ![f] = [text |-> t, at |-> edits + 1]]
          /\ deleted' = IF t = Missing /\ f \in Include THEN deleted \cup {f} ELSE deleted
    BY DEF Edit
  <2>2. disk \in [File -> Stamped]
    BY DEF TypeInv, TypeOK
  <2>3. disk'[f].text = t /\ \A h \in File \ {f} : disk'[h] = disk[h]
    BY <2>1, <2>2
  <2> QED BY <2>1, <2>3 DEF Exists
<1>3. Kept' \subseteq Kept /\ \A i : Clean(i)' => Clean(i)
  BY <1>1 DEF Kept, Clean
<1>4. ASSUME NEW c, TracksOK(c) PROVE (\A i \in Include :
              /\ c.prints[i] # None => Exists(i)' \/ i \in deleted'
              /\ i \in c.untrackable => i \in deleted')
  BY <1>1, <1>2, <1>4 DEF TracksOK, Exists, File
<1>5. PublishedOK'
  <2>1. TracksOK(live)'
    BY <1>1, <1>4 DEF CompleteInv, PublishedOK, TracksOK
  <2> QED BY <1>1, <1>3, <2>1 DEF CompleteInv, PublishedOK, Faith
<1>6. ASSUME NEW q \in Proc PROVE ReloadOK(pc[q], job[q])'
  <2>1. ReloadOK(pc[q], job[q]) /\ UNCHANGED <<pc, job, live, revision>>
    BY <1>1 DEF CompleteInv
  <2>2. CASE pc[q] = "idle"
    BY <2>1, <2>2 DEF ReloadOK
  <2>3. CASE pc[q] # "idle"
    <3>1. f \in raced'
      BY <2>3 DEF Edit
    <3>2. \A s \in Kept' : s \in Kept /\ s \in File /\ disk'[s] = disk[s]
      BY <1>2, <1>3, <3>1 DEF Kept, File
    <3>3. \A i \in File : i \notin raced' => disk'[i] = disk[i] /\ i \notin raced
      BY <1>1, <1>2, <3>1
    <3>4. ASSUME NEW c \in Cache, NEW s \in Kept'
          PROVE  /\ Faith(c, s) => Faith(c, s)'
                 /\ OwnFresh(c, s) => OwnFresh(c, s)'
                 /\ IncFresh(c, s) => IncFresh(c, s)'
      <4>1. c.deps[s] # None => c.deps[s] \in File
        BY <3>2 DEF Cache, Kept, File
      <4>2. Faith(c, s) => Faith(c, s)'
        BY <1>3 DEF Faith
      <4>3. OwnFresh(c, s) => OwnFresh(c, s)'
        BY <3>2 DEF OwnFresh, Exists
      <4>4. IncFresh(c, s) => IncFresh(c, s)'
        BY <1>3, <3>3, <4>1 DEF IncFresh, Clean
      <4> QED BY <4>2, <4>3, <4>4
    <3>5. ASSUME NEW s \in Kept', ReadFresh(pc[q], job[q], s) PROVE ReadFresh(pc[q], job[q], s)'
      <4>1. pc[q] = "track" => IncludeOf[job[q].own.text] \in Include \cup {None}
        BY ReloadAssumption DEF TypeInv, ReadOK
      <4> QED BY <2>1, <3>2, <3>3, <3>5, <4>1 DEF ReadFresh, File
    <3>6. \A s \in Kept' : Fresh(live, s) => Fresh(live, s)'
      BY <1>1, <3>4, AgeType DEF Fresh, Faith, OwnFresh, IncFresh
    <3>7. ASSUME NEW s \in Kept', SourceOK(pc[q], job[q], s) PROVE SourceOK(pc[q], job[q], s)'
      <4>1. job[q].cand \in Cache
        BY AgeType
      <4> QED BY <2>1, <3>4, <3>5, <3>6, <3>7, <4>1 DEF SourceOK, First, Faith, OwnFresh, IncFresh
    <3>8. TracksOK(job[q].cand) => TracksOK(job[q].cand)'
      BY <1>4, <2>1 DEF TracksOK
    <3> QED BY <1>3, <2>1, <3>6, <3>7, <3>8 DEF ReloadOK
  <2> QED BY <2>2, <2>3
<1> QED BY <1>1, <1>5, <1>6 DEF CompleteInv

LEMMA NextComplete == TypeInv /\ AgeInv /\ CompleteInv /\ [Next]_vars => CompleteInv'
<1> SUFFICES ASSUME TypeInv, AgeInv, CompleteInv, [Next]_vars, ~lenient PROVE CompleteInv'
  <2>1. TypeInv /\ [Next]_vars => lenient' = lenient
    BY PolicyConstant
  <2> QED BY <2>1 DEF CompleteInv
<1>1. CASE UNCHANGED vars
  <2>1. UNCHANGED <<disk, raced, deleted, lenient, live, revision, pc, job>>
    BY <1>1 DEF vars, world, tracked
  <2>2. PublishedOK' /\ \A p \in Proc : ReloadOK(pc[p], job[p])
    BY <2>1, SameWorld DEF CompleteInv
  <2>3. \A l, j : ReloadOK(l, j)' <=> ReloadOK(l, j)
    BY <2>1, SameWorld
  <2>4. ASSUME NEW p \in Proc PROVE ReloadOK(pc[p], job[p])'
    BY <2>1, <2>2, <2>3
  <2> QED BY <2>2, <2>4 DEF CompleteInv
<1> QED
  BY <1>1, StepCases, IdleComplete, SnapshotComplete, InspectSourceComplete, EditComplete,
     InspectDependencyComplete, DecideComplete, LoadComplete, ComposeComplete, TrackComplete,
     CommitComplete

\* Under a raising policy, a reload that succeeds leaves every mandatory source as
\* fresh as a full reload would, whatever it skipped, for any number of goroutines,
\* loaders and files; the sources and includes that were edited during a reload,
\* and the includes that were deleted, are not covered.
THEOREM Completeness == Spec => []ReloadIsComplete
<1>1. Init => TypeInv /\ AgeInv /\ CompleteInv
  BY InitType, InitAge, InitComplete
<1>2. TypeInv /\ AgeInv /\ CompleteInv /\ [Next]_vars => (TypeInv /\ AgeInv /\ CompleteInv)'
  BY NextType, NextAge, NextComplete
<1>3. CompleteInv => ReloadIsComplete
  <2> SUFFICES ASSUME CompleteInv, NEW p \in Proc, NEW s \in Source \ (Optional \cup raced),
                      pc[p] = "done", ~lenient, Readable(s), IncludedNow(s) \notin raced \cup deleted
               PROVE  UpToDate(s)
    BY DEF ReloadIsComplete
  <2>1. Fresh(live, s)
    BY DEF CompleteInv, ReloadOK, Kept
  <2>2. live.layers[s].own.text = disk[s].text
    BY <2>1 DEF Fresh, OwnFresh, Readable, Parses
  <2>3. live.deps[s] = IncludedNow(s)
    BY <2>1, <2>2 DEF Fresh, Faith, IncludedNow
  <2> QED BY <2>1, <2>2, <2>3 DEF UpToDate, Fresh, IncFresh, Clean
<1> QED BY <1>1, <1>2, <1>3, PTL DEF Spec
=============================================================================
