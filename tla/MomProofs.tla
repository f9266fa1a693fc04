------------------------------ MODULE MomProofs -----------------------------
(* What the parts of mom promise.                                           *)
(*                                                                          *)
(* MomEvents, for any files, calls of handleFile and faults: the types of   *)
(* its variables, that an event is queued once, that what is scheduled is   *)
(* what the files say, and that nothing is deleted unread.                  *)
(*                                                                          *)
(* MomChannel, for any texts, faults and bounds: the types, that queue and  *)
(* run are in step, that log.jsonl has what was said, and that the context  *)
(* an LLM is given follows the log.                                         *)
EXTENDS MomEvents, MomChannel, Integers, SequenceTheorems, FiniteSetTheorems, WellFoundedInduction, TLAPS

-----------------------------------------------------------------------------
(* The inductive invariant.                                                 *)

(* Timers and cron jobs are in the maps at their file and of their kind, and *)
(* there are finitely many, so that each has a number of its own.           *)
JobsFit ==
    /\ IsFiniteSet(armed)
    /\ \A f \in Files : timers[f] # Nil => timers[f].file = f /\ timers[f].event.kind = "oneshot"
    /\ \A f \in Files : crons[f] # Nil => crons[f].file = f /\ crons[f].event.kind = "periodic"

(* A call of handleFile that is over knows no file, and one that reads has  *)
(* nothing yet.                                                             *)
CallsFit ==
    \A h \in Handlers :
        /\ handler[h].at # "read" => handler[h].read = Nil
        /\ handler[h].at = "idle" <=> handler[h].file = Nil

(* When the watcher does not run nothing of it is left.                     *)
Down ==
    ~up =>
        /\ armed = {}
        /\ \A h \in Handlers : handler[h].file = Nil
        /\ \A f \in Files : ~changed[f]

(* A content is that of one file, wherever it is, and older than the next.  *)
Holds(f, c) ==
    \/ disk[f] = c
    \/ \E h \in Handlers : handler[h].file = f /\ handler[h].read = c
    \/ \E job \in armed : job.file = f /\ job.event = c
Owned ==
    /\ \A f, g \in Files, c \in Contents : Holds(f, c) /\ Holds(g, c) => f = g
    /\ \A f \in Files, c \in Contents : Holds(f, c) => c.n <= written
    /\ \A c \in ran : c.n <= written

(* What was queued is in no file any more.                                  *)
Gone == \A f \in Files : disk[f] \notin ran

(* What was read is in the file still, or the file has gone.                *)
SeenAs(h) == disk[handler[h].file] = handler[h].read \/ disk[handler[h].file] = Nil
Seen == "late" \notin happened => \A h \in Handlers : handler[h].at = "read" => SeenAs(h)

(* Without overlapping calls: a file has one call or one job.               *)
Alone ==
    /\ \A h, g \in Handlers : handler[h].file = handler[g].file /\ handler[h].file # Nil => h = g
    /\ \A h \in Handlers, job \in armed : job.file # handler[h].file
    /\ \A j, k \in armed : j.file = k.file => j = k
(* The watcher can cancel each job: it knows the file, and the maps have it. *)
Cancellable == \A job \in armed : job.file \in knownFiles /\ job \in {timers[job.file], crons[job.file]}
(* What differs from the file will be read again.                           *)
Fresh ==
    /\ \A job \in armed : changed[job.file] \/ disk[job.file] = job.event
    /\ \A h \in Handlers : handler[h].at = "read" => changed[handler[h].file] \/ disk[handler[h].file] = handler[h].read
(* What was read or scheduled was not queued yet.                           *)
NotRun ==
    /\ \A job \in armed : job.event \notin ran
    /\ \A h \in Handlers : handler[h].read \notin ran
(* What is due has not changed.                                             *)
DueAsRead ==
    "late" \notin happened =>
        \A job \in armed : job.event.kind = "oneshot" /\ job.event.n \in due => ~changed[job.file]
Orderly == "overlap" \notin happened => Alone /\ Cancellable /\ Fresh /\ NotRun /\ DueAsRead

Shapes == TypeOK /\ JobsFit /\ CallsFit
EventsInv == Shapes /\ Down /\ Owned /\ Gone /\ Seen /\ Orderly /\ OnceOnly

-----------------------------------------------------------------------------
(* Types.                                                                   *)

Calls == [file : Files \cup {Nil}, tries : 0 .. MaxRetries,
          at : {"idle", "reading", "read"}, read : Contents \cup {Nil}]

(* Null is none of the files, contents and jobs.                            *)
LEMMA NilIsNone == Nil \notin Files /\ Nil \notin Contents /\ Nil \notin Jobs
BY NilAssumption

(* A call that begins, and one that is over.                                *)
LEMMA CallKinds ==
    /\ Idle \in Calls /\ Idle.file = Nil /\ Idle.at = "idle" /\ Idle.read = Nil
    /\ \A f \in Files : /\ Reading(f) \in Calls /\ Reading(f).file = f /\ Reading(f).file # Nil
                        /\ Reading(f).at = "reading" /\ Reading(f).read = Nil
<1>1. ASSUME NEW f \in Files
      PROVE  Reading(f) = [file |-> f, tries |-> 0, at |-> "reading", read |-> Nil]
  <2> DEFINE begun == [Idle EXCEPT !.file = f]
  <2>1. begun = [file |-> f, tries |-> 0, at |-> "idle", read |-> Nil]
    BY DEF Idle
  <2>2. Reading(f) = [begun EXCEPT !.at = "reading"]
    BY DEF Idle, Reading
  <2>3. QED
    BY <2>1, <2>2
<1>2. 0 \in 0 .. MaxRetries
  BY BoundsAssumption
<1>3. QED
  BY <1>1, <1>2, NilIsNone DEF Idle, Calls

(* The state as the steps need it.                                          *)
LEMMA ShapesParts ==
    ASSUME Shapes
    PROVE  /\ handler \in [Handlers -> Calls]
           /\ \A h \in Handlers : handler[h].file \in Files \cup {Nil} /\ handler[h].read \in Contents \cup {Nil}
           /\ \A job \in armed : /\ job \in Jobs /\ job.file \in Files /\ job.event \in Contents /\ job.k \in Nat
                                 /\ job.event.n \in 1 .. MaxWrites /\ job.event.kind \in Kinds
           /\ \A f \in Files : disk[f] \in Contents \cup {Nil}
           /\ \A f \in Files : disk[f] # Nil => disk[f].n \in 1 .. MaxWrites
           /\ armed \subseteq Jobs /\ written \in Nat
BY BoundsAssumption DEF Shapes, TypeOK, Calls, Jobs, Contents

(* A new job has a number that is free.                                     *)
LEMMA NewJobIsNew ==
    ASSUME IsFiniteSet(armed), NEW f \in Files, NEW event \in Contents
    PROVE  /\ NewJob(f, event) \in Jobs /\ NewJob(f, event) \notin armed
           /\ NewJob(f, event).file = f /\ NewJob(f, event).event = event
<1> DEFINE n == Cardinality(armed)
           job == [k \in 0 .. n |-> [file |-> f, event |-> event, k |-> k]]
<1>1. n \in Nat
  BY FS_CardinalityType
<1> HIDE DEF n
<1>2. \E k \in 0 .. n : [file |-> f, event |-> event, k |-> k] \notin armed
  <2>1. SUFFICES ASSUME \A k \in 0 .. n : [file |-> f, event |-> event, k |-> k] \in armed
                 PROVE  FALSE
    OBVIOUS
  <2>2. job \in [0 .. n -> armed]
    BY <2>1
  <2>3. IsFiniteSet(0 .. n) /\ Cardinality(0 .. n) = n + 1
    BY <1>1, FS_Interval
  <2>4. n < n + 1 /\ n = Cardinality(armed)
    BY <1>1 DEF n
  <2>5. PICK x, y \in 0 .. n : x # y /\ job[x] = job[y]
    <3> HIDE DEF job
    <3>1. IsFiniteSet(armed) /\ Cardinality(armed) < Cardinality(0 .. n)
      BY <1>1, <2>3, <2>4
    <3>2. QED
      BY <2>2, <2>3, <3>1, FS_PigeonHole
  <2>6. job[x].k = x /\ job[y].k = y
    OBVIOUS
  <2>7. QED
    BY <2>5, <2>6
<1>3. PICK k \in 0 .. n : NewJob(f, event) = [file |-> f, event |-> event, k |-> k] /\ NewJob(f, event) \notin armed
  BY <1>2 DEF NewJob, n
<1>4. k \in Nat
  BY <1>1
<1>5. QED
  BY <1>3, <1>4 DEF Jobs

(* The maps when a job goes.                                                *)

(* Steps that leave jobs and calls alone keep the shapes.                   *)
LEMMA ShapesSame ==
    ASSUME Shapes, TypeOK', UNCHANGED <<handler, armed, timers, crons>>
    PROVE  Shapes'
BY DEF Shapes, JobsFit, CallsFit

(* Changes of a file ...                                                    *)
LEMMA ChangeFileShapes ==
    ASSUME Shapes, NEW f \in Files, NEW content \in Contents \cup {Nil}, ChangeFile(f, content),
           written' \in 0 .. MaxWrites, stale' \subseteq 1 .. MaxWrites
    PROVE  Shapes'
<1>1. TypeOK'
  BY DEF Shapes, TypeOK, ChangeFile, FaultKinds
<1>2. QED
  BY <1>1, ShapesSame DEF ChangeFile

(* ... of all kinds, and time that passes.                                  *)
LEMMA OthersShapes ==
    ASSUME Shapes,
           \/ \E f \in Files, kind \in Kinds : WriteFile(f, kind)
           \/ \E f \in Files : RemoveFile(f) \/ TouchFile(f)
           \/ \E n \in 1 .. MaxWrites : ComesDue(n)
    PROVE  Shapes'
<1>1. ASSUME NEW f \in Files, NEW kind \in Kinds, WriteFile(f, kind)
      PROVE  Shapes'
  <2>1. written + 1 \in 1 .. MaxWrites /\ written' = written + 1 /\ stale' = stale
    BY <1>1, BoundsAssumption DEF WriteFile, Shapes, TypeOK
  <2>2. [n |-> written + 1, kind |-> kind] \in Contents
    BY <2>1 DEF Contents
  <2>3. QED
    BY <1>1, <2>1, <2>2, ChangeFileShapes DEF WriteFile, Shapes, TypeOK
<1>2. ASSUME NEW f \in Files, RemoveFile(f)
      PROVE  Shapes'
  BY <1>2, ChangeFileShapes DEF RemoveFile, Shapes, TypeOK
<1>3. ASSUME NEW f \in Files, TouchFile(f)
      PROVE  Shapes'
  BY <1>3, ChangeFileShapes DEF TouchFile, Shapes, TypeOK
<1>4. ASSUME NEW n \in 1 .. MaxWrites, ComesDue(n)
      PROVE  Shapes'
  <2>1. TypeOK'
    BY <1>4 DEF ComesDue, Shapes, TypeOK, FaultKinds
  <2>2. QED
    BY <1>4, <2>1, ShapesSame DEF ComesDue
<1>5. QED
  BY <1>1, <1>2, <1>3, <1>4

(* Start.                                                                   *)
LEMMA StartShapes ==
    ASSUME Shapes, Start
    PROVE  Shapes'
<1>1. handler' \in [Handlers -> {Reading(f) : f \in Scanned} \cup {Idle}]
  BY DEF Start
<1>2. \A h \in Handlers : handler'[h] = Idle \/ \E f \in Files : handler'[h] = Reading(f)
  BY <1>1 DEF Scanned
<1>3. handler' \in [Handlers -> Calls]
  BY <1>1, <1>2, CallKinds
<1>4. CallsFit'
  BY <1>2, CallKinds DEF CallsFit
<1>5. stale' \subseteq 1 .. MaxWrites
  BY ShapesParts DEF Start
<1>6. TypeOK' /\ JobsFit'
  BY <1>3, <1>5 DEF Shapes, TypeOK, JobsFit, Start, Calls
<1>7. QED
  BY <1>4, <1>6 DEF Shapes

(* The end.                                                                 *)
LEMMA StopShapes ==
    ASSUME Shapes, Stop
    PROVE  Shapes'
<1>1. handler' \in [Handlers -> Calls] /\ \A h \in Handlers : handler'[h] = Idle
  BY CallKinds DEF Stop
<1>2. CallsFit'
  BY <1>1, CallKinds DEF CallsFit
<1>3. TypeOK'
  BY <1>1 DEF Shapes, TypeOK, Stop, FaultKinds, Calls
<1>4. JobsFit'
  BY FS_EmptySet DEF JobsFit, Stop
<1>5. QED
  BY <1>2, <1>3, <1>4 DEF Shapes

(* A change is heard of.                                                    *)
LEMMA HandleFileChangeShapes ==
    ASSUME Shapes, NEW f \in Files, HandleFileChange(f)
    PROVE  Shapes'
<1>1. handler' \in [Handlers -> Calls] /\ CallsFit'
  <2>1. CASE disk[f] = Nil
    BY <2>1, ShapesParts DEF HandleFileChange, Shapes, CallsFit
  <2>2. CASE disk[f] # Nil
    <3>1. FreeHandler \in Handlers /\ handler' = [handler EXCEPT ![FreeHandler] = Reading(f)]
      BY <2>2 DEF HandleFileChange, FreeHandler
    <3>2. QED
      BY <3>1, ShapesParts, CallKinds DEF Shapes, CallsFit
  <2>3. QED
    BY <2>1, <2>2
<1>2. armed' \subseteq armed /\ timers' \in [Files -> armed' \cup {Nil}] /\ crons' \in [Files -> armed' \cup {Nil}]
  <2>1. CASE f \notin knownFiles
    BY <2>1 DEF HandleFileChange, Shapes, TypeOK
  <2>2. CASE f \in knownFiles
    <3>1. /\ armed' = armed \ {timers[f], crons[f]}
          /\ timers' = [timers EXCEPT ![f] = Nil] /\ crons' = [crons EXCEPT ![f] = Nil]
      BY <2>2 DEF HandleFileChange, Cancelled
    <3>2. \A g \in Files : g # f => /\ timers[g] # Nil => timers[g] \notin {timers[f], crons[f]}
                                    /\ crons[g] # Nil => crons[g] \notin {timers[f], crons[f]}
      BY DEF Shapes, JobsFit
    <3>3. timers \in [Files -> armed \cup {Nil}] /\ crons \in [Files -> armed \cup {Nil}]
      BY DEF Shapes, TypeOK
    <3>4. QED
      BY <3>1, <3>2, <3>3
  <2>3. QED
    BY <2>1, <2>2
<1>3. \A g \in Files : timers'[g] \in {timers[g], Nil} /\ crons'[g] \in {crons[g], Nil}
  BY DEF HandleFileChange, Shapes, TypeOK
<1>4. JobsFit'
  BY <1>2, <1>3, FS_Subset DEF JobsFit, Shapes
<1>5. TypeOK'
  BY <1>1, <1>2 DEF Shapes, TypeOK, HandleFileChange, Calls, FaultKinds
<1>6. QED
  BY <1>1, <1>4, <1>5 DEF Shapes

(* The file is read, and read again.                                        *)
LEMMA ReadShapes ==
    ASSUME Shapes, NEW h \in Handlers, Read(h) \/ TryAgain(h)
    PROVE  Shapes'
<1>1. handler[h] \in Calls /\ handler[h].file \in Files
  BY ShapesParts DEF Shapes, CallsFit, Read, TryAgain
<1>2. CASE Read(h)
  <2>1. handler'[h] = [handler[h] EXCEPT !.at = "read", !.read = disk[handler[h].file]]
    BY <1>2, ShapesParts DEF Read
  <2>2. handler'[h] \in Calls /\ handler'[h].at = "read" /\ handler'[h].file = handler[h].file
    BY <1>1, <2>1, ShapesParts DEF Calls
  <2>3. handler' \in [Handlers -> Calls] /\ CallsFit'
    BY <1>1, <1>2, <2>2, ShapesParts, NilIsNone DEF Read, Shapes, CallsFit
  <2>4. TypeOK' /\ JobsFit'
    BY <1>2, <2>3 DEF Shapes, TypeOK, JobsFit, Read, Calls
  <2>5. QED
    BY <2>3, <2>4 DEF Shapes
<1>3. CASE TryAgain(h)
  <2>1. handler'[h] = [Reading(handler[h].file) EXCEPT !.tries = handler[h].tries + 1]
    BY <1>3, ShapesParts DEF TryAgain
  <2>2. handler[h].tries + 1 \in 0 .. MaxRetries
    BY <1>1, <1>3, BoundsAssumption DEF Calls, TryAgain
  <2>3. /\ handler'[h] \in Calls /\ handler'[h].at = "reading" /\ handler'[h].file = handler[h].file
        /\ handler'[h].read = Nil
    <3>1. handler'[h] = [file |-> handler[h].file, tries |-> handler[h].tries + 1, at |-> "reading", read |-> Nil]
      BY <2>1 DEF Reading, Idle
    <3>2. QED
      BY <1>1, <2>2, <3>1 DEF Calls
  <2>4. handler' \in [Handlers -> Calls] /\ CallsFit'
    BY <1>1, <1>3, <2>3, ShapesParts, NilIsNone DEF TryAgain, Shapes, CallsFit
  <2>5. TypeOK' /\ JobsFit'
    BY <1>3, <2>4 DEF Shapes, TypeOK, JobsFit, TryAgain, Calls
  <2>6. QED
    BY <2>4, <2>5 DEF Shapes
<1>4. QED
  BY <1>2, <1>3

(* A call ends.                                                             *)
LEMMA Ended ==
    ASSUME Shapes, NEW h \in Handlers, handler' = [handler EXCEPT ![h] = Idle]
    PROVE  /\ handler' \in [Handlers -> Calls] /\ CallsFit'
           /\ handler'[h].file = Nil /\ handler'[h].at = "idle" /\ handler'[h].read = Nil
           /\ \A g \in Handlers : g # h => handler'[g] = handler[g]
BY ShapesParts, CallKinds DEF CallsFit, Shapes

(* What a deletion, and what an execution changes.                          *)
LEMMA FileTyped ==
    ASSUME Shapes, NEW f \in Files, DeleteFile(f) \/ KeepFile(f)
    PROVE  /\ disk' \in [Files -> Contents \cup {Nil}] /\ changed' \in [Files -> BOOLEAN]
           /\ knownFiles' \subseteq Files
BY DEF DeleteFile, KeepFile, Shapes, TypeOK
LEMMA ExecuteTyped ==
    ASSUME Shapes, NEW event \in Contents, Execute(event) \/ NotExecuted
    PROVE  /\ ran' \subseteq Contents /\ ranTwice' \subseteq ran' /\ dropped' \subseteq Contents
           /\ happened' \subseteq FaultKinds
BY DEF Execute, NotExecuted, Shapes, TypeOK, MayHappen, FaultKinds

(* A call ends that has scheduled nothing ...                               *)
LEMMA EndsShapes ==
    ASSUME Shapes, NEW h \in Handlers, handler' = [handler EXCEPT ![h] = Idle],
           NEW f \in Files, DeleteFile(f) \/ KeepFile(f),
           NEW event \in Contents, Execute(event) \/ NotExecuted,
           UNCHANGED <<written, due, stale, up, armed, timers, crons>>
    PROVE  Shapes'
<1>1. handler' \in [Handlers -> Calls] /\ CallsFit'
  BY Ended
<1>2. TypeOK'
  BY <1>1, FileTyped, ExecuteTyped DEF Shapes, TypeOK, Calls
<1>3. QED
  BY <1>1, <1>2 DEF Shapes, JobsFit

(* ... or a job.                                                            *)
LEMMA SchedulesShapes ==
    ASSUME Shapes, NEW h \in Handlers, handler' = [handler EXCEPT ![h] = Idle],
           NEW f \in Files, KeepFile(f), NotExecuted,
           NEW event \in Contents, armed' = armed \cup {NewJob(f, event)},
           \/ event.kind = "oneshot" /\ timers' = [timers EXCEPT ![f] = NewJob(f, event)] /\ crons' = crons
           \/ event.kind = "periodic" /\ crons' = [crons EXCEPT ![f] = NewJob(f, event)] /\ timers' = timers,
           UNCHANGED <<written, due, stale, up>>
    PROVE  Shapes'
<1> DEFINE job == NewJob(f, event)
<1>1. job \in Jobs /\ job.file = f /\ job.event = event
  BY NewJobIsNew DEF Shapes, JobsFit
<1> HIDE DEF job
<1>2. handler' \in [Handlers -> Calls] /\ CallsFit'
  BY Ended
<1>3. armed' = armed \cup {job} /\ armed' \subseteq Jobs /\ IsFiniteSet(armed')
  BY <1>1, FS_AddElement DEF Shapes, JobsFit, TypeOK, job
<1>4. timers' \in [Files -> armed' \cup {Nil}] /\ crons' \in [Files -> armed' \cup {Nil}]
  BY <1>3 DEF Shapes, TypeOK, job
<1>5. \A g \in Files : \/ timers'[g] = timers[g]
                       \/ timers'[g] = job /\ g = f /\ event.kind = "oneshot"
  BY DEF Shapes, TypeOK, job
<1>6. \A g \in Files : \/ crons'[g] = crons[g]
                       \/ crons'[g] = job /\ g = f /\ event.kind = "periodic"
  BY DEF Shapes, TypeOK, job
<1>7. JobsFit'
  BY <1>1, <1>3, <1>5, <1>6 DEF Shapes, JobsFit
<1>8. TypeOK'
  BY <1>2, <1>3, <1>4, FileTyped, ExecuteTyped DEF Shapes, TypeOK, Calls
<1>9. QED
  BY <1>2, <1>7, <1>8 DEF Shapes

(* The ends of a call, one by one.                                          *)
LEMMA ContinueShapes ==
    ASSUME Shapes, NEW h \in Handlers, Continue(h)
    PROVE  Shapes'
<1>1. CASE TryAgain(h)
  BY <1>1, ReadShapes
<1>2. ASSUME NEW f \in Files, NEW content \in Contents \cup {Nil}, GiveUp(h, f, content)
      PROVE  Shapes'
  <2>1. /\ handler' = [handler EXCEPT ![h] = Idle] /\ DeleteFile(f) /\ NotExecuted
        /\ UNCHANGED <<written, due, stale, up, armed, timers, crons>>
    BY <1>2 DEF GiveUp, Continues
  <2>2. handler' \in [Handlers -> Calls] /\ CallsFit'
    BY <2>1, Ended
  <2>3. TypeOK'
    BY <2>1, <2>2, FileTyped DEF Shapes, TypeOK, Calls, NotExecuted
  <2>4. QED
    BY <2>1, <2>2, <2>3 DEF Shapes, JobsFit
<1>3. ASSUME NEW f \in Files, NEW content \in Contents \cup {Nil}, HandleImmediate(h, f, content)
      PROVE  Shapes'
  <2>1. /\ handler' = [handler EXCEPT ![h] = Idle] /\ content \in Contents
        /\ DeleteFile(f) \/ KeepFile(f)
        /\ Execute(content) \/ NotExecuted
        /\ UNCHANGED <<written, due, stale, up, armed, timers, crons>>
    BY <1>3 DEF HandleImmediate, Continues
  <2>2. QED
    BY <2>1, EndsShapes
<1>4. ASSUME NEW f \in Files, NEW content \in Contents \cup {Nil}, HandleOneShot(h, f, content)
      PROVE  Shapes'
  <2>1. /\ handler' = [handler EXCEPT ![h] = Idle] /\ content \in Contents /\ NotExecuted
        /\ content.kind = "oneshot" /\ UNCHANGED <<written, due, stale, up, crons>>
    BY <1>4 DEF HandleOneShot, Continues
  <2>2. CASE DeleteFile(f) /\ UNCHANGED <<armed, timers>>
    BY <2>1, <2>2, EndsShapes
  <2>3. CASE /\ KeepFile(f) /\ armed' = armed \cup {NewJob(f, content)}
             /\ timers' = [timers EXCEPT ![f] = NewJob(f, content)]
    BY <2>1, <2>3, SchedulesShapes
  <2>4. QED
    BY <1>4, <2>2, <2>3 DEF HandleOneShot
<1>5. ASSUME NEW f \in Files, NEW content \in Contents \cup {Nil}, HandlePeriodic(h, f, content)
      PROVE  Shapes'
  <2>1. /\ handler' = [handler EXCEPT ![h] = Idle] /\ content \in Contents /\ NotExecuted
        /\ UNCHANGED <<written, due, stale, up, timers>>
    BY <1>5 DEF HandlePeriodic, Continues
  <2>2. CASE DeleteFile(f) /\ UNCHANGED <<armed, crons>>
    BY <2>1, <2>2, EndsShapes
  <2>3. CASE /\ content.kind = "periodic" /\ KeepFile(f) /\ armed' = armed \cup {NewJob(f, content)}
             /\ crons' = [crons EXCEPT ![f] = NewJob(f, content)]
    BY <2>1, <2>3, SchedulesShapes
  <2>4. QED
    BY <1>5, <2>2, <2>3 DEF HandlePeriodic
<1>6. QED
  BY <1>1, <1>2, <1>3, <1>4, <1>5 DEF Continue

(* A timer fires.                                                           *)
LEMMA TimerFiresShapes ==
    ASSUME Shapes, NEW job \in armed, TimerFires(job)
    PROVE  Shapes'
<1>1. job.file \in Files /\ job.event \in Contents /\ job.event.kind = "oneshot" /\ job \in Jobs
  BY ShapesParts DEF TimerFires
<1>2. /\ armed' = armed \ {job} /\ timers' = [timers EXCEPT ![job.file] = Nil]
      /\ Execute(job.event) /\ DeleteFile(job.file) /\ UNCHANGED <<written, due, stale, up, handler, crons>>
  BY DEF TimerFires
<1>3. \A g \in Files : (g # job.file => timers[g] # job) /\ crons[g] # job
  BY <1>1, NilIsNone DEF Shapes, JobsFit
<1>4. timers \in [Files -> armed \cup {Nil}] /\ crons \in [Files -> armed \cup {Nil}]
  BY DEF Shapes, TypeOK
<1>5. timers' \in [Files -> armed' \cup {Nil}] /\ crons' \in [Files -> armed' \cup {Nil}]
  BY <1>1, <1>2, <1>3, <1>4
<1>6. \A g \in Files : timers'[g] \in {timers[g], Nil}
  BY <1>2, <1>4
<1>7. JobsFit'
  BY <1>2, <1>6, FS_RemoveElement DEF Shapes, JobsFit
<1>8. TypeOK'
  BY <1>1, <1>2, <1>5, FileTyped, ExecuteTyped DEF Shapes, TypeOK
<1>9. QED
  BY <1>2, <1>7, <1>8 DEF Shapes, CallsFit

(* Types, through every step.                                               *)
LEMMA NextShapes ==
    ASSUME Shapes, [Next]_vars
    PROVE  Shapes'
<1>1. CASE UNCHANGED vars
  BY <1>1 DEF vars, Shapes, TypeOK, JobsFit, CallsFit
<1>2. CASE Next
  BY <1>2, OthersShapes, StartShapes, StopShapes, HandleFileChangeShapes, ReadShapes, ContinueShapes,
     TimerFiresShapes DEF Next
<1>3. QED
  BY <1>1, <1>2

(* ... and at first.                                                        *)
LEMMA InitShapes ==
    ASSUME Init
    PROVE  Shapes
<1>1. handler \in [Handlers -> Calls] /\ \A h \in Handlers : handler[h] = Idle
  BY CallKinds DEF Init
<1>2. TypeOK
  <2>1. written \in 0 .. MaxWrites
    BY BoundsAssumption DEF Init
  <2>2. timers \in [Files -> armed \cup {Nil}] /\ crons \in [Files -> armed \cup {Nil}] /\ armed \subseteq Jobs
    BY DEF Init, NothingScheduled
  <2>3. disk \in [Files -> Contents \cup {Nil}] /\ changed \in [Files -> BOOLEAN]
    BY DEF Init, NothingScheduled
  <2>4. QED
    BY <1>1, <2>1, <2>2, <2>3 DEF Init, NothingScheduled, TypeOK, Calls
<1>3. JobsFit
  BY FS_EmptySet DEF Init, NothingScheduled, JobsFit
<1>4. CallsFit
  BY <1>1, CallKinds DEF CallsFit
<1>5. QED
  BY <1>2, <1>3, <1>4 DEF Shapes

-----------------------------------------------------------------------------
(* When the watcher does not run.                                           *)

(* Whoever works on a file, the watcher runs.                               *)
LEMMA Working ==
    ASSUME Down, up = FALSE
    PROVE  /\ armed = {} /\ \A f \in Files : ~changed[f]
           /\ \A h \in Handlers : handler[h].file \notin Files
BY NilIsNone DEF Down

LEMMA DownKept ==
    ASSUME Shapes, Down, Next
    PROVE  Down'
<1>1. SUFFICES ASSUME up' = FALSE
               PROVE  /\ armed' = {}
                      /\ \A h \in Handlers : handler'[h].file = Nil
                      /\ \A f \in Files : ~changed'[f]
  BY NextShapes DEF Down, Shapes, TypeOK
<1>2. CASE Stop
  BY <1>2, CallKinds DEF Stop
<1>3. CASE Start \/ \E f \in Files : HandleFileChange(f)
  BY <1>1, <1>3 DEF Start, HandleFileChange
<1>4. CASE \E job \in armed : TimerFires(job)
  BY <1>1, <1>4, Working DEF TimerFires
<1>5. ASSUME NEW h \in Handlers, Read(h) \/ Continue(h)
      PROVE  FALSE
  <2>1. handler[h].file \in Files /\ up' = up
    BY <1>5, ShapesParts DEF Read, Continue, TryAgain, GiveUp, HandleImmediate, HandleOneShot, HandlePeriodic, Continues,
       Shapes, CallsFit
  <2>2. QED
    BY <1>1, <2>1, Working
<1>6. ASSUME NEW f \in Files, NEW content, ChangeFile(f, content)
      PROVE  Down'
  BY <1>6, <1>1 DEF ChangeFile, Down, Shapes, TypeOK
<1>7. CASE \E n \in 1 .. MaxWrites : ComesDue(n)
  BY <1>1, <1>7 DEF ComesDue, Down
<1>8. QED
  BY <1>1, <1>2, <1>3, <1>4, <1>5, <1>6, <1>7 DEF Next, WriteFile, RemoveFile, TouchFile, Down

-----------------------------------------------------------------------------
(* Contents and the files they are of.                                      *)

(* What is somewhere was there before, and what is in a file in that file.  *)
HoldsBefore ==
    /\ \A f \in Files, c \in Contents : Holds(f, c)' => Holds(f, c)
    /\ \A f \in Files : disk'[f] \in {disk[f], Nil}

(* Jobs and calls for contents that were held.                              *)
LEMMA HoldsLess ==
    ASSUME \A f \in Files : disk'[f] \in {disk[f], Nil},
           \A h \in Handlers : handler'[h].file \in Files /\ handler'[h].read \in Contents =>
                Holds(handler'[h].file, handler'[h].read),
           \A job \in armed' : Holds(job.file, job.event)
    PROVE  HoldsBefore
BY NilIsNone DEF HoldsBefore, Holds

(* A step that only starts and ends calls, and schedules what was read.     *)
LEMMA HoldsKept ==
    ASSUME Shapes, Down, Next, ~ \E f \in Files, kind \in Kinds : WriteFile(f, kind)
    PROVE  HoldsBefore
<1>1. \A h \in Handlers : Holds(handler[h].file, handler[h].read)
  BY DEF Holds
<1>2. \A job \in armed : Holds(job.file, job.event)
  BY DEF Holds
<1>3. \A f \in Files : Holds(f, disk[f])
  BY DEF Holds
<1>4. ASSUME NEW f \in Files, RemoveFile(f) \/ TouchFile(f)
      PROVE  HoldsBefore
  <2>1. \A g \in Files : disk'[g] \in {disk[g], Nil}
    BY <1>4 DEF RemoveFile, TouchFile, ChangeFile, Shapes, TypeOK
  <2>2. UNCHANGED <<handler, armed>>
    BY <1>4 DEF RemoveFile, TouchFile, ChangeFile
  <2>3. QED
    BY <1>1, <1>2, <2>1, <2>2, HoldsLess
<1>5. ASSUME NEW n \in 1 .. MaxWrites, ComesDue(n)
      PROVE  HoldsBefore
  BY <1>5 DEF HoldsBefore, Holds, ComesDue
<1>6. CASE Start
  <2>1. \A h \in Handlers : handler'[h].read = Nil
    BY <1>6, CallKinds DEF Start, Scanned
  <2>2. QED
    BY <1>2, <1>6, <2>1, NilIsNone, HoldsLess DEF Start
<1>7. CASE Stop
  BY <1>7, CallKinds, NilIsNone, HoldsLess DEF Stop
<1>8. ASSUME NEW f \in Files, HandleFileChange(f)
      PROVE  HoldsBefore
  <2>1. disk' = disk /\ armed' \subseteq armed
    BY <1>8 DEF HandleFileChange
  <2>2. \A h \in Handlers : handler'[h] = handler[h] \/ handler'[h].read = Nil
    BY <1>8, CallKinds, ShapesParts DEF HandleFileChange
  <2>3. QED
    BY <1>1, <1>2, <2>1, <2>2, NilIsNone, HoldsLess
<1>9. ASSUME NEW h \in Handlers, Read(h)
      PROVE  HoldsBefore
  <2>1. disk' = disk /\ armed' = armed /\ \A g \in Handlers : g # h => handler'[g] = handler[g]
    BY <1>9, ShapesParts DEF Read
  <2>2. handler'[h].file = handler[h].file /\ handler'[h].read = disk[handler[h].file]
    BY <1>9, ShapesParts DEF Read, Calls
  <2>3. QED
    BY <1>1, <1>2, <1>3, <2>1, <2>2, HoldsLess
<1>10. ASSUME NEW h \in Handlers, TryAgain(h)
       PROVE  HoldsBefore
  <2>1. disk' = disk /\ armed' = armed /\ \A g \in Handlers : g # h => handler'[g] = handler[g]
    BY <1>10, ShapesParts DEF TryAgain
  <2>2. handler'[h].read = Nil
    BY <1>10, ShapesParts DEF TryAgain, Reading, Idle
  <2>3. QED
    BY <1>1, <1>2, <2>1, <2>2, NilIsNone, HoldsLess
<1>11. ASSUME NEW h \in Handlers, NEW f \in Files, NEW c \in Contents \cup {Nil},
              \/ GiveUp(h, f, c) \/ HandleImmediate(h, f, c)
              \/ HandleOneShot(h, f, c) \/ HandlePeriodic(h, f, c)
       PROVE  HoldsBefore
  <2>1. handler' = [handler EXCEPT ![h] = Idle] /\ Continues(h, f, c)
    BY <1>11 DEF GiveUp, HandleImmediate, HandleOneShot, HandlePeriodic
  <2>2. \A g \in Files : disk'[g] \in {disk[g], Nil}
    BY <1>11 DEF GiveUp, HandleImmediate, HandleOneShot, HandlePeriodic, DeleteFile, KeepFile, Shapes, TypeOK
  <2>3. \A job \in armed' : job \in armed \/ (c \in Contents /\ job = NewJob(f, c))
    BY <1>11 DEF GiveUp, HandleImmediate, HandleOneShot, HandlePeriodic
  <2>4. \A g \in Handlers : g # h => handler'[g] = handler[g]
    BY <2>1, Ended
  <2>5. handler'[h].file = Nil
    BY <2>1, Ended
  <2>6. \A job \in armed' : Holds(job.file, job.event)
    BY <1>1, <1>2, <2>1, <2>3, NewJobIsNew DEF Continues, Shapes, JobsFit
  <2>7. QED
    BY <1>1, <2>2, <2>4, <2>5, <2>6, NilIsNone, HoldsLess
<1>12. ASSUME NEW job \in armed, TimerFires(job)
       PROVE  HoldsBefore
  <2>1. armed' \subseteq armed /\ handler' = handler
    BY <1>12 DEF TimerFires
  <2>2. \A g \in Files : disk'[g] \in {disk[g], Nil}
    BY <1>12 DEF TimerFires, DeleteFile, Shapes, TypeOK
  <2>3. QED
    BY <1>1, <1>2, <2>1, <2>2, HoldsLess
<1>13. QED
  BY <1>4, <1>5, <1>6, <1>7, <1>8, <1>9, <1>10, <1>11, <1>12 DEF Next, Continue

(* A file is written.                                                       *)
LEMMA HoldsWritten ==
    ASSUME Shapes, NEW f \in Files, NEW kind \in Kinds, WriteFile(f, kind)
    PROVE  /\ \A g \in Files, c \in Contents : Holds(g, c)' => Holds(g, c) \/ (g = f /\ c.n = written + 1)
           /\ \A g \in Files : disk'[g] = disk[g] \/ (g = f /\ disk'[g].n = written + 1)
<1>1. \A g \in Files : disk'[g] = IF g = f THEN [n |-> written + 1, kind |-> kind] ELSE disk[g]
  BY DEF WriteFile, ChangeFile, Shapes, TypeOK
<1>2. UNCHANGED <<handler, armed>>
  BY DEF WriteFile, ChangeFile
<1>3. QED
  BY <1>1, <1>2 DEF Holds

(* What is queued was read from a file that goes.                           *)
LEMMA RanBefore ==
    ASSUME Shapes, Next
    PROVE  \A e \in ran' : e \in ran \/ \E f \in Files : Holds(f, e) /\ disk'[f] = Nil
<1>1. ASSUME NEW h \in Handlers, NEW f \in Files, NEW c \in Contents \cup {Nil}, HandleImmediate(h, f, c)
      PROVE  \A e \in ran' : e \in ran \/ (Holds(f, e) /\ disk'[f] = Nil)
  <2>1. Holds(f, c)
    BY <1>1 DEF HandleImmediate, Continues, Holds
  <2>2. ran' = ran \/ (Execute(c) /\ DeleteFile(f))
    BY <1>1 DEF HandleImmediate, NotExecuted
  <2>3. QED
    BY <2>1, <2>2 DEF Execute, DeleteFile, Shapes, TypeOK
<1>2. ASSUME NEW job \in armed, TimerFires(job)
      PROVE  \A e \in ran' : e \in ran \/ (Holds(job.file, e) /\ disk'[job.file] = Nil)
  BY <1>2, ShapesParts DEF TimerFires, Execute, DeleteFile, Holds, Shapes, TypeOK
<1>3. CASE ran' = ran
  BY <1>3
<1>4. ASSUME NEW h \in Handlers, NEW f \in Files, NEW c \in Contents \cup {Nil},
             GiveUp(h, f, c) \/ HandleOneShot(h, f, c) \/ HandlePeriodic(h, f, c)
      PROVE  ran' = ran
  BY <1>4 DEF GiveUp, HandleOneShot, HandlePeriodic, NotExecuted
<1>5. ASSUME NEW f \in Files, NEW content, ChangeFile(f, content)
      PROVE  ran' = ran
  BY <1>5 DEF ChangeFile
<1>6. QED
  BY <1>1, <1>2, <1>3, <1>4, <1>5, ShapesParts
     DEF Next, Continue, TryAgain, WriteFile, RemoveFile, TouchFile, HandleFileChange, ComesDue, Start, Stop, Read

LEMMA OwnedKept ==
    ASSUME Shapes, Down, Owned, Gone, Next
    PROVE  Owned' /\ Gone'
<1>1. \A e \in ran : e \in Contents /\ e.n \in Nat /\ e.n <= written /\ e # Nil
  BY NilIsNone DEF Shapes, TypeOK, Owned, Contents
<1>2. \A e \in Contents : e.n \in Nat
  BY DEF Contents
<1>3. written \in Nat /\ \A f \in Files : disk[f] \in Contents \cup {Nil}
  BY ShapesParts
<1>4. \A f \in Files : disk'[f] \in Contents \cup {Nil}
  BY NextShapes DEF Shapes, TypeOK
<1>5. ran' \subseteq Contents
  BY NextShapes DEF Shapes, TypeOK
<1>6. ASSUME NEW f \in Files, NEW kind \in Kinds, WriteFile(f, kind)
      PROVE  Owned' /\ Gone'
  <2>1. ran' = ran /\ written' = written + 1
    BY <1>6 DEF WriteFile, ChangeFile
  <2>2. \A g \in Files, c \in Contents : Holds(g, c)' => Holds(g, c) \/ (g = f /\ c.n = written + 1)
    BY <1>6, HoldsWritten
  <2>3. \A g \in Files : disk'[g] = disk[g] \/ (g = f /\ disk'[g].n = written + 1)
    BY <1>6, HoldsWritten
  <2>4. \A g \in Files, c \in Contents : Holds(g, c) => c.n <= written
    BY DEF Owned
  <2>5. \A g, k \in Files, c \in Contents : Holds(g, c)' /\ Holds(k, c)' => g = k
    BY <1>2, <1>3, <2>2, <2>4 DEF Owned
  <2>6. \A g \in Files, c \in Contents : Holds(g, c)' => c.n <= written + 1
    BY <1>2, <1>3, <2>2, <2>4
  <2>7. \A e \in ran : e.n <= written + 1
    BY <1>1, <1>3
  <2>8. Gone'
    BY <1>1, <1>3, <2>1, <2>3 DEF Gone
  <2>9. QED
    BY <2>1, <2>5, <2>6, <2>7, <2>8 DEF Owned
<1>7. CASE ~ \E f \in Files, kind \in Kinds : WriteFile(f, kind)
  <2>1. HoldsBefore
    BY <1>7, HoldsKept
  <2>2. written' = written
    <3>1. ASSUME NEW h \in Handlers, Read(h) \/ Continue(h)
          PROVE  written' = written
      BY <3>1 DEF Read, Continue, TryAgain, GiveUp, HandleImmediate, HandleOneShot, HandlePeriodic, Continues
    <3>2. ASSUME NEW f \in Files, RemoveFile(f) \/ TouchFile(f) \/ HandleFileChange(f)
          PROVE  written' = written
      BY <3>2 DEF RemoveFile, TouchFile, HandleFileChange
    <3>3. ASSUME NEW n \in 1 .. MaxWrites, ComesDue(n)
          PROVE  written' = written
      BY <3>3 DEF ComesDue
    <3>4. CASE Start \/ Stop
      BY <3>4 DEF Start, Stop
    <3>5. ASSUME NEW job \in armed, TimerFires(job)
          PROVE  written' = written
      BY <3>5 DEF TimerFires
    <3>6. QED
      BY <1>7, <3>1, <3>2, <3>3, <3>4, <3>5 DEF Next
  <2>3. \A e \in ran' : e \in ran \/ \E f \in Files : Holds(f, e) /\ disk'[f] = Nil
    BY RanBefore
  <2>4. \A f, g \in Files, c \in Contents : Holds(f, c) /\ Holds(g, c) => f = g
    BY DEF Owned
  <2>5. \A f \in Files, c \in Contents : Holds(f, c) => c.n <= written
    BY DEF Owned
  <2>6. \A f \in Files : Holds(f, disk[f])
    BY DEF Holds
  <2>7. ASSUME NEW f \in Files, disk'[f] \in ran'
        PROVE  FALSE
    <3>1. disk'[f] = disk[f] /\ disk[f] \notin ran /\ disk[f] \in Contents /\ disk'[f] # Nil
      BY <1>5, <2>1, <2>7, NilIsNone DEF HoldsBefore, Gone
    <3>2. PICK g \in Files : Holds(g, disk[f]) /\ disk'[g] = Nil
      BY <2>3, <2>7, <3>1
    <3>3. QED
      BY <2>4, <2>6, <3>1, <3>2
  <2>8. \A e \in ran' : e.n <= written
    BY <1>1, <1>5, <2>3, <2>5
  <2>9. QED
    BY <2>1, <2>2, <2>4, <2>5, <2>7, <2>8 DEF Owned, Gone, HoldsBefore
<1>8. QED
  BY <1>6, <1>7

-----------------------------------------------------------------------------
(* What is read is what is there.                                           *)

(* What happened stays so.                                                  *)
LEMMA HappenedGrows ==
    ASSUME Next
    PROVE  happened \subseteq happened'
<1>1. ASSUME NEW f \in Files, NEW content, ChangeFile(f, content)
      PROVE  happened \subseteq happened'
  BY <1>1 DEF ChangeFile
<1>2. ASSUME NEW h \in Handlers, Read(h) \/ Continue(h)
      PROVE  happened \subseteq happened'
  BY <1>2 DEF Read, Continue, TryAgain, GiveUp, HandleImmediate, HandleOneShot, HandlePeriodic, Execute, NotExecuted
<1>3. ASSUME NEW job \in armed, TimerFires(job)
      PROVE  happened \subseteq happened'
  BY <1>3 DEF TimerFires, Execute
<1>4. ASSUME NEW f \in Files, HandleFileChange(f)
      PROVE  happened \subseteq happened'
  BY <1>4 DEF HandleFileChange
<1>5. ASSUME NEW n \in 1 .. MaxWrites, ComesDue(n)
      PROVE  happened \subseteq happened'
  BY <1>5 DEF ComesDue
<1>6. CASE Start \/ Stop
  BY <1>6 DEF Start, Stop
<1>7. QED
  BY <1>1, <1>2, <1>3, <1>4, <1>5, <1>6 DEF Next, WriteFile, RemoveFile, TouchFile

(* What others do to a file.                                                *)
LEMMA Changes ==
    ASSUME Shapes, NEW f \in Files, NEW content, ChangeFile(f, content)
    PROVE  /\ \A g \in Files : g # f => disk'[g] = disk[g] /\ changed'[g] = changed[g]
           /\ disk'[f] = content /\ changed'[f] = up
           /\ UNCHANGED <<due, up, knownFiles, handler, armed, timers, crons, ran, ranTwice>>
           /\ "late" \notin happened' =>
                /\ \A h \in Handlers : handler[h].file = f => handler[h].at # "read"
                /\ \A job \in armed : ~IsDue(job, f)
           /\ happened \subseteq happened'
BY DEF ChangeFile, Handling, Shapes, TypeOK

(* How a call goes on.                                                      *)
Untouched(h) == handler'[h] = handler[h]
Over(h) == handler'[h].file = Nil /\ handler'[h].at = "idle" /\ handler'[h].read = Nil
HasRead(h) ==
    /\ handler'[h].file = handler[h].file /\ handler'[h].at = "read"
    /\ handler'[h].read = disk[handler[h].file] /\ disk' = disk

LEMMA Reads ==
    ASSUME Shapes, NEW h \in Handlers, Read(h)
    PROVE  /\ HasRead(h) /\ handler[h].file \in Files
           /\ \A g \in Handlers : g # h => Untouched(g)
<1>1. \A g \in Handlers : g # h => handler'[g] = handler[g]
  BY ShapesParts DEF Read
<1>2. handler'[h] = [handler[h] EXCEPT !.at = "read", !.read = disk[handler[h].file]] /\ handler[h] \in Calls
  BY ShapesParts DEF Read
<1>3. handler[h].file \in Files
  BY ShapesParts DEF Shapes, CallsFit, Read
<1>4. handler'[h].file = handler[h].file /\ handler'[h].at = "read" /\ handler'[h].read = disk[handler[h].file]
  BY <1>2 DEF Calls
<1>5. disk' = disk
  BY DEF Read
<1>6. QED
  BY <1>1, <1>3, <1>4, <1>5 DEF HasRead, Untouched

LEMMA Retries ==
    ASSUME Shapes, NEW h \in Handlers, TryAgain(h)
    PROVE  /\ handler'[h].file = handler[h].file /\ handler'[h].at = "reading" /\ handler'[h].read = Nil
           /\ handler[h].file \in Files
           /\ \A g \in Handlers : g # h => Untouched(g)
<1>1. handler'[h] = [Reading(handler[h].file) EXCEPT !.tries = handler[h].tries + 1]
  BY ShapesParts DEF TryAgain
<1>2. handler[h].file \in Files
  BY ShapesParts DEF Shapes, CallsFit, TryAgain
<1>3. handler'[h] = [file |-> handler[h].file, tries |-> handler[h].tries + 1, at |-> "reading", read |-> Nil]
  BY <1>1 DEF Reading, Idle
<1>4. \A g \in Handlers : g # h => handler'[g] = handler[g]
  BY ShapesParts DEF TryAgain
<1>5. QED
  BY <1>2, <1>3, <1>4 DEF Untouched

(* A call ends, and what it was for.                                        *)
Ends(h, f, c) == GiveUp(h, f, c) \/ HandleImmediate(h, f, c) \/ HandleOneShot(h, f, c) \/ HandlePeriodic(h, f, c)

LEMMA Finishes ==
    ASSUME Shapes, NEW h \in Handlers, NEW f \in Files, NEW c \in Contents \cup {Nil}, Ends(h, f, c)
    PROVE  /\ Over(h) /\ handler[h].file = f /\ handler[h].at = "read" /\ handler[h].read = c
           /\ \A g \in Handlers : g # h => Untouched(g)
           /\ \A g \in Files : g # f => disk'[g] = disk[g] /\ changed'[g] = changed[g]
           /\ \A g \in Files : g # f => (g \in knownFiles' <=> g \in knownFiles)
           /\ disk'[f] \in {disk[f], Nil} /\ UNCHANGED <<due, up>>
<1>1. handler' = [handler EXCEPT ![h] = Idle] /\ Continues(h, f, c)
  BY DEF Ends, GiveUp, HandleImmediate, HandleOneShot, HandlePeriodic
<1>2. DeleteFile(f) \/ KeepFile(f)
  BY DEF Ends, GiveUp, HandleImmediate, HandleOneShot, HandlePeriodic
<1>3. Over(h) /\ \A g \in Handlers : g # h => Untouched(g)
  BY <1>1, Ended DEF Over, Untouched
<1>4. /\ \A g \in Files : g # f => disk'[g] = disk[g] /\ changed'[g] = changed[g]
      /\ \A g \in Files : g # f => (g \in knownFiles' <=> g \in knownFiles)
      /\ disk'[f] \in {disk[f], Nil}
  BY <1>2 DEF DeleteFile, KeepFile, Shapes, TypeOK
<1>5. QED
  BY <1>1, <1>3, <1>4 DEF Continues

(* The watcher hears of a change, and a call begins.                        *)
Begins(h, f) ==
    /\ handler[h].file = Nil
    /\ handler'[h].file = f /\ handler'[h].at = "reading" /\ handler'[h].read = Nil

LEMMA Heard ==
    ASSUME Shapes, NEW f \in Files, HandleFileChange(f)
    PROVE  /\ disk' = disk /\ ran' = ran /\ due' = due /\ ranTwice' = ranTwice
           /\ \A g \in Files : g # f => changed'[g] = changed[g]
           /\ \A g \in Files : g # f => /\ timers'[g] = timers[g] /\ crons'[g] = crons[g]
                                        /\ g \in knownFiles' <=> g \in knownFiles
           /\ \A h \in Handlers : Untouched(h) \/ Begins(h, f)
           /\ \A h, g \in Handlers : Begins(h, f) /\ Begins(g, f) => h = g
           /\ armed' \subseteq armed
           /\ f \in knownFiles => armed' = armed \ {timers[f], crons[f]}
           /\ "overlap" \notin happened' => \A h \in Handlers : handler[h].file # f
<1>1. \A g \in Files : g # f => /\ timers'[g] = timers[g] /\ crons'[g] = crons[g]
                                /\ g \in knownFiles' <=> g \in knownFiles
  BY DEF HandleFileChange, Shapes, TypeOK
<1>2. /\ disk' = disk /\ ran' = ran /\ due' = due /\ ranTwice' = ranTwice
      /\ \A g \in Files : g # f => changed'[g] = changed[g]
  BY DEF HandleFileChange, Shapes, TypeOK
<1>3. armed' \subseteq armed /\ (f \in knownFiles => armed' = armed \ {timers[f], crons[f]})
  BY DEF HandleFileChange, Cancelled
<1>4. "overlap" \notin happened' => \A h \in Handlers : handler[h].file # f
  BY DEF HandleFileChange, Handling
<1>5. /\ \A h \in Handlers : Untouched(h) \/ Begins(h, f)
      /\ \A h, g \in Handlers : Begins(h, f) /\ Begins(g, f) => h = g
  <2>1. CASE disk[f] = Nil
    BY <2>1, NilIsNone DEF HandleFileChange, Untouched, Begins
  <2>2. CASE disk[f] # Nil
    <3>1. /\ FreeHandler \in Handlers /\ handler[FreeHandler] = Idle
          /\ handler' = [handler EXCEPT ![FreeHandler] = Reading(f)]
      BY <2>2 DEF HandleFileChange, FreeHandler
    <3>2. handler'[FreeHandler] = Reading(f) /\ \A g \in Handlers : g # FreeHandler => handler'[g] = handler[g]
      BY <3>1, ShapesParts
    <3>3. QED
      BY <3>1, <3>2, CallKinds DEF Untouched, Begins
  <2>3. QED
    BY <2>1, <2>2
<1>6. QED
  BY <1>1, <1>2, <1>3, <1>4, <1>5

LEMMA SeenKept ==
    ASSUME Shapes, Down, Seen, Next
    PROVE  Seen'
<1>1. SUFFICES ASSUME "late" \notin happened', NEW h \in Handlers, handler'[h].at = "read"
               PROVE  disk'[handler'[h].file] = handler'[h].read \/ disk'[handler'[h].file] = Nil
  BY DEF Seen, SeenAs
<1>2. "late" \notin happened
  BY <1>1, HappenedGrows
<1>3. handler[h].at = "read" => SeenAs(h) /\ handler[h].file \in Files
  BY <1>2, ShapesParts DEF Seen, Shapes, CallsFit
<1>4. ASSUME NEW f \in Files, NEW content, ChangeFile(f, content)
      PROVE  disk'[handler'[h].file] = handler'[h].read \/ disk'[handler'[h].file] = Nil
  <2>1. handler' = handler /\ handler[h].file # f
    BY <1>1, <1>4, Changes
  <2>2. disk'[handler[h].file] = disk[handler[h].file]
    BY <1>1, <1>3, <1>4, <2>1, Changes
  <2>3. QED
    BY <1>1, <1>3, <2>1, <2>2 DEF SeenAs
<1>5. ASSUME Untouched(h), \A f \in Files : disk'[f] \in {disk[f], Nil}
      PROVE  disk'[handler'[h].file] = handler'[h].read \/ disk'[handler'[h].file] = Nil
  BY <1>1, <1>3, <1>5 DEF Untouched, SeenAs
<1>6. CASE \E f \in Files, kind \in Kinds : WriteFile(f, kind)
  BY <1>4, <1>6 DEF WriteFile
<1>7. CASE ~ \E f \in Files, kind \in Kinds : WriteFile(f, kind)
  <2>1. \A f \in Files : disk'[f] \in {disk[f], Nil}
    BY <1>7, HoldsKept DEF HoldsBefore
  <2>2. ASSUME NEW f \in Files, RemoveFile(f) \/ TouchFile(f)
        PROVE  disk'[handler'[h].file] = handler'[h].read \/ disk'[handler'[h].file] = Nil
    BY <1>4, <2>2 DEF RemoveFile, TouchFile
  <2>3. ASSUME NEW n \in 1 .. MaxWrites, ComesDue(n)
        PROVE  Untouched(h)
    BY <2>3 DEF ComesDue, Untouched
  <2>4. CASE Start
    BY <1>1, <2>4, CallKinds DEF Start, Scanned
  <2>5. CASE Stop
    BY <1>1, <2>5, CallKinds DEF Stop
  <2>6. ASSUME NEW f \in Files, HandleFileChange(f)
        PROVE  Untouched(h)
    BY <1>1, <2>6, Heard DEF Begins
  <2>7. ASSUME NEW g \in Handlers, Read(g)
        PROVE  Untouched(h) \/ HasRead(h)
    BY <2>7, Reads
  <2>8. ASSUME NEW g \in Handlers, TryAgain(g)
        PROVE  Untouched(h)
    BY <1>1, <2>8, Retries
  <2>9. ASSUME NEW g \in Handlers, NEW f \in Files, NEW c \in Contents \cup {Nil}, Ends(g, f, c)
        PROVE  Untouched(h)
    BY <1>1, <2>9, Finishes DEF Over
  <2>10. ASSUME NEW job \in armed, TimerFires(job)
         PROVE  Untouched(h)
    BY <2>10 DEF TimerFires, Untouched
  <2>11. HasRead(h) => disk'[handler'[h].file] = handler'[h].read
    BY DEF HasRead
  <2>12. QED
    BY <1>5, <1>7, <2>1, <2>2, <2>3, <2>4, <2>5, <2>6, <2>7, <2>8, <2>9, <2>10, <2>11 DEF Next, Continue, Ends
<1>8. QED
  BY <1>6, <1>7

-----------------------------------------------------------------------------
(* Without overlapping calls.                                               *)

InOrder == Alone /\ Cancellable /\ Fresh /\ NotRun /\ DueAsRead

(* Others change a file.                                                    *)
LEMMA ChangeInOrder ==
    ASSUME Shapes, Down, InOrder, NEW f \in Files, NEW content, ChangeFile(f, content)
    PROVE  InOrder'
<1>1. UNCHANGED <<due, up, knownFiles, handler, armed, timers, crons, ran>>
  BY Changes
<1>2. Alone' /\ Cancellable' /\ NotRun'
  BY <1>1 DEF InOrder, Alone, Cancellable, NotRun
<1>3. \A g \in Files : g # f => disk'[g] = disk[g] /\ changed'[g] = changed[g]
  BY Changes
<1>4. changed'[f] = up
  BY Changes
<1>5. ASSUME NEW job \in armed
      PROVE  /\ changed'[job.file] \/ disk'[job.file] = job.event
             /\ "late" \notin happened' /\ job.event.kind = "oneshot" /\ job.event.n \in due => ~changed'[job.file]
  <2>1. job.file \in Files
    BY ShapesParts
  <2>2. up
    BY Working DEF Shapes, TypeOK
  <2>3. "late" \notin happened' => ~IsDue(job, f) /\ "late" \notin happened
    BY Changes
  <2>4. /\ changed[job.file] \/ disk[job.file] = job.event
        /\ "late" \notin happened /\ job.event.kind = "oneshot" /\ job.event.n \in due => ~changed[job.file]
    BY DEF InOrder, Fresh, DueAsRead
  <2>5. QED
    BY <1>3, <1>4, <2>1, <2>2, <2>3, <2>4 DEF IsDue
<1>6. ASSUME NEW h \in Handlers, handler[h].at = "read"
      PROVE  changed'[handler[h].file] \/ disk'[handler[h].file] = handler[h].read
  <2>1. handler[h].file \in Files
    BY <1>6, ShapesParts DEF Shapes, CallsFit
  <2>2. up
    BY <2>1, Working DEF Shapes, TypeOK
  <2>3. changed[handler[h].file] \/ disk[handler[h].file] = handler[h].read
    BY <1>6 DEF InOrder, Fresh
  <2>4. QED
    BY <1>3, <1>4, <2>1, <2>2, <2>3
<1>7. Fresh' /\ DueAsRead'
  BY <1>1, <1>5, <1>6 DEF Fresh, DueAsRead
<1>8. QED
  BY <1>2, <1>7 DEF InOrder

(* Time passes.                                                             *)
LEMMA DueInOrder ==
    ASSUME InOrder, NEW n \in 1 .. MaxWrites, ComesDue(n)
    PROVE  InOrder'
<1>1. UNCHANGED <<disk, changed, knownFiles, handler, armed, timers, crons, ran>> /\ due' = due \cup {n}
  BY DEF ComesDue
<1>2. Alone' /\ Cancellable' /\ Fresh' /\ NotRun'
  BY <1>1 DEF InOrder, Alone, Cancellable, Fresh, NotRun
<1>3. "late" \notin happened' =>
         "late" \notin happened /\ \A job \in armed : job.event.n = n => ~changed[job.file]
  BY DEF ComesDue
<1>4. DueAsRead'
  BY <1>1, <1>3 DEF InOrder, DueAsRead
<1>5. QED
  BY <1>2, <1>4 DEF InOrder

(* The watcher starts or stops: no jobs, and calls that have read nothing.  *)
LEMMA StartInOrder ==
    ASSUME Shapes, Down, Start \/ Stop
    PROVE  InOrder'
<1>1. armed' = {}
  <2>1. CASE Start
    BY <2>1, Working DEF Start, Shapes, TypeOK
  <2>2. CASE Stop
    BY <2>2 DEF Stop
  <2>3. QED
    BY <2>1, <2>2
<1>2. \A h \in Handlers : handler'[h].at # "read" /\ handler'[h].read = Nil
  BY CallKinds DEF Start, Stop, Scanned
<1>3. Nil \notin ran'
  BY NilIsNone DEF Start, Stop, Shapes, TypeOK
<1>4. \A h, g \in Handlers : handler'[h].file = handler'[g].file /\ handler'[h].file # Nil => h = g
  <2>1. CASE Stop
    BY <2>1, CallKinds DEF Stop
  <2>2. CASE Start
    <3>1. \A h \in Handlers : handler'[h].file = Nil \/ handler'[h].file \in Scanned
      BY <2>2, CallKinds DEF Start, Scanned
    <3>2. \A f \in Scanned : \E h \in Handlers : \A g \in Handlers : handler'[g].file = f <=> g = h
      BY <2>2 DEF Start
    <3>3. QED
      BY <3>1, <3>2
  <2>3. QED
    BY <2>1, <2>2
<1>5. QED
  BY <1>1, <1>2, <1>3, <1>4 DEF InOrder, Alone, Cancellable, Fresh, NotRun, DueAsRead

(* A change is heard of: what was scheduled for the file is cancelled.      *)
LEMMA HeardInOrder ==
    ASSUME Shapes, InOrder, NEW f \in Files, HandleFileChange(f), "overlap" \notin happened'
    PROVE  InOrder'
<1>1. /\ armed' \subseteq armed /\ \A job \in armed' : job.file # f
  <2>1. armed' \subseteq armed
    BY Heard
  <2>2. ASSUME NEW job \in armed', job.file = f
        PROVE  FALSE
    <3>1. f \in knownFiles /\ job \in {timers[f], crons[f]}
      BY <2>1, <2>2 DEF InOrder, Cancellable
    <3>2. armed' = armed \ {timers[f], crons[f]}
      BY <3>1, Heard
    <3>3. QED
      BY <3>1, <3>2
  <2>3. QED
    BY <2>1, <2>2
<1>2. \A h \in Handlers : handler[h].file # f
  BY Heard
<1>3. \A h \in Handlers : Untouched(h) \/ Begins(h, f)
  BY Heard
<1>4. \A h, g \in Handlers : Begins(h, f) /\ Begins(g, f) => h = g
  BY Heard
<1>5. \A job \in armed' : job.file \in Files
  BY <1>1, ShapesParts
<1>6. /\ disk' = disk /\ ran' = ran /\ due' = due
      /\ \A g \in Files : g # f => changed'[g] = changed[g]
      /\ \A g \in Files : g # f => /\ timers'[g] = timers[g] /\ crons'[g] = crons[g]
                                   /\ g \in knownFiles' <=> g \in knownFiles
  BY Heard
<1>7. happened \subseteq happened'
  BY DEF HandleFileChange
<1>8. Alone'
  <2>1. \A h, g \in Handlers : handler'[h].file = handler'[g].file /\ handler'[h].file # Nil => h = g
    BY <1>2, <1>3, <1>4 DEF InOrder, Alone, Untouched, Begins
  <2>2. \A h \in Handlers, job \in armed' : job.file # handler'[h].file
    BY <1>1, <1>3 DEF InOrder, Alone, Untouched, Begins
  <2>3. \A j, k \in armed' : j.file = k.file => j = k
    BY <1>1 DEF InOrder, Alone
  <2>4. QED
    BY <2>1, <2>2, <2>3 DEF Alone
<1>9. Cancellable' /\ DueAsRead'
  BY <1>1, <1>5, <1>6, <1>7 DEF InOrder, Cancellable, DueAsRead
<1>10. Nil \notin ran
  BY NilIsNone DEF Shapes, TypeOK
<1>11. NotRun'
  BY <1>1, <1>3, <1>6, <1>10 DEF InOrder, NotRun, Untouched, Begins
<1>12. Fresh'
  <2>1. \A job \in armed' : changed'[job.file] \/ disk'[job.file] = job.event
    BY <1>1, <1>5, <1>6 DEF InOrder, Fresh
  <2>2. ASSUME NEW h \in Handlers, handler'[h].at = "read"
        PROVE  changed'[handler'[h].file] \/ disk'[handler'[h].file] = handler'[h].read
    <3>1. handler'[h] = handler[h]
      BY <1>3, <2>2 DEF Untouched, Begins
    <3>2. handler[h].file \in Files /\ handler[h].file # f
      BY <1>2, <2>2, <3>1, ShapesParts DEF Shapes, CallsFit
    <3>3. QED
      BY <1>6, <2>2, <3>1, <3>2 DEF InOrder, Fresh
  <2>3. QED
    BY <2>1, <2>2 DEF Fresh
<1>13. QED
  BY <1>8, <1>9, <1>11, <1>12 DEF InOrder

(* A file is read, or read again.                                           *)
LEMMA ReadInOrder ==
    ASSUME Shapes, InOrder, Gone, NEW h \in Handlers, Read(h) \/ TryAgain(h)
    PROVE  InOrder'
<1>1. UNCHANGED <<disk, changed, due, knownFiles, armed, timers, crons, ran, happened>>
  BY DEF Read, TryAgain
<1>2. \A g \in Handlers : handler'[g].file = handler[g].file
  BY Reads, Retries DEF Untouched, HasRead
<1>3. Alone' /\ Cancellable' /\ DueAsRead'
  BY <1>1, <1>2 DEF InOrder, Alone, Cancellable, DueAsRead
<1>4. handler[h].file \in Files
  BY Reads, Retries
<1>5. /\ handler'[h].at = "read" => handler'[h].read = disk[handler[h].file]
      /\ handler'[h].read \in {disk[handler[h].file], Nil}
      /\ \A g \in Handlers : g # h => handler'[g] = handler[g]
  BY Reads, Retries DEF Untouched, HasRead
<1>6. Nil \notin ran /\ disk[handler[h].file] \notin ran
  BY <1>4, NilIsNone DEF Gone, Shapes, TypeOK
<1>7. Fresh' /\ NotRun'
  BY <1>1, <1>2, <1>5, <1>6 DEF InOrder, Fresh, NotRun
<1>8. QED
  BY <1>3, <1>7 DEF InOrder

(* What a call that ends has queued or scheduled.                           *)
QueuesAtMost(c) ==
    /\ UNCHANGED <<armed, timers, crons>>
    /\ \A e \in ran' : e \in ran \/ e = c
Schedules(f, c) ==
    /\ c \in Contents /\ KeepFile(f) /\ UNCHANGED ran
    /\ NewJob(f, c).file = f /\ NewJob(f, c).event = c
    /\ armed' = armed \cup {NewJob(f, c)}
    /\ NewJob(f, c) \in {timers'[f], crons'[f]}
    /\ \A g \in Files : g # f => timers'[g] = timers[g] /\ crons'[g] = crons[g]
    /\ c.kind = "oneshot" => c.n \notin due

LEMMA Outcomes ==
    ASSUME Shapes, NEW h \in Handlers, NEW f \in Files, NEW c \in Contents \cup {Nil}, Ends(h, f, c)
    PROVE  QueuesAtMost(c) \/ Schedules(f, c)
<1>1. CASE GiveUp(h, f, c)
  BY <1>1 DEF GiveUp, NotExecuted, QueuesAtMost
<1>2. CASE HandleImmediate(h, f, c)
  BY <1>2 DEF HandleImmediate, NotExecuted, Execute, QueuesAtMost
<1>3. timers \in [Files -> armed \cup {Nil}] /\ crons \in [Files -> armed \cup {Nil}]
  BY DEF Shapes, TypeOK
<1>4. c \in Contents => NewJob(f, c).file = f /\ NewJob(f, c).event = c
  BY NewJobIsNew DEF Shapes, JobsFit
<1>5. CASE HandleOneShot(h, f, c)
  <2>1. c \in Contents /\ ran' = ran /\ crons' = crons /\ c.kind = "oneshot"
    BY <1>5 DEF HandleOneShot, NotExecuted
  <2>2. CASE UNCHANGED <<armed, timers>>
    BY <2>1, <2>2 DEF QueuesAtMost
  <2>3. CASE /\ c.n \notin due /\ KeepFile(f) /\ armed' = armed \cup {NewJob(f, c)}
             /\ timers' = [timers EXCEPT ![f] = NewJob(f, c)]
    BY <1>3, <1>4, <2>1, <2>3 DEF Schedules
  <2>4. QED
    BY <1>5, <2>2, <2>3 DEF HandleOneShot
<1>6. CASE HandlePeriodic(h, f, c)
  <2>1. c \in Contents /\ ran' = ran /\ timers' = timers
    BY <1>6 DEF HandlePeriodic, NotExecuted
  <2>2. CASE UNCHANGED <<armed, crons>>
    BY <2>1, <2>2 DEF QueuesAtMost
  <2>3. CASE /\ c.kind = "periodic" /\ KeepFile(f) /\ armed' = armed \cup {NewJob(f, c)}
             /\ crons' = [crons EXCEPT ![f] = NewJob(f, c)]
    BY <1>3, <1>4, <2>1, <2>3 DEF Schedules
  <2>4. QED
    BY <1>6, <2>2, <2>3 DEF HandlePeriodic
<1>7. QED
  BY <1>1, <1>2, <1>5, <1>6 DEF Ends

(* A content that a call or job of one file has is that of no other.        *)
LEMMA OthersDiffer ==
    ASSUME Shapes, Owned, NEW f \in Files, NEW c \in Contents, Holds(f, c)
    PROVE  /\ \A job \in armed : job.file # f => job.event # c
           /\ \A h \in Handlers : handler[h].file # f => handler[h].read # c
<1>1. \A job \in armed : job.file \in Files /\ Holds(job.file, job.event)
  BY ShapesParts DEF Holds
<1>2. \A h \in Handlers : handler[h].read = c => handler[h].file \in Files
  BY ShapesParts, NilIsNone DEF Shapes, CallsFit
<1>3. \A h \in Handlers : handler[h].read = c => Holds(handler[h].file, c)
  BY DEF Holds
<1>4. \A g \in Files : Holds(g, c) => g = f
  BY DEF Owned
<1>5. QED
  BY <1>1, <1>2, <1>3, <1>4

(* A call ends: it was the only one of its file, which had no job.          *)
LEMMA EndsInOrder ==
    ASSUME Shapes, InOrder, Owned, Next,
           NEW h \in Handlers, NEW f \in Files, NEW c \in Contents \cup {Nil}, Ends(h, f, c)
    PROVE  InOrder'
<1>1. handler[h].file = f /\ handler[h].at = "read" /\ handler[h].read = c /\ f # Nil
  BY Finishes, NilIsNone
<1>2. handler'[h].file = Nil /\ handler'[h].at = "idle" /\ handler'[h].read = Nil
  BY Finishes DEF Over
<1>3. \A g \in Handlers : g # h => handler'[g] = handler[g] /\ handler[g].file # f
  BY <1>1, Finishes DEF Untouched, InOrder, Alone
<1>4. \A job \in armed : job.file # f /\ job.file \in Files
  BY <1>1, ShapesParts DEF InOrder, Alone
<1>5. /\ \A g \in Files : g # f => disk'[g] = disk[g] /\ changed'[g] = changed[g]
      /\ \A g \in Files : g # f => (g \in knownFiles' <=> g \in knownFiles)
      /\ due' = due
  BY Finishes
<1>6. happened \subseteq happened'
  BY HappenedGrows
<1>7. Nil \notin ran'
  BY NextShapes, NilIsNone DEF Shapes, TypeOK
<1>8. \A g \in Handlers : handler[g].at = "read" => handler[g].file \in Files
  BY ShapesParts DEF Shapes, CallsFit
<1>9. \A g \in Handlers : handler'[g].at = "read" => changed'[handler'[g].file] \/ disk'[handler'[g].file] = handler'[g].read
  BY <1>2, <1>3, <1>5, <1>8 DEF InOrder, Fresh
<1>10. \A g, k \in Handlers : handler'[g].file = handler'[k].file /\ handler'[g].file # Nil => g = k
  BY <1>2, <1>3 DEF InOrder, Alone
<1>11. \A job \in armed : job.event.kind = "oneshot" /\ job.event.n \in due /\ "late" \notin happened' => ~changed'[job.file]
  BY <1>4, <1>5, <1>6 DEF InOrder, DueAsRead
<1>12. \A job \in armed : changed'[job.file] \/ disk'[job.file] = job.event
  BY <1>4, <1>5 DEF InOrder, Fresh
<1>13. CASE QueuesAtMost(c)
  <2>1. Alone' /\ Cancellable' /\ Fresh' /\ DueAsRead'
    BY <1>2, <1>3, <1>4, <1>5, <1>9, <1>10, <1>11, <1>12, <1>13, NilIsNone
       DEF InOrder, QueuesAtMost, Alone, Cancellable, Fresh, DueAsRead
  <2>2. NotRun'
    <3>1. CASE c = Nil
      BY <1>2, <1>3, <1>7, <1>13, <3>1 DEF InOrder, QueuesAtMost, NotRun
    <3>2. CASE c \in Contents
      <4>1. Holds(f, c)
        BY <1>1 DEF Holds
      <4>2. /\ \A job \in armed : job.event # c
            /\ \A g \in Handlers : g # h => handler[g].read # c
        BY <1>3, <1>4, <3>2, <4>1, OthersDiffer
      <4>3. QED
        BY <1>2, <1>3, <1>7, <1>13, <4>2 DEF InOrder, QueuesAtMost, NotRun
    <3>3. QED
      BY <3>1, <3>2
  <2>3. QED
    BY <2>1, <2>2 DEF InOrder
<1>14. CASE Schedules(f, c)
  <2> DEFINE new == NewJob(f, c)
  <2>1. /\ new.file = f /\ new.event = c /\ armed' = armed \cup {new} /\ new \in {timers'[f], crons'[f]}
        /\ \A g \in Files : g # f => timers'[g] = timers[g] /\ crons'[g] = crons[g]
        /\ c.kind = "oneshot" => c.n \notin due
        /\ disk' = disk /\ changed' = changed /\ ran' = ran /\ knownFiles' = knownFiles \cup {f}
    BY <1>14 DEF Schedules, KeepFile
  <2> HIDE DEF new
  <2>2. Alone' /\ Cancellable'
    BY <1>1, <1>2, <1>3, <1>4, <1>5, <1>10, <2>1, NilIsNone DEF InOrder, Alone, Cancellable
  <2>3. changed[f] \/ disk[f] = c
    BY <1>1 DEF InOrder, Fresh
  <2>4. Fresh' /\ DueAsRead'
    BY <1>5, <1>9, <1>11, <1>12, <2>1, <2>3 DEF Fresh, DueAsRead
  <2>5. NotRun'
    BY <1>1, <1>2, <1>3, <1>7, <2>1 DEF InOrder, NotRun
  <2>6. QED
    BY <2>2, <2>4, <2>5 DEF InOrder
<1>15. QED
  BY <1>13, <1>14, Outcomes

(* A timer fires: it was the only job of its file, which no call has.       *)
LEMMA TimerInOrder ==
    ASSUME Shapes, InOrder, Owned, Next, NEW job \in armed, TimerFires(job)
    PROVE  InOrder'
<1> DEFINE f == job.file
<1>1. f \in Files /\ job.event \in Contents
  BY ShapesParts
<1>2. /\ armed' = armed \ {job} /\ handler' = handler /\ crons' = crons /\ due' = due
      /\ \A g \in Files : g # f => timers'[g] = timers[g]
  BY <1>1 DEF TimerFires, Shapes, TypeOK
<1>3. \A g \in Files : g # f => disk'[g] = disk[g] /\ changed'[g] = changed[g] /\ (g \in knownFiles' <=> g \in knownFiles)
  BY <1>1 DEF TimerFires, DeleteFile, Shapes, TypeOK
<1>4. \A e \in ran' : e \in ran \/ e = job.event
  BY DEF TimerFires, Execute
<1>5. /\ \A other \in armed' : other \in armed /\ other.file # f /\ other.file \in Files
      /\ \A h \in Handlers : handler[h].file # f
  BY <1>2, ShapesParts DEF InOrder, Alone
<1>6. happened \subseteq happened'
  BY HappenedGrows
<1>7. Holds(f, job.event)
  BY DEF Holds
<1> HIDE DEF f
<1>8. /\ \A other \in armed' : other.event # job.event
      /\ \A h \in Handlers : handler[h].read # job.event
  BY <1>1, <1>5, <1>7, OthersDiffer
<1>9. \A h \in Handlers : handler[h].at = "read" => handler[h].file \in Files
  BY ShapesParts DEF Shapes, CallsFit
<1>10. Alone' /\ Cancellable' /\ NotRun'
  BY <1>2, <1>3, <1>4, <1>5, <1>8 DEF InOrder, Alone, Cancellable, NotRun
<1>11. Fresh' /\ DueAsRead'
  BY <1>2, <1>3, <1>5, <1>6, <1>9 DEF InOrder, Fresh, DueAsRead
<1>12. QED
  BY <1>10, <1>11 DEF InOrder

LEMMA OrderlyKept ==
    ASSUME Shapes, Down, Owned, Gone, Orderly, Next
    PROVE  Orderly'
<1>1. SUFFICES ASSUME "overlap" \notin happened'
               PROVE  InOrder'
  BY DEF Orderly, InOrder
<1>2. InOrder
  BY <1>1, HappenedGrows DEF Orderly, InOrder
<1>3. CASE \/ \E f \in Files, kind \in Kinds : WriteFile(f, kind)
           \/ \E f \in Files : RemoveFile(f) \/ TouchFile(f)
  BY <1>2, <1>3, ChangeInOrder DEF WriteFile, RemoveFile, TouchFile
<1>4. CASE \E f \in Files : HandleFileChange(f)
  BY <1>1, <1>2, <1>4, HeardInOrder
<1>5. CASE \E n \in 1 .. MaxWrites : ComesDue(n)
  BY <1>2, <1>5, DueInOrder
<1>6. CASE Start \/ Stop
  BY <1>6, StartInOrder
<1>7. CASE \E h \in Handlers : Read(h) \/ TryAgain(h)
  BY <1>2, <1>7, ReadInOrder
<1>8. CASE \E h \in Handlers, f \in Files, c \in Contents \cup {Nil} : Ends(h, f, c)
  BY <1>2, <1>8, EndsInOrder
<1>9. CASE \E job \in armed : TimerFires(job)
  BY <1>2, <1>9, TimerInOrder
<1>10. QED
  BY <1>3, <1>4, <1>5, <1>6, <1>7, <1>8, <1>9 DEF Next, Continue, Ends

-----------------------------------------------------------------------------
(* The invariant, and what it says of the properties.                       *)

(* What is queued once more was read, or scheduled, after it was queued:    *)
(* calls overlapped.  An immediate event is queued only while its file is   *)
(* there, and what is there was not queued.                                 *)
LEMMA OnceOnlyKept ==
    ASSUME Shapes, Gone, Seen, Orderly, OnceOnly, Next
    PROVE  OnceOnly'
<1>1. \A event \in ranTwice : "overlap" \in happened' /\ (event.kind = "oneshot" \/ "late" \in happened')
  BY HappenedGrows DEF OnceOnly
<1>2. ASSUME ranTwice' = ranTwice
      PROVE  OnceOnly'
  BY <1>1, <1>2 DEF OnceOnly
<1>3. ASSUME NEW event, event.kind = "oneshot" \/ "late" \in happened, event \in ran => "overlap" \in happened, Execute(event)
      PROVE  OnceOnly'
  <2>1. ranTwice' \subseteq ranTwice \cup (ran \cap {event})
    BY <1>3 DEF Execute
  <2>2. QED
    BY <1>1, <1>3, <2>1, HappenedGrows DEF OnceOnly
<1>4. ASSUME NEW h \in Handlers, NEW f \in Files, NEW c \in Contents \cup {Nil}, HandleImmediate(h, f, c)
      PROVE  OnceOnly'
  <2>1. CASE NotExecuted
    BY <1>2, <2>1 DEF NotExecuted
  <2>2. CASE disk[f] # Nil /\ Execute(c)
    <3>1. handler[h].at = "read" /\ handler[h].read = c /\ handler[h].file = f
      BY <1>4 DEF HandleImmediate, Continues
    <3>2. CASE c \in ran
      <4>1. disk[f] # c
        BY <3>2 DEF Gone
      <4>2. "overlap" \in happened /\ "late" \in happened
        BY <2>2, <3>1, <3>2, <4>1 DEF Orderly, NotRun, Seen, SeenAs
      <4>3. QED
        BY <1>3, <2>2, <4>2
    <3>3. CASE c \notin ran
      BY <1>2, <2>2, <3>3 DEF Execute
    <3>4. QED
      BY <3>2, <3>3
  <2>3. QED
    BY <1>4, <2>1, <2>2 DEF HandleImmediate
<1>5. ASSUME NEW job \in armed, TimerFires(job)
      PROVE  OnceOnly'
  <2>1. job.event.kind = "oneshot" /\ Execute(job.event)
    BY <1>5 DEF TimerFires
  <2>2. job.event \in ran => "overlap" \in happened
    BY DEF Orderly, NotRun
  <2>3. QED
    BY <1>3, <2>1, <2>2
<1>6. ASSUME NEW h \in Handlers, NEW f \in Files, NEW c \in Contents \cup {Nil},
             GiveUp(h, f, c) \/ HandleOneShot(h, f, c) \/ HandlePeriodic(h, f, c)
      PROVE  OnceOnly'
  BY <1>2, <1>6 DEF GiveUp, HandleOneShot, HandlePeriodic, NotExecuted
<1>7. ASSUME NEW f \in Files, NEW content, ChangeFile(f, content)
      PROVE  OnceOnly'
  BY <1>2, <1>7 DEF ChangeFile
<1>8. QED
  BY <1>2, <1>4, <1>5, <1>6, <1>7
     DEF Next, Continue, TryAgain, WriteFile, RemoveFile, TouchFile, HandleFileChange, ComesDue, Start, Stop, Read

LEMMA InitInv ==
    ASSUME Init
    PROVE  EventsInv
<1>1. Shapes
  BY InitShapes
<1>2. /\ armed = {} /\ ran = {} /\ ranTwice = {} /\ \A f \in Files : disk[f] = Nil /\ ~changed[f]
      /\ \A h \in Handlers : handler[h].file = Nil /\ handler[h].at = "idle" /\ handler[h].read = Nil
  BY CallKinds DEF Init, NothingScheduled
<1>3. Down /\ Owned /\ Gone /\ Seen /\ OnceOnly
  BY <1>2, NilIsNone DEF Down, Owned, Holds, Gone, Seen, OnceOnly
<1>4. Orderly
  BY <1>2 DEF Orderly, Alone, Cancellable, Fresh, NotRun, DueAsRead
<1>5. QED
  BY <1>1, <1>3, <1>4 DEF EventsInv

LEMMA NextInv ==
    ASSUME EventsInv, [Next]_vars
    PROVE  EventsInv'
<1>1. CASE UNCHANGED vars
  BY <1>1 DEF vars, EventsInv, Shapes, TypeOK, JobsFit, CallsFit, Down, Owned, Holds, Gone, Seen, SeenAs, Orderly,
     Alone, Cancellable, Fresh, NotRun, DueAsRead, OnceOnly
<1>2. CASE Next
  BY <1>2, NextShapes, DownKept, OwnedKept, SeenKept, OrderlyKept, OnceOnlyKept DEF EventsInv
<1>3. QED
  BY <1>1, <1>2

(* The watcher's invariant holds in every behaviour.                        *)
THEOREM EventsInvariant == Spec => []EventsInv
BY InitInv, NextInv, PTL DEF Spec

(* An immediate or one-shot event is queued at most once, over rewrites,    *)
(* retries and restarts of the watcher (EventsWatcher.execute), with the    *)
(* exceptions OnceOnly names.                                               *)
THEOREM QueuedOnce == Spec => []OnceOnly
<1>1. EventsInv => OnceOnly
  BY DEF EventsInv
<1>2. QED
  BY <1>1, EventsInvariant, PTL

(* When nothing is pending for a file, what is scheduled for it is what the *)
(* file says now, once, and can be cancelled (cancelScheduled), as long as  *)
(* no two calls of handleFile for one file overlapped.                      *)
THEOREM SchedulesFollow == Spec => []ScheduleFollowsFiles
<1>1. EventsInv => ScheduleFollowsFiles
  <2>1. SUFFICES ASSUME EventsInv
                 PROVE  ScheduleFollowsFiles
    OBVIOUS
  <2>2. ASSUME "overlap" \notin happened, NEW f \in Files, ~changed[f], NEW job \in armed, job.file = f
        PROVE  job \in {timers[f], crons[f]} /\ disk[f] # Nil /\ job # Nil /\ job.event = disk[f]
    BY <2>1, <2>2, ShapesParts, NilIsNone DEF EventsInv, Orderly, Cancellable, Fresh
  <2>3. QED
    BY <2>1, <2>2 DEF EventsInv, Shapes, ScheduleFollowsFiles, OnlyAsWritten
<1>2. QED
  BY <1>1, EventsInvariant, PTL

(* The watcher deletes no content it has not read (deleteFile), unless      *)
(* calls overlapped or a file changed in the moment it was acted upon.      *)
THEOREM UnreadKept == Spec => UnreadIsKept
<1> DEFINE Read1(f) == \/ \E h \in Handling(f) : handler[h].read = disk[f]
                       \/ \E job \in armed : job.file = f /\ job.event = disk[f]
           Kept1 == \A f \in Files :
                up /\ disk[f] # Nil /\ disk'[f] = Nil /\ ~RemoveFile(f) /\ happened \cap {"overlap", "late"} = {} => Read1(f)
<1>1. ASSUME EventsInv, Next
      PROVE  Kept1
  <2>1. SUFFICES ASSUME NEW f \in Files, disk[f] # Nil, disk'[f] = Nil, ~RemoveFile(f),
                        "overlap" \notin happened, "late" \notin happened
                 PROVE  Read1(f)
    OBVIOUS
  <2>2. Shapes
    BY <1>1 DEF EventsInv
  <2>3. ASSUME NEW g \in Files, NEW content, ChangeFile(g, content)
        PROVE  g = f /\ content = Nil
    BY <2>1, <2>2, <2>3, Changes
  <2>4. ASSUME NEW h \in Handlers, NEW g \in Files, NEW c \in Contents \cup {Nil}, Ends(h, g, c)
        PROVE  Read1(f)
    <3>1. g = f /\ handler[h].file = f /\ handler[h].at = "read"
      BY <2>1, <2>2, <2>4, Finishes
    <3>2. disk[f] = handler[h].read
      BY <1>1, <2>1, <3>1 DEF EventsInv, Seen, SeenAs
    <3>3. QED
      BY <3>1, <3>2 DEF Handling
  <2>5. ASSUME NEW job \in armed, TimerFires(job)
        PROVE  Read1(f)
    <3>1. job.file = f
      BY <2>1, <2>2, <2>5 DEF TimerFires, DeleteFile, Shapes, TypeOK
    <3>2. ~changed[f] /\ (changed[f] \/ disk[f] = job.event)
      BY <1>1, <2>1, <2>5, <3>1 DEF EventsInv, Orderly, DueAsRead, Fresh, TimerFires
    <3>3. QED
      BY <3>1, <3>2
  <2>6. ASSUME NEW g \in Files, NEW kind \in Kinds, WriteFile(g, kind)
        PROVE  FALSE
    <3>1. [n |-> written + 1, kind |-> kind] = Nil
      BY <2>3, <2>6 DEF WriteFile
    <3>2. [n |-> written + 1, kind |-> kind] \in Contents
      BY <2>2, <2>6, BoundsAssumption DEF Shapes, TypeOK, WriteFile, Contents
    <3>3. QED
      BY <3>1, <3>2, NilIsNone
  <2>7. ASSUME NEW g \in Files, RemoveFile(g) \/ TouchFile(g)
        PROVE  FALSE
    BY <2>1, <2>3, <2>7 DEF RemoveFile, TouchFile
  <2>8. disk' # disk
    BY <2>1
  <2>9. QED
    BY <1>1, <2>4, <2>5, <2>6, <2>7, <2>8
       DEF Next, Continue, Ends, TryAgain, HandleFileChange, ComesDue, Start, Stop, Read
<1>2. ASSUME UNCHANGED vars
      PROVE  Kept1
  BY <1>2 DEF vars
<1>3. EventsInv /\ [Next]_vars => [Kept1]_vars
  BY <1>1, <1>2
<1>4. QED
  BY <1>3, EventsInvariant, PTL DEF Spec, UnreadIsKept

-----------------------------------------------------------------------------
(* Sequences, and the sets of their elements.                               *)

LEMMA ElementsOf ==
    ASSUME NEW S, NEW s \in Seq(S)
    PROVE  ToSet(s) = {s[i] : i \in 1 .. Len(s)} /\ ToSet(s) \subseteq S /\ Len(s) \in Nat
BY DEF ToSet

LEMMA ElementsOfAppend ==
    ASSUME NEW S, NEW s \in Seq(S), NEW x \in S
    PROVE  /\ Append(s, x) \in Seq(S) /\ Len(Append(s, x)) = Len(s) + 1
           /\ \A i \in 1 .. Len(s) : Append(s, x)[i] = s[i]
           /\ Append(s, x)[Len(s) + 1] = x
           /\ ToSet(Append(s, x)) = ToSet(s) \cup {x}
BY DEF ToSet

LEMMA ElementsOfBoth ==
    ASSUME NEW S, NEW s \in Seq(S), NEW t \in Seq(S)
    PROVE  /\ s \o t \in Seq(S) /\ Len(s \o t) = Len(s) + Len(t)
           /\ \A i \in 1 .. Len(s) : (s \o t)[i] = s[i]
           /\ \A i \in 1 .. Len(t) : (s \o t)[Len(s) + i] = t[i]
           /\ \A i \in 1 .. Len(s) + Len(t) : (s \o t)[i] = IF i <= Len(s) THEN s[i] ELSE t[i - Len(s)]
           /\ ToSet(s \o t) = ToSet(s) \cup ToSet(t)
<1>1. /\ s \o t \in Seq(S) /\ Len(s \o t) = Len(s) + Len(t) /\ Len(s) \in Nat /\ Len(t) \in Nat
      /\ \A i \in 1 .. Len(s) + Len(t) : (s \o t)[i] = IF i <= Len(s) THEN s[i] ELSE t[i - Len(s)]
  BY ConcatProperties
<1>2. \A i \in 1 .. Len(s) : (s \o t)[i] = s[i]
  BY <1>1
<1>3. \A i \in 1 .. Len(t) : (s \o t)[Len(s) + i] = t[i]
  <2>1. ASSUME NEW i \in 1 .. Len(t)
        PROVE  (s \o t)[Len(s) + i] = t[i]
    <3>1. Len(s) + i \in 1 .. Len(s) + Len(t) /\ ~(Len(s) + i <= Len(s)) /\ Len(s) + i - Len(s) = i
      BY <1>1
    <3>2. QED
      BY <1>1, <3>1
  <2>2. QED
    BY <2>1
<1>4. ToSet(s \o t) = {(s \o t)[i] : i \in 1 .. Len(s) + Len(t)} /\ ToSet(s) = {s[i] : i \in 1 .. Len(s)}
      /\ ToSet(t) = {t[i] : i \in 1 .. Len(t)}
  BY <1>1, ElementsOf
<1>5. ToSet(s \o t) \subseteq ToSet(s) \cup ToSet(t)
  <2>1. ASSUME NEW i \in 1 .. Len(s) + Len(t)
        PROVE  (s \o t)[i] \in ToSet(s) \cup ToSet(t)
    <3>1. CASE i <= Len(s)
      BY <1>1, <1>4, <3>1
    <3>2. CASE ~(i <= Len(s))
      <4>1. i - Len(s) \in 1 .. Len(t)
        BY <1>1, <3>2
      <4>2. QED
        BY <1>1, <1>4, <3>2, <4>1
    <3>3. QED
      BY <3>1, <3>2
  <2>2. QED
    BY <1>4, <2>1
<1>6. ToSet(s) \cup ToSet(t) \subseteq ToSet(s \o t)
  <2>1. \A i \in 1 .. Len(s) : i \in 1 .. Len(s) + Len(t)
    BY <1>1
  <2>2. \A i \in 1 .. Len(t) : Len(s) + i \in 1 .. Len(s) + Len(t)
    BY <1>1
  <2>3. QED
    BY <1>2, <1>3, <1>4, <2>1, <2>2
<1>7. QED
  BY <1>1, <1>2, <1>3, <1>5, <1>6

LEMMA ElementsOfRest ==
    ASSUME NEW S, NEW s \in Seq(S), NEW i \in 1 .. Len(s)
    PROVE  /\ RemoveAt(s, i) \in Seq(S) /\ Len(RemoveAt(s, i)) = Len(s) - 1
           /\ \A j \in 1 .. Len(s) - 1 : RemoveAt(s, i)[j] = IF j < i THEN s[j] ELSE s[j + 1]
<1> DEFINE front == SubSeq(s, 1, i - 1)
           back == SubSeq(s, i + 1, Len(s))
<1>1. Len(s) \in Nat /\ i \in Int
  OBVIOUS
<1>2. front \in Seq(S) /\ Len(front) = i - 1 /\ \A j \in 1 .. i - 1 : front[j] = s[j]
  <2>1. \A j \in 1 .. i - 1 : s[j] \in S
    BY <1>1
  <2>2. QED
    BY <1>1, <2>1, SubSeqProperties
<1>3. back \in Seq(S) /\ Len(back) = Len(s) - i /\ \A j \in 1 .. Len(s) - i : back[j] = s[i + j]
  <2>1. \A j \in i + 1 .. Len(s) : s[j] \in S
    BY <1>1
  <2>2. /\ back \in Seq(S)
        /\ Len(back) = IF i + 1 <= Len(s) THEN Len(s) - (i + 1) + 1 ELSE 0
        /\ \A j \in 1 .. Len(s) - (i + 1) + 1 : back[j] = s[i + 1 + j - 1]
    BY <1>1, <2>1, SubSeqProperties
  <2> HIDE DEF back
  <2>3. Len(back) = Len(s) - i
    BY <1>1, <2>2
  <2>4. \A j \in 1 .. Len(s) - i : i + 1 + j - 1 = i + j /\ j \in 1 .. Len(s) - (i + 1) + 1
    BY <1>1
  <2>5. QED
    BY <2>2, <2>3, <2>4
<1>4. RemoveAt(s, i) = front \o back
  BY DEF RemoveAt
<1> HIDE DEF front, back
<1>5. /\ RemoveAt(s, i) \in Seq(S) /\ Len(RemoveAt(s, i)) = Len(s) - 1
      /\ \A j \in 1 .. Len(s) - 1 : RemoveAt(s, i)[j] = IF j <= i - 1 THEN front[j] ELSE back[j - (i - 1)]
  <2>1. Len(front) + Len(back) = Len(s) - 1
    BY <1>1, <1>2, <1>3
  <2>2. QED
    BY <1>2, <1>3, <1>4, <2>1, ElementsOfBoth
<1>6. ASSUME NEW j \in 1 .. Len(s) - 1
      PROVE  RemoveAt(s, i)[j] = IF j < i THEN s[j] ELSE s[j + 1]
  <2>1. CASE j < i
    <3>1. j <= i - 1 /\ j \in 1 .. i - 1
      BY <1>1, <2>1
    <3>2. QED
      BY <1>2, <1>5, <2>1, <3>1
  <2>2. CASE ~(j < i)
    <3>1. ~(j <= i - 1) /\ j - (i - 1) \in 1 .. Len(s) - i /\ i + (j - (i - 1)) = j + 1
      BY <1>1, <2>2
    <3>2. QED
      BY <1>3, <1>5, <2>2, <3>1
  <2>3. QED
    BY <2>1, <2>2
<1>7. QED
  BY <1>5, <1>6

(* A sorted set.                                                            *)
LEMMA SortedElements ==
    ASSUME NEW set, set \subseteq Nat, IsFiniteSet(set), NEW s \in Sorted(set)
    PROVE  /\ s \in Seq(set) /\ Len(s) = Cardinality(set) /\ ToSet(s) = set
           /\ \A i, j \in 1 .. Len(s) : s[i] = s[j] => i = j
<1> DEFINE n == Cardinality(set)
<1>1. n \in Nat
  BY FS_CardinalityType
<1>2. s \in [1 .. n -> set] /\ \A i, j \in 1 .. n : i < j => s[i] < s[j]
  BY DEF Sorted
<1> HIDE DEF n
<1>3. s \in Seq(set) /\ Len(s) = n
  BY <1>1, <1>2
<1>4. ASSUME NEW i \in 1 .. n, NEW j \in 1 .. n, s[i] = s[j]
      PROVE  i = j
  <2>1. s[i] \in Nat /\ s[j] \in Nat
    BY <1>2
  <2>2. ~(i < j) /\ ~(j < i)
    BY <1>2, <1>4, <2>1
  <2>3. QED
    BY <1>1, <2>2
<1>5. s \in Injection(1 .. n, set)
  BY <1>2, <1>4 DEF Injection, IsInjective
<1>6. Cardinality(1 .. n) = n
  BY <1>1, FS_Interval
<1>7. s \in Surjection(1 .. n, set)
  BY <1>5, <1>6, FS_Injection DEF n
<1>8. ToSet(s) = set
  BY <1>2, <1>7 DEF Surjection, ToSet
<1>9. QED
  BY <1>3, <1>4, <1>8 DEF n

(* The first place of a sequence with some property.                        *)
LEMMA FirstPlace ==
    ASSUME NEW T \in SUBSET Nat, T # {}
    PROVE  \E i \in T : \A j \in T : i <= j
<1>1. \E i \in T : \A j \in T : ~(<<j, i>> \in OpToRel(<, Nat))
  BY NatLessThanWellFounded, WFMin
<1>2. PICK i \in T : \A j \in T : ~(<<j, i>> \in OpToRel(<, Nat))
  BY <1>1
<1>3. \A j \in T : ~(j < i)
  BY <1>2 DEF OpToRel
<1>4. QED
  BY <1>3

-----------------------------------------------------------------------------
(* The inductive invariant.                                                 *)

(* What is logged or delivered was posted, and is delivered in its order.   *)
Numbered ==
    /\ ToSet(log) \cup ToSet(pending) \cup synced \subseteq 1 .. Len(posted)
    /\ startupTs <= Len(posted) /\ unasked <= Len(posted)
    /\ \A i, j \in 1 .. Len(pending) : i < j => pending[i] < pending[j]

(* Something is worked on while a run is under way, and the message a run   *)
(* is for was logged.                                                       *)
RunFits ==
    /\ phase = "none" <=> work = NoWork
    /\ work # NoWork /\ work.type = "user" => work.n \in ToSet(log)
    /\ conn = "down" => work = NoWork

Basics == ChannelTypeOK /\ Numbered /\ RunFits /\ OnlyEventsWait

(* Until a crash what is delivered was not logged yet.                      *)
LoggedOnce ==
    "crash" \notin occurred =>
        /\ \A i, j \in 1 .. Len(log) : log[i] = log[j] => i = j
        /\ ToSet(log) \cap ToSet(pending) = {}
        /\ conn # "up" => pending = <<>>

(* While everything comes in time the log has no gaps, and what it lacks at *)
(* its end will be delivered.                                               *)
InTime == occurred \cap {"gap", "manyMissed", "reordered"} = {}
NoGaps == \A m \in ToSet(log), n \in 1 .. Len(posted) : unasked < n /\ n <= m => n \in ToSet(log)
NothingLacks ==
    \A n \in 1 .. Len(posted) :
        unasked < n => /\ conn = "up" => n \in ToSet(log) \cup ToSet(pending)
                       /\ conn = "backfilled" => n \in ToSet(log)
LogFollows == InTime => NoGaps /\ NothingLacks

(* What is accepted for a run was not logged before.                        *)
NewIsNew == conn = "up" => \A n \in ToSet(pending) : n > startupTs => n \notin ToSet(log)

(* After the sync the context has all but the prompt.                       *)
SyncedKnown == phase = "synced" => \A n \in synced : IsPrompt(n) \/ SyncText(n) \in ToSet(context)

(* A text is in the context no more often than it was said, and less often  *)
(* while it is still to be prompted.                                        *)
Places(seq, text) == {i \in 1 .. Len(seq) : seq[i] = text}
Saying(text) == {n \in ToSet(log) : PromptText(n) = text}
Asking(text) == phase \in {"starting", "synced"} /\ work.type = "user" /\ PromptText(work.n) = text
ByName(text) == text \in ContextTexts /\ text[1] = "name"
RoomForPrompt ==
    \A text : ByName(text) =>
        Cardinality(Places(context, text)) + (IF Asking(text) THEN 1 ELSE 0) <= Cardinality(Saying(text))

ChannelInv ==
    /\ Basics /\ LoggedOnce /\ LogFollows /\ NewIsNew
    /\ SyncedKnown /\ AllIsKnown /\ RoomForPrompt

-----------------------------------------------------------------------------
(* Types.                                                                   *)

LEMMA BoundsTyped ==
    /\ MaxMessages \in Nat /\ MaxEvents \in Nat /\ QueueLimit \in Nat /\ PageLimit \in Nat /\ MaxStarts \in Nat
    /\ NoWork \notin Works
BY ChannelBoundsAssumption, NoWorkAssumption

(* Messages and their texts.                                                *)
LEMMA PostedParts ==
    ASSUME Basics
    PROVE  /\ Len(posted) \in 0 .. MaxMessages /\ posted \in Seq(Messages) /\ 1 .. Len(posted) \subseteq Numbers
           /\ \A n \in 1 .. Len(posted) : /\ posted[n] \in Messages
                                          /\ SyncText(n) \in ContextTexts /\ PromptText(n) \in ContextTexts
           /\ ToSet(log) \subseteq 1 .. Len(posted) /\ ToSet(pending) \subseteq 1 .. Len(posted)
           /\ synced \subseteq 1 .. Len(posted)
           /\ log \in Seq(Numbers) /\ pending \in Seq(Numbers) /\ context \in Seq(ContextTexts)
<1>1. /\ posted \in Seq(Messages) /\ Len(posted) \in 0 .. MaxMessages /\ log \in Seq(Numbers)
      /\ pending \in Seq(Numbers) /\ context \in Seq(ContextTexts)
  BY DEF Basics, ChannelTypeOK
<1>2. \A n \in 1 .. Len(posted) : posted[n] \in Messages
  BY <1>1
<1>3. \A n \in 1 .. Len(posted) : SyncText(n) \in ContextTexts /\ PromptText(n) \in ContextTexts
  BY <1>2 DEF Messages, ContextTexts, SyncText, PromptText
<1>4. 1 .. Len(posted) \subseteq Numbers
  BY <1>1, BoundsTyped DEF Numbers
<1>5. QED
  BY <1>1, <1>2, <1>3, <1>4 DEF Basics, Numbered

(* More messages leave the texts of the others as they are.                 *)
LEMMA Posting ==
    ASSUME Basics, NEW message \in Messages, Post(message)
    PROVE  /\ Len(posted') = Len(posted) + 1 /\ posted' \in Seq(Messages) /\ Len(posted') <= MaxMessages
           /\ \A n \in 1 .. Len(posted) : /\ posted'[n] = posted[n]
                                          /\ SyncText(n)' = SyncText(n) /\ PromptText(n)' = PromptText(n)
           /\ pending' = pending \/ (pending' = Append(pending, Len(posted) + 1) /\ conn = "up")
           /\ occurred \subseteq occurred' /\ occurred' \subseteq occurred \cup {"gap", "stranger"}
           /\ conn = "backfilled" => "gap" \in occurred'
           /\ conn = "up" => pending' = Append(pending, Len(posted) + 1)
<1>1. posted \in Seq(Messages) /\ Len(posted) \in Nat /\ posted' = Append(posted, message) /\ Len(posted) < MaxMessages
  BY PostedParts DEF Post
<1>2. /\ Len(posted') = Len(posted) + 1 /\ posted' \in Seq(Messages)
      /\ \A n \in 1 .. Len(posted) : posted'[n] = posted[n]
  BY <1>1, ElementsOfAppend
<1>3. Len(posted') <= MaxMessages
  BY <1>1, <1>2, BoundsTyped
<1>4. \A n \in 1 .. Len(posted) : SyncText(n)' = SyncText(n) /\ PromptText(n)' = PromptText(n)
  BY <1>2 DEF SyncText, PromptText
<1>5. /\ pending' = pending \/ (pending' = Append(pending, Len(posted) + 1) /\ conn = "up")
      /\ conn = "up" => pending' = Append(pending, Len(posted) + 1)
  BY DEF Post
<1>6. /\ occurred \subseteq occurred' /\ occurred' \subseteq occurred \cup {"gap", "stranger"}
      /\ conn = "backfilled" => "gap" \in occurred'
  BY DEF Post
<1>7. QED
  BY <1>2, <1>3, <1>4, <1>5, <1>6

(* Steps that post nothing leave the texts alone.                           *)
LEMMA TextsStay ==
    ASSUME posted' = posted
    PROVE  \A n : SyncText(n)' = SyncText(n) /\ PromptText(n)' = PromptText(n)
BY DEF SyncText, PromptText

(* What a backfill fetches.                                                 *)
LEMMA Fetching ==
    ASSUME Basics, Backfill
    PROVE  \E fetched \in Seq(Numbers) :
              /\ log' = log \o fetched /\ log' \in Seq(Numbers)
              /\ ToSet(fetched) = Fetched /\ ToSet(log') = ToSet(log) \cup Fetched
              /\ Fetched \subseteq Missed /\ Missed \subseteq 1 .. Len(posted)
              /\ \A i, j \in 1 .. Len(fetched) : fetched[i] = fetched[j] => i = j
<1>1. PICK fetched \in Sorted(Fetched) : log' = log \o fetched
  BY DEF Backfill
<1>2. Fetched \subseteq Missed /\ Missed \subseteq 1 .. Len(posted)
  BY DEF Fetched, Missed
<1>3. 1 .. Len(posted) \subseteq Nat /\ IsFiniteSet(1 .. Len(posted)) /\ 1 .. Len(posted) \subseteq Numbers
  <2>1. Len(posted) \in Int /\ 1 .. Len(posted) \subseteq Numbers
    BY PostedParts
  <2>2. QED
    BY <2>1, FS_Interval
<1>4. IsFiniteSet(Fetched) /\ Fetched \subseteq Nat /\ Fetched \subseteq Numbers
  BY <1>2, <1>3, FS_Subset
<1>5. /\ fetched \in Seq(Fetched) /\ ToSet(fetched) = Fetched
      /\ \A i, j \in 1 .. Len(fetched) : fetched[i] = fetched[j] => i = j
  BY <1>4, SortedElements
<1>6. fetched \in Seq(Numbers)
  BY <1>4, <1>5, SeqMonotonic
<1>7. log' \in Seq(Numbers) /\ ToSet(log') = ToSet(log) \cup Fetched
  BY <1>1, <1>5, <1>6, PostedParts, ElementsOfBoth
<1>8. QED
  BY <1>1, <1>2, <1>5, <1>6, <1>7

(* A message arrives.                                                       *)
LEMMA Receiving ==
    ASSUME Basics, NEW i \in 1 .. Len(pending), Receive(i)
    PROVE  /\ pending[i] \in 1 .. Len(posted) /\ pending[i] \in ToSet(pending) /\ conn = "up"
           /\ log' = Append(log, pending[i]) /\ log' \in Seq(Numbers)
           /\ ToSet(log') = ToSet(log) \cup {pending[i]}
           /\ pending' \in Seq(Numbers) /\ Len(pending') = Len(pending) - 1
           /\ \A j \in 1 .. Len(pending) - 1 : pending'[j] = IF j < i THEN pending[j] ELSE pending[j + 1]
           /\ ToSet(pending') = ToSet(pending) \ {pending[i]}
           /\ \A j, k \in 1 .. Len(pending') : j < k => pending'[j] < pending'[k]
<1>1. pending \in Seq(Numbers) /\ log \in Seq(Numbers) /\ ToSet(pending) \subseteq 1 .. Len(posted) /\ Len(pending) \in Nat
  BY PostedParts
<1>2. pending[i] \in ToSet(pending) /\ pending[i] \in Numbers /\ pending[i] \in 1 .. Len(posted)
  BY <1>1, ElementsOf
<1>3. conn = "up" /\ log' = Append(log, pending[i]) /\ pending' = RemoveAt(pending, i)
  BY DEF Receive, Logged
<1>4. log' \in Seq(Numbers) /\ ToSet(log') = ToSet(log) \cup {pending[i]}
  BY <1>1, <1>2, <1>3, ElementsOfAppend
<1>5. /\ pending' \in Seq(Numbers) /\ Len(pending') = Len(pending) - 1
      /\ \A j \in 1 .. Len(pending) - 1 : pending'[j] = IF j < i THEN pending[j] ELSE pending[j + 1]
  BY <1>1, <1>3, ElementsOfRest
<1>6. \A j, k \in 1 .. Len(pending) : j < k => pending[j] < pending[k]
  BY DEF Basics, Numbered
<1>7. ASSUME NEW j \in 1 .. Len(pending)
      PROVE  pending[j] \in Nat
  <2>1. pending[j] \in ToSet(pending)
    BY <1>1, ElementsOf
  <2>2. pending[j] \in 1 .. Len(posted)
    BY <1>1, <2>1
  <2>3. QED
    BY <2>2
<1>8. ASSUME NEW j \in 1 .. Len(pending'), NEW k \in 1 .. Len(pending'), j < k
      PROVE  pending'[j] < pending'[k]
  <2>1. /\ j \in 1 .. Len(pending) - 1 /\ k \in 1 .. Len(pending) - 1
        /\ j \in 1 .. Len(pending) /\ k \in 1 .. Len(pending)
        /\ j + 1 \in 1 .. Len(pending) /\ k + 1 \in 1 .. Len(pending) /\ j < k + 1 /\ j + 1 < k + 1
    BY <1>1, <1>5, <1>8
  <2>2. CASE k < i
    <3>1. j < i
      BY <1>8, <2>1, <2>2
    <3>2. pending'[j] = pending[j] /\ pending'[k] = pending[k]
      BY <1>5, <2>1, <2>2, <3>1
    <3>3. QED
      BY <1>6, <1>8, <2>1, <3>2
  <2>3. CASE ~(k < i)
    <3>1. pending'[j] \in {pending[j], pending[j + 1]} /\ pending'[k] = pending[k + 1]
      BY <1>5, <2>1, <2>3
    <3>2. QED
      BY <1>6, <2>1, <3>1
  <2>4. QED
    BY <2>2, <2>3
<1>9. ToSet(pending') = ToSet(pending) \ {pending[i]}
  <2>1. ToSet(pending') = {pending'[j] : j \in 1 .. Len(pending) - 1} /\ ToSet(pending) = {pending[j] : j \in 1 .. Len(pending)}
    BY <1>1, <1>5, ElementsOf
  <2>2. ASSUME NEW j \in 1 .. Len(pending) - 1
        PROVE  pending'[j] \in ToSet(pending) /\ pending'[j] # pending[i]
    <3>1. j \in 1 .. Len(pending) /\ j + 1 \in 1 .. Len(pending)
      BY <1>1
    <3>2. CASE j < i
      BY <1>5, <1>6, <1>7, <2>1, <3>1, <3>2
    <3>3. CASE ~(j < i)
      <4>1. pending'[j] = pending[j + 1] /\ i < j + 1
        BY <1>5, <3>3
      <4>2. pending[i] < pending[j + 1]
        BY <1>6, <3>1, <4>1
      <4>3. QED
        BY <1>7, <2>1, <3>1, <4>1, <4>2
    <3>4. QED
      BY <3>2, <3>3
  <2>3. ASSUME NEW j \in 1 .. Len(pending), pending[j] # pending[i]
        PROVE  pending[j] \in ToSet(pending')
    <3>1. CASE j < i
      <4>1. j \in 1 .. Len(pending) - 1 /\ pending'[j] = pending[j]
        BY <1>1, <1>5, <3>1
      <4>2. QED
        BY <2>1, <4>1
    <3>2. CASE i < j
      <4>1. j - 1 \in 1 .. Len(pending) - 1 /\ ~(j - 1 < i) /\ j - 1 + 1 = j
        BY <1>1, <3>2
      <4>2. pending'[j - 1] = pending[j]
        BY <1>5, <4>1
      <4>3. QED
        BY <2>1, <4>1, <4>2
    <3>3. QED
      BY <2>3, <3>1, <3>2
  <2>4. QED
    BY <2>1, <2>2, <2>3
<1>10. QED
  BY <1>2, <1>3, <1>4, <1>5, <1>8, <1>9

LEMMA PostBasics ==
    ASSUME Basics, NEW message \in Messages, Post(message)
    PROVE  Basics'
<1>1. UNCHANGED <<conn, starts, startupTs, unasked, log, context, flushed, queue, work, phase, synced, events>>
  BY DEF Post, fileVars, runVars
<1>2. /\ Len(posted') = Len(posted) + 1 /\ posted' \in Seq(Messages) /\ Len(posted') <= MaxMessages
      /\ pending' = pending \/ pending' = Append(pending, Len(posted) + 1)
      /\ occurred' \subseteq occurred \cup {"gap", "stranger"}
  BY Posting
<1>3. Len(posted) \in Nat /\ pending \in Seq(Numbers) /\ ToSet(pending) \subseteq 1 .. Len(posted)
  BY PostedParts
<1>4. /\ pending' \in Seq(Numbers) /\ ToSet(pending') \subseteq 1 .. Len(posted) + 1
      /\ \A i, j \in 1 .. Len(pending') : i < j => pending'[i] < pending'[j]
  <2>1. CASE pending' = pending
    BY <1>3, <2>1 DEF Basics, Numbered
  <2>2. CASE pending' = Append(pending, Len(posted) + 1)
    <3>1. Len(posted) + 1 \in Numbers
      BY <1>2, <1>3, BoundsTyped DEF Numbers
    <3>2. /\ pending' \in Seq(Numbers) /\ Len(pending') = Len(pending) + 1 /\ Len(pending) \in Nat
          /\ \A i \in 1 .. Len(pending) : pending'[i] = pending[i]
          /\ pending'[Len(pending) + 1] = Len(posted) + 1
          /\ ToSet(pending') = ToSet(pending) \cup {Len(posted) + 1}
      BY <1>3, <2>2, <3>1, ElementsOfAppend
    <3>3. \A i \in 1 .. Len(pending) : pending[i] \in 1 .. Len(posted)
      BY <1>3, ElementsOf
    <3>4. \A i, j \in 1 .. Len(pending) : i < j => pending[i] < pending[j]
      BY DEF Basics, Numbered
    <3>5. ASSUME NEW i \in 1 .. Len(pending'), NEW j \in 1 .. Len(pending'), i < j
          PROVE  pending'[i] < pending'[j]
      <4>1. i \in 1 .. Len(pending) /\ pending'[i] = pending[i] /\ (j \in 1 .. Len(pending) \/ j = Len(pending) + 1)
        BY <3>2, <3>5
      <4>2. QED
        BY <1>3, <3>2, <3>3, <3>4, <3>5, <4>1
    <3>6. QED
      BY <1>3, <3>2, <3>5
  <2>3. QED
    BY <1>2, <2>1, <2>2
<1>5. ToSet(log) \cup synced \subseteq 1 .. Len(posted) + 1
  BY <1>3, PostedParts
<1>6. startupTs <= Len(posted) + 1 /\ unasked <= Len(posted) + 1
  BY <1>3 DEF Basics, Numbered, ChannelTypeOK
<1>7. Numbered'
  BY <1>1, <1>2, <1>4, <1>5, <1>6 DEF Numbered
<1>8. ChannelTypeOK'
  BY <1>1, <1>2, <1>4 DEF Basics, ChannelTypeOK, ChannelFaultKinds
<1>9. QED
  BY <1>1, <1>7, <1>8 DEF Basics, RunFits, OnlyEventsWait

LEMMA StartBasics ==
    ASSUME Basics, Backfill \/ Connect
    PROVE  Basics'
<1>1. UNCHANGED <<posted, pending, context, flushed, queue, work, phase, synced, events>>
  BY DEF Backfill, Connect, fileVars, runVars
<1>2. Len(posted) \in 0 .. MaxMessages
  BY PostedParts
<1>3. CASE Connect
  <2>1. UNCHANGED <<log, starts, unasked, occurred>> /\ conn' = "up" /\ startupTs' = Len(posted)
    BY <1>3 DEF Connect, fileVars
  <2>2. ChannelTypeOK' /\ Numbered'
    BY <1>1, <1>2, <2>1 DEF Basics, ChannelTypeOK, Numbered
  <2>3. QED
    BY <1>1, <2>1, <2>2 DEF Basics, RunFits, OnlyEventsWait
<1>4. CASE Backfill
  <2>1. /\ conn' = "backfilled" /\ starts' = starts + 1 /\ starts < MaxStarts /\ conn = "down"
        /\ unasked' \in {unasked, Len(posted)} /\ startupTs' = startupTs
        /\ occurred' \subseteq occurred \cup {"manyMissed"}
    BY <1>4 DEF Backfill
  <2>2. log' \in Seq(Numbers) /\ ToSet(log) \subseteq ToSet(log') /\ ToSet(log') \subseteq 1 .. Len(posted)
    BY <1>4, Fetching, PostedParts
  <2>3. starts' \in 0 .. MaxStarts
    BY <2>1, BoundsTyped DEF Basics, ChannelTypeOK
  <2>4. ChannelTypeOK'
    BY <1>1, <1>2, <2>1, <2>2, <2>3 DEF Basics, ChannelTypeOK
  <2>5. Numbered'
    BY <1>1, <1>2, <2>1, <2>2 DEF Basics, Numbered
  <2>6. QED
    BY <1>1, <2>1, <2>2, <2>4, <2>5 DEF Basics, RunFits, OnlyEventsWait
<1>5. QED
  BY <1>3, <1>4

(* What is enqueued.                                                        *)
LEMMA Enqueueing ==
    ASSUME Basics, NEW item \in Works, Enqueue(item)
    PROVE  \/ /\ work = NoWork /\ phase = "none" /\ work' = item /\ phase' = "starting" /\ queue' = queue
           \/ /\ work # NoWork /\ queue' = Append(queue, item) /\ work' = work /\ phase' = phase
BY DEF Basics, RunFits, Enqueue

LEMMA ReceiveBasics ==
    ASSUME Basics, NEW i \in 1 .. Len(pending), Receive(i)
    PROVE  /\ Basics'
           /\ \/ UNCHANGED <<queue, work, phase>>
              \/ /\ work = NoWork /\ phase = "none" /\ phase' = "starting" /\ queue' = queue
                 /\ work' = [type |-> "user", n |-> pending[i]] /\ pending[i] > startupTs
<1> DEFINE n == pending[i]
<1>1. /\ UNCHANGED <<posted, conn, starts, startupTs, unasked, context, flushed, synced, events>>
      /\ occurred' \subseteq occurred \cup {"reordered"}
  BY DEF Receive
<1>2. /\ n \in 1 .. Len(posted) /\ conn = "up"
      /\ log' \in Seq(Numbers) /\ ToSet(log') = ToSet(log) \cup {n}
      /\ pending' \in Seq(Numbers) /\ ToSet(pending') \subseteq ToSet(pending)
      /\ \A j, k \in 1 .. Len(pending') : j < k => pending'[j] < pending'[k]
  BY Receiving
<1>3. /\ Accepted(n) => Enqueue([type |-> "user", n |-> n])
      /\ ~Accepted(n) => UNCHANGED <<queue, work, phase>>
  BY DEF Receive
<1> HIDE DEF n
<1>4. [type |-> "user", n |-> n] \in Works
  BY <1>2, PostedParts DEF Works
<1>5. \/ UNCHANGED <<queue, work, phase>>
      \/ /\ work = NoWork /\ phase = "none" /\ phase' = "starting" /\ queue' = queue
         /\ work' = [type |-> "user", n |-> n] /\ n > startupTs
  BY <1>3, <1>4, Enqueueing DEF Accepted, IsRunning, Basics, RunFits
<1>6. Numbered'
  BY <1>1, <1>2, PostedParts DEF Basics, Numbered
<1>7. ChannelTypeOK'
  BY <1>1, <1>2, <1>4, <1>5 DEF Basics, ChannelTypeOK, ChannelFaultKinds
<1>8. RunFits' /\ OnlyEventsWait'
  BY <1>1, <1>2, <1>4, <1>5, BoundsTyped DEF Basics, RunFits, OnlyEventsWait
<1>9. QED
  BY <1>5, <1>6, <1>7, <1>8 DEF Basics, n

LEMMA EnqueueBasics ==
    ASSUME Basics, EnqueueEvent
    PROVE  /\ Basics'
           /\ \/ UNCHANGED <<work, phase>>
              \/ /\ phase = "none" /\ phase' = "starting" /\ work' \in Works /\ work'.type = "event"
<1> DEFINE item == [type |-> "event", n |-> events + 1]
<1>1. /\ UNCHANGED <<posted, conn, starts, startupTs, unasked, pending, log, context, flushed, synced, occurred>>
      /\ events' = events + 1 /\ events < MaxEvents /\ conn # "down"
  BY DEF EnqueueEvent, fileVars
<1>2. item \in Works /\ item.type = "event" /\ events' \in 0 .. MaxEvents
  BY <1>1, BoundsTyped DEF Basics, ChannelTypeOK, Works
<1>3. \/ UNCHANGED <<queue, work, phase>>
      \/ Len(queue) < QueueLimit /\ Enqueue(item)
  <2>1. Len(queue) \in Nat
    BY DEF Basics, ChannelTypeOK
  <2>2. QED
    BY <2>1, BoundsTyped DEF EnqueueEvent
<1> HIDE DEF item
<1>4. Numbered'
  BY <1>1 DEF Basics, Numbered
<1>5. CASE UNCHANGED <<queue, work, phase>>
  BY <1>1, <1>2, <1>4, <1>5 DEF Basics, ChannelTypeOK, RunFits, OnlyEventsWait
<1>6. CASE work = NoWork /\ phase = "none" /\ work' = item /\ phase' = "starting" /\ queue' = queue
  BY <1>1, <1>2, <1>4, <1>6, BoundsTyped DEF Basics, ChannelTypeOK, RunFits, OnlyEventsWait
<1>7. CASE Len(queue) < QueueLimit /\ work # NoWork /\ queue' = Append(queue, item) /\ work' = work /\ phase' = phase
  <2>1. queue' \in Seq(Works) /\ Len(queue') = Len(queue) + 1 /\ ToSet(queue') = ToSet(queue) \cup {item}
    BY <1>2, <1>7, ElementsOfAppend DEF Basics, ChannelTypeOK
  <2>2. Len(queue') <= QueueLimit
    BY <1>7, <2>1, BoundsTyped DEF Basics, ChannelTypeOK
  <2>3. ChannelTypeOK'
    BY <1>1, <1>2, <1>7, <2>1 DEF Basics, ChannelTypeOK
  <2>4. QED
    BY <1>1, <1>2, <1>4, <1>7, <2>1, <2>2, <2>3 DEF Basics, RunFits, OnlyEventsWait
<1>8. QED
  BY <1>2, <1>3, <1>5, <1>6, <1>7, Enqueueing

(* What the sync adds to the context.                                       *)
LEMMA Syncing ==
    ASSUME Basics, Sync
    PROVE  \E texts \in Seq(ContextTexts), added \in Seq(Numbers) :
              /\ context' = context \o texts /\ Len(texts) = Len(added)
              /\ \A i \in 1 .. Len(texts) : texts[i] = SyncText(added[i])
              /\ ToSet(added) = FirstOfText(UnknownToContext)
              /\ \A i, j \in 1 .. Len(added) : added[i] = added[j] => i = j
<1>1. PICK added \in Sorted(FirstOfText(UnknownToContext)) :
         context' = context \o [i \in 1 .. Len(added) |-> SyncText(added[i])]
  BY DEF Sync
<1> DEFINE first == FirstOfText(UnknownToContext)
           texts == [i \in 1 .. Len(added) |-> SyncText(added[i])]
<1>2. first \subseteq 1 .. Len(posted)
  BY PostedParts DEF FirstOfText, UnknownToContext
<1>3. Len(posted) \in Int /\ 1 .. Len(posted) \subseteq Numbers
  BY PostedParts
<1>4. 1 .. Len(posted) \subseteq Nat /\ IsFiniteSet(1 .. Len(posted))
  BY <1>3, FS_Interval
<1>5. first \subseteq Nat /\ IsFiniteSet(first) /\ first \subseteq Numbers
  BY <1>2, <1>3, <1>4, FS_Subset
<1> HIDE DEF first
<1>6. /\ added \in Seq(first) /\ ToSet(added) = first
      /\ \A i, j \in 1 .. Len(added) : added[i] = added[j] => i = j
  BY <1>1, <1>5, SortedElements DEF first
<1>7. added \in Seq(Numbers) /\ Len(added) \in Nat
  <2>1. \A s \in Seq(first) : s \in Seq(Numbers)
    BY <1>5, SeqMonotonic
  <2>2. QED
    BY <1>6, <2>1
<1>8. \A i \in 1 .. Len(added) : SyncText(added[i]) \in ContextTexts
  <2>1. \A i \in 1 .. Len(added) : added[i] \in first
    BY <1>6
  <2>2. QED
    BY <1>2, <2>1, PostedParts DEF first
<1>9. texts \in Seq(ContextTexts) /\ Len(texts) = Len(added)
  BY <1>7, <1>8
<1>10. \A i \in 1 .. Len(added) : texts[i] = SyncText(added[i])
  OBVIOUS
<1>11. context' = context \o texts
  BY <1>1
<1> HIDE DEF texts
<1>12. ToSet(added) = FirstOfText(UnknownToContext)
  BY <1>6 DEF first
<1>13. \A i \in 1 .. Len(texts) : texts[i] = SyncText(added[i])
  BY <1>9, <1>10
<1>14. QED
  BY <1>6, <1>7, <1>9, <1>11, <1>12, <1>13, Zenon

LEMMA RunBasics ==
    ASSUME Basics, Sync \/ Prompt \/ Answer
    PROVE  Basics'
<1>1. /\ UNCHANGED <<posted, conn, starts, startupTs, unasked, pending, log, queue, work, events, occurred>>
      /\ phase # "none" /\ phase' \in {"synced", "prompting", "finishing"}
      /\ flushed' \in BOOLEAN
  BY DEF Sync, Prompt, Answer, Basics, ChannelTypeOK
<1>2. synced' \subseteq 1 .. Len(posted) /\ synced' \subseteq Numbers
  BY PostedParts DEF Sync, Prompt, Answer
<1>3. context' \in Seq(ContextTexts)
  <2>1. CASE Sync
    <3>1. PICK texts \in Seq(ContextTexts) : context' = context \o texts
      BY <2>1, Syncing
    <3>2. QED
      BY <3>1, PostedParts, ElementsOfBoth
  <2>2. CASE Prompt
    <3>1. work # NoWork /\ work.type = "user" => work.n \in 1 .. Len(posted)
      BY PostedParts DEF Basics, RunFits
    <3>2. work # NoWork
      BY <2>2 DEF Basics, RunFits, Prompt
    <3>3. CASE work.type = "user"
      <4>1. PromptText(work.n) \in ContextTexts /\ context' = Append(context, PromptText(work.n))
        BY <2>2, <3>1, <3>2, <3>3, PostedParts DEF Prompt
      <4>2. QED
        BY <4>1, PostedParts, ElementsOfAppend
    <3>4. CASE work.type # "user"
      BY <2>2, <3>4, PostedParts DEF Prompt
    <3>5. QED
      BY <3>3, <3>4
  <2>3. CASE Answer
    BY <2>3, PostedParts DEF Answer
  <2>4. QED
    BY <2>1, <2>2, <2>3
<1>4. ChannelTypeOK' /\ Numbered'
  BY <1>1, <1>2, <1>3 DEF Basics, ChannelTypeOK, Numbered
<1>5. QED
  BY <1>1, <1>4 DEF Basics, RunFits, OnlyEventsWait

LEMMA EndRunBasics ==
    ASSUME Basics, Finish \/ RunFails
    PROVE  /\ Basics'
           /\ UNCHANGED <<posted, conn, startupTs, unasked, pending, log, context>>
           /\ occurred \subseteq occurred' /\ occurred' \subseteq occurred \cup {"runFails"}
           /\ \/ work' = NoWork /\ phase' = "none"
              \/ work' \in Works /\ work'.type = "event" /\ phase' = "starting"
<1>1. /\ UNCHANGED <<posted, conn, starts, startupTs, unasked, pending, log, context, flushed, events>>
      /\ synced' = {} /\ occurred \subseteq occurred' /\ occurred' \subseteq occurred \cup {"runFails"}
      /\ phase # "none"
  BY DEF Finish, RunFails, EndRun, fileVars
<1>2. conn # "down"
  BY <1>1 DEF Basics, RunFits
<1>3. Numbered'
  BY <1>1 DEF Basics, Numbered
<1>4. CASE queue = <<>> /\ work' = NoWork /\ phase' = "none" /\ queue' = queue
  BY <1>1, <1>3, <1>4 DEF Basics, ChannelTypeOK, RunFits, OnlyEventsWait, ChannelFaultKinds
<1>5. CASE queue # <<>> /\ work' = Head(queue) /\ phase' = "starting" /\ queue' = Tail(queue)
  <2>1. /\ queue \in Seq(Works) /\ queue # <<>> /\ Len(queue) \in Nat
        /\ Len(queue) <= QueueLimit /\ \A item \in ToSet(queue) : item.type = "event"
    BY <1>5 DEF Basics, ChannelTypeOK, OnlyEventsWait
  <2>2. /\ Head(queue) \in Works /\ Tail(queue) \in Seq(Works) /\ Len(Tail(queue)) = Len(queue) - 1
        /\ \A i \in 1 .. Len(Tail(queue)) : Tail(queue)[i] = queue[i + 1]
    BY <2>1, HeadTailProperties
  <2>3. ToSet(queue) = {queue[i] : i \in 1 .. Len(queue)}
    BY <2>1, ElementsOf
  <2>4. ToSet(Tail(queue)) \subseteq ToSet(queue)
    <3>1. ToSet(Tail(queue)) = {Tail(queue)[i] : i \in 1 .. Len(queue) - 1}
      BY <2>2, ElementsOf
    <3>2. \A i \in 1 .. Len(queue) - 1 : i + 1 \in 1 .. Len(queue) /\ Tail(queue)[i] = queue[i + 1]
      BY <2>1, <2>2
    <3>3. QED
      BY <2>3, <3>1, <3>2
  <2>5. Head(queue).type = "event"
    <3>1. Head(queue) = queue[1] /\ 1 \in 1 .. Len(queue)
      BY <2>1
    <3>2. QED
      BY <2>1, <2>3, <3>1
  <2>6. Len(queue') <= QueueLimit
    BY <1>5, <2>1, <2>2, BoundsTyped
  <2>7. ChannelTypeOK'
    BY <1>1, <1>5, <2>2 DEF Basics, ChannelTypeOK, ChannelFaultKinds
  <2>8. RunFits' /\ OnlyEventsWait'
    BY <1>1, <1>2, <1>5, <2>1, <2>2, <2>4, <2>5, <2>6, BoundsTyped DEF RunFits, OnlyEventsWait
  <2>9. QED
    BY <1>1, <1>3, <1>5, <2>2, <2>5, <2>7, <2>8 DEF Basics
<1>6. QED
  BY <1>4, <1>5 DEF Finish, RunFails, EndRun, WaitingAfter

LEMMA CrashBasics ==
    ASSUME Basics, Crash
    PROVE  Basics'
<1>1. /\ UNCHANGED <<posted, starts, startupTs, unasked, log, flushed, events>>
      /\ conn' = "down" /\ pending' \in {<<>>, pending} /\ queue' = <<>> /\ work' = NoWork /\ phase' = "none" /\ synced' = {}
      /\ context' \in {context, <<>>} /\ occurred' = occurred \cup {"crash"}
  BY DEF Crash
<1>2. Numbered'
  BY <1>1 DEF Basics, Numbered, ToSet
<1>3. ChannelTypeOK'
  <2>1. pending' \in Seq(Numbers) /\ context' \in Seq(ContextTexts) /\ queue' \in Seq(Works)
    BY <1>1, EmptySeq, PostedParts
  <2>2. QED
    BY <1>1, <2>1 DEF Basics, ChannelTypeOK, ChannelFaultKinds
<1>4. OnlyEventsWait'
  BY <1>1, BoundsTyped DEF OnlyEventsWait, ToSet
<1>5. QED
  BY <1>1, <1>2, <1>3, <1>4 DEF Basics, RunFits

-----------------------------------------------------------------------------
(* The log.                                                                 *)

(* Steps that leave the log and what is delivered alone.                    *)
LogStays == UNCHANGED <<posted, conn, startupTs, unasked, pending, log>> /\ occurred \subseteq occurred'

LEMMA StayingLog ==
    ASSUME LoggedOnce, LogFollows, NewIsNew, LogStays
    PROVE  LoggedOnce' /\ LogFollows' /\ NewIsNew'
BY DEF LogStays, LoggedOnce, LogFollows, InTime, NoGaps, NothingLacks, NewIsNew

LEMMA LogKept ==
    ASSUME Basics, LoggedOnce, LogFollows, NewIsNew, [ChannelNext]_channelVars
    PROVE  LoggedOnce' /\ LogFollows' /\ NewIsNew'
<1>1. ASSUME NEW message \in Messages, Post(message)
      PROVE  LoggedOnce' /\ LogFollows' /\ NewIsNew'
  <2>1. UNCHANGED <<conn, startupTs, unasked, log>>
    BY <1>1 DEF Post, fileVars
  <2>2. /\ Len(posted') = Len(posted) + 1 /\ occurred \subseteq occurred'
        /\ pending' = pending \/ (pending' = Append(pending, Len(posted) + 1) /\ conn = "up")
        /\ conn = "backfilled" => "gap" \in occurred'
        /\ conn = "up" => pending' = Append(pending, Len(posted) + 1)
        /\ Len(posted') <= MaxMessages
    BY <1>1, Posting
  <2>3. /\ Len(posted) \in Nat /\ pending \in Seq(Numbers)
        /\ ToSet(log) \subseteq 1 .. Len(posted) /\ ToSet(pending) \subseteq 1 .. Len(posted)
    BY PostedParts
  <2>4. Len(posted) + 1 \in Numbers
    BY <2>2, <2>3, BoundsTyped DEF Numbers
  <2>5. ToSet(Append(pending, Len(posted) + 1)) = ToSet(pending) \cup {Len(posted) + 1}
    BY <2>3, <2>4, ElementsOfAppend
  <2>6. Len(posted) + 1 \notin ToSet(log)
    BY <2>3
  <2>7. LoggedOnce' /\ NewIsNew'
    BY <2>1, <2>2, <2>5, <2>6 DEF LoggedOnce, NewIsNew
  <2>8. ASSUME InTime'
        PROVE  NoGaps' /\ NothingLacks'
    <3>1. InTime /\ NoGaps /\ NothingLacks /\ conn # "backfilled"
      BY <2>2, <2>8 DEF InTime, LogFollows
    <3>2. \A n \in 1 .. Len(posted) + 1 : n \in 1 .. Len(posted) \/ n = Len(posted) + 1
      BY <2>3
    <3>3. \A m \in ToSet(log) : ~(Len(posted) + 1 <= m)
      BY <2>3
    <3>4. QED
      BY <2>1, <2>2, <2>5, <3>1, <3>2, <3>3 DEF NoGaps, NothingLacks
  <2>9. QED
    BY <2>7, <2>8 DEF LogFollows
<1>2. CASE Backfill
  <2>1. PICK fetched \in Seq(Numbers) :
              /\ log' = log \o fetched /\ log' \in Seq(Numbers)
              /\ ToSet(fetched) = Fetched /\ ToSet(log') = ToSet(log) \cup Fetched
              /\ Fetched \subseteq Missed /\ Missed \subseteq 1 .. Len(posted)
              /\ \A i, j \in 1 .. Len(fetched) : fetched[i] = fetched[j] => i = j
    BY <1>2, Fetching
  <2>2. /\ conn = "down" /\ conn' = "backfilled" /\ UNCHANGED <<posted, pending, startupTs>>
        /\ unasked' = IF log = <<>> THEN Len(posted) ELSE unasked
        /\ occurred \subseteq occurred' /\ (Fetched # Missed => "manyMissed" \in occurred')
    BY <1>2 DEF Backfill
  <2>3. \A m \in ToSet(log), n \in Fetched : m < n
    BY <2>1 DEF Missed
  <2>4. Len(posted) \in Nat /\ log \in Seq(Numbers) /\ ToSet(log) \subseteq 1 .. Len(posted)
    BY PostedParts
  <2>5. LoggedOnce'
    <3>1. SUFFICES ASSUME "crash" \notin occurred'
                   PROVE  /\ \A i, j \in 1 .. Len(log') : log'[i] = log'[j] => i = j
                          /\ ToSet(log') \cap ToSet(pending') = {}
                          /\ conn' # "up" => pending' = <<>>
      BY DEF LoggedOnce
    <3>2. pending = <<>> /\ \A i, j \in 1 .. Len(log) : log[i] = log[j] => i = j
      BY <2>2, <3>1 DEF LoggedOnce
    <3>3. /\ Len(log') = Len(log) + Len(fetched) /\ Len(log) \in Nat /\ Len(fetched) \in Nat
          /\ \A i \in 1 .. Len(log) + Len(fetched) : log'[i] = IF i <= Len(log) THEN log[i] ELSE fetched[i - Len(log)]
      BY <2>1, <2>4, ElementsOfBoth
    <3>4. /\ \A i \in 1 .. Len(log) : log[i] \in ToSet(log) /\ log[i] \in Nat
          /\ \A i \in 1 .. Len(fetched) : fetched[i] \in Fetched /\ fetched[i] \in Nat
      <4>1. ToSet(log) \subseteq Nat /\ Fetched \subseteq Nat
        BY <2>1, <2>4
      <4>2. ToSet(log) = {log[i] : i \in 1 .. Len(log)} /\ ToSet(fetched) = {fetched[i] : i \in 1 .. Len(fetched)}
        BY <2>1, <2>4, ElementsOf
      <4>3. QED
        BY <2>1, <4>1, <4>2
    <3>5. ASSUME NEW i \in 1 .. Len(log'), NEW j \in 1 .. Len(log'), log'[i] = log'[j]
          PROVE  i = j
      <4>1. CASE i <= Len(log) /\ j <= Len(log)
        BY <3>2, <3>3, <3>5, <4>1
      <4>2. CASE ~(i <= Len(log)) /\ ~(j <= Len(log))
        <5>1. i - Len(log) \in 1 .. Len(fetched) /\ j - Len(log) \in 1 .. Len(fetched)
          BY <3>3, <4>2
        <5>2. fetched[i - Len(log)] = fetched[j - Len(log)]
          BY <3>3, <3>5, <4>2
        <5>3. i - Len(log) = j - Len(log)
          BY <2>1, <5>1, <5>2
        <5>4. QED
          BY <3>3, <5>3
      <4>3. CASE i <= Len(log) /\ ~(j <= Len(log))
        <5>1. i \in 1 .. Len(log) /\ j - Len(log) \in 1 .. Len(fetched)
          BY <3>3, <4>3
        <5>2. log'[i] = log[i] /\ log'[j] = fetched[j - Len(log)]
          BY <3>3, <4>3
        <5>3. log[i] < fetched[j - Len(log)]
          BY <2>3, <3>4, <5>1
        <5>4. log[i] \in Nat /\ fetched[j - Len(log)] \in Nat
          BY <3>4, <5>1
        <5>5. log[i] = fetched[j - Len(log)]
          BY <3>5, <5>2
        <5>6. QED
          BY <5>3, <5>4, <5>5
      <4>4. CASE ~(i <= Len(log)) /\ j <= Len(log)
        <5>1. j \in 1 .. Len(log) /\ i - Len(log) \in 1 .. Len(fetched)
          BY <3>3, <4>4
        <5>2. log'[j] = log[j] /\ log'[i] = fetched[i - Len(log)]
          BY <3>3, <4>4
        <5>3. log[j] < fetched[i - Len(log)]
          BY <2>3, <3>4, <5>1
        <5>4. log[j] \in Nat /\ fetched[i - Len(log)] \in Nat
          BY <3>4, <5>1
        <5>5. log[j] = fetched[i - Len(log)]
          BY <3>5, <5>2
        <5>6. QED
          BY <5>3, <5>4, <5>5
      <4>5. QED
        BY <4>1, <4>2, <4>3, <4>4
    <3>6. QED
      BY <2>2, <3>2, <3>5 DEF ToSet
  <2>6. NewIsNew'
    BY <2>2 DEF NewIsNew
  <2>7. ASSUME InTime'
        PROVE  NoGaps' /\ NothingLacks'
    <3>1. NoGaps /\ Fetched = Missed
      BY <2>2, <2>7 DEF InTime, LogFollows
    <3>2. ASSUME NEW n \in 1 .. Len(posted), unasked' < n
          PROVE  n \in ToSet(log')
      <4>1. log # <<>> /\ unasked < n
        BY <2>2, <2>4, <3>2
      <4>2. CASE \A m \in ToSet(log) : m < n
        BY <2>1, <3>1, <4>1, <4>2 DEF Missed
      <4>3. CASE \E m \in ToSet(log) : ~(m < n)
        <5>1. PICK m \in ToSet(log) : n <= m
          BY <2>4, <4>3
        <5>2. QED
          BY <2>1, <3>1, <4>1, <5>1 DEF NoGaps
      <4>4. QED
        BY <4>2, <4>3
    <3>3. QED
      BY <2>2, <3>2 DEF NoGaps, NothingLacks
  <2>8. QED
    BY <2>5, <2>6, <2>7 DEF LogFollows
<1>3. CASE Connect
  <2>1. UNCHANGED <<posted, unasked, pending, log, occurred>> /\ conn = "backfilled" /\ conn' = "up" /\ startupTs' = Len(posted)
    BY <1>3 DEF Connect, fileVars
  <2>2. Len(posted) \in Nat /\ ToSet(pending) \subseteq 1 .. Len(posted)
    BY PostedParts
  <2>3. LoggedOnce' /\ NewIsNew'
    BY <2>1, <2>2 DEF LoggedOnce, NewIsNew
  <2>4. LogFollows'
    BY <2>1 DEF LogFollows, InTime, NoGaps, NothingLacks
  <2>5. QED
    BY <2>3, <2>4
<1>4. ASSUME NEW i \in 1 .. Len(pending), Receive(i)
      PROVE  LoggedOnce' /\ LogFollows' /\ NewIsNew'
  <2> DEFINE n == pending[i]
  <2>1. /\ n \in 1 .. Len(posted) /\ n \in ToSet(pending) /\ conn = "up"
        /\ log' = Append(log, n) /\ ToSet(log') = ToSet(log) \cup {n}
        /\ ToSet(pending') = ToSet(pending) \ {n}
    BY <1>4, Receiving
  <2>2. UNCHANGED <<posted, conn, startupTs, unasked>> /\ occurred \subseteq occurred' /\ (i # 1 => "reordered" \in occurred')
    BY <1>4 DEF Receive
  <2>3. /\ log \in Seq(Numbers) /\ pending \in Seq(Numbers) /\ Len(posted) \in Nat /\ n \in Numbers
        /\ ToSet(log) \subseteq 1 .. Len(posted) /\ ToSet(pending) \subseteq 1 .. Len(posted)
    BY <2>1, PostedParts
  <2>4. i = 1 => \A m \in ToSet(pending) : n <= m
    <3>1. \A j, k \in 1 .. Len(pending) : j < k => pending[j] < pending[k]
      BY DEF Basics, Numbered
    <3>2. ToSet(pending) = {pending[j] : j \in 1 .. Len(pending)} /\ Len(pending) \in Nat
      BY <2>3, ElementsOf
    <3>3. ASSUME i = 1, NEW j \in 1 .. Len(pending)
          PROVE  pending[i] <= pending[j]
      <4>1. pending[i] \in Nat
        BY <2>1
      <4>2. pending[j] \in Nat
        <5>1. pending[j] \in ToSet(pending)
          BY <3>2
        <5>2. pending[j] \in 1 .. Len(posted)
          BY <2>3, <5>1
        <5>3. QED
          BY <5>2
      <4>3. j = 1 \/ (1 < j /\ 1 \in 1 .. Len(pending))
        BY <3>2
      <4>4. QED
        BY <3>1, <3>3, <4>1, <4>2, <4>3
    <3>4. QED
      BY <3>2, <3>3
  <2> HIDE DEF n
  <2>5. LoggedOnce'
    <3>1. SUFFICES ASSUME "crash" \notin occurred'
                   PROVE  /\ \A j, k \in 1 .. Len(log') : log'[j] = log'[k] => j = k
                          /\ ToSet(log') \cap ToSet(pending') = {}
                          /\ conn' # "up" => pending' = <<>>
      BY DEF LoggedOnce
    <3>2. n \notin ToSet(log) /\ ToSet(log) \cap ToSet(pending) = {} /\ \A j, k \in 1 .. Len(log) : log[j] = log[k] => j = k
      BY <2>1, <2>2, <3>1 DEF LoggedOnce
    <3>3. /\ Len(log') = Len(log) + 1 /\ Len(log) \in Nat
          /\ \A j \in 1 .. Len(log) : log'[j] = log[j] /\ log[j] \in ToSet(log)
          /\ log'[Len(log) + 1] = n
      <4>1. ToSet(log) = {log[j] : j \in 1 .. Len(log)} /\ Len(log) \in Nat
        BY <2>3, ElementsOf
      <4>2. QED
        BY <2>1, <2>3, <4>1, ElementsOfAppend
    <3>4. \A j \in 1 .. Len(log') : j \in 1 .. Len(log) \/ j = Len(log) + 1
      BY <3>3
    <3>5. \A j, k \in 1 .. Len(log') : log'[j] = log'[k] => j = k
      BY <3>2, <3>3, <3>4
    <3>6. QED
      BY <2>1, <2>2, <3>2, <3>5
  <2>6. NewIsNew'
    BY <2>1, <2>2 DEF NewIsNew
  <2>7. ASSUME InTime'
        PROVE  NoGaps' /\ NothingLacks'
    <3>1. InTime /\ NoGaps /\ NothingLacks /\ i = 1
      BY <2>2, <2>7 DEF InTime, LogFollows
    <3>2. NothingLacks'
      BY <2>1, <2>2, <3>1 DEF NothingLacks
    <3>3. ASSUME NEW m \in ToSet(log'), NEW k \in 1 .. Len(posted), unasked < k, k <= m
          PROVE  k \in ToSet(log')
      <4>1. CASE m \in ToSet(log)
        BY <2>1, <3>1, <3>3, <4>1 DEF NoGaps
      <4>2. CASE m = n
        <5>1. k \in ToSet(log) \cup ToSet(pending)
          BY <2>1, <3>1, <3>3 DEF NothingLacks
        <5>2. k \in ToSet(pending) => k = n
          BY <2>1, <2>3, <2>4, <3>1, <3>3, <4>2
        <5>3. QED
          BY <2>1, <5>1, <5>2
      <4>3. QED
        BY <2>1, <4>1, <4>2
    <3>4. QED
      BY <2>2, <3>2, <3>3 DEF NoGaps
  <2>8. QED
    BY <2>5, <2>6, <2>7 DEF LogFollows
<1>5. CASE Crash
  <2>1. UNCHANGED <<posted, startupTs, unasked, log>> /\ conn' = "down" /\ "crash" \in occurred' /\ occurred \subseteq occurred'
    BY <1>5 DEF Crash
  <2>2. QED
    BY <2>1 DEF LoggedOnce, NewIsNew, LogFollows, InTime, NoGaps, NothingLacks
<1>6. CASE EnqueueEvent \/ Sync \/ Prompt \/ Answer
  BY <1>6, StayingLog DEF LogStays, EnqueueEvent, Sync, Prompt, Answer, fileVars
<1>7. CASE Finish \/ RunFails
  BY <1>7, StayingLog, EndRunBasics DEF LogStays
<1>8. CASE UNCHANGED channelVars
  BY <1>8, StayingLog DEF LogStays, channelVars
<1>9. QED
  BY <1>1, <1>2, <1>3, <1>4, <1>5, <1>6, <1>7, <1>8 DEF ChannelNext, Run

-----------------------------------------------------------------------------
(* The context.                                                             *)

(* Places of a text in a sequence that grows.                               *)
LEMMA PlacesFinite ==
    ASSUME NEW S, NEW seq \in Seq(S), NEW text
    PROVE  IsFiniteSet(Places(seq, text)) /\ Cardinality(Places(seq, text)) \in Nat
<1>1. Len(seq) \in Int /\ Places(seq, text) \subseteq 1 .. Len(seq)
  BY DEF Places
<1>2. IsFiniteSet(1 .. Len(seq))
  BY <1>1, FS_Interval
<1>3. IsFiniteSet(Places(seq, text))
  BY <1>1, <1>2, FS_Subset
<1>4. QED
  BY <1>3, FS_CardinalityType

LEMMA PlacesOfAppend ==
    ASSUME NEW S, NEW seq \in Seq(S), NEW x \in S, NEW text
    PROVE  Cardinality(Places(Append(seq, x), text)) =
              Cardinality(Places(seq, text)) + (IF x = text THEN 1 ELSE 0)
<1>1. /\ Len(Append(seq, x)) = Len(seq) + 1 /\ Len(seq) \in Nat
      /\ \A i \in 1 .. Len(seq) : Append(seq, x)[i] = seq[i]
      /\ Append(seq, x)[Len(seq) + 1] = x
  BY ElementsOfAppend
<1>2. \A i \in 1 .. Len(seq) + 1 : i \in 1 .. Len(seq) \/ i = Len(seq) + 1
  BY <1>1
<1>3. IsFiniteSet(Places(seq, text)) /\ Cardinality(Places(seq, text)) \in Nat
  BY PlacesFinite
<1>4. CASE x = text
  <2>1. Places(Append(seq, x), text) = Places(seq, text) \cup {Len(seq) + 1}
    BY <1>1, <1>2, <1>4 DEF Places
  <2>2. Len(seq) + 1 \notin Places(seq, text)
    BY <1>1 DEF Places
  <2>3. QED
    BY <1>3, <1>4, <2>1, <2>2, FS_AddElement
<1>5. CASE x # text
  <2>1. Places(Append(seq, x), text) = Places(seq, text)
    BY <1>1, <1>2, <1>5 DEF Places
  <2>2. QED
    BY <1>3, <1>5, <2>1
<1>6. QED
  BY <1>4, <1>5

(* What says a text: the messages of its author with it.                    *)
LEMMA SayingFinite ==
    ASSUME Basics, NEW text
    PROVE  /\ IsFiniteSet(Saying(text)) /\ Cardinality(Saying(text)) \in Nat
           /\ Saying(text) \subseteq 1 .. Len(posted)
<1>1. Saying(text) \subseteq 1 .. Len(posted) /\ Len(posted) \in Int
  BY PostedParts DEF Saying
<1>2. IsFiniteSet(1 .. Len(posted))
  BY <1>1, FS_Interval
<1>3. IsFiniteSet(Saying(text))
  BY <1>1, <1>2, FS_Subset
<1>4. QED
  BY <1>1, <1>3, FS_CardinalityType

(* Where the name is known the sync and the prompt write the same.          *)
LEMMA SameByName ==
    ASSUME NEW n, NEW text, text[1] = "name"
    PROVE  SyncText(n) = text <=> PromptText(n) = text
BY DEF SyncText, PromptText

(* More in the log, nothing else: more that says a text.                    *)
LEMMA SayingGrows ==
    ASSUME Basics, Basics', ToSet(log) \subseteq ToSet(log'),
           \A n \in ToSet(log) : PromptText(n)' = PromptText(n), NEW text
    PROVE  /\ Saying(text) \subseteq Saying(text)' /\ Cardinality(Saying(text)) <= Cardinality(Saying(text)')
           /\ IsFiniteSet(Saying(text)') /\ Cardinality(Saying(text)') \in Nat
<1>1. Saying(text) \subseteq Saying(text)'
  BY DEF Saying
<1>2. IsFiniteSet(Saying(text)')
  <2>1. Saying(text)' \subseteq 1 .. Len(posted') /\ Len(posted') \in Int
    <3>1. Numbered' /\ ChannelTypeOK'
      BY DEF Basics
    <3>2. QED
      BY <3>1 DEF Saying, Numbered, ChannelTypeOK
  <2>2. IsFiniteSet(1 .. Len(posted'))
    BY <2>1, FS_Interval
  <2>3. QED
    BY <2>1, <2>2, FS_Subset
<1>3. Cardinality(Saying(text)') \in Nat
  BY <1>2, FS_CardinalityType
<1>4. Cardinality(Saying(text)) <= Cardinality(Saying(text)')
  BY <1>1, <1>2, FS_Subset
<1>5. QED
  BY <1>1, <1>2, <1>3, <1>4

(* Steps that leave the context alone.                                      *)
LEMMA RoomStays ==
    ASSUME Basics, Basics', RoomForPrompt, context' = context,
           ToSet(log) \subseteq ToSet(log'), \A n \in ToSet(log) : PromptText(n)' = PromptText(n),
           \A text : Asking(text)' => Asking(text)
    PROVE  RoomForPrompt'
<1>1. SUFFICES ASSUME NEW text, ByName(text)
               PROVE  Cardinality(Places(context, text)) + (IF Asking(text)' THEN 1 ELSE 0) <= Cardinality(Saying(text)')
  BY DEF RoomForPrompt, ByName, ContextTexts
<1>2. Cardinality(Places(context, text)) + (IF Asking(text) THEN 1 ELSE 0) <= Cardinality(Saying(text))
  BY <1>1 DEF RoomForPrompt
<1>3. Cardinality(Saying(text)) <= Cardinality(Saying(text)') /\ Cardinality(Saying(text)') \in Nat
  BY SayingGrows
<1>4. Cardinality(Places(context, text)) \in Nat /\ Cardinality(Saying(text)) \in Nat
  BY PostedParts, PlacesFinite, SayingFinite
<1>5. QED
  BY <1>2, <1>3, <1>4

(* What is said by two messages, or by one.                                 *)
LEMMA SaidBy ==
    ASSUME Basics, NEW text, NEW n \in Saying(text)
    PROVE  /\ Cardinality(Saying(text)) >= 1
           /\ \A m \in Saying(text) : m # n => Cardinality(Saying(text)) >= 2
<1>1. IsFiniteSet(Saying(text)) /\ Cardinality(Saying(text)) \in Nat
  BY SayingFinite
<1>2. Cardinality({n}) = 1
  BY FS_Singleton
<1>3. Cardinality({n}) <= Cardinality(Saying(text))
  BY <1>1, FS_Subset
<1>4. ASSUME NEW m \in Saying(text), m # n
      PROVE  Cardinality(Saying(text)) >= 2
  <2>1. IsFiniteSet({n}) /\ Cardinality({n} \cup {m}) = Cardinality({n}) + 1
    BY <1>4, FS_Singleton, FS_AddElement
  <2>2. Cardinality({n} \cup {m}) <= Cardinality(Saying(text))
    BY <1>1, <1>4, FS_Subset
  <2>3. QED
    BY <1>1, <1>2, <2>1, <2>2
<1>5. QED
  BY <1>1, <1>2, <1>3, <1>4

(* The sync adds a text only when the context does not have it, and once.   *)
LEMMA SyncAddsOnce ==
    ASSUME Basics, Sync, NEW text
    PROVE  \/ Places(context', text) = Places(context, text)
           \/ /\ Places(context, text) = {} /\ Cardinality(Places(context', text)) = 1
              /\ \E n \in ToSet(log) : SyncText(n) = text /\ ~IsPrompt(n)
<1>1. PICK texts \in Seq(ContextTexts), added \in Seq(Numbers) :
              /\ context' = context \o texts /\ Len(texts) = Len(added)
              /\ \A i \in 1 .. Len(texts) : texts[i] = SyncText(added[i])
              /\ ToSet(added) = FirstOfText(UnknownToContext)
              /\ \A i, j \in 1 .. Len(added) : added[i] = added[j] => i = j
  BY Syncing
<1>2. context \in Seq(ContextTexts) /\ log \in Seq(Numbers)
  BY PostedParts
<1>3. /\ Len(context') = Len(context) + Len(texts) /\ Len(context) \in Nat /\ Len(texts) \in Nat
      /\ \A i \in 1 .. Len(context) : context'[i] = context[i]
      /\ \A i \in 1 .. Len(texts) : context'[Len(context) + i] = texts[i]
  <2>1. Len(context) \in Nat /\ Len(texts) \in Nat /\ texts \in Seq(ContextTexts)
    BY <1>2
  <2>2. /\ Len(context \o texts) = Len(context) + Len(texts)
        /\ \A i \in 1 .. Len(context) : (context \o texts)[i] = context[i]
        /\ \A i \in 1 .. Len(texts) : (context \o texts)[Len(context) + i] = texts[i]
    BY <1>2, <2>1, ElementsOfBoth
  <2>3. context' = context \o texts
    BY <1>1
  <2>4. QED
    BY <2>1, <2>2, <2>3
<1>4. \A i \in 1 .. Len(context') :
         i \in 1 .. Len(context) \/ (i - Len(context) \in 1 .. Len(texts) /\ i = Len(context) + (i - Len(context)))
  BY <1>3
<1>5. ASSUME NEW i \in 1 .. Len(texts)
      PROVE  added[i] \in FirstOfText(UnknownToContext) /\ texts[i] = SyncText(added[i])
  BY <1>1, <1>5, ElementsOf
<1>6. CASE \A i \in 1 .. Len(texts) : texts[i] # text
  <2>1. Places(context', text) = Places(context, text)
    <3>1. ASSUME NEW i \in 1 .. Len(context'), context'[i] = text
          PROVE  i \in 1 .. Len(context) /\ context[i] = text
      <4>1. CASE i \in 1 .. Len(context)
        BY <1>3, <3>1, <4>1
      <4>2. CASE i - Len(context) \in 1 .. Len(texts) /\ i = Len(context) + (i - Len(context))
        <5>1. context'[Len(context) + (i - Len(context))] = texts[i - Len(context)]
          BY <1>3, <4>2
        <5>2. QED
          BY <1>6, <3>1, <4>2, <5>1
      <4>3. QED
        BY <1>4, <4>1, <4>2
    <3>2. \A i \in 1 .. Len(context) : i \in 1 .. Len(context') /\ context'[i] = context[i]
      BY <1>3
    <3>3. QED
      BY <3>1, <3>2 DEF Places
  <2>2. QED
    BY <2>1
<1>7. ASSUME NEW k \in 1 .. Len(texts), texts[k] = text
      PROVE  /\ Places(context, text) = {} /\ Cardinality(Places(context', text)) = 1
             /\ \E n \in ToSet(log) : SyncText(n) = text /\ ~IsPrompt(n)
  <2>1. added[k] \in UnknownToContext /\ SyncText(added[k]) = text
    BY <1>5, <1>7 DEF FirstOfText
  <2>2. text \notin ToSet(context) /\ added[k] \in ToSet(log) /\ ~IsPrompt(added[k])
    BY <2>1 DEF UnknownToContext
  <2>3. Places(context, text) = {}
    BY <1>2, <2>2, ElementsOf DEF Places
  <2>4. ASSUME NEW i \in 1 .. Len(texts), texts[i] = text
        PROVE  i = k
    <3>1. PICK p \in 1 .. Len(log) : log[p] = added[i] /\ \A q \in 1 .. p - 1 : log[q] \in UnknownToContext => SyncText(log[q]) # SyncText(added[i])
      BY <1>5 DEF FirstOfText
    <3>2. PICK r \in 1 .. Len(log) : log[r] = added[k] /\ \A q \in 1 .. r - 1 : log[q] \in UnknownToContext => SyncText(log[q]) # SyncText(added[k])
      BY <1>5 DEF FirstOfText
    <3>3. log[p] \in UnknownToContext /\ SyncText(added[i]) = text /\ SyncText(added[k]) = text /\ log[r] \in UnknownToContext
      BY <1>5, <2>1, <2>4, <3>1, <3>2 DEF FirstOfText
    <3>4. ~(p \in 1 .. r - 1) /\ ~(r \in 1 .. p - 1)
      BY <3>1, <3>2, <3>3
    <3>5. p = r
      BY <1>2, <3>4
    <3>6. QED
      BY <1>1, <3>1, <3>2, <3>5
  <2>5. Places(context', text) = {Len(context) + k}
    <3>1. Len(context) + k \in 1 .. Len(context') /\ context'[Len(context) + k] = text
      BY <1>3, <1>7
    <3>2. ASSUME NEW i \in 1 .. Len(context'), context'[i] = text
          PROVE  i = Len(context) + k
      <4>1. CASE i \in 1 .. Len(context)
        <5>1. context[i] = text
          BY <1>3, <3>2, <4>1
        <5>2. QED
          BY <2>3, <4>1, <5>1 DEF Places
      <4>2. CASE i - Len(context) \in 1 .. Len(texts) /\ i = Len(context) + (i - Len(context))
        <5>1. context'[Len(context) + (i - Len(context))] = texts[i - Len(context)]
          BY <1>3, <4>2
        <5>2. texts[i - Len(context)] = text
          BY <3>2, <4>2, <5>1
        <5>3. i - Len(context) = k
          BY <2>4, <4>2, <5>2
        <5>4. QED
          BY <4>2, <5>3
      <4>3. QED
        BY <1>4, <4>1, <4>2
    <3>3. QED
      BY <3>1, <3>2 DEF Places
  <2>6. Cardinality(Places(context', text)) = 1
    BY <2>5, FS_Singleton
  <2>7. QED
    BY <2>1, <2>2, <2>3, <2>6
<1>8. QED
  BY <1>6, <1>7

LEMMA SyncRoom ==
    ASSUME Basics, RoomForPrompt, Sync
    PROVE  RoomForPrompt'
<1>1. UNCHANGED <<posted, log, work>> /\ phase = "starting" /\ phase' = "synced" /\ work # NoWork
  BY DEF Sync, Basics, RunFits
<1>2. \A text : /\ Saying(text)' = Saying(text) /\ Asking(text)' = Asking(text) /\ ByName(text)' = ByName(text)
  BY <1>1, TextsStay DEF Saying, Asking, ByName, ContextTexts
<1>3. ASSUME NEW text, ByName(text)
      PROVE  Cardinality(Places(context', text)) + (IF Asking(text) THEN 1 ELSE 0) <= Cardinality(Saying(text))
  <2>1. Cardinality(Places(context, text)) + (IF Asking(text) THEN 1 ELSE 0) <= Cardinality(Saying(text))
    BY <1>3 DEF RoomForPrompt
  <2>2. CASE Places(context', text) = Places(context, text)
    BY <2>1, <2>2
  <2>3. ASSUME Cardinality(Places(context', text)) = 1,
               NEW n \in ToSet(log), SyncText(n) = text, ~IsPrompt(n)
        PROVE  Cardinality(Places(context', text)) + (IF Asking(text) THEN 1 ELSE 0) <= Cardinality(Saying(text))
    <3>1. n \in Saying(text)
      BY <1>3, <2>3, SameByName DEF Saying, ByName
    <3>2. Asking(text) => work.n \in Saying(text) /\ work.n # n
      BY <1>1, <2>3 DEF Asking, IsPrompt, Saying, Basics, RunFits
    <3>3. Cardinality(Saying(text)) \in Nat /\ Cardinality(Saying(text)) >= 1
      BY <3>1, SaidBy, SayingFinite
    <3>4. Asking(text) => Cardinality(Saying(text)) >= 2
      BY <3>1, <3>2, SaidBy
    <3>5. QED
      BY <2>3, <3>3, <3>4
  <2>4. QED
    BY <2>2, <2>3, SyncAddsOnce
<1>4. QED
  BY <1>2, <1>3 DEF RoomForPrompt

LEMMA PromptRoom ==
    ASSUME Basics, RoomForPrompt, Prompt
    PROVE  RoomForPrompt'
<1>1. UNCHANGED <<posted, log, work>> /\ phase = "synced" /\ phase' = "prompting" /\ work # NoWork
  BY DEF Prompt, Basics, RunFits
<1>2. \A text : /\ Saying(text)' = Saying(text) /\ ~Asking(text)' /\ ByName(text)' = ByName(text)
  BY <1>1, TextsStay DEF Saying, Asking, ByName, ContextTexts
<1>3. ASSUME NEW text, ByName(text)
      PROVE  Cardinality(Places(context', text)) <= Cardinality(Saying(text))
  <2>1. Cardinality(Places(context, text)) + (IF Asking(text) THEN 1 ELSE 0) <= Cardinality(Saying(text))
    BY <1>3 DEF RoomForPrompt
  <2>2. Cardinality(Places(context, text)) \in Nat /\ Cardinality(Saying(text)) \in Nat
    BY PostedParts, PlacesFinite, SayingFinite
  <2>3. CASE work.type # "user"
    BY <2>1, <2>2, <2>3 DEF Prompt
  <2>4. CASE work.type = "user"
    <3>1. context \in Seq(ContextTexts) /\ PromptText(work.n) \in ContextTexts
      BY <1>1, <2>4, PostedParts DEF Basics, RunFits
    <3>2. context' = Append(context, PromptText(work.n))
      BY <2>4 DEF Prompt
    <3>3. Cardinality(Places(context', text)) = Cardinality(Places(context, text)) + (IF PromptText(work.n) = text THEN 1 ELSE 0)
      BY <3>1, <3>2, PlacesOfAppend
    <3>4. Asking(text) <=> PromptText(work.n) = text
      BY <1>1, <2>4 DEF Asking
    <3>5. QED
      BY <2>1, <3>3, <3>4
  <2>5. QED
    BY <2>3, <2>4
<1>4. \A text : Cardinality(Places(context', text)) \in Nat
  <2>1. context' \in Seq(ContextTexts)
    BY RunBasics DEF Basics, ChannelTypeOK
  <2>2. QED
    BY <2>1, PlacesFinite
<1>5. QED
  BY <1>2, <1>3, <1>4 DEF RoomForPrompt

LEMMA ReceiveRoom ==
    ASSUME Basics, Basics', NewIsNew, RoomForPrompt, NEW i \in 1 .. Len(pending), Receive(i)
    PROVE  RoomForPrompt'
<1> DEFINE n == pending[i]
<1>1. /\ UNCHANGED <<posted, startupTs, context>> /\ conn = "up" /\ n \in ToSet(pending)
      /\ ToSet(log') = ToSet(log) \cup {n}
  BY Receiving DEF Receive
<1>2. \/ UNCHANGED <<queue, work, phase>>
      \/ /\ work = NoWork /\ phase = "none" /\ phase' = "starting" /\ queue' = queue
         /\ work' = [type |-> "user", n |-> n] /\ n > startupTs
  BY ReceiveBasics
<1> HIDE DEF n
<1>3. \A m : PromptText(m)' = PromptText(m)
  BY <1>1, TextsStay
<1>4. CASE UNCHANGED <<queue, work, phase>>
  <2>1. \A text : Asking(text)' => Asking(text)
    BY <1>3, <1>4 DEF Asking
  <2>2. QED
    BY <1>1, <1>3, <2>1, RoomStays
<1>5. CASE phase = "none" /\ work' = [type |-> "user", n |-> n] /\ n > startupTs
  <2>1. n \notin ToSet(log)
    BY <1>1, <1>5 DEF NewIsNew
  <2>2. ASSUME NEW text, ByName(text)
        PROVE  Cardinality(Places(context, text)) + (IF Asking(text)' THEN 1 ELSE 0) <= Cardinality(Saying(text)')
    <3>1. /\ Cardinality(Places(context, text)) \in Nat /\ Cardinality(Saying(text)) \in Nat
          /\ IsFiniteSet(Saying(text))
      BY PostedParts, PlacesFinite, SayingFinite
    <3>2. Cardinality(Places(context, text)) <= Cardinality(Saying(text))
      <4>1. ~Asking(text)
        BY <1>5 DEF Asking
      <4>2. QED
        BY <2>2, <3>1, <4>1 DEF RoomForPrompt
    <3>3. CASE PromptText(n) = text
      <4>1. Saying(text)' = Saying(text) \cup {n} /\ n \notin Saying(text)
        BY <1>1, <1>3, <2>1, <3>3 DEF Saying
      <4>2. Cardinality(Saying(text)') = Cardinality(Saying(text)) + 1
        BY <3>1, <4>1, FS_AddElement
      <4>3. QED
        BY <3>1, <3>2, <4>2
    <3>4. CASE PromptText(n) # text
      <4>1. Saying(text)' = Saying(text) /\ ~Asking(text)'
        BY <1>1, <1>3, <1>5, <3>4 DEF Saying, Asking
      <4>2. QED
        BY <3>1, <3>2, <4>1
    <3>5. QED
      BY <3>3, <3>4
  <2>3. QED
    BY <1>1, <2>2 DEF RoomForPrompt, ByName, ContextTexts
<1>6. QED
  BY <1>2, <1>4, <1>5

LEMMA CrashRoom ==
    ASSUME Basics, Basics', RoomForPrompt, Crash
    PROVE  RoomForPrompt'
<1>1. UNCHANGED <<posted, log>> /\ context' \in {context, <<>>} /\ phase' = "none"
  BY DEF Crash
<1>2. \A text : /\ Saying(text)' = Saying(text) /\ ~Asking(text)' /\ ByName(text)' = ByName(text)
  BY <1>1, TextsStay DEF Saying, Asking, ByName, ContextTexts
<1>3. CASE context' = context
  BY <1>1, <1>2, <1>3, TextsStay, RoomStays
<1>4. CASE context' = <<>>
  <2>1. \A text : Places(context', text) = {}
    BY <1>4 DEF Places
  <2>2. ASSUME NEW text
        PROVE  Cardinality({}) + 0 <= Cardinality(Saying(text))
    <3>1. Cardinality({}) = 0 /\ Cardinality(Saying(text)) \in Nat
      BY FS_EmptySet, SayingFinite
    <3>2. QED
      BY <3>1
  <2>3. QED
    BY <1>2, <2>1, <2>2 DEF RoomForPrompt
<1>5. QED
  BY <1>1, <1>3, <1>4

LEMMA RoomKept ==
    ASSUME Basics, Basics', NewIsNew, RoomForPrompt, [ChannelNext]_channelVars
    PROVE  RoomForPrompt'
<1>1. ASSUME NEW message \in Messages, Post(message)
      PROVE  RoomForPrompt'
  <2>1. UNCHANGED <<log, context, phase, work>> /\ \A n \in ToSet(log) : PromptText(n)' = PromptText(n)
    BY <1>1, Posting, PostedParts DEF Post, fileVars, runVars
  <2>2. \A text : Asking(text)' => Asking(text)
    BY <2>1 DEF Asking, Basics, RunFits
  <2>3. QED
    BY <2>1, <2>2, RoomStays
<1>2. CASE Backfill
  <2>1. UNCHANGED <<posted, context, phase, work>> /\ ToSet(log) \subseteq ToSet(log')
    BY <1>2, Fetching DEF Backfill, runVars
  <2>2. \A n : PromptText(n)' = PromptText(n)
    BY <2>1, TextsStay
  <2>3. \A text : Asking(text)' => Asking(text)
    BY <2>1, <2>2 DEF Asking
  <2>4. QED
    BY <2>1, <2>2, <2>3, RoomStays
<1>3. CASE Connect \/ EnqueueEvent \/ Answer \/ Finish \/ RunFails \/ UNCHANGED channelVars
  <2>1. UNCHANGED <<posted, log, context>>
    BY <1>3, EndRunBasics DEF Connect, EnqueueEvent, Answer, fileVars, channelVars
  <2>2. \A n : PromptText(n)' = PromptText(n)
    BY <2>1, TextsStay
  <2>3. \/ UNCHANGED <<phase, work>>
        \/ phase' \in {"none", "finishing"}
        \/ work'.type = "event"
    <3>1. CASE Finish \/ RunFails
      BY <3>1, EndRunBasics
    <3>2. CASE EnqueueEvent
      BY <3>2, EnqueueBasics
    <3>3. QED
      BY <1>3, <3>1, <3>2 DEF Connect, Answer, runVars, channelVars
  <2>4. \A text : Asking(text)' => Asking(text)
    BY <2>2, <2>3 DEF Asking
  <2>5. QED
    BY <2>1, <2>2, <2>4, RoomStays
<1>4. ASSUME NEW i \in 1 .. Len(pending), Receive(i)
      PROVE  RoomForPrompt'
  BY <1>4, ReceiveRoom
<1>5. QED
  BY <1>1, <1>2, <1>3, <1>4, SyncRoom, PromptRoom, CrashRoom DEF ChannelNext, Run

(* What the sync leaves out of the context is there, or is the prompt.      *)
LEMMA SyncLeavesNone ==
    ASSUME Basics, Sync
    PROVE  SyncedKnown'
<1>1. UNCHANGED <<posted, log, work>> /\ synced' = ToSet(log) /\ \A n : IsPrompt(n)' = IsPrompt(n)
  BY DEF Sync, IsPrompt
<1>2. PICK texts \in Seq(ContextTexts), added \in Seq(Numbers) :
              /\ context' = context \o texts /\ Len(texts) = Len(added)
              /\ \A i \in 1 .. Len(texts) : texts[i] = SyncText(added[i])
              /\ ToSet(added) = FirstOfText(UnknownToContext)
              /\ \A i, j \in 1 .. Len(added) : added[i] = added[j] => i = j
  BY Syncing
<1>3. context \in Seq(ContextTexts) /\ log \in Seq(Numbers) /\ Len(log) \in Nat
  BY PostedParts
<1>4. ToSet(context') = ToSet(context) \cup ToSet(texts)
  <2>1. texts \in Seq(ContextTexts) /\ context' = context \o texts
    BY <1>2
  <2>2. ToSet(context \o texts) = ToSet(context) \cup ToSet(texts)
    BY <1>3, <2>1, ElementsOfBoth
  <2>3. QED
    BY <2>1, <2>2
<1>5. ASSUME NEW n \in ToSet(log), ~IsPrompt(n)
      PROVE  SyncText(n) \in ToSet(context')
  <2>1. CASE SyncText(n) \in ToSet(context)
    BY <1>4, <2>1
  <2>2. CASE SyncText(n) \notin ToSet(context)
    <3> DEFINE P == {j \in 1 .. Len(log) : log[j] \in UnknownToContext /\ SyncText(log[j]) = SyncText(n)}
    <3>1. n \in UnknownToContext
      BY <1>5, <2>2 DEF UnknownToContext
    <3>2. P # {} /\ P \in SUBSET Nat
      <4>1. PICK j \in 1 .. Len(log) : log[j] = n
        BY <1>3, ElementsOf
      <4>2. QED
        BY <3>1, <4>1
    <3>3. PICK j \in P : \A i \in P : j <= i
      <4> HIDE DEF P
      <4>1. QED
        BY <3>2, FirstPlace
    <3>4. j \in 1 .. Len(log) /\ log[j] \in UnknownToContext /\ SyncText(log[j]) = SyncText(n)
      BY <3>3
    <3>5. ASSUME NEW i \in 1 .. j - 1, log[i] \in UnknownToContext
          PROVE  SyncText(log[i]) # SyncText(log[j])
      <4>1. i \in 1 .. Len(log) /\ ~(j <= i)
        BY <1>3, <3>4
      <4>2. i \notin P
        BY <3>3, <4>1
      <4>3. QED
        BY <3>4, <3>5, <4>1, <4>2
    <3>6. log[j] \in FirstOfText(UnknownToContext)
      BY <3>4, <3>5 DEF FirstOfText
    <3> HIDE DEF P
    <3>7. PICK k \in 1 .. Len(added) : added[k] = log[j]
      BY <1>2, <3>6, ElementsOf
    <3>8. k \in 1 .. Len(texts) /\ texts[k] = SyncText(log[j])
      BY <1>2, <3>7
    <3>9. texts[k] \in ToSet(texts)
      BY <1>2, <3>8, ElementsOf
    <3>10. QED
      BY <1>4, <3>4, <3>8, <3>9
  <2>3. QED
    BY <2>1, <2>2
<1>6. QED
  BY <1>1, <1>5, TextsStay DEF SyncedKnown

LEMMA PromptAtEnd ==
    ASSUME Basics, SyncedKnown, Prompt
    PROVE  AllIsKnown'
<1>1. UNCHANGED <<posted, work, synced>> /\ phase = "synced" /\ work # NoWork
  BY DEF Prompt, Basics, RunFits
<1>2. \A n : SyncText(n)' = SyncText(n) /\ PromptText(n)' = PromptText(n)
  BY <1>1, TextsStay
<1>3. \A n \in synced : IsPrompt(n) \/ SyncText(n) \in ToSet(context)
  BY <1>1 DEF SyncedKnown
<1>4. CASE work.type # "user"
  <2>1. context' = context /\ \A n : ~IsPrompt(n)
    BY <1>4 DEF Prompt, IsPrompt
  <2>2. QED
    BY <1>1, <1>2, <1>3, <1>4, <2>1 DEF AllIsKnown
<1>5. CASE work.type = "user"
  <2>1. context \in Seq(ContextTexts) /\ PromptText(work.n) \in ContextTexts
    BY <1>1, <1>5, PostedParts DEF Basics, RunFits
  <2>2. context' = Append(context, PromptText(work.n))
    BY <1>5 DEF Prompt
  <2>3. /\ ToSet(context') = ToSet(context) \cup {PromptText(work.n)}
        /\ Last(context') = PromptText(work.n)
    BY <2>1, <2>2, ElementsOfAppend DEF Last
  <2>4. \A n : IsPrompt(n) => n = work.n
    BY DEF IsPrompt
  <2>5. \A n \in synced : {SyncText(n), PromptText(n)} \cap ToSet(context') # {}
    BY <1>3, <2>3, <2>4
  <2>6. QED
    BY <1>1, <1>2, <2>3, <2>5 DEF AllIsKnown
<1>6. QED
  BY <1>4, <1>5

(* Steps after which the run is where it was, or not between sync and       *)
(* answer.                                                                  *)
LEMMA KnownStays ==
    ASSUME Basics, SyncedKnown, AllIsKnown, context' = context,
           \A n \in 1 .. Len(posted) : SyncText(n)' = SyncText(n) /\ PromptText(n)' = PromptText(n),
           phase' \in {"synced", "prompting"} => UNCHANGED <<phase, work, synced>>
    PROVE  SyncedKnown' /\ AllIsKnown'
<1>1. CASE phase' \notin {"synced", "prompting"}
  BY <1>1 DEF SyncedKnown, AllIsKnown
<1>2. CASE UNCHANGED <<phase, work, synced>>
  <2>1. synced \subseteq 1 .. Len(posted) /\ (phase # "none" /\ work.type = "user" => work.n \in 1 .. Len(posted))
    BY PostedParts DEF Basics, RunFits
  <2>2. \A n : IsPrompt(n)' = IsPrompt(n)
    BY <1>2 DEF IsPrompt
  <2>3. SyncedKnown'
    BY <1>2, <2>1, <2>2 DEF SyncedKnown
  <2>4. AllIsKnown'
    BY <1>2, <2>1 DEF AllIsKnown
  <2>5. QED
    BY <2>3, <2>4
<1>3. QED
  BY <1>1, <1>2

LEMMA KnownKept ==
    ASSUME Basics, SyncedKnown, AllIsKnown, [ChannelNext]_channelVars
    PROVE  SyncedKnown' /\ AllIsKnown'
<1>1. ASSUME NEW message \in Messages, Post(message)
      PROVE  SyncedKnown' /\ AllIsKnown'
  <2>1. UNCHANGED <<context, phase, work, synced>>
    BY <1>1 DEF Post, fileVars, runVars
  <2>2. \A n \in 1 .. Len(posted) : SyncText(n)' = SyncText(n) /\ PromptText(n)' = PromptText(n)
    BY <1>1, Posting
  <2>3. QED
    BY <2>1, <2>2, KnownStays
<1>2. CASE Backfill \/ Connect \/ UNCHANGED channelVars
  <2>1. UNCHANGED <<posted, context, phase, work, synced>>
    BY <1>2 DEF Backfill, Connect, fileVars, runVars, channelVars
  <2>2. QED
    BY <2>1, TextsStay, KnownStays
<1>3. ASSUME NEW i \in 1 .. Len(pending), Receive(i)
      PROVE  SyncedKnown' /\ AllIsKnown'
  <2>1. UNCHANGED <<posted, context, synced>> /\ (UNCHANGED <<phase, work>> \/ phase' = "starting")
    BY <1>3, ReceiveBasics DEF Receive
  <2>2. QED
    BY <2>1, TextsStay, KnownStays
<1>4. CASE EnqueueEvent
  <2>1. UNCHANGED <<posted, context, synced>> /\ (UNCHANGED <<phase, work>> \/ phase' = "starting")
    BY <1>4, EnqueueBasics DEF EnqueueEvent, fileVars
  <2>2. QED
    BY <2>1, TextsStay, KnownStays
<1>5. CASE Answer \/ Finish \/ RunFails
  <2>1. UNCHANGED <<posted, context>> /\ phase' \in {"none", "starting", "finishing"}
    BY <1>5, EndRunBasics DEF Answer
  <2>2. QED
    BY <2>1, TextsStay, KnownStays
<1>6. CASE Crash
  <2>1. phase' = "none"
    BY <1>6 DEF Crash
  <2>2. QED
    BY <2>1 DEF SyncedKnown, AllIsKnown
<1>7. CASE Sync
  <2>1. phase' = "synced"
    BY <1>7 DEF Sync
  <2>2. QED
    BY <1>7, <2>1, SyncLeavesNone DEF AllIsKnown
<1>8. CASE Prompt
  <2>1. phase' = "prompting"
    BY <1>8 DEF Prompt
  <2>2. QED
    BY <1>8, <2>1, PromptAtEnd DEF SyncedKnown
<1>9. QED
  BY <1>1, <1>2, <1>3, <1>4, <1>5, <1>6, <1>7, <1>8 DEF ChannelNext, Run

-----------------------------------------------------------------------------
(* The theorems.                                                            *)

LEMMA BasicsKept ==
    ASSUME Basics, [ChannelNext]_channelVars
    PROVE  Basics'
<1>1. CASE UNCHANGED channelVars
  BY <1>1 DEF channelVars, Basics, ChannelTypeOK, Numbered, RunFits, OnlyEventsWait
<1>2. QED
  BY <1>1, PostBasics, StartBasics, ReceiveBasics, EnqueueBasics, RunBasics, EndRunBasics, CrashBasics DEF ChannelNext, Run

LEMMA Initially == ChannelInit => ChannelInv
<1>1. SUFFICES ASSUME ChannelInit
               PROVE  ChannelInv
  OBVIOUS
<1>2. ToSet(log) = {} /\ ToSet(pending) = {} /\ ToSet(queue) = {} /\ ToSet(context) = {}
  BY <1>1 DEF ChannelInit, ToSet
<1>3. Basics
  <2>1. /\ Len(<<>>) = 0 /\ <<>> \in Seq(Messages) /\ <<>> \in Seq(Numbers) /\ <<>> \in Seq(ContextTexts)
        /\ <<>> \in Seq(Works)
    BY EmptySeq
  <2>2. ChannelTypeOK
    <3>1. posted \in Seq(Messages) /\ Len(posted) <= MaxMessages /\ pending \in Seq(Numbers) /\ log \in Seq(Numbers)
      BY <1>1, <2>1, BoundsTyped DEF ChannelInit
    <3>2. context \in Seq(ContextTexts) /\ queue \in Seq(Works)
      BY <1>1, <2>1 DEF ChannelInit
    <3>3. starts \in 0 .. MaxStarts /\ startupTs \in 0 .. MaxMessages /\ unasked \in 0 .. MaxMessages /\ events \in 0 .. MaxEvents
      BY <1>1, BoundsTyped DEF ChannelInit
    <3>4. /\ conn \in {"down", "backfilled", "up"} /\ flushed \in BOOLEAN /\ work \in Works \cup {NoWork}
          /\ phase \in {"none", "starting", "synced", "prompting", "finishing"}
          /\ synced \subseteq Numbers /\ occurred \subseteq ChannelFaultKinds \cup {"manyMissed"}
      BY <1>1 DEF ChannelInit
    <3>5. QED
      BY <3>1, <3>2, <3>3, <3>4 DEF ChannelTypeOK
  <2>3. Numbered /\ RunFits /\ OnlyEventsWait
    BY <1>1, <1>2, <2>1, BoundsTyped DEF ChannelInit, Numbered, RunFits, OnlyEventsWait
  <2>4. QED
    BY <2>2, <2>3 DEF Basics
<1>4. LoggedOnce /\ LogFollows /\ NewIsNew /\ SyncedKnown /\ AllIsKnown
  BY <1>1, <1>2 DEF ChannelInit, LoggedOnce, LogFollows, NoGaps, NothingLacks, NewIsNew, SyncedKnown, AllIsKnown
<1>5. RoomForPrompt
  <2>1. \A text : Places(context, text) = {} /\ ~Asking(text)
    BY <1>1 DEF ChannelInit, Places, Asking
  <2>2. \A text : Cardinality(Saying(text)) \in Nat
    BY <1>3, SayingFinite
  <2>3. Cardinality({}) = 0
    BY FS_EmptySet
  <2>4. QED
    BY <2>1, <2>2, <2>3 DEF RoomForPrompt
<1>6. QED
  BY <1>3, <1>4, <1>5 DEF ChannelInv

(* The inductive invariant holds: every step of a channel keeps it.         *)
THEOREM ChannelInvariant == ChannelSpec => []ChannelInv
<1>1. ChannelInit => ChannelInv
  BY Initially
<1>2. ChannelInv /\ [ChannelNext]_channelVars => ChannelInv'
  <2>1. SUFFICES ASSUME ChannelInv, [ChannelNext]_channelVars
                 PROVE  ChannelInv'
    OBVIOUS
  <2>2. Basics'
    BY <2>1, BasicsKept DEF ChannelInv
  <2>3. LoggedOnce' /\ LogFollows' /\ NewIsNew'
    BY <2>1, LogKept DEF ChannelInv
  <2>4. SyncedKnown' /\ AllIsKnown'
    BY <2>1, KnownKept DEF ChannelInv
  <2>5. RoomForPrompt'
    BY <2>1, <2>2, RoomKept DEF ChannelInv
  <2>6. QED
    BY <2>2, <2>3, <2>4, <2>5 DEF ChannelInv
<1>3. QED
  BY <1>1, <1>2, PTL DEF ChannelSpec

(* The queue and the run are in step, for any number of messages and events *)
(* and any limit of the queue: only events wait, no more than may, and      *)
(* nothing waits while nothing is worked on (ChannelQueue of slack.ts).     *)
THEOREM QueueStaysSound == ChannelSpec => []QueueIsSound
<1>1. ChannelInv => QueueIsSound
  BY DEF ChannelInv, Basics, QueueIsSound
<1>2. QED
  BY <1>1, ChannelInvariant, PTL

(* Nothing that was said is missing in log.jsonl, and nothing is there      *)
(* twice before a crash, but for the exceptions the property names.         *)
THEOREM LogStaysComplete == ChannelSpec => []LogIsComplete
<1>1. ChannelInv => LogIsComplete
  <2>1. SUFFICES ASSUME ChannelInv, conn = "up", InTime
                 PROVE  /\ \A n \in unasked + 1 .. Len(posted) : n \in ToSet(log) \cup ToSet(pending)
                        /\ "crash" \notin occurred => IsInjective(log)
    BY DEF LogIsComplete, InTime
  <2>2. unasked \in Nat /\ Len(posted) \in Nat /\ log \in Seq(Numbers)
    BY <2>1, PostedParts DEF ChannelInv, Basics, ChannelTypeOK
  <2>3. ASSUME NEW n \in unasked + 1 .. Len(posted)
        PROVE  n \in ToSet(log) \cup ToSet(pending)
    <3>1. n \in 1 .. Len(posted) /\ unasked < n
      BY <2>2
    <3>2. QED
      BY <2>1, <3>1 DEF ChannelInv, LogFollows, NothingLacks
  <2>4. "crash" \notin occurred => IsInjective(log)
    BY <2>1, <2>2 DEF ChannelInv, LoggedOnce, IsInjective
  <2>5. QED
    BY <2>3, <2>4
<1>2. QED
  BY <1>1, ChannelInvariant, PTL

(* What the LLM is given has everything that was logged when the run began, *)
(* the message that is answered at its end, and no text of a user by name   *)
(* more often than the user said it: the comparison by text (context.ts)    *)
(* neither loses nor repeats.                                               *)
THEOREM ContextStaysInStep == ChannelSpec => []ContextFollowsLog
<1>1. ChannelInv => ContextFollowsLog
  <2>1. SUFFICES ASSUME ChannelInv
                 PROVE  NothingTwice
    BY DEF ChannelInv, ContextFollowsLog
  <2>2. ASSUME NEW text \in ContextTexts, text[1] = "name"
        PROVE  Cardinality(Places(context, text)) <= Cardinality(Saying(text))
    <3>1. Cardinality(Places(context, text)) + (IF Asking(text) THEN 1 ELSE 0) <= Cardinality(Saying(text))
      BY <2>1, <2>2 DEF ChannelInv, RoomForPrompt, ByName
    <3>2. Basics /\ context \in Seq(ContextTexts)
      BY <2>1, PostedParts DEF ChannelInv
    <3>3. Cardinality(Places(context, text)) \in Nat /\ Cardinality(Saying(text)) \in Nat
      BY <3>2, PlacesFinite, SayingFinite
    <3>4. QED
      BY <3>1, <3>3
  <2>3. QED
    BY <2>2 DEF NothingTwice, Places, Saying
<1>2. QED
  BY <1>1, ChannelInvariant, PTL
=============================================================================
