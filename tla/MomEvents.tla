------------------------------ MODULE MomEvents ------------------------------
(* EventsWatcher (packages/mom/src/events.ts): programs and mom herself put *)
(* files into a directory, the watcher turns each into an event for a       *)
(* channel's queue - at once, at its time, or periodically - and deletes    *)
(* it.  Reading a file is asynchronous and is tried again, as the file may  *)
(* be half written; the file may change, go or come back meanwhile.         *)
EXTENDS Naturals, FiniteSets

CONSTANTS
    Files,
    Handlers,       \* calls of handleFile that may be under way
    Nil,
    Faults,         \* what may happen besides: subset of FaultKinds
    MaxRetries,     \* MAX_RETRIES: 3
    MaxWrites,      \* bound: contents ever written to a file
    MaxFaults       \* bound: kinds of faults in one behaviour

Kinds == {"immediate", "oneshot", "periodic", "badcron", "broken"}
FaultKinds == {"overlap", "overlaps", "late", "restart", "full"}

ASSUME FaultsAssumption == Faults \subseteq FaultKinds
ASSUME BoundsAssumption == MaxRetries \in Nat \ {0} /\ MaxWrites \in Nat /\ MaxFaults \in Nat

VARIABLES
    disk,           \* disk[f]: what the file holds; each content is written once
    written,        \* number of contents written
    due,            \* numbers of the one-shot contents whose time has come
    stale,          \* numbers of contents older than the watcher's start
    up,             \* the watcher runs
    changed,        \* changed[f]: a debounced file system event is pending
    knownFiles,
    handler,        \* handler[h]: the call's file, failed attempts, and content read
    armed,          \* timers and cron jobs that have not been cancelled
    timers, crons,  \* the maps of them by file name
    ran,            \* contents that were queued, and those queued once more
    ranTwice,
    dropped,        \* contents discarded because the queue was full
    happened        \* what the properties make exceptions for

vars == <<disk, written, due, stale, up, changed, knownFiles, handler, armed, timers, crons,
          ran, ranTwice, dropped, happened>>

Contents == [n : 1 .. MaxWrites, kind : Kinds]
Idle == [file |-> Nil, tries |-> 0, at |-> "idle", read |-> Nil]

(* A timer or cron job: the file and event it is for, and a number of its   *)
(* own, as there may be several for one content.                            *)
Jobs == [file : Files, event : Contents, k : Nat]

ASSUME NilAssumption == Nil \notin Files \cup Contents \cup Jobs

TypeOK ==
    /\ disk \in [Files -> Contents \cup {Nil}]
    /\ written \in 0 .. MaxWrites
    /\ due \subseteq 1 .. MaxWrites
    /\ stale \subseteq 1 .. MaxWrites
    /\ up \in BOOLEAN
    /\ changed \in [Files -> BOOLEAN]
    /\ knownFiles \subseteq Files
    /\ handler \in [Handlers -> [file : Files \cup {Nil}, tries : 0 .. MaxRetries,
                                 at : {"idle", "reading", "read"}, read : Contents \cup {Nil}]]
    /\ armed \subseteq Jobs
    /\ timers \in [Files -> armed \cup {Nil}]
    /\ crons \in [Files -> armed \cup {Nil}]
    /\ ran \subseteq Contents /\ ranTwice \subseteq ran /\ dropped \subseteq Contents
    /\ happened \subseteq FaultKinds

NothingScheduled ==
    /\ changed = [f \in Files |-> FALSE]
    /\ knownFiles = {}
    /\ armed = {}
    /\ timers = [f \in Files |-> Nil] /\ crons = [f \in Files |-> Nil]

Init ==
    /\ disk = [f \in Files |-> Nil]
    /\ written = 0 /\ due = {} /\ stale = {}
    /\ up = FALSE
    /\ NothingScheduled
    /\ handler = [h \in Handlers |-> Idle]
    /\ ran = {} /\ ranTwice = {} /\ dropped = {}
    /\ happened = {}

MayHappen(fault) == fault \in Faults /\ Cardinality(happened \cup {fault}) <= MaxFaults

(* A call of handleFile begins while another for the same file is under     *)
(* way; bound: more than once only with "overlaps".                         *)
MayOverlap == MayHappen("overlap") /\ ("overlap" \in happened => "overlaps" \in Faults)

IsDue(job, f) == job.file = f /\ job.event.kind = "oneshot" /\ job.event.n \in due
Handling(f) == {h \in Handlers : handler[h].file = f}
Parses(content) == content # Nil /\ content.kind # "broken"

-----------------------------------------------------------------------------
(* Others write and delete files, time passes.  It is late for a change     *)
(* when the watcher is about to act on what it has read before.             *)
ChangeFile(f, content) ==
    /\ disk' = [disk EXCEPT ![f] = content]
    /\ changed' = [changed EXCEPT ![f] = up]
    /\ IF (\E h \in Handling(f) : handler[h].at = "read") \/ \E job \in armed : IsDue(job, f)
       THEN MayHappen("late") /\ happened' = happened \cup {"late"}
       ELSE UNCHANGED happened
    /\ UNCHANGED <<due, up, knownFiles, handler, armed, timers, crons, ran, ranTwice, dropped>>

WriteFile(f, kind) ==
    /\ written < MaxWrites
    /\ written' = written + 1
    /\ UNCHANGED stale
    /\ ChangeFile(f, [n |-> written + 1, kind |-> kind])

RemoveFile(f) == disk[f] # Nil /\ ChangeFile(f, Nil) /\ UNCHANGED <<written, stale>>

(* The same content again: what changes is the time of the file.            *)
TouchFile(f) ==
    /\ disk[f] # Nil /\ up
    /\ ChangeFile(f, disk[f])
    /\ stale' = stale \ {disk[f].n}
    /\ UNCHANGED written

ComesDue(n) ==
    /\ n \in 1 .. written /\ n \notin due
    /\ \E content \in {disk[f] : f \in Files} \cup {job.event : job \in armed} :
        content # Nil /\ content.n = n /\ content.kind = "oneshot"
    /\ due' = due \cup {n}
    /\ IF \E job \in armed : job.event.n = n /\ changed[job.file]
       THEN MayHappen("late") /\ happened' = happened \cup {"late"}
       ELSE UNCHANGED happened
    /\ UNCHANGED <<disk, written, stale, up, changed, knownFiles, handler, armed, timers, crons,
                   ran, ranTwice, dropped>>

-----------------------------------------------------------------------------
(* deleteFile, which the watcher then hears of.                             *)
DeleteFile(f) ==
    /\ disk' = [disk EXCEPT ![f] = Nil]
    /\ changed' = [changed EXCEPT ![f] = @ \/ disk[f] # Nil]
    /\ knownFiles' = knownFiles \ {f}

(* Mutant: the file is not remembered as one that is scheduled.             *)
KeepFileUnknown(f) == UNCHANGED <<disk, changed, knownFiles>>

KeepFile(f) == UNCHANGED <<disk, changed>> /\ knownFiles' = knownFiles \cup {f}

(* execute: to the channel's queue, unless five wait there already.  The    *)
(* file goes in either case, unless the event is periodic.                  *)
Execute(event) ==
    \/ /\ ran' = ran \cup {event}
       /\ ranTwice' = ranTwice \cup (ran \cap {event})
       /\ UNCHANGED <<dropped, happened>>
    \/ /\ MayHappen("full")
       /\ dropped' = dropped \cup {event}
       /\ happened' = happened \cup {"full"}
       /\ UNCHANGED <<ran, ranTwice>>
NotExecuted == UNCHANGED <<ran, ranTwice, dropped, happened>>

(* handleFile is called; its first read is under way.                       *)
Reading(f) == [Idle EXCEPT !.file = f, !.at = "reading"]
FreeHandler == CHOOSE h \in Handlers : handler[h] = Idle

(* Mutant: the directory is watched only.                                   *)
ScannedNone == {}

(* scanExisting: the files that are there.                                  *)
Scanned == {f \in Files : disk[f] # Nil}

(* start(): every file there is read, then the directory is watched.        *)
Start ==
    /\ ~up
    /\ up' = TRUE
    /\ stale' = {disk[f].n : f \in {f \in Files : disk[f] # Nil}}
    /\ handler' \in {call \in [Handlers -> {Reading(f) : f \in Scanned} \cup {Idle}] :
                        \A f \in Scanned : \E h \in Handlers : \A g \in Handlers : call[g].file = f <=> g = h}
    /\ UNCHANGED <<disk, written, due, changed, knownFiles, armed, timers, crons,
                   ran, ranTwice, dropped, happened>>

(* stop() and the end of the process, or a crash: the same, as nothing of   *)
(* it is persisted.                                                         *)
Stop ==
    /\ up /\ MayHappen("restart")
    /\ up' = FALSE
    /\ changed' = [f \in Files |-> FALSE]
    /\ knownFiles' = {} /\ armed' = {}
    /\ timers' = [f \in Files |-> Nil] /\ crons' = [f \in Files |-> Nil]
    /\ handler' = [h \in Handlers |-> Idle]
    /\ happened' = happened \cup {"restart"}
    /\ UNCHANGED <<disk, written, due, stale, ran, ranTwice, dropped>>

(* Mutant: a file that was deleted keeps its timer.                         *)
CancelledIfThere(f) == IF disk[f] = Nil THEN {} ELSE {timers[f], crons[f]}

(* Mutant: a file that has changed is scheduled once more.                  *)
CancelledIfGone(f) == IF disk[f] # Nil THEN {} ELSE {timers[f], crons[f]}

(* cancelScheduled stops what the maps know of.                             *)
Cancelled(f) == {timers[f], crons[f]}

(* handleFileChange, when the debounce timer of the file fires.             *)
HandleFileChange(f) ==
    /\ up /\ changed[f]
    /\ changed' = [changed EXCEPT ![f] = FALSE]
    /\ IF f \in knownFiles
       THEN /\ armed' = armed \ Cancelled(f)
            /\ timers' = [timers EXCEPT ![f] = Nil]
            /\ crons' = [crons EXCEPT ![f] = Nil]
       ELSE UNCHANGED <<armed, timers, crons>>
    /\ IF disk[f] = Nil
       THEN knownFiles' = knownFiles \ {f} /\ UNCHANGED handler
       ELSE /\ \E h \in Handlers : handler[h] = Idle
            /\ handler' = [handler EXCEPT ![FreeHandler] = Reading(f)]
            /\ UNCHANGED knownFiles
    /\ IF Handling(f) # {} THEN MayOverlap /\ happened' = happened \cup {"overlap"}
       ELSE UNCHANGED happened
    /\ UNCHANGED <<disk, written, due, stale, up, ran, ranTwice, dropped>>

-----------------------------------------------------------------------------
(* readFile reads.                                                          *)
Read(h) ==
    /\ handler[h].at = "reading"
    /\ handler' = [handler EXCEPT ![h].at = "read", ![h].read = disk[handler[h].file]]
    /\ UNCHANGED <<disk, written, due, stale, up, changed, knownFiles, armed, timers, crons,
                   ran, ranTwice, dropped, happened>>

Continues(h, f, event) ==
    /\ handler[h].at = "read" /\ handler[h].file = f /\ handler[h].read = event
    /\ UNCHANGED <<written, due, stale, up>>

(* It could not be read or parsed: again, after a while.                    *)
TryAgain(h) ==
    /\ handler[h].at = "read" /\ ~Parses(handler[h].read) /\ handler[h].tries + 1 < MaxRetries
    /\ handler' = [handler EXCEPT ![h] = [Reading(@.file) EXCEPT !.tries = handler[h].tries + 1]]
    /\ UNCHANGED <<disk, written, due, stale, up, changed, knownFiles, armed, timers, crons,
                   ran, ranTwice, dropped, happened>>

GiveUp(h, f, content) ==
    /\ Continues(h, f, content) /\ ~Parses(content) /\ handler[h].tries + 1 >= MaxRetries
    /\ DeleteFile(f)
    /\ handler' = [handler EXCEPT ![h] = Idle]
    /\ UNCHANGED <<armed, timers, crons>> /\ NotExecuted

(* An immediate event: nothing when the file has gone, no execution when    *)
(* the file - as it is now - is older than the watcher's start.             *)
HandleImmediate(h, f, event) ==
    /\ Continues(h, f, event) /\ event # Nil /\ event.kind = "immediate"
    /\ \/ disk[f] = Nil /\ KeepFile(f) /\ NotExecuted
       \/ disk[f] # Nil /\ disk[f].n \in stale /\ DeleteFile(f) /\ NotExecuted
       \/ disk[f] # Nil /\ disk[f].n \notin stale /\ DeleteFile(f) /\ Execute(event)
    /\ handler' = [handler EXCEPT ![h] = Idle]
    /\ UNCHANGED <<armed, timers, crons>>

NewJob(f, event) ==
    [file |-> f, event |-> event,
     k |-> CHOOSE k \in 0 .. Cardinality(armed) : [file |-> f, event |-> event, k |-> k] \notin armed]

HandleOneShot(h, f, event) ==
    /\ Continues(h, f, event) /\ event # Nil /\ event.kind = "oneshot"
    /\ \/ event.n \in due /\ DeleteFile(f) /\ UNCHANGED <<armed, timers>>
       \/ /\ event.n \notin due /\ KeepFile(f)
          /\ armed' = armed \cup {NewJob(f, event)}
          /\ timers' = [timers EXCEPT ![f] = NewJob(f, event)]
    /\ handler' = [handler EXCEPT ![h] = Idle]
    /\ UNCHANGED crons /\ NotExecuted

HandlePeriodic(h, f, event) ==
    /\ Continues(h, f, event) /\ event # Nil /\ event.kind \in {"periodic", "badcron"}
    /\ \/ event.kind = "badcron" /\ DeleteFile(f) /\ UNCHANGED <<armed, crons>>
       \/ /\ event.kind = "periodic" /\ KeepFile(f)
          /\ armed' = armed \cup {NewJob(f, event)}
          /\ crons' = [crons EXCEPT ![f] = NewJob(f, event)]
    /\ handler' = [handler EXCEPT ![h] = Idle]
    /\ UNCHANGED timers /\ NotExecuted

(* A one-shot's timer fires.  (The timer of a cron job fires any number of  *)
(* times and leaves everything as it is.)                                   *)
TimerFires(job) ==
    /\ job \in armed /\ job.event.kind = "oneshot" /\ job.event.n \in due
    /\ armed' = armed \ {job}
    /\ timers' = [timers EXCEPT ![job.file] = Nil]
    /\ Execute(job.event)
    /\ DeleteFile(job.file)
    /\ UNCHANGED <<written, due, stale, up, handler, crons>>

Continue(h) ==
    \/ TryAgain(h)
    \/ \E f \in Files, content \in Contents \cup {Nil} :
        \/ GiveUp(h, f, content)
        \/ HandleImmediate(h, f, content)
        \/ HandleOneShot(h, f, content)
        \/ HandlePeriodic(h, f, content)

Next ==
    \/ \E f \in Files, kind \in Kinds : WriteFile(f, kind)
    \/ \E f \in Files : RemoveFile(f) \/ TouchFile(f) \/ HandleFileChange(f)
    \/ \E n \in 1 .. MaxWrites : ComesDue(n)
    \/ Start \/ Stop
    \/ \E h \in Handlers : Read(h) \/ Continue(h)
    \/ \E job \in armed : TimerFires(job)

Spec == Init /\ [][Next]_vars

FairSpec ==
    /\ Spec
    /\ \A f \in Files : WF_vars(HandleFileChange(f))
    /\ \A h \in Handlers : WF_vars(Read(h)) /\ WF_vars(Continue(h))

-----------------------------------------------------------------------------
(* An immediate or one-shot event is queued at most once, over rewrites,    *)
(* retries and restarts of the watcher.  Exceptions: for a one-shot, a file *)
(* system event that is handled while the file is still being read for the  *)
(* last one, for one in the wait between two attempts; for an immediate one *)
(* the same, when moreover the file comes back in the moment in which the   *)
(* watcher acts on what it has read.                                        *)
OnceOnly ==
    \A event \in ranTwice : "overlap" \in happened /\ (event.kind = "oneshot" \/ "late" \in happened)

(* When nothing is pending for a file, what is scheduled for it is what the *)
(* file says now, once: no timer or cron job of an earlier content or of a  *)
(* deleted file is left.                                                    *)
OnlyAsWritten ==
    "overlap" \notin happened =>
        \A f \in Files :
            ~changed[f] /\ Handling(f) = {} =>
                {job \in armed : job.file = f} \subseteq
                    {job \in {timers[f], crons[f]} : disk[f] # Nil /\ job # Nil /\ job.event = disk[f]}

(* The watcher's maps and handlers agree with each other and with the files.*)
ScheduleFollowsFiles == TypeOK /\ OnlyAsWritten

(* The watcher deletes no content it has not read.  Exceptions: the same.   *)
UnreadIsKept ==
    [][\A f \in Files :
        up /\ disk[f] # Nil /\ disk'[f] = Nil /\ ~RemoveFile(f) /\ happened \cap {"overlap", "late"} = {} =>
            \/ \E h \in Handling(f) : handler[h].read = disk[f]
            \/ \E job \in armed : job.file = f /\ job.event = disk[f]]_vars

(* Whatever has been written is dealt with: read, and scheduled or removed, *)
(* as long as the watcher runs.                                             *)
EverythingIsTaken ==
    \A f \in Files :
        (up /\ disk[f] # Nil) ~> (~up \/ disk[f] = Nil \/ \E job \in armed : job.event = disk[f])
=============================================================================
