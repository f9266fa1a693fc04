---------------------------- MODULE SettingsStore ---------------------------
(* SettingsManager (core/settings-manager.ts): several pi processes and    *)
(* the user's editor share one settings file.  A setter changes the        *)
(* process's own copy at once and queues a write; the write merges the     *)
(* fields changed since the last one into whatever the file holds then.    *)
(*                                                                         *)
(* One scope: global and project settings are two such files.  A field is  *)
(* a field of the file or of an object nested in it.  A value is a number  *)
(* (when it was set) and who set it.                                       *)
EXTENDS Naturals, Sequences, SequencesExt

CONSTANTS
    Procs, Fields,
    User,           \* who edits the file by hand
    Nil, Dead,      \* no process; a process that is gone
    Faults,         \* what may happen besides: subset of FaultKinds
    MaxSets         \* bound: values ever set, by hand or by a process

FaultKinds == {"edit", "reload", "crash"}

ASSUME FaultsAssumption == Faults \subseteq FaultKinds
ASSUME NamesAssumption == User \notin Procs /\ Nil \notin Procs /\ Dead \notin Procs /\ Nil # Dead
ASSUME MaxSetsAssumption == MaxSets \in Nat

VARIABLES
    file,           \* the settings file: absent, valid JSON or not
    lock,           \* holder of the file's lock, Dead when it has died
    alive,          \* alive[p]: the process runs
    settings,       \* settings[p]: globalSettings
    modified,       \* modified[p]: modifiedFields
    loadError,      \* loadError[p]: globalSettingsLoadError
    writeQueue,     \* writeQueue[p]: tasks with the snapshot they were made with
    reading,        \* reading[p]: the file as the running task has read it, or Nil
    sets,           \* number of values set so far
    saved,          \* every value that has been in the file
    happened        \* what the properties make exceptions for

vars == <<file, lock, alive, settings, modified, loadError, writeQueue, reading, sets, saved, happened>>

Unset == [n |-> 0, by |-> Nil]
Values == [n : 0 .. MaxSets, by : Procs \cup {User, Nil}]
Empty == [f \in Fields |-> Unset]
Files == [status : {"absent", "valid", "invalid"}, values : [Fields -> Values]]
Tasks == [values : [Fields -> Values], fields : SUBSET Fields]

ValuesIn(values) == {values[f] : f \in Fields}

TypeOK ==
    /\ file \in Files
    /\ lock \in Procs \cup {Nil, Dead}
    /\ alive \in [Procs -> BOOLEAN]
    /\ settings \in [Procs -> [Fields -> Values]]
    /\ modified \in [Procs -> SUBSET Fields]
    /\ loadError \in [Procs -> BOOLEAN]
    /\ writeQueue \in [Procs -> Seq(Tasks)]
    /\ reading \in [Procs -> Files \cup {Nil}]
    /\ sets \in 0 .. MaxSets
    /\ saved \subseteq Values
    /\ happened \subseteq {"editedInWrite", "createdTwice", "failedAfterClear"}

Init ==
    /\ file \in {[status |-> s, values |-> Empty] : s \in {"absent", "valid"}}
    /\ lock = Nil
    /\ alive = [p \in Procs |-> FALSE]
    /\ settings = [p \in Procs |-> Empty]
    /\ modified = [p \in Procs |-> {}]
    /\ loadError = [p \in Procs |-> FALSE]
    /\ writeQueue = [p \in Procs |-> <<>>]
    /\ reading = [p \in Procs |-> Nil]
    /\ sets = 0 /\ saved = {} /\ happened = {}

(* JavaScript of p runs: it is not inside a synchronous write.             *)
Runs(p) == alive[p] /\ reading[p] = Nil

-----------------------------------------------------------------------------
(* loadFromStorage throws: the file is no JSON, or its lock is taken.      *)
LoadFails == file.status = "invalid" \/ (file.status = "valid" /\ lock # Nil)
LoadedValues == IF file.status = "valid" THEN file.values ELSE Empty

(* SettingsManager.create                                                  *)
Start(p) ==
    /\ ~alive[p]
    /\ alive' = [alive EXCEPT ![p] = TRUE]
    /\ settings' = [settings EXCEPT ![p] = IF LoadFails THEN Empty ELSE LoadedValues]
    /\ loadError' = [loadError EXCEPT ![p] = LoadFails]
    /\ UNCHANGED <<file, lock, modified, writeQueue, reading, sets, saved, happened>>

(* reload(): the marks go in any case, queued writes stay queued.          *)
Reload(p) ==
    /\ "reload" \in Faults /\ Runs(p)
    /\ IF LoadFails THEN UNCHANGED settings ELSE settings' = [settings EXCEPT ![p] = LoadedValues]
    /\ loadError' = [loadError EXCEPT ![p] = LoadFails]
    /\ modified' = [modified EXCEPT ![p] = {}]
    /\ UNCHANGED <<file, lock, alive, writeQueue, reading, sets, saved, happened>>

(* A setter: the process's copy, the mark, and save(), which queues a      *)
(* write of everything marked unless the file could not be loaded.         *)
Set(p, f) ==
    LET values == [settings[p] EXCEPT ![f] = [n |-> sets + 1, by |-> p]]
        fields == modified[p] \cup {f}
    IN  /\ Runs(p) /\ sets < MaxSets
        /\ sets' = sets + 1
        /\ settings' = [settings EXCEPT ![p] = values]
        /\ modified' = [modified EXCEPT ![p] = fields]
        /\ writeQueue' = IF loadError[p] THEN writeQueue
                         ELSE [writeQueue EXCEPT ![p] = Append(@, [values |-> values, fields |-> fields])]
        /\ UNCHANGED <<file, lock, alive, loadError, reading, saved, happened>>

-----------------------------------------------------------------------------
(* Mutant: writes the snapshot as it is.                                   *)
MergedAll(task, base) == [f \in Fields |-> task.values[f]]

(* persistScopedSettings merges the marked fields of the snapshot.         *)
Merged(task, base) ==
    [f \in Fields |-> IF f \in task.fields THEN task.values[f]
                      ELSE IF base.status = "valid" THEN base.values[f] ELSE Unset]

(* withLock up to the read: an existing file is locked first, a file that  *)
(* does not exist is not.                                                  *)
BeginWrite(p) ==
    /\ Runs(p) /\ writeQueue[p] # <<>>
    /\ \/ file.status = "absent" /\ UNCHANGED lock
       \/ file.status # "absent" /\ lock = Nil /\ lock' = p
    /\ reading' = [reading EXCEPT ![p] = file]
    /\ UNCHANGED <<file, alive, settings, modified, loadError, writeQueue, sets, saved, happened>>

(* The task throws: the lock is taken, or the file is no JSON.  The error  *)
(* is recorded, the next task is run all the same, and the marks stay: the *)
(* next write includes the fields again (unless an earlier write has       *)
(* cleared them).                                                          *)
CannotLock(p) ==
    IF reading[p] = Nil THEN file.status # "absent" /\ lock # Nil
    ELSE reading[p].status = "absent" /\ lock # Nil

(* Mutant: the marks are cleared whether the write succeeds or not.        *)
AfterFailureCleared(p) == {}

AfterFailure(p) == modified[p]

(* Mutant: without the catch the chain of writes stays rejected.           *)
QueueAfterFailureStuck(p) == writeQueue[p]

QueueAfterFailure(p) == Tail(writeQueue[p])

WriteFails(p) ==
    /\ alive[p] /\ writeQueue[p] # <<>>
    /\ CannotLock(p) \/ (reading[p] # Nil /\ reading[p].status = "invalid")
    /\ writeQueue' = [writeQueue EXCEPT ![p] = QueueAfterFailure(p)]
    /\ modified' = [modified EXCEPT ![p] = AfterFailure(p)]
    /\ reading' = [reading EXCEPT ![p] = Nil]
    /\ lock' = IF lock = p THEN Nil ELSE lock
    /\ happened' = IF Head(writeQueue[p]).fields \subseteq modified[p] THEN happened
                   ELSE happened \cup {"failedAfterClear"}
    /\ UNCHANGED <<file, alive, settings, loadError, sets, saved>>

(* The rest of the task: write, release, clear the marks - all of them,    *)
(* those of saves that are still queued too.                               *)
EndWrite(p) ==
    LET base == reading[p]
        values == Merged(Head(writeQueue[p]), base)
    IN  /\ alive[p] /\ base # Nil
        /\ base.status # "invalid" /\ ~CannotLock(p)
        /\ file' = [status |-> "valid", values |-> values]
        /\ saved' = saved \cup ValuesIn(values)
        /\ lock' = Nil
        /\ reading' = [reading EXCEPT ![p] = Nil]
        /\ writeQueue' = [writeQueue EXCEPT ![p] = Tail(@)]
        /\ modified' = [modified EXCEPT ![p] = {}]
        /\ happened' = IF base.status = "absent" /\ file.status # "absent"
                       THEN happened \cup {"createdTwice"} ELSE happened
        /\ UNCHANGED <<alive, settings, loadError, sets>>

-----------------------------------------------------------------------------
(* The user edits a field, or breaks or repairs the file, without a lock.  *)
Edit(f, status) ==
    /\ "edit" \in Faults /\ sets < MaxSets
    /\ sets' = sets + 1
    /\ file' = [status |-> status, values |-> [file.values EXCEPT ![f] = [n |-> sets + 1, by |-> User]]]
    /\ saved' = saved \cup ValuesIn(file'.values)
    /\ happened' = IF \E p \in Procs : reading[p] # Nil THEN happened \cup {"editedInWrite"} ELSE happened
    /\ UNCHANGED <<lock, alive, settings, modified, loadError, writeQueue, reading>>

(* The process dies, perhaps in the middle of writing the file; a lock it  *)
(* holds stays until it is old enough to be taken over.                    *)
Crash(p) ==
    /\ "crash" \in Faults /\ alive[p]
    /\ alive' = [alive EXCEPT ![p] = FALSE]
    /\ reading' = [reading EXCEPT ![p] = Nil]
    /\ writeQueue' = [writeQueue EXCEPT ![p] = <<>>]
    /\ modified' = [modified EXCEPT ![p] = {}]
    /\ \/ lock' = (IF lock = p THEN Dead ELSE lock) /\ UNCHANGED file
       \/ /\ reading[p] # Nil /\ reading[p].status # "invalid" /\ ~CannotLock(p)
          /\ lock' = Dead /\ file' = [file EXCEPT !.status = "invalid"]
    /\ UNCHANGED <<settings, loadError, sets, saved, happened>>

LockExpires ==
    /\ lock = Dead /\ lock' = Nil
    /\ UNCHANGED <<file, alive, settings, modified, loadError, writeQueue, reading, sets, saved, happened>>

Work(p) == BeginWrite(p) \/ WriteFails(p) \/ EndWrite(p)

Next ==
    \/ \E p \in Procs : Start(p) \/ Reload(p) \/ Crash(p) \/ Work(p)
    \/ \E p \in Procs, f \in Fields : Set(p, f)
    \/ \E f \in Fields, status \in {"valid", "invalid"} : Edit(f, status)
    \/ LockExpires

Spec == Init /\ [][Next]_vars
FairSpec == Spec /\ \A p \in Procs : WF_vars(Work(p))

-----------------------------------------------------------------------------
(* A setting the user changed in this process and that never reached the   *)
(* file is still going to be written: marked or in the queue.  Exceptions: *)
(* a process that could not load the file does not write; and a write that *)
(* fails after an earlier one has cleared its marks is given up.           *)
ChangeIsPending ==
    "failedAfterClear" \notin happened =>
        \A p \in Procs, f \in Fields :
            LET value == settings[p][f] IN
            alive[p] /\ value.by = p /\ value \notin saved =>
                \/ loadError[p]
                \/ f \in modified[p]
                \/ \E task \in ToSet(writeQueue[p]) : f \in task.fields /\ task.values[f] = value

(* Memory, marks and queue of a process agree, and no change is forgotten.  *)
NothingForgotten == TypeOK /\ ChangeIsPending

(* A process's write changes no setting but those changed in it, whatever  *)
(* others have put in the file since it was loaded, and it never replaces  *)
(* a file it cannot read.  Exceptions: an edit by hand while the write is  *)
(* under way, and two processes that create the file at once.              *)
OthersChangesKept ==
    [][\A p \in Procs :
        EndWrite(p) /\ happened' \cap {"editedInWrite", "createdTwice"} = {} =>
            /\ file.status # "invalid"
            /\ \A f \in Fields : file'.values[f] # file.values[f] => file'.values[f].by = p]_vars

(* flush() comes back: every queued write is tried, failures or not.       *)
FlushReturns == \A p \in Procs : writeQueue[p] # <<>> ~> writeQueue[p] = <<>>
=============================================================================
