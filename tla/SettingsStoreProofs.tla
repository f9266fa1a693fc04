------------------------ MODULE SettingsStoreProofs -------------------------
(* What SettingsStore promises, for any processes, fields and faults: the  *)
(* types of its variables, that a change is not forgotten before it is     *)
(* written, and that a write keeps what others have put in the file.       *)
EXTENDS SettingsStore, SequenceTheorems, TLAPS

(* A process that is gone has nothing under way, and what is under way is  *)
(* the first task of the queue.                                            *)
IdleWhenDead ==
    \A p \in Procs :
        /\ ~alive[p] => reading[p] = Nil /\ writeQueue[p] = <<>> /\ modified[p] = {}
        /\ reading[p] # Nil => writeQueue[p] # <<>>

(* Every marked field is in the last task of the queue as it is in memory, *)
(* so that clearing all the marks with the first task's write loses none.  *)
LastHasAllMarked ==
    \A p \in Procs : ~loadError[p] /\ writeQueue[p] # <<>> =>
        \A f \in modified[p] : /\ f \in Last(writeQueue[p]).fields
                               /\ Last(writeQueue[p]).values[f] = settings[p][f]

FileIsSaved ==
    /\ \A f \in Fields : file.values[f] \in saved \cup {Unset}
    /\ file.status = "absent" => file.values = Empty

(* What a process marks, it has set itself.                                *)
MarksAreOwn ==
    \A p \in Procs, f \in Fields :
        /\ f \in modified[p] => settings[p][f].by = p
        /\ \A task \in ToSet(writeQueue[p]) : f \in task.fields => task.values[f].by = p

(* What a write has read from an existing file is still there.             *)
Orderly == happened \cap {"editedInWrite", "createdTwice"} = {}
LockProtects ==
    Orderly => \A p \in Procs : reading[p] # Nil /\ reading[p].status # "absent" => lock = p /\ file = reading[p]

Inv == NothingForgotten /\ IdleWhenDead /\ LastHasAllMarked /\ FileIsSaved /\ MarksAreOwn /\ LockProtects

-----------------------------------------------------------------------------
(* The queue of a process without its first task, and with one more.       *)
LEMMA TailOfQueue ==
  ASSUME NEW S, NEW s \in Seq(S), s # <<>>
  PROVE  /\ Head(s) \in S /\ Tail(s) \in Seq(S)
         /\ ToSet(s) = {Head(s)} \cup ToSet(Tail(s))
         /\ Tail(s) # <<>> => Last(Tail(s)) = Last(s)
         /\ Tail(s) = <<>> => Last(s) = Head(s)
         /\ Last(s) \in ToSet(s) /\ ToSet(s) \subseteq S
<1>1. Len(s) \in Nat \ {0} /\ DOMAIN s = 1 .. Len(s) /\ Head(s) = s[1]
  BY EmptySeq, LenProperties
<1>2. /\ Head(s) \in S /\ Tail(s) \in Seq(S) /\ Len(Tail(s)) = Len(s) - 1
      /\ \A i \in 1 .. Len(Tail(s)) : Tail(s)[i] = s[i + 1]
  BY HeadTailProperties
<1>3. DOMAIN Tail(s) = 1 .. Len(s) - 1
  BY <1>2, LenProperties
<1>4. ToSet(s) = {Head(s)} \cup ToSet(Tail(s))
  <2>1. ASSUME NEW i \in 1 .. Len(s)
        PROVE  s[i] \in {Head(s)} \cup ToSet(Tail(s))
    <3>1. CASE i = 1
      BY <1>1, <3>1
    <3>2. CASE i # 1
      <4>1. i - 1 \in 1 .. Len(s) - 1 /\ Tail(s)[i - 1] = s[i]
        BY <1>1, <1>2, <3>2
      <4>2. QED
        BY <1>3, <4>1 DEF ToSet
    <3>3. QED
      BY <3>1, <3>2
  <2>2. ASSUME NEW i \in 1 .. Len(s) - 1
        PROVE  Tail(s)[i] \in ToSet(s)
    <3>1. i + 1 \in 1 .. Len(s) /\ Tail(s)[i] = s[i + 1]
      BY <1>1, <1>2
    <3>2. QED
      BY <1>1, <3>1 DEF ToSet
  <2>3. Head(s) \in ToSet(s)
    BY <1>1 DEF ToSet
  <2>4. QED
    BY <1>1, <1>3, <2>1, <2>2, <2>3 DEF ToSet
<1>5. Tail(s) # <<>> => Last(Tail(s)) = Last(s)
  <2> SUFFICES ASSUME Tail(s) # <<>>
               PROVE  Last(Tail(s)) = Last(s)
    OBVIOUS
  <2>1. Len(s) - 1 \in 1 .. Len(s) - 1
    BY <1>1, <1>2, EmptySeq
  <2>2. QED
    BY <1>1, <1>2, <2>1 DEF Last
<1>6. Tail(s) = <<>> => Last(s) = Head(s)
  <2>1. Len(<<>>) = 0
    OBVIOUS
  <2>2. Tail(s) = <<>> => Len(s) = 1
    BY <1>1, <1>2, <2>1
  <2>3. QED
    BY <1>1, <2>2 DEF Last
<1>7. Last(s) \in ToSet(s)
  BY <1>1 DEF Last, ToSet
<1>8. ToSet(s) \subseteq S
  BY LenProperties DEF ToSet
<1>9. QED
  BY <1>2, <1>4, <1>5, <1>6, <1>7, <1>8

(* What is in a queue with one more task, and which task is its last.      *)
LEMMA AppendToQueue ==
  ASSUME NEW S, NEW s \in Seq(S), NEW e \in S
  PROVE  /\ Append(s, e) \in Seq(S) /\ Append(s, e) # <<>>
         /\ ToSet(Append(s, e)) = ToSet(s) \cup {e}
         /\ Last(Append(s, e)) = e
<1>1. /\ Append(s, e) \in Seq(S) /\ Append(s, e) # <<>> /\ Len(Append(s, e)) = Len(s) + 1
      /\ \A i \in 1 .. Len(s) : Append(s, e)[i] = s[i]
      /\ Append(s, e)[Len(s) + 1] = e
  BY AppendProperties
<1>2. Len(s) \in Nat /\ DOMAIN s = 1 .. Len(s)
  BY LenProperties
<1>3. DOMAIN Append(s, e) = 1 .. Len(s) + 1
  BY <1>1, LenProperties
<1>4. \A i : i \in 1 .. Len(s) + 1 <=> i \in 1 .. Len(s) \/ i = Len(s) + 1
  BY <1>2
<1>5. ToSet(Append(s, e)) = ToSet(s) \cup {e}
  BY <1>1, <1>2, <1>3, <1>4 DEF ToSet
<1>6. QED
  BY <1>1, <1>5 DEF Last

(* There is nothing in an empty queue.                                     *)
LEMMA EmptyQueue == ToSet(<<>>) = {}
BY DEF ToSet

(* A file without settings has the type of a file.                         *)
LEMMA EmptyIsTyped == Unset \in Values /\ Empty \in [Fields -> Values]
BY MaxSetsAssumption DEF Unset, Values, Empty

-----------------------------------------------------------------------------
(* The types hold at the start ...                                         *)
LEMMA TypeInit == Init => TypeOK
BY EmptyIsTyped, MaxSetsAssumption DEF Init, TypeOK, Files

(* ... of what a write merges ...                                          *)
LEMMA MergedIsTyped ==
  ASSUME NEW task \in Tasks, NEW base \in Files
  PROVE  Merged(task, base) \in [Fields -> Values]
BY EmptyIsTyped DEF Merged, Tasks, Files

(* ... and through every step.                                             *)
LEMMA TypeStep == TypeOK /\ IdleWhenDead /\ [Next]_vars => TypeOK'
<1> SUFFICES ASSUME TypeOK, IdleWhenDead, [Next]_vars
             PROVE  TypeOK'
  OBVIOUS
<1>1. LoadedValues \in [Fields -> Values] /\ LoadFails \in BOOLEAN
  BY EmptyIsTyped DEF TypeOK, Files, LoadedValues, LoadFails
<1>2. ASSUME NEW p \in Procs, Start(p)
      PROVE  TypeOK'
  <2>1. settings' \in [Procs -> [Fields -> Values]]
    BY <1>1, <1>2, EmptyIsTyped DEF Start, TypeOK
  <2>2. loadError' \in [Procs -> BOOLEAN] /\ alive' \in [Procs -> BOOLEAN]
    BY <1>1, <1>2, Zenon DEF Start, TypeOK
  <2>3. QED
    BY <1>2, <2>1, <2>2 DEF Start, TypeOK
<1>3. ASSUME NEW p \in Procs, Reload(p)
      PROVE  TypeOK'
  <2>1. settings' \in [Procs -> [Fields -> Values]] /\ modified' \in [Procs -> SUBSET Fields]
    BY <1>1, <1>3 DEF Reload, TypeOK
  <2>2. loadError' \in [Procs -> BOOLEAN]
    BY <1>1, <1>3, Zenon DEF Reload, TypeOK
  <2>3. QED
    BY <1>3, <2>1, <2>2 DEF Reload, TypeOK
<1>4. ASSUME NEW p \in Procs, NEW f \in Fields, Set(p, f)
      PROVE  TypeOK'
  <2> DEFINE values == [settings[p] EXCEPT ![f] = [n |-> sets + 1, by |-> p]]
             fields == modified[p] \cup {f}
             task == [values |-> values, fields |-> fields]
  <2>1. sets + 1 \in 0 .. MaxSets
    BY <1>4, MaxSetsAssumption DEF Set, TypeOK
  <2>2. values \in [Fields -> Values] /\ fields \in SUBSET Fields
    BY <2>1 DEF TypeOK, Values
  <2>3. task \in Tasks
    BY <2>2 DEF Tasks
  <2>4. Append(writeQueue[p], task) \in Seq(Tasks)
    BY <2>3, AppendToQueue DEF TypeOK
  <2>5. /\ sets' = sets + 1 /\ settings' = [settings EXCEPT ![p] = values]
        /\ modified' = [modified EXCEPT ![p] = fields]
        /\ writeQueue' = IF loadError[p] THEN writeQueue
                         ELSE [writeQueue EXCEPT ![p] = Append(writeQueue[p], task)]
    BY <1>4 DEF Set
  <2> HIDE DEF values, fields, task
  <2>6. QED
    BY <1>4, <2>1, <2>2, <2>4, <2>5 DEF Set, TypeOK
<1>5. ASSUME NEW p \in Procs, BeginWrite(p)
      PROVE  TypeOK'
  BY <1>5 DEF BeginWrite, TypeOK
<1>6. ASSUME NEW p \in Procs, WriteFails(p)
      PROVE  TypeOK'
  <2>1. Tail(writeQueue[p]) \in Seq(Tasks)
    BY <1>6, TailOfQueue DEF WriteFails, TypeOK
  <2>2. QED
    BY <1>6, <2>1 DEF WriteFails, QueueAfterFailure, AfterFailure, TypeOK
<1>7. ASSUME NEW p \in Procs, EndWrite(p)
      PROVE  TypeOK'
  <2> DEFINE values == Merged(Head(writeQueue[p]), reading[p])
  <2>1. Tail(writeQueue[p]) \in Seq(Tasks) /\ Head(writeQueue[p]) \in Tasks /\ reading[p] \in Files
    BY <1>7, TailOfQueue DEF EndWrite, IdleWhenDead, TypeOK
  <2>2. values \in [Fields -> Values]
    BY <2>1, MergedIsTyped
  <2>3. file' = [status |-> "valid", values |-> values] /\ saved' = saved \cup ValuesIn(values)
    BY <1>7 DEF EndWrite
  <2> HIDE DEF values
  <2>4. file' \in Files /\ saved' \subseteq Values
    BY <2>2, <2>3 DEF Files, ValuesIn, TypeOK
  <2>5. QED
    BY <1>7, <2>1, <2>4 DEF EndWrite, TypeOK
<1>8. ASSUME NEW f \in Fields, NEW status \in {"valid", "invalid"}, Edit(f, status)
      PROVE  TypeOK'
  <2> DEFINE values == [file.values EXCEPT ![f] = [n |-> sets + 1, by |-> User]]
  <2>1. sets + 1 \in 0 .. MaxSets
    BY <1>8, MaxSetsAssumption DEF Edit, TypeOK
  <2>2. values \in [Fields -> Values]
    BY <2>1 DEF TypeOK, Files, Values
  <2>3. file' = [status |-> status, values |-> values]
    BY <1>8 DEF Edit
  <2> HIDE DEF values
  <2>4. file' \in Files /\ ValuesIn(file'.values) \subseteq Values
    BY <2>2, <2>3 DEF Files, ValuesIn
  <2>5. QED
    BY <1>8, <2>1, <2>4 DEF Edit, TypeOK
<1>9. ASSUME NEW p \in Procs, Crash(p)
      PROVE  TypeOK'
  <2>1. <<>> \in Seq(Tasks)
    BY EmptySeq
  <2>2. file' \in Files /\ lock' \in Procs \cup {Nil, Dead}
    BY <1>9 DEF Crash, TypeOK, Files
  <2>3. alive' \in [Procs -> BOOLEAN]
    BY <1>9, Zenon DEF Crash, TypeOK
  <2>4. QED
    BY <1>9, <2>1, <2>2, <2>3 DEF Crash, TypeOK
<1>10. CASE LockExpires
  BY <1>10 DEF LockExpires, TypeOK
<1>11. CASE UNCHANGED vars
  BY <1>11 DEF vars, TypeOK
<1>12. QED
  BY <1>2, <1>3, <1>4, <1>5, <1>6, <1>7, <1>8, <1>9, <1>10, <1>11 DEF Next, Work
-----------------------------------------------------------------------------
(* A crash takes what is under way with it.                                *)
LEMMA IdleStep == TypeOK /\ IdleWhenDead /\ [Next]_vars => IdleWhenDead'
<1> SUFFICES ASSUME TypeOK, IdleWhenDead, [Next]_vars, NEW p \in Procs
             PROVE  /\ ~alive'[p] => reading'[p] = Nil /\ writeQueue'[p] = <<>> /\ modified'[p] = {}
                    /\ reading'[p] # Nil => writeQueue'[p] # <<>>
  BY DEF IdleWhenDead
<1> DEFINE Goal == /\ ~alive'[p] => reading'[p] = Nil /\ writeQueue'[p] = <<>> /\ modified'[p] = {}
                   /\ reading'[p] # Nil => writeQueue'[p] # <<>>
<1>1. ASSUME NEW q \in Procs, Start(q) \/ Reload(q) \/ BeginWrite(q)
      PROVE  Goal
  BY <1>1 DEF Start, Reload, Runs, BeginWrite, IdleWhenDead, TypeOK
<1>2. ASSUME NEW q \in Procs, WriteFails(q) \/ EndWrite(q) \/ Crash(q)
      PROVE  Goal
  BY <1>2 DEF WriteFails, EndWrite, Crash, IdleWhenDead, TypeOK
<1>3. ASSUME NEW q \in Procs, NEW f \in Fields, Set(q, f)
      PROVE  Goal
  <2>1. alive[q] /\ reading[q] = Nil /\ UNCHANGED <<alive, reading>>
    BY <1>3 DEF Set, Runs
  <2>2. p # q => modified'[p] = modified[p] /\ writeQueue'[p] = writeQueue[p]
    BY <1>3 DEF Set, TypeOK
  <2>3. QED
    BY <2>1, <2>2 DEF IdleWhenDead
<1>4. ASSUME UNCHANGED <<alive, reading, writeQueue, modified>>
      PROVE  Goal
  BY <1>4 DEF IdleWhenDead
<1>5. QED
  BY <1>1, <1>2, <1>3, <1>4 DEF Next, Work, Edit, LockExpires, vars

(* What a setter does to its own process's memory, marks and queue.        *)
LEMMA SetStep ==
  ASSUME TypeOK, NEW p \in Procs, NEW f \in Fields, Set(p, f)
  PROVE  /\ modified'[p] = modified[p] \cup {f}
         /\ settings'[p][f].by = p /\ \A g \in Fields \ {f} : settings'[p][g] = settings[p][g]
         /\ loadError[p] => writeQueue'[p] = writeQueue[p]
         /\ ~loadError[p] => \E task \in Tasks :
              /\ task.values = settings'[p] /\ task.fields = modified'[p]
              /\ ToSet(writeQueue'[p]) = ToSet(writeQueue[p]) \cup {task}
              /\ Last(writeQueue'[p]) = task
         /\ \A q \in Procs \ {p} : /\ modified'[q] = modified[q] /\ settings'[q] = settings[q]
                                  /\ writeQueue'[q] = writeQueue[q]
<1> DEFINE values == [settings[p] EXCEPT ![f] = [n |-> sets + 1, by |-> p]]
           fields == modified[p] \cup {f}
           task == [values |-> values, fields |-> fields]
<1>1. sets + 1 \in 0 .. MaxSets
  BY MaxSetsAssumption DEF Set, TypeOK
<1>2. /\ values \in [Fields -> Values] /\ fields \in SUBSET Fields
      /\ values[f].by = p /\ \A g \in Fields \ {f} : values[g] = settings[p][g]
  BY <1>1 DEF TypeOK, Values
<1>3. task \in Tasks
  BY <1>2 DEF Tasks
<1>4. /\ settings' = [settings EXCEPT ![p] = values]
      /\ modified' = [modified EXCEPT ![p] = fields]
      /\ writeQueue' = IF loadError[p] THEN writeQueue
                       ELSE [writeQueue EXCEPT ![p] = Append(writeQueue[p], task)]
  BY DEF Set
<1>5. task.values = values /\ task.fields = fields
  OBVIOUS
<1> HIDE DEF values, fields, task
<1>6. settings'[p] = values /\ modified'[p] = fields
  BY <1>4 DEF TypeOK
<1>7. \A q \in Procs \ {p} : /\ modified'[q] = modified[q] /\ settings'[q] = settings[q]
                            /\ writeQueue'[q] = writeQueue[q]
  BY <1>4 DEF TypeOK
<1>8. CASE loadError[p]
  BY <1>2, <1>4, <1>6, <1>7, <1>8 DEF fields
<1>9. CASE ~loadError[p]
  <2>1. writeQueue[p] \in Seq(Tasks)
    BY DEF TypeOK
  <2>2. writeQueue'[p] = Append(writeQueue[p], task)
    BY <1>4, <1>9 DEF TypeOK
  <2>3. ToSet(writeQueue'[p]) = ToSet(writeQueue[p]) \cup {task} /\ Last(writeQueue'[p]) = task
    BY <1>3, <2>1, <2>2, AppendToQueue
  <2>4. modified'[p] = modified[p] \cup {f}
    BY <1>6 DEF fields
  <2>5. QED
    BY <1>2, <1>3, <1>5, <1>6, <1>7, <1>9, <2>3, <2>4
<1>10. QED
  BY <1>8, <1>9

(* What a queued write that is tried does to the queue: its task goes.     *)
LEMMA TaskGoes ==
  ASSUME TypeOK, NEW p \in Procs, writeQueue[p] # <<>>, NEW queue,
         queue = [writeQueue EXCEPT ![p] = Tail(writeQueue[p])]
  PROVE  /\ ToSet(writeQueue[p]) = {Head(writeQueue[p])} \cup ToSet(queue[p])
         /\ queue[p] # <<>> => Last(queue[p]) = Last(writeQueue[p])
         /\ queue[p] = <<>> => Last(writeQueue[p]) = Head(writeQueue[p])
         /\ Last(queue[p]) \in ToSet(queue[p]) \/ queue[p] = <<>>
         /\ \A q \in Procs \ {p} : queue[q] = writeQueue[q]
<1>1. writeQueue[p] \in Seq(Tasks) /\ queue[p] = Tail(writeQueue[p])
  BY DEF TypeOK
<1>2. Tail(writeQueue[p]) \in Seq(Tasks)
  BY <1>1, TailOfQueue
<1>3. QED
  BY <1>1, <1>2, TailOfQueue DEF TypeOK

(* A setter marks a field and queues all that is marked; tasks leave the  *)
(* queue at its other end.                                                 *)
LEMMA LastStep == TypeOK /\ IdleWhenDead /\ LastHasAllMarked /\ [Next]_vars => LastHasAllMarked'
<1> SUFFICES ASSUME TypeOK, IdleWhenDead, LastHasAllMarked, [Next]_vars
             PROVE  LastHasAllMarked'
  OBVIOUS
<1>0. TypeOK'
  BY TypeStep
<1> SUFFICES ASSUME NEW p \in Procs, ~loadError'[p], writeQueue'[p] # <<>>,
                    NEW f \in Fields, f \in modified'[p]
             PROVE  /\ f \in Last(writeQueue'[p]).fields
                    /\ Last(writeQueue'[p]).values[f] = settings'[p][f]
  BY <1>0 DEF LastHasAllMarked, TypeOK
<1> DEFINE Goal == /\ f \in Last(writeQueue'[p]).fields
                   /\ Last(writeQueue'[p]).values[f] = settings'[p][f]
<1>1. ASSUME modified'[p] = modified[p], settings'[p] = settings[p], writeQueue'[p] = writeQueue[p],
             loadError'[p] = loadError[p]
      PROVE  Goal
  BY <1>1 DEF LastHasAllMarked
<1>2. ASSUME NEW q \in Procs, Start(q)
      PROVE  Goal
  <2>1. CASE p = q
    BY <1>2, <2>1 DEF Start, IdleWhenDead
  <2>2. CASE p # q
    BY <1>1, <1>2, <2>2 DEF Start, TypeOK
  <2>3. QED
    BY <2>1, <2>2
<1>3. ASSUME NEW q \in Procs, Reload(q)
      PROVE  Goal
  <2>1. CASE p = q
    BY <1>3, <2>1 DEF Reload, TypeOK
  <2>2. CASE p # q
    BY <1>1, <1>3, <2>2 DEF Reload, TypeOK
  <2>3. QED
    BY <2>1, <2>2
<1>4. ASSUME NEW q \in Procs, NEW g \in Fields, Set(q, g)
      PROVE  Goal
  <2>1. loadError' = loadError
    BY <1>4 DEF Set
  <2>2. QED
    BY <1>1, <1>4, <2>1, SetStep
<1>5. ASSUME NEW q \in Procs, WriteFails(q)
      PROVE  Goal
  <2>1. /\ writeQueue' = [writeQueue EXCEPT ![q] = Tail(writeQueue[q])] /\ writeQueue[q] # <<>>
        /\ modified' = modified /\ UNCHANGED <<settings, loadError>>
    BY <1>5 DEF WriteFails, QueueAfterFailure, AfterFailure, TypeOK
  <2>2. p # q \/ Last(writeQueue'[q]) = Last(writeQueue[q])
    BY <2>1, TaskGoes
  <2>3. p # q => writeQueue'[p] = writeQueue[p]
    BY <2>1, TaskGoes
  <2>4. QED
    BY <2>1, <2>2, <2>3 DEF LastHasAllMarked
<1>6. ASSUME NEW q \in Procs, EndWrite(q) \/ Crash(q)
      PROVE  Goal
  <2>1. CASE p = q
    BY <1>6, <2>1 DEF EndWrite, Crash, TypeOK
  <2>2. CASE p # q
    BY <1>1, <1>6, <2>2 DEF EndWrite, Crash, TypeOK
  <2>3. QED
    BY <2>1, <2>2
<1>7. QED
  BY <1>1, <1>2, <1>3, <1>4, <1>5, <1>6 DEF Next, Work, BeginWrite, Edit, LockExpires, vars

(* What is written to the file is noted as saved.                          *)
LEMMA SavedStep == TypeOK /\ IdleWhenDead /\ FileIsSaved /\ [Next]_vars => FileIsSaved'
<1> SUFFICES ASSUME TypeOK, IdleWhenDead, FileIsSaved, [Next]_vars
             PROVE  FileIsSaved'
  OBVIOUS
<1>1. ASSUME NEW p \in Procs, EndWrite(p)
      PROVE  FileIsSaved'
  BY <1>1 DEF EndWrite, FileIsSaved, ValuesIn
<1>2. ASSUME NEW f \in Fields, NEW status \in {"valid", "invalid"}, Edit(f, status)
      PROVE  FileIsSaved'
  BY <1>2 DEF Edit, FileIsSaved, ValuesIn
<1>3. ASSUME NEW p \in Procs, Crash(p)
      PROVE  FileIsSaved'
  BY <1>3 DEF Crash, FileIsSaved, TypeOK, Files
<1>4. CASE UNCHANGED <<file, saved>>
  BY <1>4 DEF FileIsSaved
<1>5. QED
  BY <1>1, <1>2, <1>3, <1>4
     DEF Next, Work, Start, Reload, Set, BeginWrite, WriteFails, LockExpires, vars

(* Marks come from setters, and a reload takes them away.                  *)
LEMMA OwnStep == TypeOK /\ IdleWhenDead /\ MarksAreOwn /\ [Next]_vars => MarksAreOwn'
<1> SUFFICES ASSUME TypeOK, IdleWhenDead, MarksAreOwn, [Next]_vars, NEW p \in Procs, NEW f \in Fields
             PROVE  /\ f \in modified'[p] => settings'[p][f].by = p
                    /\ \A task \in ToSet(writeQueue'[p]) : f \in task.fields => task.values[f].by = p
  BY DEF MarksAreOwn
<1> DEFINE Goal == /\ f \in modified'[p] => settings'[p][f].by = p
                   /\ \A task \in ToSet(writeQueue'[p]) : f \in task.fields => task.values[f].by = p
<1>1. ASSUME modified'[p] = modified[p], settings'[p] = settings[p],
             ToSet(writeQueue'[p]) \subseteq ToSet(writeQueue[p])
      PROVE  Goal
  BY <1>1 DEF MarksAreOwn
<1>2. ASSUME modified'[p] = {}, ToSet(writeQueue'[p]) \subseteq ToSet(writeQueue[p])
      PROVE  Goal
  BY <1>2 DEF MarksAreOwn
<1>3. ASSUME NEW q \in Procs, Start(q) \/ Reload(q)
      PROVE  Goal
  <2>1. CASE p = q
    BY <1>2, <1>3, <2>1 DEF Start, Reload, IdleWhenDead, TypeOK
  <2>2. CASE p # q
    BY <1>1, <1>3, <2>2 DEF Start, Reload, TypeOK
  <2>3. QED
    BY <2>1, <2>2
<1>4. ASSUME NEW q \in Procs, NEW g \in Fields, Set(q, g)
      PROVE  Goal
  <2>1. CASE p = q
    <3>1. \A h \in modified'[p] : h \in Fields => settings'[p][h].by = p
      BY <1>4, <2>1, SetStep DEF MarksAreOwn
    <3>2. QED
      BY <1>4, <2>1, <3>1, SetStep DEF MarksAreOwn
  <2>2. CASE p # q
    BY <1>1, <1>4, <2>2, SetStep
  <2>3. QED
    BY <2>1, <2>2
<1>5. ASSUME NEW q \in Procs, WriteFails(q) \/ EndWrite(q)
      PROVE  Goal
  <2>1. writeQueue' = [writeQueue EXCEPT ![q] = Tail(writeQueue[q])] /\ writeQueue[q] # <<>>
    BY <1>5 DEF WriteFails, QueueAfterFailure, EndWrite, IdleWhenDead, TypeOK
  <2>2. ToSet(writeQueue'[p]) \subseteq ToSet(writeQueue[p])
    <3>1. ToSet(writeQueue'[q]) \subseteq ToSet(writeQueue[q])
      BY <2>1, TaskGoes
    <3>2. p # q => writeQueue'[p] = writeQueue[p]
      BY <2>1, TaskGoes
    <3>3. QED
      BY <3>1, <3>2
  <2>3. settings' = settings /\ (modified'[p] = modified[p] \/ modified'[p] = {})
    BY <1>5 DEF WriteFails, AfterFailure, EndWrite, TypeOK
  <2>4. QED
    BY <1>1, <1>2, <2>2, <2>3
<1>6. ASSUME NEW q \in Procs, Crash(q)
      PROVE  Goal
  <2>1. CASE p = q
    BY <1>2, <1>6, <2>1, EmptyQueue DEF Crash, TypeOK
  <2>2. CASE p # q
    BY <1>1, <1>6, <2>2 DEF Crash, TypeOK
  <2>3. QED
    BY <2>1, <2>2
<1>7. QED
  BY <1>1, <1>3, <1>4, <1>5, <1>6 DEF Next, Work, BeginWrite, Edit, LockExpires, vars

(* A write from an existing file holds the lock, so that nobody else's     *)
(* write can end, and no other can begin.                                  *)
LEMMA LockStep == TypeOK /\ IdleWhenDead /\ LockProtects /\ [Next]_vars => LockProtects'
<1> SUFFICES ASSUME TypeOK, IdleWhenDead, LockProtects, [Next]_vars, Orderly',
                    NEW p \in Procs, reading'[p] # Nil, reading'[p].status # "absent"
             PROVE  lock' = p /\ file' = reading'[p]
  BY DEF LockProtects
<1>1. Orderly
  BY DEF Orderly, Next, Work, Start, Reload, Set, BeginWrite, WriteFails, EndWrite, Edit, Crash,
         LockExpires, vars
<1>2. ASSUME reading'[p] = reading[p]
      PROVE  lock = p /\ file = reading[p] /\ reading[p] # Nil /\ reading[p].status # "absent"
  BY <1>1, <1>2 DEF LockProtects
<1>3. ASSUME NEW q \in Procs, BeginWrite(q)
      PROVE  lock' = p /\ file' = reading'[p]
  <2>1. CASE p = q
    BY <1>3, <2>1 DEF BeginWrite, TypeOK
  <2>2. CASE p # q
    BY <1>2, <1>3, <2>2, NamesAssumption DEF BeginWrite, TypeOK
  <2>3. QED
    BY <2>1, <2>2
<1>4. ASSUME NEW q \in Procs, WriteFails(q)
      PROVE  lock' = p /\ file' = reading'[p]
  <2>1. p # q
    BY <1>4 DEF WriteFails, TypeOK
  <2>2. QED
    BY <1>2, <1>4, <2>1 DEF WriteFails, TypeOK
<1>5. ASSUME NEW q \in Procs, p # q, reading[q] # Nil, ~CannotLock(q), reading'[p] = reading[p]
      PROVE  FALSE
  BY <1>1, <1>2, <1>5, NamesAssumption DEF LockProtects, CannotLock
<1>6. ASSUME NEW q \in Procs, EndWrite(q)
      PROVE  lock' = p /\ file' = reading'[p]
  <2>1. p # q
    BY <1>6 DEF EndWrite, TypeOK
  <2>2. QED
    BY <1>5, <1>6, <2>1 DEF EndWrite, TypeOK
<1>7. ASSUME NEW q \in Procs, Crash(q)
      PROVE  lock' = p /\ file' = reading'[p]
  <2>1. p # q
    BY <1>7 DEF Crash, TypeOK
  <2>2. reading'[p] = reading[p]
    BY <1>7, <2>1 DEF Crash, TypeOK
  <2>3. UNCHANGED file /\ lock' = IF lock = q THEN Dead ELSE lock
    BY <1>5, <1>7, <2>1, <2>2 DEF Crash
  <2>4. QED
    BY <1>2, <2>1, <2>2, <2>3
<1>8. ASSUME NEW f \in Fields, NEW status \in {"valid", "invalid"}, Edit(f, status)
      PROVE  FALSE
  BY <1>2, <1>8 DEF Edit, Orderly
<1>9. ASSUME LockExpires
      PROVE  FALSE
  BY <1>2, <1>9, NamesAssumption DEF LockExpires
<1>10. ASSUME UNCHANGED <<file, lock, reading>>
       PROVE  lock' = p /\ file' = reading'[p]
  BY <1>2, <1>10
<1>11. QED
  BY <1>3, <1>4, <1>6, <1>7, <1>8, <1>9, <1>10 DEF Next, Work, Start, Reload, Set, vars

-----------------------------------------------------------------------------
(* No change is forgotten.                                                 *)
LEMMA PendingStep ==
  /\ TypeOK /\ IdleWhenDead /\ LastHasAllMarked /\ FileIsSaved /\ ChangeIsPending /\ [Next]_vars
  => ChangeIsPending'
<1> DEFINE Pending(p, f) == \/ loadError[p]
                            \/ f \in modified[p]
                            \/ \E task \in ToSet(writeQueue[p]) : f \in task.fields /\ task.values[f] = settings[p][f]
           Pending1(p, f) == \/ loadError'[p]
                             \/ f \in modified'[p]
                             \/ \E task \in ToSet(writeQueue'[p]) :
                                  f \in task.fields /\ task.values[f] = settings'[p][f]
<1> SUFFICES ASSUME TypeOK, IdleWhenDead, LastHasAllMarked, FileIsSaved, ChangeIsPending, [Next]_vars,
                    "failedAfterClear" \notin happened', NEW p \in Procs, NEW f \in Fields,
                    alive'[p], settings'[p][f].by = p, settings'[p][f] \notin saved'
             PROVE  Pending1(p, f)
  BY DEF ChangeIsPending
<1>1. "failedAfterClear" \notin happened /\ saved \subseteq saved'
  BY DEF Next, Work, Start, Reload, Set, BeginWrite, WriteFails, EndWrite, Edit, Crash, LockExpires, vars
<1>2. ASSUME alive[p], settings'[p][f] = settings[p][f]
      PROVE  Pending(p, f)
  BY <1>1, <1>2 DEF ChangeIsPending
<1>3. ASSUME alive'[p] = alive[p], settings'[p] = settings[p], loadError'[p] = loadError[p],
             modified'[p] = modified[p], writeQueue'[p] = writeQueue[p]
      PROVE  Pending1(p, f)
  BY <1>2, <1>3
<1>4. LoadedValues[f] \in saved \cup {Unset} /\ Empty[f] = Unset /\ Unset.by # p
  BY NamesAssumption DEF LoadedValues, FileIsSaved, Empty, Unset
<1>5. ASSUME NEW q \in Procs, Start(q) \/ Reload(q)
      PROVE  Pending1(p, f)
  <2>1. CASE p = q
    BY <1>1, <1>4, <1>5, <2>1 DEF Start, Reload, TypeOK
  <2>2. CASE p # q
    <3>1. alive'[p] = alive[p] /\ loadError'[p] = loadError[p]
      BY <1>5, <2>2, Zenon DEF Start, Reload, TypeOK
    <3>2. settings'[p] = settings[p] /\ modified'[p] = modified[p] /\ writeQueue'[p] = writeQueue[p]
      BY <1>5, <2>2 DEF Start, Reload, TypeOK
    <3>3. QED
      BY <1>3, <3>1, <3>2
  <2>3. QED
    BY <2>1, <2>2
<1>6. ASSUME NEW q \in Procs, NEW g \in Fields, Set(q, g)
      PROVE  Pending1(p, f)
  <2>0. alive' = alive /\ loadError' = loadError
    BY <1>6 DEF Set
  <2>1. CASE p = q
    <3>1. CASE f = g
      BY <1>6, <2>1, <3>1, SetStep
    <3>2. CASE f # g
      <4>1. Pending(p, f) /\ settings'[p][f] = settings[p][f]
        BY <1>2, <1>6, <2>0, <2>1, <3>2, SetStep
      <4>2. /\ modified[p] \subseteq modified'[p]
            /\ ToSet(writeQueue[p]) \subseteq ToSet(writeQueue'[p])
        <5>1. CASE loadError[p]
          BY <1>6, <2>1, <5>1, SetStep
        <5>2. CASE ~loadError[p]
          BY <1>6, <2>1, <5>2, SetStep
        <5>3. QED
          BY <5>1, <5>2
      <4>3. QED
        BY <2>0, <4>1, <4>2
    <3>3. QED
      BY <3>1, <3>2
  <2>2. CASE p # q
    <3>1. settings'[p] = settings[p] /\ modified'[p] = modified[p] /\ writeQueue'[p] = writeQueue[p]
      BY <1>6, <2>2, SetStep
    <3>2. alive'[p] = alive[p] /\ loadError'[p] = loadError[p]
      BY <2>0
    <3>3. QED
      BY <1>3, <3>1, <3>2
  <2>3. QED
    BY <2>1, <2>2
<1>7. ASSUME NEW q \in Procs, WriteFails(q)
      PROVE  Pending1(p, f)
  <2>1. /\ writeQueue' = [writeQueue EXCEPT ![q] = Tail(writeQueue[q])] /\ writeQueue[q] # <<>>
        /\ modified' = modified /\ UNCHANGED <<settings, loadError, alive>>
    BY <1>7 DEF WriteFails, QueueAfterFailure, AfterFailure, TypeOK
  <2>2. Head(writeQueue[q]).fields \subseteq modified[q]
    BY <1>7 DEF WriteFails
  <2>3. Pending(p, f)
    BY <1>2, <2>1
  <2>4. CASE p = q
    <3>1. ToSet(writeQueue[p]) = {Head(writeQueue[p])} \cup ToSet(writeQueue'[p])
      BY <2>1, <2>4, TaskGoes
    <3>2. CASE f \in modified[p] \/ loadError[p]
      BY <2>1, <3>2
    <3>3. ASSUME NEW task \in ToSet(writeQueue[p]), f \in task.fields, task.values[f] = settings[p][f]
          PROVE  Pending1(p, f)
      <4>1. CASE task = Head(writeQueue[p])
        BY <2>1, <2>2, <2>4, <3>3, <4>1
      <4>2. CASE task \in ToSet(writeQueue'[p])
        BY <2>1, <3>3, <4>2
      <4>3. QED
        BY <3>1, <4>1, <4>2
    <3>4. QED
      BY <2>3, <3>2, <3>3
  <2>5. CASE p # q
    BY <2>1, <2>3, <2>5, TaskGoes
  <2>6. QED
    BY <2>4, <2>5
<1>8. ASSUME NEW q \in Procs, EndWrite(q)
      PROVE  Pending1(p, f)
  <2>1. /\ writeQueue' = [writeQueue EXCEPT ![q] = Tail(writeQueue[q])] /\ writeQueue[q] # <<>>
        /\ UNCHANGED <<settings, loadError, alive>>
    BY <1>8 DEF EndWrite, IdleWhenDead
  <2>2. Pending(p, f)
    BY <1>2, <2>1
  <2>3. CASE p = q
    <3> DEFINE task == Head(writeQueue[p])
    <3>1. ~ (f \in task.fields /\ task.values[f] = settings[p][f])
      BY <1>8, <2>1, <2>3 DEF EndWrite, Merged, ValuesIn
    <3>2. ASSUME ~loadError[p], f \in modified[p]
          PROVE  Pending1(p, f)
      <4>1. f \in Last(writeQueue[p]).fields /\ Last(writeQueue[p]).values[f] = settings[p][f]
        BY <2>1, <2>3, <3>2 DEF LastHasAllMarked
      <4>2. Last(writeQueue[p]) \in ToSet(writeQueue'[p])
        BY <2>1, <2>3, <3>1, <4>1, TaskGoes
      <4>3. QED
        BY <2>1, <4>1, <4>2
    <3>3. ASSUME NEW t \in ToSet(writeQueue[p]), f \in t.fields, t.values[f] = settings[p][f]
          PROVE  Pending1(p, f)
      <4>1. ToSet(writeQueue[q]) = {Head(writeQueue[q])} \cup ToSet(writeQueue'[q])
        BY <2>1, TaskGoes
      <4>2. t \in ToSet(writeQueue'[p])
        BY <2>3, <3>1, <3>3, <4>1
      <4>3. QED
        BY <2>1, <3>3, <4>2
    <3>4. QED
      BY <2>1, <2>2, <3>2, <3>3
  <2>4. CASE p # q
    BY <1>3, <1>8, <2>4 DEF EndWrite, TypeOK
  <2>5. QED
    BY <2>3, <2>4
<1>9. ASSUME NEW q \in Procs, Crash(q)
      PROVE  Pending1(p, f)
  BY <1>3, <1>9 DEF Crash, TypeOK
<1>10. QED
  BY <1>3, <1>5, <1>6, <1>7, <1>8, <1>9 DEF Next, Work, BeginWrite, Edit, LockExpires, vars

-----------------------------------------------------------------------------
(* All of it holds at the start ...                                        *)
LEMMA InvInit == Init => Inv
<1> SUFFICES ASSUME Init
             PROVE  Inv
  OBVIOUS
<1>1. ChangeIsPending
  BY NamesAssumption DEF Init, ChangeIsPending, Empty, Unset
<1>2. IdleWhenDead /\ LastHasAllMarked /\ FileIsSaved /\ LockProtects
  BY DEF Init, IdleWhenDead, LastHasAllMarked, FileIsSaved, Empty, LockProtects
<1>3. MarksAreOwn
  BY EmptyQueue DEF Init, MarksAreOwn
<1>4. QED
  BY <1>1, <1>2, <1>3, TypeInit DEF Inv, NothingForgotten

(* ... and through every step.                                             *)
LEMMA InvStep == Inv /\ [Next]_vars => Inv'
BY TypeStep, IdleStep, LastStep, SavedStep, OwnStep, LockStep, PendingStep DEF Inv, NothingForgotten

(* The parts of the inductive invariant hold together in every behaviour.  *)
THEOREM InvCorrect == Spec => []Inv
BY InvInit, InvStep, PTL DEF Spec

(* A setting changed in a process stays marked or queued until it has been *)
(* in the file, whatever the other processes, the user and failed writes   *)
(* do in between.                                                          *)
THEOREM NoneForgotten == Spec => []NothingForgotten
BY InvCorrect, PTL DEF Inv

(* A write changes nothing in the file that others have put there, and     *)
(* does not replace a file that cannot be read.                            *)
THEOREM OthersKept == Spec => OthersChangesKept
<1>1. ASSUME Inv, NEW p \in Procs, EndWrite(p), happened' \cap {"editedInWrite", "createdTwice"} = {}
      PROVE  /\ file.status # "invalid"
             /\ \A f \in Fields : file'.values[f] # file.values[f] => file'.values[f].by = p
  <2> DEFINE task == Head(writeQueue[p])
  <2>1. Orderly /\ reading[p] # Nil /\ reading[p].status # "invalid" /\ reading[p] \in Files
    BY <1>1 DEF EndWrite, Orderly, Inv, NothingForgotten, TypeOK
  <2>2. task \in ToSet(writeQueue[p]) /\ file'.values = Merged(task, reading[p])
    <3>1. writeQueue[p] \in Seq(Tasks) /\ writeQueue[p] # <<>>
      BY <1>1, <2>1 DEF Inv, NothingForgotten, TypeOK, IdleWhenDead
    <3>2. task \in ToSet(writeQueue[p])
      BY <3>1, TailOfQueue
    <3>3. QED
      BY <1>1, <3>2 DEF EndWrite
  <2>3. \A f \in Fields : f \in task.fields => file'.values[f].by = p
    BY <1>1, <2>2 DEF Merged, Inv, MarksAreOwn
  <2>4. CASE reading[p].status = "absent"
    <3>1. file.status = "absent" /\ file.values = Empty
      BY <1>1, <2>4 DEF EndWrite, Inv, FileIsSaved
    <3>2. \A f \in Fields : f \notin task.fields => file'.values[f] = file.values[f]
      BY <2>2, <2>4, <3>1 DEF Merged, Empty
    <3>3. QED
      BY <2>3, <3>1, <3>2
  <2>5. CASE reading[p].status = "valid"
    <3>1. file = reading[p]
      BY <1>1, <2>1, <2>5 DEF Inv, LockProtects
    <3>2. \A f \in Fields : f \notin task.fields => file'.values[f] = file.values[f]
      BY <2>2, <2>5, <3>1 DEF Merged
    <3>3. QED
      BY <2>3, <2>5, <3>1, <3>2
  <2>6. QED
    BY <2>1, <2>4, <2>5 DEF Files
<1>2. Inv => \A p \in Procs :
        EndWrite(p) /\ happened' \cap {"editedInWrite", "createdTwice"} = {} =>
            /\ file.status # "invalid"
            /\ \A f \in Fields : file'.values[f] # file.values[f] => file'.values[f].by = p
  BY <1>1
<1>3. QED
  BY <1>2, InvCorrect, PTL DEF OthersChangesKept
=============================================================================
