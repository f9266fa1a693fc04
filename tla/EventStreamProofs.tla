------------------------- MODULE EventStreamProofs -------------------------
(***************************************************************************)
(* Proofs about EventStream, for any set of readers and any bound on the   *)
(* pushes: its type invariant, that no wakeup is lost, that the event that *)
(* completes the stream is final, and that events are handed out once and  *)
(* in order, because the stream implements FifoChannel, which is proved to *)
(* do that.                                                                *)
(***************************************************************************)
EXTENDS EventStream, TLAPS

LEMMA TypeInit == Init => TypeOK
<1>1. <<>> \in Seq(Nat \ {0}) /\ <<>> \in Seq(Readers)
  OBVIOUS
<1>2. Init => got \in [Readers -> Seq(Nat \ {0})]
  BY <1>1, Zenon DEF Init
<1>3. Init => pc \in [Readers -> {"running", "parked", "resumed", "returned", "left"}]
  BY DEF Init
<1>4. Init => slot \in [Readers -> Nat]
  BY DEF Init
<1>5. Init => queue \in Seq(Nat \ {0}) /\ waiting \in Seq(Readers)
  BY <1>1 DEF Init
<1>6. Init => done \in BOOLEAN /\ ended \in BOOLEAN
  BY DEF Init
<1>7. Init => result \in Nat /\ accepted \in Nat /\ completed \in Nat
  BY DEF Init
<1>8. QED
  BY <1>2, <1>3, <1>4, <1>5, <1>6, <1>7 DEF TypeOK

LEMMA TypeStep == TypeOK /\ [Next]_vars => TypeOK'
<1> SUFFICES ASSUME TypeOK, [Next]_vars
             PROVE  TypeOK'
  OBVIOUS
<1> USE DEF TypeOK
<1>1. ASSUME NEW completes \in BOOLEAN, Push(completes)
      PROVE  TypeOK'
  <2>1. CASE Deliver(accepted + 1)
    <3>1. Head(waiting) \in Readers /\ Tail(waiting) \in Seq(Readers)
      BY <2>1 DEF Deliver
    <3>2. QED
      BY <1>1, <2>1, <3>1 DEF Push, Deliver, Resolve
  <2>2. CASE Enqueue(accepted + 1)
    BY <1>1, <2>2 DEF Push, Enqueue, Resolve
  <2>3. QED
    BY <1>1, <2>1, <2>2 DEF Push
<1>2. ASSUME NEW withResult \in BOOLEAN, End(withResult)
      PROVE  TypeOK'
  BY <1>2, MaxPushesAssumption DEF End, Resolve, Given
<1>3. ASSUME NEW c \in Readers, Shift(c)
      PROVE  TypeOK'
  <2>1. Head(queue) \in Nat \ {0} /\ Tail(queue) \in Seq(Nat \ {0})
    BY <1>3 DEF Shift
  <2>2. QED
    BY <1>3, <2>1 DEF Shift
<1>4. ASSUME NEW c \in Readers, Return(c)
      PROVE  TypeOK'
  BY <1>4 DEF Return
<1>5. ASSUME NEW c \in Readers, Park(c)
      PROVE  TypeOK'
  BY <1>5 DEF Park
<1>6. ASSUME NEW c \in Readers, Resume(c)
      PROVE  TypeOK'
  <2>1. CASE slot[c] = 0
    BY <1>6, <2>1 DEF Resume
  <2>2. CASE slot[c] # 0
    <3>1. Append(got[c], slot[c]) \in Seq(Nat \ {0})
      BY <2>2
    <3>2. QED
      BY <1>6, <2>2, <3>1 DEF Resume
  <2>3. QED
    BY <2>1, <2>2
<1>7. ASSUME NEW c \in Readers, Leave(c)
      PROVE  TypeOK'
  BY <1>7 DEF Leave
<1>8. CASE UNCHANGED vars
  BY <1>8 DEF vars
<1>9. QED
  BY <1>1, <1>2, <1>3, <1>4, <1>5, <1>6, <1>7, <1>8 DEF Next, Read

\* Every variable keeps its type, for any readers and any bound on the pushes.
THEOREM TypeCorrect == Spec => []TypeOK
BY TypeInit, TypeStep, PTL DEF Spec

-----------------------------------------------------------------------------
\* Where the pieces of the stream stand relative to each other: who is parked,
\* what the queue holds, which waits carry an event.
QueueInv ==
  /\ Len(queue) <= accepted
  /\ \A i \in 1..Len(queue) : queue[i] = (accepted - Len(queue)) + i

SlotInv == \A c \in Readers : slot[c] # 0 => pc[c] = "resumed"

DoneInv ==
  /\ ended => done
  /\ ~done => result = 0 /\ completed = 0
  /\ completed # 0 => result = completed /\ accepted = completed
  /\ \A c \in Readers :
       (pc[c] = "returned" \/ (pc[c] = "resumed" /\ slot[c] = 0)) => queue = <<>> /\ done

StreamInv == TypeOK /\ QueueInv /\ SlotInv /\ NoLostWakeup /\ DoneInv

\* A sequence loses its head: what is left, index by index.
LEMMA TailElements ==
  ASSUME NEW S, NEW s \in Seq(S), s # <<>>
  PROVE  /\ Len(s) \in Nat \ {0}
         /\ Len(Tail(s)) = Len(s) - 1
         /\ \A i \in 1..Len(Tail(s)) : Tail(s)[i] = s[i + 1]
         /\ Head(s) = s[1]
OBVIOUS

\* Waking the reader that has waited longest leaves the others parked, once each.
LEMMA UnparkHead ==
  ASSUME TypeOK, waiting # <<>>,
         \A i, j \in DOMAIN waiting : waiting[i] = waiting[j] => i = j,
         waiting' = Tail(waiting)
  PROVE  /\ Head(waiting) \in Parked
         /\ Parked' = Parked \ {Head(waiting)}
         /\ \A i, j \in DOMAIN waiting' : waiting'[i] = waiting'[j] => i = j
<1>1. waiting \in Seq(Readers)
  BY DEF TypeOK
<1>2. /\ Len(waiting) \in Nat \ {0}
      /\ DOMAIN waiting = 1..Len(waiting)
      /\ DOMAIN waiting' = 1..(Len(waiting) - 1)
      /\ \A i \in 1..(Len(waiting) - 1) : waiting'[i] = waiting[i + 1]
      /\ Head(waiting) = waiting[1]
  BY <1>1
<1>3. Head(waiting) \in Parked
  BY <1>2 DEF Parked
<1>4. \A i, j \in DOMAIN waiting' : waiting'[i] = waiting'[j] => i = j
  BY <1>2
<1>5. ASSUME NEW c PROVE c \in Parked' <=> c \in Parked /\ c # Head(waiting)
  <2>1. ASSUME c \in Parked' PROVE c \in Parked /\ c # Head(waiting)
    <3>1. PICK i \in 1..(Len(waiting) - 1) : c = waiting[i + 1]
      BY <2>1, <1>2 DEF Parked
    <3>2. i + 1 \in DOMAIN waiting /\ 1 \in DOMAIN waiting /\ i + 1 # 1
      BY <1>2
    <3>3. QED
      BY <3>1, <3>2, <1>2 DEF Parked
  <2>2. ASSUME c \in Parked, c # Head(waiting) PROVE c \in Parked'
    <3>1. PICK i \in 1..Len(waiting) : c = waiting[i]
      BY <2>2, <1>2 DEF Parked
    <3>2. i - 1 \in 1..(Len(waiting) - 1) /\ waiting'[i - 1] = waiting[i]
      BY <3>1, <2>2, <1>2
    <3>3. QED
      BY <3>1, <3>2, <1>2 DEF Parked
  <2>3. QED
    BY <2>1, <2>2
<1>6. QED
  BY <1>3, <1>4, <1>5

\* Parking a reader that was not parked.
LEMMA ParkLast ==
  ASSUME TypeOK, NEW c \in Readers, c \notin Parked,
         \A i, j \in DOMAIN waiting : waiting[i] = waiting[j] => i = j,
         waiting' = Append(waiting, c)
  PROVE  /\ Parked' = Parked \union {c}
         /\ \A i, j \in DOMAIN waiting' : waiting'[i] = waiting'[j] => i = j
<1>1. /\ Len(waiting) \in Nat
      /\ DOMAIN waiting = 1..Len(waiting)
      /\ DOMAIN waiting' = 1..(Len(waiting) + 1)
      /\ \A i \in 1..Len(waiting) : waiting'[i] = waiting[i]
      /\ waiting'[Len(waiting) + 1] = c
  BY DEF TypeOK
<1>2. \A i \in 1..Len(waiting) : waiting[i] # c
  BY <1>1 DEF Parked
<1>3. \A i, j \in DOMAIN waiting' : waiting'[i] = waiting'[j] => i = j
  BY <1>1, <1>2
<1>4. ASSUME NEW d PROVE d \in Parked' <=> d \in Parked \/ d = c
  BY <1>1 DEF Parked
<1>5. QED
  BY <1>3, <1>4

LEMMA InitStreamInv == Init => StreamInv
<1> SUFFICES ASSUME Init PROVE StreamInv
  OBVIOUS
<1>1. TypeOK
  BY TypeInit
<1>2. queue = <<>> /\ waiting = <<>> /\ Parked = {} /\ DOMAIN waiting = {}
  BY DEF Init, Parked
<1>3. \A c \in Readers : pc[c] = "running" /\ slot[c] = 0
  BY DEF Init
<1>4. Len(queue) = 0 /\ accepted = 0 /\ ~done /\ ~ended /\ result = 0 /\ completed = 0
  BY <1>2 DEF Init
<1>5. QED
  BY <1>1, <1>2, <1>3, <1>4 DEF StreamInv, QueueInv, SlotInv, NoLostWakeup, DoneInv

LEMMA PushStep ==
  ASSUME StreamInv, NEW completes \in BOOLEAN, Push(completes)
  PROVE  QueueInv' /\ SlotInv' /\ NoLostWakeup' /\ DoneInv'
<1> USE DEF StreamInv, TypeOK
<1>1. ~done /\ ~ended /\ result = 0 /\ completed = 0 /\ accepted' = accepted + 1
  BY DEF Push, DoneInv
<1>2. /\ completed' # 0 => result' = completed' /\ accepted' = completed'
      /\ ~done' => result' = 0 /\ completed' = 0
      /\ ended' = ended
  BY <1>1 DEF Push, Resolve
<1>3. CASE Deliver(accepted + 1)
  <2>1. queue = <<>> /\ queue' = <<>>
    BY <1>3 DEF Deliver, NoLostWakeup
  <2>2. Len(queue') = 0
    BY <2>1
  <2>3. QueueInv'
    BY <2>2, <1>1 DEF QueueInv
  <2>4. /\ Head(waiting) \in Parked
        /\ Parked' = Parked \ {Head(waiting)}
        /\ \A i, j \in DOMAIN waiting' : waiting'[i] = waiting'[j] => i = j
    BY <1>3, UnparkHead DEF Deliver, NoLostWakeup
  <2>5. /\ Head(waiting) \in Readers
        /\ pc' = [pc EXCEPT ![Head(waiting)] = "resumed"]
        /\ slot' = [slot EXCEPT ![Head(waiting)] = accepted + 1]
    BY <1>3 DEF Deliver
  <2>6. SlotInv'
    BY <2>5 DEF SlotInv
  <2>7. NoLostWakeup'
    BY <2>1, <2>4, <2>5, <1>1, <1>2 DEF NoLostWakeup
  <2>8. DoneInv'
    BY <2>1, <2>5, <1>1, <1>2 DEF DoneInv
  <2>9. QED
    BY <2>3, <2>6, <2>7, <2>8
<1>4. CASE Enqueue(accepted + 1)
  <2>1. /\ Len(queue') = Len(queue) + 1
        /\ \A i \in 1..Len(queue) : queue'[i] = queue[i]
        /\ queue'[Len(queue) + 1] = accepted + 1
        /\ Len(queue) \in Nat
    BY <1>4 DEF Enqueue
  <2>2. QueueInv'
    <3>1. Len(queue') <= accepted'
      BY <2>1, <1>1 DEF QueueInv
    <3>2. ASSUME NEW i \in 1..Len(queue')
          PROVE  queue'[i] = (accepted' - Len(queue')) + i
      <4>1. CASE i \in 1..Len(queue)
        BY <4>1, <2>1, <1>1 DEF QueueInv
      <4>2. CASE i = Len(queue) + 1
        BY <4>2, <2>1, <1>1
      <4>3. QED
        BY <4>1, <4>2, <2>1
    <3>3. QED
      BY <3>1, <3>2 DEF QueueInv
  <2>3. waiting = <<>> /\ waiting' = waiting /\ pc' = pc /\ slot' = slot
    BY <1>4 DEF Enqueue
  <2>4. Parked' = Parked
    BY <2>3 DEF Parked
  <2>5. SlotInv' /\ NoLostWakeup' /\ DoneInv'
    BY <2>3, <2>4, <1>1, <1>2 DEF SlotInv, NoLostWakeup, DoneInv
  <2>6. QED
    BY <2>2, <2>5
<1>5. QED
  BY <1>3, <1>4 DEF Push

LEMMA EndStep ==
  ASSUME StreamInv, NEW withResult \in BOOLEAN, End(withResult)
  PROVE  QueueInv' /\ SlotInv' /\ NoLostWakeup' /\ DoneInv'
<1> USE DEF StreamInv, TypeOK
<1>1. /\ queue' = queue /\ accepted' = accepted /\ slot' = slot /\ completed' = completed
      /\ done' /\ waiting' = <<>>
      /\ pc' = [c \in Readers |-> IF c \in Parked THEN "resumed" ELSE pc[c]]
  BY DEF End
<1>2. QueueInv' /\ SlotInv'
  BY <1>1 DEF QueueInv, SlotInv
<1>3. Parked' = {} /\ DOMAIN waiting' = {}
  BY <1>1 DEF Parked
<1>4. NoLostWakeup'
  BY <1>1, <1>3 DEF NoLostWakeup
<1>5. \A c \in Parked : queue = <<>>
  <2> SUFFICES ASSUME NEW c \in Parked PROVE queue = <<>>
    OBVIOUS
  <2>1. waiting # <<>>
    BY DEF Parked
  <2>2. QED
    BY <2>1 DEF NoLostWakeup
<1>6. completed' # 0 => result' = completed' /\ accepted' = completed'
  BY <1>1 DEF End, Resolve, DoneInv
<1>7. DoneInv'
  BY <1>1, <1>5, <1>6 DEF DoneInv
<1>8. QED
  BY <1>2, <1>4, <1>7

LEMMA ReaderStep ==
  ASSUME StreamInv, NEW c \in Readers, Read(c) \/ Leave(c)
  PROVE  QueueInv' /\ SlotInv' /\ NoLostWakeup' /\ DoneInv'
<1> USE DEF StreamInv, TypeOK
<1>1. /\ done' = done /\ ended' = ended /\ result' = result
      /\ accepted' = accepted /\ completed' = completed
  BY DEF Read, Shift, Return, Park, Resume, Leave
<1>2. CASE Shift(c)
  <2>1. queue # <<>> /\ queue' = Tail(queue) /\ queue \in Seq(Nat \ {0})
    BY <1>2 DEF Shift
  <2>2. /\ Len(queue) \in Nat \ {0}
        /\ Len(queue') = Len(queue) - 1
        /\ \A i \in 1..Len(queue') : queue'[i] = queue[i + 1]
    BY <2>1, TailElements
  <2>3. QueueInv'
    BY <2>2, <1>1 DEF QueueInv
  <2>4. waiting = <<>> /\ waiting' = waiting /\ pc' = pc /\ slot' = slot
    BY <1>2 DEF Shift, NoLostWakeup
  <2>5. Parked' = Parked
    BY <2>4 DEF Parked
  <2>6. SlotInv' /\ NoLostWakeup' /\ DoneInv'
    BY <2>1, <2>4, <2>5, <1>1 DEF SlotInv, NoLostWakeup, DoneInv
  <2>7. QED
    BY <2>3, <2>6
<1>3. CASE Return(c) \/ Resume(c) \/ Leave(c)
  <2>1. queue' = queue /\ waiting' = waiting
    BY <1>3 DEF Return, Resume, Leave
  <2>2. QueueInv' /\ Parked' = Parked
    BY <2>1, <1>1 DEF QueueInv, Parked
  <2>3. SlotInv'
    BY <1>3 DEF SlotInv, Return, Resume, Leave
  <2>4. pc[c] # "parked" /\ pc'[c] # "parked" /\ \A d \in Readers : d # c => pc'[d] = pc[d]
    BY <1>3 DEF Return, Resume, Leave
  <2>5. NoLostWakeup'
    BY <2>1, <2>2, <2>4, <1>1 DEF NoLostWakeup
  <2>6. DoneInv'
    BY <1>3, <1>1, <2>1, <2>4 DEF DoneInv, Return, Resume, Leave
  <2>7. QED
    BY <2>2, <2>3, <2>5, <2>6
<1>4. CASE Park(c)
  <2>1. /\ queue = <<>> /\ queue' = queue /\ slot' = slot
        /\ pc[c] = "running" /\ pc' = [pc EXCEPT ![c] = "parked"]
        /\ waiting' = Append(waiting, c) /\ ~done
    BY <1>4 DEF Park
  <2>2. c \notin Parked /\ ~ended
    BY <2>1 DEF NoLostWakeup, DoneInv
  <2>3. /\ Parked' = Parked \union {c}
        /\ \A i, j \in DOMAIN waiting' : waiting'[i] = waiting'[j] => i = j
    BY <2>1, <2>2, ParkLast DEF NoLostWakeup
  <2>4. NoLostWakeup'
    BY <2>1, <2>2, <2>3, <1>1 DEF NoLostWakeup
  <2>5. QueueInv' /\ SlotInv' /\ DoneInv'
    BY <2>1, <1>1 DEF QueueInv, SlotInv, DoneInv
  <2>6. QED
    BY <2>4, <2>5
<1>5. QED
  BY <1>2, <1>3, <1>4 DEF Read

THEOREM StreamInvariant == Spec => []StreamInv
<1>1. StreamInv /\ [Next]_vars => StreamInv'
  <2> SUFFICES ASSUME StreamInv, [Next]_vars PROVE StreamInv'
    OBVIOUS
  <2>1. TypeOK'
    BY TypeStep DEF StreamInv
  <2>2. CASE UNCHANGED vars
    BY <2>1, <2>2 DEF vars, StreamInv, QueueInv, SlotInv, NoLostWakeup, DoneInv, Parked
  <2>3. CASE Next
    BY <2>1, <2>3, PushStep, EndStep, ReaderStep DEF Next, StreamInv
  <2>4. QED
    BY <2>2, <2>3
<1>2. QED
  BY <1>1, InitStreamInv, PTL DEF Spec

\* No reader sleeps while there is an event for it or after the stream ended.
THEOREM WakeupsNotLost == Spec => []NoLostWakeup
BY StreamInvariant, PTL DEF StreamInv

\* The completing event is the last one accepted and stays the result.
THEOREM CompletionFinal == Spec => []CompletionIsFinal
<1>1. StreamInv => CompletionIsFinal
  BY DEF StreamInv, DoneInv, CompletionIsFinal
<1>2. QED
  BY <1>1, StreamInvariant, PTL

\* A loop that ran to its end left nothing in the queue.
THEOREM ReturnDrained == Spec => []DrainedBeforeReturn
<1>1. StreamInv => DrainedBeforeReturn
  BY DEF StreamInv, DoneInv, DrainedBeforeReturn
<1>2. QED
  BY <1>1, StreamInvariant, PTL

-----------------------------------------------------------------------------
(* The channel hands each event to exactly one reader, in order.           *)

\* What was handed out is 1..h, once and in order; so the next event is greater than
\* all of it.
Once(t, h) ==
  /\ \A n \in 1..h : \E c \in Readers : \E i \in DOMAIN t[c] : t[c][i] = n
  /\ \A c, d \in Readers : \A i \in DOMAIN t[c], j \in DOMAIN t[d] : t[c][i] = t[d][j] => c = d /\ i = j
Ascending(t) == \A c \in Readers : \A i, j \in DOMAIN t[c] : i < j => t[c][i] < t[c][j]
Delivered(t, h) ==
  /\ h \in Nat /\ t \in [Readers -> Seq(Nat)]
  /\ \A c \in Readers : \A i \in DOMAIN t[c] : t[c][i] \in 1..h
  /\ Once(t, h) /\ Ascending(t)

\* Handing event h + 1 to any one reader keeps that.
LEMMA HandStep ==
  ASSUME NEW t, NEW h, Delivered(t, h), NEW c \in Readers, NEW u, u = [t EXCEPT ![c] = Append(@, h + 1)]
  PROVE  Delivered(u, h + 1)
<1> USE DEF Delivered
<1> DEFINE n == Len(t[c])
<1>1. t[c] \in Seq(Nat) /\ n \in Nat /\ DOMAIN t[c] = 1..n
  OBVIOUS
<1>2. u[c] = Append(t[c], h + 1)
  OBVIOUS
<1>3. /\ u[c] \in Seq(Nat)
      /\ DOMAIN u[c] = 1..(n + 1)
      /\ \A i \in 1..n : u[c][i] = t[c][i]
      /\ u[c][n + 1] = h + 1
  BY <1>1, <1>2
<1>4. \A d \in Readers : d # c => u[d] = t[d]
  OBVIOUS
<1>5. h + 1 \in Nat /\ u \in [Readers -> Seq(Nat)]
  BY <1>3, <1>4
<1>6. \A d \in Readers : \A i \in DOMAIN u[d] : u[d][i] \in 1..h + 1
  <2> SUFFICES ASSUME NEW d \in Readers, NEW i \in DOMAIN u[d]
               PROVE  u[d][i] \in 1..h + 1
    OBVIOUS
  <2>1. CASE d # c
    BY <2>1, <1>4
  <2>2. CASE d = c /\ i \in 1..n
    BY <2>2, <1>1, <1>3
  <2>3. CASE d = c /\ i = n + 1
    BY <2>3, <1>1, <1>3
  <2>4. QED
    BY <2>1, <2>2, <2>3, <1>1, <1>3
<1>7. \A m \in 1..h + 1 : \E d \in Readers : \E i \in DOMAIN u[d] : u[d][i] = m
  <2> SUFFICES ASSUME NEW m \in 1..h + 1
               PROVE  \E d \in Readers : \E i \in DOMAIN u[d] : u[d][i] = m
    OBVIOUS
  <2>1. CASE m = h + 1
    BY <2>1, <1>1, <1>3
  <2>2. CASE m \in 1..h
    <3>1. PICK d \in Readers : \E i \in DOMAIN t[d] : t[d][i] = m
      BY <2>2 DEF Once
    <3>2. PICK i \in DOMAIN t[d] : t[d][i] = m
      BY <3>1
    <3>3. i \in DOMAIN u[d] /\ u[d][i] = m
      BY <3>2, <1>1, <1>3, <1>4
    <3>4. QED
      BY <3>3
  <2>3. QED
    BY <2>1, <2>2
<1>8. \A d, e \in Readers : \A i \in DOMAIN u[d], j \in DOMAIN u[e] :
        u[d][i] = u[e][j] => d = e /\ i = j
  <2> SUFFICES ASSUME NEW d \in Readers, NEW e \in Readers,
                      NEW i \in DOMAIN u[d], NEW j \in DOMAIN u[e],
                      u[d][i] = u[e][j]
               PROVE  d = e /\ i = j
    OBVIOUS
  <2> DEFINE Old(r, k) == r # c \/ k # n + 1
  <2>1. ASSUME NEW r \in Readers, NEW k \in DOMAIN u[r], Old(r, k)
        PROVE  /\ k \in DOMAIN t[r]
               /\ u[r][k] = t[r][k]
               /\ u[r][k] \in 1..h
    <3>1. CASE r # c
      BY <3>1, <1>4
    <3>2. CASE r = c
      BY <2>1, <3>2, <1>1, <1>3
    <3>3. QED
      BY <3>1, <3>2
  <2>2. ASSUME NEW r \in Readers, NEW k \in DOMAIN u[r], ~Old(r, k)
        PROVE  u[r][k] = h + 1
    BY <2>2, <1>3
  <2>3. CASE Old(d, i) /\ Old(e, j)
    <3>1. i \in DOMAIN t[d] /\ u[d][i] = t[d][i]
      BY <2>1, <2>3
    <3>2. j \in DOMAIN t[e] /\ u[e][j] = t[e][j]
      BY <2>1, <2>3
    <3>3. t[d][i] = t[e][j]
      BY <3>1, <3>2
    <3>4. QED
      BY <3>1, <3>2, <3>3 DEF Once
  <2>4. CASE Old(d, i) /\ ~Old(e, j)
    <3>1. u[d][i] \in 1..h /\ u[e][j] = h + 1
      BY <2>1, <2>2, <2>4
    <3>2. QED
      BY <3>1
  <2>5. CASE ~Old(d, i) /\ Old(e, j)
    <3>1. u[e][j] \in 1..h /\ u[d][i] = h + 1
      BY <2>1, <2>2, <2>5
    <3>2. QED
      BY <3>1
  <2>6. CASE ~Old(d, i) /\ ~Old(e, j)
    BY <2>6
  <2>7. QED
    BY <2>3, <2>4, <2>5, <2>6
<1>9. Ascending(u)
  <2> SUFFICES ASSUME NEW d \in Readers,
                      NEW i \in DOMAIN u[d], NEW j \in DOMAIN u[d],
                      i < j
               PROVE  u[d][i] < u[d][j]
    BY DEF Ascending
  <2>1. CASE d # c
    BY <2>1, <1>4 DEF Ascending
  <2>2. CASE d = c /\ j \in 1..n
    BY <2>2, <1>1, <1>3 DEF Ascending
  <2>3. CASE d = c /\ j = n + 1
    BY <2>3, <1>1, <1>3
  <2>4. QED
    BY <2>1, <2>2, <2>3, <1>1, <1>3
<1>10. QED
  BY <1>5, <1>6, <1>7, <1>8, <1>9 DEF Once


\* At first nothing is.
LEMMA NoneDelivered == Delivered([c \in Readers |-> <<>>], 0)
<1>1. <<>> \in Seq(Nat) /\ DOMAIN <<>> = {}
  OBVIOUS
<1>2. [c \in Readers |-> <<>>] \in [Readers -> Seq(Nat)]
  BY <1>1, Zenon
<1>3. \A c \in Readers : DOMAIN [d \in Readers |-> <<>>][c] = {}
  BY <1>1
<1>4. QED
  BY <1>2, <1>3 DEF Delivered, Once, Ascending

\* Every event handed out went to exactly one reader, and each reader has its
\* events in order, however many readers there are: a behaviour of the channel,
\* with the variables that the stream gives it.
THEOREM ChannelCorrect == Channel!ChannelSpec => [](Channel!HandedOnce /\ Channel!HandedInOrder)
<1> DEFINE taken == [c \in Readers |-> Handed(c)]
           handed == accepted - Len(queue)
           Inv == Delivered(taken, handed)
<1>1. Channel!ChannelInit => Inv
  BY NoneDelivered, Zenon DEF Channel!ChannelInit
<1>2. Inv /\ [Channel!ChannelNext]_Channel!channelVars => Inv'
  <2> SUFFICES ASSUME Inv, [Channel!ChannelNext]_Channel!channelVars
               PROVE  Inv'
    OBVIOUS
  <2>1. CASE taken' = taken /\ handed' = handed
    BY <2>1, Zenon
  <2>2. ASSUME NEW c \in Readers, handed' = handed + 1, taken' = [taken EXCEPT ![c] = Append(@, handed + 1)]
        PROVE  Inv'
    <3> HIDE DEF taken, handed
    <3>1. Delivered(taken', handed + 1)
      BY <2>2, HandStep
    <3>2. QED
      BY <2>2, <3>1
  <2>3. QED
    BY <2>1, <2>2
       DEF Channel!ChannelNext, Channel!channelVars, Channel!Accept, Channel!Close, Channel!Hand, Channel!AcceptAndHand
<1>3. Inv => Channel!HandedOnce /\ Channel!HandedInOrder
  BY Zenon DEF Delivered, Once, Ascending, Channel!HandedOnce, Channel!HandedInOrder
<1>4. QED
  BY <1>1, <1>2, <1>3, PTL DEF Channel!ChannelSpec

-----------------------------------------------------------------------------
(* The stream implements the channel.                                      *)

LEMMA InitRefines == Init => Channel!ChannelInit
<1> SUFFICES ASSUME Init PROVE Channel!ChannelInit
  OBVIOUS
<1>1. Len(queue) = 0 /\ accepted = 0 /\ done = FALSE
  BY DEF Init
<1>2. \A c \in Readers : Handed(c) = <<>>
  BY DEF Init, Handed
<1>3. QED
  BY <1>1, <1>2 DEF Channel!ChannelInit

LEMMA StepRefines ==
  ASSUME StreamInv, [Next]_vars
  PROVE  [Channel!ChannelNext]_Channel!channelVars
<1> USE DEF StreamInv, TypeOK
<1> DEFINE takenBy == [c \in Readers |-> Handed(c)]
           handed == accepted - Len(queue)
<1>1. ASSUME NEW completes \in BOOLEAN, Push(completes)
      PROVE  Channel!ChannelNext
  <2>1. ~done /\ accepted' = accepted + 1 /\ done' \in BOOLEAN /\ got' = got
    BY <1>1 DEF Push
  <2>2. CASE Deliver(accepted + 1)
    <3>1. queue = <<>> /\ queue' = <<>> /\ waiting # <<>>
      BY <2>2 DEF Deliver, NoLostWakeup
    <3>2. handed = accepted /\ handed' = accepted + 1
      BY <3>1, <2>1
    <3>3. PICK c \in Readers : slot' = [slot EXCEPT ![c] = accepted + 1] /\ c \in Parked
      <4>1. Head(waiting) \in Readers /\ Head(waiting) \in Parked
        BY <3>1 DEF Parked
      <4>2. QED
        BY <4>1, <2>2 DEF Deliver
    <3>4. slot[c] = 0
      BY <3>3 DEF NoLostWakeup, SlotInv
    <3>5. takenBy' = [takenBy EXCEPT ![c] = Append(@, accepted + 1)]
      <4>1. slot'[c] = accepted + 1 /\ slot'[c] # 0
        BY <3>3
      <4>2. Handed(c)' = Append(Handed(c), accepted + 1)
        BY <4>1, <3>4, <2>1 DEF Handed
      <4>3. \A d \in Readers : d # c => Handed(d)' = Handed(d)
        BY <3>3, <2>1 DEF Handed
      <4>4. QED
        BY <4>2, <4>3, <3>3, Zenon
    <3>6. Channel!AcceptAndHand(c)
      BY <3>2, <3>5, <2>1 DEF Channel!AcceptAndHand
    <3>7. QED
      BY <3>3, <3>6 DEF Channel!ChannelNext
  <2>3. CASE Enqueue(accepted + 1)
    <3>1. Len(queue') = Len(queue) + 1 /\ slot' = slot
      BY <2>3 DEF Enqueue
    <3>2. handed' = handed
      BY <3>1, <2>1
    <3>3. takenBy' = takenBy
      BY <3>1, <2>1 DEF Handed
    <3>4. QED
      BY <3>2, <3>3, <2>1 DEF Channel!ChannelNext, Channel!Accept
  <2>4. QED
    BY <1>1, <2>2, <2>3 DEF Push
<1>2. ASSUME NEW withResult \in BOOLEAN, End(withResult)
      PROVE  Channel!ChannelNext
  BY <1>2 DEF End, Handed, Channel!ChannelNext, Channel!Close
<1>3. ASSUME NEW c \in Readers, Shift(c)
      PROVE  Channel!ChannelNext
  <2>1. queue # <<>> /\ queue' = Tail(queue) /\ queue \in Seq(Nat \ {0}) /\ done' = done
        /\ accepted' = accepted /\ slot' = slot
    BY <1>3 DEF Shift
  <2>2. Len(queue) \in Nat \ {0} /\ Len(queue') = Len(queue) - 1 /\ Head(queue) = queue[1]
    BY <2>1, TailElements
  <2>3. Head(queue) = handed + 1 /\ handed < accepted /\ handed' = handed + 1
    BY <2>1, <2>2 DEF QueueInv
  <2>4. slot[c] = 0 /\ got' = [got EXCEPT ![c] = Append(@, Head(queue))]
    BY <1>3 DEF Shift, SlotInv
  <2>5. takenBy' = [takenBy EXCEPT ![c] = Append(@, handed + 1)]
    BY <2>1, <2>3, <2>4 DEF Handed
  <2>6. Channel!Hand(c)
    BY <2>1, <2>3, <2>5 DEF Channel!Hand
  <2>7. QED
    BY <2>6 DEF Channel!ChannelNext
<1>4. ASSUME NEW c \in Readers, Return(c) \/ Park(c) \/ Resume(c) \/ Leave(c)
      PROVE  UNCHANGED Channel!channelVars
  <2>1. queue' = queue /\ accepted' = accepted /\ done' = done
    BY <1>4 DEF Return, Park, Resume, Leave
  <2>2. takenBy' = takenBy
    BY <1>4 DEF Return, Park, Resume, Leave, Handed
  <2>3. QED
    BY <2>1, <2>2 DEF Channel!channelVars
<1>5. CASE UNCHANGED vars
  BY <1>5 DEF vars, Handed, Channel!channelVars
<1>6. QED
  BY <1>1, <1>2, <1>3, <1>4, <1>5 DEF Next, Read

\* The stream, whatever its readers do, is a FIFO channel.
THEOREM StreamRefinesChannel == Spec => ImplementsChannel
<1>1. StreamInv /\ [Next]_vars => [Channel!ChannelNext]_Channel!channelVars
  BY StepRefines
<1>2. QED
  BY <1>1, InitRefines, StreamInvariant, PTL DEF Spec, ImplementsChannel, Channel!ChannelSpec

\* The channel's two guarantees, read off the stream's own variables.
LEMMA GuaranteesCarryOver ==
  ASSUME NEW takenBy, takenBy = [c \in Readers |-> Handed(c)],
         \A n \in 1..(accepted - Len(queue)) :
            \E c \in Readers : \E i \in DOMAIN takenBy[c] : takenBy[c][i] = n,
         \A c, d \in Readers : \A i \in DOMAIN takenBy[c], j \in DOMAIN takenBy[d] :
            takenBy[c][i] = takenBy[d][j] => c = d /\ i = j,
         \A c \in Readers : \A i, j \in DOMAIN takenBy[c] :
            i < j => takenBy[c][i] < takenBy[c][j],
         StreamInv
  PROVE  ExactlyOnce /\ InOrder
<1>1. \A c \in Readers : takenBy[c] = Handed(c)
  BY Zenon
<1>2. \A i \in DOMAIN queue : queue[i] = (accepted - Len(queue)) + i
  <2>1. DOMAIN queue = 1..Len(queue)
    BY DEF StreamInv, TypeOK
  <2>2. QED
    BY <2>1 DEF StreamInv, QueueInv
<1>3. InOrder
  BY <1>1 DEF InOrder
<1>4. \A n \in 1..(accepted - Len(queue)) :
        \E c \in Readers : \E i \in DOMAIN Handed(c) : Handed(c)[i] = n
  BY <1>1
<1>5. \A c, d \in Readers : \A i \in DOMAIN Handed(c), j \in DOMAIN Handed(d) :
        Handed(c)[i] = Handed(d)[j] => c = d /\ i = j
  BY <1>1
<1>6. QED
  BY <1>2, <1>3, <1>4, <1>5 DEF ExactlyOnce

\* No event is lost, duplicated or given to a reader before an older one.
THEOREM EventsHandedOnce == Spec => [](ExactlyOnce /\ InOrder)
<1>1. Spec => [](Channel!HandedOnce /\ Channel!HandedInOrder)
  BY StreamRefinesChannel, ChannelCorrect DEF ImplementsChannel
<1>2. StreamInv /\ Channel!HandedOnce /\ Channel!HandedInOrder => ExactlyOnce /\ InOrder
  BY GuaranteesCarryOver DEF Channel!HandedOnce, Channel!HandedInOrder
<1>3. QED
  BY <1>1, <1>2, StreamInvariant, PTL
=============================================================================
