---------------------------- MODULE EventStream ----------------------------
(***************************************************************************)
(* EventStream of packages/ai/src/utils/event-stream.ts: the queue between *)
(* a producer that pushes events (an LLM provider, the agent loop) and the *)
(* `for await` loops that read them.                                       *)
(*                                                                         *)
(* An event is the number of the push that was accepted: 1, 2, ...  The    *)
(* only thing the class asks of an event is isComplete(event), which is    *)
(* the `completes` of Push.  A reader is one `for await` loop.  Everything *)
(* between two awaits is one action.                                       *)
(***************************************************************************)
EXTENDS Naturals, Sequences

CONSTANTS Readers,    \* the `for await` loops over this stream
          MaxPushes   \* bound: accepted pushes

ASSUME MaxPushesAssumption == MaxPushes \in Nat

VARIABLES queue,      \* this.queue
          waiting,    \* this.waiting: the readers whose resolver is parked there
          done,       \* this.done
          ended,      \* end() was called
          result,     \* finalResultPromise: 0 pending, n resolved by event n, or Given
          accepted,   \* how many pushes were accepted
          completed,  \* the accepted event isComplete() was true of, 0 if none yet
          pc,         \* pc[c]: where reader c is
          slot,       \* slot[c]: the event its resolved wait carries, 0 for done: true
          got         \* got[c]: the events its loop body was run for

vars == <<queue, waiting, done, ended, result, accepted, completed, pc, slot, got>>

\* The result was handed to end(result), not extracted from an event.
Given == MaxPushes + 1

Init ==
  /\ queue = <<>>
  /\ waiting = <<>>
  /\ done = FALSE
  /\ ended = FALSE
  /\ result = 0
  /\ accepted = 0
  /\ completed = 0
  /\ pc = [c \in Readers |-> "running"]
  /\ slot = [c \in Readers |-> 0]
  /\ got = [c \in Readers |-> <<>>]

-----------------------------------------------------------------------------
(* The producer.                                                           *)

\* resolveFinalResult: a promise settles once.
Resolve(r) == result' = IF result = 0 THEN r ELSE result

\* The accepted event goes to the reader that has waited longest ...
Deliver(n) ==
  /\ waiting # <<>>
  /\ waiting' = Tail(waiting)
  /\ pc' = [pc EXCEPT ![Head(waiting)] = "resumed"]
  /\ slot' = [slot EXCEPT ![Head(waiting)] = n]
  /\ UNCHANGED queue

\* Mutant: the new event is put in front of the queue.
UnshiftQueue(n) ==
  /\ waiting = <<>>
  /\ queue' = <<n>> \o queue
  /\ UNCHANGED <<waiting, pc, slot>>

\* ... or into the queue.
Enqueue(n) ==
  /\ waiting = <<>>
  /\ queue' = Append(queue, n)
  /\ UNCHANGED <<waiting, pc, slot>>

\* Mutant: done is not looked at.
PushAfterDone(completes) ==
  /\ accepted < MaxPushes
  /\ accepted' = accepted + 1
  /\ done' = (done \/ completes)
  /\ completed' = IF completes THEN accepted + 1 ELSE completed
  /\ IF completes THEN Resolve(accepted + 1) ELSE UNCHANGED result
  /\ Deliver(accepted + 1) \/ Enqueue(accepted + 1)
  /\ UNCHANGED <<ended, got>>

\* push(event) on a stream that is not done.  On a done stream it returns at
\* once and changes nothing.
Push(completes) ==
  /\ ~done
  /\ accepted < MaxPushes
  /\ accepted' = accepted + 1
  /\ done' = completes
  /\ completed' = IF completes THEN accepted + 1 ELSE completed
  /\ IF completes THEN Resolve(accepted + 1) ELSE UNCHANGED result
  /\ Deliver(accepted + 1) \/ Enqueue(accepted + 1)
  /\ UNCHANGED <<ended, got>>

Parked == {waiting[i] : i \in DOMAIN waiting}

\* Mutant: only the reader that has waited longest is woken.
EndWakesOne(withResult) ==
  /\ done' = TRUE
  /\ ended' = TRUE
  /\ IF withResult THEN Resolve(Given) ELSE UNCHANGED result
  /\ IF waiting = <<>>
       THEN UNCHANGED <<waiting, pc>>
       ELSE /\ waiting' = Tail(waiting)
            /\ pc' = [pc EXCEPT ![Head(waiting)] = "resumed"]
  /\ UNCHANGED <<queue, accepted, completed, slot, got>>

\* end(result?): every parked reader is woken with done: true.
End(withResult) ==
  /\ done' = TRUE
  /\ ended' = TRUE
  /\ IF withResult THEN Resolve(Given) ELSE UNCHANGED result
  /\ waiting' = <<>>
  /\ pc' = [c \in Readers |-> IF c \in Parked THEN "resumed" ELSE pc[c]]
  /\ UNCHANGED <<queue, accepted, completed, slot, got>>

-----------------------------------------------------------------------------
(* A reader: the body of [Symbol.asyncIterator] up to its next await.       *)

\* A queued event is yielded to the loop body.
Shift(c) ==
  /\ pc[c] = "running"
  /\ queue # <<>>
  /\ queue' = Tail(queue)
  /\ got' = [got EXCEPT ![c] = Append(@, Head(queue))]
  /\ UNCHANGED <<waiting, done, ended, result, accepted, completed, pc, slot>>

Return(c) ==
  /\ pc[c] = "running"
  /\ queue = <<>>
  /\ done
  /\ pc' = [pc EXCEPT ![c] = "returned"]
  /\ UNCHANGED <<queue, waiting, done, ended, result, accepted, completed, slot, got>>

\* Nothing to read: the resolver is parked in this.waiting.
Park(c) ==
  /\ pc[c] = "running"
  /\ queue = <<>>
  /\ ~done
  /\ waiting' = Append(waiting, c)
  /\ pc' = [pc EXCEPT ![c] = "parked"]
  /\ UNCHANGED <<queue, done, ended, result, accepted, completed, slot, got>>

\* The wait was resolved earlier; the reader runs now.
Resume(c) ==
  /\ pc[c] = "resumed"
  /\ \/ /\ slot[c] = 0
        /\ pc' = [pc EXCEPT ![c] = "returned"]
        /\ UNCHANGED got
     \/ /\ slot[c] # 0
        /\ pc' = [pc EXCEPT ![c] = "running"]
        /\ got' = [got EXCEPT ![c] = Append(@, slot[c])]
  /\ slot' = [slot EXCEPT ![c] = 0]
  /\ UNCHANGED <<queue, waiting, done, ended, result, accepted, completed>>

\* The loop body leaves the `for await` (return, break or a throw) while it is
\* handling an event.
Leave(c) ==
  /\ pc[c] = "running"
  /\ got[c] # <<>>
  /\ pc' = [pc EXCEPT ![c] = "left"]
  /\ UNCHANGED <<queue, waiting, done, ended, result, accepted, completed, slot, got>>

Read(c) == Shift(c) \/ Return(c) \/ Park(c) \/ Resume(c)

Next ==
  \/ \E completes \in BOOLEAN : Push(completes)
  \/ \E withResult \in BOOLEAN : End(withResult)
  \/ \E c \in Readers : Read(c) \/ Leave(c)

Spec == Init /\ [][Next]_vars

\* The runtime runs every reader that can run; a producer may stop pushing.
FairSpec == Spec /\ \A c \in Readers : WF_vars(Read(c))

-----------------------------------------------------------------------------
\* Types of the variables; a reader's loop body never gets a value that is no event.
TypeOK ==
  /\ queue \in Seq(Nat \ {0})
  /\ waiting \in Seq(Readers)
  /\ done \in BOOLEAN
  /\ ended \in BOOLEAN
  /\ result \in Nat
  /\ accepted \in Nat
  /\ completed \in Nat
  /\ pc \in [Readers -> {"running", "parked", "resumed", "returned", "left"}]
  /\ slot \in [Readers -> Nat]
  /\ got \in [Readers -> Seq(Nat \ {0})]

\* The events handed to reader c: those it handled, then the one under way to it.
Handed(c) == IF slot[c] = 0 THEN got[c] ELSE Append(got[c], slot[c])

\* A reader is parked only while there is nothing to give it, it is parked
\* once, and no reader stays parked after end(): push() hands an event to a
\* parked reader before it queues one, and the iterator parks only after it
\* found the queue empty and the stream not done.
NoLostWakeup ==
  /\ waiting # <<>> => queue = <<>>
  /\ ended => waiting = <<>>
  /\ \A c \in Readers : pc[c] = "parked" <=> c \in Parked
  /\ \A i, j \in DOMAIN waiting : waiting[i] = waiting[j] => i = j

\* Each reader sees its events in the order they were pushed, although one may
\* be queued while an earlier one is still under way through a resolved wait.
InOrder ==
  \A c \in Readers : \A i, j \in DOMAIN Handed(c) :
     i < j => Handed(c)[i] < Handed(c)[j]

\* No event is lost or given to two readers: what is not in the queue was
\* handed to exactly one reader, and the queue holds the rest in order.
ExactlyOnce ==
  /\ \A i \in DOMAIN queue : queue[i] = (accepted - Len(queue)) + i
  /\ \A n \in 1..(accepted - Len(queue)) :
        \E c \in Readers : \E i \in DOMAIN Handed(c) : Handed(c)[i] = n
  /\ \A c, d \in Readers : \A i \in DOMAIN Handed(c), j \in DOMAIN Handed(d) :
        Handed(c)[i] = Handed(d)[j] => c = d /\ i = j

\* When a loop that read the stream has run out of events, nothing is left in
\* the queue: the iterator returns on `done` only after it drained the queue.
DrainedBeforeReturn ==
  (\E c \in Readers : pc[c] = "returned") => queue = <<>>

\* The event that completes the stream is the last one accepted and result()
\* is the value extracted from it, whatever end(result) is given afterwards: a
\* reader that handles that event may await result().
CompletionIsFinal ==
  completed # 0 => result = completed /\ accepted = completed /\ done

\* Once end() was called every loop that keeps reading comes to its end, with
\* or without events still queued.
EveryReaderReturns ==
  \A c \in Readers : ended ~> pc[c] \in {"returned", "left"}

-----------------------------------------------------------------------------
(* The stream as a channel: an event counts as handed out when its wait is  *)
(* resolved, before the reader runs.                                        *)
Channel == INSTANCE FifoChannel
             WITH handed <- accepted - Len(queue),
                  takenBy <- [c \in Readers |-> Handed(c)],
                  closed <- done

\* The class keeps the promise the agent is built on, push by push and read by read.
ImplementsChannel == Channel!ChannelSpec
=============================================================================
