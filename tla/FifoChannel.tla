---------------------------- MODULE FifoChannel ----------------------------
(***************************************************************************)
(* What a stream of events promises to the loops that read it, without     *)
(* saying how: the n-th event accepted is handed out n-th, to exactly one  *)
(* reader, and nothing is accepted once the channel is closed.             *)
(*                                                                         *)
(* packages/ai/src/utils/event-stream.ts implements it (module             *)
(* EventStream), and the agent (module Agent) is written over it.          *)
(***************************************************************************)
EXTENDS Naturals, Sequences

CONSTANT Readers

VARIABLES accepted,  \* how many events were accepted; event n is the n-th
          handed,    \* how many of them were handed to a reader
          takenBy,   \* takenBy[c]: the events handed to reader c, in order
          closed     \* no event is accepted any more

channelVars == <<accepted, handed, takenBy, closed>>

ChannelInit ==
  /\ accepted = 0
  /\ handed = 0
  /\ takenBy = [c \in Readers |-> <<>>]
  /\ closed = FALSE

\* An event comes in; the one that completes the stream closes it.
Accept ==
  /\ ~closed
  /\ accepted' = accepted + 1
  /\ closed' \in BOOLEAN
  /\ UNCHANGED <<handed, takenBy>>

\* The oldest event not yet handed out goes to one reader.
Hand(c) ==
  /\ handed < accepted
  /\ handed' = handed + 1
  /\ takenBy' = [takenBy EXCEPT ![c] = Append(@, handed + 1)]
  /\ UNCHANGED <<accepted, closed>>

\* An event comes in while nothing is held back and goes straight to a reader.
AcceptAndHand(c) ==
  /\ ~closed
  /\ handed = accepted
  /\ accepted' = accepted + 1
  /\ handed' = handed + 1
  /\ takenBy' = [takenBy EXCEPT ![c] = Append(@, handed + 1)]
  /\ closed' \in BOOLEAN

Close ==
  /\ closed' = TRUE
  /\ UNCHANGED <<accepted, handed, takenBy>>

ChannelNext ==
  \/ Accept
  \/ Close
  \/ \E c \in Readers : Hand(c) \/ AcceptAndHand(c)

ChannelSpec == ChannelInit /\ [][ChannelNext]_channelVars

\* What the readers can rely on: every event up to the last one handed out went
\* to exactly one reader, and each reader has its events in the order they were
\* accepted.
HandedOnce ==
  /\ \A n \in 1..handed : \E c \in Readers : \E i \in DOMAIN takenBy[c] : takenBy[c][i] = n
  /\ \A c, d \in Readers : \A i \in DOMAIN takenBy[c], j \in DOMAIN takenBy[d] :
        takenBy[c][i] = takenBy[d][j] => c = d /\ i = j

HandedInOrder ==
  \A c \in Readers : \A i, j \in DOMAIN takenBy[c] :
     i < j => takenBy[c][i] < takenBy[c][j]
=============================================================================
