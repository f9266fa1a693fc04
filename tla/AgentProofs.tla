---------------------------- MODULE AgentProofs ----------------------------
(***************************************************************************)
(* What Agent promises, for any messages, queue modes, disturbances and     *)
(* numbers of runs, turns and tool calls: the flags follow the run, the     *)
(* transcript follows the loop, tool calls are answered, and no message is  *)
(* lost or sent twice.                                                     *)
(***************************************************************************)
EXTENDS Agent, Integers, SequenceTheorems, FiniteSetTheorems, TLAPS

-----------------------------------------------------------------------------
(* The invariant.                                                          *)

In(m, s) == At(m, s) # {}
Once(m, s) == \A i, j \in At(m, s) : i = j

\* ms are the messages of the message_end events, in their order.
Delivers(events, ms) ==
  \E f \in [1..Len(ms) -> Ends(events)] :
    /\ \A i, j \in 1..Len(ms) : i < j => f[i] < f[j]
    /\ \A p \in Ends(events) : \E i \in 1..Len(ms) : f[i] = p
    /\ \A i \in 1..Len(ms) : events[f[i]].message = ms[i]

Regular(events) == Delivers(events, Ended(events))

\* Runs start in their order, who has stopped reading leaves nothing behind, and
\* agent_end is the last event.
Streams ==
  \A r \in Runs :
    /\ loop[r].pc = "none" <=> r > runs
    /\ reader[r] = "none" <=> r > runs
    /\ r > runs => loop[r] = NoLoop
    /\ reader[r] # "reading" => chan[r] = <<>>
    /\ Regular(chan[r])
    /\ \A i \in DOMAIN chan[r] :
         chan[r][i].type = "agent_end" => i = Len(chan[r]) /\ loop[r].pc = "ended"

\* What a loop holds, by the await it is at.
LoopFits(l) ==
  /\ l.pc \in {"none", "request", "streaming", "tool", "ended", "rejected"} => l.pending = <<>>
  /\ l.pc \notin {"tool", "toolPolled"} => l.results = <<>>
  /\ l.pc = "streaming" => l.ctx # <<>> /\ l.ctx[Len(l.ctx)] = Assistant(l.reply, 0, "partial")
  /\ l.pc \in {"tool", "toolPolled"} =>
       /\ l.next \in 1..l.calls
       /\ Len(l.results) = IF l.pc = "tool" THEN l.next - 1 ELSE l.next
       /\ \A k \in 1..Len(l.results) : l.results[k] = ToolResult(l.reply, k)
       /\ l.ctx # <<>> /\ l.ctx[Len(l.ctx)] = Assistant(l.reply, l.calls, "toolUse")

LoopsFit == \A r \in Runs : LoopFits(loop[r])

\* Callers that wait for the run before, and listeners that do not throw.
Calm == disturbed \subseteq {"reset", "reject"}

\* Among them there is one run at a time, and the agent's fields are its own.
Tracked ==
  Calm => /\ \A r \in Runs : reader[r] = "reading" => r = runs /\ controller = r /\ runningPrompt = r
          /\ \A r \in Runs : Active(r) => reader[r] = "reading"
          /\ \A r \in settled : reader[r] = "settled"

\* What a loop has completed.
Made(l) ==
  (IF l.pc = "streaming" THEN SubSeq(l.ctx, 1, Len(l.ctx) - 1) ELSE l.ctx) \o l.results

\* The loop has what the agent has recorded and what is on its way, and before it at
\* most what a reset() has thrown away.
Follows ==
  Calm => \A r \in Runs : reader[r] = "reading" =>
    \E old \in Seq(Messages) :
      /\ Completed(r) = (old \o messages) \o OnTheWay(r)
      /\ "reset" \notin disturbed => old = <<>>
      /\ \A m \in Msgs : In(m, old) => m \in forgotten

\* A message that waits in a queue or was taken out to be injected is nowhere else;
\* the others are once in a context, and once in what was read or is on its way.
UserOnce(m) ==
  /\ m \notin sent =>
       /\ ~In(m, steeringQueue) /\ ~In(m, followUpQueue) /\ ~In(m, messages)
       /\ \A r \in Runs : ~In(m, loop[r].pending) /\ ~In(m, Completed(r))
  /\ Once(m, steeringQueue) /\ Once(m, followUpQueue) /\ ~(In(m, steeringQueue) /\ In(m, followUpQueue))
  /\ \A r \in Runs :
       /\ Once(m, loop[r].pending)
       /\ In(m, loop[r].pending) =>
            /\ ~In(m, steeringQueue) /\ ~In(m, followUpQueue)
            /\ \A q \in Runs : In(m, loop[q].pending) => q = r
  /\ In(m, steeringQueue) \/ In(m, followUpQueue) \/ (\E r \in Runs : In(m, loop[r].pending)) =>
       ~In(m, messages) /\ \A q \in Runs : ~In(m, Completed(q))
  /\ Once(m, messages)
  /\ \A r \in Runs :
       /\ Once(m, Completed(r)) /\ Once(m, OnTheWay(r))
       /\ In(m, OnTheWay(r)) =>
            /\ In(m, Completed(r)) /\ ~In(m, messages)
            /\ \A q \in Runs : In(m, OnTheWay(q)) => q = r

UsersOnce == \A m \in Msgs : UserOnce(m)

\* Nothing is lost.
NoneLost ==
  disturbed \subseteq {"reset"} => \A m \in sent \ forgotten :
    \/ In(m, steeringQueue) \/ In(m, followUpQueue) \/ In(m, Conversation)
    \/ \E r \in Runs : In(m, loop[r].pending)

\* Tool calls are answered in what was completed, but for the message whose tools run.
AllAnswered(ctx) ==
  \A i \in DOMAIN ctx : IsAssistant(ctx[i]) /\ ctx[i].stop = "toolUse" => Answered(ctx, i)

Done(l) ==
  IF l.pc \in {"streaming", "tool", "toolPolled"} THEN SubSeq(l.ctx, 1, Len(l.ctx) - 1) ELSE l.ctx

ToolsAnswered ==
  Calm => /\ \A r \in Runs : reader[r] = "reading" => AllAnswered(Done(loop[r]))
          /\ ~Reading => AllAnswered(messages)

Inv ==
  /\ TypeOK /\ Streams /\ LoopsFit /\ Tracked /\ FlagsFollowRun /\ Follows /\ UsersOnce /\ NoneLost
  /\ ToolsAnswered

-----------------------------------------------------------------------------
(* Events and the messages that end in them.                               *)

\* An event of a type carries what its type says.
LEMMA EventFields ==
  ASSUME NEW e \in Events
  PROVE  e.type = "message_end" => e.message \in Messages
BY DEF Events

\* The events there are.
LEMMA EventKinds ==
  /\ \A m \in Messages : /\ MessageStart(m) \in Events /\ MessageStart(m).type = "message_start"
                         /\ MessageEnd(m) \in Events /\ MessageEnd(m).type = "message_end"
                         /\ MessageEnd(m).message = m
  /\ \A n, i : <<n, i>> \in Calls =>
       /\ ToolStart(n, i) \in Events /\ ToolStart(n, i).type = "tool_execution_start"
       /\ ToolEnd(n, i) \in Events /\ ToolEnd(n, i).type = "tool_execution_end"
  /\ TurnEnd \in Events /\ TurnEnd.type = "turn_end"
  /\ AgentEnd \in Events /\ AgentEnd.type = "agent_end"
BY DEF MessageStart, MessageEnd, ToolStart, ToolEnd, TurnEnd, AgentEnd, Events

\* The places of the ends in a sequence of events.
LEMMA EndsTyped ==
  ASSUME NEW events \in Seq(Events)
  PROVE  /\ Ends(events) \subseteq 1..Len(events) /\ IsFiniteSet(Ends(events))
         /\ Cardinality(Ends(events)) \in Nat /\ Len(events) \in Nat
         /\ \A p \in Ends(events) : events[p] \in Events /\ events[p].message \in Messages
<1>1. DOMAIN events = 1..Len(events) /\ Len(events) \in Nat
  BY LenProperties
<1>2. Ends(events) \subseteq 1..Len(events)
  BY <1>1 DEF Ends
<1>3. IsFiniteSet(1..Len(events))
  BY <1>1, FS_Interval
<1>4. IsFiniteSet(Ends(events)) /\ Cardinality(Ends(events)) \in Nat
  BY <1>2, <1>3, FS_Subset, FS_CardinalityType
<1>5. ASSUME NEW p \in Ends(events)
      PROVE  events[p] \in Events /\ events[p].message \in Messages
  <2>1. events[p] \in Events /\ events[p].type = "message_end"
    BY <1>2, ElementOfSeq DEF Ends
  <2>2. QED
    BY <2>1, EventFields
<1>6. QED
  BY <1>1, <1>2, <1>4, <1>5

\* The places of the ends are numbered by those up to them, so what is delivered is
\* what the definition says.
LEMMA DeliversEnded ==
  ASSUME NEW events \in Seq(Events), NEW ms \in Seq(Messages), Delivers(events, ms)
  PROVE  Ended(events) = ms /\ Regular(events)
<1> DEFINE E == Ends(events)
           n == Len(ms)
           Upto(p) == {j \in E : j <= p}
<1>1. PICK f \in [1..n -> E] :
        /\ \A i, j \in 1..n : i < j => f[i] < f[j]
        /\ \A p \in E : \E i \in 1..n : f[i] = p
        /\ \A i \in 1..n : events[f[i]].message = ms[i]
  BY DEF Delivers
<1>2. n \in Nat /\ E \subseteq 1..Len(events) /\ Len(events) \in Nat
  BY LenProperties, EndsTyped
<1>3. \A i, j \in 1..n : f[i] <= f[j] <=> i <= j
  <2> SUFFICES ASSUME NEW i \in 1..n, NEW j \in 1..n
               PROVE  f[i] <= f[j] <=> i <= j
    OBVIOUS
  <2>1. f[i] \in Nat /\ f[j] \in Nat
    BY <1>2
  <2>2. i < j \/ i = j \/ j < i
    BY <1>2
  <2>3. QED
    BY <1>1, <1>2, <2>1, <2>2
<1>4. ASSUME NEW k \in 1..n
      PROVE  Cardinality(Upto(f[k])) = k
  <2> DEFINE g == [i \in 1..k |-> f[i]]
  <2>1. \A i \in 1..k : i \in 1..n /\ i <= k
    BY <1>2
  <2>2. g \in [1..k -> Upto(f[k])]
    BY <1>3, <2>1
  <2>3. \A p \in Upto(f[k]) : \E i \in 1..k : g[i] = p
    <3> SUFFICES ASSUME NEW p \in Upto(f[k])
                 PROVE  \E i \in 1..k : g[i] = p
      OBVIOUS
    <3>1. PICK i \in 1..n : f[i] = p
      BY <1>1
    <3>2. i <= k
      BY <1>3, <3>1
    <3>3. i \in 1..k
      BY <1>2, <3>2
    <3>4. QED
      BY <3>1, <3>3
  <2>4. \A i, j \in 1..k : g[i] = g[j] => i = j
    <3> SUFFICES ASSUME NEW i \in 1..k, NEW j \in 1..k, f[i] = f[j]
                 PROVE  i = j
      OBVIOUS
    <3>1. f[i] \in Nat /\ f[i] <= f[j] /\ f[j] <= f[i]
      BY <1>2, <2>1
    <3>2. i <= j /\ j <= i
      BY <1>3, <2>1, <3>1
    <3>3. QED
      BY <2>1, <3>2
  <2>5. g \in Bijection(1..k, Upto(f[k]))
    <3> HIDE DEF g, Upto
    <3>1. QED
      BY <2>2, <2>3, <2>4 DEF Bijection, Injection, Surjection, IsInjective
  <2>6. IsFiniteSet(1..k) /\ Cardinality(1..k) = k
    BY <1>2, FS_Interval
  <2>7. QED
    <3> HIDE DEF g, Upto
    <3>1. ExistsBijection(1..k, Upto(f[k]))
      BY <2>5 DEF ExistsBijection
    <3>2. QED
      BY <2>6, <3>1, FS_Bijection
<1>5. Cardinality(E) = n
  <2>1. CASE n = 0
    <3>1. E = {}
      BY <1>1, <2>1
    <3>2. QED
      BY <2>1, <3>1, FS_EmptySet
  <2>2. CASE n # 0
    <3>1. n \in 1..n
      BY <1>2, <2>2
    <3>2. Upto(f[n]) = E
      <4> SUFFICES ASSUME NEW p \in E
                   PROVE  p <= f[n]
        OBVIOUS
      <4>1. PICK i \in 1..n : f[i] = p
        BY <1>1
      <4>2. i <= n
        BY <1>2
      <4>3. QED
        BY <1>3, <3>1, <4>1, <4>2
    <3>3. QED
      BY <1>4, <3>1, <3>2
  <2>3. QED
    BY <2>1, <2>2
<1>6. ASSUME NEW k \in 1..n
      PROVE  Place(events, k) = f[k]
  <2>1. f[k] \in E /\ Cardinality(Upto(f[k])) = k
    BY <1>1, <1>4
  <2>2. ASSUME NEW p \in E, Cardinality(Upto(p)) = k
        PROVE  p = f[k]
    <3>1. PICK i \in 1..n : f[i] = p
      BY <1>1
    <3>2. Cardinality(Upto(p)) = i
      BY <1>4, <3>1
    <3>3. QED
      BY <2>2, <3>1, <3>2
  <2>3. QED
    BY <2>1, <2>2 DEF Place
<1>7. Ended(events) = [k \in 1..n |-> ms[k]]
  BY <1>1, <1>5, <1>6 DEF Ended
<1>8. ms = [k \in 1..n |-> ms[k]]
  BY LenProperties
<1>9. QED
  BY <1>7, <1>8 DEF Regular

\* Messages that end in regular events are messages.
LEMMA EndedTyped ==
  ASSUME NEW events \in Seq(Events), Regular(events)
  PROVE  Ended(events) \in Seq(Messages)
<1> DEFINE n == Cardinality(Ends(events))
<1>1. n \in Nat
  BY EndsTyped
<1>2. Ended(events) = [k \in 1..n |-> events[Place(events, k)].message]
  BY DEF Ended
<1>3. Len(Ended(events)) = n
  BY <1>1, <1>2
<1>4. PICK f \in [1..n -> Ends(events)] : \A i \in 1..n : events[f[i]].message = Ended(events)[i]
  BY <1>3 DEF Regular, Delivers
<1>5. \A i \in 1..n : Ended(events)[i] \in Messages
  BY <1>4, EndsTyped
<1> HIDE DEF n
<1>6. Ended(events) = [i \in 1..n |-> Ended(events)[i]]
  BY <1>2
<1>7. [i \in 1..n |-> Ended(events)[i]] \in Seq(Messages)
  BY <1>1, <1>5, IsASeq
<1>8. QED
  BY <1>6, <1>7

\* What two sequences of events deliver, one after the other.
LEMMA DeliversConcat ==
  ASSUME NEW a \in Seq(Events), NEW b \in Seq(Events), NEW x \in Seq(Messages), NEW y \in Seq(Messages),
         Delivers(a, x), Delivers(b, y)
  PROVE  Delivers(a \o b, x \o y)
<1> DEFINE ab == a \o b
           xy == x \o y
<1>1. PICK f \in [1..Len(x) -> Ends(a)] :
        /\ \A i, j \in 1..Len(x) : i < j => f[i] < f[j]
        /\ \A p \in Ends(a) : \E i \in 1..Len(x) : f[i] = p
        /\ \A i \in 1..Len(x) : a[f[i]].message = x[i]
  BY DEF Delivers
<1>2. PICK g \in [1..Len(y) -> Ends(b)] :
        /\ \A i, j \in 1..Len(y) : i < j => g[i] < g[j]
        /\ \A p \in Ends(b) : \E i \in 1..Len(y) : g[i] = p
        /\ \A i \in 1..Len(y) : b[g[i]].message = y[i]
  BY DEF Delivers
<1>3. /\ Len(x) \in Nat /\ Len(y) \in Nat /\ Len(a) \in Nat /\ Len(b) \in Nat
      /\ Ends(a) \subseteq 1..Len(a) /\ Ends(b) \subseteq 1..Len(b)
  BY LenProperties, EndsTyped
<1>4. /\ ab \in Seq(Events) /\ Len(ab) = Len(a) + Len(b)
      /\ \A i \in 1..Len(a) : ab[i] = a[i]
      /\ \A i \in 1..Len(b) : ab[Len(a) + i] = b[i]
  BY <1>3, ConcatProperties
<1>5. /\ xy \in Seq(Messages) /\ Len(xy) = Len(x) + Len(y)
      /\ \A i \in 1..Len(x) : xy[i] = x[i]
      /\ \A i \in 1..Len(y) : xy[Len(x) + i] = y[i]
  BY <1>3, ConcatProperties
<1>6. DOMAIN a = 1..Len(a) /\ DOMAIN b = 1..Len(b) /\ DOMAIN ab = 1..Len(ab)
  BY <1>4, LenProperties
<1> HIDE DEF ab, xy
<1>7. Ends(ab) = Ends(a) \union {Len(a) + p : p \in Ends(b)}
  <2>1. \A p \in Ends(a) : p \in Ends(ab)
    BY <1>3, <1>4, <1>6 DEF Ends
  <2>2. \A p \in Ends(b) : Len(a) + p \in Ends(ab)
    BY <1>3, <1>4, <1>6 DEF Ends
  <2>3. ASSUME NEW p \in Ends(ab)
        PROVE  p \in Ends(a) \/ \E q \in Ends(b) : p = Len(a) + q
    <3>1. p \in 1..(Len(a) + Len(b)) /\ ab[p].type = "message_end"
      BY <1>4, <1>6, <2>3 DEF Ends
    <3>2. CASE p <= Len(a)
      BY <1>3, <1>4, <1>6, <3>1, <3>2 DEF Ends
    <3>3. CASE p > Len(a)
      <4> DEFINE q == p - Len(a)
      <4>1. q \in 1..Len(b) /\ p = Len(a) + q
        BY <1>3, <3>1, <3>3
      <4>2. q \in Ends(b)
        BY <1>4, <1>6, <3>1, <4>1 DEF Ends
      <4>3. QED
        BY <4>1, <4>2
    <3>4. QED
      BY <1>3, <3>1, <3>2, <3>3
  <2>4. QED
    BY <2>1, <2>2, <2>3
<1> DEFINE n == Len(x) + Len(y)
           h == [i \in 1..n |-> IF i <= Len(x) THEN f[i] ELSE Len(a) + g[i - Len(x)]]
<1>8. \A i \in 1..n : i > Len(x) => i - Len(x) \in 1..Len(y)
  BY <1>3
<1>9. /\ \A i \in 1..n : i <= Len(x) => i \in 1..Len(x) /\ h[i] = f[i] /\ h[i] \in 1..Len(a) /\ h[i] \in Ends(ab)
      /\ \A i \in 1..n : i > Len(x) => /\ h[i] = Len(a) + g[i - Len(x)] /\ g[i - Len(x)] \in 1..Len(b)
                                       /\ h[i] \in Ends(ab)
  <2>1. ASSUME NEW i \in 1..n, i <= Len(x)
        PROVE  i \in 1..Len(x) /\ h[i] = f[i] /\ h[i] \in 1..Len(a) /\ h[i] \in Ends(ab)
    <3>1. i \in 1..Len(x) /\ h[i] = f[i]
      BY <1>3, <2>1
    <3>2. QED
      BY <1>3, <1>7, <3>1
  <2>2. ASSUME NEW i \in 1..n, i > Len(x)
        PROVE  h[i] = Len(a) + g[i - Len(x)] /\ g[i - Len(x)] \in 1..Len(b) /\ h[i] \in Ends(ab)
    <3>1. ~(i <= Len(x)) /\ i - Len(x) \in 1..Len(y)
      BY <1>3, <1>8, <2>2
    <3>2. h[i] = Len(a) + g[i - Len(x)] /\ g[i - Len(x)] \in Ends(b)
      BY <3>1
    <3>3. QED
      BY <1>3, <1>7, <3>2
  <2>3. QED
    BY <2>1, <2>2
<1>10. h \in [1..n -> Ends(ab)]
  <2>1. \A i \in 1..n : h[i] \in Ends(ab)
    BY <1>3, <1>9
  <2>2. QED
    BY <2>1
<1>11. ASSUME NEW i \in 1..n, NEW j \in 1..n, i < j
       PROVE  h[i] < h[j]
  <2>1. CASE j <= Len(x)
    <3>1. i \in 1..Len(x) /\ j \in 1..Len(x) /\ h[i] = f[i] /\ h[j] = f[j]
      BY <1>3, <1>9, <1>11, <2>1
    <3>2. QED
      BY <1>1, <1>11, <3>1
  <2>2. CASE i <= Len(x) /\ j > Len(x)
    <3>1. h[i] \in 1..Len(a) /\ h[j] = Len(a) + g[j - Len(x)] /\ g[j - Len(x)] \in 1..Len(b)
      BY <1>9, <2>2
    <3>2. QED
      BY <1>3, <3>1
  <2>3. CASE i > Len(x)
    <3>1. i - Len(x) \in 1..Len(y) /\ j - Len(x) \in 1..Len(y) /\ i - Len(x) < j - Len(x)
      BY <1>3, <1>8, <1>11, <2>3
    <3>2. g[i - Len(x)] < g[j - Len(x)]
      BY <1>2, <3>1
    <3>3. /\ h[i] = Len(a) + g[i - Len(x)] /\ h[j] = Len(a) + g[j - Len(x)]
          /\ g[i - Len(x)] \in 1..Len(b) /\ g[j - Len(x)] \in 1..Len(b)
      BY <1>3, <1>9, <1>11, <2>3
    <3>4. QED
      BY <1>3, <3>2, <3>3
  <2>4. QED
    BY <1>3, <2>1, <2>2, <2>3
<1>12. ASSUME NEW p \in Ends(ab)
       PROVE  \E i \in 1..n : h[i] = p
  <2>1. CASE p \in Ends(a)
    <3>1. PICK i \in 1..Len(x) : f[i] = p
      BY <1>1, <2>1
    <3>2. i \in 1..n /\ h[i] = f[i]
      BY <1>3
    <3>3. QED
      BY <3>1, <3>2
  <2>2. ASSUME NEW q \in Ends(b), p = Len(a) + q
        PROVE  \E i \in 1..n : h[i] = p
    <3>1. PICK i \in 1..Len(y) : g[i] = q
      BY <1>2, <2>2
    <3>2. Len(x) + i \in 1..n /\ Len(x) + i > Len(x) /\ (Len(x) + i) - Len(x) = i
      BY <1>3
    <3>3. h[Len(x) + i] = Len(a) + g[i]
      BY <1>9, <3>2
    <3>4. QED
      BY <2>2, <3>1, <3>2, <3>3
  <2>3. QED
    BY <1>7, <2>1, <2>2
<1>13. ASSUME NEW i \in 1..n
       PROVE  ab[h[i]].message = xy[i]
  <2>1. CASE i <= Len(x)
    <3>1. i \in 1..Len(x) /\ h[i] = f[i] /\ f[i] \in 1..Len(a)
      BY <1>9, <2>1
    <3>2. QED
      <4>1. ab[f[i]] = a[f[i]] /\ a[f[i]].message = x[i]
        BY <1>1, <1>4, <3>1
      <4>2. xy[i] = x[i]
        BY <1>5, <3>1
      <4>3. QED
        BY ONLY <3>1, <4>1, <4>2
  <2>2. CASE i > Len(x)
    <3>1. /\ i - Len(x) \in 1..Len(y) /\ h[i] = Len(a) + g[i - Len(x)] /\ g[i - Len(x)] \in 1..Len(b)
          /\ Len(x) + (i - Len(x)) = i
      BY <1>3, <1>8, <1>9, <2>2
    <3>2. ab[h[i]] = b[g[i - Len(x)]] /\ xy[i] = y[i - Len(x)]
      <4>1. ab[Len(a) + g[i - Len(x)]] = b[g[i - Len(x)]]
        BY <1>4, <3>1
      <4>2. xy[Len(x) + (i - Len(x))] = y[i - Len(x)]
        BY <1>5, <3>1
      <4>3. QED
        BY ONLY <3>1, <4>1, <4>2
    <3>3. QED
      BY <1>2, <3>1, <3>2
  <2>3. QED
    BY <1>3, <2>1, <2>2
<1> HIDE DEF h, n
<1>14. Len(xy) = n
  BY <1>5 DEF n
<1>15. Delivers(ab, xy)
  BY <1>10, <1>11, <1>12, <1>13, <1>14 DEF Delivers
<1>16. QED
  BY <1>15 DEF ab, xy

\* Pushed events add to what is on its way.
LEMMA EndedConcat ==
  ASSUME NEW a \in Seq(Events), NEW b \in Seq(Events), NEW y \in Seq(Messages),
         Regular(a), Delivers(b, y)
  PROVE  Ended(a \o b) = Ended(a) \o y /\ Regular(a \o b)
<1>1. Ended(a) \in Seq(Messages)
  BY EndedTyped
<1>2. Delivers(a \o b, Ended(a) \o y)
  BY <1>1, DeliversConcat DEF Regular
<1>3. a \o b \in Seq(Events) /\ Ended(a) \o y \in Seq(Messages)
  BY <1>1, ConcatProperties
<1>4. QED
  BY <1>2, <1>3, DeliversEnded

\* Nothing is delivered by events of other types.
LEMMA NoEnds ==
  ASSUME NEW events \in Seq(Events), \A i \in DOMAIN events : events[i].type # "message_end"
  PROVE  Delivers(events, <<>>)
<1>1. Ends(events) = {}
  BY DEF Ends
<1>2. Len(<<>>) = 0 /\ 1..0 = {}
  OBVIOUS
<1> DEFINE f == [i \in 1..0 |-> i]
<1>3. f \in [1..0 -> Ends(events)]
  BY <1>2
<1>4. QED
  BY <1>1, <1>2, <1>3 DEF Delivers

\* One message_end delivers its message.
LEMMA OneEnd ==
  ASSUME NEW m \in Messages
  PROVE  Delivers(<<MessageEnd(m)>>, <<m>>)
<1> DEFINE f == [i \in 1..1 |-> 1]
<1>1. Ends(<<MessageEnd(m)>>) = {1}
  BY DEF Ends, MessageEnd
<1>2. f \in [1..1 -> Ends(<<MessageEnd(m)>>)] /\ Len(<<m>>) = 1
  BY <1>1
<1>3. <<MessageEnd(m)>>[1].message = m /\ <<m>>[1] = m
  BY DEF MessageEnd
<1>4. \A i \in 1..1 : i = 1 /\ f[i] = 1
  OBVIOUS
<1> HIDE DEF f
<1>5. /\ \A i, j \in 1..1 : i < j => f[i] < f[j]
      /\ \A p \in Ends(<<MessageEnd(m)>>) : \E i \in 1..1 : f[i] = p
      /\ \A i \in 1..1 : <<MessageEnd(m)>>[f[i]].message = <<m>>[i]
  BY <1>1, <1>3, <1>4
<1>6. QED
  BY <1>2, <1>5 DEF Delivers

\* Complete messages are delivered by what announces them.
LEMMA AnnounceDelivers ==
  ASSUME NEW ms \in Seq(Messages)
  PROVE  /\ Announce(ms) \in Seq(Events) /\ Delivers(Announce(ms), ms)
         /\ \A j \in DOMAIN Announce(ms) : Announce(ms)[j].type # "agent_end"
<1> DEFINE n == Len(ms)
           events == Announce(ms)
           f == [i \in 1..n |-> 2 * i]
<1>1. n \in Nat /\ 2 * n \in Nat
  BY LenProperties
<1>2. /\ events = [j \in 1..2 * n |->
           IF j % 2 = 1 THEN MessageStart(ms[(j + 1) \div 2]) ELSE MessageEnd(ms[j \div 2])]
      /\ DOMAIN events = 1..2 * n /\ Len(events) = 2 * n
  BY <1>1 DEF Announce
<1>3. ASSUME NEW j \in 1..2 * n, j % 2 = 1
      PROVE  events[j].type = "message_start" /\ events[j] \in Events
  <2>1. (j + 1) \div 2 \in 1..n
    BY <1>1, <1>3
  <2>2. events[j] = MessageStart(ms[(j + 1) \div 2]) /\ ms[(j + 1) \div 2] \in Messages
    BY <1>2, <1>3, <2>1, ElementOfSeq
  <2>3. QED
    BY <2>2, EventKinds
<1>4. ASSUME NEW j \in 1..2 * n, j % 2 # 1
      PROVE  /\ j \div 2 \in 1..n /\ j = f[j \div 2]
             /\ events[j].type = "message_end" /\ events[j].message = ms[j \div 2] /\ events[j] \in Events
  <2>1. j \div 2 \in 1..n /\ j = 2 * (j \div 2)
    BY <1>1, <1>4
  <2>2. events[j] = MessageEnd(ms[j \div 2]) /\ ms[j \div 2] \in Messages
    BY <1>2, <1>4, <2>1, ElementOfSeq
  <2>3. QED
    BY <2>1, <2>2, EventKinds
<1>5. \A i \in 1..n : 2 * i \in 1..2 * n /\ (2 * i) % 2 # 1 /\ (2 * i) \div 2 = i
  BY <1>1
<1>6. \A i \in 1..n : f[i] = 2 * i
  OBVIOUS
<1>7. \A j \in 1..2 * n : events[j] \in Events
  BY <1>3, <1>4
<1> HIDE DEF f, events
<1>8. events \in Seq(Events)
  <2>1. events = [j \in 1..2 * n |-> events[j]]
    BY <1>2
  <2>2. QED
    BY <1>1, <1>7, <2>1, IsASeq
<1>9. \A i \in 1..n : f[i] \in Ends(events) /\ events[f[i]].message = ms[i]
  BY <1>2, <1>4, <1>5, <1>6 DEF Ends
<1>10. \A p \in Ends(events) : \E i \in 1..n : f[i] = p
  <2> SUFFICES ASSUME NEW p \in Ends(events)
               PROVE  \E i \in 1..n : f[i] = p
    OBVIOUS
  <2>1. p \in 1..2 * n /\ events[p].type = "message_end"
    BY <1>2 DEF Ends
  <2>2. p % 2 # 1
    BY <1>3, <2>1
  <2>3. QED
    BY <1>4, <2>1, <2>2
<1>11. \A i, j \in 1..n : i < j => f[i] < f[j]
  BY <1>1, <1>6
<1>12. f \in [1..n -> Ends(events)]
  BY <1>9 DEF f
<1>13. Delivers(events, ms)
  BY <1>9, <1>10, <1>11, <1>12 DEF Delivers
<1>14. \A j \in DOMAIN events : events[j].type # "agent_end"
  <2> SUFFICES ASSUME NEW j \in 1..2 * n
               PROVE  events[j].type # "agent_end"
    BY <1>2
  <2>1. CASE j % 2 = 1
    BY <1>3, <2>1
  <2>2. CASE j % 2 # 1
    BY <1>4, <2>2
  <2>3. QED
    BY <2>1, <2>2
<1>15. QED
  BY <1>8, <1>13, <1>14 DEF events

\* The results of the tools that are skipped, and the events that tell of them.
LEMMA SkippedDelivers ==
  ASSUME NEW l \in Loops, l.next \in 1..l.calls
  PROVE  /\ SkippedResults(l) \in Seq(ToolResults) /\ Len(SkippedResults(l)) = l.calls - l.next
         /\ SkippedEvents(l) \in Seq(Events) /\ Delivers(SkippedEvents(l), SkippedResults(l))
         /\ \A j \in DOMAIN SkippedEvents(l) : SkippedEvents(l)[j].type # "agent_end"
<1> DEFINE n == l.calls - l.next
           events == SkippedEvents(l)
           ms == SkippedResults(l)
           f == [i \in 1..n |-> 4 * i]
           At4(j) == l.next + (j + 3) \div 4
<1>1. /\ l.reply \in Nat /\ l.calls \in 0..MaxCalls /\ l.next \in Nat /\ n \in Nat /\ 4 * n \in Nat
      /\ MaxCalls \in Nat
  BY AgentAssumption DEF Loops
<1>2. \A i \in 1..n : l.next + i \in 1..MaxCalls
  BY <1>1
<1>3. ms = [i \in 1..n |-> ToolResult(l.reply, l.next + i)] /\ DOMAIN ms = 1..n /\ Len(ms) = n
  BY <1>1 DEF SkippedResults
<1>4. \A i \in 1..n : <<l.reply, l.next + i>> \in Calls
  BY <1>1, <1>2 DEF Calls
<1>5. \A i \in 1..n : ToolResult(l.reply, l.next + i) \in ToolResults
  BY <1>4 DEF ToolResult, ToolResults
<1>6. ms \in Seq(ToolResults)
  BY <1>1, <1>3, <1>5, IsASeq
<1>7. /\ events = [j \in 1..4 * n |->
           LET i == l.next + (j + 3) \div 4
           IN  CASE j % 4 = 1 -> ToolStart(l.reply, i)
                 [] j % 4 = 2 -> ToolEnd(l.reply, i)
                 [] j % 4 = 3 -> MessageStart(ToolResult(l.reply, i))
                 [] OTHER -> MessageEnd(ToolResult(l.reply, i))]
      /\ DOMAIN events = 1..4 * n /\ Len(events) = 4 * n
  BY <1>1 DEF SkippedEvents
<1>8. \A j \in 1..4 * n : (j + 3) \div 4 \in 1..n /\ j % 4 \in 0..3
  BY <1>1
<1>9. ASSUME NEW j \in 1..4 * n
      PROVE  /\ j % 4 = 1 => events[j] = ToolStart(l.reply, At4(j))
             /\ j % 4 = 2 => events[j] = ToolEnd(l.reply, At4(j))
             /\ j % 4 = 3 => events[j] = MessageStart(ToolResult(l.reply, At4(j)))
             /\ j % 4 = 0 => events[j] = MessageEnd(ToolResult(l.reply, At4(j)))
  BY <1>7
<1>10. \A j \in 1..4 * n : <<l.reply, At4(j)>> \in Calls /\ ToolResult(l.reply, At4(j)) \in Messages
  BY <1>4, <1>5, <1>8 DEF Messages
<1> HIDE DEF events, ms, n, At4
<1>11. ASSUME NEW j \in 1..4 * n
       PROVE  /\ events[j] \in Events /\ events[j].type # "agent_end"
              /\ j % 4 = 0 => events[j] = MessageEnd(ToolResult(l.reply, At4(j)))
              /\ j % 4 # 0 => events[j].type # "message_end"
  <2>1. CASE j % 4 = 1
    <3>1. events[j] = ToolStart(l.reply, At4(j)) /\ j % 4 # 0
      BY <1>9, <2>1
    <3>2. events[j] \in Events /\ events[j].type = "tool_execution_start"
      BY <1>10, <3>1 DEF ToolStart, Events
    <3>3. QED
      BY <3>1, <3>2
  <2>2. CASE j % 4 = 2
    <3>1. events[j] = ToolEnd(l.reply, At4(j)) /\ j % 4 # 0
      BY <1>9, <2>2
    <3>2. events[j] \in Events /\ events[j].type = "tool_execution_end"
      BY <1>10, <3>1 DEF ToolEnd, Events
    <3>3. QED
      BY <3>1, <3>2
  <2>3. CASE j % 4 = 3
    <3>1. events[j] = MessageStart(ToolResult(l.reply, At4(j))) /\ j % 4 # 0
      BY <1>9, <2>3
    <3>2. events[j] \in Events /\ events[j].type = "message_start"
      BY <1>10, <3>1, EventKinds
    <3>3. QED
      BY <3>1, <3>2
  <2>4. CASE j % 4 = 0
    <3>1. events[j] = MessageEnd(ToolResult(l.reply, At4(j))) /\ j % 4 = 0
      BY <1>9, <2>4
    <3>2. events[j] \in Events /\ events[j].type = "message_end"
      BY <1>10, <3>1, EventKinds
    <3>3. QED
      BY <3>1, <3>2
  <2>5. QED
    BY <1>8, <2>1, <2>2, <2>3, <2>4
<1>12. events \in Seq(Events)
  <2>1. events = [j \in 1..4 * n |-> events[j]]
    BY <1>7
  <2>2. 4 * n \in Nat /\ \A j \in 1..4 * n : events[j] \in Events
    BY <1>1, <1>11
  <2>3. QED
    BY ONLY <2>1, <2>2, IsASeq
<1>13. \A i \in 1..n : 4 * i \in 1..4 * n /\ (4 * i) % 4 = 0 /\ At4(4 * i) = l.next + i
  BY <1>1 DEF At4
<1>14. \A i \in 1..n : f[i] = 4 * i
  OBVIOUS
<1> HIDE DEF f
<1>15. \A i \in 1..n : f[i] \in Ends(events) /\ events[f[i]].message = ms[i]
  <2> SUFFICES ASSUME NEW i \in 1..n
               PROVE  f[i] \in Ends(events) /\ events[f[i]].message = ms[i]
    OBVIOUS
  <2>1. f[i] \in 1..4 * n /\ events[f[i]] = MessageEnd(ToolResult(l.reply, l.next + i))
    BY <1>11, <1>13, <1>14
  <2>2. ms[i] = ToolResult(l.reply, l.next + i)
    BY <1>3
  <2>3. QED
    BY <1>7, <2>1, <2>2 DEF Ends, MessageEnd
<1>16. \A p \in Ends(events) : \E i \in 1..n : f[i] = p
  <2> SUFFICES ASSUME NEW p \in Ends(events)
               PROVE  \E i \in 1..n : f[i] = p
    OBVIOUS
  <2>1. p \in 1..4 * n /\ events[p].type = "message_end"
    BY <1>7 DEF Ends
  <2>2. p % 4 = 0
    BY <1>11, <2>1
  <2>3. p \div 4 \in 1..n /\ p = 4 * (p \div 4)
    BY <1>1, <2>1, <2>2
  <2>4. QED
    BY <1>14, <2>3
<1>17. \A i, j \in 1..n : i < j => f[i] < f[j]
  BY <1>1, <1>14
<1>18. f \in [1..n -> Ends(events)]
  BY <1>15 DEF f
<1>19. Delivers(events, ms)
  <2>1. Len(ms) = n
    BY <1>3
  <2>2. QED
    BY <1>15, <1>16, <1>17, <1>18, <2>1 DEF Delivers
<1>20. QED
  BY <1>3, <1>6, <1>7, <1>11, <1>12, <1>19 DEF events, ms, n

\* What the reader takes is the first message under way when it is a message_end.
LEMMA EndedTail ==
  ASSUME NEW events \in Seq(Events), events # <<>>, Regular(events)
  PROVE  /\ Regular(Tail(events))
         /\ Head(events).type = "message_end" =>
              Ended(events) = <<Head(events).message>> \o Ended(Tail(events))
         /\ Head(events).type # "message_end" => Ended(events) = Ended(Tail(events))
<1> DEFINE ms == Ended(events)
           rest == Tail(events)
           n == Len(ms)
<1>1. PICK f \in [1..n -> Ends(events)] :
        /\ \A i, j \in 1..n : i < j => f[i] < f[j]
        /\ \A p \in Ends(events) : \E i \in 1..n : f[i] = p
        /\ \A i \in 1..n : events[f[i]].message = ms[i]
  BY DEF Regular, Delivers
<1>2. /\ ms \in Seq(Messages) /\ n \in Nat /\ Len(events) \in Nat /\ Ends(events) \subseteq 1..Len(events)
      /\ DOMAIN events = 1..Len(events) /\ DOMAIN ms = 1..n
  BY EndedTyped, EndsTyped, LenProperties
<1>3. /\ rest \in Seq(Events) /\ Len(events) >= 1 /\ Len(rest) = Len(events) - 1 /\ DOMAIN rest = 1..Len(rest)
      /\ \A i \in 1..Len(rest) : rest[i] = events[i + 1]
      /\ Head(events) = events[1]
  BY <1>2, HeadTailProperties, LenProperties
<1> HIDE DEF ms, rest, n
<1>4. Ends(rest) = {p - 1 : p \in Ends(events) \ {1}}
  <2>1. ASSUME NEW p \in Ends(events), p # 1
        PROVE  p - 1 \in Ends(rest)
    <3>1. p \in 2..Len(events) /\ events[p].type = "message_end"
      BY <1>2, <2>1 DEF Ends
    <3>2. p - 1 \in 1..Len(rest) /\ (p - 1) + 1 = p
      BY <1>2, <1>3, <3>1
    <3>3. QED
      BY <1>3, <3>1, <3>2 DEF Ends
  <2>2. ASSUME NEW q \in Ends(rest)
        PROVE  q + 1 \in Ends(events) /\ q + 1 # 1 /\ q = (q + 1) - 1
    <3>1. q \in 1..Len(rest) /\ events[q + 1].type = "message_end"
      BY <1>3 DEF Ends
    <3>2. QED
      BY <1>2, <1>3, <3>1 DEF Ends
  <2>3. QED
    BY <2>1, <2>2
<1>5. CASE Head(events).type # "message_end"
  <2> DEFINE g == [i \in 1..n |-> f[i] - 1]
  <2>1. 1 \notin Ends(events)
    BY <1>3, <1>5 DEF Ends
  <2>2. \A i \in 1..n : f[i] \in 2..Len(events) /\ f[i] \in Ends(events)
    BY <1>1, <1>2, <2>1
  <2>3. \A i \in 1..n : g[i] = f[i] - 1
    OBVIOUS
  <2>4. \A i \in 1..n : g[i] \in Ends(rest)
    BY <1>4, <2>1, <2>2, <2>3
  <2>5. g \in [1..n -> Ends(rest)]
    BY <2>4
  <2> HIDE DEF g
  <2>6. \A i, j \in 1..n : i < j => g[i] < g[j]
    BY <1>1, <2>2, <2>3
  <2>7. \A p \in Ends(rest) : \E i \in 1..n : g[i] = p
    BY <1>1, <1>4, <2>3
  <2>8. \A i \in 1..n : rest[g[i]].message = ms[i]
    <3> SUFFICES ASSUME NEW i \in 1..n
                 PROVE  rest[g[i]].message = ms[i]
      OBVIOUS
    <3>1. g[i] \in 1..Len(rest) /\ g[i] + 1 = f[i]
      <4>1. PICK p \in 2..Len(events) : f[i] = p /\ g[i] = p - 1
        BY <2>2, <2>3
      <4>2. QED
        BY <1>2, <1>3, <4>1
    <3>2. QED
      BY <1>1, <1>3, <3>1
  <2>9. Delivers(rest, ms)
    BY <2>5, <2>6, <2>7, <2>8 DEF Delivers, n
  <2>10. Ended(rest) = ms /\ Regular(rest)
    BY <1>2, <1>3, <2>9, DeliversEnded
  <2>11. QED
    BY <1>5, <2>10 DEF ms, rest
<1>6. CASE Head(events).type = "message_end"
  <2> DEFINE g == [i \in 1..n - 1 |-> f[i + 1] - 1]
  <2>1. 1 \in Ends(events)
    BY <1>2, <1>3, <1>6 DEF Ends
  <2>2. PICK k \in 1..n : f[k] = 1
    BY <1>1, <2>1
  <2>3. 1 \in 1..n /\ n - 1 \in Nat
    BY <1>2, <2>2
  <2>4. f[1] \in 1..Len(events) /\ f[1] = 1
    <3>1. f[1] \in 1..Len(events)
      BY <1>2, <2>3
    <3>2. k = 1 \/ 1 < k
      BY <1>2, <2>2
    <3>3. 1 < k => f[1] < 1
      BY <1>1, <2>2, <2>3
    <3>4. QED
      BY <1>2, <2>2, <3>1, <3>2, <3>3
  <2>5. ms[1] = Head(events).message
    BY <1>1, <1>3, <2>3, <2>4
  <2>6. \A i \in 1..n - 1 : i + 1 \in 1..n /\ 1 < i + 1
    BY <1>2
  <2>7. \A i \in 1..n - 1 : f[i + 1] \in Ends(events) /\ f[i + 1] \in 2..Len(events)
    <3> SUFFICES ASSUME NEW i \in 1..n - 1
                 PROVE  f[i + 1] \in Ends(events) /\ f[i + 1] \in 2..Len(events)
      OBVIOUS
    <3>1. f[1] < f[i + 1]
      BY <1>1, <2>3, <2>6
    <3>2. f[i + 1] \in Ends(events)
      BY <2>6
    <3>3. QED
      BY <1>2, <2>4, <3>1, <3>2
  <2>8. \A i \in 1..n - 1 : g[i] = f[i + 1] - 1
    OBVIOUS
  <2>9. \A i \in 1..n - 1 : g[i] \in Ends(rest)
    BY <1>4, <2>7, <2>8
  <2>10. g \in [1..n - 1 -> Ends(rest)]
    BY <2>9
  <2> HIDE DEF g
  <2>11. \A i, j \in 1..n - 1 : i < j => g[i] < g[j]
    <3> SUFFICES ASSUME NEW i \in 1..n - 1, NEW j \in 1..n - 1, i < j
                 PROVE  g[i] < g[j]
      OBVIOUS
    <3>1. f[i + 1] < f[j + 1]
      <4>1. i + 1 \in 1..n /\ j + 1 \in 1..n /\ i + 1 < j + 1
        BY <1>2
      <4>2. QED
        BY <1>1, <4>1
    <3>2. QED
      BY <2>7, <2>8, <3>1
  <2>12. \A p \in Ends(rest) : \E i \in 1..n - 1 : g[i] = p
    <3> SUFFICES ASSUME NEW q \in Ends(events), q # 1
                 PROVE  \E i \in 1..n - 1 : g[i] = q - 1
      BY <1>4
    <3>1. PICK i \in 1..n : f[i] = q
      BY <1>1
    <3>2. i # 1
      BY <2>4, <3>1
    <3>3. i - 1 \in 1..n - 1 /\ (i - 1) + 1 = i
      BY <1>2, <3>2
    <3>4. QED
      BY <2>8, <3>1, <3>3
  <2>13. /\ Tail(ms) \in Seq(Messages) /\ Len(Tail(ms)) = n - 1 /\ Head(ms) = ms[1]
         /\ \A i \in 1..n - 1 : Tail(ms)[i] = ms[i + 1]
         /\ ms = <<Head(ms)>> \o Tail(ms)
    <3>1. ms # <<>>
      BY <1>2, <2>3 DEF n
    <3>2. QED
      BY <1>2, <3>1, HeadTailProperties DEF n
  <2>14. \A i \in 1..n - 1 : rest[g[i]].message = Tail(ms)[i]
    <3> SUFFICES ASSUME NEW i \in 1..n - 1
                 PROVE  rest[g[i]].message = Tail(ms)[i]
      OBVIOUS
    <3>1. g[i] \in 1..Len(rest) /\ g[i] + 1 = f[i + 1]
      <4>1. PICK p \in 2..Len(events) : f[i + 1] = p /\ g[i] = p - 1
        BY <2>7, <2>8
      <4>2. QED
        BY <1>2, <1>3, <4>1
    <3>2. rest[g[i]] = events[f[i + 1]]
      BY <1>3, <3>1
    <3>3. QED
      BY <1>1, <2>6, <2>13, <3>2
  <2>15. Delivers(rest, Tail(ms))
    <3>1. Len(Tail(ms)) = n - 1
      BY <2>13
    <3>2. QED
      BY <2>10, <2>11, <2>12, <2>14, <3>1 DEF Delivers
  <2>16. Ended(rest) = Tail(ms) /\ Regular(rest)
    BY <1>3, <2>13, <2>15, DeliversEnded
  <2>17. QED
    BY <1>6, <2>5, <2>13, <2>16 DEF ms, rest
<1>7. QED
  BY <1>5, <1>6

-----------------------------------------------------------------------------
(* Messages of the callers in sequences of messages.                       *)

\* The kinds of messages are told apart by their roles.
LEMMA MessageKinds ==
  /\ Users \subseteq Messages /\ ToolResults \subseteq Messages /\ Assistants \subseteq Messages
  /\ \A message \in Messages :
       /\ message.role = "assistant" => message \in Assistants /\ message.id \in Nat /\ message.calls \in 0..MaxCalls
       /\ message.role = "user" => message \in Users
       /\ message.role = "toolResult" => message \in ToolResults
       /\ message.role \in {"user", "assistant", "toolResult"}
  /\ \A m \in Msgs : User(m) \in Users /\ User(m).role = "user"
  /\ \A message \in Users : message.role = "user"
  /\ \A message \in ToolResults : message.role = "toolResult"
  /\ \A m, k \in Msgs : User(m) = User(k) => m = k
BY DEF Users, ToolResults, Assistants, Messages, User

\* Sequences of some kind of message are sequences of messages.
LEMMA KindsOfSeq ==
  Seq(Users) \subseteq Seq(Messages) /\ Seq(ToolResults) \subseteq Seq(Messages)
BY MessageKinds, SeqMonotonic

\* The places of a caller's message in a sequence.
LEMMA AtInDomain ==
  ASSUME NEW s \in Seq(Messages), NEW m
  PROVE  At(m, s) \subseteq 1..Len(s) /\ Len(s) \in Nat
BY LenProperties DEF At

\* A message's places in a concatenation: those in the first part, and those in the
\* second shifted behind it.
LEMMA AtConcat ==
  ASSUME NEW s \in Seq(Messages), NEW t \in Seq(Messages), NEW m
  PROVE  At(m, s \o t) = At(m, s) \union {Len(s) + i : i \in At(m, t)}
<1> DEFINE st == s \o t
<1>1. /\ st \in Seq(Messages) /\ Len(st) = Len(s) + Len(t) /\ Len(s) \in Nat /\ Len(t) \in Nat
      /\ \A i \in 1..Len(s) : st[i] = s[i]
      /\ \A i \in 1..Len(t) : st[Len(s) + i] = t[i]
  BY LenProperties, ConcatProperties
<1>2. DOMAIN s = 1..Len(s) /\ DOMAIN t = 1..Len(t) /\ DOMAIN st = 1..Len(st)
  BY <1>1, LenProperties
<1> HIDE DEF st
<1>3. \A i \in At(m, s) : i \in At(m, st)
  BY <1>1, <1>2 DEF At
<1>4. \A i \in At(m, t) : Len(s) + i \in At(m, st)
  BY <1>1, <1>2 DEF At
<1>5. ASSUME NEW i \in At(m, st)
      PROVE  i \in At(m, s) \/ \E j \in At(m, t) : i = Len(s) + j
  <2>1. i \in 1..Len(s) + Len(t) /\ st[i] = User(m)
    BY <1>1, <1>2 DEF At
  <2>2. CASE i <= Len(s)
    BY <1>1, <1>2, <2>1, <2>2 DEF At
  <2>3. CASE i > Len(s)
    <3> DEFINE j == i - Len(s)
    <3>1. j \in 1..Len(t) /\ i = Len(s) + j
      BY <1>1, <2>1, <2>3
    <3>2. j \in At(m, t)
      BY <1>1, <1>2, <2>1, <3>1 DEF At
    <3>3. QED
      BY <3>1, <3>2
  <2>4. QED
    BY <1>1, <2>1, <2>2, <2>3
<1>6. QED
  BY <1>3, <1>4, <1>5 DEF st

\* A concatenation has what its parts have.
LEMMA InConcat ==
  ASSUME NEW s \in Seq(Messages), NEW t \in Seq(Messages), NEW m
  PROVE  /\ In(m, s \o t) <=> In(m, s) \/ In(m, t)
         /\ Once(m, s \o t) <=> Once(m, s) /\ Once(m, t) /\ ~(In(m, s) /\ In(m, t))
<1> DEFINE A == At(m, s)
           B == At(m, t)
           C == At(m, s \o t)
<1>1. C = A \union {Len(s) + i : i \in B}
  BY AtConcat
<1>2. A \subseteq 1..Len(s) /\ B \subseteq 1..Len(t) /\ Len(s) \in Nat /\ Len(t) \in Nat
  BY AtInDomain
<1> HIDE DEF A, B, C
<1>3. C # {} <=> A # {} \/ B # {}
  BY <1>1
<1>4. ASSUME \A i, j \in C : i = j
      PROVE  (\A i, j \in A : i = j) /\ (\A i, j \in B : i = j) /\ ~(A # {} /\ B # {})
  <2>1. \A i, j \in A : i = j
    BY <1>1, <1>4
  <2>2. \A i, j \in B : i = j
    <3> SUFFICES ASSUME NEW i \in B, NEW j \in B
                 PROVE  i = j
      OBVIOUS
    <3>1. Len(s) + i = Len(s) + j
      BY <1>1, <1>4
    <3>2. QED
      BY <1>2, <3>1
  <2>3. ASSUME NEW i \in A, NEW j \in B
        PROVE  FALSE
    <3>1. i = Len(s) + j
      BY <1>1, <1>4
    <3>2. QED
      BY <1>2, <3>1
  <2>4. QED
    BY <2>1, <2>2, <2>3
<1>5. ASSUME \A i, j \in A : i = j, \A i, j \in B : i = j, ~(A # {} /\ B # {})
      PROVE  \A i, j \in C : i = j
  BY <1>1, <1>5
<1>6. QED
  BY <1>3, <1>4, <1>5 DEF A, B, C, In, Once

\* Sequences without users have no caller's message; one message is there once.
LEMMA InSmall ==
  ASSUME NEW m \in Msgs
  PROVE  /\ ~In(m, <<>>) /\ Once(m, <<>>)
         /\ \A s \in Seq(Messages) : (\A i \in DOMAIN s : s[i].role # "user") => ~In(m, s) /\ Once(m, s)
         /\ \A message \in Messages : /\ In(m, <<message>>) <=> message = User(m)
                                      /\ Once(m, <<message>>)
<1>1. ~In(m, <<>>) /\ Once(m, <<>>)
  BY DEF In, Once, At
<1>2. ASSUME NEW s \in Seq(Messages), \A i \in DOMAIN s : s[i].role # "user"
      PROVE  ~In(m, s) /\ Once(m, s)
  BY <1>2, MessageKinds DEF In, Once, At
<1>3. ASSUME NEW message \in Messages
      PROVE  (In(m, <<message>>) <=> message = User(m)) /\ Once(m, <<message>>)
  <2>1. At(m, <<message>>) = IF message = User(m) THEN {1} ELSE {}
    BY DEF At
  <2>2. QED
    BY <2>1 DEF In, Once
<1>4. QED
  BY <1>1, <1>2, <1>3

\* What is taken from a queue and what is left make up the queue.
LEMMA TakenLeft ==
  ASSUME NEW mode, NEW queue \in Seq(Users)
  PROVE  /\ Taken(mode, queue) \in Seq(Users) /\ Left(mode, queue) \in Seq(Users)
         /\ Taken(mode, queue) \o Left(mode, queue) = queue
<1>1. CASE mode = "all" \/ queue = <<>>
  <2>1. Taken(mode, queue) = queue /\ Left(mode, queue) = <<>>
    BY <1>1 DEF Taken, Left
  <2>2. QED
    BY <2>1, ConcatEmptySeq, EmptySeq
<1>2. CASE ~(mode = "all" \/ queue = <<>>)
  <2>1. Taken(mode, queue) = <<Head(queue)>> /\ Left(mode, queue) = Tail(queue)
    BY <1>2 DEF Taken, Left
  <2>2. Head(queue) \in Users /\ Tail(queue) \in Seq(Users) /\ queue = <<Head(queue)>> \o Tail(queue)
    BY <1>2, HeadTailProperties
  <2>3. QED
    BY <2>1, <2>2
<1>3. QED
  BY <1>1, <1>2

\* What a queue has is taken or left, once.
LEMMA InTakenLeft ==
  ASSUME NEW mode, NEW queue \in Seq(Users), NEW m
  PROVE  /\ In(m, queue) <=> In(m, Taken(mode, queue)) \/ In(m, Left(mode, queue))
         /\ Once(m, queue) => /\ Once(m, Taken(mode, queue)) /\ Once(m, Left(mode, queue))
                              /\ ~(In(m, Taken(mode, queue)) /\ In(m, Left(mode, queue)))
<1> DEFINE t == Taken(mode, queue)
           l == Left(mode, queue)
<1>1. t \in Seq(Messages) /\ l \in Seq(Messages) /\ t \o l = queue
  BY TakenLeft, KindsOfSeq
<1> HIDE DEF t, l
<1>2. /\ In(m, t \o l) <=> In(m, t) \/ In(m, l)
      /\ Once(m, t \o l) <=> Once(m, t) /\ Once(m, l) /\ ~(In(m, t) /\ In(m, l))
  BY <1>1, InConcat
<1>3. QED
  BY <1>1, <1>2 DEF t, l

-----------------------------------------------------------------------------
(* What a loop has completed, and the tool calls in it.                    *)

\* The elements of a concatenation.
LEMMA ConcatFacts ==
  ASSUME NEW S, NEW s \in Seq(S), NEW t \in Seq(S)
  PROVE  /\ s \o t \in Seq(S) /\ Len(s \o t) = Len(s) + Len(t)
         /\ \A i \in 1..Len(s) : (s \o t)[i] = s[i]
         /\ \A i \in 1..Len(t) : (s \o t)[Len(s) + i] = t[i]
<1>1. Len(s) \in Nat /\ Len(t) \in Nat
  BY LenProperties
<1>2. QED
  BY <1>1, ConcatProperties

\* Concatenation of transcripts is associative, for all transcripts at once.
LEMMA ConcatMessages ==
  \A a, b, c \in Seq(Messages) : (a \o b) \o c = a \o (b \o c)
<1> SUFFICES ASSUME NEW a \in Seq(Messages), NEW b \in Seq(Messages), NEW c \in Seq(Messages)
             PROVE  (a \o b) \o c = a \o (b \o c)
  OBVIOUS
<1> QED
  BY ConcatAssociative

\* A sequence and its last element.
LEMMA FrontLast ==
  ASSUME NEW S, NEW s \in Seq(S), s # <<>>
  PROVE  /\ Len(s) \in Nat \ {0} /\ SubSeq(s, 1, Len(s) - 1) \in Seq(S)
         /\ Len(SubSeq(s, 1, Len(s) - 1)) = Len(s) - 1
         /\ s[Len(s)] \in S
         /\ s = SubSeq(s, 1, Len(s) - 1) \o <<s[Len(s)]>>
         /\ \A x \in S : [s EXCEPT ![Len(s)] = x] = SubSeq(s, 1, Len(s) - 1) \o <<x>>
<1> DEFINE n == Len(s)
           front == SubSeq(s, 1, n - 1)
<1>1. n \in Nat \ {0} /\ DOMAIN s = 1..n
  BY LenProperties, EmptySeq
<1>2. /\ front \in Seq(S) /\ Len(front) = n - 1
      /\ \A i \in 1..n - 1 : front[i] = s[i]
  BY <1>1, SubSeqProperties
<1>3. s[n] \in S
  BY <1>1, ElementOfSeq
<1> HIDE DEF n, front
<1>4. ASSUME NEW x \in S
      PROVE  /\ front \o <<x>> \in Seq(S) /\ Len(front \o <<x>>) = n
             /\ \A i \in 1..n - 1 : (front \o <<x>>)[i] = front[i]
             /\ (front \o <<x>>)[n] = x
  <2>1. <<x>> \in Seq(S) /\ Len(<<x>>) = 1 /\ <<x>>[1] = x
    OBVIOUS
  <2>2. (n - 1) + 1 = n
    BY <1>1
  <2>3. 1 \in 1..1
    OBVIOUS
  <2>4. /\ front \o <<x>> \in Seq(S) /\ Len(front \o <<x>>) = (n - 1) + 1
        /\ \A i \in 1..n - 1 : (front \o <<x>>)[i] = front[i]
        /\ \A i \in 1..1 : (front \o <<x>>)[(n - 1) + i] = <<x>>[i]
    BY <1>2, <2>1, ConcatProperties
  <2>5. QED
    BY <2>1, <2>2, <2>3, <2>4
<1>5. ASSUME NEW x \in S, NEW t \in Seq(S), Len(t) = n, t[n] = x, \A i \in 1..n - 1 : t[i] = s[i]
      PROVE  t = front \o <<x>>
  <2>1. /\ front \o <<x>> \in Seq(S) /\ Len(front \o <<x>>) = n
        /\ \A i \in 1..n - 1 : (front \o <<x>>)[i] = front[i]
        /\ (front \o <<x>>)[n] = x
    BY <1>4
  <2>2. \A i \in 1..n : i = n \/ i \in 1..n - 1
    BY <1>1
  <2>3. \A i \in 1..n : t[i] = (front \o <<x>>)[i]
    BY <1>2, <1>5, <2>1, <2>2
  <2>4. QED
    BY <1>5, <2>1, <2>3, SeqEqual
<1>6. s = front \o <<s[n]>>
  BY <1>3, <1>5 DEF n
<1>7. ASSUME NEW x \in S
      PROVE  [s EXCEPT ![n] = x] = front \o <<x>>
  <2> DEFINE t == [s EXCEPT ![n] = x]
  <2>1. t \in Seq(S) /\ Len(t) = n
    BY <1>1, ExceptSeq DEF n
  <2>2. t[n] = x /\ \A i \in 1..n - 1 : t[i] = s[i]
    BY <1>1
  <2> HIDE DEF t
  <2>3. t = front \o <<x>>
    BY <1>5, <2>1, <2>2
  <2>4. QED
    BY <2>3 DEF t
<1>8. QED
  BY <1>1, <1>2, <1>3, <1>6, <1>7 DEF n, front

\* What a loop has completed are messages.
LEMMA MadeTyped ==
  ASSUME NEW l \in Loops, LoopFits(l)
  PROVE  Made(l) \in Seq(Messages)
<1>1. l.ctx \in Seq(Messages) /\ l.results \in Seq(Messages)
  BY KindsOfSeq DEF Loops
<1> DEFINE front == IF l.pc = "streaming" THEN SubSeq(l.ctx, 1, Len(l.ctx) - 1) ELSE l.ctx
<1>2. front \in Seq(Messages)
  BY <1>1, FrontLast DEF LoopFits
<1>3. Made(l) = front \o l.results
  BY DEF Made
<1> HIDE DEF front
<1>4. QED
  BY <1>1, <1>2, <1>3, ConcatFacts

\* The partial message and the results held back are nobody's: in what was completed a
\* caller's message is where it is in the context.
LEMMA AtMade ==
  ASSUME NEW l \in Loops, LoopFits(l), NEW m \in Msgs
  PROVE  At(m, Made(l)) = At(m, l.ctx)
<1>1. l.ctx \in Seq(Messages) /\ l.results \in Seq(ToolResults) /\ l.results \in Seq(Messages)
      /\ l.reply \in Nat
  BY KindsOfSeq DEF Loops
<1> DEFINE front == IF l.pc = "streaming" THEN SubSeq(l.ctx, 1, Len(l.ctx) - 1) ELSE l.ctx
<1>2. front \in Seq(Messages) /\ At(m, front) = At(m, l.ctx)
  <2>1. CASE l.pc = "streaming"
    <3> DEFINE partial == Assistant(l.reply, 0, "partial")
    <3>1. l.ctx # <<>> /\ l.ctx[Len(l.ctx)] = partial
      BY <2>1 DEF LoopFits
    <3>2. front \in Seq(Messages) /\ l.ctx = front \o <<partial>> /\ partial \in Messages
      BY <1>1, <2>1, <3>1, FrontLast
    <3>3. At(m, <<partial>>) = {} /\ <<partial>> \in Seq(Messages)
      BY <3>2 DEF At, User, Assistant
    <3> HIDE DEF front, partial
    <3>4. At(m, front \o <<partial>>) = At(m, front) \union {Len(front) + i : i \in At(m, <<partial>>)}
      BY <3>2, <3>3, AtConcat
    <3>5. QED
      BY <3>2, <3>3, <3>4
  <2>2. CASE l.pc # "streaming"
    BY <1>1, <2>2
  <2>3. QED
    BY <2>1, <2>2
<1>3. At(m, l.results) = {}
  <2>1. \A i \in DOMAIN l.results : l.results[i] \in ToolResults
    BY <1>1, ElementOfSeq, LenProperties
  <2>2. QED
    BY <2>1, MessageKinds DEF At
<1>4. Made(l) = front \o l.results
  BY DEF Made
<1> HIDE DEF front
<1>5. At(m, front \o l.results) = At(m, front) \union {Len(front) + i : i \in At(m, l.results)}
  BY <1>1, <1>2, AtConcat
<1>6. QED
  BY <1>2, <1>3, <1>4, <1>5

\* What a run has completed is what its loop has made.
LEMMA CompletedIsMade ==
  ASSUME NEW r \in Runs
  PROVE  Completed(r) = Made(loop[r])
BY DEF Completed, Made

\* Answers stay when messages that are neither tool calls nor results are added.
LEMMA AnsweredConcat ==
  ASSUME NEW c \in Seq(Messages), NEW t \in Seq(Messages), AllAnswered(c),
         \A i \in DOMAIN t : t[i].role # "toolResult" /\ ~(IsAssistant(t[i]) /\ t[i].stop = "toolUse")
  PROVE  AllAnswered(c \o t)
<1> DEFINE ct == c \o t
<1>1. /\ ct \in Seq(Messages) /\ Len(ct) = Len(c) + Len(t) /\ Len(c) \in Nat /\ Len(t) \in Nat
      /\ \A i \in 1..Len(c) : ct[i] = c[i]
      /\ \A i \in 1..Len(t) : ct[Len(c) + i] = t[i]
  BY LenProperties, ConcatProperties
<1>2. DOMAIN c = 1..Len(c) /\ DOMAIN t = 1..Len(t) /\ DOMAIN ct = 1..Len(ct)
  BY <1>1, LenProperties
<1> HIDE DEF ct
<1>3. SUFFICES ASSUME NEW i \in 1..Len(ct), IsAssistant(ct[i]), ct[i].stop = "toolUse"
               PROVE  Answered(ct, i)
  BY <1>2 DEF AllAnswered, ct
<1>4. i \in 1..Len(c)
  <2>1. CASE i > Len(c)
    <3>1. i - Len(c) \in 1..Len(t) /\ Len(c) + (i - Len(c)) = i
      BY <1>1, <2>1
    <3>2. ct[i] = t[i - Len(c)]
      BY <1>1, <3>1
    <3>3. QED
      BY <1>2, <1>3, <3>1, <3>2
  <2>2. QED
    BY <1>1, <2>1
<1>5. ct[i] = c[i] /\ c[i] \in Messages /\ c[i].calls \in 0..MaxCalls
  BY <1>1, <1>3, <1>4, ElementOfSeq, MessageKinds DEF IsAssistant
<1>6. Answered(c, i)
  BY <1>2, <1>3, <1>4, <1>5 DEF AllAnswered
<1> DEFINE n == c[i].calls
<1>7. n \in Nat /\ ct[i].calls = n
  BY <1>5, AgentAssumption
<1> HIDE DEF n
<1>8. /\ i + n <= Len(c)
      /\ \A k \in 1..n : c[i + k] = ToolResult(c[i].id, k)
      /\ i + n < Len(c) => c[i + n + 1].role # "toolResult"
  BY <1>6 DEF Answered, n
<1>9. i + n <= Len(ct)
  BY <1>1, <1>4, <1>7, <1>8
<1>10. \A k \in 1..n : ct[i + k] = ToolResult(ct[i].id, k)
  <2> SUFFICES ASSUME NEW k \in 1..n
               PROVE  ct[i + k] = ToolResult(ct[i].id, k)
    OBVIOUS
  <2>1. i + k \in 1..Len(c)
    BY <1>1, <1>4, <1>7, <1>8
  <2>2. QED
    BY <1>1, <1>5, <1>8, <2>1
<1>11. i + n < Len(ct) => ct[i + n + 1].role # "toolResult"
  <2>1. CASE i + n < Len(c)
    <3>1. i + n + 1 \in 1..Len(c)
      BY <1>1, <1>4, <1>7, <2>1
    <3>2. QED
      BY <1>1, <1>8, <2>1, <3>1
  <2>2. CASE i + n = Len(c) /\ i + n < Len(ct)
    <3>1. 1 \in 1..Len(t) /\ i + n + 1 = Len(c) + 1
      BY <1>1, <2>2
    <3>2. ct[i + n + 1] = t[1]
      BY <1>1, <3>1
    <3>3. QED
      BY <1>2, <3>1, <3>2
  <2>3. QED
    BY <1>1, <1>4, <1>7, <1>8, <2>1, <2>2
<1>12. QED
  BY <1>7, <1>9, <1>10, <1>11 DEF Answered

\* A message with tool calls is answered by their results behind it.
LEMMA AnsweredTools ==
  ASSUME NEW c \in Seq(Messages), AllAnswered(c), NEW n \in Nat, NEW k \in 0..MaxCalls,
         NEW results \in Seq(ToolResults), Len(results) = k,
         \A i \in 1..k : results[i] = ToolResult(n, i),
         Assistant(n, k, "toolUse") \in Messages
  PROVE  AllAnswered((c \o <<Assistant(n, k, "toolUse")>>) \o results)
<1> DEFINE call == Assistant(n, k, "toolUse")
           all == (c \o <<call>>) \o results
<1>1. results \in Seq(Messages) /\ <<call>> \in Seq(Messages) /\ Len(<<call>>) = 1 /\ <<call>>[1] = call
      /\ call.role = "assistant" /\ call.calls = k /\ call.id = n
  BY KindsOfSeq DEF Assistant
<1>2. Len(c) \in Nat /\ k \in Nat /\ 1 \in 1..1
  BY LenProperties, AgentAssumption
<1> HIDE DEF call
<1>3. /\ c \o <<call>> \in Seq(Messages) /\ Len(c \o <<call>>) = Len(c) + 1
      /\ \A i \in 1..Len(c) : (c \o <<call>>)[i] = c[i]
      /\ (c \o <<call>>)[Len(c) + 1] = call
  BY <1>1, <1>2, ConcatProperties
<1>4. /\ all \in Seq(Messages) /\ Len(all) = (Len(c) + 1) + k
      /\ \A i \in 1..(Len(c) + 1) : all[i] = (c \o <<call>>)[i]
      /\ \A i \in 1..k : all[(Len(c) + 1) + i] = results[i]
  <2> DEFINE before == c \o <<call>>
             p == Len(c) + 1
  <2>1. before \in Seq(Messages) /\ Len(before) = p
    BY <1>3
  <2> HIDE DEF before, p
  <2>2. /\ before \o results \in Seq(Messages) /\ Len(before \o results) = p + k
        /\ \A i \in 1..p : (before \o results)[i] = before[i]
        /\ \A i \in 1..k : (before \o results)[p + i] = results[i]
    <3>1. /\ before \o results \in Seq(Messages) /\ Len(before \o results) = Len(before) + Len(results)
          /\ \A i \in 1..Len(before) : (before \o results)[i] = before[i]
          /\ \A i \in 1..Len(results) : (before \o results)[Len(before) + i] = results[i]
      <4>1. before \in Seq(Messages) /\ results \in Seq(Messages)
        BY <1>1, <2>1
      <4>2. QED
        BY <4>1, ConcatFacts
    <3>2. Len(results) = k
      OBVIOUS
    <3>3. QED
      BY <2>1, <3>1, <3>2
  <2>3. QED
    BY <2>2 DEF before, p
<1> HIDE DEF all
<1>5. \A i \in 1..Len(c) : i \in 1..(Len(c) + 1)
  BY <1>2
<1>6. Len(c) + 1 \in 1..(Len(c) + 1)
  BY <1>2
<1>7. /\ \A i \in 1..Len(c) : all[i] = c[i]
      /\ all[Len(c) + 1] = call
  BY <1>3, <1>4, <1>5, <1>6
<1>8. DOMAIN c = 1..Len(c) /\ DOMAIN all = 1..Len(all)
  BY <1>4, LenProperties
<1>9. SUFFICES ASSUME NEW i \in 1..Len(all), IsAssistant(all[i]), all[i].stop = "toolUse"
               PROVE  Answered(all, i)
  BY <1>8 DEF AllAnswered, all, call
<1>10. i \in 1..Len(c) \/ i = Len(c) + 1
  <2>1. CASE i > Len(c) + 1
    <3>1. i - (Len(c) + 1) \in 1..k /\ (Len(c) + 1) + (i - (Len(c) + 1)) = i
      BY <1>2, <1>4, <2>1
    <3>2. all[i] = ToolResult(n, i - (Len(c) + 1))
      BY <1>4, <3>1
    <3>3. QED
      BY <1>9, <3>2 DEF IsAssistant, ToolResult
  <2>2. QED
    BY <1>2, <1>4, <2>1
<1>11. CASE i = Len(c) + 1
  <2>1. all[i] = call /\ all[i].calls = k /\ all[i].id = n
    BY <1>1, <1>7, <1>11
  <2>2. i + k = Len(all) /\ \A j \in 1..k : all[i + j] = ToolResult(n, j)
    BY <1>2, <1>4, <1>11
  <2>3. QED
    BY <1>2, <1>4, <2>1, <2>2 DEF Answered
<1>12. CASE i \in 1..Len(c)
  <2>1. all[i] = c[i] /\ c[i] \in Messages /\ c[i].calls \in 0..MaxCalls
    BY <1>7, <1>9, <1>12, ElementOfSeq, MessageKinds DEF IsAssistant
  <2>2. Answered(c, i)
    BY <1>8, <1>9, <1>12, <2>1 DEF AllAnswered
  <2> DEFINE q == c[i].calls
  <2>3. q \in Nat /\ all[i].calls = q
    BY <2>1, AgentAssumption
  <2> HIDE DEF q
  <2>4. /\ i + q <= Len(c)
        /\ \A j \in 1..q : c[i + j] = ToolResult(c[i].id, j)
        /\ i + q < Len(c) => c[i + q + 1].role # "toolResult"
    BY <2>2 DEF Answered, q
  <2>5. \A j \in 1..q : all[i + j] = ToolResult(all[i].id, j)
    <3> SUFFICES ASSUME NEW j \in 1..q
                 PROVE  all[i + j] = ToolResult(all[i].id, j)
      OBVIOUS
    <3>1. i + j \in 1..Len(c)
      BY <1>2, <1>12, <2>3, <2>4
    <3>2. QED
      BY <1>7, <2>1, <2>4, <3>1
  <2>6. all[i + q + 1].role # "toolResult"
    <3>1. CASE i + q < Len(c)
      <4>1. i + q + 1 \in 1..Len(c)
        BY <1>2, <1>12, <2>3, <3>1
      <4>2. QED
        BY <1>7, <2>4, <3>1, <4>1
    <3>2. CASE i + q = Len(c)
      BY <1>1, <1>7, <3>2
    <3>3. QED
      BY <1>2, <1>12, <2>3, <2>4, <3>1, <3>2
  <2>7. i + q <= Len(all)
    BY <1>2, <1>4, <1>12, <2>3, <2>4
  <2>8. QED
    BY <2>3, <2>5, <2>6, <2>7 DEF Answered
<1>13. QED
  BY <1>10, <1>11, <1>12

\* What is answered in a context is answered in its last part.
LEMMA AnsweredSuffix ==
  ASSUME NEW c \in Seq(Messages), NEW t \in Seq(Messages), AllAnswered(c \o t)
  PROVE  AllAnswered(t)
<1> DEFINE ct == c \o t
<1>1. /\ ct \in Seq(Messages) /\ Len(ct) = Len(c) + Len(t) /\ Len(c) \in Nat /\ Len(t) \in Nat
      /\ \A i \in 1..Len(t) : ct[Len(c) + i] = t[i]
  BY LenProperties, ConcatProperties
<1>2. DOMAIN t = 1..Len(t) /\ DOMAIN ct = 1..Len(ct) /\ AllAnswered(ct)
  BY <1>1, LenProperties
<1> HIDE DEF ct
<1>3. SUFFICES ASSUME NEW i \in 1..Len(t), IsAssistant(t[i]), t[i].stop = "toolUse"
               PROVE  Answered(t, i)
  BY <1>2 DEF AllAnswered
<1> DEFINE j == Len(c) + i
           n == t[i].calls
<1>4. j \in 1..Len(ct) /\ ct[j] = t[i]
  BY <1>1
<1>5. n \in Nat
  BY <1>3, AgentAssumption, ElementOfSeq, MessageKinds DEF IsAssistant
<1>6. Answered(ct, j)
  BY <1>2, <1>3, <1>4 DEF AllAnswered
<1> HIDE DEF j, n
<1>7. /\ j + n <= Len(ct)
      /\ \A k \in 1..n : ct[j + k] = ToolResult(t[i].id, k)
      /\ j + n < Len(ct) => ct[j + n + 1].role # "toolResult"
  BY <1>4, <1>6 DEF Answered, n
<1>8. i + n <= Len(t)
  BY <1>1, <1>5, <1>7 DEF j
<1>9. \A k \in 1..n : t[i + k] = ToolResult(t[i].id, k)
  <2> SUFFICES ASSUME NEW k \in 1..n
               PROVE  t[i + k] = ToolResult(t[i].id, k)
    OBVIOUS
  <2>1. i + k \in 1..Len(t) /\ Len(c) + (i + k) = j + k
    BY <1>1, <1>5, <1>8 DEF j
  <2>2. ct[j + k] = t[i + k]
    BY <1>1, <2>1
  <2>3. QED
    BY <1>7, <2>2
<1>10. i + n < Len(t) => t[i + n + 1].role # "toolResult"
  <2> SUFFICES ASSUME i + n < Len(t)
               PROVE  t[i + n + 1].role # "toolResult"
    OBVIOUS
  <2>1. i + n + 1 \in 1..Len(t) /\ Len(c) + (i + n + 1) = j + n + 1 /\ j + n < Len(ct)
    BY <1>1, <1>5 DEF j
  <2>2. ct[j + n + 1] = t[i + n + 1]
    BY <1>1, <2>1
  <2>3. QED
    BY <1>7, <2>1, <2>2
<1>11. QED
  BY <1>8, <1>9, <1>10 DEF Answered, n

-----------------------------------------------------------------------------
(* What a step of the loop does.                                           *)

\* Events of a run that goes on, and the messages they deliver.
Tells(events, news) ==
  /\ events \in Seq(Events) /\ news \in Seq(Messages)
  /\ Delivers(events, news)
  /\ \A i \in DOMAIN events : events[i].type # "agent_end"

NoUsers(ms) == \A i \in DOMAIN ms : ms[i].role # "user"

\* The loop of run r becomes l, pushes events and completes the messages news.
Grows(r, l, events, news) ==
  /\ Step(r, l, events)
  /\ Active(r) /\ l \in Loops /\ LoopFits(l) /\ l.pc # "none"
  /\ news \in Seq(Messages) /\ Made(l) = Made(loop[r]) \o news
  /\ \/ Tells(events, news)
     \/ l.pc = "ended" /\ \E before : events = before \o <<AgentEnd>> /\ Tells(before, news)
  /\ AllAnswered(Done(loop[r])) => AllAnswered(Done(l))

\* It injects the callers' messages it holds, takes some from a queue, or neither.
Carries(r, l, news) ==
  \/ /\ l.pending = <<>>
     /\ \E results \in Seq(Messages) : NoUsers(results) /\ news = results \o loop[r].pending
     /\ UNCHANGED queueVars
  \/ /\ loop[r].pending = <<>> /\ NoUsers(news)
     /\ \/ l.pending = SteeringTaken /\ DequeueSteering
        \/ l.pending = FollowUpsTaken /\ DequeueFollowUps
  \/ l.pending = loop[r].pending /\ NoUsers(news) /\ UNCHANGED queueVars

Goes(r) == \E l, events, news : Grows(r, l, events, news) /\ Carries(r, l, news)

\* Events one after the other.
LEMMA TellsConcat ==
  ASSUME NEW a, NEW x, NEW b, NEW y, Tells(a, x), Tells(b, y)
  PROVE  Tells(a \o b, x \o y)
<1>1. a \in Seq(Events) /\ b \in Seq(Events) /\ x \in Seq(Messages) /\ y \in Seq(Messages)
  BY DEF Tells
<1>2. Delivers(a \o b, x \o y)
  BY <1>1, DeliversConcat DEF Tells
<1>3. x \o y \in Seq(Messages)
  BY <1>1, ConcatFacts
<1> DEFINE ab == a \o b
<1>4. /\ ab \in Seq(Events) /\ Len(ab) = Len(a) + Len(b)
      /\ \A i \in 1..Len(a) : ab[i] = a[i]
      /\ \A i \in 1..Len(b) : ab[Len(a) + i] = b[i]
  BY <1>1, ConcatFacts
<1> HIDE DEF ab
<1>5. /\ DOMAIN a = 1..Len(a) /\ DOMAIN b = 1..Len(b) /\ DOMAIN ab = 1..Len(ab)
      /\ Len(a) \in Nat /\ Len(b) \in Nat
  BY <1>1, <1>4, LenProperties
<1>6. ASSUME NEW i \in DOMAIN ab
      PROVE  ab[i].type # "agent_end"
  <2>1. i \in 1..Len(a) + Len(b)
    BY <1>4, <1>5
  <2>2. CASE i <= Len(a)
    <3>1. i \in DOMAIN a /\ ab[i] = a[i]
      BY <1>4, <1>5, <2>1, <2>2
    <3>2. QED
      BY <3>1 DEF Tells
  <2>3. CASE i > Len(a)
    <3>1. i - Len(a) \in DOMAIN b /\ Len(a) + (i - Len(a)) = i
      BY <1>5, <2>1, <2>3
    <3>2. ab[i] = b[i - Len(a)]
      BY <1>4, <1>5, <3>1
    <3>3. QED
      BY <3>1, <3>2 DEF Tells
  <2>4. QED
    BY <1>5, <2>1, <2>2, <2>3
<1>7. QED
  BY <1>2, <1>3, <1>4, <1>6 DEF Tells, ab

\* The events there are, one by one.
LEMMA TellsOne ==
  /\ Tells(<<>>, <<>>)
  /\ \A e \in Events : e.type \notin {"message_end", "agent_end"} => Tells(<<e>>, <<>>)
  /\ \A m \in Messages : Tells(<<MessageEnd(m)>>, <<m>>)
<1>1. <<>> \in Seq(Events) /\ <<>> \in Seq(Messages) /\ DOMAIN <<>> = {}
  OBVIOUS
<1>2. Tells(<<>>, <<>>)
  BY <1>1, NoEnds DEF Tells
<1>3. ASSUME NEW e \in Events, e.type \notin {"message_end", "agent_end"}
      PROVE  Tells(<<e>>, <<>>)
  <2>1. <<e>> \in Seq(Events) /\ \A i \in DOMAIN <<e>> : <<e>>[i] = e
    OBVIOUS
  <2>2. Delivers(<<e>>, <<>>)
    BY <1>3, <2>1, NoEnds
  <2>3. QED
    BY <1>1, <1>3, <2>1, <2>2 DEF Tells
<1>4. ASSUME NEW m \in Messages
      PROVE  Tells(<<MessageEnd(m)>>, <<m>>)
  <2> DEFINE e == MessageEnd(m)
  <2>1. e \in Events /\ e.type = "message_end"
    BY EventKinds
  <2>2. Delivers(<<e>>, <<m>>)
    BY OneEnd
  <2> HIDE DEF e
  <2>3. <<e>> \in Seq(Events) /\ <<m>> \in Seq(Messages) /\ \A i \in DOMAIN <<e>> : <<e>>[i] = e
    BY <2>1
  <2>4. Tells(<<e>>, <<m>>)
    BY <2>1, <2>2, <2>3 DEF Tells
  <2>5. QED
    BY <2>4 DEF e
<1>5. QED
  BY <1>2, <1>3, <1>4

\* Announced messages.
LEMMA TellsAnnounce ==
  ASSUME NEW ms \in Seq(Messages)
  PROVE  Tells(Announce(ms), ms)
BY AnnounceDelivers DEF Tells

\* Events that deliver nothing, before and after others.
LEMMA TellsPadded ==
  ASSUME NEW a, NEW x, NEW e \in Events, e.type \notin {"message_end", "agent_end"}, Tells(a, x)
  PROVE  Tells(a \o <<e>>, x) /\ Tells(<<e>> \o a, x)
<1>1. Tells(<<e>>, <<>>)
  BY TellsOne
<1>2. Tells(a \o <<e>>, x \o <<>>) /\ Tells(<<e>> \o a, <<>> \o x)
  BY <1>1, TellsConcat
<1>3. x \o <<>> = x /\ <<>> \o x = x
  BY ConcatEmptySeq DEF Tells
<1>4. QED
  BY <1>2, <1>3

\* The prompts of the callers among other messages.
LEMMA NoUsersFacts ==
  /\ NoUsers(<<>>)
  /\ \A message \in Messages : message.role # "user" => NoUsers(<<message>>)
  /\ \A ms \in Seq(ToolResults) : NoUsers(ms)
<1>1. NoUsers(<<>>)
  BY DEF NoUsers
<1>2. \A message \in Messages : message.role # "user" => NoUsers(<<message>>)
  BY DEF NoUsers
<1>3. ASSUME NEW ms \in Seq(ToolResults)
      PROVE  NoUsers(ms)
  <2>1. \A i \in DOMAIN ms : ms[i] \in ToolResults
    BY ElementOfSeq, LenProperties
  <2>2. QED
    BY <2>1, MessageKinds DEF NoUsers
<1>4. QED
  BY <1>1, <1>2, <1>3

\* The fields of a loop.
LEMMA LoopTyped ==
  ASSUME TypeOK, NEW r \in Runs
  PROVE  /\ loop[r] \in Loops
         /\ loop[r].ctx \in Seq(Messages) /\ loop[r].pending \in Seq(Users) /\ loop[r].pending \in Seq(Messages)
         /\ loop[r].results \in Seq(ToolResults) /\ loop[r].results \in Seq(Messages)
         /\ loop[r].reply \in Nat /\ loop[r].calls \in 0..MaxCalls /\ loop[r].next \in 0..MaxCalls
<1>1. loop[r] \in Loops
  BY DEF TypeOK
<1>2. QED
  BY <1>1, KindsOfSeq DEF Loops

\* A turn begins with the messages to inject.
LEMMA TurnGoes ==
  ASSUME TypeOK, LoopsFit, NEW r \in Runs,
         loop[r].pc \in {"started", "polled", "followUpPolled"},
         Step(r, BeginTurn(loop[r], loop[r].pending), Announce(loop[r].pending)), UNCHANGED queueVars
  PROVE  Goes(r)
<1> DEFINE L == loop[r]
           l == BeginTurn(L, L.pending)
           news == L.pending
<1>1. /\ L \in Loops /\ L.ctx \in Seq(Messages) /\ news \in Seq(Users) /\ news \in Seq(Messages)
      /\ LoopFits(L) /\ L.results = <<>>
  BY LoopTyped DEF LoopsFit, LoopFits
<1>2. /\ l = [L EXCEPT !.pc = "request", !.ctx = @ \o news, !.pending = <<>>]
      /\ L.ctx \o news \in Seq(Messages) /\ <<>> \in Seq(Users)
  BY <1>1, ConcatFacts DEF BeginTurn
<1> HIDE DEF L, l, news
<1>3. /\ l \in Loops /\ l.pc = "request" /\ l.ctx = L.ctx \o news /\ l.pending = <<>> /\ l.results = <<>>
  BY <1>1, <1>2 DEF Loops
<1>4. LoopFits(l)
  BY <1>3 DEF LoopFits
<1>5. L.pc \in {"started", "polled", "followUpPolled"}
  BY DEF L
<1>6. Made(L) = L.ctx /\ Made(l) = L.ctx \o news /\ Done(L) = L.ctx /\ Done(l) = L.ctx \o news
  BY <1>1, <1>2, <1>3, <1>5, ConcatEmptySeq DEF Made, Done
<1>7. \A i \in DOMAIN news : news[i].role = "user"
  <2>1. \A i \in DOMAIN news : news[i] \in Users
    BY <1>1, ElementOfSeq, LenProperties
  <2>2. QED
    BY <2>1, MessageKinds
<1>8. AllAnswered(L.ctx) => AllAnswered(L.ctx \o news)
  BY <1>1, <1>7, AnsweredConcat DEF IsAssistant
<1>9. Tells(Announce(news), news)
  BY <1>1, TellsAnnounce
<1>10. Grows(r, l, Announce(news), news)
  <2>1. Step(r, l, Announce(news)) /\ Active(r)
    BY <1>5 DEF L, l, news, Active
  <2>2. QED
    BY <1>1, <1>3, <1>4, <1>6, <1>8, <1>9, <2>1 DEF Grows, L
<1>11. Carries(r, l, news)
  <2>1. news = <<>> \o loop[r].pending
    BY <1>1, ConcatEmptySeq DEF news, L
  <2>2. <<>> \in Seq(Messages)
    OBVIOUS
  <2>3. QED
    BY <1>3, <2>1, <2>2, NoUsersFacts DEF Carries
<1>12. QED
  BY <1>10, <1>11 DEF Goes

\* A step that completes nothing.
LEMMA GrowsNothing ==
  ASSUME NEW r \in Runs, NEW l, NEW events, Step(r, l, events), Active(r), l \in Loops, LoopFits(l),
         l.pc # "none", Made(loop[r]) \in Seq(Messages), Made(l) = Made(loop[r]), Tells(events, <<>>),
         Done(l) = Done(loop[r])
  PROVE  Grows(r, l, events, <<>>)
<1>1. Made(loop[r]) \o <<>> = Made(loop[r])
  BY ConcatEmptySeq
<1>2. <<>> \in Seq(Messages)
  OBVIOUS
<1>3. QED
  BY <1>1, <1>2 DEF Grows

\* The LLM's start event: the partial message enters the context, nothing is completed.
LEMMA LlmStartGoes ==
  ASSUME TypeOK, LoopsFit, NEW r \in Runs, LlmStart(r)
  PROVE  Goes(r)
<1> DEFINE L == loop[r]
           partial == Assistant(replies + 1, 0, "partial")
           l == [L EXCEPT !.pc = "streaming", !.ctx = Append(@, partial), !.reply = replies + 1]
<1>1. /\ L \in Loops /\ L.ctx \in Seq(Messages) /\ L.pc = "request" /\ LoopFits(L)
      /\ L.results = <<>> /\ L.pending = <<>> /\ Made(L) \in Seq(Messages)
  BY LoopTyped, ConcatEmptySeq DEF LoopsFit, LoopFits, LlmStart, Made
<1>2. replies + 1 \in Nat /\ MaxCalls \in Nat /\ Step(r, l, <<MessageStart(partial)>>) /\ UNCHANGED queueVars
  BY AgentAssumption DEF TypeOK, LlmStart
<1>3. partial \in Messages
  BY <1>2 DEF Assistant, Assistants, Messages
<1>4. /\ Append(L.ctx, partial) = L.ctx \o <<partial>> /\ Append(L.ctx, partial) \in Seq(Messages)
      /\ Append(L.ctx, partial) # <<>> /\ Append(L.ctx, partial)[Len(Append(L.ctx, partial))] = partial
      /\ SubSeq(Append(L.ctx, partial), 1, Len(Append(L.ctx, partial)) - 1) = L.ctx
  BY <1>1, <1>3, AppendProperties, AppendIsConcat, HeadTailAppend
<1>5. /\ l \in Loops /\ l.pc = "streaming" /\ l.ctx = Append(L.ctx, partial) /\ l.pending = <<>>
      /\ l.results = <<>> /\ l.reply = replies + 1
  BY <1>1, <1>2, <1>4 DEF Loops
<1> HIDE DEF l, partial
<1>6. LoopFits(l)
  <2>1. partial = Assistant(l.reply, 0, "partial")
    BY <1>5 DEF partial
  <2>2. QED
    BY <1>4, <1>5, <2>1 DEF LoopFits
<1>7. Made(l) = Made(L) /\ Done(l) = Done(L)
  BY <1>1, <1>4, <1>5 DEF Made, Done
<1>8. Tells(<<MessageStart(partial)>>, <<>>)
  BY <1>3, EventKinds, TellsOne
<1>9. Active(r)
  BY <1>1 DEF Active
<1>10. Grows(r, l, <<MessageStart(partial)>>, <<>>)
  BY <1>1, <1>2, <1>5, <1>6, <1>7, <1>8, <1>9, GrowsNothing
<1>11. Carries(r, l, <<>>)
  BY <1>1, <1>2, <1>5, NoUsersFacts DEF Carries
<1>12. QED
  BY <1>10, <1>11 DEF Goes

\* A loop that rejects tells nothing and keeps its context.
LEMMA RejectGoes ==
  ASSUME TypeOK, LoopsFit, NEW r \in Runs, LoopRejects(r)
  PROVE  Goes(r)
<1> DEFINE L == loop[r]
           l == [L EXCEPT !.pc = "rejected"]
<1>1. /\ L \in Loops /\ L.ctx \in Seq(Messages) /\ L.pc = "request" /\ LoopFits(L)
      /\ L.results = <<>> /\ L.pending = <<>> /\ Made(L) \in Seq(Messages)
  BY LoopTyped, ConcatEmptySeq DEF LoopsFit, LoopFits, LoopRejects, Made
<1>2. Step(r, l, <<>>) /\ UNCHANGED queueVars
  BY DEF LoopRejects
<1>3. l \in Loops /\ l.pc = "rejected" /\ l.ctx = L.ctx /\ l.pending = <<>> /\ l.results = <<>>
  BY <1>1 DEF Loops
<1> HIDE DEF l
<1>4. LoopFits(l)
  BY <1>3 DEF LoopFits
<1>5. Made(l) = Made(L) /\ Done(l) = Done(L)
  BY <1>1, <1>3 DEF Made, Done
<1>6. Active(r)
  BY <1>1 DEF Active
<1>7. Grows(r, l, <<>>, <<>>)
  BY <1>1, <1>2, <1>3, <1>4, <1>5, <1>6, TellsOne, GrowsNothing
<1>8. Carries(r, l, <<>>)
  BY <1>1, <1>2, <1>3, NoUsersFacts DEF Carries
<1>9. QED
  BY <1>7, <1>8 DEF Goes

\* The next tool call is announced, and nothing is completed yet.
LEMMA NextToolGoes ==
  ASSUME TypeOK, LoopsFit, NEW r \in Runs, NextTool(r)
  PROVE  Goes(r)
<1> DEFINE L == loop[r]
           l == [L EXCEPT !.pc = "tool", !.next = @ + 1]
           e == ToolStart(L.reply, L.next + 1)
<1>1. /\ L \in Loops /\ L.ctx \in Seq(Messages) /\ L.results \in Seq(Messages) /\ L.pc = "toolPolled"
      /\ LoopFits(L) /\ L.pending = <<>> /\ L.next < L.calls /\ L.next \in Nat /\ L.calls \in 0..MaxCalls
      /\ MaxCalls \in Nat /\ L.reply \in Nat
  BY AgentAssumption, LoopTyped DEF LoopsFit, NextTool
<1>2. Step(r, l, <<e>>) /\ UNCHANGED queueVars
  BY DEF NextTool
<1>3. L.next + 1 \in 1..L.calls /\ L.next + 1 \in 0..MaxCalls /\ <<L.reply, L.next + 1>> \in Calls
  BY <1>1 DEF Calls
<1>4. /\ l \in Loops /\ l.pc = "tool" /\ l.ctx = L.ctx /\ l.pending = <<>> /\ l.results = L.results
      /\ l.next = L.next + 1 /\ l.calls = L.calls /\ l.reply = L.reply
  BY <1>1, <1>3 DEF Loops
<1>5. e \in Events /\ e.type = "tool_execution_start"
  BY <1>3, EventKinds
<1> HIDE DEF l, e
<1>6. LoopFits(l)
  <2>1. /\ Len(L.results) = L.next /\ L.next \in 1..L.calls
        /\ \A k \in 1..Len(L.results) : L.results[k] = ToolResult(L.reply, k)
        /\ L.ctx # <<>> /\ L.ctx[Len(L.ctx)] = Assistant(L.reply, L.calls, "toolUse")
    BY <1>1 DEF LoopFits
  <2>2. Len(l.results) = l.next - 1
    BY <1>1, <1>4, <2>1
  <2>3. QED
    BY <1>3, <1>4, <2>1, <2>2 DEF LoopFits
<1>7. Made(L) \in Seq(Messages) /\ Made(l) = Made(L) /\ Done(l) = Done(L)
  BY <1>1, <1>4, ConcatFacts DEF Made, Done
<1>8. Active(r) /\ Tells(<<e>>, <<>>)
  BY <1>1, <1>5, TellsOne DEF Active
<1>9. Grows(r, l, <<e>>, <<>>)
  BY <1>2, <1>4, <1>6, <1>7, <1>8, GrowsNothing
<1>10. Carries(r, l, <<>>)
  BY <1>1, <1>2, <1>4, NoUsersFacts DEF Carries
<1>11. QED
  BY <1>9, <1>10 DEF Goes

\* The queues keep their types.
LEMMA QueuesTyped ==
  ASSUME TypeOK
  PROVE  SteeringTaken \in Seq(Users) /\ FollowUpsTaken \in Seq(Users)
BY TakenLeft DEF TypeOK, SteeringTaken, FollowUpsTaken

\* The poll for follow-ups takes them from their queue and tells nothing.
LEMMA PollFollowUpsGoes ==
  ASSUME TypeOK, LoopsFit, NEW r \in Runs, PollFollowUps(r)
  PROVE  Goes(r)
<1> DEFINE L == loop[r]
           l == [L EXCEPT !.pc = "followUpPolled", !.pending = FollowUpsTaken]
<1>1. /\ L \in Loops /\ L.ctx \in Seq(Messages) /\ L.pc = "polled" /\ LoopFits(L)
      /\ L.results = <<>> /\ L.pending = <<>> /\ Made(L) \in Seq(Messages)
  BY LoopTyped, ConcatEmptySeq DEF LoopsFit, LoopFits, PollFollowUps, Made
<1>2. Step(r, l, <<>>) /\ DequeueFollowUps
  BY DEF PollFollowUps
<1>3. /\ l \in Loops /\ l.pc = "followUpPolled" /\ l.ctx = L.ctx /\ l.pending = FollowUpsTaken
      /\ l.results = <<>>
  BY <1>1, QueuesTyped DEF Loops
<1> HIDE DEF l
<1>4. LoopFits(l)
  BY <1>3 DEF LoopFits
<1>5. Made(l) = Made(L) /\ Done(l) = Done(L)
  BY <1>1, <1>3 DEF Made, Done
<1>6. Active(r)
  BY <1>1 DEF Active
<1>7. Grows(r, l, <<>>, <<>>)
  BY <1>1, <1>2, <1>3, <1>4, <1>5, <1>6, TellsOne, GrowsNothing
<1>8. Carries(r, l, <<>>)
  BY <1>1, <1>2, <1>3, NoUsersFacts DEF Carries
<1>9. QED
  BY <1>7, <1>8 DEF Goes

\* Without follow-ups the run ends.
LEMMA AfterFollowUpsGoes ==
  ASSUME TypeOK, LoopsFit, NEW r \in Runs, AfterFollowUps(r)
  PROVE  Goes(r)
<1> DEFINE L == loop[r]
           l == [L EXCEPT !.pc = "ended"]
<1>1. /\ L \in Loops /\ L.ctx \in Seq(Messages) /\ L.pc = "followUpPolled" /\ LoopFits(L)
      /\ L.results = <<>> /\ Made(L) \in Seq(Messages)
  BY LoopTyped, ConcatEmptySeq DEF LoopsFit, LoopFits, AfterFollowUps, Made
<1>2. CASE L.pending # <<>>
  BY <1>1, <1>2, TurnGoes DEF AfterFollowUps
<1>3. CASE L.pending = <<>>
  <2>1. Step(r, l, <<AgentEnd>>) /\ UNCHANGED queueVars
    BY <1>3 DEF AfterFollowUps
  <2>2. l \in Loops /\ l.pc = "ended" /\ l.ctx = L.ctx /\ l.pending = <<>> /\ l.results = <<>>
    BY <1>1, <1>3 DEF Loops
  <2> HIDE DEF l
  <2>3. LoopFits(l)
    BY <2>2 DEF LoopFits
  <2>4. Made(l) = Made(L) /\ Done(l) = Done(L) /\ Made(L) \o <<>> = Made(L)
    BY <1>1, <2>2, ConcatEmptySeq DEF Made, Done
  <2>5. Active(r)
    BY <1>1 DEF Active
  <2>6. <<AgentEnd>> = <<>> \o <<AgentEnd>> /\ <<>> \in Seq(Messages)
    OBVIOUS
  <2>7. Grows(r, l, <<AgentEnd>>, <<>>)
    BY <2>1, <2>2, <2>3, <2>4, <2>5, <2>6, TellsOne DEF Grows
  <2>8. Carries(r, l, <<>>)
    BY <1>3, <2>1, <2>2, NoUsersFacts DEF Carries
  <2>9. QED
    BY <2>7, <2>8 DEF Goes
<1>4. QED
  BY <1>2, <1>3

\* A tool that returned adds its result, tells it, and polls for steering.
LEMMA ToolReturnsGoes ==
  ASSUME TypeOK, LoopsFit, NEW r \in Runs, ToolReturns(r)
  PROVE  Goes(r)
<1> DEFINE L == loop[r]
           result == ToolResult(L.reply, L.next)
           e == ToolEnd(L.reply, L.next)
           l == [L EXCEPT !.pc = "toolPolled", !.results = Append(@, result), !.pending = SteeringTaken]
<1>1. /\ L \in Loops /\ L.ctx \in Seq(Messages) /\ L.results \in Seq(ToolResults) /\ L.results \in Seq(Messages)
      /\ L.pc = "tool" /\ LoopFits(L) /\ L.pending = <<>> /\ L.next \in 1..L.calls /\ L.calls \in 0..MaxCalls
      /\ MaxCalls \in Nat /\ L.reply \in Nat /\ Len(L.results) = L.next - 1
      /\ \A k \in 1..Len(L.results) : L.results[k] = ToolResult(L.reply, k)
  BY AgentAssumption, LoopTyped DEF LoopsFit, LoopFits, ToolReturns
<1>2. Step(r, l, <<e>> \o Announce(<<result>>)) /\ DequeueSteering
  BY DEF ToolReturns
<1>3. <<L.reply, L.next>> \in Calls
  BY <1>1 DEF Calls
<1>4. result \in ToolResults /\ result \in Messages /\ result.role # "user"
  BY <1>3 DEF ToolResult, ToolResults, Messages
<1>5. e \in Events /\ e.type = "tool_execution_end"
  BY <1>3, EventKinds
<1> HIDE DEF result, e
<1>6. /\ Append(L.results, result) \in Seq(ToolResults)
      /\ Append(L.results, result) = L.results \o <<result>>
      /\ Len(Append(L.results, result)) = L.next
  <2>1. L.results \in Seq(ToolResults) /\ result \in ToolResults
    BY <1>1, <1>4
  <2>2. /\ Append(L.results, result) \in Seq(ToolResults)
        /\ Append(L.results, result) = L.results \o <<result>>
        /\ Len(Append(L.results, result)) = Len(L.results) + 1
    BY ONLY <2>1, AppendProperties, AppendIsConcat
  <2>3. QED
    BY <1>1, <2>2
<1>7. /\ l \in Loops /\ l.pc = "toolPolled" /\ l.ctx = L.ctx /\ l.pending = SteeringTaken
      /\ l.results = Append(L.results, result) /\ l.next = L.next /\ l.calls = L.calls /\ l.reply = L.reply
  BY <1>1, <1>6, QueuesTyped DEF Loops
<1> HIDE DEF l
<1>8. \A k \in 1..L.next : Append(L.results, result)[k] = ToolResult(L.reply, k)
  <2> SUFFICES ASSUME NEW k \in 1..L.next
               PROVE  Append(L.results, result)[k] = ToolResult(L.reply, k)
    OBVIOUS
  <2>1. CASE k = L.next
    <3>1. Len(L.results) + 1 = k
      BY <1>1, <2>1
    <3>2. Append(L.results, result)[k] = result
      BY <1>1, <1>4, <3>1, AppendProperties
    <3>3. QED
      BY <2>1, <3>2 DEF result
  <2>2. CASE k # L.next
    <3>1. k \in 1..Len(L.results)
      BY <1>1, <2>2
    <3>2. Append(L.results, result)[k] = L.results[k]
      BY <1>1, <1>4, <3>1, AppendProperties
    <3>3. QED
      BY <1>1, <3>1, <3>2
  <2>3. QED
    BY <2>1, <2>2
<1>9. LoopFits(l)
  <2>1. L.ctx # <<>> /\ L.ctx[Len(L.ctx)] = Assistant(L.reply, L.calls, "toolUse")
    BY <1>1 DEF LoopFits
  <2>2. Len(l.results) = l.next /\ l.next \in 1..l.calls
    BY <1>1, <1>6, <1>7
  <2>3. \A k \in 1..Len(l.results) : l.results[k] = ToolResult(l.reply, k)
    BY <1>7, <1>8, <2>2
  <2>4. QED
    BY <1>7, <2>1, <2>2, <2>3 DEF LoopFits
<1>10. Made(l) = Made(L) \o <<result>> /\ Done(l) = Done(L) /\ <<result>> \in Seq(Messages)
  <2>1. Made(l) = L.ctx \o (L.results \o <<result>>) /\ Made(L) = L.ctx \o L.results /\ Done(l) = Done(L)
    BY <1>1, <1>6, <1>7 DEF Made, Done
  <2>2. <<result>> \in Seq(Messages)
    BY <1>4
  <2>3. L.ctx \in Seq(Messages) /\ L.results \in Seq(Messages)
    BY <1>1
  <2>4. (L.ctx \o L.results) \o <<result>> = L.ctx \o (L.results \o <<result>>)
    BY <2>2, <2>3, ConcatMessages
  <2>5. QED
    BY <2>1, <2>2, <2>4
<1>11. Active(r) /\ Tells(<<e>> \o Announce(<<result>>), <<result>>)
  BY <1>1, <1>5, <1>10, TellsAnnounce, TellsPadded DEF Active
<1>12. Grows(r, l, <<e>> \o Announce(<<result>>), <<result>>)
  BY <1>2, <1>7, <1>9, <1>10, <1>11 DEF Grows
<1>13. Carries(r, l, <<result>>)
  <2>1. NoUsers(<<result>>)
    BY <1>4, NoUsersFacts
  <2>2. QED
    BY <1>1, <1>2, <1>7, <2>1 DEF Carries
<1>14. QED
  BY <1>12, <1>13 DEF Goes

\* Concatenation of tool results, for all of them at once.
LEMMA ConcatResults ==
  \A s, t \in Seq(ToolResults) :
    /\ s \o t \in Seq(ToolResults) /\ Len(s \o t) = Len(s) + Len(t)
    /\ \A i \in 1..Len(s) : (s \o t)[i] = s[i]
    /\ \A i \in 1..Len(t) : (s \o t)[Len(s) + i] = t[i]
<1> SUFFICES ASSUME NEW s \in Seq(ToolResults), NEW t \in Seq(ToolResults)
             PROVE  /\ s \o t \in Seq(ToolResults) /\ Len(s \o t) = Len(s) + Len(t)
                    /\ \A i \in 1..Len(s) : (s \o t)[i] = s[i]
                    /\ \A i \in 1..Len(t) : (s \o t)[Len(s) + i] = t[i]
  OBVIOUS
<1> QED
  BY ConcatFacts

\* The message that was made with tool calls, and all their results.
LEMMA ToolsAreDone ==
  ASSUME NEW L \in Loops, LoopFits(L), L.pc = "toolPolled",
         NEW rest \in Seq(ToolResults), Len(rest) = L.calls - L.next,
         \A i \in 1..Len(rest) : rest[i] = ToolResult(L.reply, L.next + i)
  PROVE  AllAnswered(Done(L)) => AllAnswered(L.ctx \o (L.results \o rest))
<1> DEFINE front == Done(L)
           call == Assistant(L.reply, L.calls, "toolUse")
           all == L.results \o rest
<1>1. /\ L.ctx \in Seq(Messages) /\ L.results \in Seq(ToolResults) /\ L.reply \in Nat
      /\ L.calls \in 0..MaxCalls /\ L.next \in 1..L.calls /\ MaxCalls \in Nat
      /\ Len(L.results) = L.next
      /\ \A k \in 1..Len(L.results) : L.results[k] = ToolResult(L.reply, k)
      /\ L.ctx # <<>> /\ L.ctx[Len(L.ctx)] = call
  BY AgentAssumption DEF Loops, LoopFits
<1>2. call \in Messages /\ front = SubSeq(L.ctx, 1, Len(L.ctx) - 1)
  BY <1>1, ElementOfSeq, LenProperties, EmptySeq DEF Done
<1> HIDE DEF call, front
<1>3. front \in Seq(Messages) /\ L.ctx = front \o <<call>>
  BY <1>1, <1>2, FrontLast
<1>4. /\ all \in Seq(ToolResults) /\ Len(all) = Len(L.results) + Len(rest)
      /\ \A i \in 1..Len(L.results) : all[i] = L.results[i]
      /\ \A i \in 1..Len(rest) : all[Len(L.results) + i] = rest[i]
  <2> DEFINE held == L.results
  <2>1. held \in Seq(ToolResults)
    BY <1>1
  <2> HIDE DEF held
  <2>2. /\ held \o rest \in Seq(ToolResults) /\ Len(held \o rest) = Len(held) + Len(rest)
        /\ \A i \in 1..Len(held) : (held \o rest)[i] = held[i]
        /\ \A i \in 1..Len(rest) : (held \o rest)[Len(held) + i] = rest[i]
    BY <2>1, ConcatResults
  <2>3. QED
    BY <2>2 DEF held
<1> HIDE DEF all
<1>5. Len(all) = L.calls
  BY <1>1, <1>4
<1>6. \A i \in 1..L.calls : all[i] = ToolResult(L.reply, i)
  <2> SUFFICES ASSUME NEW i \in 1..L.calls
               PROVE  all[i] = ToolResult(L.reply, i)
    OBVIOUS
  <2>1. CASE i <= L.next
    BY <1>1, <1>4, <2>1
  <2>2. CASE i > L.next
    <3>1. i - L.next \in 1..Len(rest) /\ L.next + (i - L.next) = i
      <4>1. L.next \in Nat /\ L.calls \in Nat /\ i \in 1..L.calls /\ Len(rest) = L.calls - L.next
        BY <1>1
      <4>2. QED
        BY ONLY <2>2, <4>1
    <3>2. all[i] = rest[i - L.next] /\ rest[i - L.next] = ToolResult(L.reply, L.next + (i - L.next))
      BY <1>1, <1>4, <3>1
    <3>3. QED
      BY <3>1, <3>2
  <2>3. QED
    BY <1>1, <2>1, <2>2
<1>7. AllAnswered(front) => AllAnswered((front \o <<call>>) \o all)
  BY <1>1, <1>2, <1>3, <1>4, <1>5, <1>6, AnsweredTools DEF call
<1>8. QED
  BY <1>3, <1>7 DEF all, front

\* The turn ends behind the last tool: its results move to the context as they were.
LEMMA ToolsDoneGoes ==
  ASSUME TypeOK, LoopsFit, NEW r \in Runs, ToolsDone(r)
  PROVE  Goes(r)
<1> DEFINE L == loop[r]
           l == [L EXCEPT !.pc = "polled", !.ctx = @ \o L.results, !.results = <<>>,
                          !.pending = SteeringTaken, !.hasMoreToolCalls = TRUE]
<1>1. /\ L \in Loops /\ L.ctx \in Seq(Messages) /\ L.results \in Seq(Messages) /\ L.results \in Seq(ToolResults)
      /\ L.pc = "toolPolled" /\ LoopFits(L) /\ L.pending = <<>> /\ L.next = L.calls /\ L.calls \in 0..MaxCalls
      /\ MaxCalls \in Nat
  BY AgentAssumption, LoopTyped DEF LoopsFit, ToolsDone
<1>2. Step(r, l, <<TurnEnd>>) /\ DequeueSteering
  BY DEF ToolsDone
<1>3. L.ctx \o L.results \in Seq(Messages) /\ <<>> \in Seq(ToolResults)
  BY <1>1, ConcatFacts
<1>4. /\ l \in Loops /\ l.pc = "polled" /\ l.ctx = L.ctx \o L.results /\ l.pending = SteeringTaken
      /\ l.results = <<>>
  BY <1>1, <1>3, QueuesTyped DEF Loops
<1> HIDE DEF l
<1>5. LoopFits(l)
  BY <1>4 DEF LoopFits
<1>6. Made(L) = L.ctx \o L.results /\ Made(l) = Made(L) /\ Made(L) \o <<>> = Made(L) /\ Done(l) = L.ctx \o L.results
  <2>1. Made(L) = L.ctx \o L.results /\ Made(l) = (L.ctx \o L.results) \o <<>> /\ Done(l) = L.ctx \o L.results
    BY <1>1, <1>4 DEF Made, Done
  <2>2. (L.ctx \o L.results) \o <<>> = L.ctx \o L.results
    BY <1>3, ConcatEmptySeq
  <2>3. QED
    BY <2>1, <2>2
<1>7. AllAnswered(Done(L)) => AllAnswered(Done(l))
  <2>1. /\ <<>> \in Seq(ToolResults) /\ Len(<<>>) = L.calls - L.next
        /\ \A i \in 1..Len(<<>>) : <<>>[i] = ToolResult(L.reply, L.next + i)
    BY <1>1
  <2>2. L.results \o <<>> = L.results
    BY <1>1, ConcatEmptySeq
  <2>3. AllAnswered(Done(L)) => AllAnswered(L.ctx \o (L.results \o <<>>))
    BY <1>1, <2>1, ToolsAreDone
  <2>4. QED
    BY <1>6, <2>2, <2>3
<1>8. Active(r) /\ Tells(<<TurnEnd>>, <<>>) /\ <<>> \in Seq(Messages)
  BY <1>1, EventKinds, TellsOne DEF Active
<1>9. Grows(r, l, <<TurnEnd>>, <<>>)
  BY <1>2, <1>4, <1>5, <1>6, <1>7, <1>8 DEF Grows
<1>10. Carries(r, l, <<>>)
  BY <1>1, <1>2, <1>4, NoUsersFacts DEF Carries
<1>11. QED
  BY <1>9, <1>10 DEF Goes

\* Steering ends the tools: the calls left get skipped results, and the steering
\* messages open the next turn.
LEMMA SkipToolsGoes ==
  ASSUME TypeOK, LoopsFit, NEW r \in Runs, SkipTools(r)
  PROVE  Goes(r)
<1> DEFINE L == loop[r]
           rest == SkippedResults(L)
           users == L.pending
           l == BeginTurn([L EXCEPT !.ctx = @ \o L.results \o rest, !.results = <<>>], users)
           told == SkippedEvents(L)
           events == told \o <<TurnEnd>> \o Announce(users)
           news == rest \o users
<1>1. /\ L \in Loops /\ L.ctx \in Seq(Messages) /\ L.results \in Seq(Messages) /\ L.results \in Seq(ToolResults)
      /\ users \in Seq(Users) /\ users \in Seq(Messages)
      /\ L.pc = "toolPolled" /\ LoopFits(L) /\ L.next \in 1..L.calls /\ L.calls \in 0..MaxCalls
      /\ MaxCalls \in Nat
  BY AgentAssumption, LoopTyped DEF LoopsFit, LoopFits, SkipTools
<1>2. Step(r, l, events) /\ UNCHANGED queueVars
  BY DEF SkipTools
<1>3. /\ rest \in Seq(ToolResults) /\ rest \in Seq(Messages) /\ Len(rest) = L.calls - L.next
      /\ Tells(told, rest)
  <2>1. /\ rest \in Seq(ToolResults) /\ Len(rest) = L.calls - L.next /\ told \in Seq(Events)
        /\ Delivers(told, rest) /\ \A j \in DOMAIN told : told[j].type # "agent_end"
    BY <1>1, SkippedDelivers
  <2> HIDE DEF rest, told
  <2>2. rest \in Seq(Messages)
    BY <2>1, KindsOfSeq
  <2>3. QED
    BY <2>1, <2>2 DEF Tells
<1>4. \A i \in 1..Len(rest) : rest[i] = ToolResult(L.reply, L.next + i)
  BY <1>3 DEF SkippedResults
<1> HIDE DEF rest, users, told
<1>5. Tells(events, news) /\ news \in Seq(Messages)
  <2>1. Tells(told \o <<TurnEnd>>, rest)
    BY <1>3, EventKinds, TellsPadded
  <2>2. Tells(Announce(users), users)
    BY <1>1, TellsAnnounce
  <2>3. QED
    BY <2>1, <2>2, TellsConcat DEF Tells
<1> DEFINE ctx1 == (L.ctx \o L.results) \o rest
           ctx2 == ctx1 \o users
<1>6. ctx1 \in Seq(Messages) /\ ctx2 \in Seq(Messages) /\ L.ctx \o L.results \in Seq(Messages)
  <2>1. L.ctx \o L.results \in Seq(Messages)
    BY <1>1, ConcatFacts
  <2>2. ctx1 \in Seq(Messages)
    BY <1>3, <2>1, ConcatFacts
  <2> HIDE DEF ctx1
  <2>3. QED
    BY <1>1, <2>1, <2>2, ConcatFacts
<1>7. /\ l \in Loops /\ l.pc = "request" /\ l.ctx = ctx2 /\ l.pending = <<>> /\ l.results = <<>>
  <2>1. l = [L EXCEPT !.pc = "request", !.ctx = ctx2, !.pending = <<>>, !.results = <<>>]
    BY <1>1 DEF BeginTurn, Loops
  <2> HIDE DEF l, ctx2
  <2>2. <<>> \in Seq(Users) /\ <<>> \in Seq(ToolResults)
    OBVIOUS
  <2>3. QED
    BY <1>1, <1>6, <2>1, <2>2 DEF Loops
<1> HIDE DEF l, events, news
<1>8. LoopFits(l)
  BY <1>7 DEF LoopFits
<1>9. Made(l) = Made(L) \o news /\ Done(l) = ctx2
  <2>1. Made(L) = L.ctx \o L.results /\ Made(l) = ctx2 \o <<>> /\ Done(l) = ctx2
    BY <1>1, <1>7 DEF Made, Done
  <2>2. ctx2 \o <<>> = ctx2
    BY <1>6, ConcatEmptySeq
  <2> DEFINE before == L.ctx \o L.results
  <2>3. (before \o rest) \o users = before \o (rest \o users)
    <3>1. before \in Seq(Messages) /\ rest \in Seq(Messages) /\ users \in Seq(Messages)
      BY <1>1, <1>3, <1>6
    <3> HIDE DEF before
    <3>2. QED
      BY <3>1, ConcatMessages
  <2>4. QED
    BY <2>1, <2>2, <2>3 DEF before, news
<1>10. AllAnswered(Done(L)) => AllAnswered(Done(l))
  <2>1. AllAnswered(Done(L)) => AllAnswered(L.ctx \o (L.results \o rest))
    BY <1>1, <1>3, <1>4, ToolsAreDone
  <2>2. L.ctx \o (L.results \o rest) = ctx1
    BY <1>1, <1>3, ConcatMessages
  <2>3. \A i \in DOMAIN users : users[i].role = "user"
    <3>1. \A i \in DOMAIN users : users[i] \in Users
      BY <1>1, ElementOfSeq, LenProperties
    <3>2. QED
      BY <3>1, MessageKinds
  <2> HIDE DEF ctx1
  <2>4. AllAnswered(ctx1) => AllAnswered(ctx1 \o users)
    BY <1>1, <1>6, <2>3, AnsweredConcat DEF IsAssistant
  <2>5. QED
    BY <1>9, <2>1, <2>2, <2>4
<1>11. Active(r)
  BY <1>1 DEF Active
<1>12. Grows(r, l, events, news)
  <2>1. l.pc # "none"
    BY <1>7
  <2>2. QED
    BY <1>2, <1>5, <1>7, <1>8, <1>9, <1>10, <1>11, <2>1 DEF Grows
<1>13. Carries(r, l, news)
  <2>1. NoUsers(rest)
    BY <1>3, NoUsersFacts
  <2>2. QED
    BY <1>2, <1>3, <1>7, <2>1 DEF Carries, news, users
<1>14. QED
  BY <1>12, <1>13 DEF Goes

\* A pair is two sequences of one element.
LEMMA PairConcat ==
  ASSUME NEW x, NEW y
  PROVE  <<x, y>> = <<x>> \o <<y>>
<1>1. <<x>> \in Seq({x, y}) /\ <<y>> \in Seq({x, y}) /\ <<x, y>> \in Seq({x, y})
      /\ Len(<<x>>) = 1 /\ Len(<<y>>) = 1 /\ Len(<<x, y>>) = 2
  OBVIOUS
<1>2. /\ <<x>> \o <<y>> \in Seq({x, y}) /\ Len(<<x>> \o <<y>>) = 1 + 1
      /\ \A i \in 1..1 : (<<x>> \o <<y>>)[i] = <<x>>[i]
      /\ \A i \in 1..1 : (<<x>> \o <<y>>)[1 + i] = <<y>>[i]
  BY <1>1, ConcatFacts
<1>3. (<<x>> \o <<y>>)[1] = x /\ (<<x>> \o <<y>>)[2] = y
  BY <1>2
<1> DEFINE xy == <<x>> \o <<y>>
<1>4. /\ xy \in Seq({x, y}) /\ Len(xy) = Len(<<x, y>>)
      /\ \A i \in 1..Len(xy) : xy[i] = <<x, y>>[i]
  <2>1. \A i \in 1..2 : i = 1 \/ i = 2
    OBVIOUS
  <2> HIDE DEF xy
  <2>2. \A i \in 1..2 : xy[i] = <<x, y>>[i]
    BY <1>3, <2>1 DEF xy
  <2>3. QED
    BY <1>1, <1>2, <2>2 DEF xy
<1> HIDE DEF xy
<1>5. xy = <<x, y>>
  BY <1>1, <1>4, SeqEqual
<1>6. QED
  BY <1>5 DEF xy

\* The LLM's last event: the message takes the partial one's place, and the loop runs
\* its tools, polls or ends.
LEMMA LlmEndGoes ==
  ASSUME TypeOK, LoopsFit, NEW r \in Runs,
         NEW stop \in {"stop", "toolUse", "error", "aborted"}, NEW k \in 0..MaxCalls, LlmEnd(r, stop, k)
  PROVE  Goes(r) /\ replies' \in Nat /\ toolTurns' \in Nat
<1> DEFINE L == loop[r]
           n == IF L.pc = "streaming" THEN L.reply ELSE replies + 1
           message == Assistant(n, k, stop)
           ctx == FinalContext(L, message)
           done == [L EXCEPT !.ctx = FinalContext(L, message), !.reply = n, !.calls = k]
           said == IF L.pc = "streaming" THEN <<MessageEnd(message)>> ELSE Announce(<<message>>)
<1>1. /\ L \in Loops /\ L.ctx \in Seq(Messages) /\ L.pc \in {"request", "streaming"} /\ LoopFits(L)
      /\ L.results = <<>> /\ L.pending = <<>> /\ L.reply \in Nat /\ replies \in Nat /\ toolTurns \in Nat
      /\ MaxCalls \in Nat
  BY AgentAssumption, LoopTyped DEF LoopsFit, LoopFits, LlmEnd, TypeOK
<1>2. n \in Nat /\ replies' \in Nat /\ toolTurns' \in Nat
  BY <1>1 DEF LlmEnd
<1>3. message \in Messages /\ message.role = "assistant" /\ message.stop = stop /\ message.calls = k
  BY <1>2 DEF Assistant, Assistants, Messages
<1>4. /\ \/ /\ stop \in {"error", "aborted"}
            /\ Step(r, [done EXCEPT !.pc = "ended"], said \o <<TurnEnd, AgentEnd>>)
            /\ UNCHANGED queueVars
         \/ /\ stop = "toolUse" /\ k > 0
            /\ Step(r, [done EXCEPT !.pc = "tool", !.next = 1, !.results = <<>>],
                    said \o <<ToolStart(n, 1)>>)
            /\ UNCHANGED queueVars
         \/ /\ stop = "stop"
            /\ Step(r, [done EXCEPT !.pc = "polled", !.pending = SteeringTaken, !.hasMoreToolCalls = FALSE],
                    Append(said, TurnEnd))
            /\ DequeueSteering
  BY DEF LlmEnd
<1>5. Active(r)
  BY <1>1 DEF Active
<1> DEFINE front == Done(L)
<1>6. /\ front \in Seq(Messages) /\ ctx = front \o <<message>> /\ Made(L) = front
      /\ <<message>> \in Seq(Messages)
  <2>1. <<message>> \in Seq(Messages)
    BY <1>3
  <2>2. CASE L.pc = "streaming"
    <3>1. L.ctx # <<>>
      BY <1>1, <2>2 DEF LoopFits
    <3>2. /\ front = SubSeq(L.ctx, 1, Len(L.ctx) - 1) /\ front \in Seq(Messages)
          /\ [L.ctx EXCEPT ![Len(L.ctx)] = message] = front \o <<message>>
      BY <1>1, <1>3, <2>2, <3>1, FrontLast DEF Done
    <3>3. Made(L) = front \o <<>> /\ ctx = front \o <<message>>
      BY <1>1, <2>2, <3>2 DEF Made, FinalContext
    <3>4. QED
      BY <2>1, <3>2, <3>3, ConcatEmptySeq
  <2>3. CASE L.pc = "request"
    <3>1. front = L.ctx /\ Made(L) = L.ctx \o <<>> /\ ctx = Append(L.ctx, message)
      BY <1>1, <2>3 DEF Made, Done, FinalContext
    <3>2. L.ctx \o <<>> = L.ctx /\ Append(L.ctx, message) = L.ctx \o <<message>>
      BY <1>1, <1>3, ConcatEmptySeq, AppendIsConcat
    <3>3. QED
      BY <1>1, <2>1, <3>1, <3>2
  <2>4. QED
    BY <1>1, <2>2, <2>3
<1>7. said \in Seq(Events) /\ Tells(said, <<message>>)
  <2>1. Tells(<<MessageEnd(message)>>, <<message>>) /\ Tells(Announce(<<message>>), <<message>>)
    BY <1>3, <1>6, TellsOne, TellsAnnounce
  <2>2. QED
    BY <2>1 DEF Tells
<1>8. /\ ctx \in Seq(Messages) /\ ctx # <<>> /\ ctx[Len(ctx)] = message
      /\ SubSeq(ctx, 1, Len(ctx) - 1) = front
  <2> HIDE DEF ctx, front, message
  <2>1. front \o <<message>> = Append(front, message) /\ front \in Seq(Messages) /\ message \in Messages
    BY <1>3, <1>6, AppendIsConcat
  <2>2. /\ Append(front, message) \in Seq(Messages) /\ Append(front, message) # <<>>
        /\ Append(front, message)[Len(Append(front, message))] = message
        /\ SubSeq(Append(front, message), 1, Len(Append(front, message)) - 1) = front
    BY <2>1, AppendProperties, HeadTailAppend
  <2>3. QED
    BY <1>6, <2>1, <2>2
<1>9. /\ done \in Loops /\ done.ctx = ctx /\ done.reply = n /\ done.calls = k /\ done.results = <<>>
      /\ done.pending = <<>>
  BY <1>1, <1>2, <1>8 DEF Loops
<1>10. NoUsers(<<message>>)
  BY <1>3, NoUsersFacts
<1> HIDE DEF done, said, ctx, message, front, n
<1>11. stop # "toolUse" => (AllAnswered(front) => AllAnswered(ctx))
  <2> DEFINE one == <<message>>
  <2>1. /\ one \in Seq(Messages)
        /\ \A i \in DOMAIN one : one[i].role # "toolResult" /\ one[i].stop = stop
    BY <1>3, <1>6
  <2> HIDE DEF one
  <2>2. stop # "toolUse" /\ AllAnswered(front) => AllAnswered(front \o one)
    BY <1>6, <2>1, AnsweredConcat
  <2>3. QED
    BY <1>6, <2>2 DEF one
<1>12. ASSUME stop \in {"error", "aborted"},
              Step(r, [done EXCEPT !.pc = "ended"], said \o <<TurnEnd, AgentEnd>>), UNCHANGED queueVars
       PROVE  Goes(r)
  <2> DEFINE l == [done EXCEPT !.pc = "ended"]
             events == said \o <<TurnEnd, AgentEnd>>
             before == said \o <<TurnEnd>>
  <2>1. /\ l \in Loops /\ l.pc = "ended" /\ l.ctx = ctx /\ l.results = <<>> /\ l.pending = <<>>
    BY <1>9 DEF Loops
  <2>2. Tells(before, <<message>>)
    BY <1>7, EventKinds, TellsPadded
  <2>3. events = before \o <<AgentEnd>>
    <3>1. <<TurnEnd, AgentEnd>> = <<TurnEnd>> \o <<AgentEnd>>
      BY PairConcat
    <3>2. <<TurnEnd>> \in Seq(Events) /\ <<AgentEnd>> \in Seq(Events)
      BY EventKinds
    <3> DEFINE t == <<TurnEnd>>
               a == <<AgentEnd>>
    <3> HIDE DEF t, a
    <3>3. said \o (t \o a) = (said \o t) \o a
      BY <1>7, <3>2, ConcatAssociative DEF t, a
    <3>4. QED
      BY <3>1, <3>3 DEF t, a
  <2>4. Step(r, l, events)
    BY <1>12
  <2> HIDE DEF l, events, before
  <2>5. Made(l) = ctx /\ Done(l) = ctx
    BY <1>8, <2>1, ConcatEmptySeq DEF Made, Done
  <2>6. LoopFits(l)
    BY <2>1 DEF LoopFits
  <2>7. AllAnswered(front) => AllAnswered(ctx)
    BY <1>12, <1>11
  <2>8. Grows(r, l, events, <<message>>)
    BY <1>5, <1>6, <2>1, <2>2, <2>3, <2>4, <2>5, <2>6, <2>7 DEF Grows, front
  <2>9. Carries(r, l, <<message>>)
    BY <1>1, <1>10, <1>12, <2>1 DEF Carries
  <2>10. QED
    BY <2>8, <2>9 DEF Goes
<1>13. ASSUME stop = "toolUse", k > 0,
              Step(r, [done EXCEPT !.pc = "tool", !.next = 1, !.results = <<>>], said \o <<ToolStart(n, 1)>>),
              UNCHANGED queueVars
       PROVE  Goes(r)
  <2> DEFINE l == [done EXCEPT !.pc = "tool", !.next = 1, !.results = <<>>]
             events == said \o <<ToolStart(n, 1)>>
  <2>1. 1 \in 0..MaxCalls /\ 1 \in 1..k /\ <<n, 1>> \in Calls /\ <<>> \in Seq(ToolResults)
    BY <1>1, <1>2, <1>13 DEF Calls
  <2>2. /\ l \in Loops /\ l.pc = "tool" /\ l.ctx = ctx /\ l.results = <<>> /\ l.pending = <<>>
        /\ l.next = 1 /\ l.calls = k /\ l.reply = n
    BY <1>9, <2>1 DEF Loops
  <2>3. Tells(events, <<message>>)
    BY <1>7, <2>1, EventKinds, TellsPadded
  <2>4. Step(r, l, events)
    BY <1>13
  <2> HIDE DEF l, events
  <2>5. Made(l) = ctx /\ Done(l) = front
    <3>1. Made(l) = ctx \o <<>> /\ Done(l) = SubSeq(ctx, 1, Len(ctx) - 1)
      BY <2>2 DEF Made, Done
    <3>2. QED
      BY <1>8, <3>1, ConcatEmptySeq
  <2>6. LoopFits(l)
    <3>1. message = Assistant(n, k, "toolUse")
      BY <1>13 DEF message
    <3>2. Len(<<>>) = 1 - 1 /\ \A j \in 1..Len(<<>>) : FALSE
      OBVIOUS
    <3>3. QED
      BY <1>8, <2>1, <2>2, <3>1, <3>2 DEF LoopFits
  <2>7. Grows(r, l, events, <<message>>)
    BY <1>5, <1>6, <2>2, <2>3, <2>4, <2>5, <2>6 DEF Grows, front
  <2>8. Carries(r, l, <<message>>)
    BY <1>1, <1>10, <1>13, <2>2 DEF Carries
  <2>9. QED
    BY <2>7, <2>8 DEF Goes
<1>14. ASSUME stop = "stop",
              Step(r, [done EXCEPT !.pc = "polled", !.pending = SteeringTaken, !.hasMoreToolCalls = FALSE],
                   Append(said, TurnEnd)),
              DequeueSteering
       PROVE  Goes(r)
  <2> DEFINE l == [done EXCEPT !.pc = "polled", !.pending = SteeringTaken, !.hasMoreToolCalls = FALSE]
             events == Append(said, TurnEnd)
  <2>1. /\ l \in Loops /\ l.pc = "polled" /\ l.ctx = ctx /\ l.results = <<>> /\ l.pending = SteeringTaken
    BY <1>9, QueuesTyped DEF Loops
  <2>2. Tells(events, <<message>>)
    <3>1. events = said \o <<TurnEnd>>
      BY <1>7, EventKinds, AppendIsConcat
    <3>2. QED
      BY <1>7, <3>1, EventKinds, TellsPadded
  <2>3. Step(r, l, events)
    BY <1>14
  <2> HIDE DEF l, events
  <2>4. Made(l) = ctx /\ Done(l) = ctx
    BY <1>8, <2>1, ConcatEmptySeq DEF Made, Done
  <2>5. LoopFits(l)
    BY <2>1 DEF LoopFits
  <2>6. AllAnswered(front) => AllAnswered(ctx)
    BY <1>14, <1>11
  <2>7. Grows(r, l, events, <<message>>)
    BY <1>5, <1>6, <2>1, <2>2, <2>3, <2>4, <2>5, <2>6 DEF Grows, front
  <2>8. Carries(r, l, <<message>>)
    BY <1>1, <1>10, <1>14, <2>1 DEF Carries
  <2>9. QED
    BY <2>7, <2>8 DEF Goes
<1>15. Goes(r)
  <2>1. /\ \/ /\ stop \in {"error", "aborted"}
              /\ Step(r, [done EXCEPT !.pc = "ended"], said \o <<TurnEnd, AgentEnd>>)
              /\ UNCHANGED queueVars
           \/ /\ stop = "toolUse" /\ k > 0
              /\ Step(r, [done EXCEPT !.pc = "tool", !.next = 1, !.results = <<>>],
                      said \o <<ToolStart(n, 1)>>)
              /\ UNCHANGED queueVars
           \/ /\ stop = "stop"
              /\ Step(r, [done EXCEPT !.pc = "polled", !.pending = SteeringTaken, !.hasMoreToolCalls = FALSE],
                      Append(said, TurnEnd))
              /\ DequeueSteering
    BY <1>4 DEF done, said, message, n
  <2>2. QED
    BY <1>12, <1>13, <1>14, <2>1
<1>16. QED
  BY <1>2, <1>15

\* Every step of a loop, and a rejection, is of this kind.
LEMMA LoopGoes ==
  ASSUME TypeOK, LoopsFit, NEW r \in Runs, LoopStep(r) \/ LoopRejects(r)
  PROVE  Goes(r) /\ replies' \in Nat /\ toolTurns' \in Nat
<1>1. replies \in Nat /\ toolTurns \in Nat
  BY DEF TypeOK
<1>2. CASE Started(r)
  <2>1. Goes(r)
    BY <1>2, TurnGoes DEF Started
  <2>2. QED
    BY <1>1, <1>2, <2>1 DEF Started
<1>3. CASE LlmStart(r)
  <2>1. Goes(r)
    BY <1>3, LlmStartGoes
  <2>2. QED
    BY <1>1, <1>3, <2>1 DEF LlmStart
<1>4. CASE LlmAnswers(r)
  BY <1>4, LlmEndGoes DEF LlmAnswers
<1>5. CASE ToolReturns(r)
  <2>1. Goes(r)
    BY <1>5, ToolReturnsGoes
  <2>2. QED
    BY <1>1, <1>5, <2>1 DEF ToolReturns
<1>6. CASE SkipTools(r)
  <2>1. Goes(r)
    BY <1>6, SkipToolsGoes
  <2>2. QED
    BY <1>1, <1>6, <2>1 DEF SkipTools
<1>7. CASE NextTool(r)
  <2>1. Goes(r)
    BY <1>7, NextToolGoes
  <2>2. QED
    BY <1>1, <1>7, <2>1 DEF NextTool
<1>8. CASE ToolsDone(r)
  <2>1. Goes(r)
    BY <1>8, ToolsDoneGoes
  <2>2. QED
    BY <1>1, <1>8, <2>1 DEF ToolsDone
<1>9. CASE NextTurn(r)
  <2>1. Goes(r)
    BY <1>9, TurnGoes DEF NextTurn
  <2>2. QED
    BY <1>1, <1>9, <2>1 DEF NextTurn
<1>10. CASE PollFollowUps(r)
  <2>1. Goes(r)
    BY <1>10, PollFollowUpsGoes
  <2>2. QED
    BY <1>1, <1>10, <2>1 DEF PollFollowUps
<1>11. CASE AfterFollowUps(r)
  <2>1. Goes(r)
    BY <1>11, AfterFollowUpsGoes
  <2>2. QED
    BY <1>1, <1>11, <2>1 DEF AfterFollowUps
<1>12. CASE LoopRejects(r)
  <2>1. Goes(r)
    BY <1>12, RejectGoes
  <2>2. QED
    BY <1>1, <1>12, <2>1 DEF LoopRejects
<1>13. QED
  BY <1>2, <1>3, <1>4, <1>5, <1>6, <1>7, <1>8, <1>9, <1>10, <1>11, <1>12 DEF LoopStep

-----------------------------------------------------------------------------
(* A step of a loop, or a rejection, keeps the invariant.                  *)

\* Told events are regular.
LEMMA TellsEnded ==
  ASSUME NEW events, NEW news, Tells(events, news)
  PROVE  events \in Seq(Events) /\ Regular(events) /\ Ended(events) = news
BY DeliversEnded DEF Tells

\* No events end no messages.
LEMMA NothingEnded ==
  <<>> \in Seq(Events) /\ Regular(<<>>) /\ Ended(<<>>) = <<>>
BY TellsOne, TellsEnded

\* agent_end is pushed last.
LEMMA AgentEndLast ==
  ASSUME NEW a, NEW x, Tells(a, x)
  PROVE  /\ a \o <<AgentEnd>> \in Seq(Events)
         /\ Regular(a \o <<AgentEnd>>) /\ Ended(a \o <<AgentEnd>>) = x
         /\ \A i \in DOMAIN (a \o <<AgentEnd>>) :
              (a \o <<AgentEnd>>)[i].type = "agent_end" => i = Len(a \o <<AgentEnd>>)
<1> DEFINE last == <<AgentEnd>>
           all == a \o last
<1>1. /\ last \in Seq(Events) /\ Len(last) = 1 /\ \A i \in DOMAIN last : last[i].type # "message_end"
      /\ a \in Seq(Events) /\ x \in Seq(Messages) /\ Delivers(a, x)
  BY EventKinds DEF Tells
<1> HIDE DEF last
<1>2. Delivers(last, <<>>) /\ <<>> \in Seq(Messages)
  BY <1>1, NoEnds
<1>3. Delivers(all, x \o <<>>) /\ x \o <<>> = x
  BY <1>1, <1>2, DeliversConcat, ConcatEmptySeq
<1>4. /\ all \in Seq(Events) /\ Len(all) = Len(a) + 1
      /\ \A i \in 1..Len(a) : all[i] = a[i]
  <2>1. a \in Seq(Events) /\ last \in Seq(Events)
    BY <1>1
  <2>2. a \o last \in Seq(Events) /\ Len(a \o last) = Len(a) + Len(last) /\ \A i \in 1..Len(a) : (a \o last)[i] = a[i]
    BY <2>1, ConcatFacts
  <2>3. QED
    BY <1>1, <2>2
<1> HIDE DEF all
<1>5. Regular(all) /\ Ended(all) = x
  BY <1>1, <1>3, <1>4, DeliversEnded
<1>6. DOMAIN a = 1..Len(a) /\ DOMAIN all = 1..Len(all) /\ Len(a) \in Nat
  BY <1>1, <1>4, LenProperties
<1>7. ASSUME NEW i \in DOMAIN all, all[i].type = "agent_end"
      PROVE  i = Len(all)
  <2>1. i \in 1..Len(a) + 1
    BY <1>4, <1>6
  <2>2. i \notin 1..Len(a)
    BY <1>4, <1>6, <1>7 DEF Tells
  <2>3. QED
    BY <1>4, <1>6, <2>1, <2>2
<1>8. QED
  BY <1>4, <1>5, <1>7 DEF all, last

\* What a loop pushes comes behind what is under way.
LEMMA Pushed ==
  ASSUME NEW c \in Seq(Events), Regular(c), \A i \in DOMAIN c : c[i].type # "agent_end",
         NEW l, NEW events, NEW news,
         \/ Tells(events, news)
         \/ l.pc = "ended" /\ \E before : events = before \o <<AgentEnd>> /\ Tells(before, news)
  PROVE  /\ c \o events \in Seq(Events) /\ Regular(c \o events)
         /\ Ended(c \o events) = Ended(c) \o news
         /\ \A i \in DOMAIN (c \o events) :
              (c \o events)[i].type = "agent_end" => i = Len(c \o events) /\ l.pc = "ended"
<1>1. Tells(c, Ended(c))
  BY EndedTyped DEF Tells, Regular
<1>2. CASE Tells(events, news)
  <2>1. Tells(c \o events, Ended(c) \o news)
    BY <1>1, <1>2, TellsConcat
  <2>2. QED
    BY <2>1, TellsEnded DEF Tells
<1>3. ASSUME l.pc = "ended", NEW before, events = before \o <<AgentEnd>>, Tells(before, news)
      PROVE  /\ c \o events \in Seq(Events) /\ Regular(c \o events)
             /\ Ended(c \o events) = Ended(c) \o news
             /\ \A i \in DOMAIN (c \o events) :
                  (c \o events)[i].type = "agent_end" => i = Len(c \o events) /\ l.pc = "ended"
  <2>1. Tells(c \o before, Ended(c) \o news)
    BY <1>1, <1>3, TellsConcat
  <2> DEFINE last == <<AgentEnd>>
  <2>2. before \in Seq(Events) /\ last \in Seq(Events)
    BY <1>3, EventKinds DEF Tells
  <2> HIDE DEF last
  <2>3. c \o (before \o last) = (c \o before) \o last
    BY <2>2, ConcatAssociative
  <2>4. c \o events = (c \o before) \o <<AgentEnd>>
    BY <1>3, <2>3 DEF last
  <2>5. QED
    BY <1>3, <2>1, <2>4, AgentEndLast
<1>4. QED
  BY <1>2, <1>3

\* What a step of loop r changes, run by run.
GoesTo(r, l, events, news) ==
  /\ Grows(r, l, events, news) /\ Carries(r, l, news)
  /\ loop'[r] = l /\ Completed(r)' = Completed(r) \o news
  /\ loop[r].pc \notin {"none", "ended", "rejected"} /\ r <= runs
  /\ reader[r] = "reading" =>
       chan'[r] = chan[r] \o events /\ OnTheWay(r)' = OnTheWay(r) \o news
  /\ reader[r] # "reading" => chan'[r] = <<>> /\ OnTheWay(r)' = <<>>
  /\ \A q \in Runs \ {r} : /\ loop'[q] = loop[q] /\ chan'[q] = chan[q]
                           /\ Completed(q)' = Completed(q) /\ OnTheWay(q)' = OnTheWay(q)

\* A step that goes keeps the types of the loops, the order of the runs and what each
\* loop holds.
LEMMA GoesShape ==
  ASSUME TypeOK, Streams, LoopsFit, NEW r \in Runs, Goes(r)
  PROVE  /\ \E l, events, news : GoesTo(r, l, events, news)
         /\ loop' \in [Runs -> Loops] /\ chan' \in [Runs -> Seq(Events)]
         /\ Streams' /\ LoopsFit'
<1>1. PICK l, events, news : Grows(r, l, events, news) /\ Carries(r, l, news)
  BY DEF Goes
<1>2. /\ loop' = [loop EXCEPT ![r] = l]
      /\ chan' = [chan EXCEPT ![r] = IF reader[r] = "reading" THEN @ \o events ELSE <<>>]
      /\ UNCHANGED <<reader, runs>>
  BY <1>1 DEF Grows, Step
<1>3. /\ loop \in [Runs -> Loops] /\ chan \in [Runs -> Seq(Events)] /\ l \in Loops /\ LoopFits(l)
      /\ loop[r].pc \notin {"none", "ended", "rejected"} /\ l.pc # "none" /\ Made(l) = Made(loop[r]) \o news
      /\ runs \in Nat /\ r \in Nat
  BY <1>1 DEF Grows, Active, TypeOK, Runs
<1>4. /\ loop'[r] = l /\ \A q \in Runs \ {r} : loop'[q] = loop[q] /\ chan'[q] = chan[q]
      /\ loop' \in [Runs -> Loops]
      /\ reader[r] = "reading" => chan'[r] = chan[r] \o events
      /\ reader[r] # "reading" => chan'[r] = <<>>
  BY <1>2, <1>3
<1>5. /\ Regular(chan[r]) /\ chan[r] \in Seq(Events) /\ \A i \in DOMAIN chan[r] : chan[r][i].type # "agent_end"
      /\ r <= runs
  BY <1>3 DEF Streams
<1>6. /\ chan[r] \o events \in Seq(Events) /\ Regular(chan[r] \o events)
      /\ Ended(chan[r] \o events) = Ended(chan[r]) \o news
      /\ \A i \in DOMAIN (chan[r] \o events) :
           (chan[r] \o events)[i].type = "agent_end" => i = Len(chan[r] \o events) /\ l.pc = "ended"
  <2> DEFINE c == chan[r]
  <2>1. /\ c \in Seq(Events) /\ Regular(c) /\ \A i \in DOMAIN c : c[i].type # "agent_end"
        /\ \/ Tells(events, news)
           \/ l.pc = "ended" /\ \E before : events = before \o <<AgentEnd>> /\ Tells(before, news)
    BY <1>1, <1>5 DEF Grows
  <2> HIDE DEF c
  <2>2. /\ c \o events \in Seq(Events) /\ Regular(c \o events)
        /\ Ended(c \o events) = Ended(c) \o news
        /\ \A i \in DOMAIN (c \o events) :
             (c \o events)[i].type = "agent_end" => i = Len(c \o events) /\ l.pc = "ended"
    BY <2>1, Pushed
  <2>3. QED
    BY <2>2 DEF c
<1>7. chan'[r] \in Seq(Events) /\ Regular(chan'[r])
  BY <1>4, <1>6, NothingEnded
<1>8. chan' \in [Runs -> Seq(Events)]
  BY <1>2, <1>3, <1>6, NothingEnded
<1>9. Streams'
  <2>1. ASSUME NEW q \in Runs
        PROVE  /\ loop'[q].pc = "none" <=> q > runs
               /\ reader[q] = "none" <=> q > runs
               /\ q > runs => loop'[q] = NoLoop
               /\ reader[q] # "reading" => chan'[q] = <<>>
               /\ Regular(chan'[q])
               /\ \A i \in DOMAIN chan'[q] :
                    chan'[q][i].type = "agent_end" => i = Len(chan'[q]) /\ loop'[q].pc = "ended"
    <3>1. CASE q = r
      <4>1. /\ loop'[q].pc # "none" /\ ~(q > runs)
        BY <1>3, <1>4, <1>5, <3>1
      <4>2. reader[q] = "none" <=> q > runs
        BY DEF Streams
      <4>3. \A i \in DOMAIN chan'[q] :
              chan'[q][i].type = "agent_end" => i = Len(chan'[q]) /\ loop'[q].pc = "ended"
        <5>1. CASE reader[r] = "reading"
          BY <1>4, <1>6, <3>1, <5>1
        <5>2. CASE reader[r] # "reading"
          BY <1>4, <3>1, <5>2
        <5>3. QED
          BY <5>1, <5>2
      <4>4. QED
        BY <1>4, <1>7, <3>1, <4>1, <4>2, <4>3
    <3>2. CASE q # r
      <4>1. loop'[q] = loop[q] /\ chan'[q] = chan[q]
        BY <1>4, <3>2
      <4>2. QED
        BY <4>1 DEF Streams
    <3>3. QED
      BY <3>1, <3>2
  <2>2. QED
    BY <1>2, <2>1 DEF Streams
<1>10. LoopsFit'
  BY <1>3, <1>4 DEF LoopsFit
<1>11. GoesTo(r, l, events, news)
  <2>1. \A q \in Runs : /\ Completed(q) = Made(loop[q]) /\ Completed(q)' = Made(loop'[q])
                        /\ OnTheWay(q) = Ended(chan[q]) /\ OnTheWay(q)' = Ended(chan'[q])
    BY DEF Completed, Made, OnTheWay
  <2>2. Completed(r)' = Completed(r) \o news
    BY <1>3, <1>4, <2>1
  <2>3. reader[r] = "reading" => OnTheWay(r)' = OnTheWay(r) \o news
    BY <1>4, <1>6, <2>1
  <2>4. reader[r] # "reading" => OnTheWay(r)' = <<>>
    BY <1>4, <2>1, NothingEnded
  <2>5. \A q \in Runs \ {r} : Completed(q)' = Completed(q) /\ OnTheWay(q)' = OnTheWay(q)
    BY <1>4, <2>1
  <2>6. QED
    BY <1>1, <1>3, <1>4, <1>5, <2>2, <2>3, <2>4, <2>5 DEF GoesTo
<1>12. QED
  BY <1>4, <1>8, <1>9, <1>10, <1>11

\* What a step of the loop does with a message of a caller: it injects it, takes it
\* from a queue, or neither.
Carried(m, r, news) ==
  /\ Once(m, news)
  /\ \/ /\ In(m, news) <=> In(m, loop[r].pending)
        /\ ~In(m, loop'[r].pending) /\ Once(m, loop'[r].pending)
        /\ UNCHANGED queueVars
     \/ /\ ~In(m, news) /\ ~In(m, loop[r].pending)
        /\ In(m, steeringQueue) <=> In(m, loop'[r].pending) \/ In(m, steeringQueue')
        /\ Once(m, steeringQueue) => /\ Once(m, loop'[r].pending) /\ Once(m, steeringQueue')
                                     /\ ~(In(m, loop'[r].pending) /\ In(m, steeringQueue'))
        /\ UNCHANGED followUpQueue
     \/ /\ ~In(m, news) /\ ~In(m, loop[r].pending)
        /\ In(m, followUpQueue) <=> In(m, loop'[r].pending) \/ In(m, followUpQueue')
        /\ Once(m, followUpQueue) => /\ Once(m, loop'[r].pending) /\ Once(m, followUpQueue')
                                     /\ ~(In(m, loop'[r].pending) /\ In(m, followUpQueue'))
        /\ UNCHANGED steeringQueue
     \/ ~In(m, news) /\ loop'[r].pending = loop[r].pending /\ UNCHANGED queueVars

\* A step that goes carries a caller's message from a queue to pending or from there
\* to what is told, or leaves it where it was.
LEMMA GoesCarried ==
  ASSUME TypeOK, UsersOnce, NEW r \in Runs, NEW l, NEW events, NEW news, GoesTo(r, l, events, news),
         NEW m \in Msgs
  PROVE  Carried(m, r, news)
<1>1. /\ loop'[r] = l /\ Carries(r, l, news) /\ news \in Seq(Messages) /\ UserOnce(m)
  BY DEF GoesTo, Grows, UsersOnce
<1>2. /\ loop[r].pending \in Seq(Messages) /\ steeringQueue \in Seq(Users) /\ followUpQueue \in Seq(Users)
  BY LoopTyped DEF TypeOK
<1>3. ~In(m, <<>>) /\ Once(m, <<>>)
  BY InSmall
<1>4. Once(m, loop[r].pending)
  BY <1>1 DEF UserOnce
<1>5. \A s \in Seq(Messages) : NoUsers(s) => ~In(m, s) /\ Once(m, s)
  BY InSmall DEF NoUsers
<1>6. ASSUME l.pending = <<>>, NEW results \in Seq(Messages), NoUsers(results),
             news = results \o loop[r].pending, UNCHANGED queueVars
      PROVE  Carried(m, r, news)
  <2> DEFINE held == loop[r].pending
  <2>1. held \in Seq(Messages)
    BY <1>2
  <2> HIDE DEF held
  <2>2. /\ In(m, results \o held) <=> In(m, results) \/ In(m, held)
        /\ Once(m, results \o held) <=> Once(m, results) /\ Once(m, held) /\ ~(In(m, results) /\ In(m, held))
    BY <1>6, <2>1, InConcat
  <2>3. ~In(m, results) /\ Once(m, results)
    BY <1>5, <1>6
  <2>4. Once(m, news) /\ (In(m, news) <=> In(m, held))
    BY <1>4, <1>6, <2>2, <2>3 DEF held
  <2>5. loop'[r].pending = <<>>
    BY <1>1, <1>6
  <2>6. QED
    BY <1>3, <1>6, <2>4, <2>5 DEF Carried, held
<1>7. ASSUME loop[r].pending = <<>>, NoUsers(news), l.pending = SteeringTaken, DequeueSteering
      PROVE  Carried(m, r, news)
  <2>1. ~In(m, news) /\ Once(m, news) /\ ~In(m, loop[r].pending)
    BY <1>1, <1>3, <1>5, <1>7
  <2>2. /\ loop'[r].pending = Taken(SteeringMode, steeringQueue)
        /\ steeringQueue' = Left(SteeringMode, steeringQueue) /\ UNCHANGED followUpQueue
    BY <1>1, <1>7 DEF SteeringTaken, DequeueSteering
  <2>3. QED
    BY <1>2, <2>1, <2>2, InTakenLeft DEF Carried
<1>8. ASSUME loop[r].pending = <<>>, NoUsers(news), l.pending = FollowUpsTaken, DequeueFollowUps
      PROVE  Carried(m, r, news)
  <2>1. ~In(m, news) /\ Once(m, news) /\ ~In(m, loop[r].pending)
    BY <1>1, <1>3, <1>5, <1>8
  <2>2. /\ loop'[r].pending = Taken(FollowUpMode, followUpQueue)
        /\ followUpQueue' = Left(FollowUpMode, followUpQueue) /\ UNCHANGED steeringQueue
    BY <1>1, <1>8 DEF FollowUpsTaken, DequeueFollowUps
  <2>3. QED
    BY <1>2, <2>1, <2>2, InTakenLeft DEF Carried
<1>9. ASSUME l.pending = loop[r].pending, NoUsers(news), UNCHANGED queueVars
      PROVE  Carried(m, r, news)
  BY <1>1, <1>5, <1>9 DEF Carried
<1>10. QED
  BY <1>1, <1>6, <1>7, <1>8, <1>9 DEF Carries

\* What was completed and what is on its way are messages.
LEMMA StateTyped ==
  ASSUME TypeOK, Streams, LoopsFit, NEW r \in Runs
  PROVE  /\ Completed(r) \in Seq(Messages) /\ OnTheWay(r) \in Seq(Messages)
         /\ messages \in Seq(Messages)
         /\ \A m \in Msgs : At(m, Completed(r)) = At(m, loop[r].ctx)
<1>1. Completed(r) \in Seq(Messages) /\ \A m \in Msgs : At(m, Completed(r)) = At(m, loop[r].ctx)
  <2>1. loop[r] \in Loops /\ LoopFits(loop[r]) /\ Completed(r) = Made(loop[r])
    BY LoopTyped, CompletedIsMade DEF LoopsFit
  <2>2. Made(loop[r]) \in Seq(Messages)
    BY <2>1, MadeTyped
  <2>3. QED
    BY <2>1, <2>2, AtMade
<1>2. chan[r] \in Seq(Events) /\ Regular(chan[r])
  BY DEF TypeOK, Streams
<1>3. QED
  BY <1>1, <1>2, EndedTyped DEF OnTheWay, TypeOK

\* No message of a caller is lost or doubled by a step of the loop.
LEMMA GoesUsers ==
  ASSUME TypeOK, Streams, LoopsFit, UsersOnce, NEW r \in Runs, NEW l, NEW events, NEW news,
         GoesTo(r, l, events, news)
  PROVE  UsersOnce'
<1> SUFFICES ASSUME NEW m \in Msgs
             PROVE  UserOnce(m)'
  BY DEF UsersOnce
<1>1. UserOnce(m) /\ Carried(m, r, news)
  BY GoesCarried DEF UsersOnce
<1>2. UNCHANGED <<messages, sent, reader>> /\ news \in Seq(Messages)
  BY DEF GoesTo, Grows, Step, agentVars
<1>3. /\ \A q \in Runs : Completed(q) \in Seq(Messages) /\ OnTheWay(q) \in Seq(Messages)
  BY StateTyped
<1>4. /\ In(m, Completed(r)') <=> In(m, Completed(r)) \/ In(m, news)
      /\ Once(m, Completed(r)') <=> Once(m, Completed(r)) /\ Once(m, news) /\ ~(In(m, Completed(r)) /\ In(m, news))
  <2>1. Completed(r)' = Completed(r) \o news
    BY DEF GoesTo
  <2>2. QED
    BY <1>2, <1>3, <2>1, InConcat
<1>5. /\ In(m, OnTheWay(r)') => In(m, OnTheWay(r)) \/ In(m, news)
      /\ Once(m, OnTheWay(r)) /\ Once(m, news) /\ ~(In(m, OnTheWay(r)) /\ In(m, news)) => Once(m, OnTheWay(r)')
  <2>1. CASE reader[r] = "reading"
    <3>1. OnTheWay(r)' = OnTheWay(r) \o news
      BY <2>1 DEF GoesTo
    <3>2. QED
      BY <1>2, <1>3, <3>1, InConcat
  <2>2. CASE reader[r] # "reading"
    <3>1. OnTheWay(r)' = <<>>
      BY <2>2 DEF GoesTo
    <3>2. QED
      BY <3>1, InSmall
  <2>3. QED
    BY <2>1, <2>2
<1>6. \A q \in Runs \ {r} : /\ loop'[q].pending = loop[q].pending
                            /\ Completed(q)' = Completed(q) /\ OnTheWay(q)' = OnTheWay(q)
  BY DEF GoesTo
<1>7. QED
  BY <1>1, <1>2, <1>4, <1>5, <1>6 DEF UserOnce, Carried, queueVars

\* The other parts of the invariant.
LEMMA GoesInv ==
  ASSUME Inv, NEW r \in Runs, Goes(r), replies' \in Nat, toolTurns' \in Nat,
         disturbed' \subseteq Disturbances, disturbed \subseteq disturbed'
  PROVE  Inv'
<1> USE DEF Inv
<1>1. PICK l, events, news : GoesTo(r, l, events, news)
  BY GoesShape
<1>2. /\ UNCHANGED <<agentVars, reader, aborted, runs, sent, forgotten>>
  BY <1>1 DEF GoesTo, Grows, Step
<1>3. /\ loop' \in [Runs -> Loops] /\ chan' \in [Runs -> Seq(Events)] /\ Streams' /\ LoopsFit'
  BY GoesShape
<1>4. TypeOK'
  <2>1. steeringQueue' \in Seq(Users) /\ followUpQueue' \in Seq(Users)
    BY <1>1, TakenLeft DEF GoesTo, Carries, DequeueSteering, DequeueFollowUps, queueVars, TypeOK
  <2>2. QED
    BY <1>2, <1>3, <2>1 DEF TypeOK, agentVars
<1>5. UsersOnce'
  BY <1>1, GoesUsers
<1>6. /\ \A q \in Runs : q # r => loop'[q] = loop[q] /\ chan'[q] = chan[q]
      /\ \A q \in Runs : Active(q)' => Active(q)
      /\ Active(r)
  BY <1>1 DEF GoesTo, Active
<1>7. Calm' => Calm
  BY DEF Calm
<1>8. Tracked'
  BY <1>2, <1>6, <1>7 DEF Tracked, agentVars
<1>9. FlagsFollowRun'
  BY <1>2, <1>6 DEF FlagsFollowRun, agentVars
<1>10. Follows'
  <2> SUFFICES ASSUME Calm', NEW q \in Runs, reader[q] = "reading"
               PROVE  \E old \in Seq(Messages) :
                        /\ Completed(q)' = (old \o messages) \o OnTheWay(q)'
                        /\ "reset" \notin disturbed' => old = <<>>
                        /\ \A m \in Msgs : In(m, old) => m \in forgotten
    BY <1>2 DEF Follows, agentVars
  <2>1. PICK old \in Seq(Messages) :
          /\ Completed(q) = (old \o messages) \o OnTheWay(q)
          /\ "reset" \notin disturbed => old = <<>>
          /\ \A m \in Msgs : In(m, old) => m \in forgotten
    BY <1>7 DEF Follows
  <2>2. Completed(q)' = (old \o messages) \o OnTheWay(q)'
    <3>1. CASE q = r
      <4>1. Completed(q)' = ((old \o messages) \o OnTheWay(q)) \o news /\ OnTheWay(q)' = OnTheWay(q) \o news
        BY <1>1, <2>1, <3>1 DEF GoesTo
      <4>2. news \in Seq(Messages) /\ OnTheWay(q) \in Seq(Messages) /\ messages \in Seq(Messages)
        BY <1>1, StateTyped DEF GoesTo, Grows
      <4>3. old \o messages \in Seq(Messages)
        BY <4>2, ConcatFacts
      <4>4. ((old \o messages) \o OnTheWay(q)) \o news = (old \o messages) \o (OnTheWay(q) \o news)
        BY <4>2, <4>3, ConcatMessages
      <4>5. QED
        BY <4>1, <4>4
    <3>2. CASE q # r
      BY <1>1, <2>1, <3>2 DEF GoesTo
    <3>3. QED
      BY <3>1, <3>2
  <2>3. QED
    BY <2>1, <2>2
<1>11. NoneLost'
  <2> SUFFICES ASSUME disturbed' \subseteq {"reset"}, NEW m \in sent \ forgotten
               PROVE  \/ In(m, steeringQueue') \/ In(m, followUpQueue') \/ In(m, Conversation')
                      \/ \E q \in Runs : In(m, loop'[q].pending)
    BY <1>2 DEF NoneLost
  <2>1. m \in Msgs /\ Carried(m, r, news)
    BY <1>1, GoesCarried DEF TypeOK
  <2>2. /\ r = runs /\ reader[r] = "reading" /\ runs > 0
    <3>1. Calm
      BY DEF Calm
    <3>2. QED
      BY <1>6, <3>1 DEF Tracked, Runs, TypeOK
  <2>3. Conversation = loop[r].ctx /\ Conversation' = loop'[r].ctx
    BY <1>2, <2>2 DEF Conversation
  <2>4. /\ In(m, Conversation) <=> In(m, Completed(r))
        /\ In(m, Conversation') <=> In(m, Completed(r)')
    <3>1. At(m, Completed(r)) = At(m, loop[r].ctx)
      BY <2>1, StateTyped
    <3>2. At(m, Completed(r)') = At(m, loop'[r].ctx)
      <4>1. loop'[r] \in Loops /\ LoopFits(loop'[r]) /\ Completed(r)' = Made(loop'[r])
        BY <1>3 DEF LoopsFit, Completed, Made
      <4>2. QED
        BY <2>1, <4>1, AtMade
    <3>3. QED
      BY <2>3, <3>1, <3>2 DEF In
  <2>5. In(m, Completed(r)') <=> In(m, Completed(r)) \/ In(m, news)
    <3>1. Completed(r)' = Completed(r) \o news /\ Completed(r) \in Seq(Messages) /\ news \in Seq(Messages)
      BY <1>1, StateTyped DEF GoesTo, Grows
    <3>2. QED
      BY <3>1, InConcat
  <2>6. \A q \in Runs : q # r => loop'[q].pending = loop[q].pending
    BY <1>6
  <2>7. \/ In(m, steeringQueue) \/ In(m, followUpQueue) \/ In(m, Conversation)
        \/ \E q \in Runs : In(m, loop[q].pending)
    BY DEF NoneLost
  <2>8. QED
    BY <2>1, <2>4, <2>5, <2>6, <2>7 DEF Carried, queueVars
<1>12. ToolsAnswered'
  <2>1. ASSUME Calm', NEW q \in Runs, reader[q] = "reading"
        PROVE  AllAnswered(Done(loop'[q]))
    <3>1. AllAnswered(Done(loop[q]))
      BY <1>7, <2>1 DEF ToolsAnswered
    <3>2. CASE q = r
      BY <1>1, <3>1, <3>2 DEF GoesTo, Grows
    <3>3. CASE q # r
      BY <1>6, <3>1, <3>3
    <3>4. QED
      BY <3>2, <3>3
  <2>2. Calm' /\ ~Reading' => AllAnswered(messages)
    BY <1>2, <1>7 DEF ToolsAnswered, Reading
  <2>3. QED
    BY <1>2, <2>1, <2>2 DEF ToolsAnswered, agentVars
<1>13. QED
  BY <1>3, <1>4, <1>5, <1>8, <1>9, <1>10, <1>11, <1>12

-----------------------------------------------------------------------------
(* A step of a reader keeps the invariant.                                 *)

\* The fields of an event.
LEMMA EventTyped ==
  ASSUME NEW e \in Events
  PROVE  /\ e.type \in {"message_start", "message_end"} => e.message \in Messages
         /\ e.type \in {"tool_execution_start", "tool_execution_end"} => e.call \in Calls
BY DEF Events

\* What an event records, and what is under way behind it.
LEMMA RecordedShape ==
  ASSUME TypeOK, Streams, NEW r \in Runs, chan[r] # <<>>
  PROVE  /\ Head(chan[r]) \in Events /\ Tail(chan[r]) \in Seq(Events) /\ Regular(Tail(chan[r]))
         /\ \E got \in Seq(Messages) :
              /\ Recorded(Head(chan[r])) = messages \o got
              /\ OnTheWay(r) = got \o Ended(Tail(chan[r]))
         /\ Ended(Tail(chan[r])) \in Seq(Messages)
<1> DEFINE e == Head(chan[r])
           rest == Tail(chan[r])
<1>1. /\ chan[r] \in Seq(Events) /\ Regular(chan[r]) /\ messages \in Seq(Messages)
  BY DEF TypeOK, Streams
<1>2. e \in Events /\ rest \in Seq(Events)
  BY <1>1, HeadTailProperties
<1>3. /\ Regular(rest)
      /\ e.type = "message_end" => OnTheWay(r) = <<e.message>> \o Ended(rest)
      /\ e.type # "message_end" => OnTheWay(r) = Ended(rest)
  BY <1>1, EndedTail DEF OnTheWay
<1>4. Ended(rest) \in Seq(Messages)
  BY <1>2, <1>3, EndedTyped
<1> HIDE DEF e, rest
<1>5. CASE e.type = "message_end"
  <2>1. e.message \in Messages
    BY <1>2, <1>5, EventTyped
  <2>2. Recorded(e) = messages \o <<e.message>>
    BY <1>1, <1>5, <2>1, AppendIsConcat DEF Recorded
  <2>3. <<e.message>> \in Seq(Messages)
    BY <2>1
  <2>4. QED
    BY <1>2, <1>3, <1>4, <1>5, <2>2, <2>3 DEF e, rest
<1>6. CASE e.type # "message_end"
  <2>1. Recorded(e) = messages \o <<>>
    BY <1>1, <1>6, ConcatEmptySeq DEF Recorded
  <2>2. OnTheWay(r) = <<>> \o Ended(rest)
    BY <1>3, <1>4, <1>6, ConcatEmptySeq
  <2>3. <<>> \in Seq(Messages)
    OBVIOUS
  <2>4. QED
    BY <1>2, <1>3, <1>4, <2>1, <2>2, <2>3 DEF e, rest
<1>7. QED
  BY <1>5, <1>6

\* A listener's event keeps the invariant: what was on its way is recorded.
LEMMA ReadEventInv ==
  ASSUME Inv, NEW r \in Runs, ReadEvent(r), UNCHANGED disturbed
  PROVE  Inv'
<1> USE DEF Inv
<1> DEFINE e == Head(chan[r])
           rest == Tail(chan[r])
<1>1. /\ reader[r] = "reading" /\ chan[r] # <<>>
      /\ chan' = [chan EXCEPT ![r] = rest]
      /\ isStreaming' = (isStreaming /\ e.type # "agent_end")
      /\ streamMessage' = Shown(e) /\ messages' = Recorded(e) /\ pendingToolCalls' = CallsAfter(e)
      /\ UNCHANGED <<controller, runningPrompt, settled, steeringQueue, followUpQueue, loop, reader, aborted,
                     runs, replies, toolTurns, sent, forgotten>>
  BY DEF ReadEvent, queueVars, countVars
<1>2. PICK got \in Seq(Messages) : messages' = messages \o got /\ OnTheWay(r) = got \o Ended(rest)
  BY <1>1, RecordedShape
<1>3. e \in Events /\ rest \in Seq(Events) /\ Regular(rest) /\ Ended(rest) \in Seq(Messages)
  BY <1>1, RecordedShape
<1>4. /\ chan'[r] = rest /\ \A q \in Runs : q # r => chan'[q] = chan[q]
      /\ chan' \in [Runs -> Seq(Events)]
  BY <1>1, <1>3 DEF TypeOK
<1>5. /\ OnTheWay(r)' = Ended(rest) /\ \A q \in Runs : q # r => OnTheWay(q)' = OnTheWay(q)
      /\ \A q \in Runs : Completed(q)' = Completed(q)
  BY <1>1, <1>4 DEF OnTheWay, Completed
<1>6. messages \in Seq(Messages) /\ messages' \in Seq(Messages)
  BY <1>2, ConcatFacts DEF TypeOK
<1>7. /\ e = chan[r][1] /\ 1 \in DOMAIN chan[r] /\ Len(rest) = Len(chan[r]) - 1 /\ Len(chan[r]) \in Nat
      /\ DOMAIN chan[r] = 1..Len(chan[r]) /\ DOMAIN rest = 1..Len(rest)
      /\ \A i \in 1..Len(rest) : rest[i] = chan[r][i + 1]
  <2>1. chan[r] \in Seq(Events)
    BY DEF TypeOK
  <2>2. QED
    BY <1>1, <1>3, <2>1, HeadTailProperties, LenProperties, EmptySeq
<1> HIDE DEF e, rest
<1>8. TypeOK'
  <2>1. streamMessage' \in Messages \union {Nil} /\ pendingToolCalls' \subseteq Calls
    BY <1>1, <1>3, EventTyped DEF Shown, CallsAfter, TypeOK
  <2>2. QED
    BY <1>1, <1>4, <1>6, <2>1 DEF TypeOK
<1>9. Streams'
  <2>1. \A i \in DOMAIN rest : rest[i].type = "agent_end" => i = Len(rest) /\ loop[r].pc = "ended"
    <3> SUFFICES ASSUME NEW i \in 1..Len(rest), rest[i].type = "agent_end"
                 PROVE  i = Len(rest) /\ loop[r].pc = "ended"
      BY <1>7
    <3>1. i + 1 \in DOMAIN chan[r] /\ chan[r][i + 1].type = "agent_end"
      BY <1>7
    <3>2. i + 1 = Len(chan[r]) /\ loop[r].pc = "ended"
      BY <3>1 DEF Streams
    <3>3. QED
      BY <1>7, <3>2
  <2>2. ASSUME NEW q \in Runs
        PROVE  /\ loop[q].pc = "none" <=> q > runs
               /\ reader[q] = "none" <=> q > runs
               /\ q > runs => loop[q] = NoLoop
               /\ reader[q] # "reading" => chan'[q] = <<>>
               /\ Regular(chan'[q])
               /\ \A i \in DOMAIN chan'[q] :
                    chan'[q][i].type = "agent_end" => i = Len(chan'[q]) /\ loop[q].pc = "ended"
    <3>1. CASE q = r
      BY <1>1, <1>3, <1>4, <2>1, <3>1 DEF Streams
    <3>2. CASE q # r
      BY <1>4, <3>2 DEF Streams
    <3>3. QED
      BY <3>1, <3>2
  <2>3. QED
    BY <1>1, <2>2 DEF Streams
<1>10. LoopsFit'
  BY <1>1 DEF LoopsFit
<1>11. Tracked'
  BY <1>1 DEF Tracked, Calm, Active
<1>12. FlagsFollowRun'
  <2> SUFFICES ASSUME disturbed \subseteq {"reject"}, NEW q \in Runs, reader[q] = "reading",
                      Active(q) \/ chan'[q] # <<>>
               PROVE  isStreaming' /\ controller = q /\ runningPrompt = q
    BY <1>1 DEF FlagsFollowRun, Active
  <2>1. q = runs /\ r = runs
    BY <1>1 DEF Tracked, Calm
  <2>2. isStreaming /\ controller = q /\ runningPrompt = q
    BY <1>1, <2>1 DEF FlagsFollowRun
  <2>3. e.type # "agent_end"
    <3> SUFFICES ASSUME e.type = "agent_end"
                 PROVE  FALSE
      OBVIOUS
    <3>1. 1 = Len(chan[r]) /\ loop[r].pc = "ended"
      BY <1>7 DEF Streams
    <3>2. rest = <<>>
      BY <1>3, <1>7, <3>1, EmptySeq, LenProperties
    <3>3. QED
      BY <1>4, <2>1, <3>1, <3>2 DEF Active
  <2>4. QED
    BY <1>1, <2>2, <2>3
<1>13. Follows'
  <2> SUFFICES ASSUME Calm, NEW q \in Runs, reader[q] = "reading"
               PROVE  \E old \in Seq(Messages) :
                        /\ Completed(q)' = (old \o messages') \o OnTheWay(q)'
                        /\ "reset" \notin disturbed => old = <<>>
                        /\ \A m \in Msgs : In(m, old) => m \in forgotten
    BY <1>1 DEF Follows, Calm
  <2>1. q = r
    BY <1>1 DEF Tracked
  <2>2. PICK old \in Seq(Messages) :
          /\ Completed(r) = (old \o messages) \o OnTheWay(r)
          /\ "reset" \notin disturbed => old = <<>>
          /\ \A m \in Msgs : In(m, old) => m \in forgotten
    BY <1>1 DEF Follows
  <2>3. Completed(r)' = (old \o messages') \o OnTheWay(r)'
    <3> DEFINE way == Ended(rest)
    <3>1. way \in Seq(Messages) /\ old \o messages \in Seq(Messages)
      BY <1>3, <1>6, ConcatFacts
    <3> HIDE DEF way
    <3>2. (old \o messages) \o (got \o way) = ((old \o messages) \o got) \o way
      BY <3>1, ConcatMessages
    <3>3. (old \o messages) \o got = old \o (messages \o got)
      BY <1>6, ConcatMessages
    <3>4. QED
      BY <1>2, <1>5, <2>2, <3>2, <3>3 DEF way
  <2>4. QED
    BY <2>1, <2>2, <2>3
<1>14. UsersOnce'
  <2> SUFFICES ASSUME NEW m \in Msgs
               PROVE  UserOnce(m)'
    BY DEF UsersOnce
  <2>1. UserOnce(m)
    BY DEF UsersOnce
  <2>2. /\ In(m, messages') <=> In(m, messages) \/ In(m, got)
        /\ Once(m, messages') <=> Once(m, messages) /\ Once(m, got) /\ ~(In(m, messages) /\ In(m, got))
    BY <1>2, <1>6, InConcat
  <2>3. /\ In(m, OnTheWay(r)) <=> In(m, got) \/ In(m, OnTheWay(r)')
        /\ Once(m, OnTheWay(r)) <=> Once(m, got) /\ Once(m, OnTheWay(r)') /\ ~(In(m, got) /\ In(m, OnTheWay(r)'))
    BY <1>2, <1>3, <1>5, InConcat
  <2>4. QED
    BY <1>1, <1>5, <2>1, <2>2, <2>3 DEF UserOnce
<1>15. NoneLost'
  <2> SUFFICES ASSUME disturbed \subseteq {"reset"}, NEW m \in sent \ forgotten
               PROVE  \/ In(m, steeringQueue) \/ In(m, followUpQueue) \/ In(m, Conversation')
                      \/ \E q \in Runs : In(m, loop[q].pending)
    BY <1>1 DEF NoneLost
  <2>1. r = runs /\ runs > 0
    BY <1>1 DEF Tracked, Calm, Runs, TypeOK
  <2>2. Conversation' = Conversation
    BY <1>1, <2>1 DEF Conversation
  <2>3. QED
    BY <2>2 DEF NoneLost
<1>16. ToolsAnswered'
  <2>1. Reading
    BY <1>1 DEF Reading
  <2>2. Reading'
    BY <1>1, <2>1 DEF Reading
  <2>3. QED
    BY <1>1, <2>2 DEF ToolsAnswered, Calm
<1>17. QED
  BY <1>8, <1>9, <1>10, <1>11, <1>12, <1>13, <1>14, <1>15, <1>16

\* A run that settles keeps the invariant: everything its loop told was read.
LEMMA RunSettlesInv ==
  ASSUME Inv, NEW r \in Runs, RunSettles(r), UNCHANGED disturbed
  PROVE  Inv'
<1> USE DEF Inv
<1>1. /\ reader[r] = "reading" /\ chan[r] = <<>> /\ loop[r].pc = "ended"
      /\ reader' = [reader EXCEPT ![r] = "settled"]
      /\ isStreaming' = FALSE /\ streamMessage' = Nil /\ pendingToolCalls' = {}
      /\ controller' = 0 /\ settled' = settled \union ({runningPrompt} \ {0}) /\ runningPrompt' = 0
      /\ UNCHANGED <<messages, steeringQueue, followUpQueue, loop, chan, aborted, runs, replies, toolTurns,
                     sent, forgotten>>
  BY DEF RunSettles, Finally, queueVars, countVars
<1>2. /\ reader'[r] = "settled" /\ \A q \in Runs : q # r => reader'[q] = reader[q]
      /\ reader' \in [Runs -> {"none", "reading", "settled"}]
  BY <1>1 DEF TypeOK
<1>3. \A q \in Runs : Completed(q)' = Completed(q) /\ OnTheWay(q)' = OnTheWay(q)
  BY <1>1 DEF OnTheWay, Completed
<1>4. TypeOK'
  <2>1. 0 \in 0..MaxRuns /\ settled \subseteq Runs /\ runningPrompt \in 0..MaxRuns
    BY AgentAssumption DEF TypeOK
  <2>2. settled' \subseteq Runs
    <3>1. runningPrompt # 0 => runningPrompt \in Runs
      BY <2>1, AgentAssumption DEF Runs
    <3>2. QED
      BY <1>1, <2>1, <3>1
  <2>3. QED
    BY <1>1, <1>2, <2>1, <2>2 DEF TypeOK
<1>5. Streams'
  <2>1. ASSUME NEW q \in Runs
        PROVE  /\ loop[q].pc = "none" <=> q > runs
               /\ reader'[q] = "none" <=> q > runs
               /\ q > runs => loop[q] = NoLoop
               /\ reader'[q] # "reading" => chan[q] = <<>>
               /\ Regular(chan[q])
               /\ \A i \in DOMAIN chan[q] :
                    chan[q][i].type = "agent_end" => i = Len(chan[q]) /\ loop[q].pc = "ended"
    <3>1. CASE q = r
      BY <1>1, <1>2, <3>1 DEF Streams
    <3>2. CASE q # r
      BY <1>2, <3>2 DEF Streams
    <3>3. QED
      BY <3>1, <3>2
  <2>2. QED
    BY <1>1, <2>1 DEF Streams
<1>6. LoopsFit'
  BY <1>1 DEF LoopsFit
<1>7. Calm => \A q \in Runs : reader'[q] # "reading" /\ ~Active(q)
  BY <1>1, <1>2 DEF Tracked, Active
<1>8. Calm => r = runs /\ runningPrompt = r
  BY <1>1 DEF Tracked
<1>9. Tracked'
  BY <1>1, <1>2, <1>7, <1>8 DEF Tracked, Calm, Active
<1>10. disturbed \subseteq {"reject"} \/ disturbed \subseteq {"reset"} => Calm
  BY DEF Calm
<1>11. FlagsFollowRun'
  BY <1>1, <1>7, <1>10 DEF FlagsFollowRun, Active
<1>12. Follows'
  BY <1>1, <1>7 DEF Follows, Calm
<1>13. UsersOnce'
  BY <1>1, <1>3 DEF UsersOnce, UserOnce
<1>14. Calm => \E old \in Seq(Messages) :
                 /\ loop[r].ctx = old \o messages
                 /\ \A m \in Msgs : In(m, old) => m \in forgotten
  <2> SUFFICES ASSUME Calm
               PROVE  \E old \in Seq(Messages) :
                        /\ loop[r].ctx = old \o messages
                        /\ \A m \in Msgs : In(m, old) => m \in forgotten
    OBVIOUS
  <2>1. PICK old \in Seq(Messages) :
          /\ Completed(r) = (old \o messages) \o OnTheWay(r)
          /\ \A m \in Msgs : In(m, old) => m \in forgotten
    BY <1>1 DEF Follows
  <2>2. OnTheWay(r) = <<>>
    BY <1>1, NothingEnded DEF OnTheWay
  <2>3. old \o messages \in Seq(Messages)
    BY StateTyped, ConcatFacts
  <2>4. (old \o messages) \o <<>> = old \o messages
    BY <2>3, ConcatEmptySeq
  <2>5. loop[r].ctx \in Seq(Messages) /\ loop[r].results = <<>>
    BY <1>1, LoopTyped DEF LoopsFit, LoopFits
  <2>6. Completed(r) = loop[r].ctx \o <<>> /\ loop[r].ctx \o <<>> = loop[r].ctx
    BY <1>1, <2>5, ConcatEmptySeq DEF Completed
  <2>7. QED
    BY <2>1, <2>2, <2>4, <2>6
<1>15. NoneLost'
  <2> SUFFICES ASSUME disturbed \subseteq {"reset"}, NEW m \in sent \ forgotten
               PROVE  \/ In(m, steeringQueue) \/ In(m, followUpQueue) \/ In(m, Conversation')
                      \/ \E q \in Runs : In(m, loop[q].pending)
    BY <1>1 DEF NoneLost
  <2>1. r = runs /\ runs > 0 /\ m \in Msgs
    BY <1>8, <1>10 DEF Runs, TypeOK
  <2>2. Conversation = loop[r].ctx /\ Conversation' = messages
    BY <1>1, <1>2, <2>1 DEF Conversation
  <2>3. In(m, Conversation) => In(m, Conversation')
    <3>1. PICK old \in Seq(Messages) : loop[r].ctx = old \o messages /\ (In(m, old) => m \in forgotten)
      BY <1>10, <1>14, <2>1
    <3>2. In(m, old \o messages) <=> In(m, old) \/ In(m, messages)
      BY StateTyped, InConcat
    <3>3. QED
      BY <2>2, <3>1, <3>2
  <2>4. QED
    BY <2>3 DEF NoneLost
<1>16. ToolsAnswered'
  <2> SUFFICES ASSUME Calm
               PROVE  AllAnswered(messages)
    BY <1>1, <1>7 DEF ToolsAnswered, Calm
  <2>1. PICK old \in Seq(Messages) : loop[r].ctx = old \o messages
    BY <1>14
  <2>2. AllAnswered(loop[r].ctx)
    BY <1>1 DEF ToolsAnswered, Done
  <2>3. QED
    BY <2>1, <2>2, StateTyped, AnsweredSuffix
<1>17. QED
  BY <1>4, <1>5, <1>6, <1>9, <1>11, <1>12, <1>13, <1>15, <1>16

\* A listener that throws keeps the invariant, which promises less from then on.
LEMMA ListenerThrowsInv ==
  ASSUME Inv, NEW r \in Runs, ListenerThrows(r)
  PROVE  Inv'
<1> USE DEF Inv
<1> DEFINE cause == IF controller # 0 /\ aborted[controller] THEN "aborted" ELSE "error"
           error == Assistant(0, 0, cause)
<1>1. /\ reader[r] = "reading" /\ chan[r] # <<>>
      /\ "throw" \in disturbed' /\ disturbed' \subseteq Disturbances
      /\ chan' = [chan EXCEPT ![r] = <<>>]
      /\ messages' = Append(Recorded(Head(chan[r])), error)
      /\ reader' = [reader EXCEPT ![r] = "settled"]
      /\ isStreaming' = FALSE /\ streamMessage' = Nil /\ pendingToolCalls' = {}
      /\ controller' = 0 /\ settled' = settled \union ({runningPrompt} \ {0}) /\ runningPrompt' = 0
      /\ UNCHANGED <<steeringQueue, followUpQueue, loop, aborted, runs, replies, toolTurns, sent, forgotten>>
  BY DEF ListenerThrows, Finally, May, queueVars, countVars, TypeOK
<1>2. error \in Messages /\ error.role # "user"
  BY AgentAssumption DEF Assistant, Assistants, Messages
<1>3. /\ chan'[r] = <<>> /\ \A q \in Runs : q # r => chan'[q] = chan[q]
      /\ chan' \in [Runs -> Seq(Events)]
      /\ reader'[r] = "settled" /\ \A q \in Runs : q # r => reader'[q] = reader[q]
      /\ reader' \in [Runs -> {"none", "reading", "settled"}]
  BY <1>1, NothingEnded DEF TypeOK
<1>4. /\ OnTheWay(r)' = <<>> /\ \A q \in Runs : q # r => OnTheWay(q)' = OnTheWay(q)
      /\ \A q \in Runs : Completed(q)' = Completed(q)
  BY <1>1, <1>3, NothingEnded DEF OnTheWay, Completed
<1>5. PICK got \in Seq(Messages) :
        Recorded(Head(chan[r])) = messages \o got /\ OnTheWay(r) = got \o Ended(Tail(chan[r]))
  BY <1>1, RecordedShape
<1>6. Ended(Tail(chan[r])) \in Seq(Messages)
  BY <1>1, RecordedShape
<1> HIDE DEF error
<1> DEFINE shown == messages \o got
<1>7. /\ shown \in Seq(Messages) /\ messages' = shown \o <<error>> /\ messages' \in Seq(Messages)
      /\ <<error>> \in Seq(Messages)
  <2>1. shown \in Seq(Messages) /\ <<error>> \in Seq(Messages)
    BY <1>2, StateTyped, ConcatFacts
  <2> HIDE DEF shown
  <2>2. messages' = Append(shown, error)
    BY <1>1, <1>5 DEF shown
  <2>3. QED
    BY <1>2, <2>1, <2>2, AppendProperties, AppendIsConcat
<1>8. TypeOK'
  <2>1. 0 \in 0..MaxRuns /\ settled \subseteq Runs /\ runningPrompt \in 0..MaxRuns
    BY AgentAssumption DEF TypeOK
  <2>2. settled' \subseteq Runs
    <3>1. runningPrompt # 0 => runningPrompt \in Runs
      BY <2>1, AgentAssumption DEF Runs
    <3>2. QED
      BY <1>1, <2>1, <3>1
  <2>3. /\ isStreaming' \in BOOLEAN /\ streamMessage' \in Messages \union {Nil} /\ pendingToolCalls' \subseteq Calls
        /\ steeringQueue' \in Seq(Users) /\ followUpQueue' \in Seq(Users) /\ loop' \in [Runs -> Loops]
        /\ aborted' \in [Runs -> BOOLEAN] /\ runs' \in 0..MaxRuns /\ replies' \in Nat /\ toolTurns' \in Nat
        /\ sent' \subseteq Msgs /\ forgotten' \subseteq sent'
    BY <1>1 DEF TypeOK
  <2> HIDE DEF Inv
  <2>4. QED
    BY <1>1, <1>3, <1>7, <2>1, <2>2, <2>3 DEF TypeOK
<1>9. Streams'
  <2>1. ASSUME NEW q \in Runs
        PROVE  /\ loop[q].pc = "none" <=> q > runs
               /\ reader'[q] = "none" <=> q > runs
               /\ q > runs => loop[q] = NoLoop
               /\ reader'[q] # "reading" => chan'[q] = <<>>
               /\ Regular(chan'[q])
               /\ \A i \in DOMAIN chan'[q] :
                    chan'[q][i].type = "agent_end" => i = Len(chan'[q]) /\ loop[q].pc = "ended"
    <3>1. CASE q = r
      BY <1>1, <1>3, <3>1, NothingEnded DEF Streams
    <3>2. CASE q # r
      <4>1. chan'[q] = chan[q] /\ reader'[q] = reader[q]
        BY <1>3, <3>2
      <4>2. QED
        BY <4>1 DEF Streams
    <3>3. QED
      BY <3>1, <3>2
  <2>2. QED
    BY <1>1, <2>1 DEF Streams
<1>10. LoopsFit'
  BY <1>1 DEF LoopsFit
<1>11. ~Calm' /\ ~(disturbed' \subseteq {"reject"}) /\ ~(disturbed' \subseteq {"reset"})
  BY <1>1 DEF Calm
<1>12. Tracked' /\ FlagsFollowRun' /\ Follows' /\ NoneLost' /\ ToolsAnswered'
  BY <1>11 DEF Tracked, FlagsFollowRun, Follows, NoneLost, ToolsAnswered
<1>13. UsersOnce'
  <2> SUFFICES ASSUME NEW m \in Msgs
               PROVE  UserOnce(m)'
    BY DEF UsersOnce
  <2>1. UserOnce(m)
    BY DEF UsersOnce
  <2>2. /\ In(m, shown) <=> In(m, messages) \/ In(m, got)
        /\ Once(m, shown) <=> Once(m, messages) /\ Once(m, got) /\ ~(In(m, messages) /\ In(m, got))
    BY StateTyped, InConcat
  <2>3. ~In(m, <<error>>) /\ Once(m, <<error>>)
    BY <1>2, InSmall, MessageKinds
  <2> HIDE DEF shown
  <2>4. (In(m, messages') <=> In(m, shown)) /\ (Once(m, messages') <=> Once(m, shown))
    BY <1>7, <2>3, InConcat
  <2>5. /\ In(m, OnTheWay(r)) <=> In(m, got) \/ In(m, Ended(Tail(chan[r])))
        /\ Once(m, OnTheWay(r)) => Once(m, got)
    BY <1>5, <1>6, InConcat
  <2>6. ~In(m, OnTheWay(r)') /\ Once(m, OnTheWay(r)')
    BY <1>4, InSmall
  <2>7. QED
    BY <1>1, <1>4, <2>1, <2>2, <2>4, <2>5, <2>6 DEF UserOnce
<1>14. QED
  BY <1>8, <1>9, <1>10, <1>12, <1>13

-----------------------------------------------------------------------------
(* The calls keep the invariant.                                           *)

\* Steer and FollowUp: a new message waits in a queue.
LEMMA QueuedInv ==
  ASSUME Inv, NEW m \in Msgs, Steer(m) \/ FollowUp(m)
  PROVE  Inv'
<1> USE DEF Inv
<1>1. /\ m \notin sent /\ sent' = sent \union {m}
      /\ UNCHANGED <<agentVars, loop, chan, reader, aborted, runs, replies, toolTurns, forgotten, disturbed>>
      /\ \/ steeringQueue' = Append(steeringQueue, User(m)) /\ UNCHANGED followUpQueue
         \/ followUpQueue' = Append(followUpQueue, User(m)) /\ UNCHANGED steeringQueue
  BY DEF Steer, FollowUp
<1>2. User(m) \in Users /\ steeringQueue \in Seq(Users) /\ followUpQueue \in Seq(Users)
  BY MessageKinds DEF TypeOK
<1>3. \A q \in Seq(Users) :
        /\ Append(q, User(m)) \in Seq(Users)
        /\ \A k \in Msgs : /\ In(k, Append(q, User(m))) <=> In(k, q) \/ k = m
                           /\ ~In(m, q) => (Once(k, Append(q, User(m))) <=> Once(k, q))
  <2> SUFFICES ASSUME NEW q \in Seq(Users)
               PROVE  /\ Append(q, User(m)) \in Seq(Users)
                      /\ \A k \in Msgs : /\ In(k, Append(q, User(m))) <=> In(k, q) \/ k = m
                                         /\ ~In(m, q) => (Once(k, Append(q, User(m))) <=> Once(k, q))
    OBVIOUS
  <2>1. Append(q, User(m)) = q \o <<User(m)>> /\ Append(q, User(m)) \in Seq(Users)
    BY <1>2, AppendProperties, AppendIsConcat
  <2>2. <<User(m)>> \in Seq(Messages) /\ q \in Seq(Messages) /\ User(m) \in Messages
    BY <1>2, KindsOfSeq, MessageKinds
  <2>3. ASSUME NEW k \in Msgs
        PROVE  /\ In(k, Append(q, User(m))) <=> In(k, q) \/ k = m
               /\ ~In(m, q) => (Once(k, Append(q, User(m))) <=> Once(k, q))
    <3>1. /\ In(k, q \o <<User(m)>>) <=> In(k, q) \/ In(k, <<User(m)>>)
          /\ Once(k, q \o <<User(m)>>) <=> Once(k, q) /\ Once(k, <<User(m)>>) /\ ~(In(k, q) /\ In(k, <<User(m)>>))
      BY <2>2, InConcat
    <3>2. (In(k, <<User(m)>>) <=> k = m) /\ Once(k, <<User(m)>>)
      BY <2>2, InSmall, MessageKinds
    <3>3. QED
      BY <2>1, <3>1, <3>2
  <2>4. QED
    BY <2>1, <2>3
<1>4. TypeOK'
  BY <1>1, <1>2, <1>3 DEF TypeOK, agentVars
<1>5. \A r \in Runs : Completed(r)' = Completed(r) /\ OnTheWay(r)' = OnTheWay(r)
  BY <1>1 DEF Completed, OnTheWay
<1>6. Streams' /\ LoopsFit' /\ Tracked' /\ FlagsFollowRun' /\ ToolsAnswered'
  BY <1>1 DEF Streams, LoopsFit, Tracked, FlagsFollowRun, ToolsAnswered, Calm, Active, Reading, agentVars
<1>7. Follows'
  BY <1>1, <1>5 DEF Follows, Calm, agentVars
<1>8. UsersOnce'
  <2> SUFFICES ASSUME NEW k \in Msgs
               PROVE  UserOnce(k)'
    BY DEF UsersOnce
  <2>1. UserOnce(k) /\ UserOnce(m)
    BY DEF UsersOnce
  <2>2. /\ In(k, steeringQueue') \/ In(k, followUpQueue') <=>
             In(k, steeringQueue) \/ In(k, followUpQueue) \/ k = m
        /\ Once(k, steeringQueue') /\ Once(k, followUpQueue')
        /\ ~(In(k, steeringQueue') /\ In(k, followUpQueue'))
    <3>1. /\ ~In(m, steeringQueue) /\ ~In(m, followUpQueue)
          /\ Once(k, steeringQueue) /\ Once(k, followUpQueue) /\ ~(In(k, steeringQueue) /\ In(k, followUpQueue))
      BY <1>1, <2>1 DEF UserOnce
    <3>2. CASE steeringQueue' = Append(steeringQueue, User(m)) /\ UNCHANGED followUpQueue
      BY <1>2, <1>3, <3>1, <3>2
    <3>3. CASE followUpQueue' = Append(followUpQueue, User(m)) /\ UNCHANGED steeringQueue
      BY <1>2, <1>3, <3>1, <3>3
    <3>4. QED
      BY <1>1, <3>2, <3>3
  <2>3. UNCHANGED <<messages, loop>>
    BY <1>1 DEF agentVars
  <2>4. QED
    BY <1>1, <1>5, <2>1, <2>2, <2>3 DEF UserOnce
<1>9. NoneLost'
  <2> SUFFICES ASSUME disturbed \subseteq {"reset"}, NEW k \in (sent \union {m}) \ forgotten
               PROVE  \/ In(k, steeringQueue') \/ In(k, followUpQueue') \/ In(k, Conversation')
                      \/ \E r \in Runs : In(k, loop'[r].pending)
    BY <1>1 DEF NoneLost
  <2>1. k \in Msgs
    BY DEF TypeOK
  <2>2. /\ In(k, steeringQueue) => In(k, steeringQueue')
        /\ In(k, followUpQueue) => In(k, followUpQueue')
        /\ k = m => In(k, steeringQueue') \/ In(k, followUpQueue')
    BY <1>1, <1>2, <1>3, <2>1
  <2>3. UNCHANGED <<Conversation, loop>>
    BY <1>1 DEF Conversation, agentVars
  <2>4. QED
    BY <2>2, <2>3 DEF NoneLost
<1>10. QED
  BY <1>4, <1>6, <1>7, <1>8, <1>9

\* Abort changes signals only.
LEMMA AbortInv ==
  ASSUME Inv, Abort
  PROVE  Inv'
<1> USE DEF Inv
<1>1. /\ aborted' = [aborted EXCEPT ![controller] = TRUE]
      /\ UNCHANGED <<agentVars, steeringQueue, followUpQueue, loop, chan, reader, runs, replies, toolTurns,
                     sent, forgotten, disturbed>>
  BY DEF Abort, queueVars, countVars
<1>2. TypeOK'
  BY <1>1 DEF TypeOK, agentVars
<1>3. \A r \in Runs : Completed(r)' = Completed(r) /\ OnTheWay(r)' = OnTheWay(r)
  BY <1>1 DEF Completed, OnTheWay
<1>4. Streams' /\ LoopsFit' /\ Tracked' /\ FlagsFollowRun' /\ ToolsAnswered'
  BY <1>1 DEF Streams, LoopsFit, Tracked, FlagsFollowRun, ToolsAnswered, Calm, Active, Reading, agentVars
<1>5. Follows'
  BY <1>1, <1>3 DEF Follows, Calm, agentVars
<1>6. UNCHANGED <<Conversation, messages>>
  BY <1>1 DEF Conversation, agentVars
<1>7. UsersOnce'
  BY <1>1, <1>3, <1>6 DEF UsersOnce, UserOnce
<1>8. NoneLost'
  BY <1>1, <1>6 DEF NoneLost
<1>9. QED
  BY <1>2, <1>4, <1>5, <1>7, <1>8

\* reset() throws away what the agent has and its queues, not what the loop has.
LEMMA ResetInv ==
  ASSUME Inv, Reset
  PROVE  Inv'
<1> USE DEF Inv
<1> DEFINE busy == Reading \/ \E r \in Runs : Active(r)
<1>1. /\ messages' = <<>> /\ isStreaming' = FALSE /\ streamMessage' = Nil /\ pendingToolCalls' = {}
      /\ steeringQueue' = <<>> /\ followUpQueue' = <<>> /\ forgotten' = sent
      /\ busy => "reset" \in disturbed'
      /\ disturbed \subseteq disturbed' /\ disturbed' \subseteq Disturbances
      /\ UNCHANGED <<controller, runningPrompt, settled, loop, chan, reader, aborted, runs, replies, toolTurns, sent>>
  BY DEF Reset, May, TypeOK
<1>2. TypeOK'
  <2>1. <<>> \in Seq(Users) /\ <<>> \in Seq(Messages) /\ FALSE \in BOOLEAN
    OBVIOUS
  <2>2. messages' \in Seq(Messages) /\ steeringQueue' \in Seq(Users) /\ followUpQueue' \in Seq(Users)
    BY <1>1, <2>1
  <2>3. forgotten' \subseteq sent' /\ streamMessage' \in Messages \union {Nil} /\ pendingToolCalls' \subseteq Calls
    BY <1>1
  <2>4. QED
    BY <1>1, <2>1, <2>2, <2>3 DEF TypeOK
<1>3. \A r \in Runs : Completed(r)' = Completed(r) /\ OnTheWay(r)' = OnTheWay(r)
  BY <1>1 DEF Completed, OnTheWay
<1>4. Calm' => Calm
  BY <1>1 DEF Calm
<1>5. Streams' /\ LoopsFit'
  BY <1>1 DEF Streams, LoopsFit
<1>6. Tracked'
  BY <1>1, <1>4 DEF Tracked, Active
<1>7. FlagsFollowRun'
  BY <1>1 DEF FlagsFollowRun, Reading
<1>8. ToolsAnswered'
  <2>1. AllAnswered(<<>>)
    BY DEF AllAnswered
  <2>2. QED
    BY <1>1, <1>4, <2>1 DEF ToolsAnswered, Reading
<1>9. Follows'
  <2> SUFFICES ASSUME Calm', NEW r \in Runs, reader[r] = "reading"
               PROVE  \E old \in Seq(Messages) :
                        /\ Completed(r) = (old \o <<>>) \o OnTheWay(r)
                        /\ "reset" \notin disturbed' => old = <<>>
                        /\ \A m \in Msgs : In(m, old) => m \in sent
    BY <1>1, <1>3 DEF Follows
  <2>1. PICK old \in Seq(Messages) :
          /\ Completed(r) = (old \o messages) \o OnTheWay(r)
          /\ \A m \in Msgs : In(m, old) => m \in forgotten
    BY <1>4 DEF Follows
  <2> DEFINE all == old \o messages
  <2>2. all \in Seq(Messages)
    BY StateTyped, ConcatFacts
  <2>3. \A m \in Msgs : In(m, all) <=> In(m, old) \/ In(m, messages)
    BY StateTyped, InConcat
  <2>4. \A m \in Msgs : In(m, messages) => m \in sent
    BY DEF UsersOnce, UserOnce
  <2>5. \A m \in Msgs : In(m, all) => m \in sent
    BY <2>1, <2>3, <2>4 DEF TypeOK
  <2> HIDE DEF all
  <2>6. all \o <<>> = all
    BY <2>2, ConcatEmptySeq
  <2>7. "reset" \in disturbed'
    BY <1>1 DEF Reading
  <2>8. Completed(r) = (all \o <<>>) \o OnTheWay(r)
    BY <2>1, <2>6 DEF all
  <2>9. QED
    BY <2>2, <2>5, <2>7, <2>8
<1>10. UsersOnce'
  <2> SUFFICES ASSUME NEW m \in Msgs
               PROVE  UserOnce(m)'
    BY DEF UsersOnce
  <2>1. UserOnce(m) /\ ~In(m, <<>>) /\ Once(m, <<>>)
    BY InSmall DEF UsersOnce
  <2>2. ~In(m, messages') /\ ~In(m, steeringQueue') /\ ~In(m, followUpQueue')
        /\ Once(m, messages') /\ Once(m, steeringQueue') /\ Once(m, followUpQueue')
    BY <1>1, <2>1
  <2>3. QED
    BY <1>1, <1>3, <2>1, <2>2 DEF UserOnce
<1>11. NoneLost'
  BY <1>1 DEF NoneLost
<1>12. QED
  BY <1>2, <1>5, <1>6, <1>7, <1>8, <1>9, <1>10, <1>11

\* What the start of a run does with a message of a caller: it becomes a prompt, is
\* taken to be injected, or waits on.
Handed(m, prompts, polled) ==
  /\ Once(m, prompts) /\ Once(m, polled) /\ ~(In(m, prompts) /\ In(m, polled))
  /\ In(m, prompts) \/ In(m, polled) =>
       /\ ~In(m, steeringQueue') /\ ~In(m, followUpQueue') /\ m \in sent'
       /\ m \notin sent \/ In(m, steeringQueue) \/ In(m, followUpQueue)
  /\ In(m, steeringQueue') => In(m, steeringQueue)
  /\ In(m, followUpQueue') => In(m, followUpQueue)
  /\ Once(m, steeringQueue') /\ Once(m, followUpQueue')
  /\ In(m, steeringQueue) \/ In(m, followUpQueue) =>
       In(m, steeringQueue') \/ In(m, followUpQueue') \/ In(m, prompts) \/ In(m, polled)
  /\ m \in sent => m \in sent'
  /\ m \in sent' /\ m \notin sent => In(m, prompts)

Starts(prompts, polled) ==
  /\ StartRun(prompts, polled) /\ CallerReady
  /\ prompts \in Seq(Users) /\ polled \in Seq(Users)
  /\ steeringQueue' \in Seq(Users) /\ followUpQueue' \in Seq(Users)
  /\ sent \subseteq sent' /\ sent' \subseteq Msgs
  /\ \A m \in Msgs : Handed(m, prompts, polled)

\* prompt() hands over a new message, continue() takes what waits.
LEMMA CallsStart ==
  ASSUME Inv, Continue \/ \E m \in Msgs : Prompt(m)
  PROVE  \E prompts, polled : Starts(prompts, polled)
<1> USE DEF Inv
<1>1. /\ steeringQueue \in Seq(Users) /\ followUpQueue \in Seq(Users) /\ sent \subseteq Msgs
      /\ <<>> \in Seq(Users) /\ SteeringTaken \in Seq(Users) /\ FollowUpsTaken \in Seq(Users)
      /\ Left(SteeringMode, steeringQueue) \in Seq(Users) /\ Left(FollowUpMode, followUpQueue) \in Seq(Users)
  BY QueuesTyped, TakenLeft DEF TypeOK
<1>2. \A m \in Msgs :
        /\ UserOnce(m) /\ ~In(m, <<>>) /\ Once(m, <<>>)
        /\ In(m, steeringQueue) <=> In(m, SteeringTaken) \/ In(m, Left(SteeringMode, steeringQueue))
        /\ Once(m, SteeringTaken) /\ Once(m, Left(SteeringMode, steeringQueue))
        /\ ~(In(m, SteeringTaken) /\ In(m, Left(SteeringMode, steeringQueue)))
        /\ In(m, followUpQueue) <=> In(m, FollowUpsTaken) \/ In(m, Left(FollowUpMode, followUpQueue))
        /\ Once(m, FollowUpsTaken) /\ Once(m, Left(FollowUpMode, followUpQueue))
        /\ ~(In(m, FollowUpsTaken) /\ In(m, Left(FollowUpMode, followUpQueue)))
  <2> SUFFICES ASSUME NEW m \in Msgs
               PROVE  /\ UserOnce(m) /\ ~In(m, <<>>) /\ Once(m, <<>>)
                      /\ In(m, steeringQueue) <=> In(m, SteeringTaken) \/ In(m, Left(SteeringMode, steeringQueue))
                      /\ Once(m, SteeringTaken) /\ Once(m, Left(SteeringMode, steeringQueue))
                      /\ ~(In(m, SteeringTaken) /\ In(m, Left(SteeringMode, steeringQueue)))
                      /\ In(m, followUpQueue) <=> In(m, FollowUpsTaken) \/ In(m, Left(FollowUpMode, followUpQueue))
                      /\ Once(m, FollowUpsTaken) /\ Once(m, Left(FollowUpMode, followUpQueue))
                      /\ ~(In(m, FollowUpsTaken) /\ In(m, Left(FollowUpMode, followUpQueue)))
    OBVIOUS
  <2>1. UserOnce(m) /\ ~In(m, <<>>) /\ Once(m, <<>>)
    BY InSmall DEF UsersOnce
  <2>2. Once(m, steeringQueue) /\ Once(m, followUpQueue)
    BY <2>1 DEF UserOnce
  <2>3. QED
    BY <1>1, <2>1, <2>2, InTakenLeft DEF SteeringTaken, FollowUpsTaken
<1>3. ASSUME NEW k \in Msgs, Prompt(k)
      PROVE  Starts(<<User(k)>>, SteeringTaken)
  <2>1. /\ StartRun(<<User(k)>>, SteeringTaken) /\ CallerReady /\ k \notin sent /\ sent' = sent \union {k}
        /\ steeringQueue' = Left(SteeringMode, steeringQueue) /\ UNCHANGED followUpQueue
    BY <1>3 DEF Prompt, DequeueSteering
  <2>2. User(k) \in Users /\ <<User(k)>> \in Seq(Users)
    BY MessageKinds
  <2>3. ASSUME NEW m \in Msgs
        PROVE  Handed(m, <<User(k)>>, SteeringTaken)
    <3>1. (In(m, <<User(k)>>) <=> m = k) /\ Once(m, <<User(k)>>)
      BY <2>2, InSmall, MessageKinds
    <3>2. UserOnce(m)
      BY <1>2
    <3>3. QED
      BY <1>2, <2>1, <3>1, <3>2 DEF Handed, UserOnce
  <2>4. QED
    BY <1>1, <2>1, <2>2, <2>3 DEF Starts
<1>4. ASSUME CallerReady, ContinueQueued, UNCHANGED sent
      PROVE  Starts(SteeringTaken, <<>>) \/ Starts(FollowUpsTaken, <<>>)
  <2>1. CASE /\ StartRun(SteeringTaken, <<>>)
             /\ steeringQueue' = Left(SteeringMode, steeringQueue) /\ UNCHANGED followUpQueue
    <3>1. ASSUME NEW m \in Msgs
          PROVE  Handed(m, SteeringTaken, <<>>)
      <4>1. UserOnce(m)
        BY <1>2
      <4>2. QED
        BY <1>2, <1>4, <2>1, <4>1 DEF Handed, UserOnce
    <3>2. QED
      BY <1>1, <1>4, <2>1, <3>1 DEF Starts
  <2>2. CASE /\ StartRun(FollowUpsTaken, <<>>)
             /\ followUpQueue' = Left(FollowUpMode, followUpQueue) /\ UNCHANGED steeringQueue
    <3>1. ASSUME NEW m \in Msgs
          PROVE  Handed(m, FollowUpsTaken, <<>>)
      <4>1. UserOnce(m)
        BY <1>2
      <4>2. QED
        BY <1>2, <1>4, <2>2, <4>1 DEF Handed, UserOnce
    <3>2. QED
      BY <1>1, <1>4, <2>2, <3>1 DEF Starts
  <2>3. QED
    BY <1>4, <2>1, <2>2 DEF ContinueQueued, DequeueSteering, DequeueFollowUps
<1>5. ASSUME CallerReady, StartRun(<<>>, SteeringTaken), DequeueSteering, UNCHANGED sent
      PROVE  Starts(<<>>, SteeringTaken)
  <2>1. steeringQueue' = Left(SteeringMode, steeringQueue) /\ UNCHANGED followUpQueue
    BY <1>5 DEF DequeueSteering
  <2>2. ASSUME NEW m \in Msgs
        PROVE  Handed(m, <<>>, SteeringTaken)
    <3>1. UserOnce(m)
      BY <1>2
    <3>2. QED
      BY <1>2, <1>5, <2>1, <3>1 DEF Handed, UserOnce
  <2>3. QED
    BY <1>1, <1>5, <2>1, <2>2 DEF Starts
<1>6. CASE Continue
  BY <1>4, <1>5, <1>6 DEF Continue
<1>7. QED
  BY <1>3, <1>6

\* A run that starts keeps the invariant.
LEMMA StartInv ==
  ASSUME Inv, NEW prompts, NEW polled, Starts(prompts, polled)
  PROVE  Inv'
<1> USE DEF Inv
<1>1. PICK n : n = runs + 1
  OBVIOUS
<1> DEFINE l == [NoLoop EXCEPT !.pc = "started", !.ctx = messages \o prompts, !.pending = polled]
<1>2. /\ runs < MaxRuns /\ runs' = n
      /\ loop' = [loop EXCEPT ![n] = l] /\ chan' = [chan EXCEPT ![n] = Announce(prompts)]
      /\ reader' = [reader EXCEPT ![n] = "reading"]
      /\ isStreaming' = TRUE /\ streamMessage' = Nil /\ controller' = n /\ runningPrompt' = n
      /\ UNCHANGED <<pendingToolCalls, messages, settled, aborted, replies, toolTurns, forgotten>>
  BY <1>1 DEF Starts, StartRun
<1>3. /\ Reading => "eager" \in disturbed'
      /\ disturbed \subseteq disturbed' /\ disturbed' \subseteq Disturbances
  BY DEF Starts, CallerReady, May, TypeOK
<1>4. /\ prompts \in Seq(Users) /\ polled \in Seq(Users) /\ prompts \in Seq(Messages)
      /\ steeringQueue' \in Seq(Users) /\ followUpQueue' \in Seq(Users)
      /\ sent \subseteq sent' /\ sent' \subseteq Msgs
      /\ \A m \in Msgs : Handed(m, prompts, polled)
  BY KindsOfSeq DEF Starts
<1>5. n \in Runs /\ n > runs /\ runs \in Nat /\ n \in 0..MaxRuns /\ \A r \in Runs : r \in Nat
  BY <1>2, <1>1, AgentAssumption DEF TypeOK, Runs
<1>6. /\ loop[n] = NoLoop /\ reader[n] = "none" /\ chan[n] = <<>>
  BY <1>5 DEF Streams
<1>7. messages \in Seq(Messages) /\ messages \o prompts \in Seq(Messages)
  BY <1>4, ConcatFacts DEF TypeOK
<1>8. /\ l \in Loops /\ l.pc = "started" /\ l.ctx = messages \o prompts /\ l.pending = polled /\ l.results = <<>>
  <2>1. <<>> \in Seq(ToolResults) /\ 0 \in 0..MaxCalls /\ 0 \in Nat /\ FALSE \in BOOLEAN
    BY AgentAssumption
  <2>2. QED
    BY <1>4, <1>7, <2>1 DEF NoLoop, Loops
<1>9. /\ Announce(prompts) \in Seq(Events) /\ Regular(Announce(prompts)) /\ Ended(Announce(prompts)) = prompts
      /\ \A i \in DOMAIN Announce(prompts) : Announce(prompts)[i].type # "agent_end"
  BY <1>4, TellsAnnounce, TellsEnded DEF Tells
<1> HIDE DEF l
<1>10. /\ loop'[n] = l /\ chan'[n] = Announce(prompts) /\ reader'[n] = "reading"
      /\ \A q \in Runs : q # n => loop'[q] = loop[q] /\ chan'[q] = chan[q] /\ reader'[q] = reader[q]
  <2>1. loop \in [Runs -> Loops] /\ chan \in [Runs -> Seq(Events)]
        /\ reader \in [Runs -> {"none", "reading", "settled"}]
    BY DEF TypeOK
  <2>2. QED
    BY <1>2, <1>5, <2>1
<1>11. /\ Completed(n)' = messages \o prompts /\ OnTheWay(n)' = prompts
       /\ Completed(n) = <<>> /\ OnTheWay(n) = <<>>
       /\ \A q \in Runs : q # n => Completed(q)' = Completed(q) /\ OnTheWay(q)' = OnTheWay(q)
  <2>1. Completed(n)' = (messages \o prompts) \o <<>> /\ OnTheWay(n)' = prompts
    BY <1>8, <1>9, <1>10 DEF Completed, OnTheWay
  <2>2. Completed(n) = <<>> \o <<>> /\ OnTheWay(n) = <<>>
    BY <1>6, NothingEnded DEF Completed, OnTheWay, NoLoop
  <2>3. <<>> \o <<>> = <<>> /\ (messages \o prompts) \o <<>> = messages \o prompts
    BY <1>7, ConcatEmptySeq, EmptySeq
  <2>4. \A q \in Runs : q # n => Completed(q)' = Completed(q) /\ OnTheWay(q)' = OnTheWay(q)
    BY <1>10 DEF Completed, OnTheWay
  <2>5. QED
    BY <2>1, <2>2, <2>3, <2>4
<1>12. \A m \in Msgs : ~In(m, loop[n].pending)
  BY <1>6, InSmall DEF NoLoop
<1>13. TypeOK'
  <2>1. controller' \in 0..MaxRuns /\ runs' \in 0..MaxRuns /\ runningPrompt' \in 0..MaxRuns
        /\ forgotten' \subseteq sent' /\ sent' \subseteq Msgs /\ disturbed' \subseteq Disturbances
        /\ steeringQueue' \in Seq(Users) /\ followUpQueue' \in Seq(Users)
    BY <1>2, <1>3, <1>4, <1>5 DEF TypeOK
  <2>2. QED
    <3>1. /\ isStreaming' \in BOOLEAN /\ streamMessage' \in Messages \union {Nil} /\ pendingToolCalls' \subseteq Calls
          /\ messages' \in Seq(Messages) /\ settled' \subseteq Runs /\ aborted' \in [Runs -> BOOLEAN]
          /\ replies' \in Nat /\ toolTurns' \in Nat
      BY <1>2 DEF TypeOK
    <3>2. /\ loop' \in [Runs -> Loops] /\ chan' \in [Runs -> Seq(Events)]
          /\ reader' \in [Runs -> {"none", "reading", "settled"}]
      <4>1. loop \in [Runs -> Loops] /\ chan \in [Runs -> Seq(Events)]
            /\ reader \in [Runs -> {"none", "reading", "settled"}]
        BY DEF TypeOK
      <4>2. l \in Loops /\ Announce(prompts) \in Seq(Events)
        BY <1>8, <1>9
      <4> HIDE DEF Inv
      <4>3. QED
        BY ONLY <1>2, <4>1, <4>2
    <3> HIDE DEF Inv
    <3>3. QED
      BY ONLY <2>1, <3>1, <3>2 DEF TypeOK
<1>14. Streams'
  <2>1. ASSUME NEW q \in Runs
        PROVE  /\ loop'[q].pc = "none" <=> q > n
               /\ reader'[q] = "none" <=> q > n
               /\ q > n => loop'[q] = NoLoop
               /\ reader'[q] # "reading" => chan'[q] = <<>>
               /\ Regular(chan'[q])
               /\ \A i \in DOMAIN chan'[q] :
                    chan'[q][i].type = "agent_end" => i = Len(chan'[q]) /\ loop'[q].pc = "ended"
    <3>1. CASE q = n
      <4>1. ~(q > n)
        BY <1>5, <3>1
      <4>2. QED
        BY <1>8, <1>9, <1>10, <3>1, <4>1
    <3>2. CASE q # n
      <4>1. q > n <=> q > runs
        BY <1>5, <1>1, <3>2
      <4>2. QED
        BY <1>10, <3>2, <4>1 DEF Streams
    <3>3. QED
      BY <3>1, <3>2
  <2>2. QED
    BY <1>2, <2>1 DEF Streams
<1>15. LoopsFit'
  <2>1. LoopFits(l)
    BY <1>8 DEF LoopFits
  <2>2. QED
    BY <1>10, <2>1 DEF LoopsFit
<1>16. /\ Calm' => Calm /\ ~Reading
       /\ disturbed' \subseteq {"reject"} \/ disturbed' \subseteq {"reset"} => Calm'
  BY <1>3 DEF Calm
<1>17. Calm' => \A q \in Runs : q # n => reader'[q] # "reading" /\ ~Active(q)'
  BY <1>10, <1>16 DEF Tracked, Reading, Active
<1>18. Tracked'
  <2>1. Calm' => \A q \in Runs : q \in settled => q # n /\ reader[q] = "settled"
    BY <1>6, <1>16 DEF Tracked
  <2>2. QED
    BY <1>2, <1>10, <1>16, <1>17, <2>1 DEF Tracked, TypeOK
<1>19. FlagsFollowRun'
  BY <1>2, <1>16, <1>17 DEF FlagsFollowRun
<1>20. Follows'
  <2> SUFFICES ASSUME Calm'
               PROVE  \E old \in Seq(Messages) :
                        /\ Completed(n)' = (old \o messages) \o OnTheWay(n)'
                        /\ "reset" \notin disturbed' => old = <<>>
                        /\ \A m \in Msgs : In(m, old) => m \in forgotten
    BY <1>2, <1>17 DEF Follows
  <2>1. <<>> \in Seq(Messages) /\ \A m \in Msgs : ~In(m, <<>>)
    BY InSmall
  <2>2. Completed(n)' = (<<>> \o messages) \o OnTheWay(n)'
    BY <1>7, <1>11, ConcatEmptySeq
  <2>3. QED
    BY <2>1, <2>2
<1>21. UsersOnce'
  <2> SUFFICES ASSUME NEW m \in Msgs
               PROVE  UserOnce(m)'
    BY DEF UsersOnce
  <2>1. UserOnce(m) /\ Handed(m, prompts, polled) /\ ~In(m, loop[n].pending)
        /\ ~In(m, Completed(n)) /\ ~In(m, OnTheWay(n))
    BY <1>4, <1>11, <1>12, InSmall DEF UsersOnce
  <2>2. /\ In(m, Completed(n)') <=> In(m, messages) \/ In(m, prompts)
        /\ Once(m, Completed(n)') <=> Once(m, messages) /\ Once(m, prompts) /\ ~(In(m, messages) /\ In(m, prompts))
    BY <1>4, <1>7, <1>11, InConcat
  <2>3. OnTheWay(n)' = prompts /\ loop'[n].pending = polled /\ UNCHANGED messages
    BY <1>2, <1>8, <1>10, <1>11
  <2>4. \A q \in Runs : q # n => /\ loop'[q].pending = loop[q].pending
                                 /\ Completed(q)' = Completed(q) /\ OnTheWay(q)' = OnTheWay(q)
    BY <1>10, <1>11
  <2>5. n \in Runs
    BY <1>5
  <2>6. /\ m \notin sent => /\ ~In(m, steeringQueue) /\ ~In(m, followUpQueue) /\ ~In(m, messages)
                            /\ \A r \in Runs : ~In(m, loop[r].pending) /\ ~In(m, Completed(r))
        /\ In(m, steeringQueue) \/ In(m, followUpQueue) =>
             ~In(m, messages) /\ \A r \in Runs : ~In(m, loop[r].pending) /\ ~In(m, Completed(r))
    BY <2>1 DEF UserOnce
  <2>7. In(m, prompts) \/ In(m, polled) =>
          ~In(m, messages) /\ \A r \in Runs : ~In(m, loop[r].pending) /\ ~In(m, Completed(r)) /\ ~In(m, OnTheWay(r))
    <3>1. \A r \in Runs : In(m, OnTheWay(r)) => In(m, Completed(r))
      BY <2>1 DEF UserOnce
    <3>2. QED
      BY <2>1, <2>6, <3>1 DEF Handed
  <2>8. QED
    BY <2>1, <2>2, <2>3, <2>4, <2>5, <2>6, <2>7 DEF UserOnce, Handed
<1>22. NoneLost'
  <2> SUFFICES ASSUME disturbed' \subseteq {"reset"}, NEW m \in sent' \ forgotten
               PROVE  \/ In(m, steeringQueue') \/ In(m, followUpQueue') \/ In(m, Conversation')
                      \/ \E r \in Runs : In(m, loop'[r].pending)
    BY <1>2 DEF NoneLost
  <2>1. m \in Msgs /\ Handed(m, prompts, polled)
    BY <1>4
  <2>2. Conversation' = messages \o prompts
    <3>1. runs' = n /\ n > 0 /\ reader'[n] = "reading" /\ loop'[n].ctx = messages \o prompts
      BY <1>2, <1>5, <1>8, <1>10
    <3>2. QED
      BY <3>1 DEF Conversation
  <2>3. Conversation = messages
    BY <1>5, <1>16 DEF Conversation, Reading, Runs, TypeOK
  <2>4. In(m, Conversation') <=> In(m, Conversation) \/ In(m, prompts)
    BY <1>4, <1>7, <2>2, <2>3, InConcat
  <2>5. m \in sent => \/ In(m, steeringQueue) \/ In(m, followUpQueue) \/ In(m, Conversation)
                      \/ \E r \in Runs : In(m, loop[r].pending)
    BY <1>3 DEF NoneLost
  <2>6. \A r \in Runs : In(m, loop[r].pending) => In(m, loop'[r].pending)
    BY <1>10, <1>12, <2>1
  <2>7. In(m, polled) => In(m, loop'[n].pending) /\ n \in Runs
    BY <1>5, <1>8, <1>10
  <2>8. QED
    BY <2>1, <2>4, <2>5, <2>6, <2>7 DEF Handed
<1>23. ToolsAnswered'
  <2> SUFFICES ASSUME Calm'
               PROVE  AllAnswered(Done(loop'[n]))
    <3>1. Reading'
      BY <1>5, <1>10 DEF Reading
    <3>2. QED
      BY <1>17, <3>1 DEF ToolsAnswered
  <2>1. AllAnswered(messages)
    BY <1>16 DEF ToolsAnswered
  <2>2. \A i \in DOMAIN prompts : prompts[i].role = "user"
    <3>1. \A i \in DOMAIN prompts : prompts[i] \in Users
      BY <1>4, ElementOfSeq, LenProperties
    <3>2. QED
      BY <3>1, MessageKinds
  <2>3. AllAnswered(messages \o prompts)
    BY <1>4, <1>7, <2>1, <2>2, AnsweredConcat DEF IsAssistant
  <2>4. Done(loop'[n]) = messages \o prompts
    BY <1>8, <1>10 DEF Done
  <2>5. QED
    BY <2>3, <2>4
<1>24. QED
  BY <1>13, <1>14, <1>15, <1>18, <1>19, <1>20, <1>21, <1>22, <1>23

-----------------------------------------------------------------------------
(* The theorems.                                                           *)

\* The invariant holds at the start.
LEMMA InitInv == Init => Inv
<1> SUFFICES ASSUME Init
             PROVE  Inv
  OBVIOUS
<1>1. /\ messages = <<>> /\ steeringQueue = <<>> /\ followUpQueue = <<>> /\ settled = {} /\ runs = 0
      /\ sent = {} /\ forgotten = {} /\ disturbed = {}
      /\ \A r \in Runs : loop[r] = NoLoop /\ chan[r] = <<>> /\ reader[r] = "none"
  BY DEF Init
<1>2. <<>> \in Seq(Messages) /\ <<>> \in Seq(Users) /\ <<>> \in Seq(ToolResults) /\ <<>> \in Seq(Events)
  OBVIOUS
<1>3. 0 \in 0..MaxRuns /\ 0 \in 0..MaxCalls /\ 0 \in Nat
  BY AgentAssumption
<1>4. NoLoop \in Loops /\ LoopFits(NoLoop)
  BY <1>2, <1>3 DEF NoLoop, Loops, LoopFits
<1>5. TypeOK
  BY <1>1, <1>2, <1>3, <1>4 DEF Init, TypeOK
<1>6. Streams
  <2>1. \A r \in Runs : r > 0
    BY AgentAssumption DEF Runs
  <2>2. NoLoop.pc = "none"
    BY DEF NoLoop
  <2>3. QED
    BY <1>1, <2>1, <2>2, NothingEnded DEF Streams
<1>7. LoopsFit
  BY <1>1, <1>4 DEF LoopsFit
<1>8. \A r \in Runs : reader[r] # "reading" /\ ~Active(r)
  BY <1>1 DEF Active, NoLoop
<1>9. Tracked /\ FlagsFollowRun /\ Follows /\ NoneLost
  BY <1>1, <1>8 DEF Tracked, FlagsFollowRun, Follows, NoneLost
<1>10. \A r \in Runs : Completed(r) = <<>> /\ OnTheWay(r) = <<>>
  <2>1. <<>> \o <<>> = <<>>
    BY <1>2, ConcatEmptySeq
  <2>2. QED
    BY <1>1, <2>1, NothingEnded DEF Completed, OnTheWay, NoLoop
<1>11. UsersOnce
  BY <1>1, <1>10, InSmall DEF UsersOnce, UserOnce, NoLoop
<1>12. ToolsAnswered
  <2>1. AllAnswered(<<>>)
    BY DEF AllAnswered
  <2>2. QED
    BY <1>1, <1>8, <2>1 DEF ToolsAnswered
<1>13. QED
  BY <1>5, <1>6, <1>7, <1>9, <1>11, <1>12 DEF Inv

\* Nothing changes when no step is taken.
LEMMA StutterInv == Inv /\ UNCHANGED vars => Inv'
<1> SUFFICES ASSUME Inv, UNCHANGED vars
             PROVE  Inv'
  OBVIOUS
<1>1. UNCHANGED <<isStreaming, streamMessage, pendingToolCalls, messages, controller, runningPrompt, settled,
                  steeringQueue, followUpQueue, loop, chan, reader, aborted, runs, replies, toolTurns, sent,
                  forgotten, disturbed>>
  BY DEF vars, agentVars, queueVars, countVars
<1>2. /\ \A r \in Runs : Completed(r)' = Completed(r) /\ OnTheWay(r)' = OnTheWay(r)
      /\ Conversation' = Conversation
  BY <1>1 DEF Completed, OnTheWay, Conversation
<1>3. TypeOK' /\ Streams' /\ LoopsFit' /\ Tracked' /\ FlagsFollowRun' /\ ToolsAnswered'
  BY <1>1 DEF Inv, TypeOK, Streams, LoopsFit, Tracked, FlagsFollowRun, ToolsAnswered, Calm, Active, Reading
<1>4. Follows'
  BY <1>1, <1>2 DEF Inv, Follows, Calm
<1>5. UsersOnce'
  BY <1>1, <1>2 DEF Inv, UsersOnce, UserOnce
<1>6. NoneLost'
  BY <1>1, <1>2 DEF Inv, NoneLost
<1>7. QED
  BY <1>3, <1>4, <1>5, <1>6 DEF Inv

\* Every step keeps the invariant.
LEMMA NextInv == Inv /\ [Next]_vars => Inv'
<1> SUFFICES ASSUME Inv, [Next]_vars
             PROVE  Inv'
  OBVIOUS
<1>1. CASE Continue \/ \E m \in Msgs : Prompt(m)
  <2>1. PICK prompts, polled : Starts(prompts, polled)
    BY <1>1, CallsStart
  <2>2. QED
    BY <2>1, StartInv
<1>2. CASE \E m \in Msgs : Steer(m) \/ FollowUp(m)
  BY <1>2, QueuedInv
<1>3. CASE Abort
  BY <1>3, AbortInv
<1>4. CASE Reset
  BY <1>4, ResetInv
<1>5. ASSUME NEW r \in Runs, LoopStep(r) \/ LoopRejects(r)
      PROVE  Inv'
  <2>1. Goes(r) /\ replies' \in Nat /\ toolTurns' \in Nat
    BY <1>5, LoopGoes DEF Inv
  <2>2. disturbed' \subseteq Disturbances /\ disturbed \subseteq disturbed'
    BY <1>5 DEF LoopStep, LoopRejects, May, Inv, TypeOK
  <2>3. QED
    BY <2>1, <2>2, GoesInv
<1>6. ASSUME NEW r \in Runs, ReaderStep(r)
      PROVE  Inv'
  BY <1>6, ReadEventInv, RunSettlesInv DEF ReaderStep
<1>7. ASSUME NEW r \in Runs, ListenerThrows(r)
      PROVE  Inv'
  BY <1>7, ListenerThrowsInv
<1>8. CASE UNCHANGED vars
  BY <1>8, StutterInv
<1>9. QED
  BY <1>1, <1>2, <1>3, <1>4, <1>5, <1>6, <1>7, <1>8 DEF Next, Call

\* The invariant holds in every behaviour of the agent.
THEOREM AgentInvariant == Spec => []Inv
<1>1. Init => Inv
  BY InitInv
<1>2. Inv /\ [Next]_vars => Inv'
  BY NextInv
<1>3. QED
  BY <1>1, <1>2, PTL DEF Spec

\* The agent's own picture of its run is right, for any callers: the flags prompt() and
\* continue() go by are those of the run under way, no two loops run at once among
\* callers that wait, and a promise that was resolved belongs to a run that is over.
THEOREM RunsTracked == Spec => []RunsAreTracked
<1>1. Inv => RunsAreTracked
  <2> SUFFICES ASSUME Inv
               PROVE  RunsAreTracked
    OBVIOUS
  <2>1. OneLoopIfPatient
    BY DEF Inv, Tracked, Calm, OneLoopIfPatient, OneLoop
  <2>2. IdleMeansSettled
    BY DEF Inv, Tracked, Calm, IdleMeansSettled
  <2>3. QED
    BY <2>1, <2>2 DEF Inv, RunsAreTracked
<1>2. QED
  BY <1>1, AgentInvariant, PTL

\* Whenever the LLM is asked, every tool call has its results behind it, in order and
\* once: for any number of calls, and wherever a steering message cuts them short.
THEOREM CallsAreAnswered == Spec => []ToolCallsAnswered
<1>1. Inv => ToolCallsAnswered
  <2> SUFFICES ASSUME Inv, NEW r \in Runs, disturbed \subseteq {"reset"}, loop[r].pc = "request"
               PROVE  AllAnswered(loop[r].ctx)
    BY DEF ToolCallsAnswered, AllAnswered
  <2>1. Calm /\ Active(r)
    BY DEF Calm, Active
  <2>2. reader[r] = "reading"
    BY <2>1 DEF Inv, Tracked
  <2>3. AllAnswered(Done(loop[r]))
    BY <2>1, <2>2 DEF Inv, ToolsAnswered
  <2>4. QED
    BY <2>3 DEF Done
<1>2. QED
  BY <1>1, AgentInvariant, PTL

\* What the agent shows, and the messages whose events it has not read yet, are what
\* the loop has completed, although the two keep separate copies.
THEOREM TranscriptIsCopied == Spec => []TranscriptFollowsLoop
<1>1. Inv => TranscriptFollowsLoop
  <2> SUFFICES ASSUME Inv, NEW r \in Runs, disturbed \subseteq {"reject"}, reader[r] = "reading"
               PROVE  messages \o OnTheWay(r) = Completed(r)
    BY DEF TranscriptFollowsLoop
  <2>1. Calm /\ "reset" \notin disturbed
    BY DEF Calm
  <2>2. Completed(r) = (<<>> \o messages) \o OnTheWay(r)
    BY <2>1 DEF Inv, Follows
  <2>3. <<>> \o messages = messages
    BY ConcatEmptySeq DEF Inv, TypeOK
  <2>4. QED
    BY <2>2, <2>3
<1>2. QED
  BY <1>1, AgentInvariant, PTL

\* A message that is in a sequence once has one place there.
LEMMA OncePlace ==
  ASSUME NEW m, NEW s, Once(m, s)
  PROVE  /\ In(m, s) => \E i : At(m, s) = {i}
         /\ ~In(m, s) => At(m, s) = {}
BY DEF Once, In

\* A message that is at one place at most occurs at most once.
LEMMA OnceOccurs ==
  ASSUME NEW m, NEW s, Once(m, s)
  PROVE  Occurrences(m, s) = IF In(m, s) THEN 1 ELSE 0
<1>1. CASE In(m, s)
  <2>1. PICK i : At(m, s) = {i}
    BY <1>1, OncePlace
  <2>2. QED
    BY <1>1, <2>1, FS_Singleton DEF Occurrences
<1>2. CASE ~In(m, s)
  <2>1. At(m, s) = {}
    BY <1>2, OncePlace
  <2>2. QED
    BY <1>2, <2>1, FS_EmptySet DEF Occurrences
<1>3. QED
  BY <1>1, <1>2

\* In the contexts sent to the LLM a caller's message is where it was completed.
LEMMA ContextOnce ==
  ASSUME Inv, NEW r \in Runs, NEW m \in Msgs
  PROVE  /\ Once(m, loop[r].ctx)
         /\ In(m, loop[r].ctx) <=> In(m, Completed(r))
<1>1. At(m, Completed(r)) = At(m, loop[r].ctx)
  BY StateTyped DEF Inv
<1>2. Once(m, Completed(r))
  BY DEF Inv, UsersOnce, UserOnce
<1>3. QED
  BY <1>1, <1>2 DEF Once, In

\* No message is put twice into what the LLM is sent, nor is one that it was sent still
\* waiting in a queue: however calls, resets, and failures of listeners and hooks fall.
THEOREM SentAtMostOnce == Spec => []NeverSentTwice
<1>1. Inv => NeverSentTwice
  <2> SUFFICES ASSUME Inv, NEW m \in Msgs, NEW r \in Runs
               PROVE  Occurrences(m, loop[r].ctx) + Occurrences(m, steeringQueue)
                        + Occurrences(m, followUpQueue) <= 1
    BY DEF NeverSentTwice
  <2>1. UserOnce(m)
    BY DEF Inv, UsersOnce
  <2>2. /\ Once(m, loop[r].ctx) /\ Once(m, steeringQueue) /\ Once(m, followUpQueue)
        /\ ~(In(m, steeringQueue) /\ In(m, followUpQueue))
        /\ In(m, steeringQueue) \/ In(m, followUpQueue) => ~In(m, loop[r].ctx)
    BY <2>1, ContextOnce DEF UserOnce
  <2>3. /\ Occurrences(m, loop[r].ctx) = IF In(m, loop[r].ctx) THEN 1 ELSE 0
        /\ Occurrences(m, steeringQueue) = IF In(m, steeringQueue) THEN 1 ELSE 0
        /\ Occurrences(m, followUpQueue) = IF In(m, followUpQueue) THEN 1 ELSE 0
    BY <2>2, OnceOccurs
  <2>4. QED
    BY <2>2, <2>3
<1>2. QED
  BY <1>1, AgentInvariant, PTL

\* A message that the callers handed over and no reset() has forgotten is in one place:
\* a queue, the hands of one loop, or the conversation.
THEOREM MessageInOnePlace == Spec => []EachMessageOnce
<1>1. Inv => EachMessageOnce
  <2> SUFFICES ASSUME Inv, disturbed \subseteq {"reset"}, NEW m \in sent \ forgotten
               PROVE  Cardinality(Copies(m)) = 1
    BY DEF EachMessageOnce
  <2> DEFINE steering == At(m, steeringQueue)
             followUps == At(m, followUpQueue)
             said == At(m, Conversation)
             held(r) == At(m, loop[r].pending)
  <2>1. m \in Msgs /\ UserOnce(m)
    BY DEF Inv, TypeOK, UsersOnce
  <2>2. /\ said # {} => /\ \E i : said = {i}
                        /\ steering = {} /\ followUps = {} /\ \A r \in Runs : held(r) = {}
    <3>1. CASE runs > 0 /\ reader[runs] = "reading"
      <4>1. Conversation = loop[runs].ctx /\ runs \in Runs
        BY <3>1 DEF Conversation, Inv, TypeOK, Runs
      <4>2. Once(m, Conversation) /\ (In(m, Conversation) <=> In(m, Completed(runs)))
        BY <2>1, <4>1, ContextOnce
      <4>3. In(m, Conversation) =>
              /\ ~In(m, steeringQueue) /\ ~In(m, followUpQueue) /\ \A r \in Runs : ~In(m, loop[r].pending)
        BY <2>1, <4>1, <4>2 DEF UserOnce
      <4>4. QED
        BY <4>2, <4>3, OncePlace DEF In
    <3>2. CASE ~(runs > 0 /\ reader[runs] = "reading")
      <4>1. Conversation = messages
        BY <3>2 DEF Conversation
      <4>2. Once(m, Conversation)
        BY <2>1, <4>1 DEF UserOnce
      <4>3. In(m, Conversation) =>
              /\ ~In(m, steeringQueue) /\ ~In(m, followUpQueue) /\ \A r \in Runs : ~In(m, loop[r].pending)
        BY <2>1, <4>1 DEF UserOnce
      <4>4. QED
        BY <4>2, <4>3, OncePlace DEF In
    <3>3. QED
      BY <3>1, <3>2
  <2>3. /\ steering # {} => (\E i : steering = {i}) /\ followUps = {} /\ \A r \in Runs : held(r) = {}
        /\ followUps # {} => (\E i : followUps = {i}) /\ steering = {} /\ \A r \in Runs : held(r) = {}
        /\ \A r \in Runs : held(r) # {} =>
             /\ \E i : held(r) = {i}
             /\ steering = {} /\ followUps = {} /\ \A q \in Runs : q # r => held(q) = {}
    BY <2>1, OncePlace DEF UserOnce, In
  <2>4. \/ steering # {} \/ followUps # {} \/ said # {} \/ \E r \in Runs : held(r) # {}
    BY DEF Inv, NoneLost, In
  <2>5. Copies(m) = ({"steering"} \X {0} \X steering)
                      \union ({"followUp"} \X {0} \X followUps)
                      \union ({"conversation"} \X {0} \X said)
                      \union UNION {{"pending"} \X {r} \X held(r) : r \in Runs}
    BY DEF Copies
  <2> HIDE DEF steering, followUps, said, held
  <2>6. \E c : Copies(m) = {c}
    <3>1. CASE said # {}
      <4>1. PICK i : said = {i}
        BY <2>2, <3>1
      <4>2. Copies(m) = {<<"conversation", 0, i>>}
        BY <2>2, <2>5, <3>1, <4>1
      <4>3. QED
        BY <4>2
    <3>2. CASE steering # {}
      <4>1. PICK i : steering = {i}
        BY <2>3, <3>2
      <4>2. Copies(m) = {<<"steering", 0, i>>}
        BY <2>2, <2>3, <2>5, <3>2, <4>1
      <4>3. QED
        BY <4>2
    <3>3. CASE followUps # {}
      <4>1. PICK i : followUps = {i}
        BY <2>3, <3>3
      <4>2. Copies(m) = {<<"followUp", 0, i>>}
        BY <2>2, <2>3, <2>5, <3>3, <4>1
      <4>3. QED
        BY <4>2
    <3>4. ASSUME NEW r \in Runs, held(r) # {}
          PROVE  \E c : Copies(m) = {c}
      <4>1. PICK i : held(r) = {i}
        BY <2>3, <3>4
      <4>2. steering = {} /\ followUps = {} /\ said = {} /\ \A q \in Runs : q # r => held(q) = {}
        BY <2>2, <2>3, <3>4
      <4>3. Copies(m) = UNION {{"pending"} \X {q} \X held(q) : q \in Runs}
        BY <2>5, <4>2
      <4>4. Copies(m) = {<<"pending", r, i>>}
        BY <4>1, <4>2, <4>3
      <4>5. QED
        BY <4>4
    <3>5. QED
      BY <2>4, <3>1, <3>2, <3>3, <3>4
  <2>7. QED
    BY <2>6, FS_Singleton
<1>2. QED
  BY <1>1, AgentInvariant, PTL
=============================================================================
