------------------------------- MODULE Agent -------------------------------
(***************************************************************************)
(* The agent of packages/agent: the loop that talks to the LLM and runs    *)
(* tools (agent-loop.ts), the `for await` in Agent._runLoop that reads the  *)
(* loop's events into the agent's state (agent.ts), and the callers that    *)
(* prompt, steer, abort and reset the agent while both are running.         *)
(*                                                                         *)
(* The loop is the producer and the `for await` the reader of one event    *)
(* stream per run.  chan[r] is that stream, a FIFO channel (EventStream     *)
(* implements FifoChannel).  What happens between two awaits is one action. *)
(***************************************************************************)
EXTENDS Naturals, Sequences, FiniteSets

CONSTANTS Msgs,           \* messages the callers can send, each at most once
          SteeringMode,   \* "one-at-a-time" or "all"
          FollowUpMode,   \* "one-at-a-time" or "all"
          Disturbances,   \* which of the behaviours below the surroundings show
          Nil,            \* null
          MaxRuns,        \* bound: runs of _runLoop
          MaxToolTurns,   \* bound: assistant messages that call tools
          MaxCalls        \* bound: tool calls in one assistant message

(***************************************************************************)
(* "eager"   a caller prompts as soon as isStreaming is false, for one from *)
(*           an agent_end listener, and does not wait for the run to settle *)
(* "reset"   reset() is called while a run is under way                     *)
(* "throw"   a listener throws                                              *)
(* "reject"  getApiKey, convertToLlm, transformContext or streamFn rejects  *)
(***************************************************************************)
ASSUME AgentAssumption ==
  /\ SteeringMode \in {"one-at-a-time", "all"}
  /\ FollowUpMode \in {"one-at-a-time", "all"}
  /\ Disturbances \subseteq {"eager", "reset", "throw", "reject"}
  /\ MaxRuns \in Nat /\ MaxToolTurns \in Nat /\ MaxCalls \in Nat

VARIABLES
  \* The Agent object.
  isStreaming, streamMessage, pendingToolCalls, messages,
  steeringQueue, followUpQueue,
  controller,      \* abortController: the run it aborts, 0 when undefined
  runningPrompt,   \* the run that created it (and its resolver), 0 when undefined
  settled,         \* the runs whose runningPrompt was resolved
  \* Each run of Agent._runLoop.
  loop,            \* loop[r]: the agent loop, the producer
  chan,            \* chan[r]: the events pushed and not yet read
  reader,          \* reader[r]: the `for await`: "none", "reading" or "settled"
  aborted,         \* aborted[r]: its signal
  \* Bookkeeping of the callers and the LLM.
  runs, replies, toolTurns,
  sent,            \* the messages the callers handed over
  forgotten,       \* the messages a reset() threw away
  disturbed        \* the disturbances there were so far

agentVars == <<isStreaming, streamMessage, pendingToolCalls, messages,
               controller, runningPrompt, settled>>
queueVars == <<steeringQueue, followUpQueue>>
countVars == <<runs, replies, toolTurns, sent, forgotten>>
vars == <<agentVars, queueVars, loop, chan, reader, aborted, countVars, disturbed>>

Runs == 1..MaxRuns

-----------------------------------------------------------------------------
(* Messages and events.                                                    *)

User(m) == [role |-> "user", id |-> m]
Assistant(n, k, stop) == [role |-> "assistant", id |-> n, calls |-> k, stop |-> stop]
ToolResult(n, i) == [role |-> "toolResult", call |-> <<n, i>>]

IsAssistant(message) == message.role = "assistant"
EndsWithAssistant(ms) == ms # <<>> /\ IsAssistant(ms[Len(ms)])

MessageStart(message) == [type |-> "message_start", message |-> message]
MessageEnd(message) == [type |-> "message_end", message |-> message]
ToolStart(n, i) == [type |-> "tool_execution_start", call |-> <<n, i>>]
ToolEnd(n, i) == [type |-> "tool_execution_end", call |-> <<n, i>>]
TurnEnd == [type |-> "turn_end"]
AgentEnd == [type |-> "agent_end"]

\* Complete messages are announced by a start and an end event each.
Announce(ms) ==
  [j \in 1..2 * Len(ms) |->
     IF j % 2 = 1 THEN MessageStart(ms[(j + 1) \div 2]) ELSE MessageEnd(ms[j \div 2])]

-----------------------------------------------------------------------------
(* The queues.                                                             *)

Taken(mode, queue) ==
  IF mode = "all" \/ queue = <<>> THEN queue ELSE <<Head(queue)>>

\* Mutant: what was taken stays in the queue.
StillQueued(mode, queue) == queue

Left(mode, queue) ==
  IF mode = "all" \/ queue = <<>> THEN <<>> ELSE Tail(queue)

SteeringTaken == Taken(SteeringMode, steeringQueue)
FollowUpsTaken == Taken(FollowUpMode, followUpQueue)

\* dequeueSteeringMessages(); the messages are SteeringTaken.
DequeueSteering ==
  /\ steeringQueue' = Left(SteeringMode, steeringQueue)
  /\ UNCHANGED followUpQueue

\* dequeueFollowUpMessages(); the messages are FollowUpsTaken.
DequeueFollowUps ==
  /\ followUpQueue' = Left(FollowUpMode, followUpQueue)
  /\ UNCHANGED steeringQueue

-----------------------------------------------------------------------------
(* A run of the loop: where it is (pc), the context it sends to the LLM     *)
(* (ctx), the messages it holds to inject (pending), the assistant message  *)
(* it handles (reply, with calls tool calls of which next runs now), the    *)
(* results so far, and whether the turn had tool calls.                     *)

NoLoop == [pc |-> "none", ctx |-> <<>>, pending |-> <<>>, reply |-> 0, calls |-> 0,
           next |-> 0, results |-> <<>>, hasMoreToolCalls |-> FALSE]

Active(r) == loop[r].pc \notin {"none", "ended", "rejected"}

Init ==
  /\ isStreaming = FALSE
  /\ streamMessage = Nil
  /\ pendingToolCalls = {}
  /\ messages = <<>>
  /\ steeringQueue = <<>>
  /\ followUpQueue = <<>>
  /\ controller = 0
  /\ runningPrompt = 0
  /\ settled = {}
  /\ loop = [r \in Runs |-> NoLoop]
  /\ chan = [r \in Runs |-> <<>>]
  /\ reader = [r \in Runs |-> "none"]
  /\ aborted = [r \in Runs |-> FALSE]
  /\ runs = 0
  /\ replies = 0
  /\ toolTurns = 0
  /\ sent = {}
  /\ forgotten = {}
  /\ disturbed = {}

\* _runLoop(prompts) with agentLoop or agentLoopContinue, up to the first await
\* of both: the loop has announced the prompts and asked for steering messages
\* (polled), the reader waits for events.
StartRun(prompts, polled) ==
  /\ runs < MaxRuns
  /\ runs' = runs + 1
  /\ loop' = [loop EXCEPT ![runs + 1] =
       [NoLoop EXCEPT !.pc = "started", !.ctx = messages \o prompts, !.pending = polled]]
  /\ chan' = [chan EXCEPT ![runs + 1] = Announce(prompts)]
  /\ reader' = [reader EXCEPT ![runs + 1] = "reading"]
  /\ isStreaming' = TRUE
  /\ streamMessage' = Nil
  /\ controller' = runs + 1
  /\ runningPrompt' = runs + 1
  /\ UNCHANGED <<pendingToolCalls, messages, settled, aborted, replies, toolTurns, forgotten>>

\* A call that is a disturbance if it comes while the agent is busy.  (Bound: the
\* disturbances of a behaviour are of one kind.)
May(kind, busy) ==
  /\ busy => kind \in Disturbances /\ disturbed \subseteq {kind}
  /\ disturbed' = IF busy THEN disturbed \union {kind} ELSE disturbed

Reading == \E r \in Runs : reader[r] = "reading"

\* A patient caller awaits its prompt() or waitForIdle() before the next one.
CallerReady == ~isStreaming /\ May("eager", Reading)

Prompt(m) ==
  /\ CallerReady
  /\ m \notin sent
  /\ sent' = sent \union {m}
  /\ StartRun(<<User(m)>>, SteeringTaken)
  /\ DequeueSteering

\* continue() from an assistant message takes queued messages as the prompts,
\* steering first (and then skips the loop's initial poll), else follow-ups; with
\* both queues empty it throws.
ContinueQueued ==
  /\ EndsWithAssistant(messages)
  /\ \/ /\ steeringQueue # <<>>
        /\ StartRun(SteeringTaken, <<>>)
        /\ DequeueSteering
     \/ /\ steeringQueue = <<>>
        /\ followUpQueue # <<>>
        /\ StartRun(FollowUpsTaken, <<>>)
        /\ DequeueFollowUps

Continue ==
  /\ CallerReady
  /\ messages # <<>>
  /\ \/ ContinueQueued
     \/ /\ ~EndsWithAssistant(messages)
        /\ StartRun(<<>>, SteeringTaken)
        /\ DequeueSteering
  /\ UNCHANGED sent

-----------------------------------------------------------------------------
(* The loop.                                                               *)

\* The loop of run r goes on as l and pushes events.  Those of a stream whose
\* reader is gone stay in it unread and are left out.
Step(r, l, events) ==
  /\ loop' = [loop EXCEPT ![r] = l]
  /\ chan' = [chan EXCEPT ![r] = IF reader[r] = "reading" THEN @ \o events ELSE <<>>]
  /\ UNCHANGED <<agentVars, reader, aborted, runs, sent, forgotten>>

\* Mutant: pendingMessages is not emptied after the injection.
BeginTurnKeepsPending(l, ms) == [l EXCEPT !.pc = "request", !.ctx = @ \o ms, !.pending = ms]

\* The top of the inner while: inject the pending messages, then ask the LLM.
BeginTurn(l, ms) == [l EXCEPT !.pc = "request", !.ctx = @ \o ms, !.pending = <<>>]

Started(r) ==
  /\ loop[r].pc = "started"
  /\ Step(r, BeginTurn(loop[r], loop[r].pending), Announce(loop[r].pending))
  /\ UNCHANGED <<queueVars, replies, toolTurns>>

\* One of the awaits before the LLM is called rejects: nothing catches it, and
\* nobody ends the stream.
LoopRejects(r) ==
  /\ loop[r].pc = "request"
  /\ May("reject", TRUE)
  /\ Step(r, [loop[r] EXCEPT !.pc = "rejected"], <<>>)
  /\ UNCHANGED <<queueVars, replies, toolTurns>>

\* "start": the partial message is put into the context.
LlmStart(r) ==
  /\ loop[r].pc = "request"
  /\ replies' = replies + 1
  /\ LET partial == Assistant(replies + 1, 0, "partial")
     IN  Step(r, [loop[r] EXCEPT !.pc = "streaming", !.ctx = Append(@, partial), !.reply = replies + 1],
              <<MessageStart(partial)>>)
  /\ UNCHANGED <<queueVars, toolTurns>>

\* Mutant: the final message is added behind the partial one.
FinalContextAppended(l, message) == Append(l.ctx, message)

\* The final message takes the place of the partial one.
FinalContext(l, message) ==
  IF l.pc = "streaming" THEN [l.ctx EXCEPT ![Len(l.ctx)] = message] ELSE Append(l.ctx, message)

\* "done" or "error": the message is complete, and the loop goes on to its next
\* await.  An error or abort ends the run, tool calls are started, and a turn
\* without tool calls asks for steering messages.
LlmEnd(r, stop, k) ==
  LET l == loop[r]
      n == IF l.pc = "streaming" THEN l.reply ELSE replies + 1
      message == Assistant(n, k, stop)
      done == [l EXCEPT !.ctx = FinalContext(l, message), !.reply = n, !.calls = k]
      said == IF l.pc = "streaming" THEN <<MessageEnd(message)>> ELSE Announce(<<message>>)
  IN  /\ l.pc \in {"request", "streaming"}
      /\ stop = "aborted" => aborted[r]
      /\ stop = "stop" => k = 0
      /\ stop = "toolUse" => k > 0 /\ toolTurns < MaxToolTurns
      /\ replies' = IF l.pc = "streaming" THEN replies ELSE n
      /\ toolTurns' = IF stop = "toolUse" THEN toolTurns + 1 ELSE toolTurns
      /\ \/ /\ stop \in {"error", "aborted"}
            /\ Step(r, [done EXCEPT !.pc = "ended"], said \o <<TurnEnd, AgentEnd>>)
            /\ UNCHANGED queueVars
         \/ /\ stop = "toolUse"
            /\ Step(r, [done EXCEPT !.pc = "tool", !.next = 1, !.results = <<>>],
                    said \o <<ToolStart(n, 1)>>)
            /\ UNCHANGED queueVars
         \/ /\ stop = "stop"
            /\ Step(r, [done EXCEPT !.pc = "polled", !.pending = SteeringTaken, !.hasMoreToolCalls = FALSE],
                    Append(said, TurnEnd))
            /\ DequeueSteering

\* The running tool returns or throws; its result is announced and the steering
\* queue is asked.
ToolReturns(r) ==
  LET l == loop[r]
      result == ToolResult(l.reply, l.next)
  IN  /\ l.pc = "tool"
      /\ Step(r, [l EXCEPT !.pc = "toolPolled", !.results = Append(@, result), !.pending = SteeringTaken],
              <<ToolEnd(l.reply, l.next)>> \o Announce(<<result>>))
      /\ DequeueSteering
      /\ UNCHANGED <<replies, toolTurns>>

\* Mutant: skipped tools are announced but leave no result.
NoSkippedResults(l) == <<>>

\* The results of the tools that are skipped, and what is announced of them.
SkippedResults(l) == [i \in 1..(l.calls - l.next) |-> ToolResult(l.reply, l.next + i)]
SkippedEvents(l) ==
  [j \in 1..4 * (l.calls - l.next) |->
     LET i == l.next + (j + 3) \div 4
     IN  CASE j % 4 = 1 -> ToolStart(l.reply, i)
           [] j % 4 = 2 -> ToolEnd(l.reply, i)
           [] j % 4 = 3 -> MessageStart(ToolResult(l.reply, i))
           [] OTHER -> MessageEnd(ToolResult(l.reply, i))]

\* A steering message came in: the remaining tools are skipped, and the next
\* turn begins with it.
SkipTools(r) ==
  LET l == loop[r]
  IN  /\ l.pc = "toolPolled"
      /\ l.pending # <<>>
      /\ Step(r, BeginTurn([l EXCEPT !.ctx = @ \o l.results \o SkippedResults(l), !.results = <<>>], l.pending),
              SkippedEvents(l) \o <<TurnEnd>> \o Announce(l.pending))
      /\ UNCHANGED <<queueVars, replies, toolTurns>>

NextTool(r) ==
  LET l == loop[r]
  IN  /\ l.pc = "toolPolled"
      /\ l.pending = <<>>
      /\ l.next < l.calls
      /\ Step(r, [l EXCEPT !.pc = "tool", !.next = @ + 1], <<ToolStart(l.reply, l.next + 1)>>)
      /\ UNCHANGED <<queueVars, replies, toolTurns>>

\* After the last tool the turn ends and the steering queue is asked once more.
ToolsDone(r) ==
  LET l == loop[r]
  IN  /\ l.pc = "toolPolled"
      /\ l.pending = <<>>
      /\ l.next = l.calls
      /\ Step(r, [l EXCEPT !.pc = "polled", !.ctx = @ \o l.results, !.results = <<>>,
                           !.pending = SteeringTaken, !.hasMoreToolCalls = TRUE],
              <<TurnEnd>>)
      /\ DequeueSteering
      /\ UNCHANGED <<replies, toolTurns>>

\* The inner while goes round again ...
NextTurn(r) ==
  LET l == loop[r]
  IN  /\ l.pc = "polled"
      /\ l.hasMoreToolCalls \/ l.pending # <<>>
      /\ Step(r, BeginTurn(l, l.pending), Announce(l.pending))
      /\ UNCHANGED <<queueVars, replies, toolTurns>>

\* ... or the agent would stop, and the follow-up queue is asked.
PollFollowUps(r) ==
  LET l == loop[r]
  IN  /\ l.pc = "polled"
      /\ ~l.hasMoreToolCalls
      /\ l.pending = <<>>
      /\ Step(r, [l EXCEPT !.pc = "followUpPolled", !.pending = FollowUpsTaken], <<>>)
      /\ DequeueFollowUps
      /\ UNCHANGED <<replies, toolTurns>>

AfterFollowUps(r) ==
  LET l == loop[r]
  IN  /\ l.pc = "followUpPolled"
      /\ \/ /\ l.pending # <<>>
            /\ Step(r, BeginTurn(l, l.pending), Announce(l.pending))
         \/ /\ l.pending = <<>>
            /\ Step(r, [l EXCEPT !.pc = "ended"], <<AgentEnd>>)
      /\ UNCHANGED <<queueVars, replies, toolTurns>>

LlmAnswers(r) ==
  \E stop \in {"stop", "toolUse", "error", "aborted"}, k \in 0..MaxCalls : LlmEnd(r, stop, k)

LoopStep(r) ==
  /\ \/ Started(r) \/ LlmStart(r) \/ LlmAnswers(r)
     \/ ToolReturns(r) \/ SkipTools(r) \/ NextTool(r) \/ ToolsDone(r)
     \/ NextTurn(r) \/ PollFollowUps(r) \/ AfterFollowUps(r)
  /\ UNCHANGED disturbed

-----------------------------------------------------------------------------
(* The reader: the `for await` of _runLoop.                                *)

\* What one event does to the agent's state, before the listeners see it.
Shown(e) ==
  CASE e.type = "message_start" -> e.message
    [] e.type \in {"message_end", "agent_end"} -> Nil
    [] OTHER -> streamMessage

Recorded(e) == IF e.type = "message_end" THEN Append(messages, e.message) ELSE messages

CallsAfter(e) ==
  CASE e.type = "tool_execution_start" -> pendingToolCalls \union {e.call}
    [] e.type = "tool_execution_end" -> pendingToolCalls \ {e.call}
    [] OTHER -> pendingToolCalls

\* Mutant: the agent counts as idle when a turn ends.
ReadEventIdleAtTurnEnd(r) ==
  /\ reader[r] = "reading"
  /\ chan[r] # <<>>
  /\ chan' = [chan EXCEPT ![r] = Tail(@)]
  /\ LET e == Head(chan[r])
     IN  /\ isStreaming' = (isStreaming /\ e.type \notin {"turn_end", "agent_end"})
         /\ streamMessage' = Shown(e)
         /\ messages' = Recorded(e)
         /\ pendingToolCalls' = CallsAfter(e)
  /\ UNCHANGED <<controller, runningPrompt, settled, queueVars, loop, reader, aborted, countVars>>

ReadEvent(r) ==
  /\ reader[r] = "reading"
  /\ chan[r] # <<>>
  /\ chan' = [chan EXCEPT ![r] = Tail(@)]
  /\ LET e == Head(chan[r])
     IN  /\ isStreaming' = (isStreaming /\ e.type # "agent_end")
         /\ streamMessage' = Shown(e)
         /\ messages' = Recorded(e)
         /\ pendingToolCalls' = CallsAfter(e)
  /\ UNCHANGED <<controller, runningPrompt, settled, queueVars, loop, reader, aborted, countVars>>

\* Mutant: runningPrompt is dropped before it is resolved.
FinallyDropsResolver(r) ==
  /\ reader' = [reader EXCEPT ![r] = "settled"]
  /\ isStreaming' = FALSE
  /\ streamMessage' = Nil
  /\ pendingToolCalls' = {}
  /\ controller' = 0
  /\ UNCHANGED settled
  /\ runningPrompt' = 0

\* `finally`: it tidies up whatever run the agent's fields belong to now.
Finally(r) ==
  /\ reader' = [reader EXCEPT ![r] = "settled"]
  /\ isStreaming' = FALSE
  /\ streamMessage' = Nil
  /\ pendingToolCalls' = {}
  /\ controller' = 0
  /\ settled' = settled \union ({runningPrompt} \ {0})
  /\ runningPrompt' = 0

\* The stream is done and read to its end.  (The handling of a leftover partial
\* message is not reached: every LLM stream here ends with "done" or "error",
\* so every message_start is followed by its message_end.)
RunSettles(r) ==
  /\ reader[r] = "reading"
  /\ chan[r] = <<>>
  /\ loop[r].pc = "ended"
  /\ Finally(r)
  /\ UNCHANGED <<messages, queueVars, loop, chan, aborted, countVars>>

\* A listener throws on an event: an error message is appended, agent_end is
\* emitted by hand, and the reader is gone while the loop goes on.
ListenerThrows(r) ==
  /\ reader[r] = "reading"
  /\ chan[r] # <<>>
  /\ May("throw", TRUE)
  /\ chan' = [chan EXCEPT ![r] = <<>>]
  /\ LET cause == IF controller # 0 /\ aborted[controller] THEN "aborted" ELSE "error"
     IN  messages' = Append(Recorded(Head(chan[r])), Assistant(0, 0, cause))
  /\ Finally(r)
  /\ UNCHANGED <<queueVars, loop, aborted, countVars>>

ReaderStep(r) == (ReadEvent(r) \/ RunSettles(r)) /\ UNCHANGED disturbed

-----------------------------------------------------------------------------
(* The other calls.                                                        *)

Steer(m) ==
  /\ m \notin sent
  /\ sent' = sent \union {m}
  /\ steeringQueue' = Append(steeringQueue, User(m))
  /\ UNCHANGED <<agentVars, followUpQueue, loop, chan, reader, aborted, runs, replies, toolTurns, forgotten,
                 disturbed>>

FollowUp(m) ==
  /\ m \notin sent
  /\ sent' = sent \union {m}
  /\ followUpQueue' = Append(followUpQueue, User(m))
  /\ UNCHANGED <<agentVars, steeringQueue, loop, chan, reader, aborted, runs, replies, toolTurns, forgotten,
                 disturbed>>

Abort ==
  /\ controller # 0
  /\ ~aborted[controller]
  /\ aborted' = [aborted EXCEPT ![controller] = TRUE]
  /\ UNCHANGED <<agentVars, queueVars, loop, chan, reader, countVars, disturbed>>

Reset ==
  /\ May("reset", Reading \/ \E r \in Runs : Active(r))
  /\ messages # <<>> \/ steeringQueue # <<>> \/ followUpQueue # <<>>
  /\ messages' = <<>>
  /\ isStreaming' = FALSE
  /\ streamMessage' = Nil
  /\ pendingToolCalls' = {}
  /\ steeringQueue' = <<>>
  /\ followUpQueue' = <<>>
  /\ forgotten' = sent
  /\ UNCHANGED <<controller, runningPrompt, settled, loop, chan, reader, aborted,
                 runs, replies, toolTurns, sent>>

Call ==
  \/ \E m \in Msgs : Prompt(m) \/ Steer(m) \/ FollowUp(m)
  \/ Continue \/ Abort \/ Reset

Next ==
  \/ Call
  \/ \E r \in Runs : LoopStep(r) \/ LoopRejects(r) \/ ReaderStep(r) \/ ListenerThrows(r)

Spec == Init /\ [][Next]_vars

\* The LLM and the tools answer in the end, and the runtime runs both sides of a
\* stream; nobody has to call the agent.
FairSpec ==
  Spec /\ \A r \in Runs : WF_vars(LoopStep(r)) /\ WF_vars(ReaderStep(r))

-----------------------------------------------------------------------------
Users == [role : {"user"}, id : Msgs]
Assistants ==
  [role : {"assistant"}, id : Nat, calls : 0..MaxCalls,
   stop : {"partial", "stop", "toolUse", "error", "aborted"}]
Calls == Nat \X (1..MaxCalls)
ToolResults == [role : {"toolResult"}, call : Calls]
Messages == Users \union Assistants \union ToolResults
Events ==
  [type : {"message_start", "message_end"}, message : Messages]
    \union [type : {"tool_execution_start", "tool_execution_end"}, call : Calls]
    \union [type : {"turn_end", "agent_end"}]
Loops ==
  [pc : {"none", "started", "request", "streaming", "tool", "toolPolled", "polled",
         "followUpPolled", "ended", "rejected"},
   ctx : Seq(Messages), pending : Seq(Users), reply : Nat, calls : 0..MaxCalls,
   next : 0..MaxCalls, results : Seq(ToolResults), hasMoreToolCalls : BOOLEAN]

\* Types of the variables: the agent's fields, the runs and their streams.
TypeOK ==
  /\ isStreaming \in BOOLEAN
  /\ streamMessage \in Messages \union {Nil}
  /\ pendingToolCalls \subseteq Calls
  /\ messages \in Seq(Messages)
  /\ steeringQueue \in Seq(Users)
  /\ followUpQueue \in Seq(Users)
  /\ controller \in 0..MaxRuns
  /\ runningPrompt \in 0..MaxRuns
  /\ settled \subseteq Runs
  /\ loop \in [Runs -> Loops]
  /\ chan \in [Runs -> Seq(Events)]
  /\ reader \in [Runs -> {"none", "reading", "settled"}]
  /\ aborted \in [Runs -> BOOLEAN]
  /\ runs \in 0..MaxRuns
  /\ replies \in Nat
  /\ toolTurns \in Nat
  /\ sent \subseteq Msgs
  /\ forgotten \subseteq sent
  /\ disturbed \subseteq Disturbances

-----------------------------------------------------------------------------
(* What must hold.                                                         *)

\* Whenever the loop asks the LLM, every tool call of the context has its result
\* right behind the message that made it, in order and once, whether the tool
\* ran, failed or was skipped for a steering message (unless a run was abandoned by
\* a listener or hook, or overtaken).  Only a message that ended in an error or an
\* abort leaves its calls unanswered.
Answered(ctx, i) ==
  /\ i + ctx[i].calls <= Len(ctx)
  /\ \A k \in 1..ctx[i].calls : ctx[i + k] = ToolResult(ctx[i].id, k)
  /\ i + ctx[i].calls < Len(ctx) => ctx[i + ctx[i].calls + 1].role # "toolResult"

ToolCallsAnswered ==
  \A r \in Runs : disturbed \subseteq {"reset"} /\ loop[r].pc = "request" =>
    \A i \in DOMAIN loop[r].ctx :
      IsAssistant(loop[r].ctx[i]) /\ loop[r].ctx[i].stop = "toolUse" => Answered(loop[r].ctx, i)

\* The messages whose message_end is still on its way to the reader, in order: the
\* k-th is that of the k-th message_end.
Ends(events) == {i \in DOMAIN events : events[i].type = "message_end"}
Place(events, k) == CHOOSE i \in Ends(events) : Cardinality({j \in Ends(events) : j <= i}) = k
Ended(events) == [k \in 1..Cardinality(Ends(events)) |-> events[Place(events, k)].message]

OnTheWay(r) == Ended(chan[r])

\* What the loop has completed: its context without the partial message, and the
\* tool results it has not put there yet.
Completed(r) ==
  LET ctx == loop[r].ctx
  IN  (IF loop[r].pc = "streaming" THEN SubSeq(ctx, 1, Len(ctx) - 1) ELSE ctx)
        \o loop[r].results

\* The transcript the agent shows follows the context the loop sends: once the
\* reader has caught up with the events under way, state.messages is what the
\* loop has completed, although the two keep separate copies (a reset, or an
\* abandoned run that goes on, takes them apart).
TranscriptFollowsLoop ==
  \A r \in Runs :
    disturbed \subseteq {"reject"} /\ r = runs /\ reader[r] = "reading"
      => messages \o OnTheWay(r) = Completed(r)

\* Where message m is in a sequence of messages, and how often it is there.
At(m, s) == {i \in DOMAIN s : s[i] = User(m)}
Occurrences(m, s) == Cardinality(At(m, s))

\* The conversation as the code under way has it: the context of the loop while
\* its run is read, else the agent's messages.
Conversation ==
  IF runs > 0 /\ reader[runs] = "reading" THEN loop[runs].ctx ELSE messages

\* Where message m is: in a queue, taken out by a loop that has not injected it
\* yet, or in the conversation.
Copies(m) ==
  ({"steering"} \X {0} \X At(m, steeringQueue))
    \union ({"followUp"} \X {0} \X At(m, followUpQueue))
    \union ({"conversation"} \X {0} \X At(m, Conversation))
    \union UNION {{"pending"} \X {r} \X At(m, loop[r].pending) : r \in Runs}

\* A message the callers handed over is never lost or sent twice: it is in one
\* queue, held by one loop, or in the conversation once, whichever way it went,
\* until a reset() forgets it, and however that falls.
EachMessageOnce ==
  disturbed \subseteq {"reset"} => \A m \in sent \ forgotten : Cardinality(Copies(m)) = 1

\* No message is put twice into what the LLM is sent, nor is one that the LLM was
\* sent still waiting in a queue, however the calls, the resets and the failures
\* of listeners and hooks fall.
NeverSentTwice ==
  \A m \in Msgs, r \in Runs :
     Occurrences(m, loop[r].ctx) + Occurrences(m, steeringQueue) + Occurrences(m, followUpQueue) <= 1

\* isStreaming and the abort controller belong to the run under way, until its
\* agent_end was read: this is what prompt(), continue() and abort() go by.
FlagsFollowRun ==
  disturbed \subseteq {"reject"} => \A r \in Runs : reader[r] = "reading" /\ (Active(r) \/ chan[r] # <<>>)
                    => isStreaming /\ controller = r /\ runningPrompt = r

\* prompt() and continue() refuse while a run is under way: no two loops work on the
\* conversation at once.  It does not hold for callers that do not wait for a run to
\* settle, such as an agent_end listener.
OneLoop == \A r, q \in Runs : Active(r) /\ Active(q) => r = q

\* Among callers that wait for the run before, that is so.
OneLoopIfPatient == disturbed \subseteq {"reject"} => OneLoop

\* waitForIdle() resolves only when the run it was asked about is over.
IdleMeansSettled ==
  disturbed \subseteq {"reset", "reject"} => \A r \in settled : reader[r] = "settled"

\* prompt() and continue() come back, and so does a waitForIdle() on that run: also
\* when listeners throw and the agent is reset, with patient callers and no hook that
\* rejects.
RunsSettleUnlessRejected ==
  \A r \in Runs : reader[r] = "reading" ~>
    (reader[r] = "settled" /\ r \in settled) \/ ~(disturbed \subseteq {"reset", "throw"})

\* The agent's own picture of its run is right: its flags belong to the run under
\* way, so that prompt() and continue() start no second one, and who waits for idle
\* waits for the end of it.
RunsAreTracked == TypeOK /\ FlagsFollowRun /\ OneLoopIfPatient /\ IdleMeansSettled

\* prompt() and continue() come back, whatever fails: this does not hold (a hook that
\* rejects leaves nobody to end the stream), and RunsSettleUnlessRejected is what does.
EveryRunSettles == \A r \in Runs : reader[r] = "reading" ~> (reader[r] = "settled" /\ r \in settled)
=============================================================================
