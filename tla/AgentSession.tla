---------------------------- MODULE AgentSession ----------------------------
(***************************************************************************)
(* AgentSession (packages/coding-agent/src/core/agent-session.ts): what     *)
(* stands between the agent and the session.  It hears the agent's events,  *)
(* puts them on a promise chain (_agentEventQueue), and works on them one   *)
(* after another: the extensions are asked first, however long they take,   *)
(* then messages are persisted, failed runs are tried again, and a context  *)
(* that grew too large is compacted.  Meanwhile callers prompt, abort, run  *)
(* shell commands, send custom messages, compact, begin, switch and fork    *)
(* sessions.                                                                *)
(*                                                                         *)
(* The agent is what module Agent shows of it to a patient caller: one run  *)
(* at a time, isStreaming until its agent_end.  The session is one branch   *)
(* of module SessionTree.  Of events only message_end and agent_end are     *)
(* worked on.  Queued (steering, follow-up, next turn) messages are left    *)
(* out, and so are entries that are no messages.  Automatic retries and     *)
(* compaction are enabled.                                                  *)
(* An await that only gets an API key for a compaction, or tells the        *)
(* extensions of its end, is taken together with the step before it.  Fork  *)
(* is without skipConversationRestore, newSession() without setup.          *)
(***************************************************************************)
EXTENDS Naturals, Sequences, FiniteSets, SequencesExt

CONSTANTS Prompts,       \* calls of prompt()
          Commands,      \* shell commands of the user and custom messages of extensions
          Exceptions,    \* which of the things below callers and listeners do
          Nil,           \* null
          MaxRetries,    \* settings.maxRetries
          MaxFailures,   \* bound: answers that are tried again or too long
          MaxToolTurns,  \* bound: answers that call a tool
          MaxSessions,   \* bound: sessions
          MaxCompactions \* bound: compactions

(***************************************************************************)
(* Callers, listeners and the LLM may                                      *)
(* "overlap"   prompt() while something is still under way                 *)
(* "cut"       compact() while a run or prompt() is under way              *)
(* "throw"     throw                                                       *)
(* "resume"    switch to an earlier session                                *)
(* "fork"      fork the session                                            *)
(* "custom"    send a custom message                                       *)
(* "long"      answer all the same when the context is too long            *)
(***************************************************************************)
ASSUME AgentSessionAssumption ==
  /\ Exceptions \subseteq {"overlap", "cut", "throw", "resume", "fork", "custom", "long"}
  /\ MaxRetries \in Nat /\ MaxFailures \in Nat /\ MaxToolTurns \in Nat
  /\ MaxSessions \in Nat /\ MaxCompactions \in Nat
  /\ Prompts \intersect {"events", "user", "timer", Nil} = {}

VARIABLES
  \* The agent.
  messages, isStreaming,
  run,             \* its loop: "none", or waiting for the "llm" or a "tool"
  awaitedBy,       \* who called prompt() or continue(): a prompt, "timer" or nobody here
  aborted,         \* the run's signal
  \* The session.
  session,         \* its number
  log,             \* its entries
  loaded,          \* the messages read from a session switched to or forked, until the agent gets them
  \* The AgentSession object.
  queue,           \* _agentEventQueue; the head is being worked on
  working,         \* at the head: "extension", "sleeping" or "compacting"
  lastAssistant, retryAttempt,
  retryPromise,    \* the message it was made for, 0 when undefined
  sleepAborted,    \* the signal of _retryAbortController
  pendingBash,     \* _pendingBashMessages
  connected,       \* whether it is subscribed to the agent
  compacting,      \* compacting[o]: the compaction o waits for
  \* The callers and timers.
  place,           \* place[p]: where prompt p is
  waitsFor,        \* waitsFor[p]: the retryPromise it awaits
  op,              \* "none", "newSession", "switchSession", "restoring", "fork" or "compact"
  settling,        \* it waits for the run that it aborted
  timers,          \* the setTimeout()s under way that call agent.continue()
  \* Counters and bookkeeping.
  made, failures, toolTurns, compactions, ran,
  happened         \* what the properties make an exception for

agentVars == <<isStreaming, run, awaitedBy, aborted>>
retryVars == <<retryAttempt, retryPromise, sleepAborted>>
promptVars == <<place, waitsFor>>
opVars == <<op, settling, loaded>>
countVars == <<failures, toolTurns, compactions, ran>>
vars == <<messages, agentVars, session, log, queue, working, lastAssistant, retryVars, pendingBash,
          connected, compacting, promptVars, opVars, timers, made, countVars, happened>>

\* Who waits for a compaction: a prompt, the event queue or the caller of compact().
Owners == Prompts \union {"events", "user"}

-----------------------------------------------------------------------------
(* Messages, events and the session.                                       *)

Roles == {"user", "assistant", "toolResult", "bash", "custom"}
Stops == {"stop", "long", "toolUse", "aborted", "retryable", "overflow", "fatal"}
Messages == [role : Roles, id : Nat, stop : Stops \union {"none"}]
Entries == Messages \union [role : {"compaction"}, id : Nat, stop : {"none"}, kept : Nat]

\* null is none of the values it stands in for.
ASSUME NilAssumption == Nil \notin [kept : Nat, willRetry : BOOLEAN] \union Seq(Entries)

Message(role, n) == [role |-> role, id |-> n, stop |-> "none"]
Assistant(stop, n) == [role |-> "assistant", id |-> n, stop |-> stop]

\* "retryable": overloaded, rate limit, network; "overflow": the context is too long;
\* "long": an answer all the same, whose usage shows that it was.
IsError(m) == m.stop \in {"retryable", "overflow", "fatal"}
IsAssistant(m) == m.role = "assistant"

MessageEnd(m) == [type |-> "message_end", message |-> m]
AgentEnd == [type |-> "agent_end"]
Events == [type : {"message_end"}, message : Messages] \union {AgentEnd}

Compaction(n, kept) == [role |-> "compaction", id |-> n, stop |-> "none", kept |-> kept]
IsCompaction(e) == e.role = "compaction"

\* The last of some places, or 0.
LastPlace(places) == IF places = {} THEN 0 ELSE CHOOSE i \in places : \A j \in places : j <= i

\* What a sequence has at some places, in their order.
Nth(places, k) == CHOOSE i \in places : Cardinality({j \in places : j <= i}) = k
Picked(s, places) == [k \in 1..Cardinality(places) |-> s[Nth(places, k)]]

LastCompaction(entries) == LastPlace({i \in DOMAIN entries : IsCompaction(entries[i])})

\* buildSessionContext(): the last compaction's summary, what it keeps of the
\* entries before it, and what came after it.
Kept(entries, c) ==
  {i \in DOMAIN entries : /\ ~IsCompaction(entries[i])
                          /\ i > c \/ \E k \in 1..i : k <= c /\ entries[k].id = entries[c].kept}
Context(entries) ==
  LET c == LastCompaction(entries)
  IN  (IF c = 0 THEN <<>> ELSE <<entries[c]>>) \o Picked(entries, Kept(entries, c))

\* The messages whose events wait to be worked on.
Ends(events) == {i \in DOMAIN events : events[i].type = "message_end"}
Waiting(events) == [k \in 1..Cardinality(Ends(events)) |-> events[Nth(Ends(events), k)].message]
Unsaved == Waiting(queue)

\* The message that a failed run ended with is taken out of the agent's state.
DropLastAssistant(ms) == IF ms # <<>> /\ IsAssistant(Last(ms)) THEN Front(ms) ELSE ms

\* What befalls a behaviour is noted, for the properties to make an exception of:
\* besides what May allows (below)
\* "abort"     a run was aborted
\* "behind"    entries went into the session, or another took its place, while
\*             events waited
\* "apart"     something was said while the agent's messages were being replaced
\* "dropped"   an answer was taken for an error and taken out of the messages
\* "orphaned"  a new session began while a compaction was under way
\* "unheard"   a tool call was made while the session did not listen
\* "early"     a retried run went on with a tool call after the retry's answer
\* "gaveUp"    a retry was promised and will not be made
\* "raced"     a run began before the end of the last one was dealt with: a prompt and
\*             the compaction before it, which both begin one, do so
Note(kinds) == happened' = happened \union kinds

\* A caller or listener does what may befall the session.  (Bound: in one of these
\* ways only.)
May(kinds) ==
  /\ kinds \subseteq Exceptions
  /\ kinds # {} => happened \intersect Exceptions \subseteq kinds

When(condition, kind) == IF condition THEN {kind} ELSE {}

\* Another session is there and the agent has not got its messages, or is not heard yet.
Apart == When(loaded # Nil \/ op = "restoring", "apart")

\* A session that was there before, to switch to.
Earlier == <<Message("user", 1), Assistant("stop", 2)>>

Places ==
  {"none", "called", "rejected", "ready", "compacting", "running", "settled", "waiting", "returned"}

Init ==
  /\ messages = <<>> /\ isStreaming = FALSE /\ run = "none" /\ awaitedBy = Nil /\ aborted = FALSE
  /\ session = 1 /\ log = <<>> /\ loaded = Nil
  /\ queue = <<>> /\ working = "extension"
  /\ lastAssistant = Nil /\ retryAttempt = 0 /\ retryPromise = 0 /\ sleepAborted = FALSE
  /\ pendingBash = <<>> /\ connected = TRUE
  /\ compacting = [o \in Owners |-> Nil]
  /\ place = [p \in Prompts |-> "none"] /\ waitsFor = [p \in Prompts |-> 0]
  /\ op = "none" /\ settling = FALSE /\ timers = [retry |-> 0, compaction |-> 0]
  /\ made = Len(Earlier) /\ failures = 0 /\ toolTurns = 0 /\ compactions = 0 /\ ran = {}
  /\ happened = {}

-----------------------------------------------------------------------------
(* The agent's run and what _handleAgentEvent does at once.                *)

\* agent.prompt(ms) or agent.continue(), whose prompts are announced at once.
StartRun(by, ms) ==
  /\ isStreaming' = TRUE
  /\ run' = "llm"
  /\ awaitedBy' = by
  /\ aborted' = FALSE
  /\ messages' = messages \o ms
  /\ made' = made + Len(ms)
  /\ queue' = IF connected THEN queue \o [i \in DOMAIN ms |-> MessageEnd(ms[i])] ELSE queue

\* Mutant: the retry promise is made when agent_end is worked on.
RetryPromisedLater(m) == retryPromise

\* _createRetryPromiseForAgentEnd: in the handler itself, before the event waits.
RetryPromised(m) ==
  IF connected /\ retryPromise = 0 /\ m.stop = "retryable" THEN m.id ELSE retryPromise

\* The LLM answers.  Without a tool call the run ends, and prompt() or continue() settles.
LlmAnswers(stop) ==
  LET m == Assistant(stop, made + 1)
      events == <<MessageEnd(m)>> \o (IF stop = "toolUse" THEN <<>> ELSE <<AgentEnd>>)
  IN  /\ run = "llm"
      /\ stop = "aborted" => aborted
      /\ stop = "long" => May({"long"})
      /\ stop \in {"retryable", "overflow", "long"} => failures < MaxFailures
      /\ stop = "toolUse" => toolTurns < MaxToolTurns
      /\ failures' = IF stop \in {"retryable", "overflow", "long"} THEN failures + 1 ELSE failures
      /\ toolTurns' = IF stop = "toolUse" THEN toolTurns + 1 ELSE toolTurns
      /\ made' = made + 1
      /\ messages' = Append(messages, m)
      /\ queue' = IF connected THEN queue \o events ELSE queue
      /\ IF stop = "toolUse"
         THEN run' = "tool" /\ UNCHANGED <<isStreaming, awaitedBy, settling, place, retryPromise>>
         ELSE /\ run' = "none"
              /\ isStreaming' = FALSE
              /\ awaitedBy' = Nil
              /\ settling' = FALSE
              /\ place' = IF awaitedBy \in Prompts THEN [place EXCEPT ![awaitedBy] = "settled"] ELSE place
              /\ retryPromise' = RetryPromised(m)
      /\ Note(When(~connected /\ stop # "toolUse" /\ retryPromise # 0, "gaveUp") \union
              When(~connected /\ stop = "toolUse", "unheard") \union When(stop = "long", "long"))
      /\ UNCHANGED <<aborted, session, log, working, lastAssistant, retryAttempt, sleepAborted, pendingBash,
                     connected, compacting, waitsFor, op, loaded, timers, compactions, ran>>

ToolReturns ==
  LET m == Message("toolResult", made + 1)
  IN  /\ run = "tool"
      /\ run' = "llm"
      /\ made' = made + 1
      /\ messages' = Append(messages, m)
      /\ queue' = IF connected THEN Append(queue, MessageEnd(m)) ELSE queue
      /\ UNCHANGED <<isStreaming, awaitedBy, aborted, session, log, working, lastAssistant, retryVars,
                     pendingBash, connected, compacting, promptVars, opVars, timers, countVars, happened>>

-----------------------------------------------------------------------------
(* Compaction.  The signal, a missing API key and an extension that cancels *)
(* all make it end without a result.                                        *)

\* Mutant: the boundary is taken from the agent's messages.
CutPointsOfAgent(entries) == {messages[i].id : i \in {j \in DOMAIN messages : messages[j].role # "toolResult"}}

\* prepareCompaction: the entry a compaction may keep the session from.
CutPoints(entries) ==
  LET c == LastCompaction(entries)
      since == {i \in DOMAIN entries : i > c}
      valid == {i \in since : entries[i].role # "toolResult"}
  IN  {entries[i].id : i \in IF valid = {} THEN {j \in since : j = c + 1} ELSE valid}

\* _runAutoCompaction and compact() up to the summary: the kept entry is chosen
\* from the branch as it is now.
Prepare(o, willRetry) ==
  /\ compactions < MaxCompactions
  /\ compactions' = compactions + 1
  /\ \E kept \in CutPoints(log) :
       compacting' = [compacting EXCEPT ![o] = [kept |-> kept, willRetry |-> willRetry]]

\* _checkCompaction: an overflow that no compaction has dealt with yet ...
Overflowed(m) ==
  m.stop \in {"overflow", "long"} /\ \A i \in DOMAIN log : IsCompaction(log[i]) => log[i].id < m.id

\* ... or an answer that shows a long context.
MayBeLong(m, skipAborted) == ~IsError(m) /\ (skipAborted => m.stop # "aborted")

\* _checkCompaction(m, skipAborted), called by o, compacts ...
Compacts(o, m, skipAborted) ==
  \/ /\ Overflowed(m)
     /\ messages' = DropLastAssistant(messages)
     /\ Prepare(o, TRUE)
  \/ /\ MayBeLong(m, skipAborted) /\ ~Overflowed(m)
     /\ Prepare(o, FALSE)
     /\ UNCHANGED messages

\* What DropLastAssistant takes out need not be the answer that failed.
Dropped == When(messages # <<>> /\ IsAssistant(Last(messages)) /\ ~IsError(Last(messages)), "dropped")
DroppedFor(m) == IF Overflowed(m) THEN Dropped ELSE {}

\* ... or finds nothing to do, or nothing to do it with.
CompactsNot(m) ==
  /\ messages' = IF Overflowed(m) THEN DropLastAssistant(messages) ELSE messages
  /\ UNCHANGED <<compacting, compactions>>

\* Mutant: the agent goes on with the messages it had.
NotReloaded(entries, willRetry) == messages

\* The messages of the session as it is now become the agent's; after an overflow
\* without the message that failed.
Reloaded(entries, willRetry) ==
  LET ms == Context(entries)
  IN  IF willRetry /\ IsError(Last(ms)) THEN Front(ms) ELSE ms

\* Whoever waited for the compaction goes on.
GoesOn(o) ==
  /\ compacting' = [compacting EXCEPT ![o] = Nil]
  /\ queue' = IF o = "events" THEN Tail(queue) ELSE queue
  /\ working' = IF o = "events" THEN "extension" ELSE working
  /\ place' = IF o \in Prompts THEN [place EXCEPT ![o] = "ready"] ELSE place
  /\ connected' = (connected \/ o = "user")
  /\ op' = IF o = "user" THEN "none" ELSE op
  /\ UNCHANGED <<agentVars, session, loaded, lastAssistant, retryVars, pendingBash, waitsFor, settling,
                 countVars>>

\* The summary is there: the compaction is appended to the session, whatever
\* session that is now, and an overflowed run is tried again later.
CompactionEnds(o) ==
  LET c == compacting[o]
  IN  /\ c # Nil
      /\ made' = made + 1
      /\ log' = Append(log, Compaction(made + 1, c.kept))
      /\ messages' = Reloaded(log', c.willRetry)
      /\ timers' = IF c.willRetry THEN [timers EXCEPT !.compaction = @ + 1] ELSE timers
      /\ GoesOn(o)
      /\ Note(When(Unsaved # <<>>, "behind") \union Apart)

\* No summary: it failed, or was cancelled.
CompactionFails(o) ==
  LET c == compacting[o]
  IN  /\ c # Nil
      /\ GoesOn(o)
      /\ UNCHANGED <<messages, log, timers, made>>
      /\ Note(When(c.willRetry /\ retryPromise # 0, "gaveUp"))

-----------------------------------------------------------------------------
(* _processAgentEvent: the head of the queue, once the extensions have      *)
(* answered.                                                               *)

HeadIs(type) == queue # <<>> /\ working = "extension" /\ Head(queue).type = type

\* Mutant: without the promise chain, events are worked on as the extensions answer.
HandleMessageEndUnchained ==
  \E i \in DOMAIN queue :
    /\ working = "extension"
    /\ queue[i].type = "message_end"
    /\ queue' = RemoveAt(queue, i)
    /\ log' = Append(log, queue[i].message)
    /\ lastAssistant' = IF IsAssistant(queue[i].message) THEN queue[i].message ELSE lastAssistant
    /\ UNCHANGED <<messages, agentVars, session, working, retryVars, pendingBash, connected, compacting,
                   promptVars, opVars, timers, made, countVars, happened>>

\* A message is persisted; an answer that is no error ends the retries.
HandleMessageEnd ==
  LET m == Head(queue).message
      recovered == IsAssistant(m) /\ ~IsError(m) /\ retryAttempt > 0
  IN  /\ HeadIs("message_end")
      /\ queue' = Tail(queue)
      /\ log' = Append(log, m)
      /\ lastAssistant' = IF IsAssistant(m) THEN m ELSE lastAssistant
      /\ retryAttempt' = IF recovered THEN 0 ELSE retryAttempt
      /\ retryPromise' = IF recovered THEN 0 ELSE retryPromise
      /\ Note(When(recovered /\ m.stop = "toolUse", "early"))
      /\ UNCHANGED <<messages, agentVars, session, working, sleepAborted, pendingBash, connected,
                     compacting, promptVars, opVars, timers, made, countVars>>

\* _handleRetryableError, up to the backoff.
RetryStarts(m) ==
  /\ m.stop = "retryable"
  /\ retryAttempt < MaxRetries
  /\ retryAttempt' = retryAttempt + 1
  /\ retryPromise' = IF retryPromise = 0 THEN m.id ELSE retryPromise
  /\ messages' = DropLastAssistant(messages)
  /\ working' = "sleeping"
  /\ Note(Dropped)
  /\ UNCHANGED <<queue, compacting, compactions>>

\* Mutant: nobody is told that the retries are over.
RetriesExhaustedSilently(m) ==
  /\ m.stop = "retryable"
  /\ retryAttempt >= MaxRetries
  /\ retryAttempt' = 0
  /\ queue' = Tail(queue)
  /\ UNCHANGED <<messages, working, compacting, compactions, happened, retryPromise>>

\* _handleRetryableError after the last attempt; an error is not compacted.
RetriesExhausted(m) ==
  /\ m.stop = "retryable"
  /\ retryAttempt >= MaxRetries
  /\ retryAttempt' = 0
  /\ retryPromise' = 0
  /\ queue' = Tail(queue)
  /\ UNCHANGED <<messages, working, compacting, compactions, happened>>

\* A run that ended otherwise is looked at for its length.
RunChecked(m) ==
  /\ m.stop # "retryable"
  /\ \/ /\ Compacts("events", m, TRUE)
        /\ working' = "compacting"
        /\ Note(DroppedFor(m))
        /\ UNCHANGED queue
     \/ /\ CompactsNot(m)
        /\ queue' = Tail(queue)
        /\ Note(When(IsError(m) /\ retryPromise # 0, "gaveUp") \union DroppedFor(m))
        /\ UNCHANGED working
  /\ UNCHANGED <<retryAttempt, retryPromise>>

HandleAgentEnd ==
  /\ HeadIs("agent_end")
  /\ lastAssistant' = Nil
  /\ IF lastAssistant = Nil
     THEN /\ queue' = Tail(queue)
          /\ UNCHANGED <<messages, retryAttempt, retryPromise, working, compacting, compactions, happened>>
     ELSE RetryStarts(lastAssistant) \/ RetriesExhausted(lastAssistant) \/ RunChecked(lastAssistant)
  /\ UNCHANGED <<agentVars, session, log, sleepAborted, pendingBash, connected, promptVars, opVars, timers,
                 made, failures, toolTurns, ran>>

\* A listener of the session throws: the event counts as worked on.
ListenerThrows ==
  /\ queue # <<>>
  /\ working = "extension"
  /\ queue' = Tail(queue)
  /\ May({"throw"})
  /\ Note({"throw"})
  /\ UNCHANGED <<messages, agentVars, session, log, working, lastAssistant, retryVars, pendingBash,
                 connected, compacting, promptVars, opVars, timers, made, countVars>>

\* The backoff is over, or was aborted.
SleepEnds ==
  /\ working = "sleeping"
  /\ working' = "extension"
  /\ queue' = Tail(queue)
  /\ sleepAborted' = FALSE
  /\ IF sleepAborted
     THEN retryAttempt' = 0 /\ retryPromise' = 0 /\ UNCHANGED timers
     ELSE timers' = [timers EXCEPT !.retry = @ + 1] /\ UNCHANGED <<retryAttempt, retryPromise>>
  /\ UNCHANGED <<messages, agentVars, session, log, lastAssistant, pendingBash, connected, compacting,
                 promptVars, opVars, made, countVars, happened>>

\* newSession() or switchSession() has nothing to wait for any more: it goes on before
\* others do.
SessionIsNext == op \in {"newSession", "switchSession"} /\ ~settling /\ loaded = Nil

\* So does a prompt whose run has settled, or whose retry promise is resolved: before
\* any timer fires.
PromptIsNext(p) == place[p] = "settled" \/ (place[p] = "waiting" /\ retryPromise # waitsFor[p])

\* The run before is not over yet when the next one begins.
Raced == When(queue # <<>> \/ timers.retry > 0, "raced")

\* agent.continue() throws while a run is under way and when there is nothing to
\* continue from.
Refused == isStreaming \/ messages = <<>> \/ IsAssistant(Last(messages))

\* It is called by a timer, which catches the error and forgets it.
TimerFires(kind) ==
  /\ timers[kind] > 0
  /\ ~SessionIsNext
  /\ \A p \in Prompts : ~PromptIsNext(p)
  /\ timers' = [timers EXCEPT ![kind] = @ - 1]
  /\ IF Refused THEN UNCHANGED <<messages, agentVars, queue, made>> ELSE StartRun("timer", <<>>)
  /\ Note(When(Refused /\ ~isStreaming /\ retryPromise # 0, "gaveUp") \union Apart \union
          IF kind = "compaction" /\ ~Refused THEN Raced ELSE {})
  /\ UNCHANGED <<session, log, working, lastAssistant, retryVars, pendingBash, connected, compacting,
                 promptVars, opVars, countVars>>

-----------------------------------------------------------------------------
(* The callers.                                                            *)

\* Nothing is under way that a prompt could meet.
Quiet ==
  /\ queue = <<>> /\ ~isStreaming /\ op = "none" /\ timers = [retry |-> 0, compaction |-> 0]
  /\ \A o \in Owners : compacting[o] = Nil
  /\ \A p \in Prompts : place[p] \in {"none", "returned", "rejected"}

\* prompt() up to the question for the API key; during a run it would queue the
\* message or throw.  The results of shell commands that were put off are recorded.
Prompt(p) ==
  /\ place[p] = "none"
  /\ ~isStreaming
  /\ place' = [place EXCEPT ![p] = "called"]
  /\ messages' = messages \o pendingBash
  /\ log' = log \o pendingBash
  /\ pendingBash' = <<>>
  /\ May(When(~Quiet, "overlap"))
  /\ Note(When(~Quiet, "overlap") \union When(pendingBash # <<>> /\ Unsaved # <<>>, "behind"))
  /\ UNCHANGED <<agentVars, session, queue, working, lastAssistant, retryVars, connected, compacting,
                 waitsFor, opVars, timers, made, countVars>>

\* The check whether to compact before the prompt, aborted answers included, or no
\* API key.
PromptChecks(p) ==
  LET last == LastPlace({i \in DOMAIN messages : IsAssistant(messages[i])})
  IN  /\ place[p] = "called"
      /\ \/ /\ place' = [place EXCEPT ![p] = "rejected"]
            /\ UNCHANGED <<messages, compacting, compactions>>
         \/ /\ last = 0
            /\ place' = [place EXCEPT ![p] = "ready"]
            /\ UNCHANGED <<messages, compacting, compactions>>
         \/ /\ last # 0
            /\ CompactsNot(messages[last])
            /\ place' = [place EXCEPT ![p] = "ready"]
         \/ /\ last # 0
            /\ Compacts(p, messages[last], FALSE)
            /\ place' = [place EXCEPT ![p] = "compacting"]
      /\ Note(IF place'[p] # "rejected" /\ last # 0 THEN DroppedFor(messages[last]) ELSE {})
      /\ UNCHANGED <<agentVars, session, log, queue, working, lastAssistant, retryVars, pendingBash,
                     connected, waitsFor, opVars, timers, made, failures, toolTurns, ran>>

\* The extensions have seen before_agent_start: agent.prompt(), which throws when a
\* run has begun meanwhile.
PromptSends(p) ==
  /\ place[p] = "ready"
  /\ ~SessionIsNext
  /\ IF isStreaming
     THEN place' = [place EXCEPT ![p] = "rejected"] /\ UNCHANGED <<messages, agentVars, queue, made>>
     ELSE place' = [place EXCEPT ![p] = "running"] /\ StartRun(p, <<Message("user", made + 1)>>)
  /\ Note(Apart \union IF isStreaming THEN {} ELSE Raced)
  /\ UNCHANGED <<session, log, working, lastAssistant, retryVars, pendingBash, connected, compacting,
                 waitsFor, opVars, timers, countVars>>

\* waitForRetry() after the run.
PromptWaits(p) ==
  /\ place[p] = "settled"
  /\ place' = [place EXCEPT ![p] = IF retryPromise = 0 THEN "returned" ELSE "waiting"]
  /\ waitsFor' = [waitsFor EXCEPT ![p] = retryPromise]
  /\ UNCHANGED <<messages, agentVars, session, log, queue, working, lastAssistant, retryVars, pendingBash,
                 connected, compacting, opVars, timers, made, countVars, happened>>

PromptReturns(p) ==
  /\ place[p] = "waiting"
  /\ retryPromise # waitsFor[p]
  /\ place' = [place EXCEPT ![p] = "returned"]
  /\ waitsFor' = [waitsFor EXCEPT ![p] = 0]
  /\ UNCHANGED <<messages, agentVars, session, log, queue, working, lastAssistant, retryVars, pendingBash,
                 connected, compacting, opVars, timers, made, countVars, happened>>

\* abort(): abortRetry() and agent.abort().
Cancelled ==
  /\ sleepAborted' = (working = "sleeping")
  /\ retryPromise' = 0
  /\ aborted' = isStreaming
  /\ UNCHANGED <<retryAttempt, isStreaming, run, awaitedBy>>

Abort ==
  /\ isStreaming \/ retryPromise # 0
  /\ Cancelled
  /\ Note({"abort"})
  /\ UNCHANGED <<messages, session, log, queue, working, lastAssistant, pendingBash, connected, compacting,
                 promptVars, opVars, timers, made, countVars>>

\* Mutant: the result is recorded at once, also during a run.
BashAtOnce(b) ==
  LET m == Message("bash", made + 1)
  IN  /\ b \notin ran
      /\ ran' = ran \union {b}
      /\ made' = made + 1
      /\ messages' = Append(messages, m)
      /\ log' = Append(log, m)
      /\ Note(When(Unsaved # <<>>, "behind"))
      /\ UNCHANGED <<agentVars, session, queue, working, lastAssistant, retryVars, pendingBash, connected,
                     compacting, promptVars, opVars, timers, failures, toolTurns, compactions>>

\* recordBashResult(): put off during a run.
Bash(b) ==
  LET m == Message("bash", made + 1)
  IN  /\ b \notin ran
      /\ ran' = ran \union {b}
      /\ made' = made + 1
      /\ IF isStreaming
         THEN pendingBash' = Append(pendingBash, m) /\ UNCHANGED <<messages, log, happened>>
         ELSE /\ messages' = Append(messages, m)
              /\ log' = Append(log, m)
              /\ UNCHANGED pendingBash
              /\ Note(When(Unsaved # <<>>, "behind") \union Apart)
      /\ UNCHANGED <<agentVars, session, queue, working, lastAssistant, retryVars, connected, compacting,
                     promptVars, opVars, timers, failures, toolTurns, compactions>>

\* sendCustomMessage() while no run is under way: recorded, or what a run begins with.
\* (Bound: the run begins when nothing else is under way; prompts do it at other times.)
SendCustomMessage(b) ==
  LET m == Message("custom", made + 1)
  IN  /\ b \notin ran /\ ~isStreaming /\ ~SessionIsNext
      /\ ran' = ran \union {b}
      /\ May({"custom"})
      /\ \/ /\ made' = made + 1
            /\ messages' = Append(messages, m)
            /\ log' = Append(log, m)
            /\ Note({"custom"} \union When(Unsaved # <<>>, "behind") \union Apart)
            /\ UNCHANGED <<agentVars, queue>>
         \/ /\ Quiet
            /\ StartRun(Nil, <<m>>)
            /\ Note({"custom"})
            /\ UNCHANGED log
      /\ UNCHANGED <<session, working, lastAssistant, retryVars, pendingBash, connected, compacting,
                     promptVars, opVars, timers, failures, toolTurns, compactions>>

\* newSession(), switchSession() and compact() leave the agent's events alone and abort
\* the run ...
Interrupt(operation) ==
  /\ op = "none"
  /\ op' = operation
  /\ settling' = isStreaming
  /\ connected' = FALSE
  /\ Cancelled
  /\ UNCHANGED <<messages, session, log, loaded, queue, working, lastAssistant, pendingBash, compacting,
                 promptVars, timers, made, countVars>>

BeginOtherSession ==
  /\ session < MaxSessions
  /\ \/ Interrupt("newSession") /\ Note({"abort"})
     \/ Interrupt("switchSession") /\ May({"resume"}) /\ Note({"abort", "resume"})

BeginCompact ==
  /\ compactions < MaxCompactions
  /\ Interrupt("compact")
  /\ May(When(~Quiet, "cut"))
  /\ Note({"abort"} \union When(~Quiet, "cut"))

Orphaned == When(\E o \in Owners : compacting[o] # Nil, "orphaned")

\* ... and once it has settled, begin an empty session: the queue goes on with
\* what it holds, and so do compactions and timers ...
NewSession ==
  /\ op = "newSession"
  /\ ~settling
  /\ op' = "none"
  /\ connected' = TRUE
  /\ session' = session + 1
  /\ log' = <<>>
  /\ messages' = <<>>
  /\ Note(When(Unsaved # <<>>, "behind") \union Orphaned)
  /\ UNCHANGED <<agentVars, loaded, queue, working, lastAssistant, retryVars, pendingBash, compacting,
                 promptVars, settling, timers, made, countVars>>

\* ... or read an earlier one and tell the extensions ...
OpenSession ==
  /\ op = "switchSession" /\ SessionIsNext
  /\ session' = session + 1
  /\ log' = Earlier
  /\ loaded' = Context(Earlier)
  /\ Note(When(queue # <<>>, "behind") \union Orphaned)
  /\ UNCHANGED <<messages, agentVars, queue, working, lastAssistant, retryVars, pendingBash, connected,
                 compacting, promptVars, op, settling, timers, made, countVars>>

\* ... whereupon the agent gets the messages that were read before they were told; its
\* events are heard again once the models are known.
SwitchGives ==
  /\ op = "switchSession" /\ loaded # Nil
  /\ op' = "restoring"
  /\ messages' = loaded
  /\ loaded' = Nil
  /\ UNCHANGED <<agentVars, session, log, queue, working, lastAssistant, retryVars, pendingBash, connected,
                 compacting, promptVars, settling, timers, made, countVars, happened>>

SwitchEnds ==
  /\ op = "restoring"
  /\ op' = "none"
  /\ connected' = TRUE
  /\ UNCHANGED <<messages, agentVars, session, log, loaded, queue, working, lastAssistant, retryVars,
                 pendingBash, compacting, promptVars, settling, timers, made, countVars, happened>>

\* fork(): a new session of what came before a prompt.  Nothing is aborted, and the
\* extensions are told before the agent gets its messages.
Fork(i) ==
  /\ session < MaxSessions
  /\ op = "none"
  /\ log[i].role = "user"
  /\ op' = "fork"
  /\ session' = session + 1
  /\ log' = SubSeq(log, 1, i - 1)
  /\ loaded' = Context(log')
  /\ May({"fork"})
  /\ Note({"fork"} \union When(queue # <<>> \/ isStreaming, "behind") \union Orphaned)
  /\ UNCHANGED <<messages, agentVars, queue, working, lastAssistant, retryVars, pendingBash, connected,
                 compacting, promptVars, settling, timers, made, countVars>>

ForkEnds ==
  /\ op = "fork" /\ loaded # Nil
  /\ op' = "none"
  /\ messages' = loaded
  /\ loaded' = Nil
  /\ UNCHANGED <<agentVars, session, log, queue, working, lastAssistant, retryVars, pendingBash, connected,
                 compacting, promptVars, settling, timers, made, countVars, happened>>

\* ... or prepare the compaction, if there is anything to compact.  (Meanwhile the API
\* key was got, and a prompt may have begun a run.)
Compact ==
  /\ op = "compact"
  /\ ~settling
  /\ compacting["user"] = Nil
  /\ \/ Prepare("user", FALSE) /\ UNCHANGED <<op, connected>>
     \/ op' = "none" /\ connected' = TRUE /\ UNCHANGED <<compacting, compactions>>
  /\ UNCHANGED <<messages, agentVars, session, log, queue, working, lastAssistant, retryVars, pendingBash,
                 promptVars, settling, loaded, timers, made, failures, toolTurns, ran, happened>>

-----------------------------------------------------------------------------
Answer == \E stop \in Stops : LlmAnswers(stop)
Working == HandleMessageEnd \/ HandleAgentEnd \/ SleepEnds
Compacted(o) == CompactionEnds(o) \/ CompactionFails(o)
Prompting(p) == PromptChecks(p) \/ PromptSends(p) \/ PromptWaits(p) \/ PromptReturns(p)

Next ==
  \/ Answer
  \/ ToolReturns
  \/ HandleMessageEnd
  \/ HandleAgentEnd
  \/ ListenerThrows
  \/ SleepEnds
  \/ \E kind \in {"retry", "compaction"} : TimerFires(kind)
  \/ \E o \in Owners : CompactionEnds(o)
  \/ \E o \in Owners : CompactionFails(o)
  \/ \E p \in Prompts : Prompt(p)
  \/ \E p \in Prompts : Prompting(p)
  \/ Abort
  \/ \E b \in Commands : Bash(b)
  \/ \E b \in Commands : SendCustomMessage(b)
  \/ BeginOtherSession
  \/ NewSession
  \/ OpenSession
  \/ SwitchGives
  \/ SwitchEnds
  \/ \E i \in DOMAIN log : Fork(i)
  \/ ForkEnds
  \/ BeginCompact
  \/ Compact

Spec == Init /\ [][Next]_vars

\* LLM, tools, extensions and timers answer in the end; nobody has to call.
FairSpec ==
  /\ Spec
  /\ WF_vars(Answer) /\ WF_vars(ToolReturns) /\ WF_vars(Working)
  /\ \A kind \in {"retry", "compaction"} : WF_vars(TimerFires(kind))
  /\ \A o \in Owners : WF_vars(Compacted(o))
  /\ \A p \in Prompts : WF_vars(Prompting(p))
  /\ WF_vars(NewSession) /\ WF_vars(Compact)
  /\ WF_vars(OpenSession \/ SwitchGives \/ SwitchEnds) /\ WF_vars(ForkEnds)

-----------------------------------------------------------------------------
(* What must hold.                                                         *)

Undisturbed ==
  happened \subseteq {"abort", "gaveUp", "early", "unheard", "raced", "resume", "fork", "custom", "long"}

\* The agent's state, its event queue and its session have the shapes the code
\* gives them; the queue only waits for what it was given, and only a prompt that
\* called agent.prompt() is awaited by a run.
TypeOK ==
  /\ messages \in Seq(Entries) /\ log \in Seq(Entries) /\ loaded \in Seq(Entries) \union {Nil}
  /\ queue \in Seq(Events) /\ lastAssistant \in Messages \union {Nil}
  /\ pendingBash \in Seq({m \in Messages : m.role = "bash"})
  /\ isStreaming \in BOOLEAN /\ aborted \in BOOLEAN /\ sleepAborted \in BOOLEAN
  /\ settling \in BOOLEAN /\ connected \in BOOLEAN
  /\ compacting \in [Owners -> [kept : Nat, willRetry : BOOLEAN] \union {Nil}]
  /\ place \in [Prompts -> Places]
  /\ made \in Nat /\ retryAttempt \in 0..MaxRetries
  /\ run \in {"none", "llm", "tool"} /\ (isStreaming <=> run # "none")
  /\ awaitedBy \in Prompts \union {"timer", Nil}
  /\ isStreaming \/ awaitedBy \notin Prompts
  /\ \A p \in Prompts : awaitedBy = p <=> place[p] = "running"
  /\ working \in {"extension", "sleeping", "compacting"}
  /\ working # "extension" => queue # <<>> /\ Head(queue) = AgentEnd
  /\ working = "compacting" <=> compacting["events"] # Nil
  /\ \A p \in Prompts : place[p] = "compacting" <=> compacting[p] # Nil
  /\ compacting["user"] # Nil => op = "compact" /\ ~settling
  /\ settling => isStreaming /\ op \in {"newSession", "switchSession", "compact"}
  /\ SessionIsNext => ~isStreaming
  /\ op \in {"none", "newSession", "switchSession", "restoring", "fork", "compact"}
  /\ connected <=> op \in {"none", "fork"}
  /\ loaded # Nil => op \in {"switchSession", "fork"} /\ ~settling

NoErrors(ms) == Picked(ms, {i \in DOMAIN ms : ~IsError(ms[i])})

\* Nothing the user or the LLM said is missing in the session, doubled or out of
\* order: its context and the messages whose events still wait are the agent's
\* messages, failed answers aside, through retries, compactions, shell commands,
\* aborts, custom messages, other sessions and forks, however slow the extensions are.
SessionFollowsAgent ==
  Undisturbed /\ connected /\ loaded = Nil => NoErrors(messages) = NoErrors(Context(log) \o Unsaved)

\* The messages of the runs are persisted in the order they were announced and
\* once, whatever else is called and whatever throws.
IsSaid(e) == e.role \in {"user", "assistant", "toolResult"}
PersistedInOrder == \A i, j \in DOMAIN log : i < j /\ IsSaid(log[i]) /\ IsSaid(log[j]) => log[i].id < log[j].id

\* The event queue is what its handlers go by: whatever is awaited belongs to its head
\* or to a caller, and what passes through it is persisted in its order.
QueueIsSound == TypeOK /\ PersistedInOrder

\* No shell command comes between a tool call and its result in the session (the
\* reason why recordBashResult puts results off during a run), unless it was recorded
\* while the run's events still waited, or the call was made while nobody listened.
ResultFollowsCall ==
  happened \intersect {"behind", "unheard", "throw"} = {} =>
    \A i \in DOMAIN log : i > 1 /\ log[i].role = "toolResult" => log[i - 1].role # "bash"

\* A compaction keeps the session from an entry before it of the same session, as
\* module SessionTree takes for granted, also when messages, shell commands and other
\* compactions came in while the summary was written.
CompactionKeepsOwn ==
  "orphaned" \notin happened =>
    \A c \in DOMAIN log : IsCompaction(log[c]) => \E k \in 1..(c - 1) : log[k].id = log[c].kept

\* The answer that the end of the run will be judged by: _lastAssistantMessage, once
\* the events before the end are worked on.
Judged ==
  LET answers == {i \in Ends(queue) : IsAssistant(queue[i].message)}
  IN  IF answers = {} THEN lastAssistant ELSE queue[LastPlace(answers)].message

\* A failed run will be tried again: its end is not worked on yet, or the backoff or
\* the timer runs, or the new run has not answered.
RetryUnderWay ==
  \/ working = "sleeping"
  \/ timers.retry > 0
  \/ isStreaming /\ retryAttempt > 0
  \/ /\ \E i \in DOMAIN queue : queue[i] = AgentEnd
     /\ Judged # Nil /\ Judged.stop = "retryable"

Uninterrupted == happened \subseteq {"behind", "fork", "custom", "long"}
Returning(p) == place[p] # "returned" /\ place'[p] = "returned"

\* prompt() does not return while its failed run is about to be tried again, however
\* long the extensions delay the news (unless it is aborted, or others interfere).
PromptAwaitsRetry ==
  [][\A p \in Prompts : Returning(p) /\ Uninterrupted => ~RetryUnderWay]_vars

\* prompt() comes back, through retries, aborts, other sessions and forks, and when another
\* prompt() came in between: unless nobody retries the run it waits for any more
\* (waitForRetry has no other way out), or a listener threw.
PromptSettles ==
  \A p \in Prompts : place[p] # "none" ~>
    place[p] \in {"returned", "rejected"} \/ happened \intersect {"gaveUp", "throw"} # {}

\* prompt() waits for completion, as docs/sdk.md has it: when it has waited for a retry
\* and returns, the agent is no longer at the retried run.  It does not hold when that
\* run calls tools; PromptAwaitsRetry is what does.
RetryComplete ==
  [][\A p \in Prompts :
       Returning(p) /\ place[p] = "waiting" /\ happened \subseteq {"early"} => ~isStreaming]_vars
=============================================================================
