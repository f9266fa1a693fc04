----------------------------- MODULE MomChannel -----------------------------
(* One Slack channel as mom serves it: SlackBot and its ChannelQueue         *)
(* (packages/mom/src/slack.ts), the handler (main.ts), a run of the          *)
(* channel's runner (agent.ts) and the two files it leaves: log.jsonl, what  *)
(* users said, and context.jsonl, what the LLM is given.  A message that is  *)
(* logged but not answered - mom was busy, or off, or it was not for her -   *)
(* is put into the context by the next run (context.ts), which finds out by  *)
(* the text what the context has.                                            *)
EXTENDS Naturals, Sequences, FiniteSets, SequencesExt

CONSTANTS
    Texts,
    NoWork,
    ChannelFaults,  \* what may happen besides: subset of ChannelFaultKinds
    MaxMessages,    \* bound: messages users post
    MaxEvents,      \* bound: events enqueued (EventsWatcher)
    QueueLimit,     \* events that may wait: 5
    PageLimit,      \* messages a backfill fetches: 3 pages of 1000
    MaxStarts,      \* bound: starts of the process
    MaxChannelFaults \* bound: kinds of faults in one behaviour

ChannelFaultKinds == {"runFails", "crash", "reordered", "gap", "stranger"}

ASSUME ChannelFaultsAssumption == ChannelFaults \subseteq ChannelFaultKinds \cup {"manyMissed"}
ASSUME ChannelBoundsAssumption ==
    {MaxMessages, MaxEvents, QueueLimit, PageLimit, MaxStarts, MaxChannelFaults} \subseteq Nat

VARIABLES
    posted,         \* the channel at Slack: the users' messages, in order
    conn,           \* the process: down, backfilled, up
    starts,         \* number of starts of the process
    startupTs,      \* the last message posted before the process was connected
    unasked,        \* messages up to this one were posted when there was no log to
                    \* backfill
    pending,        \* messages Slack has still to deliver, by number
    log,            \* log.jsonl: numbers of messages
    context,        \* context.jsonl: the user messages in it, as texts
    flushed,        \* an answer is in the context, so that it is on disk
    queue,          \* ChannelQueue.queue
    work,           \* what the queue works on, NoWork when processing is false
    phase,          \* where the run is
    synced,         \* the messages that were in the log when this run read it
    events,         \* number of events enqueued
    occurred        \* what the properties make exceptions for

channelVars == <<posted, conn, starts, startupTs, unasked, pending, log, context, flushed, queue, work,
                 phase, synced, events, occurred>>

runVars == <<queue, work, phase, synced>>
fileVars == <<log, context, flushed>>

(* A message: for mom (an @mention, or direct) or not; from a user whose     *)
(* name was known when the process started or another.                       *)
Messages == [forMom : BOOLEAN, text : Texts, known : BOOLEAN]
Numbers == 1 .. MaxMessages
Works == [type : {"user"}, n : Numbers] \cup [type : {"event"}, n : 1 .. MaxEvents]

ASSUME NoWorkAssumption == NoWork \notin Works

(* How a message reads in the context: put there by the sync, and as the     *)
(* prompt of its own run (timestamp and attachments are stripped for the     *)
(* comparison).  The log has the user's id when there is no name, the prompt *)
(* says unknown.                                                             *)
SyncText(n) == <<IF posted[n].known THEN "name" ELSE "id", posted[n].text>>
PromptText(n) == <<IF posted[n].known THEN "name" ELSE "unknown", posted[n].text>>
ContextTexts == {"name", "id", "unknown"} \X Texts

ChannelTypeOK ==
    /\ posted \in Seq(Messages) /\ Len(posted) <= MaxMessages
    /\ conn \in {"down", "backfilled", "up"}
    /\ starts \in 0 .. MaxStarts /\ startupTs \in 0 .. MaxMessages /\ unasked \in 0 .. MaxMessages
    /\ pending \in Seq(Numbers)
    /\ log \in Seq(Numbers)
    /\ context \in Seq(ContextTexts)
    /\ flushed \in BOOLEAN
    /\ queue \in Seq(Works)
    /\ work \in Works \cup {NoWork}
    /\ phase \in {"none", "starting", "synced", "prompting", "finishing"}
    /\ synced \subseteq Numbers
    /\ events \in 0 .. MaxEvents
    /\ occurred \subseteq ChannelFaultKinds \cup {"manyMissed"}

ChannelInit ==
    /\ posted = <<>> /\ conn = "down" /\ starts = 0 /\ startupTs = 0 /\ unasked = 0 /\ pending = <<>>
    /\ log = <<>> /\ context = <<>> /\ flushed = FALSE
    /\ queue = <<>> /\ work = NoWork /\ phase = "none" /\ synced = {}
    /\ events = 0 /\ occurred = {}

MayOccur(fault) == fault \in ChannelFaults /\ Cardinality(occurred \cup {fault}) <= MaxChannelFaults

(* handler.isRunning                                                         *)
IsRunning == phase # "none"

(* The numbers of a set, sorted (there is one such sequence).                *)
Sorted(set) ==
    {s \in [1 .. Cardinality(set) -> set] : \A i, j \in 1 .. Cardinality(set) : i < j => s[i] < s[j]}

-----------------------------------------------------------------------------
(* A user posts a message; Slack delivers it to a connected process.         *)
Post(message) ==
    /\ Len(posted) < MaxMessages
    /\ posted' = Append(posted, message)
    /\ pending' = IF conn = "up" THEN Append(pending, Len(posted) + 1) ELSE pending
    /\ \/ conn = "backfilled" /\ MayOccur("gap") /\ occurred' = occurred \cup {"gap"}
       \/ conn # "backfilled" /\ ~message.known /\ MayOccur("stranger") /\ occurred' = occurred \cup {"stranger"}
       \/ conn # "backfilled" /\ message.known /\ UNCHANGED occurred
    /\ UNCHANGED <<conn, starts, startupTs, unasked, fileVars, runVars, events>>

(* Slack may be asked only for messages after the last one in the log, and   *)
(* a channel without a log is not asked for.  Of many, the newest come.      *)
Missed == {n \in 1 .. Len(posted) : log # <<>> /\ \A m \in ToSet(log) : m < n}
Fetched == {n \in Missed : Len(posted) - n < PageLimit}

(* start(): backfillAllChannels, then the socket.                            *)
Backfill ==
    /\ conn = "down" /\ starts < MaxStarts
    /\ conn' = "backfilled"
    /\ starts' = starts + 1
    /\ unasked' = IF log = <<>> THEN Len(posted) ELSE unasked
    /\ \E fetched \in Sorted(Fetched) : log' = log \o fetched
    /\ occurred' = IF Fetched # Missed THEN occurred \cup {"manyMissed"} ELSE occurred
    /\ UNCHANGED <<posted, startupTs, pending, context, flushed, runVars, events>>

Connect ==
    /\ conn = "backfilled"
    /\ conn' = "up"
    /\ startupTs' = Len(posted)
    /\ UNCHANGED <<posted, starts, unasked, pending, fileVars, runVars, events, occurred>>

-----------------------------------------------------------------------------
(* ChannelQueue.enqueue: what finds the queue idle is begun at once.         *)
Enqueue(item) ==
    IF work = NoWork THEN work' = item /\ phase' = "starting" /\ UNCHANGED queue
    ELSE queue' = Append(queue, item) /\ UNCHANGED <<work, phase>>

(* Mutant: what arrives in a run is told to wait, and forgotten.             *)
LoggedWhenIdle(n) == IF IsRunning THEN log ELSE Append(log, n)

Logged(n) == Append(log, n)

(* Mutant: a message for mom waits like an event.                            *)
AcceptedAlways(n) == posted[n].forMom /\ n > startupTs

(* Accepted for a run of its own: not a message that Slack delivers again    *)
(* after a restart, nor one that finds mom busy.  (The message stop counts   *)
(* as one that is not for her: it is logged and aborts the LLM's answer, if  *)
(* there is one, which may end at any time.)                                 *)
Accepted(n) == posted[n].forMom /\ n > startupTs /\ ~IsRunning

(* app_mention and message: logged in any case.                              *)
Receive(i) ==
    LET n == pending[i]
    IN  /\ conn = "up"
        /\ IF i = 1 THEN UNCHANGED occurred ELSE MayOccur("reordered") /\ occurred' = occurred \cup {"reordered"}
        /\ pending' = RemoveAt(pending, i)
        /\ log' = Logged(n)
        /\ IF Accepted(n) THEN Enqueue([type |-> "user", n |-> n]) ELSE UNCHANGED <<queue, work, phase>>
        /\ UNCHANGED <<posted, conn, starts, startupTs, unasked, context, flushed, synced, events>>

(* enqueueEvent: discarded when there are too many.                          *)
EnqueueEvent ==
    /\ conn # "down" /\ events < MaxEvents
    /\ events' = events + 1
    /\ IF Len(queue) >= QueueLimit
       THEN UNCHANGED <<queue, work, phase>>
       ELSE Enqueue([type |-> "event", n |-> events + 1])
    /\ UNCHANGED <<posted, conn, starts, startupTs, unasked, pending, fileVars, synced, occurred>>

-----------------------------------------------------------------------------
IsPrompt(n) == work # NoWork /\ work.type = "user" /\ work.n = n

(* Mutant: the prompt is not left out.                                       *)
UnknownToContextAll == {n \in ToSet(log) : SyncText(n) \notin ToSet(context)}

(* syncLogToSessionManager: messages, but the one the run is for, whose text *)
(* is not in the context, each text once.                                    *)
UnknownToContext == {n \in ToSet(log) : ~IsPrompt(n) /\ SyncText(n) \notin ToSet(context)}

FirstOfText(set) ==
    {n \in set : \E j \in 1 .. Len(log) :
        log[j] = n /\ \A i \in 1 .. j - 1 : log[i] \in set => SyncText(log[i]) # SyncText(n)}

(* runner.run, after the Slack message that announces it, up to the prompt.  *)
Sync ==
    /\ phase = "starting"
    /\ \E added \in Sorted(FirstOfText(UnknownToContext)) :
        context' = context \o [i \in 1 .. Len(added) |-> SyncText(added[i])]
    /\ synced' = ToSet(log)
    /\ phase' = "synced"
    /\ UNCHANGED <<posted, conn, starts, startupTs, unasked, pending, log, flushed, queue,
                   work, events, occurred>>

(* session.prompt: the message is in the context.  An event's text is not    *)
(* kept track of.                                                            *)
Prompt ==
    /\ phase = "synced"
    /\ context' = IF work.type = "user" THEN Append(context, PromptText(work.n)) ELSE context
    /\ phase' = "prompting"
    /\ UNCHANGED <<posted, conn, starts, startupTs, unasked, pending, log, flushed, queue, work,
                   synced, events, occurred>>

(* The LLM has answered, has failed or was stopped: each leaves an answer.   *)
Answer ==
    /\ phase = "prompting"
    /\ flushed' = TRUE
    /\ phase' = "finishing"
    /\ UNCHANGED <<posted, conn, starts, startupTs, unasked, pending, log, context, queue, work,
                   synced, events, occurred>>

(* Mutant: an error ends the queue's work for good.                          *)
WaitingUnlessFailed(failed) == IF failed THEN <<>> ELSE queue

(* processNext goes on with what waits.                                      *)
WaitingAfter(failed) == queue

(* handleEvent ends: running is false, and the queue's next work begins      *)
(* before anything else can.                                                 *)
EndRun(failed) ==
    /\ IF WaitingAfter(failed) = <<>>
       THEN work' = NoWork /\ phase' = "none" /\ UNCHANGED queue
       ELSE work' = Head(queue) /\ phase' = "starting" /\ queue' = Tail(queue)
    /\ synced' = {}
    /\ UNCHANGED <<posted, conn, starts, startupTs, unasked, pending, fileVars, events>>

Finish == phase = "finishing" /\ EndRun(FALSE) /\ UNCHANGED occurred

(* Slack, the file system or the session rejects: handleEvent's catch.       *)
RunFails ==
    /\ MayOccur("runFails") /\ phase \in {"starting", "synced", "finishing"}
    /\ EndRun(TRUE)
    /\ occurred' = occurred \cup {"runFails"}

(* The process ends.  A context without an answer has not been written;      *)
(* Slack may deliver again what it has not seen acknowledged.                *)
Crash ==
    /\ MayOccur("crash") /\ conn # "down"
    /\ conn' = "down" /\ pending' \in {<<>>, pending}
    /\ queue' = <<>> /\ work' = NoWork /\ phase' = "none" /\ synced' = {}
    /\ context' = IF flushed THEN context ELSE <<>>
    /\ occurred' = occurred \cup {"crash"}
    /\ UNCHANGED <<posted, starts, startupTs, unasked, log, flushed, events>>

Run == Sync \/ Prompt \/ Answer \/ Finish

ChannelNext ==
    \/ \E message \in Messages : Post(message)
    \/ Backfill \/ Connect
    \/ \E i \in 1 .. Len(pending) : Receive(i)
    \/ EnqueueEvent
    \/ Run \/ RunFails \/ Crash

ChannelSpec == ChannelInit /\ [][ChannelNext]_channelVars
FairChannelSpec == ChannelSpec /\ WF_channelVars(Run)

-----------------------------------------------------------------------------
(* Nothing that was said is missing in the log: what users post once mom     *)
(* has been in the channel is in it, once, whether she was busy, off or     *)
(* dying when it was posted.  Exceptions: what is posted between the         *)
(* backfill and the connection, more than a backfill fetches, and messages   *)
(* that are delivered out of order; one that is delivered again after a      *)
(* crash is logged again.                                                    *)
LogIsComplete ==
    conn = "up" /\ occurred \cap {"gap", "manyMissed", "reordered"} = {} =>
        /\ \A n \in unasked + 1 .. Len(posted) : n \in ToSet(log) \cup ToSet(pending)
        /\ "crash" \notin occurred => IsInjective(log)

(* When the LLM is prompted the context has all that was said and logged     *)
(* before, the message that the run is for at its end, after failed runs,    *)
(* crashes and in spite of the comparison by text.                           *)
AllIsKnown ==
    phase = "prompting" =>
        /\ \A n \in synced : {SyncText(n), PromptText(n)} \cap ToSet(context) # {}
        /\ work.type = "user" => Last(context) = PromptText(work.n)

(* And nothing in it more often than it was said.  Exception: a user whose   *)
(* name mom does not know.                                                   *)
NothingTwice ==
    \A text \in ContextTexts :
        text[1] = "name" =>
            Cardinality({i \in 1 .. Len(context) : context[i] = text})
                <= Cardinality({n \in ToSet(log) : PromptText(n) = text})

(* The context follows the log: all of it, and nothing twice.               *)
ContextFollowsLog == AllIsKnown /\ NothingTwice

(* Only events wait in the queue, no more than there may; a user's message   *)
(* is answered at once or refused.                                           *)
OnlyEventsWait ==
    /\ Len(queue) <= QueueLimit
    /\ \A item \in ToSet(queue) : item.type = "event"
    /\ work = NoWork => queue = <<>>

(* The queue and the run under way are in step.                              *)
QueueIsSound == ChannelTypeOK /\ OnlyEventsWait

(* Every event that was queued gets its run, whatever fails in the runs      *)
(* before it.                                                                *)
EventsGetTheirTurn ==
    \A e \in 1 .. MaxEvents :
        LET event == [type |-> "event", n |-> e] IN event \in ToSet(queue) ~> event \notin ToSet(queue)
=============================================================================
