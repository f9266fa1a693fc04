----------------------------- MODULE Compaction -----------------------------
(* Compaction and branch summaries (core/compaction/): which part of the   *)
(* current branch goes into a summary, which part is kept, and what the    *)
(* LLM is sent afterwards.  The functions are pure; the machine around     *)
(* them lets a branch grow the way sessions do, compacts it and navigates  *)
(* back in it, at any time.                                                *)
(*                                                                         *)
(* A summary is the set of entries its text was made from (`covers'),      *)
(* summaries of summaries included.  Sizes are token estimates.            *)
EXTENDS Integers, Sequences, FiniteSets, FiniteSetsExt

CONSTANTS
    Sizes,          \* token estimates a message may have
    KeepRecent,     \* settings.keepRecentTokens
    BranchBudget,   \* contextWindow - reserveTokens, for a branch summary
    MaxEntries      \* bound: entries ever created

ASSUME SizesAssumption == Sizes \subseteq Nat \ {0}
ASSUME BudgetsAssumption == KeepRecent \in Nat \ {0} /\ BranchBudget \in Nat \ {0} /\ MaxEntries \in Nat

VARIABLES
    path,           \* the branch from the root to the leaf
    created         \* entries created so far; their number is their id

compactionVars == <<path, created>>

-----------------------------------------------------------------------------
(* Entries.  "toolUse" is an assistant message that calls a tool, "bash" a *)
(* bashExecution message, "setting" any entry the LLM never sees.          *)
MessageTypes == {"user", "assistant", "toolUse", "toolResult", "bash"}
SummaryTypes == {"compaction", "branch_summary"}

BranchEntries == [id : Nat, type : MessageTypes \cup SummaryTypes \cup {"custom_message", "setting"},
                  size : Nat \ {0}, firstKept : Nat, covers : SUBSET Nat]

IsMessage(e) == e.type \in MessageTypes

(* getMessageFromEntry: the entry becomes a message to summarize.          *)
Summarizable(e) == e.type # "setting"

(* Walking back from the leaf: the estimates of the entries at the indices *)
(* in S, from i on.                                                        *)
TokensFrom(p, S) ==
    LET sum[i \in 1 .. Len(p) + 1] == IF i > Len(p) THEN 0 ELSE (IF i \in S THEN p[i].size ELSE 0) + sum[i + 1]
    IN  sum
Tokens(p, S) == TokensFrom(p, S)[1]

(* The first of the indices in S, or `otherwise' when there is none.       *)
FirstOf(S, otherwise) == IF S = {} THEN otherwise ELSE Min(S)

PrevCompaction(p) == IF \E i \in DOMAIN p : p[i].type = "compaction"
                     THEN Max({i \in DOMAIN p : p[i].type = "compaction"})
                     ELSE 0

(* buildSessionContext: the indices of what the LLM is sent.               *)
BranchContext(p) ==
    LET c == PrevCompaction(p)
        kept == {i \in 1 .. c - 1 : p[i].id = p[c].firstKept}
        shown == {i \in DOMAIN p : p[i].type \notin {"setting", "compaction"}}
    IN  IF c = 0 THEN shown
        ELSE {c} \cup {i \in shown : i > c \/ \E k \in kept : k <= i}

(* Every entry the LLM can know of: sent as it is or through a summary.    *)
KnownEntries(p) == UNION {{p[i].id} \cup p[i].covers : i \in BranchContext(p)}

-----------------------------------------------------------------------------
(* Mutant: a tool result is a message like any other.                      *)
CutPointsAnywhere(p, start) == {i \in start .. Len(p) : p[i].type \notin {"setting", "compaction"}}

(* findValidCutPoints                                                      *)
CutPoints(p, start) ==
    {i \in start .. Len(p) :
        p[i].type \in (MessageTypes \ {"toolResult"}) \cup {"branch_summary", "custom_message"}}

(* findTurnStartIndex: 0 when there is none.                               *)
TurnStarts(p) == {i \in DOMAIN p : p[i].type \in {"user", "bash", "branch_summary", "custom_message"}}
TurnStart(p, cut, start) ==
    LET before == TurnStarts(p) \cap (start .. cut) IN IF before = {} THEN 0 ELSE Max(before)

(* The estimate of the message at i and of all that follow it.             *)
Newest(p, i) == TokensFrom(p, {k \in DOMAIN p : IsMessage(p[k])})[i]

(* The messages that reach the budget together with all that follow; the   *)
(* walk back from the leaf stops at the last of them.                      *)
Reaching(p, start) == {i \in start .. Len(p) : IsMessage(p[i]) /\ Newest(p, i) >= KeepRecent}

(* The entries before a cut that belong to what follows: no message, no    *)
(* earlier compaction.                                                     *)
WithSettings(p, cut, start) ==
    Min({j \in start .. cut : \A k \in j .. cut - 1 : ~IsMessage(p[k]) /\ p[k].type # "compaction"})

(* Mutant: cuts behind the message that reached the budget.                *)
CutIndexAfter(p, start) ==
    LET points == CutPoints(p, start)
        reaching == Reaching(p, start)
        first == FirstOf(points, start)
        cut == IF reaching = {} THEN first ELSE FirstOf({c \in points : c > Max(reaching)}, first)
    IN  WithSettings(p, cut, start)

(* findCutPoint: the index of the first entry to keep.                     *)
CutIndex(p, start) ==
    LET points == CutPoints(p, start)
        reaching == Reaching(p, start)
        first == FirstOf(points, start)
        cut == IF reaching = {} THEN first ELSE FirstOf({c \in points : c >= Max(reaching)}, first)
    IN  IF points = {} THEN start ELSE WithSettings(p, cut, start)

(* findCutPoint: the start of the turn that is split, 0 when none is.      *)
SplitTurn(p, start) ==
    LET cut == CutIndex(p, start)
    IN  IF CutPoints(p, start) = {} \/ p[cut].type = "user" THEN 0 ELSE TurnStart(p, cut, start)

-----------------------------------------------------------------------------
Start(p) == PrevCompaction(p) + 1
CanPrepare(p) == p # <<>> /\ p[Len(p)].type # "compaction"

(* What messages at the indices S stand for.                               *)
Content(p, S) == UNION {{p[i].id} \cup p[i].covers : i \in {k \in S : Summarizable(p[k])}}

(* prepareCompaction: messages for the history summary and for the summary *)
(* of the prefix of a split turn.                                          *)
History(p) ==
    LET split == SplitTurn(p, Start(p)) IN Start(p) .. (IF split # 0 THEN split ELSE CutIndex(p, Start(p))) - 1

(* Mutant: the prefix starts behind the message that opens the turn.       *)
TurnPrefixWithoutUser(p) ==
    LET split == SplitTurn(p, Start(p)) IN IF split = 0 THEN {} ELSE split + 1 .. CutIndex(p, Start(p)) - 1

TurnPrefix(p) ==
    LET split == SplitTurn(p, Start(p)) IN IF split = 0 THEN {} ELSE split .. CutIndex(p, Start(p)) - 1

(* compact(): the history summary continues the previous one, unless only  *)
(* a turn prefix is summarized; then it says that there is no history.     *)
Summary(p) ==
    LET c == PrevCompaction(p)
        previous == IF c = 0 THEN {} ELSE p[c].covers
        summarizes(S) == \E i \in S : Summarizable(p[i])
        continued == summarizes(History(p)) \/ ~summarizes(TurnPrefix(p))
    IN  Content(p, History(p) \cup TurnPrefix(p)) \cup (IF continued THEN previous ELSE {})

-----------------------------------------------------------------------------
(* prepareBranchEntries over the abandoned entries, newest first, within   *)
(* the budget; a summary that no longer fits is taken along all the same   *)
(* while less than nine tenths of the budget are used.                     *)
Abandoned(p, target) == {i \in target + 1 .. Len(p) : p[i].type \notin {"setting", "toolResult"}}

FitsBudget(p, from, target) == TokensFrom(p, Abandoned(p, target))[from] <= BranchBudget

(* Mutant: walks from the oldest entry on.                                 *)
BranchMessagesOldest(p, target) ==
    {i \in Abandoned(p, target) : Tokens(p, {k \in Abandoned(p, target) : k <= i}) <= BranchBudget}

BranchMessages(p, target) ==
    LET fitting == {i \in Abandoned(p, target) : FitsBudget(p, i, target)}
        rest == Abandoned(p, target) \ fitting
        squeezed == {i \in rest : /\ i = Max(rest)
                                  /\ p[i].type \in SummaryTypes
                                  /\ 10 * Tokens(p, fitting) < 9 * BranchBudget}
    IN  fitting \cup squeezed

-----------------------------------------------------------------------------
NewEntry(type, size) == [id |-> created + 1, type |-> type, size |-> size, firstKept |-> 0, covers |-> {}]

(* Entries are numbered in the order of the branch, and a compaction keeps *)
(* from, and a summary tells of, entries before it.                        *)
CompactionTypeOK ==
    /\ created \in 0 .. MaxEntries
    /\ path \in Seq(BranchEntries)
    /\ \A i \in DOMAIN path :
        /\ path[i].id \in 1 .. created /\ path[i].firstKept < path[i].id
        /\ path[i].covers \subseteq 1 .. path[i].id - 1
        /\ \A k \in 1 .. i - 1 : path[k].id < path[i].id

CompactionInit == path = <<>> /\ created = 0

(* What may come after an entry (settings aside) in a session: runs of the *)
(* agent loop, shell commands, messages of extensions, navigation.         *)
Idle == {"user", "bash", "custom_message"}
Follows(type) ==
    CASE type \in {"start", "bash", "branch_summary"} -> Idle
      [] type = "user" -> {"user", "assistant", "toolUse"}
      [] type = "toolUse" -> {"toolResult", "user"}
      [] type = "toolResult" -> {"toolResult", "assistant", "toolUse", "user"}
      [] OTHER -> Idle \cup {"assistant", "toolUse"}

LastType(p) ==
    LET said == {i \in DOMAIN p : p[i].type # "setting"} IN IF said = {} THEN "start" ELSE p[Max(said)].type

Grow(type, size) ==
    /\ created < MaxEntries
    /\ type \in Follows(LastType(path)) \cup {"setting"}
    /\ path' = Append(path, NewEntry(type, size))
    /\ created' = created + 1

(* prepareCompaction, the summary and appendCompaction.                    *)
Compact ==
    /\ created < MaxEntries
    /\ CanPrepare(path)
    /\ path' = Append(path, [NewEntry("compaction", 1) EXCEPT
                                !.firstKept = path[CutIndex(path, Start(path))].id,
                                !.covers = Summary(path)])
    /\ created' = created + 1

(* navigateTree to an entry above the leaf: a user message is taken back   *)
(* into the editor, with a summary of what is abandoned or without.        *)
Navigate(target, summarize) ==
    LET leaf == IF path[target].type \in {"user", "custom_message"} THEN target - 1 ELSE target
    IN  /\ target < Len(path)
        /\ IF summarize
           THEN /\ created < MaxEntries
                /\ path' = Append(SubSeq(path, 1, leaf),
                                  [NewEntry("branch_summary", 1) EXCEPT
                                      !.covers = Content(path, BranchMessages(path, target))])
                /\ created' = created + 1
           ELSE path' = SubSeq(path, 1, leaf) /\ UNCHANGED created

CompactionNext ==
    \/ \E type \in MessageTypes, size \in Sizes : Grow(type, size)
    \/ \E type \in {"custom_message", "setting"} : Grow(type, 1)
    \/ Compact
    \/ \E target \in DOMAIN path, summarize \in BOOLEAN : Navigate(target, summarize)

CompactionSpec == CompactionInit /\ [][CompactionNext]_compactionVars

-----------------------------------------------------------------------------
Compacts == Len(path') = Len(path) + 1 /\ path'[Len(path')].type = "compaction"
Navigates == created' = created + 1 /\ path'[Len(path')].type = "branch_summary"
FirstCompaction == PrevCompaction(path) = 0

(* An entry of the branch before a compaction that is sent after it too.   *)
StillSent(i) == i \in BranchContext(path')

(* The result at i answers the call: settings and other results of the same *)
(* answer may lie between them.                                            *)
Answers(p, call, i) ==
    /\ p[call].type = "toolUse"
    /\ \A k \in call + 1 .. i - 1 : p[k].type \in {"toolResult", "setting"}

(* The LLM is never sent a tool result without the call it answers: the    *)
(* provider would refuse the whole conversation.                           *)
ResultsFollowCalls ==
    \A i \in BranchContext(path) :
        path[i].type = "toolResult" =>
            \E call \in BranchContext(path) : call < i /\ Answers(path, call, i)

(* What the LLM is sent is made of entries of the branch, in their order,   *)
(* and each summary of what came before it.                                *)
ContextIsSendable == CompactionTypeOK /\ ResultsFollowCalls

(* A compaction keeps the newest messages that together reach              *)
(* keepRecentTokens, but for results whose call is further back; of what   *)
(* is further back it keeps nothing, unless nothing behind the message     *)
(* that reaches the budget can be cut at.                                  *)
EnoughFrom(i) == \E k \in i .. Len(path) : IsMessage(path[k]) /\ Newest(path, k) >= KeepRecent
Cuttable(i) == path[i].type \notin {"toolResult", "setting"}
RecentIsKept ==
    [][Compacts =>
        \A i \in Start(path) .. Len(path) : IsMessage(path[i]) =>
            /\ ~EnoughFrom(i + 1) => StillSent(i) \/ path[i].type = "toolResult"
            /\ StillSent(i) => \/ ~EnoughFrom(i + 1)
                               \/ \A k \in i + 1 .. Len(path) : Cuttable(k) => EnoughFrom(k)]_compactionVars

(* The prefix of a split turn is part of that turn alone, so that the      *)
(* request it opens with is part of what is kept.  And between two         *)
(* compactions every message is summarized once or kept, never both.       *)
SplitsOneTurn ==
    Compacts =>
        /\ \A i \in TurnPrefix(path) : i \in TurnStarts(path) <=> i = Min(TurnPrefix(path))
        /\ \A i \in Start(path) .. Len(path) :
              i \in BranchContext(path) => ((i \in History(path) \cup TurnPrefix(path)) # StillSent(i))
        /\ History(path) \cap TurnPrefix(path) = {}

(* Compacting a branch for the first time, the LLM still knows of          *)
(* everything it knew of, word for word or through the summary.            *)
FirstLosesNothing == Compacts /\ FirstCompaction => KnownEntries(path) \subseteq KnownEntries(path')

(* What a compaction takes away is in its summary, in the right part of it. *)
SummaryCoversRest == [][SplitsOneTurn /\ FirstLosesNothing]_compactionVars

(* The same for every compaction: older content is summarized, recent work *)
(* preserved (docs/compaction.md).  It does not hold: what the previous    *)
(* compaction kept is in neither the next summary nor the next context.    *)
NothingLost == [][Compacts => KnownEntries(path) \subseteq KnownEntries(path')]_compactionVars

(* Leaving a branch with a summary, what was newest there is known later,  *)
(* and all of it when it fits the budget: a message is only left out with  *)
(* everything older, save what an older summary tells of it.               *)
NewestOfBranchKnown ==
    [][Navigates =>
        \E target \in DOMAIN path :
            LET said == Abandoned(path, target)
                known == {i \in said : path[i].id \in KnownEntries(path')}
                retold == {i \in said : \E k \in said : path[i].id \in path[k].covers}
            IN  /\ Len(path') = IF path[target].type \in {"user", "custom_message"} THEN target ELSE target + 1
                /\ \A i \in known \ retold, k \in said : k > i => k \in known
                /\ Tokens(path, said) <= BranchBudget => known = said
                /\ said # {} /\ path[Max(said)].size <= BranchBudget => Max(said) \in known]_compactionVars
=============================================================================
