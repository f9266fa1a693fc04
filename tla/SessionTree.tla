---------------------------- MODULE SessionTree ----------------------------
(***************************************************************************)
(* The tree of a session: SessionManager of packages/coding-agent, its     *)
(* entries, the leaf it appends to, its labels, branching within a session  *)
(* and branching off a new one.  What reaches the disk is SessionFile.      *)
(*                                                                         *)
(* byId is the code's map from id to entry, and fileEntries is byId in the  *)
(* order of `at`.  An entry keeps of its data what the tree depends on: its *)
(* parent, what a label or a compaction refers to (ref), whether a label    *)
(* entry sets or clears (set).  The entries that never reach the LLM       *)
(* (thinking level, model, session info, custom) are all "setting", those   *)
(* that do (message, custom_message) are "message".                         *)
(***************************************************************************)
EXTENDS Naturals, Functions

CONSTANTS Ids,              \* entry ids
          Null,             \* null
          MaxAt,            \* bound: entries appended to one session
          ForkAcrossLabels  \* may a session branch off below a label entry?

ASSUME SessionAssumption ==
  /\ Null \notin Ids
  /\ MaxAt \in Nat
  /\ ForkAcrossLabels \in BOOLEAN

VARIABLES byId,        \* id -> entry, for the entries of the session
          leafId,      \* the entry the next one is appended to, or Null
          labelsById,  \* the ids that carry a label
          size         \* how many entries were appended; the last one is at `size`

vars == <<byId, leafId, labelsById, size>>

Types == {"message", "setting", "branch_summary", "compaction", "label"}
Entry(type, parent, ref, set, at) ==
  [type |-> type, parentId |-> parent, ref |-> ref, set |-> set, at |-> at]
Entries ==
  [type : Types, parentId : Ids \union {Null}, ref : Ids \union {Null}, set : BOOLEAN, at : Nat]

Known == DOMAIN byId

Init ==
  /\ byId = [id \in {} |-> Null]
  /\ leafId = Null
  /\ labelsById = {}
  /\ size = 0

-----------------------------------------------------------------------------
(* Walking the tree.                                                       *)

\* A set of entries that has the parent of each of its entries, if there is one.
Closed(S) == \A id \in S : byId[id].parentId \in Known => byId[id].parentId \in S

\* getBranch(from): from and everything above it, what no closed set around `from`
\* can do without.  The path's order is that of `at`.
Path(from) ==
  {id \in Known : from \in Known /\ \A S \in SUBSET (Known \ {id}) : from \in S => ~Closed(S)}

Latest(S) == CHOOSE id \in S : \A other \in S : byId[other].at <= byId[id].at

\* The entries whose content the LLM is sent, and those a path's last compaction
\* leaves of what is above it: from firstKeptEntryId on, and nothing at all when
\* that entry is not on the path.
Spoken(S) == {id \in S : byId[id].type \in {"message", "branch_summary"}}
Kept(path, c) ==
  {id \in path :
     /\ byId[c].ref \in path
     /\ byId[byId[c].ref].at <= byId[id].at
     /\ byId[id].at < byId[c].at}

\* What buildSessionContext() makes of a path: with a compaction on it, its summary,
\* what it kept and what follows it.
ContextOf(path) ==
  LET compactions == {id \in path : byId[id].type = "compaction"}
      c == Latest(compactions)
  IN  IF compactions = {}
        THEN Spoken(path)
        ELSE {c} \union Spoken(Kept(path, c)) \union Spoken({id \in path : byId[id].at > byId[c].at})

Context(from) == ContextOf(Path(from))

-----------------------------------------------------------------------------
(* Appending.                                                              *)

\* _appendEntry: the entry becomes the leaf.
AppendEntry(id, entry) ==
  /\ size < MaxAt
  /\ byId' = [k \in Known \union {id} |-> IF k = id THEN entry ELSE byId[k]]
  /\ leafId' = id
  /\ size' = size + 1

\* generateId(this.byId)
FreshId(id) == id \notin Known

\* appendMessage, appendCustomMessageEntry ("message"); appendThinkingLevelChange,
\* appendModelChange, appendCustomEntry, appendSessionInfo ("setting").
AppendPlain(id, type) ==
  /\ FreshId(id)
  /\ type \in {"message", "setting"}
  /\ AppendEntry(id, Entry(type, leafId, Null, FALSE, size + 1))
  /\ UNCHANGED labelsById

\* Mutant: the entry to keep from may have been chosen before the leaf moved.
AppendCompactionLate(id, firstKeptEntryId) ==
  /\ FreshId(id)
  /\ firstKeptEntryId \in Known
  /\ AppendEntry(id, Entry("compaction", leafId, firstKeptEntryId, FALSE, size + 1))
  /\ UNCHANGED labelsById

\* appendCompaction: the caller names an entry of the branch it summarises.
AppendCompaction(id, firstKeptEntryId) ==
  /\ FreshId(id)
  /\ firstKeptEntryId \in Path(leafId)
  /\ AppendEntry(id, Entry("compaction", leafId, firstKeptEntryId, FALSE, size + 1))
  /\ UNCHANGED labelsById

\* appendLabelChange; an unknown target throws.
AppendLabelChange(id, targetId, set) ==
  /\ FreshId(id)
  /\ targetId \in Known
  /\ AppendEntry(id, Entry("label", leafId, targetId, set, size + 1))
  /\ labelsById' = IF set THEN labelsById \union {targetId} ELSE labelsById \ {targetId}

-----------------------------------------------------------------------------
(* Moving the leaf.                                                        *)

Branch(branchFromId) ==
  /\ branchFromId \in Known
  /\ branchFromId # leafId
  /\ leafId' = branchFromId
  /\ UNCHANGED <<byId, labelsById, size>>

ResetLeaf ==
  /\ leafId # Null
  /\ leafId' = Null
  /\ UNCHANGED <<byId, labelsById, size>>

\* branchWithSummary: the summary is appended where the leaf is moved to.
BranchWithSummary(id, branchFromId) ==
  /\ FreshId(id)
  /\ branchFromId \in Known \union {Null}
  /\ AppendEntry(id, Entry("branch_summary", branchFromId, Null, FALSE, size + 1))
  /\ UNCHANGED labelsById

-----------------------------------------------------------------------------
(* Other sessions.                                                         *)

NewSession ==
  /\ size > 0
  /\ byId' = [id \in {} |-> Null]
  /\ leafId' = Null
  /\ labelsById' = {}
  /\ size' = 0

\* The labels a log leaves in force: the last label entry of each target counts.
InForce(log) ==
  {t \in Ids : \E id \in DOMAIN log :
     /\ log[id].type = "label" /\ log[id].ref = t /\ log[id].set
     /\ \A other \in DOMAIN log :
          log[other].type = "label" /\ log[other].ref = t => log[other].at <= log[id].at}

\* _buildIndex() on the entries read back from the session's own file: the leaf is
\* the last entry, wherever it was before.
Reload ==
  /\ Known # {}
  /\ leafId' = Latest(Known)
  /\ labelsById' = InForce(byId)
  /\ UNCHANGED <<byId, size>>

\* Mutant: the label entries are carried over as well.
WithLabels(from) == Path(from)

\* Mutant: entries that are not part of the context are left behind with the labels.
OnlyContext(from) == {id \in Path(from) : byId[id].type \notin {"label", "setting"}}

\* The path to carry over: everything but its label entries.
Unlabelled(from) == {id \in Path(from) : byId[id].type # "label"}

\* Mutant: the entry branched off at, even if it is not carried over.
FromItself(from) == from

\* The last entry carried over, which the new label entries follow.
LastKept(from) == IF Unlabelled(from) = {} THEN Null ELSE Latest(Unlabelled(from))

\* A label entry with something appended below it on the path.
LabelInside(from) ==
  \E id, child \in Path(from) : byId[id].type = "label" /\ byId[child].parentId = id
                                  /\ byId[child].type # "label"

\* The labels to write again: those in force on an entry that is carried over.
LabelsToWrite(from) == labelsById \intersect Unlabelled(from)

\* createBranchedSession(from): the path without its label entries becomes a new
\* session, and each label to write again a new label entry behind it, all in one
\* chain: fresh[i] is the id of the i-th of the n and targets[i] what it labels.
CreateBranchedSession(from, n, fresh, targets) ==
  LET kept == Unlabelled(from)
      chained(i) == Entry("label", IF i = 1 THEN LastKept(from) ELSE fresh[i - 1], targets[i], TRUE, size + i)
  IN  /\ from \in Known
      /\ size + n <= MaxAt
      /\ size' = size + n
      /\ ForkAcrossLabels \/ ~LabelInside(from)
      /\ byId' = [id \in kept \union Range(fresh) |->
                    IF id \in kept THEN byId[id] ELSE chained(CHOOSE i \in 1..n : fresh[i] = id)]
      /\ leafId' = IF n > 0 THEN fresh[n] ELSE LastKept(from)
      /\ labelsById' = LabelsToWrite(from)

\* The map's order of the labels and the generated ids are any.
Fork(from) ==
  LET toWrite == LabelsToWrite(from)
  IN  \E n \in 0..MaxAt : \E targets \in Bijection(1..n, toWrite) :
        \E fresh \in Injection(1..n, Ids \ Unlabelled(from)) :
          CreateBranchedSession(from, n, fresh, targets)

Appending ==
  \E id \in Ids :
    \/ \E type \in {"message", "setting"} : AppendPlain(id, type)
    \/ \E target \in Known : AppendCompaction(id, target)
    \/ \E target \in Known, set \in BOOLEAN : AppendLabelChange(id, target, set)
    \/ \E target \in Known \union {Null} : BranchWithSummary(id, target)

Next ==
  \/ Appending
  \/ \E id \in Known : Branch(id)
  \/ ResetLeaf
  \/ NewSession
  \/ Reload
  \/ \E from \in Known : Fork(from)

Spec == Init /\ [][Next]_vars
-----------------------------------------------------------------------------
(* What must hold.                                                         *)

\* Types of the variables.
TypeOK ==
  /\ Known \subseteq Ids
  /\ byId \in [Known -> Entries]
  /\ leafId \in Ids \union {Null}
  /\ labelsById \subseteq Ids
  /\ size \in Nat

\* The log is a forest whatever is appended, branched, forked or reloaded: a parent
\* is an earlier entry of the same session, so that the walks to the root
\* (getBranch, buildSessionContext) end and lose nothing, no two entries have the
\* same place in the log, and the leaf is an entry of it.
TreeWellFormed ==
  /\ \A id \in Known :
       /\ byId[id].at \in 1..size
       /\ byId[id].parentId # Null =>
            byId[id].parentId \in Known /\ byId[byId[id].parentId].at < byId[id].at
  /\ \A id, other \in Known : byId[id].at = byId[other].at => id = other
  /\ leafId \in Known \union {Null}

\* The labels kept up to date by appendLabelChange and createBranchedSession are the
\* ones _buildIndex finds in the log: reopening the session changes no label.
IndexMatchesLog == labelsById = InForce(byId)

\* The entry a compaction keeps from stays on the compaction's own path, so that
\* buildSessionContext finds it and the kept messages are not lost.
KeptOnPath ==
  \A c \in Known : byId[c].type = "compaction" => byId[c].ref \in Path(c) /\ byId[c].ref # c

\* What the LLM is sent from an entry never changes afterwards: not by entries
\* appended to other branches, nor by moving the leaf, nor when the entry is carried
\* over into a new session.
ContextIsHistory ==
  [][\A id \in Known \intersect Known' : byId[id].at = byId'[id].at => Context(id)' = Context(id)]_vars

\* A session made by createBranchedSession goes on with the conversation the entry
\* it was branched off at ends: the same context at the new leaf.
ForkKeepsContext == [][\A from \in Known : Fork(from) => Context(leafId)' = Context(from)]_vars
=============================================================================
