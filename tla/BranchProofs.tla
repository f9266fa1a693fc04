--------------------------- MODULE BranchProofs ---------------------------
(***************************************************************************)
(* Proofs about the branches of a session, SessionTree's and Compaction's, *)
(* for any set of ids, any estimates and budgets, and any bound.           *)
(*                                                                         *)
(* SessionTree: the log is of the right type and a forest whatever is      *)
(* appended, branched, branched off and reloaded (TreeIsWellFormed);       *)
(* compactions find what they keep (CompactionsKeep); what the LLM is sent *)
(* from an entry never changes (HistoryIsKept); a session branched off     *)
(* goes on with the conversation it was branched off from                  *)
(* (ForkKeepsConversation); reopening a session changes no label           *)
(* (LabelsSurviveReload).  But for the last, these assume that no session  *)
(* is branched off below a label entry (~ForkAcrossLabels), which is where *)
(* they fail.                                                              *)
(*                                                                         *)
(* Compaction: the LLM is never sent a result without its call             *)
(* (ContextStaysSendable); a compaction keeps the newest messages          *)
(* (RecentStaysKept) and summarizes the others, once and in the right part *)
(* of its summary (SummaryIsComplete); a branch summary tells of what was  *)
(* newest on the branch (NewestStaysKnown).                                *)
(***************************************************************************)
EXTENDS SessionTree, Compaction, SequenceTheorems, WellFoundedInduction, TLAPS

(***************************************************************************)
(* Paths and the last entry of a set.                                      *)
(***************************************************************************)

\* A set of numbers has a least one.
LEMMA LeastNat ==
  ASSUME NEW T \in SUBSET Nat, T # {}
  PROVE  \E m \in T : \A k \in T : m <= k
<1>1. PICK m \in T : \A k \in T : ~ (<<k, m>> \in OpToRel(<, Nat))
  BY NatLessThanWellFounded, WFMin, Zenon
<1>2. ASSUME NEW k \in T
      PROVE  m <= k
  <2>1. ~ (<<k, m>> \in OpToRel(<, Nat))
    BY <1>1
  <2>2. k < m => <<k, m>> \in OpToRel(<, Nat)
    BY DEF OpToRel
  <2>3. ~ (k < m)
    BY <2>1, <2>2, Zenon
  <2> QED
    BY <2>3
<1> QED
  BY <1>2

\* What Latest returns: the one entry of the set that none follows.
LEMMA LatestIsLast ==
  ASSUME TypeOK, TreeWellFormed, NEW S \in SUBSET Known, S # {}
  PROVE  /\ Latest(S) \in S
         /\ \A other \in S : byId[other].at <= byId[Latest(S)].at
<1>1. \A id \in S : byId[id].at \in 1..size /\ size \in Nat
  BY DEF TypeOK, TreeWellFormed
<1> DEFINE T == {size - byId[id].at : id \in S}
<1>2. T \in SUBSET Nat /\ T # {}
  BY <1>1
<1>3. PICK m \in T : \A k \in T : m <= k
  BY <1>2, LeastNat
<1>4. PICK id \in S : m = size - byId[id].at
  BY <1>3
<1>5. \A other \in S : byId[other].at <= byId[id].at
  <2> TAKE other \in S
  <2>1. size - byId[id].at <= size - byId[other].at
    BY <1>3, <1>4
  <2> QED
    BY <1>1, <2>1
<1> QED
  BY <1>5, Zenon DEF Latest

\* A path holds the parents of its entries ...
LEMMA PathClosed ==
  ASSUME NEW from, NEW id \in Path(from), byId[id].parentId \in Known
  PROVE  byId[id].parentId \in Path(from)
<1> DEFINE p == byId[id].parentId
<1>1. id \in Known /\ from \in Known
  BY DEF Path
<1>2. ASSUME NEW S \in SUBSET (Known \ {p}), from \in S, Closed(S)
      PROVE  FALSE
  <2>1. id \notin S
    BY <1>2 DEF Closed
  <2>2. S \in SUBSET (Known \ {id})
    BY <2>1
  <2> QED
    BY <1>2, <2>2 DEF Path
<1> QED
  BY <1>1, <1>2 DEF Path

\* ... it starts at the entry it is asked for, and is part of the log.
LEMMA PathBasics ==
  ASSUME NEW from \in Known
  PROVE  from \in Path(from) /\ Path(from) \in SUBSET Known
BY DEF Path

\* A closed set holds the paths of its entries.
LEMMA PathWithin ==
  ASSUME NEW S \in SUBSET Known, Closed(S), NEW from \in S
  PROVE  Path(from) \subseteq S
<1> SUFFICES ASSUME NEW id \in Path(from), id \notin S
             PROVE  FALSE
  OBVIOUS
<1>1. S \in SUBSET (Known \ {id})
  OBVIOUS
<1> QED
  BY <1>1 DEF Path

(***************************************************************************)
(* Types and the forest.                                                   *)
(***************************************************************************)

Forest == TypeOK /\ TreeWellFormed

LEMMA ForestInit == ASSUME Init PROVE Forest
<1>1. Known = {} /\ byId \in [Known -> Entries]
  BY Zenon DEF Init, Known
<1>2. leafId \in Ids \union {Null} /\ labelsById \subseteq Ids /\ size \in Nat /\ leafId = Null
  BY DEF Init
<1> QED
  BY <1>1, <1>2 DEF Forest, TypeOK, TreeWellFormed

\* An entry appended below an entry of the forest, or as a root, leaves a forest.
LEMMA AppendKeepsForest ==
  ASSUME Forest, NEW id \in Ids, id \notin Known, NEW entry \in Entries,
         AppendEntry(id, entry), entry.at = size + 1, entry.parentId \in Known \union {Null},
         labelsById' \subseteq Ids
  PROVE  /\ Forest'
         /\ Known' = Known \union {id}
         /\ \A k \in Known : byId'[k] = byId[k]
         /\ byId'[id] = entry
<1> USE SessionAssumption
<1>1. byId' = [k \in Known \union {id} |-> IF k = id THEN entry ELSE byId[k]]
      /\ leafId' = id /\ size' = size + 1
  BY DEF AppendEntry
<1>2. Known' = Known \union {id}
  BY <1>1, Zenon DEF Known
<1>3. byId'[id] = entry /\ \A k \in Known : byId'[k] = byId[k]
  BY <1>1
<1>4. Known \subseteq Ids /\ byId \in [Known -> Entries] /\ size \in Nat
  BY DEF Forest, TypeOK
<1>5. byId' \in [Known' -> Entries]
  BY <1>1, <1>2, <1>4
<1>6. TypeOK'
  BY <1>1, <1>2, <1>4, <1>5 DEF TypeOK
<1>7. \A k \in Known : byId[k].at \in 1..size
  BY DEF Forest, TreeWellFormed
<1>8. ASSUME NEW k \in Known'
      PROVE  /\ byId'[k].at \in 1..size'
             /\ byId'[k].parentId # Null =>
                  byId'[k].parentId \in Known' /\ byId'[byId'[k].parentId].at < byId'[k].at
  <2>1. CASE k = id
    BY <1>1, <1>2, <1>3, <1>4, <1>7, <2>1
  <2>2. CASE k \in Known
    BY <1>1, <1>2, <1>3, <1>4, <1>7, <2>2 DEF Forest, TreeWellFormed
  <2> QED
    BY <1>2, <2>1, <2>2
<1>9. ASSUME NEW k \in Known', NEW other \in Known', byId'[k].at = byId'[other].at
      PROVE  k = other
  <2>1. CASE k \in Known /\ other \in Known
    BY <1>3, <1>9, <2>1 DEF Forest, TreeWellFormed
  <2>2. CASE k = id \/ other = id
    BY <1>2, <1>3, <1>4, <1>7, <1>9, <2>2
  <2> QED
    BY <1>2, <2>1, <2>2
<1> QED
  BY <1>1, <1>2, <1>3, <1>6, <1>8, <1>9 DEF Forest, TreeWellFormed

\* What every append does: one entry with a new id, below the leaf or where the
\* branch summary is put; a compaction keeps an entry of the leaf's path.
Appended(id, entry) ==
  /\ id \in Ids /\ id \notin Known
  /\ entry \in Entries
  /\ entry.at = size + 1
  /\ entry.parentId \in Known \union {Null}
  /\ entry.type = "compaction" => entry.ref \in Path(entry.parentId)
  /\ AppendEntry(id, entry)
  /\ labelsById' \subseteq Ids

LEMMA AppendedEntry ==
  ASSUME Forest, NEW id \in Ids, id \notin Known, labelsById' \subseteq Ids,
         NEW type \in Types, NEW parent \in Known \union {Null}, NEW ref \in Ids \union {Null},
         NEW set \in BOOLEAN, type = "compaction" => ref \in Path(parent),
         AppendEntry(id, Entry(type, parent, ref, set, size + 1))
  PROVE  \E entry : Appended(id, entry)
<1> DEFINE e == Entry(type, parent, ref, set, size + 1)
<1>1. parent \in Ids \union {Null} /\ size + 1 \in Nat
  BY DEF Forest, TypeOK
<1>2. e \in Entries /\ e.type = type /\ e.parentId = parent /\ e.ref = ref /\ e.at = size + 1
  <2> DEFINE at == size + 1
  <2>1. at \in Nat
    BY <1>1
  <2> HIDE DEF at
  <2>2. Entry(type, parent, ref, set, at) \in Entries
    BY <1>1, <2>1 DEF Entry, Entries
  <2> QED
    BY <2>2 DEF Entry, at
<1>3. AppendEntry(id, e)
  OBVIOUS
<1> HIDE DEF e
<1>4. Appended(id, e)
  BY <1>2, <1>3 DEF Appended
<1> QED
  BY <1>4

LEMMA AppendingAppends ==
  ASSUME Forest, Appending
  PROVE  \E id, entry : Appended(id, entry)
<1> USE SessionAssumption
<1>0. Known \subseteq Ids /\ leafId \in Known \union {Null} /\ labelsById \subseteq Ids
  BY DEF Forest, TypeOK, TreeWellFormed
<1>1. PICK id \in Ids :
        \/ \E type \in {"message", "setting"} : AppendPlain(id, type)
        \/ \E target \in Known : AppendCompaction(id, target)
        \/ \E target \in Known, set \in BOOLEAN : AppendLabelChange(id, target, set)
        \/ \E target \in Known \union {Null} : BranchWithSummary(id, target)
  BY DEF Appending
<1>2. ASSUME NEW type \in {"message", "setting"}, AppendPlain(id, type)
      PROVE  \E entry : Appended(id, entry)
  <2>1. id \notin Known /\ labelsById' \subseteq Ids
        /\ AppendEntry(id, Entry(type, leafId, Null, FALSE, size + 1))
    BY <1>0, <1>2 DEF AppendPlain, FreshId
  <2>2. type \in Types /\ type # "compaction"
    BY DEF Types
  <2> QED
    BY <1>0, <2>1, <2>2, AppendedEntry
<1>3. ASSUME NEW target \in Known, AppendCompaction(id, target)
      PROVE  \E entry : Appended(id, entry)
  <2>1. id \notin Known /\ labelsById' \subseteq Ids /\ target \in Path(leafId)
        /\ AppendEntry(id, Entry("compaction", leafId, target, FALSE, size + 1))
    BY <1>0, <1>3 DEF AppendCompaction, FreshId
  <2>2. "compaction" \in Types /\ target \in Ids
    BY <1>0 DEF Types
  <2> QED
    BY <1>0, <2>1, <2>2, AppendedEntry
<1>4. ASSUME NEW target \in Known, NEW set \in BOOLEAN, AppendLabelChange(id, target, set)
      PROVE  \E entry : Appended(id, entry)
  <2>1. id \notin Known /\ labelsById' \subseteq Ids
        /\ AppendEntry(id, Entry("label", leafId, target, set, size + 1))
    BY <1>0, <1>4 DEF AppendLabelChange, FreshId
  <2>2. "label" \in Types /\ "label" # "compaction" /\ target \in Ids
    BY <1>0 DEF Types
  <2> QED
    BY <1>0, <2>1, <2>2, AppendedEntry
<1>5. ASSUME NEW target \in Known \union {Null}, BranchWithSummary(id, target)
      PROVE  \E entry : Appended(id, entry)
  <2>1. id \notin Known /\ labelsById' \subseteq Ids
        /\ AppendEntry(id, Entry("branch_summary", target, Null, FALSE, size + 1))
    BY <1>0, <1>5 DEF BranchWithSummary, FreshId
  <2>2. "branch_summary" \in Types /\ "branch_summary" # "compaction"
    BY DEF Types
  <2> QED
    BY <1>0, <2>1, <2>2, AppendedEntry
<1> QED
  BY <1>1, <1>2, <1>3, <1>4, <1>5

\* What createBranchedSession does, in the parts the proofs need: kept entries as they
\* were, and new label entries behind them, one below the other.
Chain(from, fresh, n) ==
  /\ from \in Known
  /\ ForkAcrossLabels \/ ~LabelInside(from)
  /\ n \in Nat /\ size' = size + n
  /\ fresh \in [1..n -> Ids \ Unlabelled(from)]
  /\ \A i, j \in 1..n : fresh[i] = fresh[j] => i = j
  /\ byId' = [k \in Known' |-> byId'[k]]
  /\ Known' = Unlabelled(from) \union {fresh[i] : i \in 1..n}
  /\ \A k \in Unlabelled(from) : byId'[k] = byId[k]
  /\ \A i \in 1..n : \E target \in Ids :
       byId'[fresh[i]] = Entry("label", IF i = 1 THEN LastKept(from) ELSE fresh[i - 1], target, TRUE, size + i)
  /\ leafId' = IF n > 0 THEN fresh[n] ELSE LastKept(from)
  /\ labelsById' = LabelsToWrite(from)

LEMMA ForkChains ==
  ASSUME Forest, NEW from, Fork(from)
  PROVE  \E n, fresh : Chain(from, fresh, n)
<1> USE SessionAssumption
<1> DEFINE kept == Unlabelled(from)
<1>0. Known \subseteq Ids /\ size \in Nat
  BY DEF Forest, TypeOK
<1>1. PICK n \in 0..MaxAt : \E targets \in Bijection(1..n, LabelsToWrite(from)) :
        \E fresh \in Injection(1..n, Ids \ kept) : CreateBranchedSession(from, n, fresh, targets)
  BY DEF Fork
<1>2. PICK targets \in Bijection(1..n, LabelsToWrite(from)), fresh \in Injection(1..n, Ids \ kept) :
        CreateBranchedSession(from, n, fresh, targets)
  BY <1>1
<1>3. targets \in [1..n -> LabelsToWrite(from)]
  BY DEF Bijection, Injection
<1>4. fresh \in [1..n -> Ids \ kept] /\ \A i, j \in 1..n : fresh[i] = fresh[j] => i = j
  BY DEF Injection, IsInjective
<1>5. n \in Nat
  OBVIOUS
<1>6. LabelsToWrite(from) \subseteq Ids
  BY <1>0 DEF LabelsToWrite, Unlabelled, Path
<1> DEFINE chained(i) == Entry("label", IF i = 1 THEN LastKept(from) ELSE fresh[i - 1], targets[i], TRUE, size + i)
           place(id) == CHOOSE i \in 1..n : fresh[i] = id
<1>7. byId' = [id \in kept \union Range(fresh) |-> IF id \in kept THEN byId[id] ELSE chained(place(id))]
  BY <1>2, Zenon DEF CreateBranchedSession
<1>12. /\ from \in Known
       /\ ForkAcrossLabels \/ ~LabelInside(from)
       /\ size' = size + n
       /\ leafId' = IF n > 0 THEN fresh[n] ELSE LastKept(from)
       /\ labelsById' = LabelsToWrite(from)
  BY <1>2, Zenon DEF CreateBranchedSession
<1>8. Range(fresh) = {fresh[i] : i \in 1..n}
  BY <1>4 DEF Range
<1>9. Known' = kept \union {fresh[i] : i \in 1..n}
  BY <1>7, <1>8, Zenon DEF Known
<1>10. \A k \in kept : byId'[k] = byId[k]
  BY <1>7, Zenon
<1>13. byId' = [k \in Known' |-> byId'[k]]
  <2> DEFINE value(id) == IF id \in kept THEN byId[id] ELSE chained(place(id))
             D == kept \union Range(fresh)
  <2>1. byId' = [id \in D |-> value(id)]
    BY <1>7
  <2> HIDE DEF value, D
  <2> QED
    BY <2>1, SMT DEF Known
<1>11. ASSUME NEW i \in 1..n
       PROVE  \E target \in Ids :
                byId'[fresh[i]] = Entry("label", IF i = 1 THEN LastKept(from) ELSE fresh[i - 1], target, TRUE, size + i)
  <2>1. place(fresh[i]) = i
    BY <1>4, Zenon
  <2>2. fresh[i] \notin kept /\ fresh[i] \in Range(fresh)
    BY <1>4, <1>8
  <2>3. byId'[fresh[i]] = chained(place(fresh[i]))
    BY <1>7, <2>2, Zenon
  <2>4. targets[i] \in Ids
    BY <1>3, <1>6
  <2> QED
    BY <2>1, <2>3, <2>4, Zenon
<1> QED
  BY <1>4, <1>5, <1>9, <1>10, <1>11, <1>12, <1>13, Zenon DEF Chain

\* Without a label entry inside the path, what is carried over has its parents.
LEMMA KeptClosed ==
  ASSUME Forest, NEW from \in Known, ~LabelInside(from)
  PROVE  /\ Unlabelled(from) \in SUBSET Known
         /\ \A k \in Unlabelled(from) : byId[k].parentId \in Unlabelled(from) \union {Null}
<1>1. Unlabelled(from) \in SUBSET Path(from) /\ Path(from) \in SUBSET Known
  BY PathBasics DEF Unlabelled
<1>2. ASSUME NEW k \in Unlabelled(from), byId[k].parentId # Null
      PROVE  byId[k].parentId \in Unlabelled(from)
  <2>1. k \in Path(from) /\ byId[k].type # "label"
    BY DEF Unlabelled
  <2>2. byId[k].parentId \in Known
    BY <1>1, <1>2, <2>1 DEF Forest, TreeWellFormed
  <2>3. byId[k].parentId \in Path(from)
    BY <2>1, <2>2, PathClosed
  <2>4. byId[byId[k].parentId].type # "label"
    BY <2>1, <2>3 DEF LabelInside
  <2> QED
    BY <2>3, <2>4 DEF Unlabelled
<1> QED
  BY <1>1, <1>2

LEMMA LastKeptIsLast ==
  ASSUME Forest, NEW from \in Known
  PROVE  /\ LastKept(from) \in Unlabelled(from) \union {Null}
         /\ Unlabelled(from) = {} => LastKept(from) = Null
         /\ Unlabelled(from) # {} =>
              /\ LastKept(from) \in Unlabelled(from)
              /\ \A k \in Unlabelled(from) : byId[k].at <= byId[LastKept(from)].at
<1>1. Unlabelled(from) \in SUBSET Known
  BY PathBasics DEF Unlabelled
<1> QED
  BY <1>1, LatestIsLast DEF LastKept, Forest

LEMMA ForkKeepsForest ==
  ASSUME Forest, NEW from, NEW fresh, NEW n, Chain(from, fresh, n), ~ForkAcrossLabels
  PROVE  Forest'
<1> USE SessionAssumption
<1> DEFINE kept == Unlabelled(from)
           parent(i) == IF i = 1 THEN LastKept(from) ELSE fresh[i - 1]
<1>0. /\ from \in Known /\ ~LabelInside(from) /\ n \in Nat /\ size' = size + n
      /\ fresh \in [1..n -> Ids \ kept]
      /\ \A i, j \in 1..n : fresh[i] = fresh[j] => i = j
      /\ Known' = kept \union {fresh[i] : i \in 1..n}
      /\ \A k \in kept : byId'[k] = byId[k]
      /\ leafId' = IF n > 0 THEN fresh[n] ELSE LastKept(from)
      /\ labelsById' = LabelsToWrite(from)
  BY DEF Chain
<1>1. /\ kept \in SUBSET Known
      /\ \A k \in kept : byId[k].parentId \in kept \union {Null}
  BY <1>0, KeptClosed
<1>2. Known \subseteq Ids /\ byId \in [Known -> Entries] /\ size \in Nat
      /\ \A k \in Known : byId[k].at \in 1..size
  BY DEF Forest, TypeOK, TreeWellFormed
<1>3. LastKept(from) \in kept \union {Null}
  BY <1>0, LastKeptIsLast
<1>4. ASSUME NEW i \in 1..n
      PROVE  /\ parent(i) \in Known' \union {Null} /\ parent(i) \in Ids \union {Null}
             /\ i > 1 => i - 1 \in 1..n /\ parent(i) = fresh[i - 1]
             /\ i = 1 => parent(i) \in kept \union {Null}
  <2>1. CASE i = 1
    BY <1>0, <1>1, <1>2, <1>3, <2>1
  <2>2. CASE i > 1
    <3>1. i - 1 \in 1..n /\ parent(i) = fresh[i - 1]
      BY <1>0, <2>2
    <3> QED
      BY <1>0, <2>2, <3>1
  <2> QED
    BY <1>0, <2>1, <2>2
<1> HIDE DEF parent
<1>5. ASSUME NEW i \in 1..n
      PROVE  /\ byId'[fresh[i]] \in Entries
             /\ byId'[fresh[i]].parentId = parent(i)
             /\ byId'[fresh[i]].at = size + i
  <2>1. PICK target \in Ids : byId'[fresh[i]] = Entry("label", parent(i), target, TRUE, size + i)
    BY DEF Chain, parent
  <2> DEFINE at == size + i
  <2>2. at \in Nat
    BY <1>0, <1>2
  <2> HIDE DEF at
  <2>3. Entry("label", parent(i), target, TRUE, at) \in Entries
    BY <1>4, <2>2 DEF Entry, Entries, Types
  <2> QED
    BY <2>1, <2>3 DEF at, Entry
<1>6. \A i \in 1..n : fresh[i] \in Ids /\ fresh[i] \notin kept
  BY <1>0
<1>7. TypeOK'
  <2>1. Known' \subseteq Ids
    BY <1>0, <1>1, <1>2, <1>6
  <2>2. \A k \in Known' : byId'[k] \in Entries
    BY <1>0, <1>1, <1>2, <1>5
  <2>3. byId' = [k \in Known' |-> byId'[k]]
    BY Zenon DEF Chain
  <2>4. leafId' \in Ids \union {Null} /\ labelsById' \subseteq Ids /\ size' \in Nat
    BY <1>0, <1>1, <1>2, <1>3 DEF LabelsToWrite
  <2> QED
    BY <2>1, <2>2, <2>3, <2>4 DEF TypeOK
<1>8. ASSUME NEW k \in Known'
      PROVE  /\ byId'[k].at \in 1..size'
             /\ byId'[k].parentId # Null =>
                  byId'[k].parentId \in Known' /\ byId'[byId'[k].parentId].at < byId'[k].at
  <2>1. CASE k \in kept
    <3>1. byId'[k] = byId[k] /\ byId[k].at \in 1..size /\ size' >= size
      BY <1>0, <1>1, <1>2, <2>1
    <3>2. byId[k].parentId # Null =>
            byId[k].parentId \in kept /\ byId[byId[k].parentId].at < byId[k].at
      BY <1>1, <2>1 DEF Forest, TreeWellFormed
    <3> QED
      BY <1>0, <1>2, <3>1, <3>2
  <2>2. ASSUME NEW i \in 1..n, k = fresh[i]
        PROVE  /\ byId'[k].at \in 1..size'
               /\ byId'[k].parentId # Null =>
                    byId'[k].parentId \in Known' /\ byId'[byId'[k].parentId].at < byId'[k].at
    <3>1. byId'[k].at = size + i /\ size + i \in 1..size' /\ byId'[k].parentId = parent(i)
      BY <1>0, <1>2, <1>5, <2>2
    <3>2. CASE i = 1
      <4>1. parent(i) # Null => parent(i) \in kept /\ byId'[parent(i)].at \in 1..size
        BY <1>0, <1>1, <1>2, <1>4, <3>2
      <4> QED
        BY <1>0, <1>2, <3>1, <3>2, <4>1
    <3>3. CASE i > 1
      <4>1. i - 1 \in 1..n /\ parent(i) = fresh[i - 1] /\ byId'[parent(i)].at = size + (i - 1)
        BY <1>4, <1>5, <3>3
      <4> QED
        BY <1>0, <1>2, <3>1, <4>1
    <3> QED
      BY <1>0, <3>2, <3>3
  <2> QED
    BY <1>0, <2>1, <2>2
<1>9. ASSUME NEW k \in Known', NEW other \in Known', byId'[k].at = byId'[other].at
      PROVE  k = other
  <2>1. CASE k \in kept /\ other \in kept
    BY <1>0, <1>1, <1>9, <2>1 DEF Forest, TreeWellFormed
  <2>2. ASSUME NEW i \in 1..n, NEW j \in 1..n, k = fresh[i], other = fresh[j]
        PROVE  k = other
    BY <1>0, <1>2, <1>5, <1>9, <2>2
  <2>3. ASSUME NEW i \in 1..n, (k = fresh[i] /\ other \in kept) \/ (other = fresh[i] /\ k \in kept)
        PROVE  FALSE
    BY <1>0, <1>1, <1>2, <1>5, <1>9, <2>3
  <2> QED
    BY <1>0, <2>1, <2>2, <2>3
<1>10. leafId' \in Known' \union {Null}
  BY <1>0, <1>3
<1> QED
  BY <1>7, <1>8, <1>9, <1>10 DEF Forest, TreeWellFormed

\* The steps that append nothing.
LEMMA MoveKeepsForest ==
  ASSUME Forest,
         (\E id \in Known : Branch(id)) \/ ResetLeaf \/ NewSession \/ Reload \/ UNCHANGED vars
  PROVE  Forest'
<1> USE SessionAssumption
<1>1. CASE (\E id \in Known : Branch(id)) \/ ResetLeaf
  BY <1>1 DEF Branch, ResetLeaf, Forest, TypeOK, TreeWellFormed, Known
<1>2. CASE NewSession
  <2>1. byId' = [id \in {} |-> Null] /\ leafId' = Null /\ labelsById' = {} /\ size' = 0
    BY <1>2 DEF NewSession
  <2>2. Known' = {} /\ byId' \in [Known' -> Entries]
    BY <2>1, Zenon DEF Known
  <2> QED
    BY <2>1, <2>2 DEF Forest, TypeOK, TreeWellFormed
<1>3. CASE Reload
  <2>1. Known # {} /\ leafId' = Latest(Known) /\ labelsById' = InForce(byId) /\ byId' = byId /\ size' = size
    BY <1>3 DEF Reload
  <2>2. leafId' \in Known
    BY <2>1, LatestIsLast DEF Forest
  <2>3. labelsById' \subseteq Ids
    BY <2>1 DEF InForce
  <2> QED
    BY <2>1, <2>2, <2>3 DEF Forest, TypeOK, TreeWellFormed, Known
<1>4. CASE UNCHANGED vars
  BY <1>4 DEF vars, Forest, TypeOK, TreeWellFormed, Known
<1> QED
  BY <1>1, <1>2, <1>3, <1>4

LEMMA ForestStep ==
  ASSUME Forest, [Next]_vars, ~ForkAcrossLabels
  PROVE  Forest'
<1>1. CASE Appending
  <2>1. PICK id, entry : Appended(id, entry)
    BY <1>1, AppendingAppends
  <2> QED
    BY <2>1, AppendKeepsForest DEF Appended
<1>2. ASSUME NEW from \in Known, Fork(from)
      PROVE  Forest'
  BY <1>2, ForkChains, ForkKeepsForest
<1> QED
  BY <1>1, <1>2, MoveKeepsForest DEF Next

\* The variables have their types and the log is a forest, as long as no session is
\* branched off below a label entry: parents are earlier entries of the same session.
THEOREM TreeIsWellFormed ==
  ASSUME ~ForkAcrossLabels
  PROVE  Spec => [](TypeOK /\ TreeWellFormed)
<1>1. Init => Forest
  BY ForestInit
<1>2. Forest /\ [Next]_vars => Forest'
  BY ForestStep
<1>3. Forest => TypeOK /\ TreeWellFormed
  BY DEF Forest
<1> QED
  BY <1>1, <1>2, <1>3, PTL DEF Spec

(***************************************************************************)
(* What the LLM is sent from an entry.                                     *)
(***************************************************************************)

\* A set of entries that a step carries over with all of their parents.
CarriedOver(K) ==
  /\ K \in SUBSET (Known \intersect Known')
  /\ \A k \in K : byId'[k] = byId[k] /\ byId[k].parentId \in K \union {Null}

\* The paths of such entries stay as they are.
LEMMA PathStable ==
  ASSUME Forest, Forest', NEW K, CarriedOver(K), NEW from \in K
  PROVE  Path(from)' = Path(from) /\ Path(from) \subseteq K
<1> USE SessionAssumption
<1>1. /\ K \in SUBSET Known /\ K \in SUBSET Known'
      /\ \A k \in K : byId'[k] = byId[k] /\ byId[k].parentId \in K \union {Null}
  BY DEF CarriedOver
<1>2. Null \notin Known /\ Null \notin Known'
  BY DEF Forest, TypeOK
<1>3. Closed(K) /\ Closed(K)'
  BY <1>1, <1>2 DEF Closed
<1>4. Path(from) \subseteq K
  BY <1>1, <1>3, PathWithin
<1>5. Path(from)' \subseteq K
  <2> SUFFICES ASSUME NEW id \in Path(from)', id \notin K
               PROVE  FALSE
    OBVIOUS
  <2>1. K \in SUBSET (Known' \ {id})
    BY <1>1
  <2> QED
    BY <1>3, <2>1 DEF Path
<1>6. ASSUME NEW id \in K, id \in Path(from)
      PROVE  id \in Path(from)'
  <2>1. ASSUME NEW S \in SUBSET (Known' \ {id}), from \in S, Closed(S)'
        PROVE  FALSE
    <3> DEFINE T == S \intersect K
    <3>1. T \in SUBSET (Known \ {id}) /\ from \in T
      BY <1>1, <2>1
    <3>2. Closed(T)
      BY <1>1, <1>2, <2>1 DEF Closed
    <3> QED
      BY <1>6, <3>1, <3>2 DEF Path
  <2> QED
    BY <1>1, <2>1 DEF Path
<1>7. ASSUME NEW id \in K, id \in Path(from)'
      PROVE  id \in Path(from)
  <2>1. ASSUME NEW S \in SUBSET (Known \ {id}), from \in S, Closed(S)
        PROVE  FALSE
    <3> DEFINE T == S \intersect K
    <3>1. T \in SUBSET (Known' \ {id}) /\ from \in T
      BY <1>1, <2>1
    <3>2. Closed(T)'
      BY <1>1, <1>2, <2>1 DEF Closed
    <3> QED
      BY <1>7, <3>1, <3>2 DEF Path
  <2> QED
    BY <1>1, <2>1 DEF Path
<1> QED
  BY <1>4, <1>5, <1>6, <1>7

\* Latest, in the state before a step and in the one after it.
IsLatest(id, S) == id \in S /\ \A other \in S : byId[other].at <= byId[id].at
LatestOfAny == \A S : Forest /\ S \in SUBSET Known /\ S # {} => IsLatest(Latest(S), S)

LEMMA LatestThenAndNow == LatestOfAny /\ LatestOfAny'
<1>1. LatestOfAny
  BY LatestIsLast DEF LatestOfAny, IsLatest, Forest
<1> QED
  BY <1>1, PTL

\* What a path amounts to does not depend on entries outside it.
LEMMA ContextOfStable ==
  ASSUME Forest, Forest', NEW K, CarriedOver(K), NEW P \in SUBSET K
  PROVE  ContextOf(P)' = ContextOf(P)
<1>1. P \in SUBSET Known /\ P \in SUBSET Known' /\ \A id \in P : byId'[id] = byId[id]
  BY DEF CarriedOver
<1> DEFINE C == {id \in P : byId[id].type = "compaction"}
<1>2. C' = C /\ C \in SUBSET P
  BY <1>1
<1>3. C # {} => Latest(C)' = Latest(C) /\ Latest(C) \in P
  <2> SUFFICES ASSUME C # {}
               PROVE  Latest(C)' = Latest(C) /\ Latest(C) \in P
    OBVIOUS
  <2>1. PICK S : S = C
    OBVIOUS
  <2>2. S \in SUBSET Known /\ S \in SUBSET Known' /\ S # {} /\ S \in SUBSET P
    BY <1>1, <1>2, <2>1
  <2>3. Latest(S) \in S /\ \A other \in S : byId[other].at <= byId[Latest(S)].at
    BY <2>2, LatestThenAndNow DEF LatestOfAny, IsLatest
  <2>4. Latest(S)' \in S /\ \A other \in S : byId'[other].at <= byId'[Latest(S)'].at
    BY <2>2, LatestThenAndNow DEF LatestOfAny, IsLatest
  <2>5. \A id \in S : byId[id].at \in Nat
    BY <2>2 DEF Forest, TreeWellFormed
  <2>6. byId[Latest(S)].at = byId[Latest(S)'].at
    BY <1>1, <2>2, <2>3, <2>4, <2>5
  <2>7. Latest(S)' = Latest(S)
    BY <2>2, <2>3, <2>4, <2>6 DEF Forest, TreeWellFormed
  <2>8. Latest(C)' = Latest(S)' /\ Latest(C) = Latest(S)
    BY <1>2, <2>1
  <2> QED
    BY <2>2, <2>3, <2>7, <2>8
<1>4. \A S \in SUBSET P : Spoken(S)' = Spoken(S)
  BY <1>1 DEF Spoken
<1>5. \A c \in P : Kept(P, c)' = Kept(P, c) /\ Kept(P, c) \in SUBSET P
  BY <1>1 DEF Kept
<1>6. \A c \in P : {id \in P : byId[id].at > byId[c].at}' = {id \in P : byId[id].at > byId[c].at}
  BY <1>1
<1> QED
  BY <1>2, <1>3, <1>4, <1>5, <1>6 DEF ContextOf

LEMMA ContextStable ==
  ASSUME Forest, Forest', NEW K, CarriedOver(K), NEW from \in K
  PROVE  Context(from)' = Context(from)
<1>1. PICK P : P = Path(from)
  OBVIOUS
<1>2. Path(from)' = P /\ P \in SUBSET K
  BY <1>1, PathStable
<1>3. ContextOf(P)' = ContextOf(P)
  BY <1>2, ContextOfStable
<1> QED
  BY <1>1, <1>2, <1>3 DEF Context

\* Every step carries over the entries that are there before and after it; an id that
\* is given again to a new entry has a later place.
Survivors(K) ==
  /\ CarriedOver(K)
  /\ \A id \in Known \intersect Known' : byId[id].at = byId'[id].at => id \in K

LEMMA AppendSurvivors ==
  ASSUME Forest, NEW id, NEW entry, Appended(id, entry)
  PROVE  Survivors(Known)
<1>1. Known' = Known \union {id} /\ \A k \in Known : byId'[k] = byId[k]
  BY AppendKeepsForest DEF Appended
<1>2. \A k \in Known : byId[k].parentId \in Known \union {Null}
  BY DEF Forest, TreeWellFormed
<1> QED
  BY <1>1, <1>2 DEF Survivors, CarriedOver

LEMMA ForkSurvivors ==
  ASSUME Forest, NEW from, NEW fresh, NEW n, Chain(from, fresh, n), ~ForkAcrossLabels
  PROVE  Survivors(Unlabelled(from))
<1> DEFINE kept == Unlabelled(from)
<1>1. /\ from \in Known /\ ~LabelInside(from) /\ n \in Nat
      /\ Known' = kept \union {fresh[i] : i \in 1..n}
      /\ \A k \in kept : byId'[k] = byId[k]
  BY DEF Chain
<1>2. CarriedOver(kept)
  BY <1>1, KeptClosed DEF CarriedOver
<1>3. ASSUME NEW id \in Known, id \in Known', byId[id].at = byId'[id].at, id \notin kept
      PROVE  FALSE
  <2>1. PICK i \in 1..n : id = fresh[i]
    BY <1>1, <1>3
  <2>2. byId'[id].at = size + i
    <3>1. PICK target \in Ids : byId'[fresh[i]] =
            Entry("label", IF i = 1 THEN LastKept(from) ELSE fresh[i - 1], target, TRUE, size + i)
      BY DEF Chain
    <3> QED
      BY <2>1, <3>1 DEF Entry
  <2>3. byId[id].at \in 1..size /\ size \in Nat
    BY <1>3 DEF Forest, TypeOK, TreeWellFormed
  <2> QED
    BY <1>1, <1>3, <2>2, <2>3
<1> QED
  BY <1>2, <1>3 DEF Survivors

LEMMA StepSurvivors ==
  ASSUME Forest, [Next]_vars, ~ForkAcrossLabels
  PROVE  \E K : Survivors(K)
<1>1. CASE Appending
  BY <1>1, AppendingAppends, AppendSurvivors
<1>2. ASSUME NEW from \in Known, Fork(from)
      PROVE  \E K : Survivors(K)
  BY <1>2, ForkChains, ForkSurvivors
<1>3. CASE NewSession
  <2>1. byId' = [id \in {} |-> Null]
    BY <1>3 DEF NewSession
  <2>2. Known' = {}
    BY <2>1, Zenon DEF Known
  <2>3. Survivors({})
    BY <2>2 DEF Survivors, CarriedOver
  <2> QED
    BY <2>3
<1>4. CASE byId' = byId
  <2>1. Survivors(Known)
    BY <1>4 DEF Survivors, CarriedOver, Known, Forest, TreeWellFormed
  <2> QED
    BY <2>1
<1> QED
  BY <1>1, <1>2, <1>3, <1>4 DEF Next, Branch, ResetLeaf, Reload, vars

LEMMA HistoryStep ==
  ASSUME Forest, [Next]_vars, ~ForkAcrossLabels
  PROVE  \A id \in Known \intersect Known' : byId[id].at = byId'[id].at => Context(id)' = Context(id)
<1>1. PICK K : Survivors(K)
  BY StepSurvivors
<1>2. Forest'
  BY ForestStep
<1>3. \A id \in K : Context(id)' = Context(id)
  BY <1>1, <1>2, ContextStable DEF Survivors
<1> QED
  BY <1>1, <1>3 DEF Survivors

\* What the LLM is sent from an entry never changes, whatever happens elsewhere in the
\* session, and when the entry is carried over into another one.
THEOREM HistoryIsKept ==
  ASSUME ~ForkAcrossLabels
  PROVE  Spec => ContextIsHistory
<1>1. Init => Forest
  BY ForestInit
<1>2. Forest /\ [Next]_vars => Forest'
  BY ForestStep
<1>3. Forest /\ [Next]_vars =>
        [\A id \in Known \intersect Known' : byId[id].at = byId'[id].at => Context(id)' = Context(id)]_vars
  BY HistoryStep
<1> QED
  BY <1>1, <1>2, <1>3, PTL DEF Spec, ContextIsHistory

(***************************************************************************)
(* What a compaction keeps.                                                *)
(***************************************************************************)

\* The path of an entry goes on with the path of its parent, before a step and after it.
ParentPaths ==
  \A id \in Known : byId[id].parentId \in Known => Path(byId[id].parentId) \subseteq Path(id)

LEMMA ParentPathsHold == ParentPaths /\ ParentPaths'
<1>1. ParentPaths
  <2> SUFFICES ASSUME NEW id \in Known, byId[id].parentId \in Known,
                      NEW x \in Path(byId[id].parentId)
               PROVE  x \in Path(id)
    BY DEF ParentPaths
  <2>1. ASSUME NEW S \in SUBSET (Known \ {x}), id \in S, Closed(S)
        PROVE  FALSE
    <3>1. byId[id].parentId \in S
      BY <2>1 DEF Closed
    <3> QED
      BY <2>1, <3>1 DEF Path
  <2>2. x \in Known
    BY DEF Path
  <2> QED
    BY <2>1, <2>2 DEF Path
<1> QED
  BY <1>1, PTL

LEMMA KeptOnPathStep ==
  ASSUME Forest, KeptOnPath, [Next]_vars, ~ForkAcrossLabels
  PROVE  KeptOnPath'
<1> USE SessionAssumption
<1>0. Forest' /\ Null \notin Known /\ Null \notin Known'
  BY ForestStep DEF Forest, TypeOK
<1>1. ASSUME NEW K, CarriedOver(K), NEW c \in K, byId'[c].type = "compaction"
      PROVE  byId'[c].ref \in Path(c)' /\ byId'[c].ref # c
  <2>1. c \in Known /\ byId'[c] = byId[c]
    BY <1>1 DEF CarriedOver
  <2>2. Path(c)' = Path(c)
    BY <1>0, <1>1, PathStable
  <2> QED
    BY <1>1, <2>1, <2>2 DEF KeptOnPath
<1>2. CASE Appending
  <2>1. PICK id, entry : Appended(id, entry)
    BY <1>2, AppendingAppends
  <2>2. /\ Known' = Known \union {id} /\ byId'[id] = entry /\ id \notin Known
        /\ entry.parentId \in Known \union {Null}
        /\ entry.type = "compaction" => entry.ref \in Path(entry.parentId)
    BY <2>1, AppendKeepsForest DEF Appended
  <2>3. CarriedOver(Known)
    BY <2>1, AppendSurvivors DEF Survivors
  <2>4. ASSUME byId'[id].type = "compaction"
        PROVE  byId'[id].ref \in Path(id)' /\ byId'[id].ref # id
    <3>1. entry.ref \in Path(entry.parentId)
      BY <2>2, <2>4
    <3>2. entry.parentId \in Known /\ entry.ref \in Known
      BY <3>1 DEF Path
    <3>3. PICK p \in Known : p = entry.parentId
      BY <3>2
    <3>4. Path(p)' = Path(p)
      BY <1>0, <2>3, PathStable
    <3>5. id \in Known' /\ p \in Known' /\ byId'[id].parentId = p
      BY <2>2, <3>3
    <3>6. Path(p)' \subseteq Path(id)'
      BY <3>5, ParentPathsHold DEF ParentPaths
    <3>7. entry.ref \in Path(p)
      BY <3>1, <3>3
    <3> QED
      BY <2>2, <3>2, <3>4, <3>6, <3>7
  <2> QED
    BY <1>1, <2>2, <2>3, <2>4 DEF KeptOnPath
<1>3. ASSUME NEW from \in Known, Fork(from)
      PROVE  KeptOnPath'
  <2>1. PICK n, fresh : Chain(from, fresh, n)
    BY <1>3, ForkChains
  <2>2. CarriedOver(Unlabelled(from))
    BY <2>1, ForkSurvivors DEF Survivors
  <2>3. Known' = Unlabelled(from) \union {fresh[i] : i \in 1..n}
    BY <2>1 DEF Chain
  <2>4. \A i \in 1..n : byId'[fresh[i]].type = "label"
    <3> TAKE i \in 1..n
    <3>1. PICK target \in Ids : byId'[fresh[i]] =
            Entry("label", IF i = 1 THEN LastKept(from) ELSE fresh[i - 1], target, TRUE, size + i)
      BY <2>1 DEF Chain
    <3> QED
      BY <3>1 DEF Entry
  <2> QED
    BY <1>1, <2>2, <2>3, <2>4 DEF KeptOnPath
<1>4. CASE NewSession
  <2>1. byId' = [id \in {} |-> Null]
    BY <1>4 DEF NewSession
  <2>2. Known' = {}
    BY <2>1, Zenon DEF Known
  <2> QED
    BY <2>2 DEF KeptOnPath
<1>5. CASE byId' = byId
  <2>1. Known' = Known /\ CarriedOver(Known)
    BY <1>5 DEF CarriedOver, Known, Forest, TreeWellFormed
  <2> QED
    BY <1>1, <2>1 DEF KeptOnPath
<1> QED
  BY <1>2, <1>3, <1>4, <1>5 DEF Next, Branch, ResetLeaf, Reload, vars

\* The entry a compaction keeps from is on the compaction's path in every session, so
\* that buildSessionContext finds it.
THEOREM CompactionsKeep ==
  ASSUME ~ForkAcrossLabels
  PROVE  Spec => []KeptOnPath
<1>1. Init => Forest /\ KeptOnPath
  <2>1. Init => Known = {}
    BY Zenon DEF Init, Known
  <2> QED
    BY <2>1, ForestInit DEF KeptOnPath
<1>2. Forest /\ KeptOnPath /\ [Next]_vars => Forest' /\ KeptOnPath'
  BY ForestStep, KeptOnPathStep
<1> QED
  BY <1>1, <1>2, PTL DEF Spec

(***************************************************************************)
(* Branching off into a new session.                                       *)
(***************************************************************************)

\* Label entries do not count for the context, unless a compaction keeps from one.
LabelsDoNotCount ==
  \A P, Q :
    /\ Forest
    /\ P \in SUBSET Known
    /\ Q = {id \in P : byId[id].type # "label"}
    /\ \A c \in Q : byId[c].type = "compaction" => byId[c].ref \in Q
    => ContextOf(P) = ContextOf(Q)

LEMMA LabelsDoNotCountHolds == LabelsDoNotCount /\ LabelsDoNotCount'
<1>1. LabelsDoNotCount
  <2> SUFFICES ASSUME NEW P, NEW Q, Forest, P \in SUBSET Known, Q = {id \in P : byId[id].type # "label"},
                      \A c \in Q : byId[c].type = "compaction" => byId[c].ref \in Q
               PROVE  ContextOf(P) = ContextOf(Q)
    BY DEF LabelsDoNotCount
  <2> DEFINE C(S) == {id \in S : byId[id].type = "compaction"}
             After(S, c) == {id \in S : byId[id].at > byId[c].at}
  <2>1. C(P) = C(Q)
    OBVIOUS
  <2>2. Spoken(P) = Spoken(Q)
    BY DEF Spoken
  <2>3. ASSUME NEW c \in C(Q)
        PROVE  Spoken(Kept(P, c)) = Spoken(Kept(Q, c)) /\ Spoken(After(P, c)) = Spoken(After(Q, c))
    <3>1. byId[c].ref \in Q /\ byId[c].ref \in P
      BY <2>3
    <3> QED
      BY <3>1 DEF Spoken, Kept
  <2>4. CASE C(Q) = {}
    BY <2>1, <2>2, <2>4 DEF ContextOf
  <2>5. CASE C(Q) # {} /\ Latest(C(Q)) \in C(Q)
    <3> DEFINE c == Latest(C(Q))
    <3>1. ContextOf(P) = {Latest(C(P))} \union Spoken(Kept(P, Latest(C(P)))) \union Spoken(After(P, Latest(C(P))))
      BY <2>1, <2>5 DEF ContextOf
    <3>2. ContextOf(Q) = {c} \union Spoken(Kept(Q, c)) \union Spoken(After(Q, c))
      BY <2>5 DEF ContextOf
    <3>3. Latest(C(P)) = c
      BY <2>1
    <3> QED
      BY <2>3, <2>5, <3>1, <3>2, <3>3
  <2>6. C(Q) # {} => Latest(C(Q)) \in C(Q)
    <3>1. PICK S : S = C(Q)
      OBVIOUS
    <3>2. S \in SUBSET Known
      BY <3>1
    <3> QED
      BY <3>1, <3>2, LatestThenAndNow DEF LatestOfAny, IsLatest
  <2> QED
    BY <2>4, <2>5, <2>6
<1> QED
  BY <1>1, PTL

\* Of two entries of a path one is above the other.
LEMMA PathIsLinear ==
  ASSUME NEW from \in Known, NEW x \in Path(from), NEW y \in Path(from)
  PROVE  x \in Path(y) \/ y \in Path(x)
<1> DEFINE S == {z \in Path(from) : z \in Path(y) \/ y \in Path(z)}
<1>1. S \in SUBSET Known /\ from \in S
  BY PathBasics
<1>2. ASSUME NEW z \in S, byId[z].parentId \in Known
      PROVE  byId[z].parentId \in S
  <2> DEFINE p == byId[z].parentId
  <2>1. p \in Path(from) /\ z \in Known /\ y \in Known
    BY <1>1, <1>2, PathClosed, PathBasics
  <2>2. CASE z \in Path(y)
    BY <1>2, <2>1, <2>2, PathClosed
  <2>3. CASE z \notin Path(y) /\ y \in Path(z)
    <3>1. z # y
      BY <2>1, <2>3, PathBasics
    <3>2. ASSUME NEW U \in SUBSET (Known \ {y}), p \in U, Closed(U)
          PROVE  FALSE
      <4>1. U \union {z} \in SUBSET (Known \ {y}) /\ Closed(U \union {z})
        BY <2>1, <3>1, <3>2 DEF Closed
      <4> QED
        BY <2>3, <4>1 DEF Path
    <3>3. y \in Path(p)
      BY <1>2, <2>1, <3>2 DEF Path
    <3> QED
      BY <2>1, <3>3
  <2> QED
    BY <1>2, <2>2, <2>3
<1>3. Path(from) \subseteq S
  <2>1. Closed(S)
    BY <1>1, <1>2 DEF Closed
  <2> QED
    BY <1>1, <2>1, PathWithin
<1> QED
  BY <1>3

\* The entries above an entry come before it.
LEMMA PathGoesBack ==
  ASSUME Forest, NEW y \in Known, NEW x \in Path(y)
  PROVE  byId[x].at <= byId[y].at
<1> DEFINE S == {z \in Known : byId[z].at <= byId[y].at}
<1>1. \A z \in Known : byId[z].at \in Nat
  BY DEF Forest, TreeWellFormed
<1>2. y \in S /\ S \in SUBSET Known
  BY <1>1
<1>3. Closed(S)
  <2> SUFFICES ASSUME NEW z \in S, byId[z].parentId \in Known
               PROVE  byId[byId[z].parentId].at <= byId[y].at
    BY DEF Closed
  <2>1. z \in Known /\ byId[z].parentId # Null
    BY SessionAssumption DEF Forest, TypeOK
  <2>2. byId[byId[z].parentId].at < byId[z].at
    BY <2>1 DEF Forest, TreeWellFormed
  <2> QED
    BY <1>1, <2>1, <2>2
<1> QED
  BY <1>2, <1>3, PathWithin

\* The last entry carried over has all of them on its path.
LEMMA KeptAboveLast ==
  ASSUME Forest, NEW from \in Known, Unlabelled(from) # {}
  PROVE  Unlabelled(from) \subseteq Path(LastKept(from))
<1> DEFINE last == LastKept(from)
<1>1. last \in Unlabelled(from) /\ \A k \in Unlabelled(from) : byId[k].at <= byId[last].at
  BY LastKeptIsLast
<1>2. Unlabelled(from) \subseteq Path(from) /\ Path(from) \subseteq Known
  BY PathBasics DEF Unlabelled
<1> SUFFICES ASSUME NEW k \in Unlabelled(from), k \notin Path(last)
             PROVE  FALSE
  OBVIOUS
<1>3. last \in Path(k) /\ k \in Known /\ last \in Known
  BY <1>1, <1>2, PathIsLinear
<1>4. byId[last].at <= byId[k].at /\ byId[k].at <= byId[last].at
  BY <1>1, <1>3, PathGoesBack
<1>5. byId[k].at \in Nat /\ byId[last].at \in Nat
  BY <1>3 DEF Forest, TreeWellFormed
<1>6. k = last
  BY <1>3, <1>4, <1>5 DEF Forest, TreeWellFormed
<1> QED
  BY <1>3, <1>6

\* PathWithin, in the state before a step and in the one after it.
PathsWithin ==
  \A S \in SUBSET Known : Closed(S) => \A from \in S : Path(from) \subseteq S

LEMMA PathsWithinHold == PathsWithin /\ PathsWithin'
<1>1. PathsWithin
  BY PathWithin DEF PathsWithin
<1> QED
  BY <1>1, PTL

\* In the new session everything is on the path of the leaf.
LEMMA ForkIsOnePath ==
  ASSUME Forest, NEW from, NEW fresh, NEW n, Chain(from, fresh, n), ~ForkAcrossLabels, Known' # {}
  PROVE  leafId' \in Known' /\ Path(leafId)' = Known'
<1> USE SessionAssumption
<1>8. PICK kept, last : kept = Unlabelled(from) /\ last = LastKept(from)
  OBVIOUS
<1>1. /\ from \in Known /\ n \in Nat
      /\ Known' = kept \union {fresh[i] : i \in 1..n}
      /\ leafId' = IF n > 0 THEN fresh[n] ELSE last
  BY <1>8 DEF Chain
<1>9. ASSUME NEW i \in 1..n
      PROVE  byId'[fresh[i]].parentId = IF i = 1 THEN last ELSE fresh[i - 1]
  <2>1. PICK target \in Ids : byId'[fresh[i]] =
          Entry("label", IF i = 1 THEN last ELSE fresh[i - 1], target, TRUE, size + i)
    BY <1>8 DEF Chain
  <2> QED
    BY <2>1 DEF Entry
<1>2. Forest' /\ CarriedOver(kept)
  BY <1>8, ForkKeepsForest, ForkSurvivors DEF Survivors
<1>3. kept # {} => last \in kept /\ kept \subseteq Path(last)'
  <2> SUFFICES ASSUME kept # {}
               PROVE  last \in kept /\ kept \subseteq Path(last)'
    OBVIOUS
  <2>1. last \in kept
    BY <1>1, <1>8, LastKeptIsLast
  <2>2. kept \subseteq Path(last)
    BY <1>1, <1>8, KeptAboveLast
  <2>3. Path(last)' = Path(last)
    BY <1>2, <2>1, PathStable
  <2> QED
    BY <2>1, <2>2, <2>3
<1>4. leafId' \in Known'
  BY <1>1, <1>3
<1>5. ASSUME NEW x \in Known', NEW S \in SUBSET (Known' \ {x}), leafId' \in S, Closed(S)'
      PROVE  FALSE
  <2>1. S \in SUBSET Known'
    OBVIOUS
  <2>2. CASE n = 0
    <3>1. kept # {} /\ Known' = kept /\ leafId' = last
      BY <1>1, <2>2
    <3> QED
      BY <1>3, <1>5, <2>1, <3>1, PathsWithinHold DEF PathsWithin
  <2>3. CASE n > 0
    <3> DEFINE T == {i \in 1..n : \A j \in i..n : fresh[j] \in S}
    <3>1. T \in SUBSET Nat /\ n \in T
      BY <1>1, <1>5, <2>3
    <3>2. PICK m \in T : \A k \in T : m <= k
      BY <3>1, LeastNat
    <3>3. ASSUME NEW i \in 1..n, fresh[i] \in S, i > 1
          PROVE  fresh[i - 1] \in S
      <4>2. byId'[fresh[i]].parentId = fresh[i - 1]
        BY <1>9, <3>3
      <4>3. fresh[i - 1] \in Known'
        BY <1>1, <3>3
      <4> QED
        BY <1>5, <3>3, <4>2, <4>3 DEF Closed
    <3>4. m = 1
      <4> SUFFICES ASSUME m > 1
                   PROVE  FALSE
        BY <3>2
      <4>1. m \in 1..n /\ fresh[m] \in S /\ m - 1 \in 1..n
        BY <1>1, <3>2
      <4>2. fresh[m - 1] \in S
        BY <3>3, <4>1
      <4>3. m - 1 \in T
        <5>1. \A j \in (m - 1)..n : j = m - 1 \/ j \in m..n
          BY <4>1
        <5> QED
          BY <3>2, <4>1, <4>2, <5>1
      <4> QED
        BY <3>2, <4>1, <4>3
    <3>5. \A i \in 1..n : fresh[i] \in S
      BY <3>2, <3>4
    <3>6. kept \subseteq S
      <4> SUFFICES ASSUME kept # {}
                   PROVE  kept \subseteq S
        OBVIOUS
      <4>1. 1 \in 1..n
        BY <1>1, <2>3
      <4>3. byId'[fresh[1]].parentId = last
        BY <1>9, <4>1
      <4>4. last \in Known'
        BY <1>1, <1>3
      <4>5. last \in S
        BY <1>5, <3>5, <4>1, <4>3, <4>4 DEF Closed
      <4> QED
        BY <1>3, <1>5, <2>1, <4>5, PathsWithinHold DEF PathsWithin
    <3> QED
      BY <1>1, <1>5, <3>5, <3>6
  <2> QED
    BY <1>1, <2>2, <2>3
<1>6. Path(leafId)' = Known'
  <2>1. PICK leaf : leaf = leafId'
    OBVIOUS
  <2>2. Path(leaf)' = Known'
    BY <1>4, <1>5, <2>1 DEF Path
  <2> QED
    BY <2>1, <2>2 DEF Path
<1> QED
  BY <1>4, <1>6

LEMMA ForkStep ==
  ASSUME Forest, KeptOnPath, NEW from, Fork(from), ~ForkAcrossLabels
  PROVE  Context(leafId)' = Context(from)
<1> USE SessionAssumption
<1>1. PICK n, fresh : Chain(from, fresh, n)
  BY ForkChains
<1>2. PICK kept, whole : kept = Unlabelled(from) /\ whole = Known'
  OBVIOUS
<1>3. /\ from \in Known /\ n \in Nat
      /\ whole = kept \union {fresh[i] : i \in 1..n}
      /\ leafId' = IF n > 0 THEN fresh[n] ELSE LastKept(from)
  BY <1>1, <1>2 DEF Chain
<1>4. Forest' /\ CarriedOver(kept)
  BY <1>1, <1>2, ForkKeepsForest, ForkSurvivors DEF Survivors
<1>5. ASSUME NEW c \in kept, byId[c].type = "compaction"
      PROVE  byId[c].ref \in kept
  <2>1. c \in Known /\ Path(c) \subseteq kept
    BY <1>4, PathStable DEF CarriedOver
  <2> QED
    BY <1>5, <2>1 DEF KeptOnPath
<1>6. Context(from) = ContextOf(kept)
  <2>1. PICK P : P = Path(from)
    OBVIOUS
  <2>2. P \in SUBSET Known /\ kept = {id \in P : byId[id].type # "label"}
    BY <1>2, <2>1, PathBasics, <1>3 DEF Unlabelled
  <2>3. ContextOf(P) = ContextOf(kept)
    BY <1>5, <2>2, LabelsDoNotCountHolds DEF LabelsDoNotCount
  <2> QED
    BY <2>1, <2>3 DEF Context
<1>7. ContextOf(kept)' = ContextOf(kept)
  BY <1>4, ContextOfStable
<1>8. CASE whole # {}
  <2>1. Path(leafId)' = whole
    BY <1>1, <1>2, <1>8, ForkIsOnePath
  <2>2. /\ whole \in SUBSET Known'
        /\ kept = {id \in whole : byId'[id].type # "label"}
        /\ \A c \in kept : byId'[c].type = "compaction" => byId'[c].ref \in kept
    <3>1. \A i \in 1..n : byId'[fresh[i]].type = "label"
      <4> TAKE i \in 1..n
      <4>1. PICK target \in Ids : byId'[fresh[i]] =
              Entry("label", IF i = 1 THEN LastKept(from) ELSE fresh[i - 1], target, TRUE, size + i)
        BY <1>1 DEF Chain
      <4> QED
        BY <4>1 DEF Entry
    <3>2. \A k \in kept : byId'[k] = byId[k] /\ byId[k].type # "label"
      BY <1>2, <1>4 DEF CarriedOver, Unlabelled
    <3> QED
      BY <1>2, <1>3, <1>5, <3>1, <3>2
  <2>3. ContextOf(whole)' = ContextOf(kept)'
    BY <1>4, <2>2, LabelsDoNotCountHolds DEF LabelsDoNotCount
  <2> QED
    BY <1>6, <1>7, <2>1, <2>3 DEF Context
<1>9. CASE whole = {}
  <2>1. kept = {} /\ Known' = {}
    BY <1>2, <1>3, <1>9
  <2>2. Path(leafId)' = {}
    BY <2>1 DEF Path
  <2>3. ContextOf({}) = {} /\ ContextOf({})' = {}
    BY DEF ContextOf, Spoken
  <2> QED
    BY <1>6, <2>1, <2>2, <2>3 DEF Context
<1> QED
  BY <1>8, <1>9

\* A session branched off goes on with the conversation that ends where it was branched
\* off, unless that is below a label entry.
THEOREM ForkKeepsConversation ==
  ASSUME ~ForkAcrossLabels
  PROVE  Spec => ForkKeepsContext
<1>1. Init => Forest /\ KeptOnPath
  <2>1. Init => Known = {}
    BY Zenon DEF Init, Known
  <2> QED
    BY <2>1, ForestInit DEF KeptOnPath
<1>2. Forest /\ KeptOnPath /\ [Next]_vars => Forest' /\ KeptOnPath'
  BY ForestStep, KeptOnPathStep
<1>3. Forest /\ KeptOnPath /\ [Next]_vars =>
        [\A from \in Known : Fork(from) => Context(leafId)' = Context(from)]_vars
  BY ForkStep
<1> QED
  BY <1>1, <1>2, <1>3, PTL DEF Spec, ForkKeepsContext


(***************************************************************************)
(* The labels.                                                             *)
(***************************************************************************)

\* No entry is dated later than the last one appended.
Dated == size \in Nat /\ \A id \in Known : byId[id].at \in Nat /\ byId[id].at <= size

\* What the label entries of a log say of t: `id` is the last that names it.
LastSays(log, t, id) ==
  /\ id \in DOMAIN log /\ log[id].type = "label" /\ log[id].ref = t
  /\ \A other \in DOMAIN log : log[other].type = "label" /\ log[other].ref = t => log[other].at <= log[id].at

\* The labels in force, by the last word on each target.
LEMMA InForceLast ==
  ASSUME NEW log
  PROVE  InForce(log) = {t \in Ids : \E id : LastSays(log, t, id) /\ log[id].set}
BY DEF InForce, LastSays

\* An entry that is appended last and is no label entry changes no label.
LEMMA AppendedPlainLabels ==
  ASSUME Dated, NEW id \in Ids, id \notin Known, NEW entry, entry.type # "label", entry.at = size + 1,
         AppendEntry(id, entry)
  PROVE  InForce(byId') = InForce(byId) /\ Dated'
<1>1. /\ Known' = Known \union {id} /\ byId'[id] = entry /\ \A k \in Known : byId'[k] = byId[k]
      /\ size' = size + 1
  BY DEF AppendEntry, Known
<1>2. Dated'
  BY <1>1 DEF Dated
<1>3. \A t, k : LastSays(byId', t, k) <=> LastSays(byId, t, k)
  BY <1>1 DEF LastSays, Known
<1>4. \A t, k : LastSays(byId, t, k) => byId'[k] = byId[k]
  BY <1>1 DEF LastSays, Known
<1> QED
  BY <1>2, <1>3, <1>4, InForceLast

\* A label entry that is appended has the last word on its target.
LEMMA AppendedLabel ==
  ASSUME Dated, NEW id \in Ids, id \notin Known, NEW entry, entry.type = "label", entry.at = size + 1,
         entry.ref \in Ids, AppendEntry(id, entry)
  PROVE  /\ InForce(byId') = IF entry.set THEN InForce(byId) \union {entry.ref} ELSE InForce(byId) \ {entry.ref}
         /\ Dated'
<1>1. /\ Known' = Known \union {id} /\ byId'[id] = entry /\ \A k \in Known : byId'[k] = byId[k]
      /\ size' = size + 1
  BY DEF AppendEntry, Known
<1>2. Dated'
  BY <1>1 DEF Dated
<1>3. \A k \in Known : byId[k].at < size + 1 /\ byId[k].at <= size + 1 /\ ~(size + 1 <= byId[k].at)
  BY DEF Dated
<1>4. size + 1 <= size + 1
  BY DEF Dated
<1>5. \A k : LastSays(byId', entry.ref, k) <=> k = id
  BY <1>1, <1>3, <1>4 DEF LastSays, Known
<1>6. \A t, k : t # entry.ref => (LastSays(byId', t, k) <=> LastSays(byId, t, k))
  BY <1>1 DEF LastSays, Known
<1>7. \A t, k : LastSays(byId, t, k) => byId'[k] = byId[k]
  BY <1>1 DEF LastSays, Known
<1>8. ASSUME NEW t \in Ids, t # entry.ref
      PROVE  t \in InForce(byId') <=> t \in InForce(byId)
  BY <1>6, <1>7, <1>8, InForceLast
<1>9. entry.ref \in InForce(byId') <=> entry.set
  BY <1>1, <1>5, InForceLast
<1>10. InForce(byId) \subseteq Ids /\ InForce(byId') \subseteq Ids
  BY InForceLast
<1> QED
  BY <1>2, <1>8, <1>9, <1>10

\* The labels in memory are those the log leaves in force.
Labelled == Dated /\ IndexMatchesLog

\* Appending keeps them so.
LEMMA AppendingLabels ==
  ASSUME Labelled, Known \subseteq Ids, Appending
  PROVE  Labelled'
<1> USE DEF Labelled, IndexMatchesLog
<1>1. PICK id \in Ids :
        \/ \E type \in {"message", "setting"} : AppendPlain(id, type)
        \/ \E target \in Known : AppendCompaction(id, target)
        \/ \E target \in Known, set \in BOOLEAN : AppendLabelChange(id, target, set)
        \/ \E target \in Known \union {Null} : BranchWithSummary(id, target)
  BY DEF Appending
<1>2. \A type, parent, ref, set, at :
        /\ Entry(type, parent, ref, set, at).type = type /\ Entry(type, parent, ref, set, at).ref = ref
        /\ Entry(type, parent, ref, set, at).set = set /\ Entry(type, parent, ref, set, at).at = at
  BY DEF Entry
<1>3. ASSUME NEW type, NEW parent, NEW ref, NEW set, type # "label", id \notin Known, UNCHANGED labelsById,
             AppendEntry(id, Entry(type, parent, ref, set, size + 1))
      PROVE  Labelled'
  <2> DEFINE e == Entry(type, parent, ref, set, size + 1)
  <2>1. e.type # "label" /\ e.at = size + 1 /\ AppendEntry(id, e)
    BY <1>2, <1>3
  <2> HIDE DEF e
  <2> QED
    BY <1>3, <2>1, AppendedPlainLabels
<1>4. ASSUME NEW type \in {"message", "setting"}, AppendPlain(id, type)
      PROVE  Labelled'
  BY <1>3, <1>4 DEF AppendPlain, FreshId
<1>5. ASSUME NEW target \in Known, AppendCompaction(id, target)
      PROVE  Labelled'
  BY <1>3, <1>5 DEF AppendCompaction, FreshId
<1>6. ASSUME NEW target \in Known \union {Null}, BranchWithSummary(id, target)
      PROVE  Labelled'
  BY <1>3, <1>6 DEF BranchWithSummary, FreshId
<1>7. ASSUME NEW target \in Known, NEW set \in BOOLEAN, AppendLabelChange(id, target, set)
      PROVE  Labelled'
  <2> DEFINE e == Entry("label", leafId, target, set, size + 1)
  <2>1. /\ id \notin Known /\ AppendEntry(id, e)
        /\ labelsById' = IF set THEN labelsById \union {target} ELSE labelsById \ {target}
    BY <1>7 DEF AppendLabelChange, FreshId
  <2>2. e.type = "label" /\ e.at = size + 1 /\ e.ref = target /\ e.set = set /\ target \in Ids
    BY <1>2
  <2> HIDE DEF e
  <2> QED
    BY <2>1, <2>2, AppendedLabel
<1> QED
  BY <1>1, <1>4, <1>5, <1>6, <1>7

\* A session branched off has the labels its new label entries say, one of each.
LEMMA ForkLabels ==
  ASSUME Labelled, Known \subseteq Ids, NEW from \in Known, Fork(from)
  PROVE  Labelled'
<1> USE SessionAssumption
<1> DEFINE kept == Unlabelled(from)
           labels == LabelsToWrite(from)
<1>1. PICK n \in 0..MaxAt : \E targets \in Bijection(1..n, labels) :
        \E fresh \in Injection(1..n, Ids \ kept) : CreateBranchedSession(from, n, fresh, targets)
  BY DEF Fork
<1>2. PICK targets \in Bijection(1..n, labels), fresh \in Injection(1..n, Ids \ kept) :
        CreateBranchedSession(from, n, fresh, targets)
  BY <1>1
<1>3. /\ targets \in [1..n -> labels] /\ \A t \in labels : \E i \in 1..n : targets[i] = t
      /\ \A i, j \in 1..n : targets[i] = targets[j] => i = j
  BY DEF Bijection, Injection, Surjection, IsInjective
<1>4. fresh \in [1..n -> Ids \ kept] /\ \A i, j \in 1..n : fresh[i] = fresh[j] => i = j
  BY DEF Injection, IsInjective
<1>5. n \in Nat /\ size \in Nat
  BY DEF Labelled, Dated
<1>6. kept \subseteq Known /\ labels \subseteq Ids /\ \A k \in kept : byId[k].type # "label"
  BY DEF LabelsToWrite, Unlabelled, Path
<1> DEFINE parent(i) == IF i = 1 THEN LastKept(from) ELSE fresh[i - 1]
           chained(i) == Entry("label", parent(i), targets[i], TRUE, size + i)
           place(id) == CHOOSE i \in 1..n : fresh[i] = id
<1>7. byId' = [id \in kept \union Range(fresh) |-> IF id \in kept THEN byId[id] ELSE chained(place(id))]
  BY <1>2, Zenon DEF CreateBranchedSession
<1>8. size' = size + n /\ labelsById' = labels
  BY <1>2, Zenon DEF CreateBranchedSession
<1>9. Range(fresh) = {fresh[i] : i \in 1..n}
  BY <1>4 DEF Range
<1>10. Known' = kept \union {fresh[i] : i \in 1..n}
  BY <1>7, <1>9, Zenon DEF Known
<1>11. \A k \in kept : byId'[k] = byId[k]
  BY <1>7, Zenon
<1>12. ASSUME NEW i \in 1..n
       PROVE  byId'[fresh[i]] = chained(i)
  <2>1. place(fresh[i]) = i
    BY <1>4, Zenon
  <2>2. fresh[i] \notin kept /\ fresh[i] \in Range(fresh)
    BY <1>4, <1>9
  <2> QED
    BY <1>7, <2>1, <2>2, Zenon
<1>13. ASSUME NEW i \in 1..n
       PROVE  /\ byId'[fresh[i]].type = "label" /\ byId'[fresh[i]].ref = targets[i]
              /\ byId'[fresh[i]].set /\ byId'[fresh[i]].at = size + i
  <2> DEFINE above == parent(i)
             at == size + i
  <2>1. byId'[fresh[i]] = Entry("label", above, targets[i], TRUE, at)
    BY <1>12
  <2> HIDE DEF above, at
  <2>2. /\ byId'[fresh[i]].type = "label" /\ byId'[fresh[i]].ref = targets[i]
        /\ byId'[fresh[i]].set /\ byId'[fresh[i]].at = at
    BY ONLY <2>1 DEF Entry
  <2> QED
    BY <2>2 DEF at
<1> HIDE DEF kept, labels, chained, place
<1>14. Dated'
  <2>1. ASSUME NEW k \in kept
        PROVE  byId'[k].at \in Nat /\ byId'[k].at <= size + n
    BY <1>5, <1>6, <1>11 DEF Labelled, Dated
  <2>2. ASSUME NEW i \in 1..n
        PROVE  byId'[fresh[i]].at \in Nat /\ byId'[fresh[i]].at <= size + n
    BY <1>5, <1>13
  <2> QED
    BY <1>5, <1>8, <1>10, <2>1, <2>2 DEF Dated
<1>15. ASSUME NEW t, NEW k \in Known', byId'[k].type = "label", byId'[k].ref = t
       PROVE  \E i \in 1..n : k = fresh[i] /\ targets[i] = t
  BY <1>6, <1>10, <1>11, <1>13, <1>15
<1>16. ASSUME NEW i \in 1..n
       PROVE  LastSays(byId', targets[i], fresh[i])
  <2>1. fresh[i] \in Known' /\ byId'[fresh[i]].at <= byId'[fresh[i]].at
    BY <1>5, <1>10, <1>13
  <2>2. ASSUME NEW k \in Known', byId'[k].type = "label", byId'[k].ref = targets[i]
        PROVE  k = fresh[i]
    BY <1>3, <1>15, <2>2
  <2> QED
    BY <1>13, <2>1, <2>2 DEF LastSays, Known
<1>17. InForce(byId') = labels
  <2>1. ASSUME NEW t \in labels
        PROVE  t \in InForce(byId')
    <3>1. PICK i \in 1..n : targets[i] = t
      BY <1>3
    <3> QED
      BY <1>6, <1>13, <1>16, <3>1, InForceLast
  <2>2. ASSUME NEW t \in InForce(byId')
        PROVE  t \in labels
    <3>1. PICK k : LastSays(byId', t, k)
      BY InForceLast
    <3>2. PICK i \in 1..n : targets[i] = t
      BY <1>15, <3>1 DEF LastSays, Known
    <3> QED
      BY <1>3, <3>2
  <2> QED
    BY <2>1, <2>2
<1> QED
  BY <1>8, <1>14, <1>17 DEF Labelled, IndexMatchesLog

\* The ids of the log stay among the ids.
LEMMA KnownStep ==
  ASSUME Known \subseteq Ids, [Next]_vars
  PROVE  Known' \subseteq Ids
<1>1. CASE Appending
  BY <1>1 DEF Appending, AppendPlain, AppendCompaction, AppendLabelChange, BranchWithSummary, AppendEntry, Known
<1>2. ASSUME NEW from \in Known, Fork(from)
      PROVE  Known' \subseteq Ids
  <2>1. PICK n, fresh, targets : /\ fresh \in Injection(1..n, Ids \ Unlabelled(from))
                                 /\ CreateBranchedSession(from, n, fresh, targets)
    BY <1>2 DEF Fork
  <2>2. Known' = Unlabelled(from) \union Range(fresh)
    BY <2>1 DEF CreateBranchedSession, Known
  <2>3. Unlabelled(from) \subseteq Known /\ Range(fresh) \subseteq Ids
    BY <2>1 DEF Unlabelled, Path, Injection, Range
  <2> QED
    BY <2>2, <2>3
<1>3. CASE UNCHANGED byId \/ NewSession
  BY <1>3 DEF NewSession, Known
<1> QED
  BY <1>1, <1>2, <1>3 DEF Next, Branch, ResetLeaf, Reload, vars

\* Reopening a session changes no label: those kept up to date in memory are the ones
\* _buildIndex finds in the log, wherever a session was branched off.
THEOREM LabelsSurviveReload == Spec => []IndexMatchesLog
<1> DEFINE IInv == Labelled /\ Known \subseteq Ids
<1>1. Init => IInv
  <2> SUFFICES ASSUME Init PROVE IInv
    OBVIOUS
  <2>1. Known = {} /\ labelsById = {} /\ size = 0
    BY DEF Init, Known
  <2>2. InForce(byId) = {}
    BY <2>1 DEF InForce, Known
  <2> QED
    BY <2>1, <2>2 DEF Labelled, Dated, IndexMatchesLog
<1>2. IInv /\ [Next]_vars => IInv'
  <2> SUFFICES ASSUME Labelled, Known \subseteq Ids, [Next]_vars PROVE Labelled'
    BY KnownStep
  <2>1. CASE Appending
    BY <2>1, AppendingLabels
  <2>2. ASSUME NEW from \in Known, Fork(from)
        PROVE  Labelled'
    BY <2>2, ForkLabels
  <2>3. CASE NewSession
    <3>1. Known' = {} /\ labelsById' = {} /\ size' = 0
      BY <2>3 DEF NewSession, Known
    <3>2. InForce(byId') = {}
      BY <3>1 DEF InForce, Known
    <3> QED
      BY <3>1, <3>2 DEF Labelled, Dated, IndexMatchesLog
  <2>4. CASE Reload
    BY <2>4 DEF Reload, Labelled, Dated, IndexMatchesLog, Known
  <2>5. CASE UNCHANGED <<byId, labelsById, size>>
    BY <2>5 DEF Labelled, Dated, IndexMatchesLog, Known
  <2> QED
    BY <2>1, <2>2, <2>3, <2>4, <2>5 DEF Next, Branch, ResetLeaf, vars
<1>3. IInv => IndexMatchesLog
  BY DEF Labelled
<1> HIDE DEF IInv
<1> QED
  BY <1>1, <1>2, <1>3, PTL DEF Spec

-----------------------------------------------------------------------------
(***************************************************************************)
(* Compaction: the invariant, and the indices findCutPoint and             *)
(* buildSessionContext choose.                                             *)
(***************************************************************************)
(* Every result of a branch has its call before it.                        *)
ResultsPaired(p) ==
    \A i \in DOMAIN p : p[i].type = "toolResult" => \E call \in 1 .. i - 1 : Answers(p, call, i)

(* A compaction keeps no result without the call.                          *)
KeptWhole(p) ==
    \A c \in DOMAIN p : p[c].type = "compaction" =>
        \A k \in 1 .. c - 1 : p[k].id = p[c].firstKept =>
            \A i \in k .. c - 1 : p[i].type = "toolResult" => \E call \in k .. i - 1 : Answers(p, call, i)

(* The entry e can follow others of which the last is number n.            *)
Numbered(e, n) == e.id \in 1 .. n /\ e.firstKept < e.id /\ e.covers \subseteq 1 .. e.id - 1

BranchSound(p, n) ==
    /\ p \in Seq(BranchEntries)
    /\ \A i \in DOMAIN p : Numbered(p[i], n) /\ \A k \in 1 .. i - 1 : p[k].id < p[i].id
    /\ ResultsPaired(p)
    /\ KeptWhole(p)

CompactionInv == created \in 0 .. MaxEntries /\ BranchSound(path, created)

\* The least and the greatest of some of the indices of a branch.
LEMMA MinOfIndices ==
  ASSUME NEW S \in SUBSET Nat, S # {}
  PROVE  Min(S) \in S /\ \A i \in S : Min(S) <= i
BY LeastNat, Zenon DEF Min

LEMMA MaxOfIndices ==
  ASSUME NEW n \in Nat, NEW S \in SUBSET (1 .. n), S # {}
  PROVE  Max(S) \in S /\ \A i \in S : i <= Max(S)
<1> DEFINE T == {n - i : i \in S}
<1>0. S \subseteq Nat /\ \A i \in S : n - i \in Nat
  OBVIOUS
<1>1. T \in SUBSET Nat /\ T # {}
  BY <1>0
<1>2. PICK m \in T : \A k \in T : m <= k
  BY <1>1, LeastNat
<1>3. PICK i \in S : m = n - i
  BY <1>2
<1>4. \A k \in S : i >= k
  <2> TAKE k \in S
  <2>1. n - i <= n - k
    BY <1>2, <1>3
  <2> QED
    BY <2>1
<1>5. Max(S) \in S /\ \A k \in S : Max(S) >= k
  BY <1>4, Zenon DEF Max
<1> QED
  BY <1>5

LEMMA PrevIsLast ==
  ASSUME NEW p \in Seq(BranchEntries)
  PROVE  /\ PrevCompaction(p) \in 0 .. Len(p)
         /\ PrevCompaction(p) # 0 => p[PrevCompaction(p)].type = "compaction"
         /\ \A i \in DOMAIN p : p[i].type = "compaction" => i <= PrevCompaction(p)
<1> DEFINE S == {i \in DOMAIN p : p[i].type = "compaction"}
<1>1. Len(p) \in Nat /\ DOMAIN p = 1 .. Len(p)
  BY LenProperties
<1>2. S \in SUBSET (1 .. Len(p))
  BY <1>1
<1>3. CASE S = {}
  <2>1. PrevCompaction(p) = 0
    BY <1>3 DEF PrevCompaction
  <2> QED
    BY <1>1, <1>3, <2>1
<1>4. CASE S # {}
  <2>1. PrevCompaction(p) = Max(S)
    BY <1>4 DEF PrevCompaction
  <2>2. Max(S) \in S /\ \A i \in S : i <= Max(S)
    BY <1>1, <1>2, <1>4, MaxOfIndices
  <2> QED
    BY <1>1, <2>1, <2>2
<1> QED
  BY <1>3, <1>4

\* What findCutPoint returns: a cut point, with the entries before it that
\* are no message; what could be cut at before it does not reach the budget
\* alone, unless that is so of every cut point.
LEMMA CutIsSound ==
  ASSUME NEW p \in Seq(BranchEntries), NEW start \in 1 .. Len(p)
  PROVE  /\ CutIndex(p, start) \in start .. Len(p)
         /\ CutPoints(p, start) = {} => CutIndex(p, start) = start
         /\ CutPoints(p, start) # {} =>
              \E c \in CutPoints(p, start) :
                 /\ CutIndex(p, start) <= c
                 /\ \A k \in CutIndex(p, start) .. c - 1 : ~IsMessage(p[k]) /\ p[k].type # "compaction"
                 /\ \A d \in CutPoints(p, start) : d < c => \E r \in Reaching(p, start) : d < r
                 /\ (\E r \in Reaching(p, start) : c < r) =>
                       \A d \in CutPoints(p, start) : \E r \in Reaching(p, start) : d < r
<1> DEFINE points == CutPoints(p, start)
           reaching == Reaching(p, start)
           first == FirstOf(points, start)
           behind == {c \in points : c >= Max(reaching)}
           cut == IF reaching = {} THEN first ELSE FirstOf(behind, first)
           J == {j \in start .. cut : \A k \in j .. cut - 1 : ~IsMessage(p[k]) /\ p[k].type # "compaction"}
<1>1. Len(p) \in Nat
  BY LenProperties
<1>2. /\ points \in SUBSET (start .. Len(p)) /\ points \in SUBSET Nat
      /\ reaching \in SUBSET (start .. Len(p)) /\ reaching \in SUBSET (1 .. Len(p))
      /\ \A d \in points : d \in Nat
      /\ \A r \in reaching : r \in Nat
  BY <1>1 DEF CutPoints, Reaching
<1>3. CutIndex(p, start) = IF points = {} THEN start ELSE WithSettings(p, cut, start)
  BY DEF CutIndex
<1>4. WithSettings(p, cut, start) = Min(J)
  BY DEF WithSettings
<1>5. CASE points = {}
  BY <1>1, <1>3, <1>5
<1>6. CASE points # {}
  <2>1. first \in points /\ \A d \in points : first <= d
    BY <1>2, <1>6, MinOfIndices DEF FirstOf
  <2>2. reaching # {} => Max(reaching) \in reaching /\ \A r \in reaching : r <= Max(reaching)
    BY <1>1, <1>2, MaxOfIndices
  <2>3. behind # {} => FirstOf(behind, first) \in behind /\ \A d \in behind : FirstOf(behind, first) <= d
    <3>1. behind \in SUBSET Nat
      BY <1>2
    <3> QED
      BY <3>1, MinOfIndices DEF FirstOf
  <2>4. behind = {} => FirstOf(behind, first) = first
    BY DEF FirstOf
  <2> HIDE DEF points, reaching, first
  <2>5. /\ cut \in points
        /\ \A d \in points : d < cut => \E r \in reaching : d < r
        /\ (\E r \in reaching : cut < r) => \A d \in points : \E r \in reaching : d < r
    <3>1. CASE reaching = {}
      <4>1. cut = first
        BY <3>1
      <4>2. \A d \in points : ~(d < first)
        BY <1>2, <2>1
      <4> QED
        BY <3>1, <4>1, <4>2, <2>1
    <3>2. CASE reaching # {} /\ behind # {}
      <4>1. cut = FirstOf(behind, first)
        BY <3>2
      <4>2. cut \in points /\ cut >= Max(reaching)
        BY <2>3, <3>2, <4>1
      <4>3. ASSUME NEW d \in points, d < cut
            PROVE  d < Max(reaching)
        <5>1. d \notin behind
          <6>1. d \in Nat /\ cut \in Nat
            BY <1>2, <4>2
          <6>2. d \in behind => cut <= d
            BY <2>3, <3>2, <4>1, Zenon
          <6> HIDE DEF cut, behind
          <6> QED
            BY <6>1, <6>2, <4>3
        <5>2. d \in Nat /\ Max(reaching) \in Nat
          BY <1>2, <2>2, <3>2, Zenon
        <5> QED
          BY <5>1, <5>2
      <4>4. \A r \in reaching : ~(cut < r)
        <5>1. \A r \in reaching : r \in Nat /\ r <= Max(reaching)
          BY <1>2, <2>2, <3>2, Zenon
        <5>2. Max(reaching) \in Nat /\ cut \in Nat
          BY <1>2, <2>2, <3>2, <4>2, Zenon
        <5> HIDE DEF cut
        <5> QED
          BY <5>1, <5>2, <4>2
      <4> HIDE DEF cut
      <4> QED
        BY <2>2, <3>2, <4>2, <4>3, <4>4
    <3>3. CASE reaching # {} /\ behind = {}
      <4>1. cut = first
        BY <2>4, <3>3
      <4>2. ASSUME NEW d \in points
            PROVE  ~(d < first) /\ d < Max(reaching)
        <5>1. d \in Nat /\ first \in Nat /\ Max(reaching) \in Nat /\ first <= d
          BY <1>2, <2>1, <2>2, <3>3, Zenon
        <5>2. d \notin behind
          BY <3>3, Zenon
        <5> QED
          BY <5>1, <5>2
      <4> QED
        BY <3>3, <4>1, <4>2, <2>1, <2>2
    <3> QED
      BY <3>1, <3>2, <3>3
  <2>6. cut \in start .. Len(p) /\ cut \in Nat
    BY <1>2, <2>5
  <2> HIDE DEF cut
  <2>7. J \in SUBSET Nat /\ cut \in J
    BY <2>6
  <2>8. Min(J) \in J
    BY <2>7, MinOfIndices
  <2>9. CutIndex(p, start) = Min(J)
    BY <1>3, <1>4, <1>6
  <2>10. /\ CutIndex(p, start) \in start .. Len(p) /\ CutIndex(p, start) <= cut
         /\ \A k \in CutIndex(p, start) .. cut - 1 : ~IsMessage(p[k]) /\ p[k].type # "compaction"
    <3>1. \A j \in J : j \in start .. cut /\ \A k \in j .. cut - 1 : ~IsMessage(p[k]) /\ p[k].type # "compaction"
      OBVIOUS
    <3> HIDE DEF J
    <3>2. /\ CutIndex(p, start) \in start .. cut
          /\ \A k \in CutIndex(p, start) .. cut - 1 : ~IsMessage(p[k]) /\ p[k].type # "compaction"
      BY <2>8, <2>9, <3>1, Zenon
    <3> QED
      BY <1>1, <2>6, <3>2
  <2> USE DEF points, reaching
  <2> QED
    BY <1>6, <2>5, <2>10
<1> QED
  BY <1>5, <1>6

-----------------------------------------------------------------------------
(***************************************************************************)
(* What the LLM is sent follows from the invariant.                        *)
(***************************************************************************)
LEMMA ResultsAreSendable ==
  ASSUME NEW n \in Nat, BranchSound(path, n)
  PROVE  ResultsFollowCalls
<1> DEFINE c == PrevCompaction(path)
<1>1. /\ path \in Seq(BranchEntries) /\ Len(path) \in Nat /\ DOMAIN path = 1 .. Len(path)
      /\ ResultsPaired(path) /\ KeptWhole(path)
  BY LenProperties DEF BranchSound
<1>2. /\ c \in 0 .. Len(path)
      /\ c # 0 => path[c].type = "compaction"
  BY <1>1, PrevIsLast
<1> HIDE DEF c
<1>3. CASE c = 0
  <2>1. BranchContext(path) = {i \in DOMAIN path : path[i].type \notin {"setting", "compaction"}}
    BY <1>3 DEF BranchContext, c
  <2> QED
    BY <1>1, <2>1 DEF ResultsFollowCalls, ResultsPaired, Answers
<1>4. CASE c # 0
  <2> DEFINE kept == {i \in 1 .. c - 1 : path[i].id = path[c].firstKept}
             shown == {i \in DOMAIN path : path[i].type \notin {"setting", "compaction"}}
  <2>1. BranchContext(path) = {c} \cup {i \in shown : i > c \/ \E k \in kept : k <= i}
    BY <1>4 DEF BranchContext, c
  <2>2. SUFFICES ASSUME NEW i \in BranchContext(path), path[i].type = "toolResult"
                 PROVE  \E call \in BranchContext(path) : call < i /\ Answers(path, call, i)
    BY DEF ResultsFollowCalls
  <2>3. i \in shown /\ i # c /\ (i > c \/ \E k \in kept : k <= i)
    BY <1>2, <1>4, <2>1, <2>2
  <2>4. CASE i > c
    <3>1. PICK call \in 1 .. i - 1 : Answers(path, call, i)
      BY <1>1, <2>2, <2>3 DEF ResultsPaired
    <3>2. path[call].type = "toolUse" /\ ~(c \in call + 1 .. i - 1)
      BY <1>2, <1>4, <3>1 DEF Answers
    <3>3. call > c
      BY <1>1, <1>2, <1>4, <2>3, <2>4, <3>1, <3>2
    <3> QED
      BY <1>1, <2>1, <2>3, <3>1, <3>2, <3>3
  <2>5. CASE i < c
    <3>1. PICK k \in kept : k <= i
      BY <1>1, <1>2, <2>3, <2>5
    <3>2. PICK call \in k .. i - 1 : Answers(path, call, i)
      BY <1>1, <1>2, <1>4, <2>2, <2>3, <2>5, <3>1 DEF KeptWhole
    <3>3. path[call].type = "toolUse"
      BY <3>2 DEF Answers
    <3> QED
      BY <1>1, <1>2, <2>1, <2>3, <3>1, <3>2, <3>3
  <2> QED
    BY <1>1, <1>2, <2>3, <2>4, <2>5
<1> QED
  BY <1>3, <1>4

\* A branch that grows by an entry: the call of a result is the last thing
\* said, and what a compaction keeps has its calls.
LEMMA AppendKeepsSound ==
  ASSUME NEW n \in Nat, NEW p, BranchSound(p, n), NEW e \in BranchEntries,
         e.id = n + 1, Numbered(e, n + 1),
         e.type = "toolResult" =>
            \E call \in 1 .. Len(p) :
                p[call].type = "toolUse" /\ \A k \in call + 1 .. Len(p) : p[k].type \in {"toolResult", "setting"},
         e.type = "compaction" =>
            \A k \in 1 .. Len(p) : p[k].id = e.firstKept =>
                \A i \in k .. Len(p) : p[i].type = "toolResult" => \E call \in k .. i - 1 : Answers(p, call, i)
  PROVE  BranchSound(Append(p, e), n + 1)
<1> DEFINE q == Append(p, e)
<1>1. p \in Seq(BranchEntries) /\ Len(p) \in Nat /\ DOMAIN p = 1 .. Len(p)
  BY LenProperties DEF BranchSound
<1>2. /\ q \in Seq(BranchEntries) /\ Len(q) = Len(p) + 1 /\ DOMAIN q = 1 .. Len(p) + 1
      /\ \A i \in 1 .. Len(p) : q[i] = p[i]
      /\ q[Len(p) + 1] = e
  BY <1>1, AppendProperties, LenProperties
<1> HIDE DEF q
<1>3. \A i \in 1 .. Len(p), call \in 1 .. Len(p) : Answers(p, call, i) => Answers(q, call, i)
  BY <1>1, <1>2 DEF Answers
<1>4. ASSUME NEW i \in DOMAIN q
      PROVE  Numbered(q[i], n + 1) /\ \A k \in 1 .. i - 1 : q[k].id < q[i].id
  <2>1. CASE i \in 1 .. Len(p)
    <3>1. Numbered(p[i], n) /\ \A k \in 1 .. i - 1 : p[k].id < p[i].id
      BY <1>1, <2>1 DEF BranchSound
    <3>2. Numbered(p[i], n + 1)
      BY <3>1 DEF Numbered
    <3> QED
      BY <1>1, <1>2, <2>1, <3>1, <3>2
  <2>2. CASE i = Len(p) + 1
    <3>1. \A k \in 1 .. Len(p) : p[k].id \in 1 .. n
      BY <1>1 DEF BranchSound, Numbered
    <3> QED
      BY <1>1, <1>2, <2>2, <3>1
  <2> QED
    BY <1>1, <1>2, <2>1, <2>2
<1>5. ResultsPaired(q)
  <2>1. SUFFICES ASSUME NEW i \in DOMAIN q, q[i].type = "toolResult"
                 PROVE  \E call \in 1 .. i - 1 : Answers(q, call, i)
    BY DEF ResultsPaired
  <2>2. CASE i \in 1 .. Len(p)
    <3>1. PICK call \in 1 .. i - 1 : Answers(p, call, i)
      BY <1>1, <1>2, <2>1, <2>2 DEF BranchSound, ResultsPaired
    <3> QED
      BY <1>1, <1>3, <2>2, <3>1
  <2>3. CASE i = Len(p) + 1
    <3>1. PICK call \in 1 .. Len(p) :
             p[call].type = "toolUse" /\ \A k \in call + 1 .. Len(p) : p[k].type \in {"toolResult", "setting"}
      BY <1>2, <2>1, <2>3
    <3>2. Answers(q, call, i)
      BY <1>1, <1>2, <2>3, <3>1 DEF Answers
    <3> QED
      BY <1>1, <2>3, <3>2
  <2> QED
    BY <1>1, <1>2, <2>2, <2>3
<1>6. KeptWhole(q)
  <2>1. SUFFICES ASSUME NEW c \in DOMAIN q, q[c].type = "compaction",
                        NEW k \in 1 .. c - 1, q[k].id = q[c].firstKept,
                        NEW i \in k .. c - 1, q[i].type = "toolResult"
                 PROVE  \E call \in k .. i - 1 : Answers(q, call, i)
    BY DEF KeptWhole
  <2>2. k \in 1 .. Len(p) /\ i \in 1 .. Len(p) /\ q[k] = p[k] /\ q[i] = p[i]
    BY <1>1, <1>2
  <2>3. \E call \in k .. i - 1 : Answers(p, call, i)
    <3>1. CASE c \in 1 .. Len(p)
      <4>1. q[c] = p[c]
        BY <1>2, <3>1
      <4> QED
        BY <1>1, <2>1, <2>2, <3>1, <4>1 DEF BranchSound, KeptWhole
    <3>2. CASE c = Len(p) + 1
      <4>1. q[c] = e /\ i \in k .. Len(p)
        BY <1>1, <1>2, <3>2
      <4> QED
        BY <2>1, <2>2, <4>1
    <3> QED
      BY <1>1, <1>2, <3>1, <3>2
  <2> QED
    BY <1>1, <1>3, <2>2, <2>3
<1> QED
  BY <1>2, <1>4, <1>5, <1>6 DEF BranchSound, q

\* So is the beginning of a branch.
LEMMA PrefixIsSound ==
  ASSUME NEW n \in Nat, NEW p, BranchSound(p, n), NEW m \in 0 .. Len(p)
  PROVE  BranchSound(SubSeq(p, 1, m), n) /\ Len(SubSeq(p, 1, m)) = m
<1> DEFINE q == SubSeq(p, 1, m)
<1>1. p \in Seq(BranchEntries) /\ Len(p) \in Nat /\ DOMAIN p = 1 .. Len(p)
  BY LenProperties DEF BranchSound
<1>2. /\ q \in Seq(BranchEntries) /\ Len(q) = m /\ DOMAIN q = 1 .. m /\ m \in Nat /\ m <= Len(p)
      /\ \A i \in 1 .. m : q[i] = p[i]
  BY <1>1, SubSeqProperties, LenProperties
<1> HIDE DEF q
<1>3. \A i \in 1 .. m, call \in 1 .. m : Answers(p, call, i) => Answers(q, call, i)
  BY <1>1, <1>2 DEF Answers
<1>4. \A i \in DOMAIN q : Numbered(q[i], n) /\ \A k \in 1 .. i - 1 : q[k].id < q[i].id
  BY <1>1, <1>2 DEF BranchSound
<1>5. ResultsPaired(q)
  BY <1>1, <1>2, <1>3 DEF BranchSound, ResultsPaired
<1>6. KeptWhole(q)
  <2>1. SUFFICES ASSUME NEW c \in DOMAIN q, q[c].type = "compaction",
                        NEW k \in 1 .. c - 1, q[k].id = q[c].firstKept,
                        NEW i \in k .. c - 1, q[i].type = "toolResult"
                 PROVE  \E call \in k .. i - 1 : Answers(q, call, i)
    BY DEF KeptWhole
  <2>2. /\ c \in 1 .. Len(p) /\ k \in 1 .. m /\ i \in 1 .. m
        /\ q[c] = p[c] /\ q[k] = p[k] /\ q[i] = p[i]
    BY <1>1, <1>2
  <2>3. \E call \in k .. i - 1 : Answers(p, call, i)
    BY <1>1, <2>1, <2>2 DEF BranchSound, KeptWhole
  <2> QED
    BY <1>2, <1>3, <2>2, <2>3
<1> QED
  BY <1>2, <1>4, <1>5, <1>6 DEF BranchSound, q

-----------------------------------------------------------------------------
(***************************************************************************)
(* What the steps append.                                                  *)
(***************************************************************************)

\* Behind a cut every result has its call: at the cut itself is no result,
\* and between the cut and what it was moved back from there is no message.
LEMMA CutLeavesCalls ==
  ASSUME NEW n \in Nat, NEW p, BranchSound(p, n), Start(p) \in 1 .. Len(p)
  PROVE  \A i \in CutIndex(p, Start(p)) .. Len(p) : p[i].type = "toolResult" =>
            \E call \in CutIndex(p, Start(p)) .. i - 1 : Answers(p, call, i)
<1> DEFINE start == Start(p)
           cut == CutIndex(p, start)
<1>1. p \in Seq(BranchEntries) /\ Len(p) \in Nat /\ DOMAIN p = 1 .. Len(p)
  BY LenProperties DEF BranchSound
<1>2. /\ PrevCompaction(p) \in 0 .. Len(p) /\ start = PrevCompaction(p) + 1 /\ start \in 1 .. Len(p)
      /\ PrevCompaction(p) # 0 => p[PrevCompaction(p)].type = "compaction"
  BY <1>1, PrevIsLast DEF Start
<1> HIDE DEF start
<1>3. cut \in start .. Len(p)
  BY <1>1, <1>2, CutIsSound
<1>4. SUFFICES ASSUME NEW i \in cut .. Len(p), p[i].type = "toolResult"
               PROVE  \E call \in cut .. i - 1 : Answers(p, call, i)
  BY DEF start
<1>5. i \in 1 .. Len(p)
  BY <1>1, <1>2, <1>3
<1>6. PICK call \in 1 .. i - 1 : Answers(p, call, i)
  BY <1>1, <1>4, <1>5 DEF BranchSound, ResultsPaired
<1>7. \A k \in call + 1 .. i - 1 : p[k].type \in {"toolResult", "setting"}
  BY <1>6 DEF Answers
<1>8. call >= start
  <2>1. ~(PrevCompaction(p) # 0 /\ call < PrevCompaction(p))
    BY <1>1, <1>2, <1>3, <1>5, <1>7
  <2>2. PrevCompaction(p) # 0 => call # PrevCompaction(p)
    BY <1>2, <1>6 DEF Answers
  <2> QED
    BY <1>1, <1>2, <1>5, <2>1, <2>2
<1>9. call >= cut
  <2>1. CASE CutPoints(p, start) = {}
    <3>1. cut = start
      BY <1>1, <1>2, <2>1, CutIsSound
    <3> QED
      BY <1>8, <3>1
  <2>2. CASE CutPoints(p, start) # {}
    <3>1. PICK c \in CutPoints(p, start) :
             cut <= c /\ \A k \in cut .. c - 1 : ~IsMessage(p[k])
      BY <1>1, <1>2, <2>2, CutIsSound
    <3>2. c \in start .. Len(p) /\ p[c].type \notin {"toolResult", "setting"}
      BY <3>1 DEF CutPoints, MessageTypes
    <3>3. i >= c
      <4>1. IsMessage(p[i])
        BY <1>4 DEF IsMessage, MessageTypes
      <4> HIDE DEF cut
      <4> QED
        BY <1>1, <1>2, <1>3, <1>4, <3>1, <3>2, <4>1
    <3>4. ~(c \in call + 1 .. i - 1) /\ c # i
      BY <1>4, <1>7, <3>2
    <3> HIDE DEF cut
    <3> QED
      BY <1>1, <1>2, <1>3, <1>5, <3>1, <3>2, <3>3, <3>4
  <2> QED
    BY <2>1, <2>2
<1> HIDE DEF cut
<1> QED
  BY <1>1, <1>2, <1>3, <1>5, <1>6, <1>9

\* The part of a split turn that is summarized begins at the last turn.
LEMMA SplitIsSound ==
  ASSUME NEW p \in Seq(BranchEntries), NEW start \in 1 .. Len(p)
  PROVE  \/ SplitTurn(p, start) = 0
         \/ /\ SplitTurn(p, start) \in start .. CutIndex(p, start)
            /\ SplitTurn(p, start) \in TurnStarts(p)
            /\ \A i \in TurnStarts(p) : i \in start .. CutIndex(p, start) => i <= SplitTurn(p, start)
<1> DEFINE cut == CutIndex(p, start)
           before == TurnStarts(p) \cap (start .. cut)
<1>1. Len(p) \in Nat /\ cut \in start .. Len(p)
  BY CutIsSound, LenProperties
<1>2. SplitTurn(p, start) = 0 \/ SplitTurn(p, start) = TurnStart(p, cut, start)
  BY DEF SplitTurn
<1>3. TurnStart(p, cut, start) = IF before = {} THEN 0 ELSE Max(before)
  BY DEF TurnStart
<1> HIDE DEF cut
<1>4. CASE before # {}
  <2>1. before \in SUBSET (1 .. Len(p))
    BY <1>1
  <2>2. Max(before) \in before /\ \A i \in before : i <= Max(before)
    BY <1>1, <1>4, <2>1, MaxOfIndices
  <2> QED
    BY <1>2, <1>3, <1>4, <2>2 DEF cut
<1> QED
  BY <1>2, <1>3, <1>4

\* What is summarized comes before the cut.
LEMMA SummarizedIsOlder ==
  ASSUME NEW p \in Seq(BranchEntries), Start(p) \in 1 .. Len(p)
  PROVE  /\ CutIndex(p, Start(p)) \in Start(p) .. Len(p)
         /\ History(p) \cup TurnPrefix(p) = Start(p) .. CutIndex(p, Start(p)) - 1
         /\ History(p) \cap TurnPrefix(p) = {}
<1> DEFINE start == Start(p)
           cut == CutIndex(p, start)
           split == SplitTurn(p, start)
<1>1. Len(p) \in Nat /\ cut \in start .. Len(p) /\ start \in 1 .. Len(p)
  BY CutIsSound, LenProperties
<1>2. split = 0 \/ split \in start .. cut
  BY SplitIsSound
<1>3. /\ History(p) = start .. (IF split # 0 THEN split ELSE cut) - 1
      /\ TurnPrefix(p) = IF split = 0 THEN {} ELSE split .. cut - 1
  BY DEF History, TurnPrefix
<1> HIDE DEF start, cut, split
<1>4. /\ History(p) \cup TurnPrefix(p) = start .. cut - 1
      /\ History(p) \cap TurnPrefix(p) = {}
  BY <1>1, <1>2, <1>3
<1> QED
  BY <1>1, <1>4 DEF start, cut

LEMMA ContentIsOlder ==
  ASSUME NEW n \in Nat, NEW p, BranchSound(p, n), NEW S \in SUBSET (1 .. Len(p))
  PROVE  Content(p, S) \subseteq 1 .. n
<1>1. \A i \in 1 .. Len(p) : p[i].id \in 1 .. n /\ p[i].covers \subseteq 1 .. n
  BY LenProperties DEF BranchSound, Numbered
<1> QED
  BY <1>1 DEF Content

LEMMA SummaryIsOlder ==
  ASSUME NEW n \in Nat, NEW p, BranchSound(p, n), Start(p) \in 1 .. Len(p)
  PROVE  Summary(p) \subseteq 1 .. n
<1> DEFINE c == PrevCompaction(p)
<1>1. p \in Seq(BranchEntries) /\ Len(p) \in Nat /\ DOMAIN p = 1 .. Len(p)
  BY LenProperties DEF BranchSound
<1>2. History(p) \cup TurnPrefix(p) \in SUBSET (1 .. Len(p))
  BY <1>1, SummarizedIsOlder
<1>3. Content(p, History(p) \cup TurnPrefix(p)) \subseteq 1 .. n
  BY <1>2, ContentIsOlder
<1>4. c # 0 => p[c].covers \subseteq 1 .. n
  BY <1>1, PrevIsLast DEF BranchSound, Numbered
<1> QED
  BY <1>3, <1>4 DEF Summary

LEMMA BranchMessagesAreThere ==
  ASSUME NEW p, NEW target \in DOMAIN p, p \in Seq(BranchEntries)
  PROVE  BranchMessages(p, target) \in SUBSET (1 .. Len(p))
BY LenProperties DEF BranchMessages, Abandoned

-----------------------------------------------------------------------------
(***************************************************************************)
(* Every step keeps the invariant.                                         *)
(***************************************************************************)
LEMMA CompactionInitInv == CompactionInit => CompactionInv
<1> SUFFICES ASSUME CompactionInit PROVE CompactionInv
  OBVIOUS
<1>1. path = <<>> /\ created = 0 /\ DOMAIN path = {}
  BY DEF CompactionInit
<1>2. path \in Seq(BranchEntries)
  BY <1>1
<1> QED
  BY <1>1, <1>2, BudgetsAssumption DEF CompactionInv, BranchSound, ResultsPaired, KeptWhole

\* A result is only said after its call or another result of it.
LEMMA ResultsComeAfter ==
  ASSUME NEW n \in Nat, NEW p, BranchSound(p, n), "toolResult" \in Follows(LastType(p))
  PROVE  \E call \in 1 .. Len(p) :
            p[call].type = "toolUse" /\ \A k \in call + 1 .. Len(p) : p[k].type \in {"toolResult", "setting"}
<1> DEFINE said == {i \in DOMAIN p : p[i].type # "setting"}
<1>1. p \in Seq(BranchEntries) /\ Len(p) \in Nat /\ DOMAIN p = 1 .. Len(p)
  BY LenProperties DEF BranchSound
<1>2. LastType(p) \in {"toolUse", "toolResult"}
  BY DEF Follows, Idle
<1>3. said # {} /\ LastType(p) = p[Max(said)].type
  BY <1>2 DEF LastType
<1>4. said \in SUBSET (1 .. Len(p))
  BY <1>1
<1>5. Max(said) \in said /\ \A i \in said : i <= Max(said)
  BY <1>1, <1>3, <1>4, MaxOfIndices
<1> DEFINE m == Max(said)
<1>6. /\ m \in 1 .. Len(p) /\ p[m].type \in {"toolUse", "toolResult"}
      /\ \A k \in m + 1 .. Len(p) : p[k].type = "setting"
  <2>1. m \in 1 .. Len(p) /\ p[m].type \in {"toolUse", "toolResult"} /\ \A k \in said : k <= m
    BY <1>1, <1>2, <1>3, <1>5, Zenon
  <2>2. \A k \in 1 .. Len(p) : k > m => k \notin said
    <3> HIDE DEF m
    <3> QED
      BY <1>1, <2>1
  <2> HIDE DEF m
  <2> QED
    BY <1>1, <2>1, <2>2
<1> HIDE DEF m
<1>7. CASE p[m].type = "toolUse"
  BY <1>6, <1>7
<1>8. CASE p[m].type = "toolResult"
  <2>1. PICK call \in 1 .. m - 1 : Answers(p, call, m)
    BY <1>1, <1>6, <1>8 DEF BranchSound, ResultsPaired
  <2>2. \A k \in call + 1 .. Len(p) : k \in call + 1 .. m - 1 \/ k = m \/ k \in m + 1 .. Len(p)
    BY <1>1, <1>6, <2>1
  <2>3. \A k \in call + 1 .. Len(p) : p[k].type \in {"toolResult", "setting"}
    BY <1>6, <1>8, <2>1, <2>2 DEF Answers
  <2> QED
    BY <1>1, <1>6, <2>1, <2>3 DEF Answers
<1> QED
  BY <1>6, <1>7, <1>8

LEMMA GrowKeepsInv ==
  ASSUME CompactionInv, NEW type \in MessageTypes \cup {"custom_message", "setting"},
         NEW amount \in Nat \ {0}, Grow(type, amount)
  PROVE  CompactionInv'
<1> DEFINE e == NewEntry(type, amount)
<1>1. created \in 0 .. MaxEntries /\ MaxEntries \in Nat /\ created < MaxEntries /\ BranchSound(path, created)
  BY BudgetsAssumption DEF CompactionInv, Grow
<1>2. path' = Append(path, e) /\ created' = created + 1
  BY DEF Grow
<1>3. /\ e \in BranchEntries /\ e.id = created + 1 /\ Numbered(e, created + 1)
      /\ e.type = type /\ type # "compaction"
  BY <1>1 DEF NewEntry, BranchEntries, Numbered, MessageTypes, SummaryTypes
<1>4. type = "toolResult" => "toolResult" \in Follows(LastType(path))
  BY DEF Grow
<1> HIDE DEF e
<1>5. BranchSound(Append(path, e), created + 1)
  BY <1>1, <1>3, <1>4, ResultsComeAfter, AppendKeepsSound
<1> QED
  BY <1>1, <1>2, <1>5 DEF CompactionInv

\* A compaction in more detail: what it appends, and where it cuts.
LEMMA CompactAppends ==
  ASSUME CompactionInv, Compact
  PROVE  \E e \in BranchEntries :
            /\ path' = Append(path, e) /\ created' = created + 1 /\ created < MaxEntries
            /\ e.id = created + 1 /\ e.type = "compaction"
            /\ e.firstKept = path[CutIndex(path, Start(path))].id
            /\ e.covers = Summary(path)
            /\ Numbered(e, created + 1)
            /\ Start(path) \in 1 .. Len(path) /\ CutIndex(path, Start(path)) \in Start(path) .. Len(path)
<1> DEFINE e == [NewEntry("compaction", 1) EXCEPT !.firstKept = path[CutIndex(path, Start(path))].id,
                                                  !.covers = Summary(path)]
           cut == CutIndex(path, Start(path))
<1>1. /\ created \in Nat /\ path \in Seq(BranchEntries) /\ BranchSound(path, created)
      /\ Len(path) \in Nat /\ DOMAIN path = 1 .. Len(path)
  BY LenProperties, BudgetsAssumption DEF CompactionInv, BranchSound
<1>2. path # <<>> /\ path[Len(path)].type # "compaction"
  BY DEF Compact, CanPrepare
<1>3. Len(path) \in 1 .. Len(path)
  BY <1>1, <1>2, EmptySeq
<1>4. Start(path) \in 1 .. Len(path)
  BY <1>1, <1>2, <1>3, PrevIsLast DEF Start
<1>5. cut \in Start(path) .. Len(path)
  BY <1>1, <1>4, CutIsSound
<1>6. path[cut].id \in 1 .. created
  <2>1. cut \in 1 .. Len(path)
    BY <1>1, <1>4, <1>5
  <2> QED
    BY <1>1, <2>1 DEF BranchSound, Numbered
<1>7. Summary(path) \subseteq 1 .. created
  BY <1>1, <1>4, SummaryIsOlder
<1>8. e = [id |-> created + 1, type |-> "compaction", size |-> 1,
           firstKept |-> path[cut].id, covers |-> Summary(path)]
  <2> DEFINE kept == [NewEntry("compaction", 1) EXCEPT !.firstKept = path[cut].id]
  <2>1. kept = [id |-> created + 1, type |-> "compaction", size |-> 1,
                firstKept |-> path[cut].id, covers |-> {}]
    BY DEF NewEntry
  <2>2. e = [kept EXCEPT !.covers = Summary(path)]
    OBVIOUS
  <2> HIDE DEF kept, e, cut
  <2> QED
    BY <2>1, <2>2
<1>9. e \in BranchEntries
  <2> HIDE DEF cut, e
  <2>1. Summary(path) \in SUBSET Nat /\ path[cut].id \in Nat /\ created + 1 \in Nat
    BY <1>1, <1>6, <1>7
  <2>2. "compaction" \in MessageTypes \cup SummaryTypes \cup {"custom_message", "setting"}
    BY DEF SummaryTypes
  <2> QED
    BY <1>8, <2>1, <2>2 DEF BranchEntries
<1>10. Numbered(e, created + 1)
  <2> HIDE DEF cut, e
  <2> QED
    BY <1>1, <1>6, <1>7, <1>8 DEF Numbered
<1>11. path' = Append(path, e) /\ created' = created + 1 /\ created < MaxEntries
  BY DEF Compact
<1> QED
  BY <1>4, <1>5, <1>8, <1>9, <1>10, <1>11

LEMMA CompactKeepsInv == ASSUME CompactionInv, Compact PROVE CompactionInv'
<1> DEFINE cut == CutIndex(path, Start(path))
<1>1. created \in 0 .. MaxEntries /\ MaxEntries \in Nat /\ BranchSound(path, created)
  BY BudgetsAssumption DEF CompactionInv
<1>2. path \in Seq(BranchEntries) /\ Len(path) \in Nat /\ DOMAIN path = 1 .. Len(path)
  BY <1>1, LenProperties DEF BranchSound
<1>3. PICK e \in BranchEntries :
         /\ path' = Append(path, e) /\ created' = created + 1 /\ created < MaxEntries
         /\ e.id = created + 1 /\ e.type = "compaction" /\ e.firstKept = path[cut].id
         /\ Numbered(e, created + 1)
         /\ Start(path) \in 1 .. Len(path) /\ cut \in Start(path) .. Len(path)
  BY CompactAppends
<1>4. \A i \in cut .. Len(path) : path[i].type = "toolResult" => \E call \in cut .. i - 1 : Answers(path, call, i)
  BY <1>1, <1>3, CutLeavesCalls
<1> HIDE DEF cut
<1>5. \A k \in 1 .. Len(path) : path[k].id = e.firstKept => k = cut
  <2>1. cut \in 1 .. Len(path)
    BY <1>2, <1>3
  <2>2. \A i \in 1 .. Len(path) : path[i].id \in Nat /\ \A k \in 1 .. i - 1 : path[k].id < path[i].id
    BY <1>1, <1>2 DEF BranchSound, Numbered
  <2> QED
    BY <1>2, <1>3, <2>1, <2>2
<1>6. BranchSound(Append(path, e), created + 1)
  BY <1>1, <1>3, <1>4, <1>5, AppendKeepsSound
<1> QED
  BY <1>1, <1>3, <1>6 DEF CompactionInv

LEMMA NavigateKeepsInv ==
  ASSUME CompactionInv, NEW target \in DOMAIN path, NEW summarize \in BOOLEAN, Navigate(target, summarize)
  PROVE  CompactionInv'
<1> DEFINE leaf == IF path[target].type \in {"user", "custom_message"} THEN target - 1 ELSE target
           p == SubSeq(path, 1, leaf)
           e == [NewEntry("branch_summary", 1) EXCEPT !.covers = Content(path, BranchMessages(path, target))]
<1>1. created \in 0 .. MaxEntries /\ MaxEntries \in Nat /\ BranchSound(path, created)
  BY BudgetsAssumption DEF CompactionInv
<1>2. path \in Seq(BranchEntries) /\ Len(path) \in Nat /\ DOMAIN path = 1 .. Len(path)
  BY <1>1, LenProperties DEF BranchSound
<1>3. leaf \in 0 .. Len(path)
  BY <1>2
<1>4. BranchSound(p, created)
  BY <1>1, <1>3, PrefixIsSound
<1>5. CASE ~summarize
  <2>1. path' = p /\ created' = created
    BY <1>5 DEF Navigate
  <2> QED
    BY <1>1, <1>4, <2>1 DEF CompactionInv
<1>6. CASE summarize
  <2>1. path' = Append(p, e) /\ created' = created + 1 /\ created < MaxEntries
    BY <1>6 DEF Navigate
  <2>2. e = [id |-> created + 1, type |-> "branch_summary", size |-> 1, firstKept |-> 0,
             covers |-> Content(path, BranchMessages(path, target))]
    BY DEF NewEntry
  <2>3. Content(path, BranchMessages(path, target)) \subseteq 1 .. created
    BY <1>1, <1>2, BranchMessagesAreThere, ContentIsOlder
  <2>4. e \in BranchEntries /\ e.id = created + 1 /\ Numbered(e, created + 1) /\ e.type = "branch_summary"
    BY <1>1, <2>2, <2>3 DEF BranchEntries, SummaryTypes, Numbered
  <2> HIDE DEF e, p
  <2>5. BranchSound(Append(p, e), created + 1)
    BY <1>1, <1>4, <2>4, AppendKeepsSound
  <2> QED
    BY <1>1, <2>1, <2>5 DEF CompactionInv
<1> QED
  BY <1>5, <1>6

LEMMA CompactionStepInv == CompactionInv /\ [CompactionNext]_compactionVars => CompactionInv'
<1> SUFFICES ASSUME CompactionInv, [CompactionNext]_compactionVars
             PROVE  CompactionInv'
  OBVIOUS
<1>1. ASSUME NEW type \in MessageTypes, NEW amount \in Sizes, Grow(type, amount)
      PROVE  CompactionInv'
  BY <1>1, GrowKeepsInv, SizesAssumption
<1>2. ASSUME NEW type \in {"custom_message", "setting"}, Grow(type, 1)
      PROVE  CompactionInv'
  BY <1>2, GrowKeepsInv
<1>3. CASE Compact
  BY <1>3, CompactKeepsInv
<1>4. ASSUME NEW target \in DOMAIN path, NEW summarize \in BOOLEAN, Navigate(target, summarize)
      PROVE  CompactionInv'
  BY <1>4, NavigateKeepsInv
<1>5. CASE UNCHANGED compactionVars
  BY <1>5 DEF compactionVars, CompactionInv, BranchSound, ResultsPaired, KeptWhole, Answers
<1> QED
  BY <1>1, <1>2, <1>3, <1>4, <1>5 DEF CompactionNext

(* The numbers and types of the entries, their order, and that no result   *)
(* of a branch and none that a compaction keeps is without its call.       *)
THEOREM CompactionInvariant == CompactionSpec => []CompactionInv
BY CompactionInitInv, CompactionStepInv, PTL DEF CompactionSpec

LEMMA InvIsSendable == CompactionInv => ContextIsSendable
<1> SUFFICES ASSUME CompactionInv PROVE ContextIsSendable
  OBVIOUS
<1>1. created \in 0 .. MaxEntries /\ created \in Nat /\ BranchSound(path, created)
  BY BudgetsAssumption DEF CompactionInv
<1>2. ResultsFollowCalls
  BY <1>1, ResultsAreSendable
<1>3. CompactionTypeOK
  BY <1>1 DEF CompactionTypeOK, BranchSound, Numbered
<1> QED
  BY <1>2, <1>3 DEF ContextIsSendable

(* Whatever is compacted, navigated and appended, the LLM is never sent a  *)
(* tool result without the call it answers, for any token estimates and    *)
(* budgets: findCutPoint never cuts between them.                          *)
THEOREM ContextStaysSendable == CompactionSpec => []ContextIsSendable
BY CompactionInvariant, InvIsSendable, PTL

-----------------------------------------------------------------------------
(***************************************************************************)
(* What a compaction keeps and what it summarizes.                         *)
(***************************************************************************)
LEMMA OnlyCompactCompacts ==
  ASSUME CompactionInv, [CompactionNext]_compactionVars, Compacts
  PROVE  Compact
<1>1. path \in Seq(BranchEntries) /\ Len(path) \in Nat /\ DOMAIN path = 1 .. Len(path)
  BY LenProperties DEF CompactionInv, BranchSound
<1>2. Len(path') = Len(path) + 1 /\ path'[Len(path')].type = "compaction"
  BY DEF Compacts
<1>3. ASSUME NEW e, path' = Append(path, e)
      PROVE  e.type = "compaction"
  BY <1>1, <1>2, <1>3
<1>4. ASSUME NEW type \in MessageTypes \cup {"custom_message", "setting"}, NEW amount, Grow(type, amount)
      PROVE  FALSE
  <2>1. path' = Append(path, NewEntry(type, amount))
    BY <1>4 DEF Grow
  <2>2. NewEntry(type, amount).type = type /\ type # "compaction"
    BY DEF NewEntry, MessageTypes
  <2> QED
    BY <1>3, <2>1, <2>2
<1>5. ASSUME NEW target \in DOMAIN path, NEW summarize \in BOOLEAN, Navigate(target, summarize)
      PROVE  FALSE
  <2> DEFINE leaf == IF path[target].type \in {"user", "custom_message"} THEN target - 1 ELSE target
             p == SubSeq(path, 1, leaf)
             e == [NewEntry("branch_summary", 1) EXCEPT !.covers = Content(path, BranchMessages(path, target))]
  <2>1. leaf \in 0 .. Len(path) /\ target < Len(path)
    BY <1>1, <1>5 DEF Navigate
  <2>2. p \in Seq(BranchEntries) /\ Len(p) = leaf
    BY <1>1, <2>1, SubSeqProperties
  <2>3. path' = p \/ path' = Append(p, e)
    BY <1>5 DEF Navigate
  <2>4. e.type = "branch_summary"
    BY DEF NewEntry
  <2> HIDE DEF leaf, p, e
  <2>5. path' = Append(p, e) => Len(path') = leaf + 1 /\ path'[leaf + 1] = e
    BY <2>1, <2>2
  <2>6. path' # p
    BY <1>1, <1>2, <2>1, <2>2
  <2> QED
    BY <1>2, <2>3, <2>4, <2>5, <2>6
<1>6. ~(UNCHANGED compactionVars)
  BY <1>1, <1>2 DEF compactionVars
<1> QED
  BY <1>4, <1>5, <1>6 DEF CompactionNext

\* What the LLM is sent after a compaction: its summary and, from the cut on,
\* everything it was sent before.
LEMMA ContextAfterCompaction ==
  ASSUME CompactionInv, Compact
  PROVE  /\ Start(path) \in 1 .. Len(path) /\ CutIndex(path, Start(path)) \in Start(path) .. Len(path)
         /\ path'[Len(path) + 1].id = created + 1 /\ path'[Len(path) + 1].covers = Summary(path)
         /\ Len(path') = Len(path) + 1 /\ \A i \in 1 .. Len(path) : path'[i] = path[i]
         /\ Len(path) + 1 \in BranchContext(path')
         /\ \A i \in Start(path) .. Len(path) :
               /\ path[i].type # "compaction"
               /\ i \in BranchContext(path) <=> path[i].type # "setting"
               /\ StillSent(i) <=> path[i].type # "setting" /\ i >= CutIndex(path, Start(path))
<1> DEFINE cut == CutIndex(path, Start(path))
           c == PrevCompaction(path)
           n == Len(path)
<1>1. /\ path \in Seq(BranchEntries) /\ n \in Nat /\ DOMAIN path = 1 .. n
      /\ \A i \in 1 .. n : path[i].id \in Nat /\ \A k \in 1 .. i - 1 : path[k].id < path[i].id
  BY LenProperties DEF CompactionInv, BranchSound, Numbered
<1>2. PICK e \in BranchEntries :
         /\ path' = Append(path, e) /\ e.id = created + 1 /\ e.type = "compaction"
         /\ e.firstKept = path[cut].id /\ e.covers = Summary(path)
         /\ Start(path) \in 1 .. n /\ cut \in Start(path) .. n
  BY CompactAppends
<1>3. /\ Start(path) = c + 1 /\ c \in 0 .. n
      /\ \A i \in 1 .. n : path[i].type = "compaction" => i <= c
  BY <1>1, PrevIsLast DEF Start
<1>4. /\ path' \in Seq(BranchEntries) /\ Len(path') = n + 1 /\ DOMAIN path' = 1 .. n + 1
      /\ \A i \in 1 .. n : path'[i] = path[i]
      /\ path'[n + 1] = e
  BY <1>1, <1>2, AppendProperties, LenProperties
<1>5. PrevCompaction(path') = n + 1
  <2> HIDE DEF n, cut, c
  <2>1. /\ PrevCompaction(path') \in 0 .. Len(path')
        /\ \A i \in DOMAIN path' : path'[i].type = "compaction" => i <= PrevCompaction(path')
    BY <1>4, PrevIsLast, Zenon
  <2>2. n + 1 \in DOMAIN path' /\ path'[n + 1].type = "compaction"
    BY <1>1, <1>2, <1>4
  <2>3. n + 1 <= PrevCompaction(path') /\ PrevCompaction(path') \in 0 .. n + 1
    BY <1>4, <2>1, <2>2, Zenon
  <2> QED
    BY <1>1, <2>3
<1> HIDE DEF n, cut, c
<1>6. \A i \in c + 1 .. n : path[i].type # "compaction"
  BY <1>1, <1>3
<1>7. \A i \in c + 1 .. n : i \in BranchContext(path) <=> path[i].type # "setting"
  <2> DEFINE kept == {i \in 1 .. c - 1 : path[i].id = path[c].firstKept}
             shown == {i \in DOMAIN path : path[i].type \notin {"setting", "compaction"}}
  <2>1. BranchContext(path) = IF c = 0 THEN shown ELSE {c} \cup {i \in shown : i > c \/ \E k \in kept : k <= i}
    BY DEF BranchContext, c
  <2>2. \A i \in c + 1 .. n : i \in 1 .. n /\ i > c /\ i # c
    BY <1>1, <1>3
  <2>3. \A i \in c + 1 .. n : i \in shown <=> path[i].type # "setting"
    BY <1>1, <1>6, <2>2
  <2> HIDE DEF shown, kept
  <2> QED
    BY <2>1, <2>2, <2>3
<1>8. \A i \in 1 .. n : path'[i].id = path'[n + 1].firstKept <=> i = cut
  <2>1. cut \in 1 .. n
    BY <1>1, <1>2, <1>3
  <2> QED
    BY <1>1, <1>2, <1>4, <2>1
<1> DEFINE keptNow == {i \in 1 .. (n + 1) - 1 : path'[i].id = path'[n + 1].firstKept}
           shownNow == {i \in DOMAIN path' : path'[i].type \notin {"setting", "compaction"}}
<1>9. BranchContext(path') = {n + 1} \cup {i \in shownNow : i > n + 1 \/ \E k \in keptNow : k <= i}
  <2>1. n + 1 # 0
    BY <1>1
  <2> QED
    BY <1>5, <2>1 DEF BranchContext
<1>10. keptNow = {cut}
  <2>1. cut \in 1 .. n
    BY <1>1, <1>2, <1>3
  <2> QED
    BY <1>1, <1>8, <2>1
<1>11. \A i \in c + 1 .. n : i \in BranchContext(path') <=> path[i].type # "setting" /\ i >= cut
  <2>1. \A i \in c + 1 .. n : i \in 1 .. n /\ ~(i > n + 1) /\ i # n + 1
    BY <1>1, <1>3
  <2>2. \A i \in c + 1 .. n : i \in shownNow <=> path[i].type # "setting"
    BY <1>1, <1>4, <1>6, <2>1
  <2>3. cut \in Nat /\ \A i \in c + 1 .. n : i \in Nat
    BY <1>1, <1>2, <1>3
  <2> HIDE DEF keptNow, shownNow
  <2> QED
    BY <1>9, <1>10, <2>1, <2>2, <2>3
<1>12. n + 1 \in BranchContext(path')
  BY <1>9
<1>13. \A i \in Start(path) .. n : StillSent(i) <=> path[i].type # "setting" /\ i >= cut
  BY <1>3, <1>11 DEF StillSent
<1> QED
  BY <1>2, <1>3, <1>4, <1>6, <1>7, <1>12, <1>13 DEF n, cut

\* SummaryCoversRest, for one step.
LEMMA SummaryCoversRestStep ==
  CompactionInv /\ [CompactionNext]_compactionVars => SplitsOneTurn /\ FirstLosesNothing
<1> SUFFICES ASSUME CompactionInv, [CompactionNext]_compactionVars, Compacts
             PROVE  /\ SplitsOneTurn
                    /\ FirstCompaction => KnownEntries(path) \subseteq KnownEntries(path')
  BY DEF SplitsOneTurn, FirstLosesNothing
<1> DEFINE start == Start(path)
           cut == CutIndex(path, start)
           split == SplitTurn(path, start)
<1>1. path \in Seq(BranchEntries) /\ Len(path) \in Nat /\ DOMAIN path = 1 .. Len(path)
  BY LenProperties DEF CompactionInv, BranchSound
<1>2. Compact
  BY OnlyCompactCompacts
<1>3. /\ start \in 1 .. Len(path) /\ cut \in start .. Len(path)
      /\ path'[Len(path) + 1].covers = Summary(path)
      /\ \A i \in 1 .. Len(path) : path'[i] = path[i]
      /\ Len(path) + 1 \in BranchContext(path')
      /\ \A i \in start .. Len(path) :
            /\ i \in BranchContext(path) <=> path[i].type # "setting"
            /\ StillSent(i) <=> path[i].type # "setting" /\ i >= cut
  BY <1>2, ContextAfterCompaction
<1>4. History(path) \cup TurnPrefix(path) = start .. cut - 1 /\ History(path) \cap TurnPrefix(path) = {}
  BY <1>1, <1>3, SummarizedIsOlder
<1>5. TurnPrefix(path) = IF split = 0 THEN {} ELSE split .. cut - 1
  BY DEF TurnPrefix
<1>6. \/ split = 0
      \/ /\ split \in start .. cut /\ split \in TurnStarts(path)
         /\ \A i \in TurnStarts(path) : i \in start .. cut => i <= split
  BY <1>1, <1>3, SplitIsSound
<1> HIDE DEF start, cut, split
<1>7. \A i \in TurnPrefix(path) : i \in TurnStarts(path) <=> i = Min(TurnPrefix(path))
  <2> SUFFICES ASSUME NEW i \in TurnPrefix(path)
               PROVE  i \in TurnStarts(path) <=> i = Min(TurnPrefix(path))
    OBVIOUS
  <2>1. split # 0 /\ i \in split .. cut - 1 /\ TurnPrefix(path) = split .. cut - 1
    BY <1>5
  <2>2. split \in Nat /\ cut \in Nat /\ split \in start .. cut /\ start \in Nat
    BY <1>1, <1>3, <1>6, <2>1
  <2>3. Min(TurnPrefix(path)) \in TurnPrefix(path) /\ \A k \in TurnPrefix(path) : Min(TurnPrefix(path)) <= k
    <3>1. TurnPrefix(path) \in SUBSET Nat
      BY <2>1, <2>2
    <3> QED
      BY <3>1, MinOfIndices
  <2>4. Min(TurnPrefix(path)) = split
    <3>1. split \in TurnPrefix(path)
      BY <2>1, <2>2
    <3> QED
      BY <2>1, <2>2, <2>3, <3>1
  <2>5. i \in TurnStarts(path) => i <= split
    BY <1>6, <2>1, <2>2
  <2> QED
    BY <1>6, <2>1, <2>2, <2>4, <2>5
<1>8. \A i \in start .. Len(path) :
         i \in BranchContext(path) => ((i \in History(path) \cup TurnPrefix(path)) # StillSent(i))
  <2> TAKE i \in start .. Len(path)
  <2> HAVE i \in BranchContext(path)
  <2>1. i \in start .. cut - 1 <=> ~(i >= cut)
    BY <1>1, <1>3
  <2>2. (i \in History(path) \cup TurnPrefix(path)) <=> ~(i >= cut)
    BY <1>4, <2>1, Zenon
  <2>3. StillSent(i) <=> i >= cut
    BY <1>3
  <2>4. StillSent(i) \in BOOLEAN
    BY DEF StillSent
  <2> QED
    BY <2>2, <2>3, <2>4, Zenon
<1>9. SplitsOneTurn
  BY <1>4, <1>7, <1>8 DEF SplitsOneTurn, start
<1>10. ASSUME FirstCompaction
       PROVE  KnownEntries(path) \subseteq KnownEntries(path')
  <2>1. start = 1 /\ PrevCompaction(path) = 0
    BY <1>10 DEF FirstCompaction, Start, start
  <2>2. BranchContext(path) \subseteq 1 .. Len(path)
    BY <1>1, <2>1 DEF BranchContext
  <2>3. SUFFICES ASSUME NEW i \in BranchContext(path), NEW x \in {path[i].id} \cup path[i].covers
                 PROVE  x \in KnownEntries(path')
    BY DEF KnownEntries
  <2>4. i \in start .. Len(path) /\ path[i].type # "setting" /\ i \in Nat
    BY <1>1, <1>3, <2>1, <2>2, <2>3
  <2>5. CASE i >= cut
    <3>1. i \in BranchContext(path') /\ path'[i] = path[i]
      BY <1>3, <2>1, <2>4, <2>5 DEF StillSent
    <3> QED
      BY <3>1, <2>3 DEF KnownEntries
  <2>6. CASE ~(i >= cut)
    <3>1. i \in History(path) \cup TurnPrefix(path)
      BY <1>1, <1>3, <1>4, <2>4, <2>6
    <3>2. x \in Content(path, History(path) \cup TurnPrefix(path))
      BY <2>3, <2>4, <3>1 DEF Content, Summarizable
    <3>3. x \in Summary(path)
      BY <3>2 DEF Summary
    <3> QED
      BY <1>3, <3>3 DEF KnownEntries
  <2> QED
    BY <2>5, <2>6
<1> QED
  BY <1>9, <1>10

(* What a compaction takes away is in its summary, once and in the right   *)
(* part of it, the prefix of a split turn beginning with its request; and  *)
(* the first compaction of a branch loses nothing.                         *)
THEOREM SummaryIsComplete == CompactionSpec => SummaryCoversRest
BY CompactionInvariant, SummaryCoversRestStep, PTL DEF CompactionSpec, SummaryCoversRest

\* RecentIsKept, for one step.
LEMMA RecentIsKeptStep ==
  CompactionInv /\ [CompactionNext]_compactionVars =>
     (Compacts =>
        \A i \in Start(path) .. Len(path) : IsMessage(path[i]) =>
            /\ ~EnoughFrom(i + 1) => StillSent(i) \/ path[i].type = "toolResult"
            /\ StillSent(i) => \/ ~EnoughFrom(i + 1)
                               \/ \A k \in i + 1 .. Len(path) : Cuttable(k) => EnoughFrom(k))
<1> SUFFICES ASSUME CompactionInv, [CompactionNext]_compactionVars, Compacts,
                    NEW i \in Start(path) .. Len(path), IsMessage(path[i])
             PROVE  /\ ~EnoughFrom(i + 1) => StillSent(i) \/ path[i].type = "toolResult"
                    /\ StillSent(i) => \/ ~EnoughFrom(i + 1)
                                       \/ \A k \in i + 1 .. Len(path) : Cuttable(k) => EnoughFrom(k)
  OBVIOUS
<1> DEFINE start == Start(path)
           cut == CutIndex(path, start)
           points == CutPoints(path, start)
           reaching == Reaching(path, start)
<1>1. path \in Seq(BranchEntries) /\ Len(path) \in Nat /\ DOMAIN path = 1 .. Len(path)
  BY LenProperties DEF CompactionInv, BranchSound
<1>2. Compact
  BY OnlyCompactCompacts
<1>3. /\ start \in 1 .. Len(path) /\ cut \in start .. Len(path)
      /\ \A k \in start .. Len(path) :
            /\ path[k].type # "compaction"
            /\ StillSent(k) <=> path[k].type # "setting" /\ k >= cut
  BY <1>2, ContextAfterCompaction
<1>4. points # {} =>
         \E c \in points :
            /\ cut <= c
            /\ \A k \in cut .. c - 1 : ~IsMessage(path[k])
            /\ \A d \in points : d < c => \E r \in reaching : d < r
            /\ (\E r \in reaching : c < r) => \A d \in points : \E r \in reaching : d < r
  BY <1>1, <1>3, CutIsSound
<1>5. points = {} => cut = start
  BY <1>1, <1>3, CutIsSound
<1>6. /\ i \in Nat /\ i \in start .. Len(path) /\ start \in Nat /\ cut \in Nat
      /\ path[i].type # "setting"
  BY <1>1, <1>3 DEF IsMessage, MessageTypes
<1>7. /\ points \subseteq start .. Len(path)
      /\ \A d \in points : d \in Nat
      /\ \A k \in start .. Len(path) : Cuttable(k) => k \in points
  <2>1. points \subseteq start .. Len(path) /\ \A d \in points : d \in Nat
    BY <1>1, <1>3 DEF CutPoints
  <2>2. ASSUME NEW k \in start .. Len(path), Cuttable(k)
        PROVE  k \in points
    <3>1. path[k] \in BranchEntries /\ path[k].type # "compaction"
      BY <1>1, <1>3
    <3> QED
      BY <2>2, <3>1 DEF Cuttable, CutPoints, BranchEntries, MessageTypes, SummaryTypes
  <2> QED
    BY <2>1, <2>2
<1>8. ASSUME NEW r \in reaching
      PROVE  r \in start .. Len(path) /\ r \in Nat /\ \A k \in Nat : k <= r => EnoughFrom(k)
  BY <1>1, <1>3 DEF Reaching, EnoughFrom
<1>9. EnoughFrom(i + 1) => \E r \in reaching : r >= i + 1
  BY <1>1, <1>3, <1>6 DEF Reaching, EnoughFrom
<1> HIDE DEF start, cut, points, reaching
<1>10. ASSUME ~EnoughFrom(i + 1), path[i].type # "toolResult"
       PROVE  StillSent(i)
  <2>1. i \in points
    BY <1>6, <1>7, <1>10 DEF Cuttable
  <2>2. PICK c \in points : cut <= c /\ \A d \in points : d < c => \E r \in reaching : d < r
    BY <1>4, <2>1
  <2>3. \A r \in reaching : ~(i < r)
    BY <1>6, <1>8, <1>10
  <2>4. ~(i < c)
    BY <2>1, <2>2, <2>3
  <2>5. i >= cut
    BY <1>6, <1>7, <2>2, <2>4
  <2> QED
    BY <1>3, <1>6, <2>5
<1>11. ASSUME StillSent(i), EnoughFrom(i + 1), NEW k \in i + 1 .. Len(path), Cuttable(k)
       PROVE  EnoughFrom(k)
  <2>1. k \in points /\ k \in Nat
    BY <1>1, <1>6, <1>7, <1>11
  <2>2. PICK c \in points :
           /\ \A m \in cut .. c - 1 : ~IsMessage(path[m])
           /\ (\E r \in reaching : c < r) => \A d \in points : \E r \in reaching : d < r
    BY <1>4, <2>1
  <2>3. i >= cut
    BY <1>3, <1>6, <1>11
  <2>4. i >= c
    BY <1>6, <1>7, <2>2, <2>3
  <2>5. PICK r \in reaching : r >= i + 1
    BY <1>9, <1>11
  <2>6. c < r
    BY <1>6, <1>7, <1>8, <2>4, <2>5
  <2>7. PICK s \in reaching : k < s
    BY <2>1, <2>2, <2>6
  <2> QED
    BY <1>8, <2>1, <2>7
<1> QED
  BY <1>10, <1>11

(* The newest messages that together reach keepRecentTokens are kept, but  *)
(* for results whose call is further back, and no others, unless nothing   *)
(* behind the message that reaches the budget can be cut at: whatever the  *)
(* estimates are, for the walk back only compares them with the budget.    *)
THEOREM RecentStaysKept == CompactionSpec => RecentIsKept
BY CompactionInvariant, RecentIsKeptStep, PTL DEF CompactionSpec, RecentIsKept

-----------------------------------------------------------------------------
(***************************************************************************)
(* The sums of the walk back from the leaf.                                *)
(***************************************************************************)

LEMMA SizesAreNumbers ==
  ASSUME NEW p \in Seq(BranchEntries)
  PROVE  Len(p) \in Nat /\ \A i \in 1 .. Len(p) : p[i].size \in Nat
<1>1. Len(p) \in Nat /\ \A i \in 1 .. Len(p) : p[i] \in BranchEntries
  BY LenProperties, ElementOfSeq
<1>2. \A e \in BranchEntries : e.size \in Nat
  BY DEF BranchEntries
<1> QED
  BY <1>1, <1>2, Zenon

\* What holds of the last index, and of each before one it holds of, holds
\* of all.
LEMMA Backwards ==
  ASSUME NEW n \in Nat, NEW G \in SUBSET (1 .. n), n > 0, n \in G,
         \A i \in 1 .. n - 1 : i + 1 \in G => i \in G
  PROVE  G = 1 .. n
<1> SUFFICES ASSUME 1 .. n \ G # {} PROVE FALSE
  OBVIOUS
<1> DEFINE m == Max(1 .. n \ G)
<1>1. m \in 1 .. n \ G /\ \A i \in 1 .. n \ G : i <= m
  BY MaxOfIndices
<1> HIDE DEF m
<1>2. m \in 1 .. n - 1
  BY <1>1
<1>3. m + 1 \in 1 .. n /\ ~(m + 1 <= m)
  BY <1>2
<1> QED
  BY <1>1, <1>2, <1>3

\* There are such sums.
LEMMA SumsExist ==
  ASSUME NEW n \in Nat, NEW w \in [1 .. n -> Nat]
  PROVE  \E sum : sum = [i \in 1 .. n + 1 |-> IF i > n THEN 0 ELSE w[i] + sum[i + 1]]
<1> DEFINE Sums(f, m) == \A i \in m .. n + 1 : f[i] = IF i > n THEN 0 ELSE w[i] + f[i + 1]
           G == {m \in 1 .. n + 1 : \E f \in [1 .. n + 1 -> Nat] : Sums(f, m)}
<1>1. n + 1 \in G
  <2> DEFINE f == [i \in 1 .. n + 1 |-> 0]
  <2>1. f \in [1 .. n + 1 -> Nat] /\ Sums(f, n + 1)
    OBVIOUS
  <2> HIDE DEF f
  <2> QED
    BY <2>1
<1>2. ASSUME NEW m \in 1 .. (n + 1) - 1, m + 1 \in G
      PROVE  m \in G
  <2>1. PICK f \in [1 .. n + 1 -> Nat] : Sums(f, m + 1)
    BY <1>2
  <2> DEFINE g == [f EXCEPT ![m] = w[m] + f[m + 1]]
  <2>2. m \in 1 .. n /\ m \in Nat /\ m + 1 \in 1 .. n + 1
    BY <1>2
  <2>3. w[m] + f[m + 1] \in Nat
    BY <2>2
  <2>4. g \in [1 .. n + 1 -> Nat]
    BY <2>3
  <2>5. g[m] = w[m] + f[m + 1] /\ \A i \in 1 .. n + 1 : i # m => g[i] = f[i]
    BY <2>2
  <2> HIDE DEF g
  <2>6. ASSUME NEW i \in m .. n + 1
        PROVE  g[i] = IF i > n THEN 0 ELSE w[i] + g[i + 1]
    <3>1. i \in 1 .. n + 1 /\ i \in Nat
      BY <2>2
    <3>2. CASE i = m
      BY <2>2, <2>5, <3>2
    <3>3. CASE i # m
      <4>1. i \in m + 1 .. n + 1
        BY <2>2, <3>1, <3>3
      <4>2. f[i] = IF i > n THEN 0 ELSE w[i] + f[i + 1]
        BY <2>1, <4>1
      <4>3. i <= n => g[i + 1] = f[i + 1]
        BY <2>2, <2>5, <3>1, <4>1
      <4> QED
        BY <2>5, <3>1, <3>3, <4>2, <4>3
    <3> QED
      BY <3>2, <3>3
  <2>7. Sums(g, m)
    BY <2>6
  <2>8. m \in 1 .. n + 1
    BY <2>2
  <2> HIDE DEF Sums
  <2> QED
    BY <2>4, <2>7, <2>8
<1> HIDE DEF Sums
<1>3. G \in SUBSET (1 .. n + 1) /\ n + 1 \in Nat /\ n + 1 > 0
  OBVIOUS
<1> HIDE DEF G
<1>4. G = 1 .. n + 1
  BY <1>1, <1>2, <1>3, Backwards
<1>5. 1 \in G
  BY <1>4
<1>6. PICK f \in [1 .. n + 1 -> Nat] : Sums(f, 1)
  BY <1>5 DEF G
<1>7. f = [i \in 1 .. n + 1 |-> IF i > n THEN 0 ELSE w[i] + f[i + 1]]
  BY <1>6 DEF Sums
<1> QED
  BY <1>7

\* What the walk adds up: nothing behind the leaf, and at each entry its
\* estimate, when it counts; so the sums grow on the way.
LEMMA TokensFromIsSum ==
  ASSUME NEW p \in Seq(BranchEntries), NEW S
  PROVE  /\ \A i \in 1 .. Len(p) + 1 : TokensFrom(p, S)[i] \in Nat
         /\ TokensFrom(p, S)[Len(p) + 1] = 0
         /\ \A i \in 1 .. Len(p) :
               TokensFrom(p, S)[i] = (IF i \in S THEN p[i].size ELSE 0) + TokensFrom(p, S)[i + 1]
<1> DEFINE n == Len(p)
           w == [i \in 1 .. n |-> IF i \in S THEN p[i].size ELSE 0]
           t == TokensFrom(p, S)
<1>1. n \in Nat /\ \A i \in 1 .. n : p[i].size \in Nat
  BY SizesAreNumbers
<1>2. w \in [1 .. n -> Nat]
  BY <1>1
<1>3. PICK sum : sum = [i \in 1 .. n + 1 |-> IF i > n THEN 0 ELSE w[i] + sum[i + 1]]
  <2> HIDE DEF n, w
  <2> QED
    BY <1>1, <1>2, SumsExist
<1>4. sum = [i \in 1 .. n + 1 |-> IF i > n THEN 0 ELSE (IF i \in S THEN p[i].size ELSE 0) + sum[i + 1]]
  <2> DEFINE f == [i \in 1 .. n + 1 |-> IF i > n THEN 0 ELSE (IF i \in S THEN p[i].size ELSE 0) + sum[i + 1]]
  <2>1. \A i \in 1 .. n + 1 : ~(i > n) => i \in 1 .. n
    BY <1>1
  <2>2. \A i \in 1 .. n + 1 : f[i] = IF i > n THEN 0 ELSE w[i] + sum[i + 1]
    BY <2>1
  <2>3. DOMAIN f = 1 .. n + 1
    OBVIOUS
  <2>4. f = [i \in 1 .. n + 1 |-> f[i]]
    OBVIOUS
  <2> HIDE DEF f, w, n
  <2>5. f = [i \in 1 .. n + 1 |-> IF i > n THEN 0 ELSE w[i] + sum[i + 1]]
    BY <2>2, <2>4
  <2> QED
    BY <1>3, <2>5 DEF f
<1>5. t = [i \in 1 .. n + 1 |-> IF i > n THEN 0 ELSE (IF i \in S THEN p[i].size ELSE 0) + t[i + 1]]
  <2> HIDE DEF w
  <2> QED
    BY <1>4, Zenon DEF TokensFrom
<1> HIDE DEF t, n, w
<1>6. \A i \in 1 .. n + 1 : t[i] = IF i > n THEN 0 ELSE (IF i \in S THEN p[i].size ELSE 0) + t[i + 1]
  BY <1>5
<1>7. t[n + 1] = 0
  BY <1>1, <1>6
<1>8. \A i \in 1 .. n : t[i] = (IF i \in S THEN p[i].size ELSE 0) + t[i + 1]
  BY <1>1, <1>6
<1>9. \A i \in 1 .. n + 1 : t[i] \in Nat
  <2> DEFINE G == {i \in 1 .. n + 1 : t[i] \in Nat}
  <2>1. n + 1 \in G /\ n + 1 > 0 /\ n + 1 \in Nat /\ G \in SUBSET (1 .. n + 1)
    BY <1>1, <1>7
  <2>2. ASSUME NEW i \in 1 .. (n + 1) - 1, i + 1 \in G
        PROVE  i \in G
    BY <1>1, <1>8, <2>2
  <2>3. G = 1 .. n + 1
    <3> HIDE DEF G
    <3> QED
      BY <2>1, <2>2, Backwards
  <2> QED
    BY <2>3
<1> QED
  BY <1>7, <1>8, <1>9 DEF t, n

\* The estimate of what begins later is no more.
LEMMA TokensFromFalls ==
  ASSUME NEW p \in Seq(BranchEntries), NEW S, NEW k \in 1 .. Len(p) + 1, NEW i \in 1 .. k
  PROVE  TokensFrom(p, S)[k] <= TokensFrom(p, S)[i]
<1> DEFINE n == Len(p)
           t == TokensFrom(p, S)
           G == {m \in 1 .. k : t[k] <= t[m]}
<1>1. n \in Nat /\ \A m \in 1 .. n : p[m].size \in Nat
  BY SizesAreNumbers
<1>2. /\ \A m \in 1 .. n + 1 : t[m] \in Nat
      /\ \A m \in 1 .. n : t[m] = (IF m \in S THEN p[m].size ELSE 0) + t[m + 1]
  BY TokensFromIsSum
<1> HIDE DEF t
<1>3. k \in Nat /\ k > 0 /\ k \in G /\ G \in SUBSET (1 .. k)
  BY <1>1, <1>2
<1>4. ASSUME NEW m \in 1 .. k - 1, m + 1 \in G
      PROVE  m \in G
  <2>1. m \in 1 .. n /\ m + 1 \in 1 .. n + 1 /\ m \in 1 .. n + 1 /\ m \in 1 .. k /\ k \in 1 .. n + 1
    BY <1>1, <1>3
  <2>2. t[m] \in Nat /\ t[m + 1] \in Nat /\ t[k] \in Nat /\ t[m + 1] <= t[m]
    <3>1. t[m] \in Nat /\ t[m + 1] \in Nat /\ t[k] \in Nat
      BY <1>2, <2>1
    <3>2. t[m] = (IF m \in S THEN p[m].size ELSE 0) + t[m + 1] /\ p[m].size \in Nat
      BY <1>1, <1>2, <2>1
    <3> QED
      BY <3>1, <3>2
  <2>3. t[k] <= t[m + 1]
    BY <1>4
  <2>4. t[k] <= t[m]
    BY <2>2, <2>3
  <2> QED
    BY <2>1, <2>4
<1>5. G = 1 .. k
  <2> HIDE DEF G
  <2> QED
    BY <1>3, <1>4, Backwards
<1> QED
  BY <1>5 DEF t

\* The estimate of the last entry that counts is its own.
LEMMA TokensFromLast ==
  ASSUME NEW p \in Seq(BranchEntries), NEW S, NEW i \in S, i \in 1 .. Len(p), \A k \in S : k <= i
  PROVE  TokensFrom(p, S)[i] = p[i].size
<1> DEFINE n == Len(p)
           t == TokensFrom(p, S)
           G == {m \in 1 .. n + 1 : m > i => t[m] = 0}
<1>1. n \in Nat /\ i \in Nat /\ p[i].size \in Nat
  BY SizesAreNumbers
<1>2. /\ t[n + 1] = 0
      /\ \A m \in 1 .. n : t[m] = (IF m \in S THEN p[m].size ELSE 0) + t[m + 1]
  BY TokensFromIsSum
<1> HIDE DEF t
<1>3. n + 1 \in Nat /\ n + 1 > 0 /\ n + 1 \in G /\ G \in SUBSET (1 .. n + 1)
  BY <1>1, <1>2
<1>4. ASSUME NEW m \in 1 .. (n + 1) - 1, m + 1 \in G
      PROVE  m \in G
  <2>1. m \in 1 .. n /\ m \in 1 .. n + 1
    BY <1>1
  <2>2. CASE m > i
    <3>1. m \notin S
      BY <1>1, <2>1, <2>2
    <3>2. t[m + 1] = 0
      BY <1>1, <1>4, <2>1, <2>2
    <3>3. t[m] = 0
      BY <1>2, <2>1, <3>1, <3>2
    <3> QED
      BY <2>1, <3>3
  <2> QED
    BY <2>1, <2>2
<1>5. G = 1 .. n + 1
  <2> HIDE DEF G
  <2> QED
    BY <1>3, <1>4, Backwards
<1>6. t[i + 1] = 0
  <2>1. i + 1 \in 1 .. n + 1 /\ i + 1 > i
    BY <1>1
  <2> QED
    BY <1>5, <2>1
<1>7. t[i] = p[i].size
  BY <1>1, <1>2, <1>6
<1> QED
  BY <1>7 DEF t

-----------------------------------------------------------------------------
(***************************************************************************)
(* What a branch summary tells of.                                         *)
(***************************************************************************)

\* The newest of the abandoned entries, as many as fit.
LEMMA NewestAreTaken ==
  ASSUME NEW p \in Seq(BranchEntries), NEW target \in 1 .. Len(p)
  PROVE  /\ Abandoned(p, target) \subseteq target + 1 .. Len(p)
         /\ BranchMessages(p, target) \subseteq Abandoned(p, target)
         /\ \A i \in BranchMessages(p, target), k \in Abandoned(p, target) : k > i => k \in BranchMessages(p, target)
         /\ Tokens(p, Abandoned(p, target)) <= BranchBudget => BranchMessages(p, target) = Abandoned(p, target)
         /\ Abandoned(p, target) # {} /\ p[Max(Abandoned(p, target))].size <= BranchBudget =>
               Max(Abandoned(p, target)) \in BranchMessages(p, target)
<1> DEFINE said == Abandoned(p, target)
           t == TokensFrom(p, said)
           fitting == {i \in said : t[i] <= BranchBudget}
           rest == said \ fitting
           squeezed == {i \in rest : /\ i = Max(rest)
                                     /\ p[i].type \in SummaryTypes
                                     /\ 10 * Tokens(p, fitting) < 9 * BranchBudget}
<1>1. /\ Len(p) \in Nat /\ said \subseteq target + 1 .. Len(p) /\ said \in SUBSET (1 .. Len(p))
      /\ BranchBudget \in Nat
  BY LenProperties, BudgetsAssumption DEF Abandoned
<1>2. BranchMessages(p, target) = fitting \cup squeezed
  BY DEF BranchMessages, FitsBudget
<1>3. /\ \A i \in 1 .. Len(p) + 1 : t[i] \in Nat
      /\ \A k \in 1 .. Len(p) + 1, i \in 1 .. Len(p) + 1 : i <= k => t[k] <= t[i]
  <2>1. \A i \in 1 .. Len(p) + 1 : t[i] \in Nat
    BY TokensFromIsSum
  <2>2. ASSUME NEW k \in 1 .. Len(p) + 1, NEW i \in 1 .. Len(p) + 1, i <= k
        PROVE  t[k] <= t[i]
    <3>1. i \in 1 .. k
      BY <1>1, <2>2
    <3> QED
      BY <3>1, TokensFromFalls
  <2> QED
    BY <2>1, <2>2
<1>4. rest # {} => Max(rest) \in rest /\ \A i \in rest : i <= Max(rest)
  BY <1>1, MaxOfIndices
<1>5. Tokens(p, said) = t[1]
  BY DEF Tokens
<1>6. said # {} => /\ Max(said) \in said /\ \A i \in said : i <= Max(said)
                   /\ t[Max(said)] = p[Max(said)].size
  <2> SUFFICES ASSUME said # {}
               PROVE  /\ Max(said) \in said /\ \A i \in said : i <= Max(said)
                      /\ t[Max(said)] = p[Max(said)].size
    OBVIOUS
  <2>1. Max(said) \in said /\ \A i \in said : i <= Max(said)
    BY <1>1, MaxOfIndices
  <2>2. Max(said) \in 1 .. Len(p)
    BY <1>1, <2>1
  <2> HIDE DEF said
  <2>3. t[Max(said)] = p[Max(said)].size
    BY <2>1, <2>2, TokensFromLast
  <2> QED
    BY <2>1, <2>3
<1> HIDE DEF said, t
<1>7. \A i \in said : i \in 1 .. Len(p) /\ i \in 1 .. Len(p) + 1 /\ i \in Nat
  BY <1>1
<1>8. ASSUME NEW i \in fitting \cup squeezed, NEW k \in said, k > i
      PROVE  k \in fitting
  <2>1. CASE i \in fitting
    <3>1. i \in said /\ t[i] <= BranchBudget
      BY <2>1
    <3>2. /\ t[k] <= t[i] /\ t[k] \in Nat /\ t[i] \in Nat
      BY <1>3, <1>7, <1>8, <3>1
    <3>3. t[k] <= BranchBudget
      BY <1>1, <3>1, <3>2
    <3> QED
      BY <3>3
  <2>2. CASE i \in squeezed
    <3>1. rest # {} /\ i = Max(rest) /\ i \in said
      BY <2>2
    <3> HIDE DEF rest, fitting
    <3>2. k \notin rest
      BY <1>4, <1>7, <1>8, <3>1
    <3> QED
      BY <3>2 DEF rest
  <2> QED
    BY <1>8, <2>1, <2>2
<1>9. ASSUME t[1] <= BranchBudget
      PROVE  fitting \cup squeezed = said
  <2>1. ASSUME NEW i \in said
        PROVE  t[i] <= BranchBudget
    <3>1. t[i] <= t[1] /\ t[i] \in Nat /\ t[1] \in Nat
      BY <1>1, <1>3, <1>7
    <3> QED
      BY <1>1, <1>9, <3>1
  <2> QED
    BY <2>1
<1> USE DEF said
<1> QED
  BY <1>1, <1>2, <1>5, <1>6, <1>8, <1>9

LEMMA OnlyNavigateNavigates ==
  ASSUME CompactionInv, [CompactionNext]_compactionVars, Navigates
  PROVE  \E target \in DOMAIN path : Navigate(target, TRUE)
<1>1. /\ path \in Seq(BranchEntries) /\ Len(path) \in Nat /\ DOMAIN path = 1 .. Len(path)
      /\ created \in Nat
  BY LenProperties, BudgetsAssumption DEF CompactionInv, BranchSound
<1>2. created' = created + 1 /\ path'[Len(path')].type = "branch_summary"
  BY DEF Navigates
<1>3. ASSUME NEW e, path' = Append(path, e)
      PROVE  e.type = "branch_summary"
  BY <1>1, <1>2, <1>3
<1>4. ASSUME NEW type \in MessageTypes \cup {"custom_message", "setting"}, NEW amount, Grow(type, amount)
      PROVE  FALSE
  <2>1. path' = Append(path, NewEntry(type, amount))
    BY <1>4 DEF Grow
  <2>2. NewEntry(type, amount).type = type /\ type # "branch_summary"
    BY DEF NewEntry, MessageTypes
  <2> QED
    BY <1>3, <2>1, <2>2
<1>5. CASE Compact
  BY <1>3, <1>5, CompactAppends
<1>6. ASSUME NEW target \in DOMAIN path, NEW summarize \in BOOLEAN, Navigate(target, summarize)
      PROVE  Navigate(target, TRUE)
  <2>1. ~summarize => created' = created
    BY <1>6 DEF Navigate
  <2>2. summarize = TRUE
    BY <1>1, <1>2, <2>1
  <2> QED
    BY <1>6, <2>2
<1>7. ~(UNCHANGED compactionVars)
  BY <1>1, <1>2 DEF compactionVars
<1> QED
  BY <1>4, <1>5, <1>6, <1>7 DEF CompactionNext

\* Of what is abandoned, what the summary tells is known, and nothing else:
\* the entries that stay are all older.
LEMMA KnownAfterNavigation ==
  ASSUME CompactionInv, NEW target \in DOMAIN path, Navigate(target, TRUE)
  PROVE  /\ Len(path') = IF path[target].type \in {"user", "custom_message"} THEN target ELSE target + 1
         /\ \A i \in Abandoned(path, target) :
               path[i].id \in KnownEntries(path') <=> path[i].id \in Content(path, BranchMessages(path, target))
<1> DEFINE leaf == IF path[target].type \in {"user", "custom_message"} THEN target - 1 ELSE target
           p == SubSeq(path, 1, leaf)
           e == [NewEntry("branch_summary", 1) EXCEPT !.covers = Content(path, BranchMessages(path, target))]
           content == Content(path, BranchMessages(path, target))
<1>1. /\ path \in Seq(BranchEntries) /\ Len(path) \in Nat /\ DOMAIN path = 1 .. Len(path) /\ created \in Nat
      /\ \A i \in 1 .. Len(path) : /\ path[i].id \in 1 .. created /\ path[i].covers \subseteq 1 .. path[i].id - 1
                                  /\ \A k \in 1 .. i - 1 : path[k].id < path[i].id
  BY LenProperties, BudgetsAssumption DEF CompactionInv, BranchSound, Numbered
<1>2. leaf \in 0 .. Len(path) /\ leaf \in Nat /\ leaf <= target
  BY <1>1
<1>3. p \in Seq(BranchEntries) /\ Len(p) = leaf /\ \A i \in 1 .. leaf : p[i] = path[i]
  BY <1>1, <1>2, SubSeqProperties
<1>4. path' = Append(p, e)
  BY DEF Navigate
<1>5. e.id = created + 1 /\ e.type = "branch_summary" /\ e.covers = content /\ e \in BranchEntries
  <2>1. e = [id |-> created + 1, type |-> "branch_summary", size |-> 1, firstKept |-> 0, covers |-> content]
    BY DEF NewEntry
  <2>2. content \subseteq 1 .. created
    BY <1>1, BranchMessagesAreThere, ContentIsOlder DEF CompactionInv
  <2> HIDE DEF e, content
  <2> QED
    BY <1>1, <2>1, <2>2 DEF BranchEntries, SummaryTypes
<1> HIDE DEF e, p, content
<1>6. /\ path' \in Seq(BranchEntries) /\ Len(path') = leaf + 1 /\ DOMAIN path' = 1 .. leaf + 1
      /\ \A i \in 1 .. leaf : path'[i] = path[i]
      /\ path'[leaf + 1] = e
  BY <1>2, <1>3, <1>4, <1>5, AppendProperties, LenProperties
<1>7. Len(path') = IF path[target].type \in {"user", "custom_message"} THEN target ELSE target + 1
  BY <1>1, <1>6
<1> HIDE DEF leaf
<1>8. leaf + 1 \in BranchContext(path')
  <2> DEFINE c == PrevCompaction(path')
  <2>1. c \in 0 .. leaf + 1 /\ (c # 0 => path'[c].type = "compaction")
    <3>1. PrevCompaction(path') \in 0 .. Len(path')
      BY <1>6, PrevIsLast, Zenon
    <3>2. c # 0 => path'[c].type = "compaction"
      BY <1>6, PrevIsLast, Zenon
    <3> QED
      BY <1>6, <3>1, <3>2
  <2> HIDE DEF c
  <2>2. c # leaf + 1 /\ leaf + 1 \in DOMAIN path' /\ path'[leaf + 1].type = "branch_summary"
    BY <1>2, <1>5, <1>6, <2>1
  <2>3. leaf + 1 > c
    BY <1>2, <2>1, <2>2
  <2> DEFINE kept == {i \in 1 .. c - 1 : path'[i].id = path'[c].firstKept}
             shown == {i \in DOMAIN path' : path'[i].type \notin {"setting", "compaction"}}
  <2>4. BranchContext(path') = IF c = 0 THEN shown ELSE {c} \cup {i \in shown : i > c \/ \E k \in kept : k <= i}
    BY DEF BranchContext, c
  <2>5. leaf + 1 \in shown
    BY <2>2
  <2> HIDE DEF kept, shown
  <2> QED
    BY <2>3, <2>4, <2>5
<1>9. BranchContext(path') \subseteq 1 .. leaf + 1
  <2>1. PrevCompaction(path') # 0 => PrevCompaction(path') \in DOMAIN path'
    <3>1. PrevCompaction(path') \in 0 .. Len(path')
      BY <1>6, PrevIsLast, Zenon
    <3> QED
      BY <1>2, <1>6, <3>1
  <2> QED
    BY <1>6, <2>1 DEF BranchContext
<1>10. ASSUME NEW i \in Abandoned(path, target)
       PROVE  path[i].id \in KnownEntries(path') <=> path[i].id \in content
  <2>1. i \in 1 .. Len(path) /\ i > target
    BY <1>1, NewestAreTaken
  <2>2. ASSUME path[i].id \in content
        PROVE  path[i].id \in KnownEntries(path')
    BY <1>5, <1>6, <1>8, <2>2 DEF KnownEntries
  <2>3. ASSUME path[i].id \in KnownEntries(path')
        PROVE  path[i].id \in content
    <3>1. PICK k \in 1 .. leaf + 1 : path[i].id \in {path'[k].id} \cup path'[k].covers
      BY <1>9, <2>3 DEF KnownEntries
    <3>2. CASE k = leaf + 1
      <4>1. path[i].id # created + 1
        BY <1>1, <2>1
      <4> QED
        BY <1>5, <1>6, <3>1, <3>2, <4>1
    <3>3. CASE k # leaf + 1
      <4>1. k \in 1 .. leaf /\ k \in 1 .. i - 1 /\ k \in 1 .. Len(path) /\ path'[k] = path[k]
        BY <1>1, <1>2, <1>6, <2>1, <3>3
      <4>2. path[k].id < path[i].id /\ path[k].id \in Nat /\ path[k].covers \subseteq 1 .. path[k].id - 1
            /\ path[i].id \in Nat
        BY <1>1, <2>1, <4>1
      <4>3. path[i].id \notin {path[k].id} \cup path[k].covers
        BY <4>2
      <4> QED
        BY <3>1, <4>1, <4>3
    <3> QED
      BY <3>2, <3>3
  <2> QED
    BY <2>2, <2>3
<1> QED
  BY <1>7, <1>10 DEF content

\* NewestOfBranchKnown, for one step.
LEMMA NewestOfBranchKnownStep ==
  CompactionInv /\ [CompactionNext]_compactionVars =>
     (Navigates =>
        \E target \in DOMAIN path :
            LET said == Abandoned(path, target)
                known == {i \in said : path[i].id \in KnownEntries(path')}
                retold == {i \in said : \E k \in said : path[i].id \in path[k].covers}
            IN  /\ Len(path') = IF path[target].type \in {"user", "custom_message"} THEN target ELSE target + 1
                /\ \A i \in known \ retold, k \in said : k > i => k \in known
                /\ Tokens(path, said) <= BranchBudget => known = said
                /\ said # {} /\ path[Max(said)].size <= BranchBudget => Max(said) \in known)
<1> SUFFICES ASSUME CompactionInv, [CompactionNext]_compactionVars, Navigates
             PROVE  \E target \in DOMAIN path :
                        LET said == Abandoned(path, target)
                            known == {i \in said : path[i].id \in KnownEntries(path')}
                            retold == {i \in said : \E k \in said : path[i].id \in path[k].covers}
                        IN  /\ Len(path') = IF path[target].type \in {"user", "custom_message"}
                                               THEN target ELSE target + 1
                            /\ \A i \in known \ retold, k \in said : k > i => k \in known
                            /\ Tokens(path, said) <= BranchBudget => known = said
                            /\ said # {} /\ path[Max(said)].size <= BranchBudget => Max(said) \in known
  OBVIOUS
<1>1. PICK target \in DOMAIN path : Navigate(target, TRUE)
  BY OnlyNavigateNavigates
<1> DEFINE said == Abandoned(path, target)
           known == {i \in said : path[i].id \in KnownEntries(path')}
           retold == {i \in said : \E k \in said : path[i].id \in path[k].covers}
           taken == BranchMessages(path, target)
<1>2. /\ path \in Seq(BranchEntries) /\ Len(path) \in Nat /\ DOMAIN path = 1 .. Len(path)
      /\ \A i \in 1 .. Len(path) : path[i].id \in Nat /\ \A k \in 1 .. i - 1 : path[k].id < path[i].id
  BY LenProperties DEF CompactionInv, BranchSound, Numbered
<1>3. /\ Len(path') = IF path[target].type \in {"user", "custom_message"} THEN target ELSE target + 1
      /\ \A i \in said : path[i].id \in KnownEntries(path') <=> path[i].id \in Content(path, taken)
  BY <1>1, KnownAfterNavigation
<1>4. /\ said \subseteq 1 .. Len(path) /\ taken \subseteq said
      /\ \A i \in taken, k \in said : k > i => k \in taken
      /\ Tokens(path, said) <= BranchBudget => taken = said
      /\ said # {} /\ path[Max(said)].size <= BranchBudget => Max(said) \in taken
  BY <1>2, NewestAreTaken
<1>5. \A i \in said : Summarizable(path[i])
  BY DEF Abandoned, Summarizable
<1> HIDE DEF said, taken
<1>6. \A i \in taken : i \in known
  <2> TAKE i \in taken
  <2>1. path[i].id \in Content(path, taken)
    BY <1>4, <1>5 DEF Content
  <2> QED
    BY <1>3, <1>4, <2>1
<1>7. ASSUME NEW i \in known \ retold
      PROVE  i \in taken
  <2>1. i \in said /\ path[i].id \in Content(path, taken)
    BY <1>3, <1>7
  <2>2. PICK k \in taken : path[i].id \in {path[k].id} \cup path[k].covers
    BY <2>1 DEF Content
  <2>3. path[i].id = path[k].id
    BY <1>4, <1>7, <2>1, <2>2
  <2>4. i \in 1 .. Len(path) /\ k \in 1 .. Len(path)
    BY <1>4, <2>1, <2>2
  <2>5. i = k
    BY <1>2, <2>3, <2>4
  <2> QED
    BY <2>2, <2>5
<1>8. \A i \in known \ retold, k \in said : k > i => k \in known
  BY <1>4, <1>6, <1>7
<1>9. Tokens(path, said) <= BranchBudget => known = said
  BY <1>4, <1>6
<1>10. said # {} /\ path[Max(said)].size <= BranchBudget => Max(said) \in known
  BY <1>4, <1>6
<1> WITNESS target \in DOMAIN path
<1> QED
  BY <1>3, <1>8, <1>9, <1>10 DEF said

(* Leaving a branch with a summary, what was newest there is known later,  *)
(* and all of it when it fits the budget, for any estimates and budget.    *)
THEOREM NewestStaysKnown == CompactionSpec => NewestOfBranchKnown
BY CompactionInvariant, NewestOfBranchKnownStep, PTL DEF CompactionSpec, NewestOfBranchKnown

=============================================================================
