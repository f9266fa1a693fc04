---------------------------- MODULE SessionFile ----------------------------
(***************************************************************************)
(* How a session reaches the disk: the persistence of SessionManager       *)
(* (packages/coding-agent).  Every entry is appended to memory; the file is *)
(* not written before the session holds an assistant message, then all     *)
(* entries are, and from there on each as it comes.  The process may crash  *)
(* or a write fail between any two lines; sessions are reopened, replaced   *)
(* by new ones, branched off and copied.                                   *)
(*                                                                         *)
(* An entry is what the guards look at: a header, an assistant message or   *)
(* another entry, and a number of its own.  A file is the sequence of its   *)
(* well-formed lines, which is what loadEntriesFromFile reads of it, and    *)
(* whether it ends in a line that was cut off: the next line written is     *)
(* appended to the cut-off one and unreadable with it.  How entries hang    *)
(* together is SessionTree.                                                *)
(***************************************************************************)
EXTENDS Naturals, Sequences, Functions

CONSTANTS Files,       \* paths of session files
          Faults,      \* what may go wrong, a subset of AllFaults
          MaxEntries   \* bound: entries and headers made in a behaviour

AllFaults ==
  {"crash",          \* the process ends between two operations
   "crashInWrite",   \* it ends within an append, after some of its lines
   "writeFails",     \* a line cannot be written: the append throws, the process goes on
   "torn",           \* the line that ends an interrupted append is cut off
   "emptyFile"}      \* a session file is empty when it is opened

ASSUME FileAssumption == Faults \subseteq AllFaults /\ MaxEntries \in Nat \ {0}

VARIABLES fileEntries,  \* the entries in memory, the header first
          flushed,      \* has everything in memory been written?
          sessionFile,  \* the session's file
          disk,         \* path -> file, for the files there are
          up,           \* is the process running?
          made,         \* how many entries and headers were made
          acked,        \* the <<file, entry>> a caller takes to be saved
          failed,       \* the entries whose append threw
          occurred      \* the faults there were so far

vars == <<fileEntries, flushed, sessionFile, disk, up, made, acked, failed, occurred>>

Kinds == {"header", "assistant", "other"}
FileEntry == [kind : Kinds, n : Nat]
TextFile == [text : Seq(FileEntry), torn : BOOLEAN]

Empty == [text |-> <<>>, torn |-> FALSE]

Header(n) == [kind |-> "header", n |-> n]
HasAssistant(s) == \E i \in DOMAIN s : s[i].kind = "assistant"

\* loadEntriesFromFile: nothing, unless the first entry is a header.
Load(file) ==
  IF file.text # <<>> /\ Head(file.text).kind = "header" THEN file.text ELSE <<>>

\* The faults of a step.
Fault(kinds) ==
  /\ kinds \subseteq Faults
  /\ occurred' = occurred \union kinds

Contents(f) == IF f \in DOMAIN disk THEN disk[f] ELSE Empty
Put(f, file) == [g \in DOMAIN disk \union {f} |-> IF g = f THEN file ELSE disk[g]]

\* appendFileSync, once for each of the lines.
WithLines(file, lines) ==
  IF lines = <<>>
    THEN file
    ELSE [text |-> file.text \o (IF file.torn THEN Tail(lines) ELSE lines), torn |-> FALSE]

Init ==
  /\ fileEntries = <<Header(1)>>
  /\ flushed = FALSE
  /\ sessionFile \in Files
  /\ disk = [f \in {} |-> Empty]
  /\ up = TRUE
  /\ made = 1
  /\ acked = {}
  /\ failed = {}
  /\ occurred = {}

-----------------------------------------------------------------------------
(* Appending: _appendEntry and _persist.                                   *)

\* Mutant: only the new entry is ever written.
NewEntryOnly(after) == <<after[Len(after)]>>

\* The lines _persist appends: everything at first, the new entry from then on.
Lines(after) == IF flushed THEN <<after[Len(after)]>> ELSE after

\* Mutant: the file is written from the first entry on.
Always(after) == TRUE

\* _persist writes nothing before there is an assistant message.
MayWrite(after) == HasAssistant(after)

\* The entries whose append returned, or that were read from a file.
Returned(s) == {i \in DOMAIN s : s[i] \notin failed}

AppendEntry(kind) ==
  LET after == Append(fileEntries, [kind |-> kind, n |-> made + 1])
      lines == Lines(after)
  IN  /\ up
      /\ made < MaxEntries
      /\ made' = made + 1
      /\ fileEntries' = after
      /\ IF MayWrite(after)
           THEN /\ disk' = Put(sessionFile, WithLines(Contents(sessionFile), lines))
                /\ flushed' = TRUE
                /\ acked' = acked \union {<<sessionFile, after[i]>> : i \in Returned(after)}
           ELSE /\ flushed' = FALSE
                /\ UNCHANGED <<disk, acked>>
      /\ UNCHANGED <<sessionFile, up, failed, occurred>>

\* What an append that is interrupted after k of its lines leaves of the file.
CutOff(lines, k, torn) ==
  IF k = 0 /\ ~torn
    THEN disk
    ELSE Put(sessionFile, [WithLines(Contents(sessionFile), SubSeq(lines, 1, k)) EXCEPT !.torn = torn \/ @])

\* Mutant: the entries count as written before they are.
AppendFailsFlushed(kind, k, torn) ==
  LET after == Append(fileEntries, [kind |-> kind, n |-> made + 1])
  IN  /\ Fault({"writeFails"} \union IF torn THEN {"torn"} ELSE {})
      /\ up
      /\ made < MaxEntries
      /\ MayWrite(after)
      /\ k < Len(Lines(after))
      /\ made' = made + 1
      /\ fileEntries' = after
      /\ failed' = failed \union {after[Len(after)]}
      /\ disk' = CutOff(Lines(after), k, torn)
      /\ flushed' = TRUE
      /\ UNCHANGED <<sessionFile, up, acked>>

\* The entry stays in memory, whether written or not, and flushed as it was.
AppendFails(kind, k, torn) ==
  LET after == Append(fileEntries, [kind |-> kind, n |-> made + 1])
  IN  /\ Fault({"writeFails"} \union IF torn THEN {"torn"} ELSE {})
      /\ up
      /\ made < MaxEntries
      /\ MayWrite(after)
      /\ k < Len(Lines(after))
      /\ made' = made + 1
      /\ fileEntries' = after
      /\ failed' = failed \union {after[Len(after)]}
      /\ disk' = CutOff(Lines(after), k, torn)
      /\ UNCHANGED <<flushed, sessionFile, up, acked>>

Down ==
  /\ up' = FALSE
  /\ fileEntries' = <<>>
  /\ flushed' = FALSE
  /\ UNCHANGED sessionFile

AppendCrashes(kind, k, torn) ==
  LET after == Append(fileEntries, [kind |-> kind, n |-> made + 1])
  IN  /\ Fault({"crashInWrite"} \union IF torn THEN {"torn"} ELSE {})
      /\ up
      /\ made < MaxEntries
      /\ MayWrite(after)
      /\ k < Len(Lines(after))
      /\ made' = made + 1
      /\ disk' = CutOff(Lines(after), k, torn)
      /\ Down
      /\ UNCHANGED <<acked, failed>>

Crash ==
  /\ Fault({"crash"})
  /\ up
  /\ Down
  /\ UNCHANGED <<disk, made, acked, failed>>

-----------------------------------------------------------------------------
(* Other sessions.                                                         *)

\* A path made of a random id: no file has it, and no session is using it.
Fresh(f) == f \notin DOMAIN disk /\ f # sessionFile

\* newSession, also the constructor's and setSessionFile's when there is no such
\* file: nothing is written yet.
NewSession(f) ==
  /\ Fresh(f)
  /\ made < MaxEntries
  /\ made' = made + 1
  /\ fileEntries' = <<Header(made + 1)>>
  /\ flushed' = FALSE
  /\ sessionFile' = f
  /\ up' = TRUE
  /\ UNCHANGED <<disk, acked, failed, occurred>>

\* setSessionFile on a file that has a header; open() and continueRecent() start here.
Open(f) ==
  /\ f \in DOMAIN disk
  /\ Load(disk[f]) # <<>>
  /\ fileEntries' = Load(disk[f])
  /\ flushed' = TRUE
  /\ sessionFile' = f
  /\ up' = TRUE
  /\ UNCHANGED <<disk, made, acked, failed, occurred>>

\* Mutant: a file without an assistant message counts as empty.
OpenUnanswered(f) ==
  /\ f \in DOMAIN disk
  /\ ~HasAssistant(Load(disk[f]))
  /\ made < MaxEntries
  /\ made' = made + 1
  /\ fileEntries' = <<Header(made + 1)>>
  /\ disk' = Put(f, [text |-> <<Header(made + 1)>>, torn |-> FALSE])
  /\ flushed' = TRUE
  /\ sessionFile' = f
  /\ up' = TRUE
  /\ UNCHANGED <<acked, failed, occurred>>

\* setSessionFile on an empty or headless file: it is written anew with a header.
OpenInvalid(f) ==
  /\ f \in DOMAIN disk
  /\ Load(disk[f]) = <<>>
  /\ made < MaxEntries
  /\ made' = made + 1
  /\ fileEntries' = <<Header(made + 1)>>
  /\ disk' = Put(f, [text |-> <<Header(made + 1)>>, torn |-> FALSE])
  /\ flushed' = TRUE
  /\ sessionFile' = f
  /\ up' = TRUE
  /\ UNCHANGED <<acked, failed, occurred>>

\* The user creates the file to be opened.
MakeEmptyFile(f) ==
  /\ Fault({"emptyFile"})
  /\ Fresh(f)
  /\ disk' = Put(f, Empty)
  /\ UNCHANGED <<fileEntries, flushed, sessionFile, up, made, acked, failed>>

\* Entries of s, headers apart, in their order: at holds their places.
Entries(s) == {i \in DOMAIN s : s[i].kind # "header"}
InOrder(s, at) ==
  /\ at \in Seq(Entries(s))
  /\ \A i, j \in DOMAIN at : i < j => at[i] < at[j]
Selected(s, at) == [i \in 1..Len(at) |-> s[at[i]]]
FirstPlaces(s) == {i \in Entries(s) : \A j \in Entries(s) : s[j] = s[i] => i <= j}
Places(s, S) == SelectSeq([i \in DOMAIN s |-> i], LAMBDA i : i \in S)

\* createBranchedSession writes the new file if it holds an assistant message.
WriteBranch(s) == HasAssistant(s)

\* createBranchedSession: a path of the session goes on in a file of its own.
CreateBranchedSession(f, at) ==
  LET branch == <<Header(made + 1)>> \o Selected(fileEntries, at)
  IN  /\ up
      /\ Fresh(f)
      /\ made < MaxEntries
      /\ InOrder(fileEntries, at) /\ at # <<>>
      /\ \A i, j \in DOMAIN at : fileEntries[at[i]] = fileEntries[at[j]] => i = j
      /\ made' = made + 1
      /\ fileEntries' = branch
      /\ sessionFile' = f
      /\ flushed' = WriteBranch(branch)
      /\ IF WriteBranch(branch)
           THEN /\ disk' = Put(f, [text |-> branch, torn |-> FALSE])
                /\ acked' = acked \union {<<f, branch[i]>> : i \in DOMAIN branch}
           ELSE UNCHANGED <<disk, acked>>
      /\ UNCHANGED <<up, failed, occurred>>

\* forkFrom: a copy of the entries of a session's file under a new header is opened.
ForkFrom(source, f, at) ==
  LET copy == <<Header(made + 1)>> \o Selected(Load(disk[source]), at)
  IN  /\ source \in DOMAIN disk
      /\ Load(disk[source]) # <<>>
      /\ Fresh(f)
      /\ made < MaxEntries
      /\ InOrder(Load(disk[source]), at)
      /\ Range(at) = Entries(Load(disk[source]))
      /\ made' = made + 1
      /\ disk' = Put(f, [text |-> copy, torn |-> FALSE])
      /\ fileEntries' = copy
      /\ flushed' = TRUE
      /\ sessionFile' = f
      /\ up' = TRUE
      /\ acked' = acked \union {<<f, copy[i]>> : i \in DOMAIN copy}
      /\ UNCHANGED <<failed, occurred>>

Interrupted(kind, k, torn) == AppendFails(kind, k, torn) \/ AppendCrashes(kind, k, torn)

Next ==
  \/ \E kind \in {"assistant", "other"} :
       \/ AppendEntry(kind)
       \/ \E k \in 0..MaxEntries, torn \in BOOLEAN : Interrupted(kind, k, torn)
  \/ Crash
  \/ \E f \in Files :
       \/ NewSession(f)
       \/ Open(f)
       \/ OpenInvalid(f)
       \/ MakeEmptyFile(f)
       \/ \E path \in SUBSET FirstPlaces(fileEntries) :
            CreateBranchedSession(f, Places(fileEntries, path))
       \/ \E source \in DOMAIN disk :
            ForkFrom(source, f, Places(Load(disk[source]), Entries(Load(disk[source]))))

Spec == Init /\ [][Next]_vars

-----------------------------------------------------------------------------
(* What must hold.                                                         *)

\* Types of the variables.
TypeOK ==
  /\ fileEntries \in Seq(FileEntry)
  /\ flushed \in BOOLEAN
  /\ sessionFile \in Files
  /\ DOMAIN disk \subseteq Files /\ disk \in [DOMAIN disk -> TextFile]
  /\ up \in BOOLEAN
  /\ made \in 0..MaxEntries
  /\ acked \subseteq Files \X FileEntry
  /\ failed \subseteq FileEntry
  /\ occurred \subseteq Faults

\* Once the session holds an assistant message, reading its file back gives what is
\* in memory, entry by entry: resuming a session goes on where it was left, however
\* it was created, reopened or branched off (while no write was interrupted and no
\* empty file was opened).
DiskMatchesMemory ==
  occurred \subseteq {"crash"} /\ up /\ HasAssistant(fileEntries) =>
    sessionFile \in DOMAIN disk /\ Load(disk[sessionFile]) = fileEntries

\* Every session file is one worth resuming: it starts with its header, it has no
\* other, and it holds an assistant message (under the same condition).
FilesAreSessions ==
  occurred \subseteq {"crash"} => \A f \in DOMAIN disk :
    /\ Load(disk[f]) # <<>>
    /\ \A i \in DOMAIN disk[f].text : disk[f].text[i].kind = "header" => i = 1
    /\ HasAssistant(disk[f].text)

\* From the first assistant message on, whatever was appended without an error is read
\* back by whoever opens the file later, even if other appends fail or crash half-way
\* and the session is reopened in between (until a line is cut off).
AckedIsKept ==
  "torn" \notin occurred => \A written \in acked :
    written[1] \in DOMAIN disk /\ written[2] \in Range(Load(disk[written[1]]))

\* What is in memory and on disk are sessions: of the right shape, and each file worth
\* resuming.
StoreHoldsSessions == TypeOK /\ FilesAreSessions

\* A session file only grows: whatever fails, no step takes back or reorders entries
\* that could be read before it.
DiskAppendOnly ==
  [][\A f \in DOMAIN disk :
       /\ f \in DOMAIN disk'
       /\ Len(Load(disk[f])) <= Len(Load(disk'[f]))
       /\ SubSeq(Load(disk'[f]), 1, Len(Load(disk[f]))) = Load(disk[f])]_vars

\* A session file has one header: the no-assistant guard of _persist, which resets
\* flushed, does not have it written twice.  It does not hold when an empty file was
\* opened; FilesAreSessions is what does.
OneHeader ==
  \A f \in DOMAIN disk : \A i, j \in DOMAIN disk[f].text :
    disk[f].text[i].kind = "header" /\ disk[f].text[j].kind = "header" => i = j
=============================================================================
