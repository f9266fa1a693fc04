------------------------- MODULE SessionFileProofs -------------------------
(***************************************************************************)
(* What SessionFile promises, for any files, faults and number of entries:  *)
(* files only grow, memory and file agree as long as no write is            *)
(* interrupted, and what was acknowledged is read back.                     *)
(***************************************************************************)
EXTENDS SessionFile, SequenceTheorems, TLAPS

-----------------------------------------------------------------------------
(* The invariant.                                                          *)

\* A session in memory starts with its header.
StartsWithHeader == up => fileEntries # <<>> /\ Head(fileEntries).kind = "header"

\* While no write was interrupted: flushed says whether the session has an answer,
\* and its file is there, and what is in memory, exactly then.
InStep ==
  occurred \subseteq {"crash"} =>
    /\ \A f \in DOMAIN disk : ~disk[f].torn
    /\ up => /\ \A i \in DOMAIN fileEntries : fileEntries[i].kind = "header" => i = 1
             /\ (HasAssistant(fileEntries) <=> flushed)
             /\ (sessionFile \in DOMAIN disk <=> flushed)
             /\ flushed => disk[sessionFile].text = fileEntries

\* While no line was cut off: what is in a file is read back, and what is in memory
\* and was appended without an error is in the file once it is flushed.
Sound(file) == ~file.torn /\ Load(file) = file.text

Readable ==
  "torn" \notin occurred =>
    /\ \A f \in DOMAIN disk : Sound(disk[f])
    /\ \A e \in failed : e.kind # "header"
    /\ up /\ flushed =>
         /\ sessionFile \in DOMAIN disk
         /\ \A i \in Returned(fileEntries) : fileEntries[i] \in Range(disk[sessionFile].text)

Inv == TypeOK /\ StartsWithHeader /\ InStep /\ FilesAreSessions /\ Readable /\ AckedIsKept

-----------------------------------------------------------------------------
(* Files and what is written to them.                                      *)

GoesOnAs(file, new) == \E rest \in Seq(FileEntry) : new.text = file.text \o rest

\* Lines come after what can be read of a file; they come whole unless it is torn.
LEMMA WithLinesGrows ==
  ASSUME NEW file \in TextFile, NEW lines \in Seq(FileEntry)
  PROVE  /\ WithLines(file, lines) \in TextFile
         /\ GoesOnAs(file, WithLines(file, lines))
         /\ ~file.torn => WithLines(file, lines).text = file.text \o lines /\ ~WithLines(file, lines).torn
<1>1. file.text \in Seq(FileEntry) /\ file.torn \in BOOLEAN
  BY DEF TextFile
<1>2. CASE lines = <<>>
  <2>1. file.text \o <<>> = file.text /\ <<>> \in Seq(FileEntry)
    BY <1>1, ConcatEmptySeq, EmptySeq
  <2>2. WithLines(file, lines) = file
    BY <1>2 DEF WithLines
  <2>3. QED
    BY <1>2, <2>1, <2>2 DEF GoesOnAs
<1>3. CASE lines # <<>>
  <2> DEFINE rest == IF file.torn THEN Tail(lines) ELSE lines
  <2>1. rest \in Seq(FileEntry)
    BY <1>3, HeadTailProperties
  <2>2. WithLines(file, lines) = [text |-> file.text \o rest, torn |-> FALSE]
    BY <1>3 DEF WithLines
  <2>3. file.text \o rest \in Seq(FileEntry)
    BY <1>1, <2>1, ConcatProperties
  <2>4. WithLines(file, lines).text = file.text \o rest /\ ~WithLines(file, lines).torn
    <3> HIDE DEF rest
    <3>1. WithLines(file, lines).text = file.text \o rest
      BY <2>2
    <3>2. ~WithLines(file, lines).torn
      BY <2>2
    <3>3. QED
      BY <3>1, <3>2
  <2>5. WithLines(file, lines) \in TextFile
    BY <2>2, <2>3 DEF TextFile
  <2>6. GoesOnAs(file, WithLines(file, lines))
    BY <2>1, <2>4 DEF GoesOnAs
  <2>7. ~file.torn => rest = lines
    OBVIOUS
  <2>8. QED
    BY <2>4, <2>5, <2>6, <2>7
<1>4. QED
  BY <1>2, <1>3

\* What can be read of a file stays readable, at its place, when lines are added.
LEMMA LoadGrows ==
  ASSUME NEW file \in TextFile, NEW new \in TextFile, GoesOnAs(file, new)
  PROVE  /\ Len(Load(file)) <= Len(Load(new))
         /\ SubSeq(Load(new), 1, Len(Load(file))) = Load(file)
         /\ Range(Load(file)) \subseteq Range(Load(new))
<1> DEFINE t == file.text
<1>1. t \in Seq(FileEntry) /\ new.text \in Seq(FileEntry)
  BY DEF TextFile
<1>2. PICK rest \in Seq(FileEntry) : new.text = t \o rest
  BY DEF GoesOnAs
<1>3. CASE Load(file) = <<>>
  <2>1. Len(Load(file)) = 0 /\ Range(Load(file)) = {}
    BY <1>3 DEF Range
  <2>2. Load(new) \in Seq(FileEntry)
    BY <1>1, EmptySeq DEF Load
  <2>3. SubSeq(Load(new), 1, 0) = <<>>
    BY SubSeqEmpty
  <2>4. QED
    BY <1>3, <2>1, <2>2, <2>3, LenProperties
<1>4. CASE Load(file) # <<>>
  <2>1. t # <<>> /\ Head(t).kind = "header" /\ Load(file) = t
    BY <1>4 DEF Load
  <2>2. Len(t) \in Nat /\ Len(rest) \in Nat /\ Len(t) >= 1
    BY <1>1, <2>1, LenProperties, EmptySeq
  <2>3. /\ Len(new.text) = Len(t) + Len(rest)
        /\ \A i \in 1..Len(t) + Len(rest) : new.text[i] = IF i <= Len(t) THEN t[i] ELSE rest[i - Len(t)]
    BY <1>1, <1>2, ConcatProperties
  <2>4. new.text # <<>> /\ Head(new.text) = Head(t)
    BY <1>1, <2>1, <2>2, <2>3
  <2>5. Load(new) = new.text
    BY <2>1, <2>4 DEF Load
  <2>6. Len(t) \in 1..Len(t) /\ 1 \in 1..Len(t)
    BY <2>2
  <2>7. SubSeq(t \o rest, 1, Len(t)) = SubSeq(t, 1, Len(t))
    BY <1>1, <2>6, SubSeqOfConcat1
  <2>8. SubSeq(t, 1, Len(t)) = t
    BY <1>1, SubSeqFull
  <2>9. Range(t) \subseteq Range(new.text)
    <3>1. DOMAIN t = 1..Len(t) /\ DOMAIN new.text = 1..Len(new.text)
      BY <1>1, LenProperties
    <3>2. \A i \in 1..Len(t) : i \in 1..Len(new.text) /\ new.text[i] = t[i]
      BY <2>2, <2>3
    <3>3. QED
      BY <3>1, <3>2 DEF Range
  <2>10. QED
    BY <1>2, <2>1, <2>2, <2>3, <2>5, <2>7, <2>8, <2>9
<1>5. QED
  BY <1>3, <1>4

DiskTyped(d) == DOMAIN d \subseteq Files /\ d \in [DOMAIN d -> TextFile]

\* One file is put in its place.
LEMMA PutTyped ==
  ASSUME TypeOK, NEW f \in Files, NEW file \in TextFile
  PROVE  /\ DiskTyped(Put(f, file))
         /\ DOMAIN Put(f, file) = DOMAIN disk \union {f}
         /\ Put(f, file)[f] = file
         /\ \A g \in DOMAIN disk : g # f => Put(f, file)[g] = disk[g]
BY DEF TypeOK, DiskTyped, Put

\* The file of the session is typed, whether it is there or not.
LEMMA ContentsTyped == TypeOK => Contents(sessionFile) \in TextFile
BY EmptySeq DEF TypeOK, Contents, Empty, TextFile

\* What an interrupted append leaves: the files that were there, of which the
\* session's may have more lines.
LEMMA CutOffTyped ==
  ASSUME TypeOK, NEW lines \in Seq(FileEntry), NEW k \in Nat, k < Len(lines), NEW torn \in BOOLEAN
  PROVE  /\ DiskTyped(CutOff(lines, k, torn))
         /\ \A f \in DOMAIN disk : f \in DOMAIN CutOff(lines, k, torn) /\ GoesOnAs(disk[f], CutOff(lines, k, torn)[f])
<1> DEFINE first == SubSeq(lines, 1, k)
           w == WithLines(Contents(sessionFile), first)
           file == [w EXCEPT !.torn = torn \/ @]
<1>1. \A f \in DOMAIN disk : GoesOnAs(disk[f], disk[f])
  <2>1. \A f \in DOMAIN disk : disk[f].text \in Seq(FileEntry)
    BY DEF TypeOK, TextFile
  <2>2. QED
    BY <2>1, ConcatEmptySeq, EmptySeq DEF GoesOnAs
<1>2. CASE k = 0 /\ ~torn
  <2>1. CutOff(lines, k, torn) = disk
    BY <1>2 DEF CutOff
  <2>2. QED
    BY <1>1, <2>1 DEF DiskTyped, TypeOK
<1>3. CASE ~(k = 0 /\ ~torn)
  <2>1. first \in Seq(FileEntry)
    BY LenProperties, SubSeqProperties
  <2>2. w \in TextFile /\ GoesOnAs(Contents(sessionFile), w)
    BY <2>1, ContentsTyped, WithLinesGrows
  <2>3. w = [text |-> w.text, torn |-> w.torn] /\ w.text \in Seq(FileEntry) /\ w.torn \in BOOLEAN
    BY <2>2 DEF TextFile
  <2>4. file.text = w.text /\ file \in TextFile
    <3> HIDE DEF w
    <3>1. QED
      BY <2>3 DEF TextFile
  <2>5. CutOff(lines, k, torn) = Put(sessionFile, file)
    BY <1>3 DEF CutOff
  <2>6. sessionFile \in Files
    BY DEF TypeOK
  <2>7. GoesOnAs(Contents(sessionFile), file)
    BY <2>2, <2>4 DEF GoesOnAs
  <2>8. \A f \in DOMAIN disk : f \in DOMAIN Put(sessionFile, file) /\ GoesOnAs(disk[f], Put(sessionFile, file)[f])
    <3> HIDE DEF file
    <3> SUFFICES ASSUME NEW f \in DOMAIN disk
                 PROVE  f \in DOMAIN Put(sessionFile, file) /\ GoesOnAs(disk[f], Put(sessionFile, file)[f])
      OBVIOUS
    <3>1. /\ DOMAIN Put(sessionFile, file) = DOMAIN disk \union {sessionFile}
          /\ Put(sessionFile, file)[sessionFile] = file
          /\ f # sessionFile => Put(sessionFile, file)[f] = disk[f]
      BY <2>4, <2>6, PutTyped
    <3>2. f = sessionFile => Contents(sessionFile) = disk[f]
      BY DEF Contents
    <3>3. QED
      BY <1>1, <2>7, <3>1, <3>2
  <2>9. DiskTyped(Put(sessionFile, file))
    <3> HIDE DEF file
    <3>1. QED
      BY <2>4, <2>6, PutTyped
  <2>10. QED
    BY <2>5, <2>8, <2>9
<1>4. QED
  BY <1>2, <1>3

-----------------------------------------------------------------------------
(* Entries.                                                                *)

\* An entry more, and the lines an append writes of it.
LEMMA AfterTyped ==
  ASSUME TypeOK, made < MaxEntries, NEW kind \in {"assistant", "other"}, NEW after,
         after = Append(fileEntries, [kind |-> kind, n |-> made + 1])
  PROVE  /\ after \in Seq(FileEntry) /\ after # <<>> /\ DOMAIN after = 1..Len(after)
         /\ Len(after) = Len(fileEntries) + 1 /\ Len(fileEntries) \in Nat
         /\ DOMAIN fileEntries = 1..Len(fileEntries)
         /\ \A i \in 1..Len(fileEntries) : after[i] = fileEntries[i]
         /\ after[Len(after)] = [kind |-> kind, n |-> made + 1]
         /\ after[Len(after)] \in FileEntry
         /\ Lines(after) \in Seq(FileEntry) /\ Lines(after) # <<>>
<1>1. made + 1 \in Nat /\ kind \in Kinds /\ fileEntries \in Seq(FileEntry)
  BY FileAssumption DEF TypeOK, Kinds
<1>2. [kind |-> kind, n |-> made + 1] \in FileEntry
  BY <1>1 DEF FileEntry
<1>3. /\ after \in Seq(FileEntry) /\ after # <<>> /\ DOMAIN after = 1..Len(after)
      /\ Len(after) = Len(fileEntries) + 1 /\ Len(fileEntries) \in Nat
      /\ DOMAIN fileEntries = 1..Len(fileEntries)
      /\ \A i \in 1..Len(fileEntries) : after[i] = fileEntries[i]
      /\ after[Len(after)] = [kind |-> kind, n |-> made + 1]
  BY <1>1, <1>2
<1>4. <<after[Len(after)]>> \in Seq(FileEntry) /\ <<after[Len(after)]>> # <<>>
  BY <1>2, <1>3
<1>5. QED
  BY <1>2, <1>3, <1>4 DEF Lines

\* An entry in front of others.
LEMMA OneMore ==
  ASSUME NEW e \in FileEntry, NEW t \in Seq(FileEntry)
  PROVE  /\ <<e>> \o t \in Seq(FileEntry) /\ Len(<<e>> \o t) = 1 + Len(t) /\ (<<e>> \o t)[1] = e
         /\ \A i \in 1..Len(t) : (<<e>> \o t)[i + 1] = t[i]
<1>1. <<e>> \in Seq(FileEntry) /\ Len(<<e>>) = 1 /\ <<e>>[1] = e /\ Len(t) \in Nat
  BY LenProperties
<1> DEFINE h == <<e>>
<1> HIDE DEF h
<1>2. h \in Seq(FileEntry) /\ Len(h) = 1 /\ h[1] = e
  BY <1>1 DEF h
<1>3. /\ h \o t \in Seq(FileEntry) /\ Len(h \o t) = Len(h) + Len(t)
      /\ \A i \in 1..Len(h) + Len(t) : (h \o t)[i] = IF i <= Len(h) THEN h[i] ELSE t[i - Len(h)]
  BY <1>2, ConcatProperties
<1>4. /\ h \o t \in Seq(FileEntry) /\ Len(h \o t) = 1 + Len(t) /\ (h \o t)[1] = e
      /\ \A i \in 1..Len(t) : (h \o t)[i + 1] = t[i]
  BY <1>1, <1>2, <1>3
<1>5. QED
  BY <1>4 DEF h

\* A session of a header and some entries of another.
Copy(m, s, at) == <<Header(m)>> \o Selected(s, at)

CopyShape(copy, s, at) ==
  /\ copy \in Seq(FileEntry) /\ copy # <<>> /\ DOMAIN copy = 1..Len(copy)
  /\ at \in Seq(Entries(s)) /\ Len(at) \in Nat /\ Len(copy) = Len(at) + 1
  /\ \A i \in 1..Len(at) : at[i] \in Entries(s) /\ copy[i + 1] = s[at[i]]
  /\ \A i \in DOMAIN copy : copy[i].kind = "header" => i = 1
  /\ Head(copy).kind = "header"

\* It has the one header, and every entry of it is one of the other.
LEMMA CopyTyped ==
  ASSUME NEW s \in Seq(FileEntry), NEW at, InOrder(s, at), NEW m \in Nat, NEW copy,
         copy = Copy(m, s, at)
  PROVE  CopyShape(copy, s, at)
<1> DEFINE sel == Selected(s, at)
<1>1. at \in Seq(Entries(s)) /\ Len(at) \in Nat
  BY LenProperties DEF InOrder
<1>2. \A i \in 1..Len(at) : at[i] \in Entries(s)
  BY <1>1, ElementOfSeq
<1>3. \A i \in 1..Len(at) : s[at[i]] \in FileEntry /\ s[at[i]].kind # "header"
  BY <1>2 DEF Entries
<1>4. sel \in Seq(FileEntry) /\ Len(sel) = Len(at) /\ \A i \in 1..Len(at) : sel[i] = s[at[i]]
  BY <1>1, <1>3 DEF Selected
<1>5. Header(m) \in FileEntry /\ Header(m).kind = "header"
  BY DEF Header, FileEntry, Kinds
<1>7. /\ copy \in Seq(FileEntry) /\ Len(copy) = 1 + Len(at) /\ copy[1] = Header(m)
      /\ \A i \in 1..Len(at) : copy[i + 1] = sel[i]
  <2> HIDE DEF sel
  <2>1. PICK e \in FileEntry : e = Header(m)
    BY <1>5
  <2>2. copy = <<e>> \o sel
    BY <2>1 DEF sel, Copy
  <2>3. /\ <<e>> \o sel \in Seq(FileEntry) /\ Len(<<e>> \o sel) = 1 + Len(sel) /\ (<<e>> \o sel)[1] = e
        /\ \A i \in 1..Len(sel) : (<<e>> \o sel)[i + 1] = sel[i]
    BY <1>4, OneMore
  <2>4. QED
    BY <1>4, <2>1, <2>2, <2>3
<1>8. DOMAIN copy = 1..Len(copy)
  BY <1>7, LenProperties
<1>9. copy[1] = Header(m) /\ \A i \in 1..Len(at) : copy[i + 1] = s[at[i]]
  BY <1>1, <1>4, <1>7
<1>10. copy # <<>> /\ Head(copy) = copy[1]
  BY <1>1, <1>7
<1>11. \A i \in DOMAIN copy : copy[i].kind = "header" => i = 1
  <2> SUFFICES ASSUME NEW i \in DOMAIN copy, i # 1
               PROVE  copy[i].kind # "header"
    OBVIOUS
  <2>1. i - 1 \in 1..Len(at) /\ (i - 1) + 1 = i
    BY <1>1, <1>7, <1>8
  <2>2. copy[i] = s[at[i - 1]]
    BY <1>9, <2>1
  <2>3. QED
    BY <1>3, <2>1, <2>2
<1>12. QED
  BY <1>1, <1>2, <1>5, <1>7, <1>8, <1>9, <1>10, <1>11 DEF CopyShape

-----------------------------------------------------------------------------
(* Steps: types, and files that only grow.                                 *)

Grown ==
  \A f \in DOMAIN disk : f \in DOMAIN disk' /\ (GoesOnAs(disk[f], disk'[f]) \/ Load(disk[f]) = <<>>)

\* A file that stays as it is goes on as itself.
LEMMA StaysAsIs == TypeOK => \A f \in DOMAIN disk : GoesOnAs(disk[f], disk[f])
<1> SUFFICES ASSUME TypeOK, NEW f \in DOMAIN disk
             PROVE  GoesOnAs(disk[f], disk[f])
  OBVIOUS
<1>1. disk[f].text \in Seq(FileEntry)
  BY DEF TypeOK, TextFile
<1>2. QED
  BY <1>1, ConcatEmptySeq, EmptySeq DEF GoesOnAs

\* A file that is put where none was, or none that can be read, takes nothing back.
LEMMA PutGrows ==
  ASSUME TypeOK, NEW f \in Files, NEW file \in TextFile, disk' = Put(f, file),
         f \in DOMAIN disk => GoesOnAs(disk[f], file) \/ Load(disk[f]) = <<>>
  PROVE  DiskTyped(disk') /\ Grown
<1>1. /\ DiskTyped(disk') /\ DOMAIN disk' = DOMAIN disk \union {f} /\ disk'[f] = file
      /\ \A g \in DOMAIN disk : g # f => disk'[g] = disk[g]
  BY PutTyped
<1>2. QED
  BY <1>1, StaysAsIs DEF Grown

\* No step takes back what is in a file that can be read.
LEMMA DiskStep == TypeOK /\ [Next]_vars => DiskTyped(disk') /\ Grown
<1> SUFFICES ASSUME TypeOK, [Next]_vars
             PROVE  DiskTyped(disk') /\ Grown
  OBVIOUS
<1> DEFINE after(kind) == Append(fileEntries, [kind |-> kind, n |-> made + 1])
<1>1. CASE UNCHANGED disk
  BY <1>1, StaysAsIs DEF Grown, DiskTyped, TypeOK
<1>2. ASSUME NEW kind \in {"assistant", "other"}, AppendEntry(kind)
      PROVE  DiskTyped(disk') /\ Grown
  <2>1. CASE disk' = disk
    BY <1>1, <2>1
  <2>2. CASE disk' = Put(sessionFile, WithLines(Contents(sessionFile), Lines(after(kind))))
    <3> DEFINE file == WithLines(Contents(sessionFile), Lines(after(kind)))
    <3>1. made < MaxEntries
      BY <1>2 DEF AppendEntry
    <3>2. Lines(after(kind)) \in Seq(FileEntry)
      BY <3>1, AfterTyped
    <3>3. file \in TextFile /\ GoesOnAs(Contents(sessionFile), file)
      BY <3>2, ContentsTyped, WithLinesGrows
    <3>4. sessionFile \in Files /\ (sessionFile \in DOMAIN disk => Contents(sessionFile) = disk[sessionFile])
      BY DEF TypeOK, Contents
    <3> HIDE DEF file
    <3>5. disk' = Put(sessionFile, file)
      BY <2>2 DEF file
    <3>6. QED
      BY <3>3, <3>4, <3>5, PutGrows
  <2>3. QED
    BY <1>2, <2>1, <2>2 DEF AppendEntry
<1>3. ASSUME NEW kind \in {"assistant", "other"}, NEW k \in 0..MaxEntries, NEW torn \in BOOLEAN,
             Interrupted(kind, k, torn)
      PROVE  DiskTyped(disk') /\ Grown
  <2>1. /\ made < MaxEntries /\ k < Len(Lines(after(kind)))
        /\ disk' = CutOff(Lines(after(kind)), k, torn)
    BY <1>3 DEF Interrupted, AppendFails, AppendCrashes
  <2>2. Lines(after(kind)) \in Seq(FileEntry)
    BY <2>1, AfterTyped
  <2>3. k \in Nat
    BY FileAssumption
  <2> HIDE DEF after
  <2>4. QED
    BY <2>1, <2>2, <2>3, CutOffTyped DEF Grown
<1>4. ASSUME NEW f \in Files, OpenInvalid(f)
      PROVE  DiskTyped(disk') /\ Grown
  <2> DEFINE file == [text |-> <<Header(made + 1)>>, torn |-> FALSE]
  <2>1. Header(made + 1) \in FileEntry
    BY <1>4, FileAssumption DEF OpenInvalid, TypeOK, Header, FileEntry, Kinds
  <2>2. file \in TextFile
    BY <2>1 DEF TextFile
  <2>3. Load(disk[f]) = <<>> /\ disk' = Put(f, file)
    BY <1>4 DEF OpenInvalid
  <2> HIDE DEF file
  <2>4. QED
    BY <2>2, <2>3, PutGrows
<1>5. ASSUME NEW f \in Files, MakeEmptyFile(f)
      PROVE  DiskTyped(disk') /\ Grown
  <2>1. Empty \in TextFile
    BY EmptySeq DEF Empty, TextFile
  <2>2. f \notin DOMAIN disk /\ disk' = Put(f, Empty)
    BY <1>5 DEF MakeEmptyFile, Fresh
  <2>3. QED
    BY <2>1, <2>2, PutGrows
<1>6. ASSUME NEW f \in Files, NEW at, CreateBranchedSession(f, at)
      PROVE  DiskTyped(disk') /\ Grown
  <2> DEFINE branch == Copy(made + 1, fileEntries, at)
             file == [text |-> branch, torn |-> FALSE]
  <2>1. made + 1 \in Nat /\ InOrder(fileEntries, at) /\ fileEntries \in Seq(FileEntry)
    BY <1>6, FileAssumption DEF CreateBranchedSession, Copy, TypeOK
  <2>2. branch \in Seq(FileEntry)
    BY <2>1, CopyTyped DEF CopyShape
  <2>3. file \in TextFile
    <3> HIDE DEF branch
    <3>1. QED
      BY <2>2 DEF TextFile
  <2>4. f \notin DOMAIN disk /\ (disk' = disk \/ disk' = Put(f, file))
    BY <1>6 DEF CreateBranchedSession, Copy, Fresh
  <2> HIDE DEF file
  <2>5. QED
    BY <1>1, <2>3, <2>4, PutGrows
<1>7. ASSUME NEW f \in Files, NEW source \in DOMAIN disk, NEW at, ForkFrom(source, f, at)
      PROVE  DiskTyped(disk') /\ Grown
  <2> DEFINE copy == Copy(made + 1, Load(disk[source]), at)
             file == [text |-> copy, torn |-> FALSE]
  <2>1. made + 1 \in Nat /\ InOrder(Load(disk[source]), at)
    BY <1>7, FileAssumption DEF ForkFrom, Copy, TypeOK
  <2>2. Load(disk[source]) \in Seq(FileEntry)
    BY EmptySeq DEF Load, TypeOK, TextFile
  <2>3. copy \in Seq(FileEntry)
    BY <2>1, <2>2, CopyTyped DEF CopyShape
  <2>4. file \in TextFile
    <3> HIDE DEF copy
    <3>1. QED
      BY <2>3 DEF TextFile
  <2>5. f \notin DOMAIN disk /\ disk' = Put(f, file)
    BY <1>7 DEF ForkFrom, Copy, Fresh
  <2> HIDE DEF file
  <2>6. QED
    BY <2>4, <2>5, PutGrows
<1>8. QED
  BY <1>1, <1>2, <1>3, <1>4, <1>5, <1>6, <1>7 DEF Next, Crash, NewSession, Open, vars

\* The variables keep their types.
LEMMA TypeInit == Init => TypeOK
<1> SUFFICES ASSUME Init
             PROVE  TypeOK
  OBVIOUS
<1>1. Header(1) \in FileEntry
  BY DEF Header, FileEntry, Kinds
<1>2. fileEntries \in Seq(FileEntry)
  BY <1>1 DEF Init
<1>3. DOMAIN disk = {}
  BY DEF Init
<1>4. disk \in [DOMAIN disk -> TextFile]
  BY <1>3 DEF Init
<1>5. made \in 0..MaxEntries
  BY FileAssumption DEF Init
<1>6. QED
  BY <1>2, <1>3, <1>4, <1>5 DEF Init, TypeOK

RestTyped ==
  /\ made \in 0..MaxEntries /\ fileEntries \in Seq(FileEntry) /\ flushed \in BOOLEAN
  /\ sessionFile \in Files /\ up \in BOOLEAN /\ acked \subseteq Files \X FileEntry
  /\ failed \subseteq FileEntry /\ occurred \subseteq Faults

\* Each step leaves them their types.
LEMMA TypeStep == TypeOK /\ [Next]_vars => TypeOK'
<1> SUFFICES ASSUME TypeOK, [Next]_vars
             PROVE  TypeOK'
  OBVIOUS
<1> DEFINE after(kind) == Append(fileEntries, [kind |-> kind, n |-> made + 1])
<1>1. DiskTyped(disk')
  BY DiskStep
<1>2. made < MaxEntries => made + 1 \in 0..MaxEntries /\ made + 1 \in Nat
  BY FileAssumption DEF TypeOK
<1>3. \A s \in Seq(FileEntry) : \A i \in DOMAIN s : s[i] \in FileEntry
  OBVIOUS
<1>4. made < MaxEntries => <<Header(made + 1)>> \in Seq(FileEntry)
  BY <1>2 DEF Header, FileEntry, Kinds
<1>5. <<>> \in Seq(FileEntry)
  BY EmptySeq
<1>6. \A f \in DOMAIN disk : Load(disk[f]) \in Seq(FileEntry)
  BY <1>5 DEF Load, TypeOK, TextFile
<1>7. ASSUME NEW kind \in {"assistant", "other"}, AppendEntry(kind)
      PROVE  RestTyped'
  <2>1. made < MaxEntries
    BY <1>7 DEF AppendEntry
  <2>2. after(kind) \in Seq(FileEntry)
    BY <2>1, AfterTyped
  <2>3. \A i \in Returned(after(kind)) : <<sessionFile, after(kind)[i]>> \in Files \X FileEntry
    BY <1>3, <2>2 DEF Returned, TypeOK
  <2>4. acked' = acked \/ acked' = acked \union {<<sessionFile, after(kind)[i]>> : i \in Returned(after(kind))}
    BY <1>7 DEF AppendEntry
  <2>5. acked' \subseteq Files \X FileEntry
    BY <2>3, <2>4 DEF TypeOK
  <2>6. fileEntries' \in Seq(FileEntry) /\ flushed' \in BOOLEAN
    BY <1>7, <2>2 DEF AppendEntry
  <2>7. QED
    BY <1>2, <1>7, <2>1, <2>5, <2>6 DEF AppendEntry, TypeOK, RestTyped
<1>8. ASSUME NEW kind \in {"assistant", "other"}, NEW k \in 0..MaxEntries, NEW torn \in BOOLEAN,
             AppendFails(kind, k, torn)
      PROVE  RestTyped'
  <2>1. made < MaxEntries
    BY <1>8 DEF AppendFails
  <2>2. after(kind) \in Seq(FileEntry) /\ after(kind)[Len(after(kind))] \in FileEntry
    BY <2>1, AfterTyped
  <2>3. occurred' \subseteq Faults
    BY <1>8 DEF AppendFails, Fault, TypeOK
  <2>4. /\ fileEntries' = after(kind) /\ failed' = failed \union {after(kind)[Len(after(kind))]} /\ made' = made + 1
        /\ UNCHANGED <<flushed, sessionFile, up, acked>>
    BY <1>8 DEF AppendFails
  <2>5. QED
    BY <1>2, <2>1, <2>2, <2>3, <2>4 DEF TypeOK, RestTyped
<1>9. ASSUME NEW kind \in {"assistant", "other"}, NEW k \in 0..MaxEntries, NEW torn \in BOOLEAN,
             AppendCrashes(kind, k, torn)
      PROVE  RestTyped'
  <2>1. occurred' \subseteq Faults
    BY <1>9 DEF AppendCrashes, Fault, TypeOK
  <2>2. QED
    BY <1>2, <1>5, <1>9, <2>1 DEF AppendCrashes, Down, TypeOK, RestTyped
<1>10. ASSUME Crash
       PROVE  RestTyped'
  BY <1>5, <1>10 DEF Crash, Down, Fault, TypeOK, RestTyped
<1>11. ASSUME NEW f \in Files, NewSession(f) \/ OpenInvalid(f)
       PROVE  RestTyped'
  BY <1>2, <1>4, <1>11 DEF NewSession, OpenInvalid, TypeOK, RestTyped
<1>12. ASSUME NEW f \in Files, Open(f)
       PROVE  RestTyped'
  BY <1>6, <1>12 DEF Open, TypeOK, RestTyped
<1>13. ASSUME NEW f \in Files, MakeEmptyFile(f)
       PROVE  RestTyped'
  BY <1>13 DEF MakeEmptyFile, Fault, TypeOK, RestTyped
<1>14. ASSUME NEW f \in Files, NEW at, CreateBranchedSession(f, at)
       PROVE  RestTyped'
  <2> DEFINE branch == Copy(made + 1, fileEntries, at)
  <2>1. made < MaxEntries /\ InOrder(fileEntries, at)
    BY <1>14 DEF CreateBranchedSession, Copy
  <2>2. branch \in Seq(FileEntry)
    BY <1>2, <2>1, CopyTyped DEF TypeOK, CopyShape
  <2>3. fileEntries' = branch /\ flushed' = WriteBranch(branch)
    BY <1>14 DEF CreateBranchedSession, Copy
  <2>4. flushed' \in BOOLEAN
    BY <2>3 DEF WriteBranch, HasAssistant
  <2>5. acked' = acked \/ acked' = acked \union {<<f, branch[i]>> : i \in DOMAIN branch}
    BY <1>14 DEF CreateBranchedSession, Copy
  <2> HIDE DEF branch
  <2>6. acked' \subseteq Files \X FileEntry
    BY <1>3, <2>2, <2>5 DEF TypeOK
  <2>7. QED
    BY <1>2, <1>14, <2>1, <2>2, <2>3, <2>4, <2>6 DEF CreateBranchedSession, Copy, TypeOK, RestTyped
<1>15. ASSUME NEW f \in Files, NEW source \in DOMAIN disk, NEW at, ForkFrom(source, f, at)
       PROVE  RestTyped'
  <2> DEFINE copy == Copy(made + 1, Load(disk[source]), at)
  <2>1. made < MaxEntries /\ InOrder(Load(disk[source]), at)
    BY <1>15 DEF ForkFrom, Copy
  <2>2. copy \in Seq(FileEntry)
    BY <1>2, <1>6, <2>1, CopyTyped DEF CopyShape
  <2>3. fileEntries' = copy /\ acked' = acked \union {<<f, copy[i]>> : i \in DOMAIN copy}
    BY <1>15 DEF ForkFrom, Copy
  <2> HIDE DEF copy
  <2>4. acked' \subseteq Files \X FileEntry
    BY <1>3, <2>2, <2>3 DEF TypeOK
  <2>5. QED
    BY <1>2, <1>15, <2>1, <2>2, <2>3, <2>4 DEF ForkFrom, Copy, TypeOK, RestTyped
<1>16. ASSUME UNCHANGED vars
       PROVE  RestTyped'
  BY <1>16 DEF vars, TypeOK, RestTyped
<1>17. ASSUME NEW f \in Files, \/ NewSession(f) \/ Open(f) \/ OpenInvalid(f) \/ MakeEmptyFile(f)
                                  \/ \E path : CreateBranchedSession(f, path)
                                  \/ \E source \in DOMAIN disk : \E at : ForkFrom(source, f, at)
       PROVE  RestTyped'
  BY <1>11, <1>12, <1>13, <1>14, <1>15, <1>17
<1>18. ASSUME NEW kind \in {"assistant", "other"}, NEW k \in 0..MaxEntries, NEW torn \in BOOLEAN,
              Interrupted(kind, k, torn)
       PROVE  RestTyped'
  BY <1>8, <1>9, <1>18 DEF Interrupted
<1>19. RestTyped'
  BY <1>7, <1>10, <1>16, <1>17, <1>18 DEF Next, vars
<1>20. QED
  BY <1>1, <1>19 DEF TypeOK, DiskTyped, RestTyped

-----------------------------------------------------------------------------
(* Memory and file.                                                        *)

\* A session starts with its header, whatever comes in.
LEMMA HeaderStep == TypeOK /\ StartsWithHeader /\ [Next]_vars => StartsWithHeader'
<1> SUFFICES ASSUME TypeOK, StartsWithHeader, [Next]_vars
             PROVE  StartsWithHeader'
  OBVIOUS
<1>1. made + 1 \in Nat
  BY FileAssumption DEF TypeOK
<1>2. <<Header(made + 1)>> # <<>> /\ Head(<<Header(made + 1)>>).kind = "header"
  BY DEF Header
<1>3. ASSUME NEW kind, NEW after, after = Append(fileEntries, [kind |-> kind, n |-> made + 1]), up
      PROVE  after # <<>> /\ Head(after).kind = "header"
  BY <1>3 DEF TypeOK, StartsWithHeader
<1>4. \A f \in DOMAIN disk : Load(disk[f]) # <<>> => Head(Load(disk[f])).kind = "header"
  BY DEF Load
<1>5. ASSUME NEW kind \in {"assistant", "other"}, AppendEntry(kind)
      PROVE  StartsWithHeader'
  BY <1>3, <1>5 DEF AppendEntry, StartsWithHeader
<1>6. ASSUME NEW kind \in {"assistant", "other"}, NEW k \in 0..MaxEntries, NEW torn \in BOOLEAN,
             Interrupted(kind, k, torn)
      PROVE  StartsWithHeader'
  BY <1>3, <1>6 DEF Interrupted, AppendFails, AppendCrashes, Down, StartsWithHeader
<1>7. ASSUME NEW f \in Files, NewSession(f) \/ Open(f) \/ OpenInvalid(f) \/ MakeEmptyFile(f)
      PROVE  StartsWithHeader'
  BY <1>2, <1>4, <1>7 DEF NewSession, Open, OpenInvalid, MakeEmptyFile, StartsWithHeader
<1>8. ASSUME NEW f \in Files, NEW at, CreateBranchedSession(f, at)
      PROVE  StartsWithHeader'
  <2>1. /\ InOrder(fileEntries, at) /\ fileEntries \in Seq(FileEntry)
        /\ fileEntries' = Copy(made + 1, fileEntries, at)
    BY <1>8 DEF CreateBranchedSession, Copy, TypeOK
  <2>2. QED
    BY <1>1, <2>1, CopyTyped DEF StartsWithHeader, CopyShape
<1>9. ASSUME NEW f \in Files, NEW source \in DOMAIN disk, NEW at, ForkFrom(source, f, at)
      PROVE  StartsWithHeader'
  <2>1. /\ InOrder(Load(disk[source]), at)
        /\ fileEntries' = Copy(made + 1, Load(disk[source]), at)
    BY <1>9 DEF ForkFrom, Copy
  <2>2. Load(disk[source]) \in Seq(FileEntry)
    BY EmptySeq DEF Load, TypeOK, TextFile
  <2>3. QED
    BY <1>1, <2>1, <2>2, CopyTyped DEF StartsWithHeader, CopyShape
<1>10. CASE Crash \/ UNCHANGED vars
  BY <1>10 DEF Crash, Down, StartsWithHeader, vars
<1>11. QED
  BY <1>5, <1>6, <1>7, <1>8, <1>9, <1>10 DEF Next

\* What an append that is not interrupted writes to the file that was there.
LEMMA AppendWrites ==
  ASSUME TypeOK, StartsWithHeader, NEW kind \in {"assistant", "other"}, AppendEntry(kind), NEW after,
         after = Append(fileEntries, [kind |-> kind, n |-> made + 1]), MayWrite(after),
         ~Contents(sessionFile).torn
  PROVE  /\ sessionFile \in DOMAIN disk' /\ DOMAIN disk' = DOMAIN disk \union {sessionFile}
         /\ disk'[sessionFile].text = Contents(sessionFile).text \o Lines(after)
         /\ ~disk'[sessionFile].torn
         /\ \A f \in DOMAIN disk : f # sessionFile => disk'[f] = disk[f]
<1> DEFINE file == WithLines(Contents(sessionFile), Lines(after))
<1>1. made < MaxEntries /\ disk' = Put(sessionFile, file)
  BY DEF AppendEntry
<1>2. Lines(after) \in Seq(FileEntry) /\ Contents(sessionFile) \in TextFile /\ sessionFile \in Files
  BY <1>1, AfterTyped, ContentsTyped DEF TypeOK
<1>3. file \in TextFile /\ file.text = Contents(sessionFile).text \o Lines(after) /\ ~file.torn
  BY <1>2, WithLinesGrows
<1> HIDE DEF file
<1>4. /\ DOMAIN Put(sessionFile, file) = DOMAIN disk \union {sessionFile} /\ Put(sessionFile, file)[sessionFile] = file
      /\ \A g \in DOMAIN disk : g # sessionFile => Put(sessionFile, file)[g] = disk[g]
  BY <1>2, <1>3, PutTyped
<1>5. QED
  BY <1>1, <1>3, <1>4

Undamaged == occurred \subseteq {"crash"}

\* What was never interrupted, was not before either.
LEMMA UndamagedBefore == [Next]_vars => (occurred \subseteq occurred')
BY DEF Next, vars, AppendEntry, Interrupted, AppendFails, AppendCrashes, Crash, Fault, NewSession, Open,
       OpenInvalid, MakeEmptyFile, CreateBranchedSession, ForkFrom

\* A file in step with memory, as it is after each write while nothing is interrupted.
InStepWith(f, text) ==
  /\ DOMAIN disk' = DOMAIN disk \union {f}
  /\ \A g \in DOMAIN disk : g # f => disk'[g] = disk[g]
  /\ disk'[f].text = text /\ ~disk'[f].torn
  /\ fileEntries' = text /\ flushed' /\ sessionFile' = f
  /\ HasAssistant(text) /\ text # <<>> /\ Head(text).kind = "header"
  /\ \A i \in DOMAIN text : text[i].kind = "header" => i = 1

\* A step that leaves the file so keeps memory and file in step, and files sessions.
LEMMA InStepAfter ==
  ASSUME InStep, FilesAreSessions, Undamaged, NEW f, NEW text, InStepWith(f, text)
  PROVE  InStep' /\ FilesAreSessions'
<1>1. \A g \in DOMAIN disk' : g = f \/ (g \in DOMAIN disk /\ disk'[g] = disk[g])
  BY DEF InStepWith
<1>2. Load(disk'[f]) # <<>>
  BY DEF InStepWith, Load
<1>3. FilesAreSessions'
  BY <1>1, <1>2 DEF FilesAreSessions, InStepWith, Undamaged, Load, HasAssistant
<1>4. \A g \in DOMAIN disk' : ~disk'[g].torn
  BY <1>1 DEF InStep, InStepWith, Undamaged
<1>5. HasAssistant(fileEntries)' = HasAssistant(text)
  BY DEF HasAssistant, InStepWith
<1>6. /\ \A i \in DOMAIN fileEntries' : fileEntries'[i].kind = "header" => i = 1
      /\ HasAssistant(fileEntries)' /\ flushed' /\ sessionFile' \in DOMAIN disk'
      /\ disk'[sessionFile'].text = fileEntries'
  BY <1>5 DEF InStepWith
<1>7. QED
  BY <1>3, <1>4, <1>6 DEF InStep

\* A session without an answer, of which nothing is written.
Unwritten(text) ==
  /\ disk' = disk /\ fileEntries' = text /\ flushed' = FALSE /\ sessionFile' \notin DOMAIN disk
  /\ ~HasAssistant(text)
  /\ \A i \in DOMAIN text : text[i].kind = "header" => i = 1

\* So does one that leaves the session without an answer and writes nothing.
LEMMA UnwrittenAfter ==
  ASSUME InStep, FilesAreSessions, Undamaged, NEW text, Unwritten(text)
  PROVE  InStep' /\ FilesAreSessions'
<1>1. FilesAreSessions'
  BY DEF FilesAreSessions, Undamaged, Unwritten
<1>2. \A f \in DOMAIN disk' : ~disk'[f].torn
  BY DEF InStep, Undamaged, Unwritten
<1>3. ~HasAssistant(fileEntries)'
  BY DEF HasAssistant, Unwritten
<1>4. flushed' = FALSE /\ sessionFile' \notin DOMAIN disk'
  BY DEF Unwritten
<1>5. \A i \in DOMAIN fileEntries' : fileEntries'[i].kind = "header" => i = 1
  BY DEF Unwritten
<1>6. QED
  BY <1>1, <1>2, <1>3, <1>4, <1>5 DEF InStep

\* A session that is written whole to a file of its own is in step with it.
LEMMA CopyInStep ==
  ASSUME TypeOK, NEW f \in Files, f \notin DOMAIN disk, NEW copy \in Seq(FileEntry),
         disk' = Put(f, [text |-> copy, torn |-> FALSE]),
         fileEntries' = copy, flushed', sessionFile' = f, HasAssistant(copy), copy # <<>>,
         Head(copy).kind = "header", \A i \in DOMAIN copy : copy[i].kind = "header" => i = 1
  PROVE  InStepWith(f, copy)
<1>1. PICK file \in TextFile : file = [text |-> copy, torn |-> FALSE]
  BY DEF TextFile
<1>2. file.text = copy /\ ~file.torn
  BY <1>1
<1>3. /\ DOMAIN Put(f, file) = DOMAIN disk \union {f} /\ Put(f, file)[f] = file
      /\ \A g \in DOMAIN disk : g # f => Put(f, file)[g] = disk[g]
  BY PutTyped
<1>4. disk' = Put(f, file)
  BY <1>1
<1>5. QED
  BY <1>2, <1>3, <1>4 DEF InStepWith

\* While nothing is interrupted each step leaves memory and file in step.
LEMMA InStepStep ==
  TypeOK /\ StartsWithHeader /\ InStep /\ FilesAreSessions /\ [Next]_vars => InStep' /\ FilesAreSessions'
<1> SUFFICES ASSUME TypeOK, StartsWithHeader, InStep, FilesAreSessions, [Next]_vars, Undamaged'
             PROVE  InStep' /\ FilesAreSessions'
  BY DEF InStep, FilesAreSessions, Undamaged
<1> USE DEF Undamaged
<1>1. Undamaged
  BY UndamagedBefore
<1>2. made + 1 \in Nat
  BY FileAssumption DEF TypeOK
<1>3. ASSUME NEW kind \in {"assistant", "other"}, AppendEntry(kind)
      PROVE  InStep' /\ FilesAreSessions'
  <2> DEFINE after == Append(fileEntries, [kind |-> kind, n |-> made + 1])
  <2>1. made < MaxEntries /\ up /\ fileEntries' = after /\ UNCHANGED <<sessionFile, up>>
    BY <1>3 DEF AppendEntry
  <2>2. /\ after \in Seq(FileEntry) /\ DOMAIN after = 1..Len(after)
        /\ Len(after) = Len(fileEntries) + 1 /\ Len(fileEntries) \in Nat
        /\ DOMAIN fileEntries = 1..Len(fileEntries)
        /\ \A i \in 1..Len(fileEntries) : after[i] = fileEntries[i]
        /\ after[Len(after)] = [kind |-> kind, n |-> made + 1]
        /\ after[Len(after)] \in FileEntry
    BY <2>1, AfterTyped
  <2>3. after # <<>> /\ Head(after).kind = "header" /\ fileEntries # <<>>
    BY <2>1 DEF StartsWithHeader, TypeOK
  <2>4. \A i \in DOMAIN after : after[i].kind = "header" => i = 1
    <3>1. after[Len(after)].kind # "header"
      BY <2>2
    <3>2. \A i \in DOMAIN after : i = Len(after) \/ i \in 1..Len(fileEntries)
      BY <2>2
    <3>3. \A i \in 1..Len(fileEntries) : fileEntries[i].kind = "header" => i = 1
      BY <1>1, <2>1, <2>2 DEF InStep
    <3> HIDE DEF after
    <3>4. QED
      BY <2>2, <3>1, <3>2, <3>3
  <2>5. HasAssistant(fileEntries) => HasAssistant(after)
    <3> HIDE DEF after
    <3>1. QED
      BY <2>2 DEF HasAssistant
  <2>6. CASE MayWrite(after)
    <3>1. ~Contents(sessionFile).torn
      BY <1>1 DEF InStep, Contents, Empty
    <3>2. /\ sessionFile \in DOMAIN disk' /\ DOMAIN disk' = DOMAIN disk \union {sessionFile}
          /\ disk'[sessionFile].text = Contents(sessionFile).text \o Lines(after)
          /\ ~disk'[sessionFile].torn
          /\ \A f \in DOMAIN disk : f # sessionFile => disk'[f] = disk[f]
      BY <1>3, <2>6, <3>1, AppendWrites
    <3>3. ASSUME flushed
          PROVE  disk'[sessionFile].text = after
      <4>1. Contents(sessionFile).text = fileEntries
        BY <1>1, <2>1, <3>3 DEF InStep, Contents
      <4>2. Lines(after) = <<after[Len(after)]>>
        BY <3>3 DEF Lines
      <4>3. fileEntries \o <<[kind |-> kind, n |-> made + 1]>> = after
        BY DEF TypeOK
      <4>4. disk'[sessionFile].text = after
        <5>1. disk'[sessionFile].text = fileEntries \o <<after[Len(after)]>>
          BY <3>2, <4>1, <4>2
        <5>2. after[Len(after)] = [kind |-> kind, n |-> made + 1]
          BY <2>2
        <5>3. QED
          BY <4>3, <5>1, <5>2
      <4>5. QED
        BY <4>4
    <3>4. ASSUME ~flushed
          PROVE  disk'[sessionFile].text = after
      <4>1. sessionFile \notin DOMAIN disk
        BY <1>1, <2>1, <3>4 DEF InStep
      <4>2. Contents(sessionFile).text = <<>>
        BY <4>1 DEF Contents, Empty
      <4>3. Lines(after) = after
        BY <3>4 DEF Lines
      <4>4. <<>> \o after = after
        BY <2>2, ConcatEmptySeq
      <4>5. disk'[sessionFile].text = Contents(sessionFile).text \o Lines(after)
        BY <3>2
      <4> HIDE DEF after
      <4>6. QED
        BY <4>2, <4>3, <4>4, <4>5
    <3>5. disk'[sessionFile].text = after
      BY <3>3, <3>4
    <3>6. fileEntries' = after /\ flushed' /\ sessionFile' = sessionFile /\ HasAssistant(after)
      BY <1>3, <2>6 DEF AppendEntry, MayWrite
    <3> HIDE DEF after
    <3>7. InStepWith(sessionFile, after)
      BY <2>3, <2>4, <3>2, <3>5, <3>6 DEF InStepWith
    <3>8. QED
      BY <1>1, <3>7, InStepAfter
  <2>7. CASE ~MayWrite(after)
    <3>1. disk' = disk /\ flushed' = FALSE /\ fileEntries' = after /\ sessionFile' = sessionFile
      BY <1>3, <2>7 DEF AppendEntry
    <3>2. ~HasAssistant(after) /\ ~HasAssistant(fileEntries)
      BY <2>5, <2>7 DEF MayWrite
    <3>3. sessionFile \notin DOMAIN disk
      BY <1>1, <2>1, <3>2 DEF InStep
    <3> HIDE DEF after
    <3>4. Unwritten(after)
      BY <2>4, <3>1, <3>2, <3>3 DEF Unwritten
    <3>5. QED
      BY <1>1, <3>4, UnwrittenAfter
  <2>8. QED
    BY <2>6, <2>7
<1>4. ASSUME NEW kind \in {"assistant", "other"}, NEW k \in 0..MaxEntries, NEW torn \in BOOLEAN,
             Interrupted(kind, k, torn)
      PROVE  FALSE
  BY <1>4 DEF Interrupted, AppendFails, AppendCrashes, Fault
<1>5. CASE Crash
  <2>1. disk' = disk /\ ~up'
    BY <1>5 DEF Crash, Down
  <2>2. QED
    BY <1>1, <2>1 DEF InStep, FilesAreSessions
<1>6. ASSUME NEW f \in Files, NewSession(f)
      PROVE  InStep' /\ FilesAreSessions'
  <2>1. disk' = disk /\ fileEntries' = <<Header(made + 1)>> /\ flushed' = FALSE /\ sessionFile' = f
        /\ f \notin DOMAIN disk
    BY <1>6 DEF NewSession, Fresh
  <2>2. ~HasAssistant(<<Header(made + 1)>>)
    BY DEF HasAssistant, Header
  <2>3. Unwritten(<<Header(made + 1)>>)
    BY <2>1, <2>2 DEF Unwritten
  <2>4. QED
    BY <1>1, <2>3, UnwrittenAfter
<1>7. ASSUME NEW f \in Files, Open(f)
      PROVE  InStep' /\ FilesAreSessions'
  <2>1. disk' = disk /\ fileEntries' = Load(disk[f]) /\ flushed' = TRUE /\ sessionFile' = f
        /\ f \in DOMAIN disk /\ Load(disk[f]) # <<>>
    BY <1>7 DEF Open
  <2>2. Load(disk[f]) = disk[f].text
    BY <2>1 DEF Load
  <2>3. InStepWith(f, disk[f].text)
    <3>1. ~disk[f].torn
      BY <1>1, <2>1 DEF InStep
    <3>2. HasAssistant(disk[f].text) /\ \A i \in DOMAIN disk[f].text : disk[f].text[i].kind = "header" => i = 1
      BY <1>1, <2>1 DEF FilesAreSessions
    <3>3. disk[f].text # <<>> /\ Head(disk[f].text).kind = "header"
      BY <2>1 DEF Load
    <3>4. QED
      BY <2>1, <2>2, <3>1, <3>2, <3>3 DEF InStepWith
  <2>4. QED
    BY <1>1, <2>3, InStepAfter
<1>8. ASSUME NEW f \in Files, OpenInvalid(f)
      PROVE  FALSE
  BY <1>1, <1>8 DEF OpenInvalid, FilesAreSessions
<1>9. ASSUME NEW f \in Files, MakeEmptyFile(f)
      PROVE  FALSE
  BY <1>9 DEF MakeEmptyFile, Fault
<1>10. ASSUME NEW f \in Files, NEW at, CreateBranchedSession(f, at)
       PROVE  InStep' /\ FilesAreSessions'
  <2> DEFINE branch == Copy(made + 1, fileEntries, at)
  <2>1. InOrder(fileEntries, at) /\ fileEntries' = branch /\ sessionFile' = f /\ f \notin DOMAIN disk
        /\ flushed' = WriteBranch(branch) /\ f \in Files
    BY <1>10 DEF CreateBranchedSession, Copy, Fresh
  <2>2. /\ branch \in Seq(FileEntry) /\ branch # <<>> /\ Head(branch).kind = "header"
        /\ \A i \in DOMAIN branch : branch[i].kind = "header" => i = 1
    <3>1. fileEntries \in Seq(FileEntry) /\ InOrder(fileEntries, at)
      BY <2>1 DEF TypeOK
    <3>2. CopyShape(branch, fileEntries, at)
      BY <1>2, <3>1, CopyTyped
    <3>3. QED
      BY <3>2 DEF CopyShape
  <2>3. WriteBranch(branch) => disk' = Put(f, [text |-> branch, torn |-> FALSE])
    BY <1>10 DEF CreateBranchedSession, Copy
  <2>4. ~WriteBranch(branch) => disk' = disk
    BY <1>10 DEF CreateBranchedSession, Copy
  <2> HIDE DEF branch
  <2>5. CASE WriteBranch(branch)
    <3>1. InStepWith(f, branch)
      BY <2>1, <2>2, <2>3, <2>5, CopyInStep DEF WriteBranch
    <3>2. QED
      BY <1>1, <3>1, InStepAfter
  <2>6. CASE ~WriteBranch(branch)
    <3>1. Unwritten(branch)
      BY <2>1, <2>2, <2>4, <2>6 DEF WriteBranch, Unwritten
    <3>2. QED
      BY <1>1, <3>1, UnwrittenAfter
  <2>7. QED
    BY <2>5, <2>6
<1>11. ASSUME NEW f \in Files, NEW source \in DOMAIN disk, NEW at, ForkFrom(source, f, at)
       PROVE  InStep' /\ FilesAreSessions'
  <2> DEFINE s == Load(disk[source])
             copy == Copy(made + 1, s, at)
  <2>1. InOrder(s, at) /\ fileEntries' = copy /\ sessionFile' = f /\ f \notin DOMAIN disk /\ flushed' = TRUE
        /\ disk' = Put(f, [text |-> copy, torn |-> FALSE]) /\ Range(at) = Entries(s) /\ s # <<>>
    BY <1>11 DEF ForkFrom, Copy, Fresh
  <2>2. s \in Seq(FileEntry) /\ HasAssistant(s)
    BY <1>1, <2>1 DEF Load, TypeOK, TextFile, FilesAreSessions
  <2> HIDE DEF s
  <2>3. /\ copy \in Seq(FileEntry) /\ copy # <<>> /\ DOMAIN copy = 1..Len(copy)
        /\ at \in Seq(Entries(s)) /\ Len(at) \in Nat /\ Len(copy) = Len(at) + 1
        /\ \A i \in 1..Len(at) : copy[i + 1] = s[at[i]]
        /\ \A i \in DOMAIN copy : copy[i].kind = "header" => i = 1
        /\ Head(copy).kind = "header"
    <3>1. s \in Seq(FileEntry) /\ InOrder(s, at)
      BY <2>1, <2>2
    <3>2. CopyShape(copy, s, at)
      BY <1>2, <3>1, CopyTyped
    <3>3. QED
      BY <3>2 DEF CopyShape
  <2> HIDE DEF copy
  <2>4. HasAssistant(copy)
    <3>1. PICK j \in DOMAIN s : s[j].kind = "assistant"
      BY <2>2 DEF HasAssistant
    <3>2. j \in Range(at)
      BY <2>1, <3>1 DEF Entries
    <3>3. DOMAIN at = 1..Len(at)
      BY <2>3, LenProperties
    <3>4. PICK i \in 1..Len(at) : at[i] = j
      BY <3>2, <3>3 DEF Range
    <3>5. i + 1 \in DOMAIN copy /\ copy[i + 1] = s[j]
      BY <2>3, <3>4
    <3>6. QED
      BY <3>1, <3>5 DEF HasAssistant
  <2>5. InStepWith(f, copy)
    BY <2>1, <2>3, <2>4, CopyInStep
  <2>6. QED
    BY <1>1, <2>5, InStepAfter
<1>12. CASE UNCHANGED vars
  BY <1>1, <1>12 DEF vars, InStep, FilesAreSessions, HasAssistant
<1>13. QED
  BY <1>3, <1>4, <1>5, <1>6, <1>7, <1>8, <1>9, <1>10, <1>11, <1>12 DEF Next

-----------------------------------------------------------------------------
(* What was appended is read back.                                         *)

\* Whole lines after a file that can be read leave it so, if the first of an empty
\* file is a header.
LEMMA SoundGrows ==
  ASSUME NEW file \in TextFile, NEW lines \in Seq(FileEntry), Sound(file), lines # <<>>,
         file.text = <<>> => Head(lines).kind = "header"
  PROVE  /\ WithLines(file, lines) \in TextFile /\ Sound(WithLines(file, lines))
         /\ Range(file.text) \subseteq Range(WithLines(file, lines).text)
         /\ Range(lines) \subseteq Range(WithLines(file, lines).text)
<1> DEFINE w == WithLines(file, lines)
           t == file.text
<1>1. w \in TextFile /\ w.text = t \o lines /\ ~w.torn /\ t \in Seq(FileEntry)
  BY WithLinesGrows DEF TextFile, Sound
<1> HIDE DEF w
<1>2. Len(t) \in Nat /\ Len(lines) \in Nat /\ Len(lines) >= 1
  BY <1>1, LenProperties, EmptySeq
<1>3. /\ w.text \in Seq(FileEntry) /\ Len(w.text) = Len(t) + Len(lines)
      /\ \A i \in 1..Len(t) + Len(lines) : w.text[i] = IF i <= Len(t) THEN t[i] ELSE lines[i - Len(t)]
  BY <1>1, ConcatProperties
<1>4. /\ DOMAIN t = 1..Len(t) /\ DOMAIN lines = 1..Len(lines)
      /\ DOMAIN w.text = 1..Len(t) + Len(lines)
  BY <1>1, <1>3, LenProperties
<1>5. \A i \in 1..Len(t) : i \in DOMAIN w.text /\ w.text[i] = t[i]
  BY <1>2, <1>3, <1>4
<1>6. \A i \in 1..Len(lines) : i + Len(t) \in DOMAIN w.text /\ w.text[i + Len(t)] = lines[i]
  <2> SUFFICES ASSUME NEW i \in 1..Len(lines)
               PROVE  i + Len(t) \in DOMAIN w.text /\ w.text[i + Len(t)] = lines[i]
    OBVIOUS
  <2>1. i + Len(t) \in 1..Len(t) + Len(lines) /\ ~(i + Len(t) <= Len(t)) /\ (i + Len(t)) - Len(t) = i
    BY <1>2
  <2>2. QED
    BY <1>3, <1>4, <2>1
<1>7. Range(t) \subseteq Range(w.text) /\ Range(lines) \subseteq Range(w.text)
  BY <1>4, <1>5, <1>6 DEF Range
<1>8. w.text # <<>> /\ Head(w.text).kind = "header"
  <2>1. w.text # <<>> /\ Head(w.text) = w.text[1]
    BY <1>2, <1>3
  <2>2. CASE t = <<>>
    <3>1. Len(t) = 0 /\ w.text[1] = lines[1] /\ Head(lines) = lines[1]
      BY <1>2, <1>6, <2>2
    <3>2. QED
      BY <2>1, <2>2, <3>1
  <2>3. CASE t # <<>>
    <3>1. Head(t).kind = "header"
      BY <2>3 DEF Sound, Load
    <3>2. 1 \in 1..Len(t) /\ Head(t) = t[1]
      BY <1>1, <1>2, <2>3, EmptySeq
    <3>3. QED
      BY <1>5, <2>1, <3>1, <3>2
  <2>4. QED
    BY <2>2, <2>3
<1>9. Sound(w)
  BY <1>1, <1>8 DEF Sound, Load
<1>10. QED
  BY <1>1, <1>7, <1>9 DEF w

\* The first line of an empty file is the header, also after a failed append.
LEMMA FirstLine ==
  ASSUME TypeOK, StartsWithHeader, Readable, "torn" \notin occurred, up, made < MaxEntries,
         NEW kind \in {"assistant", "other"}, NEW after,
         after = Append(fileEntries, [kind |-> kind, n |-> made + 1])
  PROVE  /\ Sound(Contents(sessionFile))
         /\ Contents(sessionFile).text = <<>> => Head(Lines(after)).kind = "header"
<1>1. Sound(Contents(sessionFile))
  BY DEF Readable, Sound, Contents, Empty, Load
<1>2. fileEntries \in Seq(FileEntry) /\ fileEntries # <<>> /\ Head(fileEntries).kind = "header"
  BY DEF TypeOK, StartsWithHeader
<1>3. Head(after).kind = "header"
  BY <1>2
<1>4. CASE flushed
  <2>1. sessionFile \in DOMAIN disk /\ Contents(sessionFile) = disk[sessionFile]
    BY <1>4 DEF Readable, Contents
  <2>2. 1 \in DOMAIN fileEntries /\ fileEntries[1].kind = "header"
    BY <1>2
  <2>3. fileEntries[1] \in Range(disk[sessionFile].text)
    BY <1>4, <2>2 DEF Readable, Returned
  <2>4. Contents(sessionFile).text # <<>>
    BY <2>1, <2>3 DEF Range
  <2>5. QED
    BY <1>1, <2>4
<1>5. CASE ~flushed
  BY <1>1, <1>3, <1>5 DEF Lines
<1>6. QED
  BY <1>4, <1>5

\* An append that is interrupted between two lines leaves files that can be read.
LEMMA CutOffSound ==
  ASSUME TypeOK, NEW lines \in Seq(FileEntry), NEW k \in Nat, k < Len(lines),
         \A f \in DOMAIN disk : Sound(disk[f]), Sound(Contents(sessionFile)),
         Contents(sessionFile).text = <<>> => Head(lines).kind = "header"
  PROVE  \A f \in DOMAIN CutOff(lines, k, FALSE) : Sound(CutOff(lines, k, FALSE)[f])
<1>1. CASE k = 0
  BY <1>1 DEF CutOff
<1>2. CASE k # 0
  <2> DEFINE first == SubSeq(lines, 1, k)
             w == WithLines(Contents(sessionFile), first)
             file == [w EXCEPT !.torn = FALSE \/ @]
  <2>1. Len(lines) \in Nat /\ k \in 1..Len(lines) /\ 1 \in 1..k
    BY <1>2, LenProperties
  <2>2. first \in Seq(FileEntry) /\ Len(first) = k /\ first[1] = lines[1]
    BY <2>1, SubSeqProperties
  <2>3. first # <<>> /\ Head(first) = Head(lines)
    <3> HIDE DEF first
    <3>1. QED
      BY <2>1, <2>2
  <2> HIDE DEF first
  <2>4. w \in TextFile /\ Sound(w)
    BY <2>2, <2>3, ContentsTyped, SoundGrows
  <2> HIDE DEF w
  <2>5. w = [text |-> w.text, torn |-> w.torn] /\ w.text \in Seq(FileEntry) /\ w.torn \in BOOLEAN
    BY <2>4 DEF TextFile
  <2>6. file.text = w.text /\ file \in TextFile
    BY <2>5 DEF TextFile
  <2>7. ~file.torn
    BY <2>4, <2>5 DEF Sound
  <2>8. CutOff(lines, k, FALSE) = Put(sessionFile, file)
    BY <1>2 DEF CutOff, first, w
  <2> HIDE DEF file
  <2>9. Sound(file)
    BY <2>4, <2>6, <2>7 DEF Sound, Load
  <2>10. sessionFile \in Files
    BY DEF TypeOK
  <2>11. /\ DOMAIN Put(sessionFile, file) = DOMAIN disk \union {sessionFile}
         /\ Put(sessionFile, file)[sessionFile] = file
         /\ \A g \in DOMAIN disk : g # sessionFile => Put(sessionFile, file)[g] = disk[g]
    BY <2>6, <2>10, PutTyped
  <2>12. QED
    BY <2>8, <2>9, <2>11
<1>3. QED
  BY <1>1, <1>2

\* A file put in its place is sound, and the others were.
LEMMA PutSound ==
  ASSUME TypeOK, NEW f \in Files, NEW file \in TextFile, Sound(file), disk' = Put(f, file),
         \A g \in DOMAIN disk : Sound(disk[g])
  PROVE  (\A g \in DOMAIN disk' : Sound(disk'[g])) /\ f \in DOMAIN disk' /\ disk'[f] = file
<1>1. /\ DOMAIN disk' = DOMAIN disk \union {f} /\ disk'[f] = file
      /\ \A g \in DOMAIN disk : g # f => disk'[g] = disk[g]
  BY PutTyped
<1>2. QED
  BY <1>1

\* A session that is written whole to a file is sound.
LEMMA WrittenSound ==
  ASSUME NEW text \in Seq(FileEntry), text # <<>>, Head(text).kind = "header"
  PROVE  [text |-> text, torn |-> FALSE] \in TextFile /\ Sound([text |-> text, torn |-> FALSE])
<1>1. PICK file \in TextFile : file = [text |-> text, torn |-> FALSE]
  BY DEF TextFile
<1>2. file.text = text /\ ~file.torn
  BY <1>1
<1>3. Sound(file)
  BY <1>2 DEF Sound, Load
<1>4. QED
  BY <1>1, <1>3

\* What a step of the session leaves in memory of what can be read.
AllReadable ==
  /\ \A f \in DOMAIN disk : Sound(disk[f])
  /\ \A e \in failed : e.kind # "header"

\* What could be read of a file still can be after a step.
LEMMA ReadKept ==
  TypeOK /\ [Next]_vars =>
    \A f \in DOMAIN disk : f \in DOMAIN disk' /\ Range(Load(disk[f])) \subseteq Range(Load(disk'[f]))
<1> SUFFICES ASSUME TypeOK, [Next]_vars, NEW f \in DOMAIN disk
             PROVE  f \in DOMAIN disk' /\ Range(Load(disk[f])) \subseteq Range(Load(disk'[f]))
  OBVIOUS
<1>1. f \in DOMAIN disk' /\ (GoesOnAs(disk[f], disk'[f]) \/ Load(disk[f]) = <<>>) /\ DiskTyped(disk')
  BY DiskStep DEF Grown
<1>2. disk[f] \in TextFile /\ disk'[f] \in TextFile
  BY <1>1 DEF TypeOK, DiskTyped
<1>3. CASE GoesOnAs(disk[f], disk'[f])
  BY <1>1, <1>2, <1>3, LoadGrows
<1>4. CASE Load(disk[f]) = <<>>
  BY <1>1, <1>4 DEF Range
<1>5. QED
  BY <1>1, <1>3, <1>4

\* While no line is cut off each step leaves the files readable, and what was appended
\* without an error in them.
LEMMA ReadableStep == TypeOK /\ StartsWithHeader /\ Readable /\ [Next]_vars => Readable'
<1> SUFFICES ASSUME TypeOK, StartsWithHeader, Readable, [Next]_vars, "torn" \notin occurred'
             PROVE  Readable'
  BY DEF Readable
<1>1. "torn" \notin occurred
  BY UndamagedBefore
<1>2. /\ AllReadable
      /\ up /\ flushed =>
           /\ sessionFile \in DOMAIN disk
           /\ \A i \in Returned(fileEntries) : fileEntries[i] \in Range(disk[sessionFile].text)
  BY <1>1 DEF Readable, AllReadable
<1>3. made + 1 \in Nat
  BY FileAssumption DEF TypeOK
<1>4. ASSUME AllReadable', ~up' \/ ~flushed'
      PROVE  Readable'
  BY <1>4 DEF Readable, AllReadable
<1>5. ASSUME AllReadable', sessionFile' \in DOMAIN disk',
             \A i \in DOMAIN fileEntries' : fileEntries'[i] \in failed' \/ fileEntries'[i] \in Range(disk'[sessionFile'].text)
      PROVE  Readable'
  BY <1>5 DEF Readable, AllReadable, Returned
<1>6. ASSUME NEW kind \in {"assistant", "other"}, AppendEntry(kind)
      PROVE  Readable'
  <2> DEFINE after == Append(fileEntries, [kind |-> kind, n |-> made + 1])
             file == WithLines(Contents(sessionFile), Lines(after))
  <2>1. made < MaxEntries /\ up /\ fileEntries' = after /\ UNCHANGED <<sessionFile, failed>>
    BY <1>6 DEF AppendEntry
  <2>2. /\ after \in Seq(FileEntry) /\ DOMAIN after = 1..Len(after)
        /\ Len(after) = Len(fileEntries) + 1 /\ Len(fileEntries) \in Nat
        /\ DOMAIN fileEntries = 1..Len(fileEntries)
        /\ \A i \in 1..Len(fileEntries) : after[i] = fileEntries[i]
        /\ Lines(after) \in Seq(FileEntry) /\ Lines(after) # <<>>
    BY <2>1, AfterTyped
  <2>3. /\ Sound(Contents(sessionFile))
        /\ Contents(sessionFile).text = <<>> => Head(Lines(after)).kind = "header"
    BY <1>1, <2>1, FirstLine
  <2>4. /\ file \in TextFile /\ Sound(file) /\ Range(Contents(sessionFile).text) \subseteq Range(file.text)
        /\ Range(Lines(after)) \subseteq Range(file.text)
    BY <2>2, <2>3, ContentsTyped, SoundGrows
  <2>5. MayWrite(after) => disk' = Put(sessionFile, file)
    BY <1>6 DEF AppendEntry
  <2>6. ~MayWrite(after) => disk' = disk /\ flushed' = FALSE
    BY <1>6 DEF AppendEntry
  <2> HIDE DEF after, file
  <2>7. CASE MayWrite(after)
    <3>1. (\A g \in DOMAIN disk' : Sound(disk'[g])) /\ sessionFile \in DOMAIN disk' /\ disk'[sessionFile] = file
      BY <1>2, <2>4, <2>5, <2>7, PutSound DEF AllReadable, TypeOK
    <3>2. AllReadable'
      BY <1>2, <2>1, <3>1 DEF AllReadable
    <3>3. ASSUME NEW i \in DOMAIN after, after[i] \notin failed
          PROVE  after[i] \in Range(file.text)
      <4>1. CASE flushed
        <5>1. Lines(after) = <<after[Len(after)]>>
          BY <4>1 DEF Lines
        <5>2. after[Len(after)] \in Range(Lines(after))
          BY <5>1 DEF Range
        <5>3. CASE i = Len(after)
          BY <2>4, <5>2, <5>3
        <5>4. CASE i # Len(after)
          <6>1. i \in DOMAIN fileEntries /\ after[i] = fileEntries[i]
            BY <2>2, <5>4
          <6>2. fileEntries[i] \in Range(Contents(sessionFile).text)
            BY <1>2, <2>1, <3>3, <4>1, <6>1 DEF Returned, Contents
          <6>3. QED
            BY <2>4, <6>1, <6>2
        <5>5. QED
          BY <5>3, <5>4
      <4>2. CASE ~flushed
        <5>1. after[i] \in Range(Lines(after))
          BY <4>2 DEF Lines, Range
        <5>2. QED
          BY <2>4, <5>1
      <4>3. QED
        BY <4>1, <4>2
    <3>4. QED
      BY <1>5, <2>1, <3>1, <3>2, <3>3
  <2>8. CASE ~MayWrite(after)
    BY <1>2, <1>4, <2>1, <2>6, <2>8 DEF AllReadable
  <2>9. QED
    BY <2>7, <2>8
<1>7. ASSUME NEW kind \in {"assistant", "other"}, NEW k \in 0..MaxEntries, NEW torn \in BOOLEAN,
             Interrupted(kind, k, torn)
      PROVE  Readable'
  <2> DEFINE after == Append(fileEntries, [kind |-> kind, n |-> made + 1])
  <2>1. /\ made < MaxEntries /\ up /\ k < Len(Lines(after)) /\ disk' = CutOff(Lines(after), k, torn)
        /\ sessionFile' = sessionFile /\ k \in Nat
    BY <1>7 DEF Interrupted, AppendFails, AppendCrashes, Down
  <2>2. ~torn
    BY <1>7 DEF Interrupted, AppendFails, AppendCrashes, Fault
  <2>3. /\ Lines(after) \in Seq(FileEntry) /\ after # <<>> /\ DOMAIN after = 1..Len(after)
        /\ Len(after) = Len(fileEntries) + 1 /\ Len(fileEntries) \in Nat
        /\ DOMAIN fileEntries = 1..Len(fileEntries)
        /\ \A i \in 1..Len(fileEntries) : after[i] = fileEntries[i]
        /\ after[Len(after)] = [kind |-> kind, n |-> made + 1]
    BY <2>1, AfterTyped
  <2>4. /\ Sound(Contents(sessionFile))
        /\ Contents(sessionFile).text = <<>> => Head(Lines(after)).kind = "header"
    BY <1>1, <2>1, FirstLine
  <2>5. failed' = failed \/ failed' = failed \union {after[Len(after)]}
    BY <1>7 DEF Interrupted, AppendFails, AppendCrashes
  <2>6. ~up' \/ /\ fileEntries' = after /\ flushed' = flushed
                /\ failed' = failed \union {after[Len(after)]}
    BY <1>7 DEF Interrupted, AppendFails, AppendCrashes, Down
  <2>7. after[Len(after)].kind # "header"
    BY <2>3
  <2> HIDE DEF after
  <2>8. AllReadable'
    <3>1. \A f \in DOMAIN CutOff(Lines(after), k, FALSE) : Sound(CutOff(Lines(after), k, FALSE)[f])
      BY <1>2, <2>1, <2>3, <2>4, CutOffSound DEF AllReadable
    <3>2. torn = FALSE
      BY <2>2
    <3>3. disk' = CutOff(Lines(after), k, FALSE)
      BY <2>1, <3>2
    <3>4. QED
      BY <1>2, <2>5, <2>7, <3>1, <3>3 DEF AllReadable
  <2>9. CASE ~up' \/ ~flushed
    BY <1>4, <2>6, <2>8, <2>9
  <2>10. CASE up' /\ flushed
    <3>1. sessionFile \in DOMAIN disk' /\ Range(Load(disk[sessionFile])) \subseteq Range(Load(disk'[sessionFile]))
      BY <1>2, <2>1, <2>10, ReadKept
    <3>2. Range(disk[sessionFile].text) \subseteq Range(disk'[sessionFile].text)
      BY <1>2, <2>1, <2>8, <2>10, <3>1 DEF AllReadable, Sound
    <3>3. ASSUME NEW i \in DOMAIN after
          PROVE  after[i] \in failed' \/ after[i] \in Range(disk'[sessionFile].text)
      <4>1. CASE i = Len(after)
        BY <2>6, <2>10, <4>1
      <4>2. CASE i # Len(after)
        <5>1. i \in DOMAIN fileEntries /\ after[i] = fileEntries[i]
          BY <2>3, <4>2
        <5>2. fileEntries[i] \in failed \/ fileEntries[i] \in Range(disk[sessionFile].text)
          BY <1>2, <2>1, <2>10, <5>1 DEF Returned
        <5>3. QED
          BY <2>5, <3>2, <5>1, <5>2
      <4>3. QED
        BY <4>1, <4>2
    <3>4. QED
      BY <1>5, <2>1, <2>6, <2>8, <2>10, <3>1, <3>3
  <2>11. QED
    BY <2>9, <2>10
<1>8. CASE Crash
  BY <1>2, <1>4, <1>8 DEF Crash, Down, AllReadable
<1>9. ASSUME NEW f \in Files, NewSession(f)
      PROVE  Readable'
  BY <1>2, <1>4, <1>9 DEF NewSession, AllReadable
<1>10. ASSUME NEW f \in Files, Open(f)
       PROVE  Readable'
  <2>1. /\ disk' = disk /\ failed' = failed /\ sessionFile' = f /\ f \in DOMAIN disk
        /\ fileEntries' = disk[f].text
    BY <1>2, <1>10 DEF Open, AllReadable, Sound
  <2>2. AllReadable'
    BY <1>2, <2>1 DEF AllReadable
  <2>3. \A i \in DOMAIN fileEntries' : fileEntries'[i] \in Range(disk'[sessionFile'].text)
    BY <2>1 DEF Range
  <2>4. QED
    BY <1>5, <2>1, <2>2, <2>3
<1>11. ASSUME NEW f \in Files, NEW text \in Seq(FileEntry), text # <<>>, Head(text).kind = "header",
              disk' = Put(f, [text |-> text, torn |-> FALSE]), fileEntries' = text,
              sessionFile' = f, failed' = failed
       PROVE  Readable'
  <2>1. PICK file \in TextFile : file = [text |-> text, torn |-> FALSE] /\ Sound(file)
    BY <1>11, WrittenSound
  <2>2. file.text = text
    BY <2>1
  <2>3. (\A g \in DOMAIN disk' : Sound(disk'[g])) /\ f \in DOMAIN disk' /\ disk'[f] = file
    BY <1>2, <1>11, <2>1, PutSound DEF AllReadable
  <2>4. AllReadable'
    BY <1>2, <1>11, <2>3 DEF AllReadable
  <2>5. \A i \in DOMAIN fileEntries' : fileEntries'[i] \in Range(disk'[sessionFile'].text)
    BY <1>11, <2>2, <2>3 DEF Range
  <2>6. QED
    BY <1>5, <1>11, <2>3, <2>4, <2>5
<1>12. ASSUME NEW f \in Files, OpenInvalid(f)
       PROVE  Readable'
  <2>1. <<Header(made + 1)>> \in Seq(FileEntry)
    BY <1>3 DEF Header, FileEntry, Kinds
  <2>2. <<Header(made + 1)>> # <<>> /\ Head(<<Header(made + 1)>>).kind = "header"
    BY DEF Header
  <2>3. /\ disk' = Put(f, [text |-> <<Header(made + 1)>>, torn |-> FALSE])
        /\ fileEntries' = <<Header(made + 1)>> /\ sessionFile' = f /\ failed' = failed
    BY <1>12 DEF OpenInvalid
  <2>4. QED
    BY <1>11, <2>1, <2>2, <2>3
<1>13. ASSUME NEW f \in Files, MakeEmptyFile(f)
       PROVE  Readable'
  <2>1. /\ disk' = Put(f, Empty) /\ UNCHANGED <<fileEntries, flushed, sessionFile, up, failed>>
        /\ f # sessionFile
    BY <1>13 DEF MakeEmptyFile, Fresh
  <2>2. Empty \in TextFile /\ Sound(Empty)
    BY EmptySeq DEF Empty, TextFile, Sound, Load
  <2>3. /\ DOMAIN disk' = DOMAIN disk \union {f}
        /\ \A g \in DOMAIN disk : g # f => disk'[g] = disk[g]
    BY <2>1, <2>2, PutTyped
  <2>4. \A g \in DOMAIN disk' : Sound(disk'[g])
    BY <1>2, <2>1, <2>2, PutSound DEF AllReadable
  <2>5. AllReadable'
    BY <1>2, <2>1, <2>4 DEF AllReadable
  <2>6. CASE ~up \/ ~flushed
    BY <1>4, <2>1, <2>5, <2>6
  <2>7. CASE up /\ flushed
    BY <1>2, <1>5, <2>1, <2>3, <2>5, <2>7 DEF Returned
  <2>8. QED
    BY <2>6, <2>7
<1>14. ASSUME NEW f \in Files, NEW at, CreateBranchedSession(f, at)
       PROVE  Readable'
  <2> DEFINE branch == Copy(made + 1, fileEntries, at)
  <2>1. /\ InOrder(fileEntries, at) /\ fileEntries' = branch /\ sessionFile' = f /\ failed' = failed
        /\ flushed' = WriteBranch(branch) /\ fileEntries \in Seq(FileEntry)
    BY <1>14 DEF CreateBranchedSession, Copy, TypeOK
  <2>2. CopyShape(branch, fileEntries, at)
    BY <1>3, <2>1, CopyTyped
  <2>3. WriteBranch(branch) => disk' = Put(f, [text |-> branch, torn |-> FALSE])
    BY <1>14 DEF CreateBranchedSession, Copy
  <2>4. ~WriteBranch(branch) => disk' = disk
    BY <1>14 DEF CreateBranchedSession, Copy
  <2> HIDE DEF branch
  <2>5. CASE WriteBranch(branch)
    BY <1>11, <2>1, <2>2, <2>3, <2>5 DEF CopyShape
  <2>6. CASE ~WriteBranch(branch)
    BY <1>2, <1>4, <2>1, <2>4, <2>6 DEF AllReadable
  <2>7. QED
    BY <2>5, <2>6
<1>15. ASSUME NEW f \in Files, NEW source \in DOMAIN disk, NEW at, ForkFrom(source, f, at)
       PROVE  Readable'
  <2> DEFINE copy == Copy(made + 1, Load(disk[source]), at)
  <2>1. /\ InOrder(Load(disk[source]), at) /\ fileEntries' = copy /\ sessionFile' = f /\ failed' = failed
        /\ disk' = Put(f, [text |-> copy, torn |-> FALSE])
    BY <1>15 DEF ForkFrom, Copy
  <2>2. Load(disk[source]) \in Seq(FileEntry)
    BY EmptySeq DEF Load, TypeOK, TextFile
  <2>3. CopyShape(copy, Load(disk[source]), at)
    BY <1>3, <2>1, <2>2, CopyTyped
  <2> HIDE DEF copy
  <2>4. QED
    BY <1>11, <2>1, <2>3 DEF CopyShape
<1>16. CASE UNCHANGED vars
  BY <1>16 DEF vars, Readable, Returned, Sound
<1>17. QED
  BY <1>6, <1>7, <1>8, <1>9, <1>10, <1>12, <1>13, <1>14, <1>15, <1>16 DEF Next

\* While no line is cut off, what a step acknowledges is read back, and what was
\* acknowledged before still is.
LEMMA AckedStep == TypeOK /\ AckedIsKept /\ [Next]_vars /\ Readable' => AckedIsKept'
<1> SUFFICES ASSUME TypeOK, AckedIsKept, [Next]_vars, Readable', "torn" \notin occurred',
                    NEW written \in acked'
             PROVE  written[1] \in DOMAIN disk' /\ written[2] \in Range(Load(disk'[written[1]]))
  BY DEF AckedIsKept
<1> DEFINE Kept == written[1] \in DOMAIN disk' /\ written[2] \in Range(Load(disk'[written[1]]))
<1>1. "torn" \notin occurred
  BY UndamagedBefore
<1>2. CASE written \in acked
  BY <1>1, <1>2, ReadKept DEF AckedIsKept
<1>3. ASSUME NEW f \in DOMAIN disk', NEW text, disk'[f].text = text,
             NEW i \in DOMAIN text, written = <<f, text[i]>>
      PROVE  Kept
  <2>1. Load(disk'[f]) = text
    BY <1>3 DEF Readable, Sound
  <2>2. text[i] \in Range(text)
    BY DEF Range
  <2>3. QED
    BY <1>3, <2>1, <2>2
<1>4. ASSUME NEW kind \in {"assistant", "other"}, AppendEntry(kind), written \notin acked
      PROVE  Kept
  <2> DEFINE after == Append(fileEntries, [kind |-> kind, n |-> made + 1])
  <2>1. /\ fileEntries' = after /\ flushed' /\ up' /\ sessionFile' = sessionFile /\ failed' = failed
        /\ \E i \in Returned(after) : written = <<sessionFile, after[i]>>
    BY <1>4 DEF AppendEntry
  <2> HIDE DEF after
  <2>2. PICK i \in Returned(after) : written = <<sessionFile, after[i]>>
    BY <2>1
  <2>3. sessionFile \in DOMAIN disk' /\ after[i] \in Range(disk'[sessionFile].text)
    BY <2>1, <2>2 DEF Readable, Returned
  <2>4. Load(disk'[sessionFile]) = disk'[sessionFile].text
    BY <2>3 DEF Readable, Sound
  <2>5. QED
    BY <2>2, <2>3, <2>4
<1>5. ASSUME NEW f \in Files, NEW text, text \in Seq(FileEntry), disk' = Put(f, [text |-> text, torn |-> FALSE]),
             \E i \in DOMAIN text : written = <<f, text[i]>>
      PROVE  Kept
  <2>1. PICK file \in TextFile : file = [text |-> text, torn |-> FALSE]
    BY <1>5 DEF TextFile
  <2>2. file.text = text
    BY <2>1
  <2>3. f \in DOMAIN disk' /\ disk'[f] = file
    BY <1>5, <2>1, PutTyped
  <2>4. QED
    BY <1>3, <1>5, <2>2, <2>3
<1>6. ASSUME NEW f \in Files, NEW at, CreateBranchedSession(f, at), written \notin acked
      PROVE  Kept
  <2> DEFINE branch == Copy(made + 1, fileEntries, at)
  <2>1. InOrder(fileEntries, at) /\ made + 1 \in Nat /\ fileEntries \in Seq(FileEntry)
    BY <1>6, FileAssumption DEF CreateBranchedSession, TypeOK
  <2>2. branch \in Seq(FileEntry)
    BY <2>1, CopyTyped DEF CopyShape
  <2>3. /\ disk' = Put(f, [text |-> branch, torn |-> FALSE])
        /\ acked' = acked \union {<<f, branch[i]>> : i \in DOMAIN branch}
    BY <1>6 DEF CreateBranchedSession, Copy
  <2> HIDE DEF branch
  <2>4. QED
    BY <1>5, <1>6, <2>2, <2>3
<1>7. ASSUME NEW f \in Files, NEW source \in DOMAIN disk, NEW at, ForkFrom(source, f, at), written \notin acked
      PROVE  Kept
  <2> DEFINE copy == Copy(made + 1, Load(disk[source]), at)
  <2>1. /\ InOrder(Load(disk[source]), at) /\ made + 1 \in Nat /\ Load(disk[source]) \in Seq(FileEntry)
    BY <1>7, FileAssumption, EmptySeq DEF ForkFrom, TypeOK, Load, TextFile
  <2>2. copy \in Seq(FileEntry)
    BY <2>1, CopyTyped DEF CopyShape
  <2>3. /\ disk' = Put(f, [text |-> copy, torn |-> FALSE])
        /\ acked' = acked \union {<<f, copy[i]>> : i \in DOMAIN copy}
    BY <1>7 DEF ForkFrom, Copy
  <2> HIDE DEF copy
  <2>4. QED
    BY <1>5, <1>7, <2>2, <2>3
<1>8. ASSUME UNCHANGED acked
      PROVE  Kept
  BY <1>2, <1>8
<1>9. QED
  BY <1>2, <1>4, <1>6, <1>7, <1>8
     DEF Next, vars, Interrupted, AppendFails, AppendCrashes, Crash, NewSession, Open, OpenInvalid, MakeEmptyFile

-----------------------------------------------------------------------------
(* The theorems.                                                           *)

\* What holds of every state.
LEMMA Invariant == Spec => []Inv
<1>1. Init => Inv
  <2> SUFFICES ASSUME Init
               PROVE  Inv
    OBVIOUS
  <2>1. fileEntries = <<Header(1)>> /\ DOMAIN disk = {} /\ flushed = FALSE /\ acked = {} /\ failed = {}
    BY DEF Init
  <2>2. StartsWithHeader
    BY <2>1 DEF StartsWithHeader, Header
  <2>3. ~HasAssistant(fileEntries) /\ \A i \in DOMAIN fileEntries : i = 1
    BY <2>1 DEF HasAssistant, Header
  <2>4. InStep
    BY <2>1, <2>3 DEF InStep
  <2>5. FilesAreSessions /\ Readable /\ AckedIsKept
    BY <2>1 DEF FilesAreSessions, Readable, AckedIsKept
  <2>6. QED
    BY <2>2, <2>4, <2>5, TypeInit DEF Inv
<1>2. Inv /\ [Next]_vars => Inv'
  BY TypeStep, HeaderStep, InStepStep, ReadableStep, AckedStep DEF Inv
<1>3. QED
  BY <1>1, <1>2, PTL DEF Spec

\* Memory and disk hold sessions: the variables keep their types, and, while nothing is
\* interrupted, each file starts with its one header and has an answer (_persist,
\* setSessionFile, createBranchedSession, forkFrom).
THEOREM StoreIsSound == Spec => []StoreHoldsSessions
<1>1. Inv => StoreHoldsSessions
  BY DEF Inv, StoreHoldsSessions
<1>2. QED
  BY <1>1, Invariant, PTL

\* The file of a session that has an answer is what is in memory, however the session
\* came to be, while no write is interrupted.
THEOREM FileFollowsMemory == Spec => []DiskMatchesMemory
<1>1. Inv => DiskMatchesMemory
  <2> SUFFICES ASSUME Inv, Undamaged, up, HasAssistant(fileEntries)
               PROVE  sessionFile \in DOMAIN disk /\ Load(disk[sessionFile]) = fileEntries
    BY DEF DiskMatchesMemory, Undamaged
  <2>1. sessionFile \in DOMAIN disk /\ disk[sessionFile].text = fileEntries
    BY DEF Inv, InStep, Undamaged
  <2>2. Load(disk[sessionFile]) # <<>>
    BY <2>1 DEF Inv, FilesAreSessions, Undamaged
  <2>3. QED
    BY <2>1, <2>2 DEF Load
<1>2. QED
  BY <1>1, Invariant, PTL

\* What was appended without an error once the session has an answer is read back from
\* its file by whoever opens it, while no line is cut off.
THEOREM NothingAckedIsLost == Spec => []AckedIsKept
<1>1. Inv => AckedIsKept
  BY DEF Inv
<1>2. QED
  BY <1>1, Invariant, PTL

\* A session file only grows, whatever fails: what could be read of it stays, at its
\* place (appendFileSync is all that writes to a file that can be read).
THEOREM FilesOnlyGrow == Spec => DiskAppendOnly
<1> DEFINE A == \A f \in DOMAIN disk :
                  /\ f \in DOMAIN disk'
                  /\ Len(Load(disk[f])) <= Len(Load(disk'[f]))
                  /\ SubSeq(Load(disk'[f]), 1, Len(Load(disk[f]))) = Load(disk[f])
<1>1. TypeOK /\ [Next]_vars => A
  <2> SUFFICES ASSUME TypeOK, [Next]_vars, NEW f \in DOMAIN disk
               PROVE  /\ f \in DOMAIN disk'
                      /\ Len(Load(disk[f])) <= Len(Load(disk'[f]))
                      /\ SubSeq(Load(disk'[f]), 1, Len(Load(disk[f]))) = Load(disk[f])
    OBVIOUS
  <2>1. f \in DOMAIN disk' /\ (GoesOnAs(disk[f], disk'[f]) \/ Load(disk[f]) = <<>>) /\ DiskTyped(disk')
    BY DiskStep DEF Grown
  <2>2. disk[f] \in TextFile /\ disk'[f] \in TextFile
    BY <2>1 DEF TypeOK, DiskTyped
  <2>3. CASE GoesOnAs(disk[f], disk'[f])
    BY <2>1, <2>2, <2>3, LoadGrows
  <2>4. CASE Load(disk[f]) = <<>>
    <3>1. Len(Load(disk[f])) = 0
      BY <2>4
    <3>2. Load(disk'[f]) \in Seq(FileEntry)
      BY <2>2, EmptySeq DEF Load, TextFile
    <3>3. SubSeq(Load(disk'[f]), 1, 0) = <<>> /\ Len(Load(disk'[f])) \in Nat
      BY <3>2, SubSeqEmpty, LenProperties
    <3>4. QED
      BY <2>1, <2>4, <3>1, <3>3
  <2>5. QED
    BY <2>1, <2>3, <2>4
<1>2. Inv => TypeOK
  BY DEF Inv
<1> HIDE DEF A
<1>3. Spec => [][A]_vars
  BY <1>1, <1>2, Invariant, PTL DEF Spec
<1>4. QED
  BY <1>3 DEF A, DiskAppendOnly
=============================================================================
