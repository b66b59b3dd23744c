--------------------------- MODULE StorageProofs ----------------------------
(***************************************************************************)
(* What lies on the disk, for every value of the constants: the files of an *)
(* upload, the rows of a record, and the files of a shelf.                  *)
(***************************************************************************)
EXTENDS FsShelf, StagedFile, Rows, TLAPS

-----------------------------------------------------------------------------
(* The files of one upload, whose requests come one after the other. *)

Sent == {Sends[p] : p \in Puts}
Running == {"begun", "cleared", "writing", "flushed"}

PutRecord == [step : Running \cup {"unsent", "done", "failed"}, at : Nat]

\* The file holds so many pieces of one content.
Holds(content, n) == Len(file) = n /\ \A i \in 1 .. n : file[i] = content

StagedTypes ==
    /\ place \in {"staging", "item", "gone"}
    /\ file \in Seq(Sent \cup {Hole}) /\ flushed \in Seq(Sent \cup {Hole})
    /\ renamed \in BOOLEAN
    /\ checked \in BOOLEAN
    /\ writer \in Puts \cup {None}
    /\ upload \in {"ticket", "finished", "aborted"}
    /\ puts \in [Puts -> PutRecord]
    /\ commit \in {"idle", "sized", "checked", "renamed", "published"}
    /\ faults \in Nat

\* A PUT that runs runs alone, on a staging place.
OneAtATime ==
    \A p \in Puts : puts[p].step \in Running =>
        /\ commit = "idle" /\ upload = "ticket" /\ place = "staging"
        /\ \A q \in Puts \ {p} : puts[q].step \notin Running

\* What it has written so far.
WrittenSoFar ==
    \A p \in Puts :
        /\ puts[p].step \in {"cleared", "writing", "flushed"} => digest = None
        /\ puts[p].step \in {"writing", "flushed"} =>
              writer = p /\ Holds(Sends[p], puts[p].at) /\ puts[p].at =< Pieces
        /\ puts[p].step = "flushed" => flushed = file

\* A digest is there with the content it is of, and that is on the disk; so it is once
\* the place is an item, until the digest goes.
DigestVouches ==
    /\ digest # None => file = digest /\ flushed = file
    /\ ~renamed => place = "item"
    /\ commit \in {"sized", "checked"} => place = "staging"

\* What one request sent, the whole or a part.
OfOne(content) == \A i \in 1 .. Len(content) : content[i] \in Sent /\ content[i] = content[1]

SentByOne == OfOne(file) /\ OfOne(flushed)

StagedInv == StagedTypes /\ OneAtATime /\ WrittenSoFar /\ DigestVouches /\ SentByOne

\* An item is whole and on the disk where its content was checked or acknowledged, and right
\* where it was checked; its place is on the disk too, unless the commit was cut short before
\* it flushed the directories.
ItemInv ==
    /\ commit # "idle" => upload = "ticket"
    /\ commit \in {"sized", "checked"} => Len(file) = Pieces
    /\ commit = "checked" /\ checked => digest = Whole(Right)
    /\ commit \in {"renamed", "published"} => place = "item"
    /\ place = "item" /\ (checked \/ Acknowledged) =>
          Len(file) = Pieces /\ flushed = file /\ (checked => file = Whole(Right))
    /\ Acknowledged => flushed = file
    /\ writer # None => puts[writer].step \in {"writing", "flushed", "done", "failed"}
    /\ ~renamed => commit = "renamed" \/ faults > 0
    /\ upload = "finished" => place = "item" \/ faults > 1

\* What is held is the first pieces of the content.
LEMMA HoldsIsFirst ==
    ASSUME StagedTypes, NEW content, NEW n \in Nat, Holds(content, n)
    PROVE  file = First(n, content)
<1>1. file = [i \in 1 .. Len(file) |-> file[i]]
  BY DEF StagedTypes
<1>2. QED
  BY <1>1 DEF Holds, First

\* A request that starts finds nobody at work.
LEMMA StartsAlone ==
    ASSUME Overlap = FALSE, MayStart
    PROVE  commit = "idle" /\ \A p \in Puts : puts[p].step \notin Running
  BY DEF MayStart, Running

\* Where a PUT is, when only its step changes.
LEMMA MoveTypes ==
    ASSUME StagedTypes, NEW p \in Puts, NEW step \in Running \cup {"unsent", "done", "failed"},
           Move(p, step)
    PROVE  /\ puts' \in [Puts -> PutRecord] /\ puts'[p].step = step /\ puts'[p].at = puts[p].at
           /\ \A q \in Puts \ {p} : puts'[q] = puts[q]
<1>1. puts[p] \in PutRecord /\ puts \in [Puts -> PutRecord]
  BY DEF StagedTypes
<1> DEFINE record == [puts[p] EXCEPT !.step = step]
<1>2. record \in PutRecord /\ record.step = step /\ record.at = puts[p].at
  BY <1>1 DEF PutRecord
<1>3. puts' = [puts EXCEPT ![p] = record]
  BY DEF Move
<1> HIDE DEF record
<1>4. QED
  BY <1>1, <1>2, <1>3

\* The steps of a PUT (write, shelf/fs.rs).
LEMMA StartPutSafe ==
    ASSUME StagedInv, Overlap = FALSE, NEW p \in Puts, StartPut(p)
    PROVE  StagedInv'
<1> DEFINE step == CASE upload = "finished" -> "done"
                     [] upload # "finished" /\ (upload = "aborted" \/ place # "staging") -> "failed"
                     [] OTHER -> "begun"
<1>1. /\ Move(p, step) /\ MayStart
      /\ UNCHANGED <<place, file, flushed, renamed, digest, checked, writer, upload, commit, faults>>
  BY DEF StartPut
<1>2. /\ step \in {"done", "failed", "begun"}
      /\ step = "begun" => upload = "ticket" /\ place = "staging"
  BY DEF StagedInv, StagedTypes
<1> HIDE DEF step
<1>3. commit = "idle" /\ \A q \in Puts : puts[q].step \notin Running
  BY <1>1, StartsAlone
<1>4. /\ puts' \in [Puts -> PutRecord] /\ puts'[p].step = step /\ puts'[p].at = puts[p].at
      /\ \A q \in Puts \ {p} : puts'[q] = puts[q]
  BY <1>1, <1>2, MoveTypes DEF StagedInv, Running
<1>5. StagedTypes'
  BY <1>1, <1>4 DEF StagedInv, StagedTypes
<1>6. OneAtATime'
  BY <1>1, <1>2, <1>3, <1>4 DEF StagedInv, OneAtATime, Running
<1>7. WrittenSoFar'
  BY <1>1, <1>2, <1>3, <1>4 DEF StagedInv, WrittenSoFar, Running
<1>8. DigestVouches' /\ SentByOne'
  BY <1>1 DEF StagedInv, DigestVouches, SentByOne, OfOne
<1>9. QED
  BY <1>5, <1>6, <1>7, <1>8 DEF StagedInv

\* A PUT removes the digest before it touches the content (write).
LEMMA ForgetDigestSafe ==
    ASSUME StagedInv, NEW p \in Puts, ForgetDigest(p)
    PROVE  StagedInv'
<1>1. /\ puts[p].step = "begun" /\ digest' = None /\ Move(p, "cleared")
      /\ UNCHANGED <<place, file, flushed, renamed, checked, writer, upload, commit, faults>>
  BY DEF ForgetDigest
<1>2. /\ puts' \in [Puts -> PutRecord] /\ puts'[p].step = "cleared" /\ puts'[p].at = puts[p].at
      /\ \A q \in Puts \ {p} : puts'[q] = puts[q]
  BY <1>1, MoveTypes DEF StagedInv, Running
<1>3. StagedTypes'
  BY <1>1, <1>2 DEF StagedInv, StagedTypes
<1>4. OneAtATime'
  BY <1>1, <1>2 DEF StagedInv, OneAtATime, Running
<1>5. WrittenSoFar'
  BY <1>1, <1>2 DEF StagedInv, WrittenSoFar, OneAtATime, Running, Holds
<1>6. DigestVouches' /\ SentByOne'
  BY <1>1 DEF StagedInv, DigestVouches, SentByOne, OfOne
<1>7. QED
  BY <1>3, <1>4, <1>5, <1>6 DEF StagedInv

\* A PUT empties the file, and has written nothing of it yet.
LEMMA TruncateSafe ==
    ASSUME StagedInv, NEW p \in Puts, Truncate(p)
    PROVE  StagedInv'
<1> DEFINE record == [step |-> "writing", at |-> 0]
<1>1. /\ puts[p].step = "cleared" /\ digest = None /\ place = "staging"
      /\ UNCHANGED <<place, flushed, renamed, digest, checked, upload, commit, faults>>
      /\ file' = <<>> /\ puts' = [puts EXCEPT ![p] = record] /\ writer' = p
      /\ \A q \in Puts \ {p} : puts[q].step \notin Running
  BY DEF Truncate, StagedInv, OneAtATime, WrittenSoFar, Running
<1>2. /\ record \in PutRecord /\ record.step = "writing" /\ record.at = 0
  BY DEF PutRecord, Running
<1> HIDE DEF record
<1>3. /\ puts' \in [Puts -> PutRecord] /\ puts'[p] = record
      /\ \A q \in Puts \ {p} : puts'[q] = puts[q]
  BY <1>1, <1>2 DEF StagedInv, StagedTypes
<1>4. StagedTypes'
  <2>1. <<>> \in Seq(Sent \cup {Hole})
    OBVIOUS
  <2>2. QED
    BY <1>1, <1>3, <2>1 DEF StagedInv, StagedTypes
<1>5. OneAtATime'
  BY <1>1, <1>2, <1>3 DEF StagedInv, OneAtATime, Running
<1>6. WrittenSoFar'
  <2>1. Len(file') = 0 /\ 1 .. 0 = {} /\ 0 =< Pieces
    BY <1>1, StagedFileAssumption
  <2>2. QED
    BY <1>1, <1>2, <1>3, <2>1 DEF WrittenSoFar, Running, Holds
<1>7. DigestVouches' /\ SentByOne'
  BY <1>1 DEF StagedInv, DigestVouches, SentByOne, OfOne
<1>8. QED
  BY <1>4, <1>5, <1>6, <1>7 DEF StagedInv

\* A request alone writes where the file ends.
LEMMA WritePieceSafe ==
    ASSUME StagedInv, NEW p \in Puts, WritePiece(p)
    PROVE  StagedInv'
<1> DEFINE at == puts[p].at
           content == Sends[p]
           pad == [i \in 1 .. (IF Len(file) < at THEN at - Len(file) ELSE 0) |-> Hole]
           padded == file \o pad
           record == [puts[p] EXCEPT !.at = at + 1]
<1>1. /\ puts[p].step = "writing" /\ at < Pieces /\ digest = None
      /\ file' = IF Len(padded) > at THEN [padded EXCEPT ![at + 1] = content] ELSE Append(padded, content)
      /\ puts' = [puts EXCEPT ![p].at = at + 1]
      /\ UNCHANGED <<place, flushed, renamed, digest, checked, writer, upload, commit, faults>>
      /\ \A q \in Puts \ {p} : puts[q].step \notin Running
      /\ Holds(content, at) /\ writer = p
  BY DEF WritePiece, StagedInv, OneAtATime, WrittenSoFar, Running
<1>2. /\ file \in Seq(Sent \cup {Hole}) /\ content \in Sent /\ at \in Nat /\ Len(file) = at
      /\ puts[p] \in PutRecord /\ puts \in [Puts -> PutRecord]
  BY <1>1 DEF StagedInv, StagedTypes, PutRecord, Sent, Holds
<1>3. record \in PutRecord /\ record.step = "writing" /\ record.at = at + 1
  <2> DEFINE next == at + 1
  <2>1. next \in Nat
    BY <1>2
  <2> HIDE DEF next
  <2>2. QED
    BY <1>1, <1>2, <2>1 DEF PutRecord, next
<1>4. puts' = [puts EXCEPT ![p] = record]
  BY <1>1
<1> HIDE DEF record
<1>5. /\ puts' \in [Puts -> PutRecord] /\ puts'[p] = record
      /\ \A q \in Puts \ {p} : puts'[q] = puts[q]
  BY <1>2, <1>3, <1>4
<1>6. padded = file
  <2>1. pad = <<>>
    BY <1>2
  <2> HIDE DEF pad
  <2>2. QED
    BY <1>2, <2>1
<1>7. file' = Append(file, content)
  <2>1. ~(Len(padded) > at)
    BY <1>2, <1>6
  <2> HIDE DEF padded
  <2>2. QED
    BY <1>1, <1>6, <2>1
<1> HIDE DEF padded, pad, at, content
<1>8. /\ file' \in Seq(Sent \cup {Hole}) /\ Len(file') = at + 1 /\ file'[at + 1] = content
      /\ \A i \in 1 .. at : file'[i] = file[i]
  BY <1>2, <1>7
<1>9. Len(file') = at + 1 /\ \A i \in 1 .. at + 1 : file'[i] = content
  BY <1>1, <1>2, <1>8 DEF Holds
<1>10. StagedTypes'
  BY <1>1, <1>5, <1>8 DEF StagedInv, StagedTypes
<1>11. OneAtATime'
  BY <1>1, <1>3, <1>5 DEF StagedInv, OneAtATime, Running
<1>12. WrittenSoFar'
  <2>1. at + 1 =< Pieces
    BY <1>1, <1>2, StagedFileAssumption
  <2>2. QED
    BY <1>1, <1>3, <1>5, <1>9, <2>1 DEF WrittenSoFar, Running, Holds, content
<1>13. DigestVouches' /\ SentByOne'
  <2>1. OfOne(file')
    BY <1>2, <1>9 DEF OfOne
  <2>2. QED
    BY <1>1, <2>1 DEF StagedInv, DigestVouches, SentByOne, OfOne
<1>14. QED
  BY <1>10, <1>11, <1>12, <1>13 DEF StagedInv

\* A PUT that wrote its last piece flushes the file.
LEMMA FlushContentSafe ==
    ASSUME StagedInv, NEW p \in Puts, FlushContent(p)
    PROVE  StagedInv'
<1> DEFINE step == IF checked THEN "flushed" ELSE "done"
<1>1. /\ puts[p].step = "writing" /\ flushed' = file /\ Move(p, step)
      /\ UNCHANGED <<place, file, renamed, digest, checked, writer, upload, commit, faults>>
      /\ digest = None /\ writer = p /\ Holds(Sends[p], puts[p].at) /\ puts[p].at =< Pieces
      /\ \A q \in Puts \ {p} : puts[q].step \notin Running
  BY DEF FlushContent, StagedInv, OneAtATime, WrittenSoFar, Running
<1>2. step \in {"flushed", "done"}
  OBVIOUS
<1> HIDE DEF step
<1>3. /\ puts' \in [Puts -> PutRecord] /\ puts'[p].step = step /\ puts'[p].at = puts[p].at
      /\ \A q \in Puts \ {p} : puts'[q] = puts[q]
  BY <1>1, <1>2, MoveTypes DEF StagedInv, Running
<1>4. StagedTypes'
  BY <1>1, <1>3 DEF StagedInv, StagedTypes
<1>5. OneAtATime'
  BY <1>1, <1>2, <1>3 DEF StagedInv, OneAtATime, Running
<1>6. WrittenSoFar'
  BY <1>1, <1>2, <1>3 DEF WrittenSoFar, Running, Holds
<1>7. DigestVouches' /\ SentByOne'
  BY <1>1 DEF StagedInv, DigestVouches, SentByOne, OfOne
<1>8. QED
  BY <1>4, <1>5, <1>6, <1>7 DEF StagedInv

\* A PUT notes the digest of what it has written and flushed.
LEMMA NoteDigestSafe ==
    ASSUME StagedInv, NEW p \in Puts, NoteDigest(p)
    PROVE  StagedInv'
<1>1. /\ puts[p].step = "flushed" /\ digest' = First(puts[p].at, Sends[p]) /\ Move(p, "done")
      /\ UNCHANGED <<place, file, flushed, renamed, checked, writer, upload, commit, faults>>
      /\ Holds(Sends[p], puts[p].at) /\ flushed = file
      /\ \A q \in Puts \ {p} : puts[q].step \notin Running
  BY DEF NoteDigest, StagedInv, OneAtATime, WrittenSoFar, Running
<1>2. /\ puts' \in [Puts -> PutRecord] /\ puts'[p].step = "done"
      /\ \A q \in Puts \ {p} : puts'[q] = puts[q]
  BY <1>1, MoveTypes DEF StagedInv, Running
<1>3. StagedTypes'
  BY <1>1, <1>2 DEF StagedInv, StagedTypes
<1>4. OneAtATime'
  BY <1>1, <1>2 DEF StagedInv, OneAtATime, Running
<1>5. WrittenSoFar'
  BY <1>1, <1>2 DEF WrittenSoFar, Running
<1>6. DigestVouches' /\ SentByOne'
  <2>1. puts[p].at \in Nat
    BY DEF StagedInv, StagedTypes, PutRecord
  <2>2. file = digest'
    BY <1>1, <2>1, HoldsIsFirst DEF StagedInv
  <2>3. QED
    BY <1>1, <2>2 DEF StagedInv, DigestVouches, SentByOne, OfOne
<1>7. QED
  BY <1>3, <1>4, <1>5, <1>6 DEF StagedInv

\* A PUT whose body breaks off empties the file again.
LEMMA CutShortSafe ==
    ASSUME StagedInv, NEW p \in Puts, CutShort(p)
    PROVE  StagedInv'
<1>1. /\ puts[p].step = "writing" /\ file' = <<>> /\ Move(p, "failed") /\ digest = None
      /\ UNCHANGED <<place, flushed, renamed, digest, checked, writer, upload, commit, faults>>
      /\ \A q \in Puts \ {p} : puts[q].step \notin Running
  BY DEF CutShort, StagedInv, OneAtATime, WrittenSoFar, Running
<1>2. /\ puts' \in [Puts -> PutRecord] /\ puts'[p].step = "failed"
      /\ \A q \in Puts \ {p} : puts'[q] = puts[q]
  BY <1>1, MoveTypes DEF StagedInv, Running
<1>3. <<>> \in Seq(Sent \cup {Hole})
  OBVIOUS
<1>4. StagedTypes'
  BY <1>1, <1>2, <1>3 DEF StagedInv, StagedTypes
<1>5. OneAtATime'
  BY <1>1, <1>2 DEF StagedInv, OneAtATime, Running
<1>6. WrittenSoFar'
  BY <1>1, <1>2 DEF WrittenSoFar, Running
<1>7. DigestVouches' /\ SentByOne'
  BY <1>1 DEF StagedInv, DigestVouches, SentByOne, OfOne
<1>8. QED
  BY <1>4, <1>5, <1>6, <1>7 DEF StagedInv

\* A commit, an abort or an expiry comes when no PUT runs, and leaves the file alone.
LEMMA CommitSafe ==
    ASSUME StagedInv, Overlap = FALSE,
           \/ CheckSize \/ CheckContent \/ Rename \/ SettleRename \/ RecordCommit
           \/ FinishRecord \/ EndUpload \/ RemoveStaged
    PROVE  StagedInv'
<1>1. \A p \in Puts : puts[p].step \notin Running
  <2>1. CASE commit # "idle"
    BY <2>1 DEF StagedInv, OneAtATime
  <2>2. CASE commit = "idle"
    BY <2>2, StartsAlone DEF CheckSize, CheckContent, Rename, SettleRename, RecordCommit,
       FinishRecord, EndUpload, RemoveStaged
  <2>3. QED
    BY <2>1, <2>2
<1>2. UNCHANGED <<file, flushed, checked, writer, puts, faults>>
  BY DEF CheckSize, CheckContent, Rename, SettleRename, RecordCommit, FinishRecord, EndUpload, RemoveStaged
<1>3. StagedTypes'
  BY <1>2 DEF StagedInv, StagedTypes, CheckSize, CheckContent, Rename, SettleRename, RecordCommit,
     FinishRecord, EndUpload, RemoveStaged
<1>4. OneAtATime' /\ WrittenSoFar'
  BY <1>1, <1>2 DEF OneAtATime, WrittenSoFar, Running
<1>5. DigestVouches' /\ SentByOne'
  <2>1. /\ digest' \in {digest, None}
        /\ ~renamed' => place' = "item"
    BY DEF StagedInv, DigestVouches, CheckSize, CheckContent, Rename, SettleRename, RecordCommit, FinishRecord,
       EndUpload, RemoveStaged
  <2>2. commit' \in {"sized", "checked"} => place' = "staging"
    BY StartsAlone DEF StagedInv, DigestVouches, CheckSize, CheckContent, Rename, SettleRename, RecordCommit,
       FinishRecord, EndUpload, RemoveStaged
  <2>3. QED
    BY <1>2, <2>1, <2>2 DEF StagedInv, DigestVouches, SentByOne, OfOne
<1>6. QED
  BY <1>3, <1>4, <1>5 DEF StagedInv

\* The next process finds what the last one left.
LEMMA RestartSafe ==
    ASSUME StagedInv, Kill \/ PowerFails
    PROVE  StagedInv'
<1> DEFINE failed == [step |-> "failed", at |-> 0]
<1>1. /\ commit' = "idle" /\ upload' = upload /\ faults' = faults + 1 /\ UNCHANGED <<checked, writer>>
      /\ puts' = [p \in Puts |-> IF puts[p].step \in {"unsent", "done"} THEN puts[p] ELSE failed]
  BY DEF Kill, PowerFails, Restart
<1>2. failed \in PutRecord /\ failed.step = "failed"
  BY DEF PutRecord
<1> HIDE DEF failed
<1>3. puts' \in [Puts -> PutRecord] /\ \A p \in Puts : puts'[p].step \notin Running
  BY <1>1, <1>2 DEF StagedInv, StagedTypes, Running
<1>4. /\ file' \in {file, flushed} /\ flushed' \in {file, flushed}
      /\ flushed = file => flushed' = file /\ file' = file
      /\ place' \in {place, "staging"} /\ (place' # place => ~renamed)
      /\ renamed' = renamed \/ renamed' = TRUE
      /\ renamed' = renamed => renamed = TRUE \/ place' = place
      /\ digest' \in {digest, None}
  BY DEF Kill, PowerFails, StagedInv, StagedTypes
<1>5. StagedTypes'
  <2>1. faults' \in Nat
    BY <1>1 DEF StagedInv, StagedTypes
  <2>2. /\ file' \in Seq(Sent \cup {Hole}) /\ flushed' \in Seq(Sent \cup {Hole})
        /\ place' \in {"staging", "item", "gone"} /\ renamed' \in BOOLEAN
    BY <1>4 DEF StagedInv, StagedTypes
  <2>3. upload' \in {"ticket", "finished", "aborted"} /\ checked' \in BOOLEAN /\ writer' \in Puts \cup {None}
    BY <1>1 DEF StagedInv, StagedTypes
  <2>4. QED
    BY <1>1, <1>3, <2>1, <2>2, <2>3 DEF StagedTypes
<1>6. OneAtATime' /\ WrittenSoFar'
  BY <1>3 DEF OneAtATime, WrittenSoFar, Running
<1>7. DigestVouches' /\ SentByOne'
  BY <1>1, <1>4 DEF StagedInv, DigestVouches, SentByOne, OfOne, StagedTypes
<1>8. QED
  BY <1>5, <1>6, <1>7 DEF StagedInv

\* Every step keeps the staged file's invariant, where requests do not overlap.
LEMMA StepStaged == Overlap = FALSE /\ StagedInv /\ [Next]_vars => StagedInv'
<1> SUFFICES ASSUME Overlap = FALSE, StagedInv, [Next]_vars PROVE StagedInv'
  OBVIOUS
<1>1. CASE UNCHANGED vars
  BY <1>1 DEF vars, StagedInv, StagedTypes, OneAtATime, WrittenSoFar, DigestVouches, Holds, SentByOne, OfOne
<1>2. QED
  BY <1>1, StartPutSafe, ForgetDigestSafe, TruncateSafe, WritePieceSafe, FlushContentSafe,
     NoteDigestSafe, CutShortSafe, CommitSafe, RestartSafe DEF Next

\* An upload just begun satisfies it.
LEMMA InitStaged == Init => StagedInv
<1> SUFFICES ASSUME Init PROVE StagedInv
  OBVIOUS
<1> DEFINE record == [step |-> "unsent", at |-> 0]
<1>1. record \in PutRecord /\ record.step = "unsent"
  BY DEF PutRecord
<1>2. puts = [p \in Puts |-> record]
  BY DEF Init
<1> HIDE DEF record
<1>3. <<>> \in Seq(Sent \cup {Hole})
  OBVIOUS
<1>4. StagedTypes
  BY <1>1, <1>2, <1>3 DEF Init, StagedTypes
<1>5. OneAtATime /\ WrittenSoFar /\ DigestVouches /\ SentByOne
  BY <1>1, <1>2 DEF Init, OneAtATime, WrittenSoFar, DigestVouches, SentByOne, OfOne, Running
<1>6. QED
  BY <1>4, <1>5 DEF StagedInv

\* Where the requests for an upload come one after the other, a digest beside a staging
\* place is of the content in it, whatever is killed, cut short or lost with the power and
\* however often content is sent: checking the digest is checking the content.
THEOREM DigestsAreOfTheContent ==
    ASSUME Overlap = FALSE
    PROVE  Spec => []DigestIsOfTheContent
<1>1. StagedInv => DigestIsOfTheContent
  BY DEF StagedInv, DigestVouches, DigestIsOfTheContent
<1>2. StagedInv /\ [Next]_vars => StagedInv'
  BY StepStaged
<1>3. QED
  BY <1>1, <1>2, InitStaged, PTL DEF Spec

\* What a step does to the item, however many faults there are.
LEMMA StepItem ==
    Overlap = FALSE /\ StagedInv /\ ItemInv /\ [Next]_vars => ItemInv'
<1> SUFFICES ASSUME Overlap = FALSE, StagedInv, ItemInv, [Next]_vars
             PROVE  ItemInv'
  OBVIOUS
<1>0. /\ faults \in Nat /\ puts \in [Puts -> PutRecord] /\ writer \in Puts \cup {None} /\ None \notin Puts
      /\ checked \in BOOLEAN
  BY StagedFileAssumption DEF StagedInv, StagedTypes
<1>1. ASSUME NEW p \in Puts, StartPut(p) PROVE ItemInv'
  <2> DEFINE step == CASE upload = "finished" -> "done"
                       [] upload # "finished" /\ (upload = "aborted" \/ place # "staging") -> "failed"
                       [] OTHER -> "begun"
  <2>1. /\ puts[p].step = "unsent" /\ Move(p, step)
        /\ UNCHANGED <<place, file, flushed, renamed, digest, checked, writer, upload, commit, faults>>
    BY <1>1 DEF StartPut
  <2>2. step \in {"done", "failed", "begun"}
    BY DEF StagedInv, StagedTypes
  <2> HIDE DEF step
  <2>3. \A q \in Puts \ {p} : puts'[q] = puts[q]
    BY <2>1, <2>2, MoveTypes DEF StagedInv, Running
  <2>4. writer # None => writer \in Puts \ {p}
    BY <1>0, <2>1 DEF ItemInv
  <2>5. Acknowledged' <=> Acknowledged
    BY <2>1, <2>3, <2>4 DEF Acknowledged
  <2>6. QED
    BY <2>1, <2>3, <2>4, <2>5 DEF ItemInv
<1>2. ASSUME NEW p \in Puts,
             \/ ForgetDigest(p) \/ Truncate(p) \/ WritePiece(p)
             \/ FlushContent(p) \/ NoteDigest(p) \/ CutShort(p)
      PROVE  ItemInv'
  <2>1. /\ puts[p].step \in Running /\ UNCHANGED <<place, commit, upload, renamed, faults, checked>>
        /\ place = "staging" /\ commit = "idle" /\ upload = "ticket"
    <3>1. puts[p].step \in Running /\ UNCHANGED <<place, commit, upload, renamed, faults, checked>>
      BY <1>2 DEF ForgetDigest, Truncate, WritePiece, FlushContent, NoteDigest, CutShort, Running
    <3>2. QED
      BY <3>1 DEF StagedInv, OneAtATime
  <2>2. ASSUME Acknowledged' => flushed' = file',
               writer' # None => puts'[writer'].step \in {"writing", "flushed", "done", "failed"}
        PROVE  ItemInv'
    BY <2>1, <2>2 DEF ItemInv
  <2>3. CASE ForgetDigest(p)
    <3>1. Move(p, "cleared") /\ puts[p].step = "begun" /\ UNCHANGED <<file, flushed, writer>>
      BY <2>3 DEF ForgetDigest
    <3>2. writer # None => writer \in Puts \ {p}
      BY <1>0, <3>1 DEF ItemInv
    <3>3. \A q \in Puts \ {p} : puts'[q] = puts[q]
      BY <3>1, MoveTypes DEF StagedInv, Running
    <3>4. QED
      BY <2>2, <3>1, <3>2, <3>3 DEF ItemInv, Acknowledged
  <2>4. CASE Truncate(p)
    <3>1. /\ puts[p].step = "cleared" /\ writer' = p
          /\ puts' = [puts EXCEPT ![p] = [step |-> "writing", at |-> 0]]
      BY <2>1, <2>4 DEF Truncate
    <3>2. puts'[p].step = "writing"
      BY <1>0, <3>1
    <3>3. QED
      BY <2>2, <3>1, <3>2 DEF Acknowledged
  <2>5. CASE WritePiece(p)
    <3>1. puts[p].step = "writing" /\ writer = p /\ writer' = p /\ puts' = [puts EXCEPT ![p].at = puts[p].at + 1]
      BY <2>5 DEF WritePiece, StagedInv, WrittenSoFar
    <3>2. puts'[p].step = "writing"
      BY <1>0, <3>1 DEF PutRecord
    <3>3. QED
      BY <2>2, <3>1, <3>2 DEF Acknowledged
  <2>6. CASE FlushContent(p)
    <3>1. flushed' = file /\ file' = file /\ writer = p /\ writer' = p
      BY <2>6 DEF FlushContent, StagedInv, WrittenSoFar
    <3>2. puts'[p].step \in {"flushed", "done"}
      BY <1>0, <2>6 DEF FlushContent, Move, PutRecord
    <3>3. QED
      BY <2>2, <3>1, <3>2
  <2>7. CASE NoteDigest(p)
    <3>1. flushed = file /\ UNCHANGED <<file, flushed>> /\ writer = p /\ writer' = p /\ Move(p, "done")
      BY <2>7 DEF NoteDigest, StagedInv, WrittenSoFar
    <3>2. puts'[p].step = "done"
      BY <3>1, MoveTypes DEF StagedInv, Running
    <3>3. QED
      BY <2>2, <3>1, <3>2
  <2>8. CASE CutShort(p)
    <3>1. writer = p /\ writer' = p /\ Move(p, "failed")
      BY <2>8 DEF CutShort, StagedInv, WrittenSoFar
    <3>2. puts'[p].step = "failed"
      BY <3>1, MoveTypes DEF StagedInv, Running
    <3>3. QED
      BY <2>2, <3>1, <3>2 DEF Acknowledged
  <2>9. QED
    BY <1>2, <2>3, <2>4, <2>5, <2>6, <2>7, <2>8
<1>3. ASSUME \/ CheckSize \/ CheckContent \/ Rename \/ SettleRename \/ RecordCommit
             \/ FinishRecord \/ EndUpload \/ RemoveStaged
      PROVE  ItemInv'
  <2>1. UNCHANGED <<file, flushed, checked, writer, puts, faults>> /\ (Acknowledged' <=> Acknowledged)
    BY <1>3 DEF CheckSize, CheckContent, Rename, SettleRename, RecordCommit, FinishRecord, EndUpload,
       RemoveStaged, Acknowledged
  <2>2. CASE CheckSize \/ RecordCommit \/ EndUpload
    BY <2>1, <2>2 DEF CheckSize, RecordCommit, EndUpload, ItemInv
  <2>3. CASE CheckContent
    BY <2>1, <2>3 DEF CheckContent, ItemInv
  <2>4. CASE Rename
    <3>1. /\ commit = "checked" /\ place' = "item" /\ renamed' = FALSE /\ commit' = "renamed"
          /\ UNCHANGED <<digest, upload>>
      BY <2>4 DEF Rename
    <3>2. checked => digest # None
      <4>1. Whole(Right) \in Seq(Sent \cup {Right})
        BY StagedFileAssumption DEF Whole, First
      <4>2. QED
        BY <3>1, <4>1, StagedFileAssumption DEF ItemInv, Sent
    <3>3. checked => file = Whole(Right) /\ flushed = file
      BY <3>1, <3>2 DEF ItemInv, StagedInv, DigestVouches
    <3>4. QED
      BY <2>1, <3>1, <3>3 DEF ItemInv
  <2>5. CASE SettleRename
    BY <2>1, <2>5 DEF SettleRename, ItemInv
  <2>6. CASE FinishRecord
    BY <2>1, <2>6 DEF FinishRecord, ItemInv
  <2>7. CASE RemoveStaged
    <3>1. commit = "idle"
      BY <2>7, StartsAlone DEF RemoveStaged
    <3>2. QED
      BY <2>1, <2>7, <3>1 DEF RemoveStaged, ItemInv
  <2>8. QED
    BY <1>3, <2>2, <2>3, <2>4, <2>5, <2>6, <2>7
<1>4. ASSUME Kill \/ PowerFails PROVE ItemInv'
  <2> DEFINE failed == [step |-> "failed", at |-> 0]
  <2>1. /\ commit' = "idle" /\ UNCHANGED <<checked, writer, upload>> /\ faults' = faults + 1
        /\ puts' = [p \in Puts |-> IF puts[p].step \in {"unsent", "done"} THEN puts[p] ELSE failed]
    BY <1>4 DEF Kill, PowerFails, Restart
  <2>2. failed.step = "failed"
    OBVIOUS
  <2> HIDE DEF failed
  <2>3. /\ Acknowledged' => Acknowledged
        /\ writer # None => puts'[writer].step \in {"done", "failed"}
    BY <1>0, <2>1, <2>2 DEF Acknowledged, ItemInv
  <2>4. flushed = file => flushed' = flushed /\ file' = file
    BY <1>4 DEF Kill, PowerFails
  <2>5. /\ place' = place \/ ~renamed
        /\ place' = "item" => place = "item"
        /\ faults' > 0 /\ (faults > 0 => faults' > 1) /\ (faults > 1 => faults' > 1)
    BY <1>0, <1>4, <2>1 DEF Kill, PowerFails
  <2>6. upload = "finished" => place' = "item" \/ faults' > 1
    BY <2>5 DEF ItemInv
  <2>7. QED
    BY <2>1, <2>3, <2>4, <2>5, <2>6 DEF ItemInv
<1>5. CASE UNCHANGED vars
  BY <1>5 DEF vars, ItemInv, Acknowledged
<1>6. QED
  BY <1>1, <1>2, <1>3, <1>4, <1>5 DEF Next

\* What has every piece, and all of them from one request, is whole.
LEMMA OfOneIsWhole ==
    ASSUME StagedInv, Len(file) = Pieces
    PROVE  \E p \in Puts : file = Whole(Sends[p])
<1>1. file = [i \in 1 .. Pieces |-> file[i]] /\ 1 \in 1 .. Pieces
  BY StagedFileAssumption DEF StagedInv, StagedTypes
<1>2. file[1] \in Sent /\ \A i \in 1 .. Pieces : file[i] = file[1]
  BY <1>1 DEF StagedInv, SentByOne, OfOne
<1>3. PICK p \in Puts : file[1] = Sends[p]
  BY <1>2 DEF Sent
<1>4. QED
  BY <1>1, <1>2, <1>3 DEF Whole, First

\* Where the requests for an upload come one after the other, and however many of them, kills
\* and power failures there are: an item whose content was checked, or was acknowledged when
\* it was sent, is whole what one request sent and on the disk, and the content `meta` tells
\* of where that is checked; and a finished upload is an item unless two faults took it.
THEOREM ItemsAreWhole ==
    ASSUME Overlap = FALSE
    PROVE  Spec => []ItemIsWhole
<1>1. StagedInv /\ ItemInv => ItemIsWhole
  <2> SUFFICES ASSUME StagedInv, ItemInv PROVE ItemIsWhole
    OBVIOUS
  <2>1. place = "item" /\ (checked \/ Acknowledged) => \E p \in Puts : file = Whole(Sends[p])
    BY OfOneIsWhole DEF ItemInv
  <2>2. upload = "finished" /\ faults < 2 => place = "item"
    BY DEF ItemInv, StagedInv, StagedTypes
  <2>3. QED
    BY <2>1, <2>2 DEF ItemInv, ItemIsWhole
<1>2. StagedInv /\ [Next]_vars => StagedInv'
  BY StepStaged
<1>3. StagedInv /\ ItemInv /\ [Next]_vars => ItemInv'
  BY StepItem
<1>4. Init => ItemInv
  BY DEF Init, ItemInv, Acknowledged
<1>5. QED
  BY <1>1, <1>2, <1>3, <1>4, InitStaged, PTL DEF Spec

-----------------------------------------------------------------------------
(* The rows of a record, and the threads of any number of processes. *)

\* What is written is what is read again.
LEMMA ReadsWhatWasWritten ==
    ASSUME NEW r, IsRecord(r)
    PROVE  ReadRows(Write(r)) = r
<1> DEFINE row == RowOf(r)
           rows == Write(r)
<1>1. /\ rows.workspaces = row /\ rows.generations = r.used /\ rows.uploads = r.tickets
      /\ rows.tombstones = r.tombstones /\ rows.ended_rewrites = r.ended
  BY DEF Write
<1>2. /\ row.generation = r.generation /\ row.plain = r.plain /\ row.next_generation = r.next
      /\ row.seal_key = IF r.seal = Null THEN Null ELSE r.seal.key
      /\ row.seal_header = IF r.seal = Null THEN Null ELSE r.seal.header
      /\ row.rw_kind = IF r.session = Null THEN Null ELSE r.session.kind
      /\ row.rw_next_key = IF r.session = Null THEN Null ELSE r.session.next.key
      /\ row.rw_next_header = IF r.session = Null THEN Null ELSE r.session.next.header
      /\ row.rw_holder = IF r.session = Null THEN Null ELSE r.session.holder
      /\ row.rw_lease_expires_at = IF r.session = Null THEN Null ELSE r.session.lease
      /\ row.rw_staged_generation = IF r.session = Null THEN Null ELSE r.session.staged
  BY DEF RowOf
<1> HIDE DEF row, rows
<1>3. SealFrom(row) = r.seal
  BY <1>2 DEF SealFrom, IsRecord
<1>4. SessionFrom(row) = r.session
  <2>1. CASE r.session = Null
    BY <1>2, <2>1 DEF SessionFrom
  <2>2. CASE r.session # Null
    <3>1. row.rw_kind # Null /\ row.rw_kind = r.session.kind
      BY <1>2, <2>2 DEF IsRecord
    <3>2. SessionFrom(row) = [kind |-> r.session.kind, holder |-> r.session.holder,
                              lease |-> r.session.lease, staged |-> r.session.staged,
                              next |-> [key |-> r.session.next.key, header |-> r.session.next.header]]
      BY <1>2, <2>2, <3>1 DEF SessionFrom
    <3>3. QED
      BY <2>2, <3>2 DEF IsRecord
  <2>3. QED
    BY <2>1, <2>2
<1>5. ReadRows(rows) = [seal |-> r.seal, session |-> r.session, generation |-> r.generation,
                        plain |-> r.plain, next |-> r.next, used |-> r.used, tickets |-> r.tickets,
                        tombstones |-> r.tombstones, ended |-> r.ended]
  BY <1>1, <1>2, <1>3, <1>4 DEF ReadRows
<1>6. QED
  BY <1>5 DEF IsRecord, rows

\* What a thread has selected is of records stored since it began, and where no other
\* process stored one, of the one the tables hold.
LoadIsSound(load, record, rows) ==
    /\ record \in load.meanwhile
    /\ \A x \in DOMAIN load.rows : \E r \in load.meanwhile : load.rows[x] = Write(r)[x]
    /\ ~load.beside => \A x \in DOMAIN load.rows : load.rows[x] = rows[x]

RowsInv ==
    /\ stored \in Records \cup {Fresh} /\ tables = Write(stored)
    /\ connections = [p \in Processes |-> connections[p]]
    /\ loads = [t \in AllThreads |-> [rows |-> loads[t].rows, meanwhile |-> loads[t].meanwhile,
                                      beside |-> loads[t].beside]]
    /\ \A t \in AllThreads :
          IF connections[ProcessOf(t)] = t
          THEN loads[t].meanwhile \subseteq Records \cup {Fresh} /\ LoadIsSound(loads[t], stored, tables)
          ELSE loads[t] = NoLoad

\* Every thread has its process.
LEMMA ThreadsHaveProcesses ==
    ASSUME NEW t \in AllThreads
    PROVE  ProcessOf(t) \in Processes /\ t \in Threads[ProcessOf(t)] /\ t # Null
<1>1. \E p \in Processes : t \in Threads[p]
  BY DEF AllThreads
<1>2. ProcessOf(t) \in Processes /\ t \in Threads[ProcessOf(t)]
  BY <1>1 DEF ProcessOf
<1>3. QED
  BY <1>2, RowsAssumption

\* Every record there is is spelled by its rows.
LEMMA RecordsAreRecords ==
    ASSUME NEW r \in Records \cup {Fresh}
    PROVE  ReadRows(Write(r)) = r
<1>1. IsRecord(Fresh)
  BY DEF Fresh, IsRecord
<1>2. QED
  BY <1>1, RowsAssumption, ReadsWhatWasWritten

\* A load changes, and no other does.
LEMMA LoadMoves ==
    ASSUME RowsInv, NEW t \in AllThreads, NEW load,
           load = [rows |-> load.rows, meanwhile |-> load.meanwhile, beside |-> load.beside],
           loads' = [loads EXCEPT ![t] = load]
    PROVE  /\ loads'[t] = load
           /\ \A u \in AllThreads \ {t} : loads'[u] = loads[u]
           /\ loads' = [u \in AllThreads |-> [rows |-> loads'[u].rows, meanwhile |-> loads'[u].meanwhile,
                                              beside |-> loads'[u].beside]]
<1>1. /\ loads' = [u \in AllThreads |-> loads'[u]] /\ loads'[t] = load
      /\ \A u \in AllThreads : u # t => loads'[u] = loads[u]
  BY DEF RowsInv
<1>2. \A u \in AllThreads : loads'[u] = [rows |-> loads'[u].rows, meanwhile |-> loads'[u].meanwhile,
                                         beside |-> loads'[u].beside]
  BY <1>1 DEF RowsInv
<1>3. QED
  BY <1>1, <1>2

\* A transaction finds its process's connection free, so a load it comes into is of another
\* process.
LEMMA TransactSafe ==
    ASSUME RowsInv, NEW t \in AllThreads, NEW r \in Records, Transact(t, r)
    PROVE  RowsInv'
<1>1. /\ connections[ProcessOf(t)] = Null /\ stored' = r /\ connections' = connections
      /\ tables' = IF r = ReadRows(tables) THEN tables ELSE Write(r)
      /\ loads' = [u \in AllThreads |-> Seen(u, t, r)]
  BY DEF Transact
<1>2. tables' = Write(r)
  <2>1. ReadRows(tables) = stored
    BY RecordsAreRecords DEF RowsInv
  <2>2. QED
    BY <1>1, <2>1 DEF RowsInv
<1>3. ASSUME NEW u \in AllThreads, connections[ProcessOf(u)] # u PROVE loads'[u] = NoLoad
  BY <1>1, <1>3 DEF RowsInv, Seen
<1>4. ASSUME NEW u \in AllThreads, connections[ProcessOf(u)] = u
      PROVE  /\ loads'[u] = [rows |-> loads[u].rows, meanwhile |-> loads[u].meanwhile \cup {r}, beside |-> TRUE]
             /\ LoadIsSound(loads'[u], r, tables')
             /\ loads'[u].meanwhile \subseteq Records \cup {Fresh}
  <2>1. ProcessOf(u) # ProcessOf(t)
    BY <1>1, <1>4, ThreadsHaveProcesses
  <2>2. /\ LoadIsSound(loads[u], stored, tables) /\ loads[u].meanwhile \subseteq Records \cup {Fresh}
        /\ loads[u] = [rows |-> loads[u].rows, meanwhile |-> loads[u].meanwhile, beside |-> loads[u].beside]
    BY <1>4 DEF RowsInv
  <2>3. loads[u] # NoLoad
    <3>1. loads[u].meanwhile # {}
      BY <2>2 DEF LoadIsSound
    <3>2. QED
      BY <3>1 DEF NoLoad
  <2>4. loads'[u] = [loads[u] EXCEPT !.meanwhile = @ \cup {r}, !.beside = @ \/ ProcessOf(u) # ProcessOf(t)]
    BY <1>1, <2>3 DEF Seen
  <2>5. loads'[u] = [rows |-> loads[u].rows, meanwhile |-> loads[u].meanwhile \cup {r}, beside |-> TRUE]
    BY <2>1, <2>2, <2>4
  <2>6. /\ loads'[u].rows = loads[u].rows /\ loads'[u].meanwhile = loads[u].meanwhile \cup {r}
        /\ loads'[u].beside = TRUE
    BY <2>5
  <2>7. QED
    BY <2>2, <2>5, <2>6 DEF LoadIsSound
<1>5. ASSUME NEW u \in AllThreads
      PROVE  loads'[u] = [rows |-> loads'[u].rows, meanwhile |-> loads'[u].meanwhile,
                          beside |-> loads'[u].beside]
  <2>1. CASE connections[ProcessOf(u)] = u
    BY <1>4, <2>1
  <2>2. CASE connections[ProcessOf(u)] # u
    BY <1>3, <2>2 DEF NoLoad
  <2>3. QED
    BY <2>1, <2>2
<1>6. loads' = [u \in AllThreads |-> [rows |-> loads'[u].rows, meanwhile |-> loads'[u].meanwhile,
                                      beside |-> loads'[u].beside]]
  BY <1>1, <1>5
<1>7. QED
  BY <1>1, <1>2, <1>3, <1>4, <1>6 DEF RowsInv

\* A load begins with nothing selected.
LEMMA StartLoadSafe ==
    ASSUME RowsInv, NEW t \in AllThreads, StartLoad(t)
    PROVE  RowsInv'
<1> DEFINE load == [rows |-> <<>>, meanwhile |-> {stored}, beside |-> FALSE]
<1>1. /\ connections[ProcessOf(t)] = Null /\ connections' = [connections EXCEPT ![ProcessOf(t)] = t]
      /\ loads' = [loads EXCEPT ![t] = load] /\ UNCHANGED <<tables, stored>>
  BY DEF StartLoad
<1>2. /\ load = [rows |-> load.rows, meanwhile |-> load.meanwhile, beside |-> load.beside]
      /\ load.meanwhile = {stored} /\ DOMAIN load.rows = {}
  OBVIOUS
<1> HIDE DEF load
<1>3. /\ loads'[t] = load /\ \A u \in AllThreads \ {t} : loads'[u] = loads[u]
      /\ loads' = [u \in AllThreads |-> [rows |-> loads'[u].rows, meanwhile |-> loads'[u].meanwhile,
                                         beside |-> loads'[u].beside]]
  BY <1>1, <1>2, LoadMoves
<1>4. /\ connections' = [p \in Processes |-> connections'[p]]
      /\ connections'[ProcessOf(t)] = t
      /\ \A p \in Processes : p # ProcessOf(t) => connections'[p] = connections[p]
  BY <1>1, ThreadsHaveProcesses DEF RowsInv
<1>5. ASSUME NEW u \in AllThreads \ {t}
      PROVE  connections'[ProcessOf(u)] = u <=> connections[ProcessOf(u)] = u
  BY <1>1, <1>4, ThreadsHaveProcesses
<1>6. LoadIsSound(loads'[t], stored, tables) /\ loads'[t].meanwhile \subseteq Records \cup {Fresh}
  BY <1>2, <1>3 DEF LoadIsSound, RowsInv
<1>7. QED
  BY <1>1, <1>3, <1>4, <1>5, <1>6 DEF RowsInv

\* A statement of a load selects what the tables hold then.
LEMMA SelectSafe ==
    ASSUME RowsInv, NEW t \in AllThreads, Select(t)
    PROVE  RowsInv'
<1> DEFINE had == DOMAIN loads[t].rows
           table == SelectOrder[Cardinality(had) + 1]
           now == [x \in had \cup {table} |-> IF x = table THEN tables[x] ELSE loads[t].rows[x]]
           load == [loads[t] EXCEPT !.rows = now]
<1>1. /\ connections[ProcessOf(t)] = t
      /\ loads' = [loads EXCEPT ![t] = load] /\ UNCHANGED <<tables, stored, connections>>
  BY DEF Select
<1>2. /\ LoadIsSound(loads[t], stored, tables) /\ loads[t].meanwhile \subseteq Records \cup {Fresh}
      /\ loads[t] = [rows |-> loads[t].rows, meanwhile |-> loads[t].meanwhile, beside |-> loads[t].beside]
  BY <1>1 DEF RowsInv
<1>3. /\ \A x \in DOMAIN now : \E r \in loads[t].meanwhile : now[x] = Write(r)[x]
      /\ ~loads[t].beside => \A x \in DOMAIN now : now[x] = tables[x]
  <2> HIDE DEF table
  <2>1. DOMAIN now = had \cup {table} /\ now[table] = tables[table]
    OBVIOUS
  <2>2. \A x \in had : x # table => now[x] = loads[t].rows[x]
    OBVIOUS
  <2>3. now[table] = Write(stored)[table] /\ stored \in loads[t].meanwhile
    BY <1>2, <2>1 DEF LoadIsSound, RowsInv
  <2> HIDE DEF now
  <2>4. QED
    BY <1>2, <2>1, <2>2, <2>3 DEF LoadIsSound
<1> HIDE DEF now
<1>4. load = [rows |-> now, meanwhile |-> loads[t].meanwhile, beside |-> loads[t].beside]
  BY <1>2
<1>5. /\ load.rows = now /\ load.meanwhile = loads[t].meanwhile /\ load.beside = loads[t].beside
      /\ load = [rows |-> load.rows, meanwhile |-> load.meanwhile, beside |-> load.beside]
  BY <1>4
<1> HIDE DEF load
<1>6. /\ loads'[t] = load /\ \A u \in AllThreads \ {t} : loads'[u] = loads[u]
      /\ loads' = [u \in AllThreads |-> [rows |-> loads'[u].rows, meanwhile |-> loads'[u].meanwhile,
                                         beside |-> loads'[u].beside]]
  BY <1>1, <1>5, LoadMoves
<1>7. LoadIsSound(loads'[t], stored, tables) /\ loads'[t].meanwhile \subseteq Records \cup {Fresh}
  BY <1>2, <1>3, <1>5, <1>6 DEF LoadIsSound
<1>8. QED
  BY <1>1, <1>6, <1>7 DEF RowsInv

\* A load that ends leaves its process's connection to the next.
LEMMA EndLoadSafe ==
    ASSUME RowsInv, NEW t \in AllThreads, EndLoad(t)
    PROVE  RowsInv'
<1>1. /\ connections[ProcessOf(t)] = t /\ connections' = [connections EXCEPT ![ProcessOf(t)] = Null]
      /\ loads' = [loads EXCEPT ![t] = NoLoad] /\ UNCHANGED <<tables, stored>>
  BY DEF EndLoad
<1>2. NoLoad = [rows |-> NoLoad.rows, meanwhile |-> NoLoad.meanwhile, beside |-> NoLoad.beside]
  BY DEF NoLoad
<1>3. /\ loads'[t] = NoLoad /\ \A u \in AllThreads \ {t} : loads'[u] = loads[u]
      /\ loads' = [u \in AllThreads |-> [rows |-> loads'[u].rows, meanwhile |-> loads'[u].meanwhile,
                                         beside |-> loads'[u].beside]]
  BY <1>1, <1>2, LoadMoves
<1>4. /\ connections' = [p \in Processes |-> connections'[p]]
      /\ connections'[ProcessOf(t)] = Null
      /\ \A p \in Processes : p # ProcessOf(t) => connections'[p] = connections[p]
  BY <1>1, ThreadsHaveProcesses DEF RowsInv
<1>5. ASSUME NEW u \in AllThreads \ {t}
      PROVE  connections'[ProcessOf(u)] = u <=> connections[ProcessOf(u)] = u
  BY <1>1, <1>4, ThreadsHaveProcesses
<1>6. connections'[ProcessOf(t)] # t
  BY <1>4, ThreadsHaveProcesses
<1>7. QED
  BY <1>1, <1>3, <1>4, <1>5, <1>6 DEF RowsInv

\* Whatever processes and threads use the database: every table of a load is of a record
\* stored while it loaded, and the load is one record where no other process stored one.
THEOREM LoadsAreOfStoredRecords == RowsSpec => []LoadsWhatWasStored
<1>1. RowsInit => RowsInv
  <2> SUFFICES ASSUME RowsInit PROVE RowsInv
    OBVIOUS
  <2>1. NoLoad = [rows |-> NoLoad.rows, meanwhile |-> NoLoad.meanwhile, beside |-> NoLoad.beside]
    BY DEF NoLoad
  <2>2. /\ loads = [t \in AllThreads |-> NoLoad] /\ connections = [p \in Processes |-> Null]
        /\ stored = Fresh /\ tables = Write(Fresh)
    BY DEF RowsInit
  <2>3. \A t \in AllThreads : connections[ProcessOf(t)] # t
    BY <2>2, ThreadsHaveProcesses
  <2>4. QED
    BY <2>1, <2>2, <2>3 DEF RowsInv
<1>2. RowsInv /\ [RowsNext]_database => RowsInv'
  <2> SUFFICES ASSUME RowsInv, [RowsNext]_database PROVE RowsInv'
    OBVIOUS
  <2>1. CASE UNCHANGED database
    BY <2>1 DEF database, RowsInv
  <2>2. QED
    BY <2>1, TransactSafe, StartLoadSafe, SelectSafe, EndLoadSafe DEF RowsNext
<1>3. RowsInv => LoadsWhatWasStored
  <2> SUFFICES ASSUME RowsInv PROVE LoadsWhatWasStored
    OBVIOUS
  <2>1. ReadRows(tables) = stored
    BY RecordsAreRecords DEF RowsInv
  <2>2. ASSUME NEW t \in AllThreads, Loaded(t)
        PROVE  /\ \A x \in Tables : \E r \in loads[t].meanwhile : loads[t].rows[x] = Write(r)[x]
               /\ ~loads[t].beside => ReadRows(loads[t].rows) \in loads[t].meanwhile
    <3>1. loads[t] # NoLoad
      BY <2>2 DEF Loaded, NoLoad, Tables
    <3>2. LoadIsSound(loads[t], stored, tables)
      BY <3>1 DEF RowsInv
    <3>3. ASSUME ~loads[t].beside PROVE ReadRows(loads[t].rows) = ReadRows(tables)
      <4>1. \A x \in Tables : loads[t].rows[x] = tables[x]
        BY <2>2, <3>2, <3>3 DEF LoadIsSound, Loaded
      <4>2. /\ loads[t].rows.workspaces = tables.workspaces
            /\ loads[t].rows.generations = tables.generations
            /\ loads[t].rows.uploads = tables.uploads
            /\ loads[t].rows.tombstones = tables.tombstones
            /\ loads[t].rows.ended_rewrites = tables.ended_rewrites
        BY <4>1 DEF Tables
      <4>3. QED
        BY <4>2 DEF ReadRows
    <3>4. QED
      BY <2>1, <2>2, <3>2, <3>3 DEF LoadIsSound, Loaded
  <2>3. QED
    BY <2>1, <2>2 DEF LoadsWhatWasStored, RowsHoldTheRecord
<1>4. QED
  BY <1>1, <1>2, <1>3, PTL DEF RowsSpec

-----------------------------------------------------------------------------
(* The files of a shelf. *)

Job ==
    [do : {Missing, "create", "publish", "remove", "drop", "unstage"}, step : 0 .. 3,
     u : Uploads \cup {Missing}, g : Gens \cup {Missing}, i : Items \cup {Missing},
     e : Envelopes \cup {Missing}, bin : Nat]

Put ==
    [step : {"idle", "begun", "cleared", "staged", "item", "adrift", "written"},
     u : Uploads \cup {Missing}, g : Gens \cup {Missing}, i : Items \cup {Missing}]

Opening ==
    [step : {"idle", "trash", "list", "sweep", "orphan", "failed"}, names : SUBSET Uploads,
     orphan : Uploads \cup {Missing}, anew : BOOLEAN]

ShelfTypes ==
    /\ staged \in [Uploads -> Dir \cup {Missing}]
    /\ digests \in SUBSET Uploads
    /\ items \in [Gens -> [Items -> Dir \cup {Missing}]]
    /\ trashed \in Nat
    /\ working \in [Workers -> Job]
    /\ opener \in Opening
    /\ up \in BOOLEAN

\* A job has what it works on.
JobIsWhole(job) ==
    /\ job.do \in {"create", "publish", "unstage"} => job.u \in Uploads
    /\ job.do \in {"publish", "remove", "drop"} => job.g \in Gens
    /\ job.do \in {"publish", "remove"} => job.i \in Items
    /\ job.do = "publish" => job.e \in Envelopes

HoldsLock(w) == working[w].do \in {"create", "publish", "remove"}
OneHolder == \A v, w \in Workers : HoldsLock(v) /\ HoldsLock(w) => v = w

\* What a publish has written so far is in the place it will rename, if that is still there;
\* nobody else writes envelopes under the lock.
Written(job) ==
    job.do = "publish" /\ job.step < 3 /\ staged[job.u] # Missing =>
        /\ staged[job.u].content # Missing
        /\ job.step > 0 => staged[job.u].meta = job.e
        /\ job.step > 1 => staged[job.u].server = job.e

\* An opening has looked before it removes, and knows of a place that was made since.
LooksFirst ==
    opener.step = "orphan" =>
        opener.orphan \in Uploads /\ (staged[opener.orphan] = Missing \/ opener.anew)

\* A PUT has its upload, and the file it has open is where it says.
PutIsWhole(put, places, filed) ==
    /\ put.step # "idle" => put.u \in Uploads
    /\ put.step = "staged" => places[put.u] # Missing
    /\ put.step = "item" => put.g \in Gens /\ put.i \in Items /\ filed[put.g][put.i] # Missing

SendersInv == sending \in [Senders -> Put] /\ \A s \in Senders : PutIsWhole(sending[s], staged, items)

\* What is in the trash is deleted by the one who put it there, or at the next opening.
Empties(w, n) ==
    working[w].do \in {"remove", "drop", "unstage"} /\ working[w].step = 1 /\ working[w].bin = n

TrashHasATaker ==
    /\ \A n \in trash : \/ \E w \in Workers : Empties(w, n)
                        \/ ~up /\ opener.step \in {"idle", "trash"}
    /\ ~up => \A w \in Workers : working[w] = Free

ShelfInv ==
    /\ ShelfTypes
    /\ \A w \in Workers : JobIsWhole(working[w]) /\ Written(working[w])
    /\ OneHolder /\ LooksFirst /\ TrashHasATaker /\ SendersInv

\* A worker at no operation is described by Free.
LEMMA FreeIsAJob == Free \in Job /\ Free.do = Missing /\ Free.step = 0 /\ Free.bin = 0
  BY DEF Free, Job

\* The strings that say what a job is are not Missing.
LEMMA MissingIsNoJob ==
    Missing \notin {"create", "publish", "remove", "drop", "unstage"} /\ Missing # Empty
        /\ Missing \notin Contents /\ Missing # Torn
  BY FsShelfAssumption

\* A worker goes on to a job, for which it has the lock or needs none.
LEMMA WorkerMoves ==
    ASSUME ShelfInv, NEW w \in Workers, NEW job \in Job, JobIsWhole(job),
           working' = [working EXCEPT ![w] = job],
           job.do \in {"create", "publish", "remove"} => HoldsLock(w) \/ ~Locked
    PROVE  /\ working' \in [Workers -> Job] /\ working'[w] = job
           /\ \A v \in Workers : v # w => working'[v] = working[v]
           /\ \A v \in Workers : JobIsWhole(working'[v])
           /\ OneHolder'
<1>1. /\ working' \in [Workers -> Job] /\ working'[w] = job
      /\ \A v \in Workers : v # w => working'[v] = working[v]
  BY DEF ShelfInv, ShelfTypes
<1>2. \A v \in Workers : JobIsWhole(working'[v])
  BY <1>1 DEF ShelfInv
<1>3. OneHolder'
  <2> SUFFICES ASSUME NEW v \in Workers, NEW x \in Workers, HoldsLock(v)', HoldsLock(x)'
               PROVE  v = x
    BY DEF OneHolder
  <2>1. CASE v # w /\ x # w
    BY <1>1, <2>1 DEF HoldsLock, OneHolder, ShelfInv
  <2>2. CASE v = w /\ x # w
    BY <1>1, <2>2 DEF HoldsLock, OneHolder, ShelfInv, Locked
  <2>3. CASE v # w /\ x = w
    BY <1>1, <2>3 DEF HoldsLock, OneHolder, ShelfInv, Locked
  <2>4. QED
    BY <2>1, <2>2, <2>3
<1>4. QED
  BY <1>1, <1>2, <1>3

\* Who works has the shelf open.
LEMMA WorksOnAnOpenShelf ==
    ASSUME ShelfInv, NEW w \in Workers, working[w].do # Missing
    PROVE  up
  BY FreeIsAJob DEF ShelfInv, TrashHasATaker

\* A step that puts nothing in the trash, of a worker that had nothing to take from it.
LEMMA TrashKeepsItsTakers ==
    ASSUME ShelfInv, up, NEW w \in Workers, \A v \in Workers : v # w => working'[v] = working[v],
           trash' \subseteq trash, \A n \in trash' : ~Empties(w, n), UNCHANGED <<up, opener>>
    PROVE  TrashHasATaker'
<1>1. ASSUME NEW n \in trash' PROVE \E v \in Workers : Empties(v, n)'
  <2>1. PICK v \in Workers : Empties(v, n)
    BY DEF ShelfInv, TrashHasATaker
  <2>2. v # w
    BY <2>1
  <2>3. QED
    BY <2>1, <2>2 DEF Empties
<1>2. QED
  BY <1>1 DEF TrashHasATaker

\* Places that stay keep their envelopes, and their content if they have one.
PlacesStay ==
    \A u \in Uploads :
        \/ staged'[u] = Missing
        \/ /\ staged[u] # Missing
           /\ staged'[u].meta = staged[u].meta /\ staged'[u].server = staged[u].server
           /\ staged[u].content # Missing => staged'[u].content # Missing

\* What a worker has written is there as long as its place is.
LEMMA WrittenStays ==
    ASSUME ShelfInv, PlacesStay, NEW v \in Workers, working'[v] = working[v]
    PROVE  Written(working[v])'
<1>1. JobIsWhole(working[v]) /\ Written(working[v])
  BY DEF ShelfInv
<1>2. QED
  BY <1>1 DEF PlacesStay, Written, JobIsWhole

\* Who makes no place takes no look back.
LEMMA LookStays ==
    ASSUME ShelfInv, \A x \in Uploads : staged'[x] # Missing => staged[x] # Missing, opener' = opener
    PROVE  LooksFirst'
  BY DEF ShelfInv, LooksFirst

\* Where no directory goes, every open file is where it was.
LEMMA SendersStay ==
    ASSUME ShelfInv, sending' = sending,
           \A x \in Uploads : staged[x] # Missing => staged'[x] # Missing,
           \A h \in Gens, j \in Items : items[h][j] # Missing => items'[h][j] # Missing
    PROVE  SendersInv'
<1>1. sending' \in [Senders -> Put] /\ \A s \in Senders : PutIsWhole(sending[s], staged, items) /\ sending'[s] = sending[s]
  BY DEF ShelfInv, SendersInv
<1>2. ASSUME NEW s \in Senders PROVE PutIsWhole(sending'[s], staged', items')
  BY <1>1 DEF PutIsWhole
<1>3. QED
  BY <1>1, <1>2 DEF SendersInv

\* A job is taken up.
LEMMA TakeSafe ==
    ASSUME ShelfInv, NEW w \in Workers, NEW job \in Job, JobIsWhole(job), Written(job),
           job.step = 0, ~Locked \/ job.do \in {"drop", "unstage"}, Take(w, job)
    PROVE  ShelfInv'
<1>1. /\ up /\ working[w] = Free /\ working' = [working EXCEPT ![w] = job]
      /\ UNCHANGED <<files, sending, reading, opener, up, kills>>
  BY DEF Take, Idly
<1>2. UNCHANGED <<staged, digests, items, trash, trashed, opener, up, sending>>
  BY <1>1 DEF files
<1>3. /\ working' \in [Workers -> Job] /\ working'[w] = job
      /\ \A v \in Workers : v # w => working'[v] = working[v]
      /\ \A v \in Workers : JobIsWhole(working'[v])
      /\ OneHolder'
  BY <1>1, WorkerMoves
<1>4. ShelfTypes'
  BY <1>2, <1>3 DEF ShelfInv, ShelfTypes
<1>5. \A v \in Workers : Written(working[v])'
  <2>1. PlacesStay
    BY <1>2 DEF PlacesStay
  <2>2. Written(working[w])'
    BY <1>2, <1>3 DEF Written
  <2>3. QED
    BY <1>3, <2>1, <2>2, WrittenStays
<1>6. LooksFirst' /\ SendersInv'
  BY <1>2, LookStays, SendersStay
<1>7. TrashHasATaker'
  <2>1. \A n \in trash' : ~Empties(w, n)
    BY <1>1, FreeIsAJob DEF Empties
  <2>2. QED
    BY <1>1, <1>2, <1>3, <2>1, TrashKeepsItsTakers
<1>8. QED
  BY <1>3, <1>4, <1>5, <1>6, <1>7 DEF ShelfInv

\* A worker goes on with its job, or is done with it.
LEMMA GoesOn ==
    ASSUME ShelfInv, NEW w \in Workers, NEW step \in 0 .. 3, On(w, step)
    PROVE  /\ working' \in [Workers -> Job]
           /\ working'[w].do = working[w].do /\ working'[w].step = step
           /\ working'[w].u = working[w].u /\ working'[w].g = working[w].g
           /\ working'[w].i = working[w].i /\ working'[w].e = working[w].e
           /\ \A v \in Workers : v # w => working'[v] = working[v]
           /\ \A v \in Workers : JobIsWhole(working'[v])
           /\ OneHolder'
<1> DEFINE job == [working[w] EXCEPT !.step = step]
<1>1. working[w] \in Job /\ JobIsWhole(working[w])
  BY DEF ShelfInv, ShelfTypes
<1>2. /\ job \in Job /\ job.do = working[w].do /\ job.step = step /\ job.u = working[w].u
      /\ job.g = working[w].g /\ job.i = working[w].i /\ job.e = working[w].e
  BY <1>1 DEF Job
<1>3. working' = [working EXCEPT ![w] = job]
  BY DEF On
<1> HIDE DEF job
<1>4. JobIsWhole(job)
  BY <1>1, <1>2 DEF JobIsWhole
<1>5. QED
  BY <1>2, <1>3, <1>4, WorkerMoves DEF HoldsLock

\* A worker leaves its operation.
LEMMA IsDone ==
    ASSUME ShelfInv, NEW w \in Workers, Leave(w)
    PROVE  /\ working' \in [Workers -> Job] /\ working'[w] = Free
           /\ \A v \in Workers : v # w => working'[v] = working[v]
           /\ \A v \in Workers : JobIsWhole(working'[v])
           /\ OneHolder'
<1>1. JobIsWhole(Free)
  BY FreeIsAJob, MissingIsNoJob DEF JobIsWhole
<1>2. QED
  BY <1>1, FreeIsAJob, MissingIsNoJob, WorkerMoves DEF Leave

\* An operation of the shelf is taken up.
LEMMA BeginSafe ==
    ASSUME ShelfInv, NEW w \in Workers, Begin(w)
    PROVE  ShelfInv'
<1>0. Missing \notin {"create", "publish", "remove", "drop", "unstage"} /\ Missing \notin Contents
  BY MissingIsNoJob
<1>1. ASSUME NEW u \in Uploads, StartUnstage(w, u) PROVE ShelfInv'
  <2> DEFINE job == [Free EXCEPT !.do = "unstage", !.u = u]
  <2>1. Take(w, job)
    BY <1>1 DEF StartUnstage
  <2>2. job \in Job /\ job.do = "unstage" /\ job.u = u /\ job.step = 0
    BY FreeIsAJob DEF Job
  <2> HIDE DEF job
  <2>3. JobIsWhole(job) /\ Written(job)
    BY <2>2 DEF JobIsWhole, Written
  <2>4. QED
    BY <2>1, <2>2, <2>3, TakeSafe
<1>2. ASSUME NEW u \in Uploads, NEW g \in Gens, NEW i \in Items, NEW e \in Envelopes,
             StartPublish(w, u, g, i, e)
      PROVE  ShelfInv'
  <2> DEFINE job == [Free EXCEPT !.do = "publish", !.u = u, !.g = g, !.i = i, !.e = e]
  <2>1. ~Locked /\ staged[u].content # Missing /\ Take(w, job)
    BY <1>2 DEF StartPublish
  <2>2. /\ job \in Job /\ job.do = "publish" /\ job.u = u /\ job.g = g /\ job.i = i /\ job.e = e
        /\ job.step = 0
    BY FreeIsAJob DEF Job
  <2> HIDE DEF job
  <2>3. JobIsWhole(job) /\ Written(job)
    BY <1>0, <2>1, <2>2 DEF JobIsWhole, Written
  <2>4. QED
    BY <2>1, <2>2, <2>3, TakeSafe
<1>3. ASSUME NEW g \in Gens, StartDrop(w, g) PROVE ShelfInv'
  <2> DEFINE job == [Free EXCEPT !.do = "drop", !.g = g]
  <2>1. Take(w, job)
    BY <1>3 DEF StartDrop
  <2>2. job \in Job /\ job.do = "drop" /\ job.g = g /\ job.step = 0
    BY FreeIsAJob DEF Job
  <2> HIDE DEF job
  <2>3. JobIsWhole(job) /\ Written(job)
    BY <2>2 DEF JobIsWhole, Written
  <2>4. QED
    BY <2>1, <2>2, <2>3, TakeSafe
<1>4. ASSUME NEW g \in Gens, NEW i \in Items, StartRemove(w, g, i) PROVE ShelfInv'
  <2> DEFINE job == [Free EXCEPT !.do = "remove", !.g = g, !.i = i]
  <2>1. ~Locked /\ Take(w, job)
    BY <1>4 DEF StartRemove
  <2>2. job \in Job /\ job.do = "remove" /\ job.g = g /\ job.i = i /\ job.step = 0
    BY FreeIsAJob DEF Job
  <2> HIDE DEF job
  <2>3. JobIsWhole(job) /\ Written(job)
    BY <2>2 DEF JobIsWhole, Written
  <2>4. QED
    BY <2>1, <2>2, <2>3, TakeSafe
<1>5. ASSUME NEW u \in Uploads, StartCreate(w, u) PROVE ShelfInv'
  <2> DEFINE job == [Free EXCEPT !.do = "create", !.u = u]
  <2>1. ~Locked /\ Take(w, job)
    BY <1>5 DEF StartCreate
  <2>2. job \in Job /\ job.do = "create" /\ job.u = u /\ job.step = 0
    BY FreeIsAJob DEF Job
  <2> HIDE DEF job
  <2>3. JobIsWhole(job) /\ Written(job)
    BY <2>2 DEF JobIsWhole, Written
  <2>4. QED
    BY <2>1, <2>2, <2>3, TakeSafe
<1>6. QED
  BY <1>1, <1>2, <1>3, <1>4, <1>5 DEF Begin

\* The lock holder's job is nobody else's.
LEMMA OthersDoNotPublish ==
    ASSUME ShelfInv, NEW w \in Workers, HoldsLock(w), NEW v \in Workers, v # w,
           working'[v] = working[v]
    PROVE  Written(working[v])'
<1>1. working[v].do # "publish"
  BY DEF ShelfInv, OneHolder, HoldsLock
<1>2. QED
  BY <1>1 DEF Written

\* The directory of a place (stage_create), which may be there already.
LEMMA MakeStagedDirSafe ==
    ASSUME ShelfInv, NEW w \in Workers, MakeStagedDir(w)
    PROVE  ShelfInv'
<1> DEFINE u == working[w].u
<1>1. /\ working[w].do = "create" /\ working[w].step = 0
      /\ staged' = [staged EXCEPT ![u] = IF @ = Missing THEN NewDir ELSE @] /\ On(w, 1)
      /\ opener' = [opener EXCEPT !.anew = @ \/ (staged[u] = Missing /\ opener.orphan = u)]
      /\ UNCHANGED <<digests, items, trash, trashed, sending, reading, up, kills>>
  BY DEF MakeStagedDir, At
<1>2. u \in Uploads
  BY <1>1 DEF ShelfInv, JobIsWhole
<1>3. NewDir \in Dir /\ NewDir # Missing
  BY MissingIsNoDirectory DEF NewDir, Dir
<1>4. /\ working' \in [Workers -> Job] /\ working'[w].do = "create" /\ working'[w].step = 1
      /\ \A v \in Workers : v # w => working'[v] = working[v]
      /\ \A v \in Workers : JobIsWhole(working'[v])
      /\ OneHolder'
  BY <1>1, GoesOn
<1> HIDE DEF u
<1>5. /\ staged' \in [Uploads -> Dir \cup {Missing}] /\ staged'[u] # Missing
      /\ \A x \in Uploads : x # u => staged'[x] = staged[x]
  BY <1>1, <1>2, <1>3 DEF ShelfInv, ShelfTypes
<1>6. /\ opener' \in Opening /\ opener'.step = opener.step /\ opener'.orphan = opener.orphan
      /\ opener'.anew = (opener.anew \/ (staged[u] = Missing /\ opener.orphan = u))
  <2>1. opener \in Opening
    BY DEF ShelfInv, ShelfTypes
  <2>2. QED
    BY <1>1, <2>1 DEF Opening
<1>7. ShelfTypes'
  BY <1>1, <1>4, <1>5, <1>6 DEF ShelfInv, ShelfTypes
<1>8. \A v \in Workers : Written(working[v])'
  <2>1. HoldsLock(w)
    BY <1>1 DEF HoldsLock
  <2>2. Written(working[w])'
    BY <1>4 DEF Written
  <2>3. QED
    BY <1>4, <2>1, <2>2, OthersDoNotPublish
<1>9. LooksFirst'
  <2> SUFFICES ASSUME opener.step = "orphan" PROVE LooksFirst'
    BY <1>6 DEF LooksFirst
  <2>1. opener.orphan \in Uploads /\ (staged[opener.orphan] = Missing \/ opener.anew)
    BY DEF ShelfInv, LooksFirst
  <2>2. staged'[opener.orphan] = Missing \/ opener'.anew
    BY <1>5, <1>6, <2>1
  <2>3. QED
    BY <1>6, <2>1, <2>2 DEF LooksFirst
<1>10. SendersInv'
  <2>1. \A x \in Uploads : staged[x] # Missing => staged'[x] # Missing
    BY <1>5
  <2>2. QED
    BY <1>1, <2>1, SendersStay
<1>11. TrashHasATaker'
  <2>1. up
    BY <1>1, WorksOnAnOpenShelf, MissingIsNoJob
  <2>2. ASSUME NEW n \in trash' PROVE \E v \in Workers : Empties(v, n)'
    <3>1. PICK v \in Workers : Empties(v, n)
      BY <1>1, <2>1, <2>2 DEF ShelfInv, TrashHasATaker
    <3>2. v # w
      BY <1>1, <3>1 DEF Empties
    <3>3. QED
      BY <1>4, <3>1, <3>2 DEF Empties
  <2>3. QED
    BY <1>1, <2>1, <2>2 DEF TrashHasATaker
<1>12. QED
  BY <1>4, <1>7, <1>8, <1>9, <1>10, <1>11 DEF ShelfInv

\* A place's content is edited, in a place that is there.
LEMMA ContentEdit ==
    ASSUME ShelfInv, NEW u \in Uploads, staged[u] # Missing,
           NEW content \in Contents \cup {Empty, Torn},
           staged' = [staged EXCEPT ![u].content = content]
    PROVE  /\ staged' \in [Uploads -> Dir \cup {Missing}]
           /\ \A x \in Uploads : x # u => staged'[x] = staged[x]
           /\ staged'[u] # Missing /\ staged'[u].content = content
           /\ PlacesStay
<1> DEFINE dir == [staged[u] EXCEPT !.content = content]
<1>1. staged[u] \in Dir
  BY DEF ShelfInv, ShelfTypes
<1>2. /\ dir \in Dir /\ dir.content = content /\ dir.meta = staged[u].meta
      /\ dir.server = staged[u].server
  BY <1>1 DEF Dir
<1>3. staged' = [staged EXCEPT ![u] = dir]
  OBVIOUS
<1> HIDE DEF dir
<1>4. /\ staged' \in [Uploads -> Dir \cup {Missing}] /\ staged'[u] = dir
      /\ \A x \in Uploads : x # u => staged'[x] = staged[x]
  BY <1>2, <1>3 DEF ShelfInv, ShelfTypes
<1>5. dir # Missing /\ content # Missing
  BY <1>2, MissingIsNoDirectory, MissingIsNoJob
<1>6. PlacesStay
  BY <1>2, <1>4, <1>5 DEF PlacesStay
<1>7. QED
  BY <1>2, <1>4, <1>5, <1>6

\* The file of a new place.
LEMMA CreateContentSafe ==
    ASSUME ShelfInv, NEW w \in Workers, CreateContent(w)
    PROVE  ShelfInv'
<1> DEFINE u == working[w].u
<1>1. /\ working[w].do = "create" /\ working[w].step = 1 /\ Leave(w)
      /\ UNCHANGED <<digests, items, trash, trashed>> /\ UNCHANGED <<sending, reading, opener, up, kills>>
  BY DEF CreateContent, At, Idly
<1>2. u \in Uploads
  BY <1>1 DEF ShelfInv, JobIsWhole
<1>3. IF staged[u] = Missing THEN staged' = staged
      ELSE staged' = [staged EXCEPT ![u].content = IF @ = Missing THEN Empty ELSE @]
  BY DEF CreateContent
<1>4. /\ working' \in [Workers -> Job] /\ working'[w] = Free
      /\ \A v \in Workers : v # w => working'[v] = working[v]
      /\ \A v \in Workers : JobIsWhole(working'[v])
      /\ OneHolder'
  BY <1>1, IsDone
<1> HIDE DEF u
<1>5. /\ staged' \in [Uploads -> Dir \cup {Missing}] /\ PlacesStay
      /\ \A x \in Uploads : staged'[x] # Missing <=> staged[x] # Missing
  <2>1. CASE staged[u] = Missing
    BY <1>3, <2>1 DEF PlacesStay, ShelfInv, ShelfTypes
  <2>2. CASE staged[u] # Missing
    <3> DEFINE content == IF staged[u].content = Missing THEN Empty ELSE staged[u].content
    <3>1. staged[u] \in Dir
      BY <1>2, <2>2 DEF ShelfInv, ShelfTypes
    <3>2. content \in Contents \cup {Empty, Torn}
      BY <3>1 DEF Dir
    <3>3. staged' = [staged EXCEPT ![u].content = content]
      BY <1>3, <2>2
    <3> HIDE DEF content
    <3>4. /\ staged' \in [Uploads -> Dir \cup {Missing}] /\ PlacesStay /\ staged'[u] # Missing
          /\ \A x \in Uploads : x # u => staged'[x] = staged[x]
      BY <1>2, <2>2, <3>2, <3>3, ContentEdit
    <3>5. QED
      BY <2>2, <3>4
  <2>3. QED
    BY <2>1, <2>2
<1>6. ShelfTypes'
  BY <1>1, <1>4, <1>5 DEF ShelfInv, ShelfTypes
<1>7. \A v \in Workers : Written(working[v])'
  <2>1. Written(working[w])'
    BY <1>4, FreeIsAJob, MissingIsNoJob DEF Written
  <2>2. QED
    BY <1>4, <1>5, <2>1, WrittenStays
<1>8. LooksFirst' /\ SendersInv'
  BY <1>1, <1>5, LookStays, SendersStay
<1>9. TrashHasATaker'
  <2>1. \A n \in trash' : ~Empties(w, n)
    BY <1>1 DEF Empties
  <2>2. up
    BY <1>1, WorksOnAnOpenShelf, MissingIsNoJob
  <2>3. QED
    BY <1>1, <1>4, <2>1, <2>2, TrashKeepsItsTakers
<1>10. QED
  BY <1>4, <1>6, <1>7, <1>8, <1>9 DEF ShelfInv

\* Nobody's job changes, and what is in the trash only goes.
LEMMA NobodyMoves ==
    ASSUME ShelfInv, working' = working, trash' \subseteq trash, up' = up,
           opener' = opener \/ trash' = {}
    PROVE  /\ \A v \in Workers : JobIsWhole(working'[v])
           /\ OneHolder' /\ TrashHasATaker'
<1>1. \A v \in Workers : working'[v] = working[v]
  OBVIOUS
<1>2. TrashHasATaker'
  BY <1>1 DEF ShelfInv, TrashHasATaker, Empties
<1>3. QED
  BY <1>1, <1>2 DEF ShelfInv, OneHolder, HoldsLock

\* Every directory is where it was, whatever its content became.
DirsStay ==
    /\ staged' \in [Uploads -> Dir \cup {Missing}] /\ PlacesStay
    /\ \A x \in Uploads : staged'[x] # Missing <=> staged[x] # Missing
    /\ items' \in [Gens -> [Items -> Dir \cup {Missing}]]
    /\ \A h \in Gens, j \in Items : items[h][j] # Missing => items'[h][j] # Missing

\* A PUT goes on (write, shelf/fs.rs), which needs no lock.
LEMMA PutGoesOn ==
    ASSUME ShelfInv, DirsStay, digests' \in SUBSET Uploads, Unmoved,
           NEW s \in Senders, NEW put \in Put, sending' = [sending EXCEPT ![s] = put],
           PutIsWhole(put, staged', items')
    PROVE  ShelfInv'
<1>1. UNCHANGED <<trash, trashed, working, opener, up>>
  BY DEF Unmoved
<1>2. ShelfTypes'
  BY <1>1 DEF ShelfInv, ShelfTypes, DirsStay
<1>3. \A v \in Workers : Written(working[v])'
  BY <1>1, WrittenStays DEF DirsStay
<1>4. LooksFirst'
  BY <1>1, LookStays DEF DirsStay
<1>5. SendersInv'
  <2>1. sending' \in [Senders -> Put] /\ sending'[s] = put
    BY DEF ShelfInv, SendersInv
  <2>2. ASSUME NEW x \in Senders PROVE PutIsWhole(sending'[x], staged', items')
    <3>1. CASE x = s
      BY <2>1, <3>1
    <3>2. CASE x # s
      <4>1. sending'[x] = sending[x] /\ PutIsWhole(sending[x], staged, items)
        BY <3>2 DEF ShelfInv, SendersInv
      <4>2. QED
        BY <4>1 DEF PutIsWhole, DirsStay
    <3>3. QED
      BY <3>1, <3>2
  <2>3. QED
    BY <2>1, <2>2 DEF SendersInv
<1>6. QED
  BY <1>1, <1>2, <1>3, <1>4, <1>5, NobodyMoves DEF ShelfInv

Refills(g, i, content) == items' = [items EXCEPT ![g][i].content = content]

\* An item's content is edited, in an item that is there.
LEMMA ItemEdit ==
    ASSUME ShelfInv, NEW g \in Gens, NEW i \in Items, items[g][i] # Missing,
           NEW content \in Contents \cup {Empty, Torn}, Refills(g, i, content)
    PROVE  /\ items' \in [Gens -> [Items -> Dir \cup {Missing}]]
           /\ \A h \in Gens, j \in Items : h # g \/ j # i => items'[h][j] = items[h][j]
           /\ items'[g][i] # Missing /\ items'[g][i].content = content
           /\ items'[g][i].meta = items[g][i].meta /\ items'[g][i].server = items[g][i].server
<1> DEFINE dir == [items[g][i] EXCEPT !.content = content]
<1>1. items \in [Gens -> [Items -> Dir \cup {Missing}]] /\ items[g][i] \in Dir
  BY DEF ShelfInv, ShelfTypes
<1>2. /\ dir \in Dir /\ dir.content = content /\ dir.meta = items[g][i].meta
      /\ dir.server = items[g][i].server
  BY <1>1 DEF Dir
<1>3. items' = [items EXCEPT ![g][i] = dir]
  BY <1>1 DEF Refills
<1> HIDE DEF dir
<1>4. /\ items' \in [Gens -> [Items -> Dir \cup {Missing}]] /\ items'[g][i] = dir
      /\ \A h \in Gens, j \in Items : h # g \/ j # i => items'[h][j] = items[h][j]
  BY <1>1, <1>2, <1>3
<1>5. QED
  BY <1>2, <1>4, MissingIsNoDirectory

\* Writing into the open file leaves every directory where it is.
LEMMA FillKeeps ==
    ASSUME ShelfInv, NEW s \in Senders, IsOpen(s), NEW content \in Contents \cup {Empty, Torn},
           Fill(s, content)
    PROVE  DirsStay
<1> DEFINE put == sending[s]
<1>1. put \in Put /\ PutIsWhole(put, staged, items)
  BY DEF ShelfInv, SendersInv
<1>2. CASE put.step = "staged"
  <2>1. staged' = [staged EXCEPT ![put.u].content = content] /\ items' = items
    BY <1>2 DEF Fill
  <2>2. put.u \in Uploads /\ staged[put.u] # Missing
    BY <1>1, <1>2 DEF PutIsWhole
  <2> HIDE DEF put
  <2>3. QED
    BY <2>1, <2>2, ContentEdit DEF DirsStay, ShelfInv, ShelfTypes
<1>3. CASE put.step = "item"
  <2>1. items' = [items EXCEPT ![put.g][put.i].content = content] /\ staged' = staged
    BY <1>3 DEF Fill
  <2>2. put.g \in Gens /\ put.i \in Items /\ items[put.g][put.i] # Missing
    BY <1>1, <1>3 DEF PutIsWhole
  <2> HIDE DEF put
  <2>3. /\ items' \in [Gens -> [Items -> Dir \cup {Missing}]] /\ items'[put.g][put.i] # Missing
        /\ \A h \in Gens, j \in Items : h # put.g \/ j # put.i => items'[h][j] = items[h][j]
    <3>1. Refills(put.g, put.i, content)
      BY <2>1 DEF Refills
    <3>2. QED
      BY <2>2, <3>1, ItemEdit
  <2>4. PlacesStay
    BY <2>1 DEF PlacesStay
  <2>5. QED
    BY <2>1, <2>3, <2>4 DEF DirsStay, ShelfInv, ShelfTypes
<1>4. CASE put.step = "adrift"
  <2>1. UNCHANGED <<staged, items>>
    BY <1>4 DEF Fill
  <2>2. QED
    BY <2>1 DEF DirsStay, PlacesStay, ShelfInv, ShelfTypes
<1>5. QED
  BY <1>2, <1>3, <1>4 DEF IsOpen

\* A request with nothing to write.
LEMMA QuietIsAPut == Quiet \in Put /\ Quiet.step = "idle"
  BY DEF Quiet, Put

\* The steps of a PUT.
LEMMA SendSafe ==
    ASSUME ShelfInv, NEW s \in Senders, Send(s) \/ \E u \in Uploads : StartSend(s, u)
    PROVE  ShelfInv'
<1>1. /\ sending \in [Senders -> Put] /\ sending[s] \in Put /\ PutIsWhole(sending[s], staged, items)
      /\ digests \in SUBSET Uploads
  BY DEF ShelfInv, SendersInv, ShelfTypes
<1>2. PutIsWhole(Quiet, staged', items')
  BY QuietIsAPut DEF PutIsWhole
<1>3. UNCHANGED <<staged, items>> => DirsStay
  BY DEF DirsStay, PlacesStay, ShelfInv, ShelfTypes
<1>4. ASSUME NEW step \in {"cleared", "written"}, SendOn(s, step), UNCHANGED <<staged, items>>,
             sending[s].step # "idle", digests' \in SUBSET Uploads, Unmoved
      PROVE  ShelfInv'
  <2> DEFINE put == [sending[s] EXCEPT !.step = step]
  <2>1. put \in Put /\ put.step = step /\ put.u = sending[s].u
    BY <1>1 DEF Put
  <2>2. sending' = [sending EXCEPT ![s] = put]
    BY <1>4 DEF SendOn
  <2> HIDE DEF put
  <2>3. PutIsWhole(put, staged', items')
    BY <1>1, <1>4, <2>1 DEF PutIsWhole
  <2>4. QED
    BY <1>3, <1>4, <2>1, <2>2, <2>3, PutGoesOn
<1>5. ASSUME NEW u \in Uploads, StartSend(s, u) PROVE ShelfInv'
  <2> DEFINE put == [Quiet EXCEPT !.step = "begun", !.u = u]
  <2>1. /\ put \in Put /\ put.step = "begun" /\ put.u = u
        /\ sending' = [sending EXCEPT ![s] = put] /\ UNCHANGED <<staged, digests, items>> /\ Unmoved
    BY <1>5 DEF StartSend, Quiet, Put
  <2> HIDE DEF put
  <2>2. PutIsWhole(put, staged', items')
    BY <2>1 DEF PutIsWhole
  <2>3. QED
    BY <1>1, <1>3, <2>1, <2>2, PutGoesOn
<1>6. CASE DropOldDigest(s)
  BY <1>1, <1>4, <1>6 DEF DropOldDigest
<1>7. CASE CreateFile(s)
  <2> DEFINE u == sending[s].u
  <2>1. u \in Uploads /\ UNCHANGED <<digests, items>> /\ Unmoved
    BY <1>1, <1>7 DEF CreateFile, PutIsWhole
  <2>2. CASE staged[u] = Missing
    <3>1. staged' = staged /\ sending' = [sending EXCEPT ![s] = Quiet]
      BY <1>7, <2>2 DEF CreateFile
    <3>2. QED
      BY <1>1, <1>2, <1>3, <2>1, <3>1, PutGoesOn, QuietIsAPut
  <2>3. CASE staged[u] # Missing
    <3> DEFINE put == [sending[s] EXCEPT !.step = "staged"]
    <3>1. staged' = [staged EXCEPT ![u].content = Empty] /\ sending' = [sending EXCEPT ![s] = put]
      BY <1>7, <2>3 DEF CreateFile, SendOn
    <3>2. put \in Put /\ put.step = "staged" /\ put.u = u
      BY <1>1 DEF Put
    <3> HIDE DEF put, u
    <3>3. /\ staged' \in [Uploads -> Dir \cup {Missing}] /\ PlacesStay /\ staged'[u] # Missing
          /\ \A x \in Uploads : x # u => staged'[x] = staged[x]
      BY <2>1, <2>3, <3>1, ContentEdit
    <3>4. DirsStay
      BY <2>1, <2>3, <3>3 DEF DirsStay, ShelfInv, ShelfTypes
    <3>5. PutIsWhole(put, staged', items')
      BY <2>1, <3>2, <3>3 DEF PutIsWhole
    <3>6. QED
      BY <1>1, <2>1, <3>1, <3>2, <3>4, <3>5, PutGoesOn
  <2>4. QED
    BY <2>2, <2>3
<1>8. CASE WriteSome(s)
  <2>1. PICK content \in Contents \cup {Torn} : Fill(s, content)
    BY <1>8 DEF WriteSome
  <2>2. IsOpen(s) /\ UNCHANGED <<digests, sending>> /\ Unmoved
    BY <1>8 DEF WriteSome
  <2>3. DirsStay
    BY <2>1, <2>2, FillKeeps
  <2>4. PutIsWhole(sending[s], staged', items') /\ sending' = [sending EXCEPT ![s] = sending[s]]
    BY <1>1, <2>2, <2>3 DEF PutIsWhole, DirsStay
  <2>5. QED
    BY <1>1, <2>2, <2>3, <2>4, PutGoesOn
<1>9. CASE EndOfContent(s)
  BY <1>1, <1>4, <1>9 DEF EndOfContent, IsOpen
<1>10. CASE KeepDigest(s)
  <2>1. /\ sending' = [sending EXCEPT ![s] = Quiet] /\ UNCHANGED <<staged, items>> /\ Unmoved
        /\ digests' \in {digests, digests \cup {sending[s].u}} /\ sending[s].u \in Uploads
    BY <1>1, <1>10 DEF KeepDigest, PutIsWhole
  <2>2. QED
    BY <1>1, <1>2, <1>3, <2>1, PutGoesOn, QuietIsAPut
<1>11. CASE EmptyContent(s)
  <2>1. /\ IsOpen(s) /\ Fill(s, Empty) /\ sending' = [sending EXCEPT ![s] = Quiet]
        /\ UNCHANGED digests /\ Unmoved
    BY <1>11 DEF EmptyContent
  <2>2. DirsStay
    BY <2>1, FillKeeps
  <2>3. QED
    BY <1>1, <1>2, <2>1, <2>2, PutGoesOn, QuietIsAPut
<1>12. QED
  BY <1>5, <1>6, <1>7, <1>8, <1>9, <1>10, <1>11 DEF Send

\* A publish that fails leaves its place as it found it.
LEMMA GivesUp ==
    ASSUME ShelfInv, NEW w \in Workers, working[w].do # Missing, \A n \in trash' : ~Empties(w, n), Leave(w),
           UNCHANGED <<staged, items, trashed, opener, up, sending>>,
           digests' \subseteq digests, trash' \subseteq trash
    PROVE  ShelfInv'
<1>1. /\ working' \in [Workers -> Job] /\ working'[w] = Free
      /\ \A v \in Workers : v # w => working'[v] = working[v]
      /\ \A v \in Workers : JobIsWhole(working'[v])
      /\ OneHolder'
  BY IsDone
<1>2. ShelfTypes'
  BY <1>1 DEF ShelfInv, ShelfTypes
<1>3. \A v \in Workers : Written(working[v])'
  <2>1. Written(working[w])'
    BY <1>1, FreeIsAJob, MissingIsNoJob DEF Written
  <2>2. PlacesStay
    BY DEF PlacesStay
  <2>3. QED
    BY <1>1, <2>1, <2>2, WrittenStays
<1>4. LooksFirst' /\ SendersInv'
  BY LookStays, SendersStay
<1>5. TrashHasATaker'
  BY <1>1, WorksOnAnOpenShelf, TrashKeepsItsTakers
<1>6. QED
  BY <1>1, <1>2, <1>3, <1>4, <1>5 DEF ShelfInv

\* The lock holder goes on to a later step of its publish, its place as it should be then.
LEMMA PublishGoesOn ==
    ASSUME ShelfInv, NEW w \in Workers, working[w].do = "publish", NEW step \in 1 .. 3, On(w, step),
           staged' \in [Uploads -> Dir \cup {Missing}],
           \A x \in Uploads : staged'[x] # Missing => staged[x] # Missing,
           items' \in [Gens -> [Items -> Dir \cup {Missing}]],
           Written(working[w])', SendersInv', UNCHANGED <<digests, trash, trashed, opener, up>>
    PROVE  ShelfInv'
<1>1. /\ working' \in [Workers -> Job] /\ working'[w].do = "publish"
      /\ \A v \in Workers : v # w => working'[v] = working[v]
      /\ \A v \in Workers : JobIsWhole(working'[v])
      /\ OneHolder'
  BY GoesOn
<1>2. ShelfTypes'
  BY <1>1 DEF ShelfInv, ShelfTypes
<1>3. \A v \in Workers : Written(working[v])'
  BY <1>1, OthersDoNotPublish DEF HoldsLock
<1>4. LooksFirst'
  BY LookStays
<1>5. TrashHasATaker'
  <2>1. \A n \in trash' : ~Empties(w, n)
    BY DEF Empties
  <2>2. up
    BY WorksOnAnOpenShelf, MissingIsNoJob
  <2>3. QED
    BY <1>1, <2>1, <2>2, TrashKeepsItsTakers
<1>6. QED
  BY <1>1, <1>2, <1>3, <1>4, <1>5 DEF ShelfInv

\* An envelope is written into the place, whichever of its two files is named.
LEMMA EnvelopeEdit ==
    ASSUME ShelfInv, NEW u \in Uploads, staged[u] # Missing, NEW e \in Envelopes,
           NEW part \in {"meta", "server"}, staged' = [staged EXCEPT ![u][part] = e]
    PROVE  /\ staged' \in [Uploads -> Dir \cup {Missing}]
           /\ \A x \in Uploads : x # u => staged'[x] = staged[x]
           /\ staged'[u] # Missing /\ staged'[u].content = staged[u].content
           /\ part = "meta" => staged'[u].meta = e /\ staged'[u].server = staged[u].server
           /\ part = "server" => staged'[u].server = e /\ staged'[u].meta = staged[u].meta
<1> DEFINE dir == [staged[u] EXCEPT ![part] = e]
<1>1. staged[u] \in Dir
  BY DEF ShelfInv, ShelfTypes
<1>2. /\ dir \in Dir /\ dir.content = staged[u].content
      /\ part = "meta" => dir.meta = e /\ dir.server = staged[u].server
      /\ part = "server" => dir.server = e /\ dir.meta = staged[u].meta
  BY <1>1 DEF Dir
<1>3. staged' = [staged EXCEPT ![u] = dir]
  OBVIOUS
<1> HIDE DEF dir
<1>4. /\ staged' \in [Uploads -> Dir \cup {Missing}] /\ staged'[u] = dir
      /\ \A x \in Uploads : x # u => staged'[x] = staged[x]
  BY <1>2, <1>3 DEF ShelfInv, ShelfTypes
<1>5. QED
  BY <1>2, <1>4, MissingIsNoDirectory

\* meta.json and then server.json are written.
LEMMA WriteEnvelopeSafe ==
    ASSUME ShelfInv, NEW w \in Workers, WriteMeta(w) \/ WriteServer(w)
    PROVE  ShelfInv'
<1> DEFINE u == working[w].u
           e == working[w].e
<1>1. PICK step \in {0, 1}, part \in {"meta", "server"} :
          /\ WriteEnvelope(w, step, part)
          /\ (step = 0 /\ part = "meta") \/ (step = 1 /\ part = "server")
  BY DEF WriteMeta, WriteServer
<1>2. /\ working[w].do = "publish" /\ working[w].step = step
      /\ UNCHANGED <<digests, items, trash, trashed>> /\ UNCHANGED <<sending, reading, opener, up, kills>>
      /\ IF staged[u] = Missing THEN Leave(w) /\ UNCHANGED staged
         ELSE staged' = [staged EXCEPT ![u][part] = e] /\ On(w, step + 1)
  BY <1>1 DEF WriteEnvelope, At, Idly
<1>3. u \in Uploads /\ e \in Envelopes
  BY <1>2 DEF ShelfInv, JobIsWhole
<1>4. CASE staged[u] = Missing
  <2>1. \A n \in trash' : ~Empties(w, n)
    BY <1>2 DEF Empties
  <2>2. QED
    BY <1>2, <1>4, <2>1, GivesUp, MissingIsNoJob
<1>5. CASE staged[u] # Missing
  <2>1. staged' = [staged EXCEPT ![u][part] = e] /\ On(w, step + 1) /\ step + 1 \in 1 .. 3
    BY <1>2, <1>5
  <2>2. /\ working'[w].do = "publish" /\ working'[w].step = step + 1
        /\ working'[w].u = u /\ working'[w].e = e
    <3>1. step + 1 \in 0 .. 3
      OBVIOUS
    <3>2. QED
      BY <1>2, <2>1, <3>1, GoesOn
  <2>3. Written(working[w])
    BY DEF ShelfInv
  <2> HIDE DEF u, e
  <2>4. /\ staged' \in [Uploads -> Dir \cup {Missing}]
        /\ \A x \in Uploads : x # u => staged'[x] = staged[x]
        /\ staged'[u] # Missing /\ staged'[u].content = staged[u].content
        /\ part = "meta" => staged'[u].meta = e /\ staged'[u].server = staged[u].server
        /\ part = "server" => staged'[u].server = e /\ staged'[u].meta = staged[u].meta
    BY <1>3, <1>5, <2>1, EnvelopeEdit
  <2>5. staged[u].content # Missing /\ (step = 1 => staged[u].meta = e)
    BY <1>2, <1>5, <2>3 DEF Written, u, e
  <2>6. Written(working[w])'
    BY <1>1, <2>2, <2>4, <2>5 DEF Written
  <2>7. /\ \A x \in Uploads : staged'[x] # Missing <=> staged[x] # Missing
        /\ SendersInv'
    <3>1. \A x \in Uploads : staged'[x] # Missing <=> staged[x] # Missing
      BY <1>5, <2>4
    <3>2. QED
      BY <1>2, <3>1, SendersStay
  <2>8. items' \in [Gens -> [Items -> Dir \cup {Missing}]]
    BY <1>2 DEF ShelfInv, ShelfTypes
  <2>9. QED
    BY <1>2, <2>1, <2>4, <2>6, <2>7, <2>8, PublishGoesOn
<1>6. QED
  BY <1>4, <1>5

\* The place is renamed to the item, unless that exists.
LEMMA RenameDirSafe ==
    ASSUME ShelfInv, NEW w \in Workers, RenameDir(w)
    PROVE  ShelfInv'
<1> DEFINE u == working[w].u
           g == working[w].g
           i == working[w].i
<1>1. /\ working[w].do = "publish" /\ working[w].step = 2
      /\ UNCHANGED <<digests, trash, trashed, reading, opener, up, kills>>
      /\ IF staged[u] = Missing \/ items[g][i] # Missing
         THEN Leave(w) /\ UNCHANGED <<staged, items, sending>>
         ELSE /\ items' = [items EXCEPT ![g][i] = staged[u]]
              /\ staged' = [staged EXCEPT ![u] = Missing]
              /\ sending' = [s \in Senders |->
                               IF sending[s].step = "staged" /\ sending[s].u = u
                               THEN [sending[s] EXCEPT !.step = "item", !.g = g, !.i = i]
                               ELSE sending[s]]
              /\ On(w, 3)
  BY DEF RenameDir, At
<1>2. u \in Uploads /\ g \in Gens /\ i \in Items
  BY <1>1 DEF ShelfInv, JobIsWhole
<1>3. CASE staged[u] = Missing \/ items[g][i] # Missing
  <2>1. \A n \in trash' : ~Empties(w, n)
    BY <1>1 DEF Empties
  <2>2. Leave(w) /\ UNCHANGED <<staged, items, sending>>
    BY <1>1, <1>3
  <2>3. QED
    BY <1>1, <2>1, <2>2, GivesUp, MissingIsNoJob
<1>4. CASE ~(staged[u] = Missing \/ items[g][i] # Missing)
  <2>1. /\ items' = [items EXCEPT ![g][i] = staged[u]]
        /\ staged' = [staged EXCEPT ![u] = Missing] /\ On(w, 3)
        /\ sending' = [s \in Senders |->
                         IF sending[s].step = "staged" /\ sending[s].u = u
                         THEN [sending[s] EXCEPT !.step = "item", !.g = g, !.i = i]
                         ELSE sending[s]]
    BY <1>1, <1>4
  <2>0. On(w, 3)
    BY <2>1
  <2>2. working'[w].step = 3
    BY <2>0, GoesOn
  <2> HIDE DEF u, g, i
  <2>3. staged[u] \in Dir \cup {Missing} /\ items \in [Gens -> [Items -> Dir \cup {Missing}]]
    BY <1>2 DEF ShelfInv, ShelfTypes
  <2>4. items' \in [Gens -> [Items -> Dir \cup {Missing}]]
    BY <1>2, <2>1, <2>3
  <2>5. /\ staged' \in [Uploads -> Dir \cup {Missing}]
        /\ \A x \in Uploads : staged'[x] # Missing => staged[x] # Missing
    BY <1>2, <2>1 DEF ShelfInv, ShelfTypes
  <2>6. Written(working[w])'
    BY <2>2 DEF Written
  <2>7. SendersInv'
    <3>1. items'[g][i] # Missing /\ \A h \in Gens, j \in Items : items[h][j] # Missing => items'[h][j] # Missing
      BY <1>2, <1>4, <2>1, <2>3
    <3>2. \A x \in Uploads : x # u => staged'[x] = staged[x]
      BY <1>2, <2>1 DEF ShelfInv, ShelfTypes
    <3>3. ASSUME NEW s \in Senders PROVE sending'[s] \in Put /\ PutIsWhole(sending'[s], staged', items')
      <4>1. sending[s] \in Put /\ PutIsWhole(sending[s], staged, items)
        BY DEF ShelfInv, SendersInv
      <4>2. CASE sending[s].step = "staged" /\ sending[s].u = u
        <5>1. sending'[s] = [sending[s] EXCEPT !.step = "item", !.g = g, !.i = i]
          BY <2>1, <4>2
        <5>2. /\ sending'[s] \in Put /\ sending'[s].step = "item" /\ sending'[s].u = u
              /\ sending'[s].g = g /\ sending'[s].i = i
          BY <1>2, <4>1, <4>2, <5>1 DEF Put
        <5>3. QED
          BY <1>2, <3>1, <5>2 DEF PutIsWhole
      <4>3. CASE ~(sending[s].step = "staged" /\ sending[s].u = u)
        <5>1. sending'[s] = sending[s]
          BY <2>1, <4>3
        <5>2. QED
          BY <3>1, <3>2, <4>1, <4>3, <5>1 DEF PutIsWhole
      <4>4. QED
        BY <4>2, <4>3
    <3>4. sending' \in [Senders -> Put]
      BY <2>1, <3>3
    <3>5. QED
      BY <3>3, <3>4 DEF SendersInv
  <2>8. working[w].do = "publish" /\ UNCHANGED <<digests, trash, trashed, opener, up>>
    BY <1>1
  <2>9. QED
    BY <2>0, <2>4, <2>5, <2>6, <2>7, <2>8, PublishGoesOn
<1>5. QED
  BY <1>3, <1>4

\* The digest of a place that was published or removed goes too.
LEMMA RemoveDigestSafe ==
    ASSUME ShelfInv, NEW w \in Workers, RemoveDigest(w)
    PROVE  ShelfInv'
<1>1. /\ (working[w].do = "publish" /\ working[w].step = 3) \/ (working[w].do = "unstage" /\ working[w].step = 2)
      /\ digests' = digests \ {working[w].u} /\ Leave(w)
      /\ UNCHANGED <<staged, items, trash, trashed>> /\ UNCHANGED <<sending, reading, opener, up, kills>>
  BY DEF RemoveDigest, At, Idly
<1>2. \A n \in trash' : ~Empties(w, n)
  BY <1>1 DEF Empties
<1>3. digests' \subseteq digests /\ working[w].do # Missing
  BY <1>1, MissingIsNoJob
<1>4. QED
  BY <1>1, <1>2, <1>3, GivesUp

\* A worker that removes goes on, with places only going.
LEMMA RemoverMoves ==
    ASSUME ShelfInv, NEW w \in Workers,
           working' \in [Workers -> Job], working'[w].do \notin {"create", "publish"},
           \A v \in Workers : v # w => working'[v] = working[v],
           \A v \in Workers : JobIsWhole(working'[v]), OneHolder', TrashHasATaker',
           staged' \in [Uploads -> Dir \cup {Missing}],
           \A x \in Uploads : staged'[x] \in {staged[x], Missing},
           items' \in [Gens -> [Items -> Dir \cup {Missing}]], trashed' \in Nat,
           SendersInv', UNCHANGED <<digests, opener, up>>
    PROVE  ShelfInv'
<1>1. ShelfTypes'
  BY DEF ShelfInv, ShelfTypes
<1>2. \A v \in Workers : Written(working[v])'
  <2>1. PlacesStay
    BY DEF PlacesStay
  <2>2. Written(working[w])'
    BY DEF Written
  <2>3. QED
    BY <2>1, <2>2, WrittenStays
<1>3. LooksFirst'
  BY LookStays
<1>4. QED
  BY <1>1, <1>2, <1>3 DEF ShelfInv

\* What a worker does once what it removed is gone.
LEMMA AfterwardsSafe ==
    ASSUME ShelfInv, NEW w \in Workers, working[w].do \in {"remove", "drop", "unstage"}, Afterwards(w),
           trash' \subseteq trash, \A n \in trash' : ~Empties(w, n),
           UNCHANGED <<staged, digests, items, trashed, opener, up, sending>>
    PROVE  ShelfInv'
<1>1. /\ working' \in [Workers -> Job] /\ working'[w].do \in {Missing, "unstage"}
      /\ \A v \in Workers : v # w => working'[v] = working[v]
      /\ \A v \in Workers : JobIsWhole(working'[v])
      /\ OneHolder'
  <2>1. CASE working[w].do = "unstage"
    <3>1. On(w, 2) /\ 2 \in 0 .. 3
      BY <2>1 DEF Afterwards
    <3>2. QED
      BY <2>1, <3>1, GoesOn
  <2>2. CASE working[w].do # "unstage"
    BY <2>2, IsDone, FreeIsAJob DEF Afterwards
  <2>3. QED
    BY <2>1, <2>2
<1>2. TrashHasATaker'
  BY <1>1, WorksOnAnOpenShelf, TrashKeepsItsTakers, MissingIsNoJob
<1>3. SendersInv'
  BY SendersStay
<1>4. QED
  BY <1>1, <1>2, <1>3, RemoverMoves, MissingIsNoJob DEF ShelfInv, ShelfTypes

\* What is removed is renamed into the trash, where its remover will delete it.
LEMMA DiscardSafe ==
    ASSUME ShelfInv, NEW w \in Workers, Discard(w)
    PROVE  ShelfInv'
<1> DEFINE u == working[w].u
           g == working[w].g
           i == working[w].i
           do == working[w].do
<1>1. /\ do \in {"remove", "drop", "unstage"} /\ working[w].step = 0
      /\ UNCHANGED <<digests, reading, opener, up, kills>>
  BY DEF Discard
<1>2. /\ do = "unstage" => u \in Uploads
      /\ do \in {"remove", "drop"} => g \in Gens
      /\ do = "remove" => i \in Items
  BY DEF ShelfInv, JobIsWhole
<1>3. \A n \in trash : ~Empties(w, n)
  BY <1>1 DEF Empties
<1>4. CASE ~Found(working[w])
  <2>1. Afterwards(w) /\ UNCHANGED <<staged, items, trash, trashed, sending>>
    BY <1>4 DEF Discard
  <2>2. QED
    BY <1>1, <1>3, <2>1, AfterwardsSafe
<1>5. CASE Found(working[w])
  <2>1. /\ trash' = trash \cup {trashed} /\ trashed' = trashed + 1
        /\ working' = [working EXCEPT ![w].step = 1, ![w].bin = trashed]
        /\ staged' = IF do = "unstage" THEN [staged EXCEPT ![u] = Missing] ELSE staged
        /\ items' = CASE do = "remove" -> [items EXCEPT ![g][i] = Missing]
                      [] do = "drop" -> [items EXCEPT ![g] = [x \in Items |-> Missing]]
                      [] OTHER -> items
        /\ sending' = [s \in Senders |->
                         IF TakesFrom(working[w], sending[s]) THEN [sending[s] EXCEPT !.step = "adrift"]
                         ELSE sending[s]]
    BY <1>5 DEF Discard
  <2> DEFINE job == [working[w] EXCEPT !.step = 1, !.bin = trashed]
  <2>2. working[w] \in Job /\ JobIsWhole(working[w]) /\ trashed \in Nat
    BY DEF ShelfInv, ShelfTypes
  <2>3. /\ job \in Job /\ job.do = do /\ job.step = 1 /\ job.bin = trashed
        /\ job.u = u /\ job.g = g /\ job.i = i /\ job.e = working[w].e
    <3> DEFINE first == [working[w] EXCEPT !.step = 1]
    <3>1. /\ first \in Job /\ first.do = do /\ first.step = 1
          /\ first.u = u /\ first.g = g /\ first.i = i /\ first.e = working[w].e
      BY <2>2 DEF Job
    <3>2. job = [first EXCEPT !.bin = trashed]
      OBVIOUS
    <3> HIDE DEF first, u, g, i, do, job
    <3>3. QED
      BY <2>2, <3>1, <3>2 DEF Job
  <2>4. working' = [working EXCEPT ![w] = job]
    BY <2>1, <2>2 DEF ShelfInv, ShelfTypes
  <2> HIDE DEF job
  <2>5. JobIsWhole(job)
    BY <2>2, <2>3 DEF JobIsWhole
  <2>6. /\ working' \in [Workers -> Job] /\ working'[w] = job
        /\ \A v \in Workers : v # w => working'[v] = working[v]
        /\ \A v \in Workers : JobIsWhole(working'[v])
        /\ OneHolder'
    BY <1>1, <2>3, <2>4, <2>5, WorkerMoves DEF HoldsLock
  <2>7. /\ staged' \in [Uploads -> Dir \cup {Missing}]
        /\ \A x \in Uploads : staged'[x] \in {staged[x], Missing}
    <3>1. staged \in [Uploads -> Dir \cup {Missing}]
      BY DEF ShelfInv, ShelfTypes
    <3> HIDE DEF u
    <3>2. QED
      BY <1>2, <2>1, <3>1
  <2>8. items' \in [Gens -> [Items -> Dir \cup {Missing}]]
    <3>1. items \in [Gens -> [Items -> Dir \cup {Missing}]]
      BY DEF ShelfInv, ShelfTypes
    <3> HIDE DEF g, i, do
    <3>2. CASE do = "remove"
      BY <1>2, <2>1, <3>1, <3>2
    <3>3. CASE do = "drop"
      BY <1>2, <2>1, <3>1, <3>3
    <3>4. CASE do = "unstage"
      BY <2>1, <3>1, <3>4
    <3>5. QED
      BY <1>1, <3>2, <3>3, <3>4
  <2>9. TrashHasATaker'
    <3>1. up
      BY <1>1, WorksOnAnOpenShelf, MissingIsNoJob
    <3>2. ASSUME NEW n \in trash' PROVE \E v \in Workers : Empties(v, n)'
      <4>1. CASE n = trashed
        BY <1>1, <2>3, <2>6, <4>1 DEF Empties
      <4>2. CASE n \in trash
        <5>1. PICK v \in Workers : Empties(v, n)
          BY <3>1, <4>2 DEF ShelfInv, TrashHasATaker
        <5>2. v # w
          BY <1>3, <4>2, <5>1
        <5>3. QED
          BY <2>6, <5>1, <5>2 DEF Empties
      <4>3. QED
        BY <2>1, <3>2, <4>1, <4>2
    <3>3. QED
      BY <1>1, <3>1, <3>2 DEF TrashHasATaker
  <2>10. trashed' \in Nat
    BY <2>1, <2>2
  <2>11. SendersInv'
    <3>1. ASSUME NEW s \in Senders PROVE sending'[s] \in Put /\ PutIsWhole(sending'[s], staged', items')
      <4>1. sending[s] \in Put /\ PutIsWhole(sending[s], staged, items)
        BY DEF ShelfInv, SendersInv
      <4>2. CASE TakesFrom(working[w], sending[s])
        <5>1. sending'[s] = [sending[s] EXCEPT !.step = "adrift"] /\ sending[s].step # "idle"
          BY <2>1, <4>2 DEF TakesFrom
        <5>2. sending'[s] \in Put /\ sending'[s].step = "adrift" /\ sending'[s].u = sending[s].u
          BY <4>1, <5>1 DEF Put
        <5>3. QED
          BY <4>1, <5>1, <5>2 DEF PutIsWhole
      <4>3. CASE ~TakesFrom(working[w], sending[s])
        <5>1. sending'[s] = sending[s]
          BY <2>1, <4>3
        <5>2. sending[s].step = "staged" => staged'[sending[s].u] # Missing
          BY <1>1, <1>2, <2>1, <4>1, <4>3 DEF TakesFrom, PutIsWhole, ShelfInv, ShelfTypes
        <5>3. sending[s].step = "item" => items'[sending[s].g][sending[s].i] # Missing
          BY <1>1, <1>2, <2>1, <4>1, <4>3 DEF TakesFrom, PutIsWhole, ShelfInv, ShelfTypes
        <5>4. QED
          BY <4>1, <5>1, <5>2, <5>3 DEF PutIsWhole
      <4>4. QED
        BY <4>2, <4>3
    <3>2. sending' \in [Senders -> Put]
      BY <2>1, <3>1
    <3>3. QED
      BY <3>1, <3>2 DEF SendersInv
  <2>12. QED
    BY <1>1, <2>3, <2>6, <2>7, <2>8, <2>9, <2>10, <2>11, RemoverMoves
<1>6. QED
  BY <1>4, <1>5

\* What it renamed it deletes.
LEMMA EmptyBinSafe ==
    ASSUME ShelfInv, NEW w \in Workers, EmptyBin(w)
    PROVE  ShelfInv'
<1>1. /\ working[w].do \in {"remove", "drop", "unstage"} /\ working[w].step = 1
      /\ trash' = trash \ {working[w].bin} /\ Afterwards(w)
      /\ UNCHANGED <<staged, digests, items, trashed>> /\ UNCHANGED <<sending, reading, opener, up, kills>>
  BY DEF EmptyBin, Idly
<1>2. \A n \in trash' : ~Empties(w, n)
  BY <1>1 DEF Empties
<1>3. QED
  BY <1>1, <1>2, AfterwardsSafe

\* Whoever opens the shelf changes no directory and nobody's job.
LEMMA OpeningStep ==
    ASSUME ShelfInv, UNCHANGED <<staged, items, trashed, working, sending>>, digests' \subseteq digests,
           opener' \in Opening, LooksFirst', up' \in BOOLEAN, TrashHasATaker'
    PROVE  ShelfInv'
<1>1. ShelfTypes'
  BY DEF ShelfInv, ShelfTypes
<1>2. \A v \in Workers : JobIsWhole(working'[v]) /\ Written(working[v])'
  BY DEF ShelfInv, Written
<1>3. OneHolder'
  BY DEF ShelfInv, OneHolder, HoldsLock
<1>4. SendersInv'
  BY SendersStay
<1>5. QED
  BY <1>1, <1>2, <1>3, <1>4 DEF ShelfInv

\* The steps of an opening, by the next process or by a command beside the server.
LEMMA OpenSafe ==
    ASSUME ShelfInv, \/ StartOpen \/ EmptyTrash \/ ListDigests \/ SweepOne \/ Opened \/ OpenAgain
                     \/ \E u \in Uploads : LookForPlace(u)
    PROVE  ShelfInv'
<1>0. opener \in Opening /\ digests \in SUBSET Uploads /\ up \in BOOLEAN /\ TrashHasATaker
  BY DEF ShelfInv, ShelfTypes
<1>1. CASE StartOpen
  <2>1. /\ opener.step = "idle" /\ opener' = [opener EXCEPT !.step = "trash"]
        /\ UNCHANGED <<staged, digests, items, trash, trashed, working, up, sending>>
    BY <1>1 DEF StartOpen, files
  <2>2. opener' \in Opening /\ opener'.step = "trash"
    BY <1>0, <2>1 DEF Opening
  <2>3. TrashHasATaker' /\ LooksFirst'
    BY <1>0, <2>1, <2>2 DEF TrashHasATaker, Empties, LooksFirst
  <2>4. QED
    BY <1>0, <2>1, <2>2, <2>3, OpeningStep
<1>2. CASE EmptyTrash
  <2>1. /\ opener' = [opener EXCEPT !.step = "list"] /\ trash' = {}
        /\ UNCHANGED <<staged, digests, items, trashed, working, up, sending>>
    BY <1>2 DEF EmptyTrash
  <2>2. opener' \in Opening /\ opener'.step = "list"
    BY <1>0, <2>1 DEF Opening
  <2>3. TrashHasATaker' /\ LooksFirst'
    BY <1>0, <2>1, <2>2 DEF TrashHasATaker, LooksFirst
  <2>4. QED
    BY <1>0, <2>1, <2>2, <2>3, OpeningStep
<1>3. CASE ListDigests
  <2>1. /\ opener.step = "list" /\ opener' = [opener EXCEPT !.step = "sweep", !.names = digests]
        /\ UNCHANGED <<staged, digests, items, trash, trashed, working, up, sending>>
    BY <1>3 DEF ListDigests, files
  <2>2. opener' \in Opening /\ opener'.step = "sweep"
    BY <1>0, <2>1 DEF Opening
  <2>3. TrashHasATaker' /\ LooksFirst'
    BY <1>0, <2>1, <2>2 DEF TrashHasATaker, Empties, LooksFirst
  <2>4. QED
    BY <1>0, <2>1, <2>2, <2>3, OpeningStep
<1>4. ASSUME NEW u \in Uploads, LookForPlace(u) PROVE ShelfInv'
  <2>1. /\ opener.step = "sweep"
        /\ opener' = IF staged[u] = Missing
                     THEN [step |-> "orphan", names |-> opener.names \ {u}, orphan |-> u, anew |-> FALSE]
                     ELSE [opener EXCEPT !.names = @ \ {u}]
        /\ UNCHANGED <<staged, digests, items, trash, trashed, working, up, sending>>
    BY <1>4 DEF LookForPlace, files
  <2>2. /\ opener' \in Opening
        /\ opener'.step = "orphan" => opener'.orphan = u /\ staged[u] = Missing
    BY <1>0, <2>1 DEF Opening
  <2>3. TrashHasATaker' /\ LooksFirst'
    BY <1>0, <2>1, <2>2 DEF TrashHasATaker, Empties, LooksFirst
  <2>4. QED
    BY <1>0, <2>1, <2>2, <2>3, OpeningStep
<1>5. CASE SweepOne
  <2>1. /\ opener.step = "orphan" /\ digests' = digests \ {opener.orphan}
        /\ opener' = IF opener.orphan \in digests
                     THEN [opener EXCEPT !.step = "sweep", !.orphan = Missing, !.anew = FALSE]
                     ELSE [Closed EXCEPT !.step = "failed"]
        /\ UNCHANGED <<staged, items, trash, trashed, working, up, sending>>
    BY <1>5 DEF SweepOne
  <2>2. opener' \in Opening /\ opener'.step \in {"sweep", "failed"}
    BY <1>0, <2>1 DEF Opening, Closed
  <2>3. TrashHasATaker' /\ LooksFirst'
    BY <1>0, <2>1, <2>2 DEF TrashHasATaker, Empties, LooksFirst
  <2>4. QED
    BY <1>0, <2>1, <2>2, <2>3, OpeningStep
<1>6. CASE Opened \/ OpenAgain
  <2>1. /\ opener.step \in {"sweep", "failed"} /\ opener' = [opener EXCEPT !.step = "idle"]
        /\ up' \in {up, TRUE}
        /\ opener.step = "failed" => up' = up
        /\ opener.step = "sweep" => up' = TRUE
        /\ UNCHANGED <<staged, digests, items, trash, trashed, working, sending>>
    BY <1>6 DEF Opened, OpenAgain, files
  <2>2. opener' \in Opening /\ opener'.step = "idle"
    BY <1>0, <2>1 DEF Opening
  <2>3. TrashHasATaker' /\ LooksFirst'
    BY <1>0, <2>1, <2>2 DEF TrashHasATaker, Empties, LooksFirst
  <2>4. QED
    BY <1>0, <2>1, <2>2, <2>3, OpeningStep
<1>7. QED
  BY <1>1, <1>2, <1>3, <1>4, <1>5, <1>6

\* The next opening empties the trash of the processes that were killed.
LEMMA KillShelfSafe ==
    ASSUME ShelfInv, KillShelf
    PROVE  ShelfInv'
<1>1. /\ up' = FALSE /\ working' = [w \in Workers |-> Free] /\ opener' = Closed
      /\ sending' = [s \in Senders |-> Quiet]
      /\ UNCHANGED <<staged, digests, items, trash, trashed>>
  BY DEF KillShelf, files
<1>2. \A w \in Workers : working'[w] = Free
  BY <1>1
<1>3. opener' \in Opening /\ opener'.step = "idle"
  BY <1>1 DEF Opening, Closed
<1>4. ShelfTypes'
  BY <1>1, <1>3, FreeIsAJob DEF ShelfInv, ShelfTypes
<1>5. \A w \in Workers : JobIsWhole(working'[w]) /\ Written(working[w])' /\ ~HoldsLock(w)'
  BY <1>2, FreeIsAJob, MissingIsNoJob DEF JobIsWhole, Written, HoldsLock
<1>6. OneHolder'
  BY <1>5 DEF OneHolder
<1>7. LooksFirst' /\ SendersInv'
  BY <1>1, <1>3, QuietIsAPut DEF LooksFirst, SendersInv, PutIsWhole
<1>8. TrashHasATaker'
  BY <1>1, <1>2, <1>3 DEF TrashHasATaker
<1>9. QED
  BY <1>4, <1>5, <1>6, <1>7, <1>8 DEF ShelfInv

\* A reader, and a step that changes nothing here, touch none of it.
LEMMA ReadersTouchNothing ==
    ASSUME ShelfInv, UNCHANGED <<staged, digests, items, trash, trashed, working, opener, up, sending>>
    PROVE  ShelfInv'
  BY DEF ShelfInv, ShelfTypes, Written, OneHolder, HoldsLock, LooksFirst, TrashHasATaker, Empties,
         SendersInv

\* Every step keeps ShelfInv.
LEMMA StepShelf ==
    ASSUME ShelfInv, [FsNext]_shelf
    PROVE  ShelfInv'
<1>1. ASSUME NEW r \in Readers, \/ ReadMeta(r) \/ ReadServer(r)
                                \/ \E g \in Gens, i \in Items : LookAtContent(r, g, i)
      PROVE  ShelfInv'
  <2>1. UNCHANGED <<staged, digests, items, trash, trashed, working, opener, up, sending>>
    BY <1>1 DEF ReadMeta, ReadServer, ReadEnvelope, LookAtContent, files
  <2>2. QED
    BY <2>1, ReadersTouchNothing
<1>2. CASE UNCHANGED shelf
  <2>1. UNCHANGED <<staged, digests, items, trash, trashed, working, opener, up, sending>>
    BY <1>2 DEF shelf, files
  <2>2. QED
    BY <2>1, ReadersTouchNothing
<1>3. ASSUME NEW w \in Workers, Work(w) PROVE ShelfInv'
  BY <1>3, MakeStagedDirSafe, CreateContentSafe, WriteEnvelopeSafe, RenameDirSafe, RemoveDigestSafe,
     DiscardSafe, EmptyBinSafe DEF Work
<1>4. QED
  BY <1>1, <1>2, <1>3, BeginSafe, SendSafe, OpenSafe, KillShelfSafe DEF FsNext

\* A shelf starts empty and open.
LEMMA InitShelf == FsInit => ShelfInv
<1> SUFFICES ASSUME FsInit PROVE ShelfInv
  OBVIOUS
<1>1. /\ up = TRUE /\ working = [w \in Workers |-> Free] /\ staged = [u \in Uploads |-> Missing]
      /\ opener = Closed /\ digests = {} /\ trash = {} /\ trashed = 0
      /\ items = [g \in Gens |-> [i \in Items |-> Missing]] /\ sending = [s \in Senders |-> Quiet]
  BY DEF FsInit
<1>2. \A w \in Workers : working[w] = Free
  BY <1>1
<1>3. opener \in Opening /\ opener.step = "idle"
  BY <1>1 DEF Opening, Closed
<1>4. ShelfTypes
  BY <1>1, <1>3, FreeIsAJob DEF ShelfTypes
<1>5. \A w \in Workers : JobIsWhole(working[w]) /\ Written(working[w]) /\ ~HoldsLock(w)
  BY <1>2, FreeIsAJob, MissingIsNoJob DEF JobIsWhole, Written, HoldsLock
<1>6. OneHolder /\ LooksFirst /\ TrashHasATaker
  BY <1>1, <1>3, <1>5 DEF OneHolder, LooksFirst, TrashHasATaker
<1>7. SendersInv
  BY <1>1, QuietIsAPut DEF SendersInv, PutIsWhole
<1>8. QED
  BY <1>4, <1>5, <1>6, <1>7 DEF ShelfInv

\* OpeningSparesTheLiving: opening a shelf (FsShelf::open) takes away the trash, which is gone once
\* the shelf is open and at rest (empty_trash), and digests whose place is not there
\* (sweep_digests), or was made between the look and the removal, however many processes open the
\* shelf beside the workers and are killed.
THEOREM OpeningsSpareTheLiving == FsSpec => OpeningSparesTheLiving
<1>1. ShelfInv /\ [FsNext]_shelf => ShelfInv'
  BY StepShelf
<1>2. ShelfInv => TrashIsEmptied
  <2> SUFFICES ASSUME ShelfInv, up, opener.step = "idle", \A w \in Workers : working[w] = Free
               PROVE  trash = {}
    BY DEF TrashIsEmptied
  <2>1. \A w \in Workers, n \in trash : ~Empties(w, n)
    BY FreeIsAJob, MissingIsNoJob DEF Empties
  <2>2. QED
    BY <2>1 DEF ShelfInv, TrashHasATaker
<1>3. ShelfInv /\ [FsNext]_shelf
        => [SweepOne => \A u \in digests \ digests' : staged[u] = Missing \/ opener.anew]_shelf
  <2> SUFFICES ASSUME ShelfInv, SweepOne, NEW u \in digests \ digests'
               PROVE  staged[u] = Missing \/ opener.anew
    OBVIOUS
  <2>1. u = opener.orphan /\ opener.step = "orphan"
    BY DEF SweepOne
  <2>2. QED
    BY <2>1 DEF ShelfInv, LooksFirst
<1>4. QED
  BY <1>1, <1>2, <1>3, InitShelf, PTL DEF FsSpec, OpeningSparesTheLiving

\* The places and items that the files stand for.
Staging == [u \in Uploads |-> StagedContent(staged[u])]
Generations == [g \in Gens |-> [i \in Items |-> AsItem(items[g][i])]]

\* One place changes, and nothing else does.
LEMMA StagingMoves ==
    ASSUME NEW u \in Uploads, \A x \in Uploads : x # u => staged'[x] = staged[x]
    PROVE  Staging' = [Staging EXCEPT ![u] = StagedContent(staged'[u])]
  BY DEF Staging, StagedContent

\* What is there has content, Empty before any was written.
LEMMA PlacesHaveContent ==
    ASSUME NEW dir \in Dir
    PROVE  StagedContent(dir) # Missing
<1>1. dir # Missing /\ Missing # Empty
  BY MissingIsNoDirectory, MissingIsNoJob
<1>2. QED
  BY <1>1 DEF StagedContent

\* Nothing a caller of the shelf could see changes; a PUT that wrote to an item may have ended.
LEMMA ShelfStutters ==
    ASSUME UNCHANGED items, \A u \in Uploads : StagedContent(staged'[u]) = StagedContent(staged[u]),
           Fluid' \subseteq Fluid
    PROVE  Disk!DiskNext
<1>1. [u \in Uploads |-> StagedContent(staged'[u])] = [u \in Uploads |-> StagedContent(staged[u])]
  OBVIOUS
<1>2. [g \in Gens |-> [i \in Items |-> AsItem(items'[g][i])]]
         = [g \in Gens |-> [i \in Items |-> AsItem(items[g][i])]]
  OBVIOUS
<1>3. Disk!Settling
  BY <1>1, <1>2 DEF Disk!Settling, Disk!shelves, StagedContent, AsItem
<1>4. QED
  BY <1>3 DEF Disk!DiskNext

\* Who has which item open is the senders' state alone.
LEMMA FluidStays ==
    ASSUME sending' = sending
    PROVE  Fluid' = Fluid
  BY DEF Fluid

\* A PUT that goes on opens no item; it may close one.
LEMMA FluidShrinks ==
    ASSUME ShelfInv, NEW s \in Senders, NEW put, put.step # "item", sending' = [sending EXCEPT ![s] = put]
    PROVE  Fluid' \subseteq Fluid /\ (sending[s].step # "item" => Fluid' = Fluid)
<1>1. sending'[s] = put /\ \A x \in Senders : x # s => sending'[x] = sending[x]
  BY DEF ShelfInv, SendersInv
<1>2. ASSUME NEW pair \in Fluid' PROVE pair \in Fluid
  <2>1. PICK x \in Senders : sending'[x].step = "item" /\ pair = <<sending'[x].g, sending'[x].i>>
    BY <1>2 DEF Fluid
  <2>2. x # s
    BY <1>1, <2>1
  <2>3. QED
    BY <1>1, <2>1, <2>2 DEF Fluid
<1>3. ASSUME sending[s].step # "item", NEW pair \in Fluid PROVE pair \in Fluid'
  <2>1. PICK x \in Senders : sending[x].step = "item" /\ pair = <<sending[x].g, sending[x].i>>
    BY <1>3 DEF Fluid
  <2>2. x # s
    BY <1>3, <2>1
  <2>3. QED
    BY <1>1, <2>1, <2>2 DEF Fluid
<1>4. QED
  BY <1>2, <1>3

\* The new directory is what the shelf in memory makes of stage_create.
LEMMA MakeStagedDirImplements ==
    ASSUME ShelfInv, NEW w \in Workers, MakeStagedDir(w)
    PROVE  Disk!DiskNext
<1> DEFINE u == working[w].u
<1>1. /\ working[w].do = "create" /\ working[w].step = 0
      /\ staged' = [staged EXCEPT ![u] = IF @ = Missing THEN NewDir ELSE @] /\ UNCHANGED <<items, sending>>
  BY DEF MakeStagedDir, At
<1>2. u \in Uploads
  BY <1>1 DEF ShelfInv, JobIsWhole
<1> HIDE DEF u
<1>3. /\ staged'[u] = IF staged[u] = Missing THEN NewDir ELSE staged[u]
      /\ \A x \in Uploads : x # u => staged'[x] = staged[x]
  BY <1>1, <1>2 DEF ShelfInv, ShelfTypes
<1>4. StagedContent(NewDir) = Empty /\ StagedContent(Missing) = Missing
  <2>1. NewDir \in Dir
    BY DEF NewDir, Dir
  <2>2. QED
    BY <2>1, MissingIsNoDirectory DEF StagedContent, NewDir
<1>5. Staging[u] = Missing <=> staged[u] = Missing
  BY <1>2, <1>4, PlacesHaveContent DEF Staging, ShelfInv, ShelfTypes
<1>6. Staging' = [Staging EXCEPT ![u] = StagedContent(staged'[u])]
  BY <1>2, <1>3, StagingMoves
<1>7. StagedContent(staged'[u]) = IF Staging[u] = Missing THEN Empty ELSE Staging[u]
  <2>1. Staging[u] = StagedContent(staged[u])
    BY <1>2 DEF Staging
  <2>2. QED
    BY <1>3, <1>4, <1>5, <2>1
<1>8. Staging' = [Staging EXCEPT ![u] = IF @ = Missing THEN Empty ELSE @]
  BY <1>6, <1>7
<1>9. Generations' = Generations /\ Fluid' = Fluid
  BY <1>1, FluidStays DEF Generations
<1>10. Disk!Placing(u)
  BY <1>8, <1>9 DEF Disk!Placing, Disk!StageCreate, Staging, Generations
<1>11. QED
  BY <1>2, <1>10 DEF Disk!DiskNext

\* The file of a new place reads as empty, as the place did before it was there; the
\* envelopes are not staged content.
LEMMA WritingStutters ==
    ASSUME ShelfInv, NEW w \in Workers, CreateContent(w) \/ WriteMeta(w) \/ WriteServer(w)
    PROVE  Disk!DiskNext
<1> DEFINE u == working[w].u
<1>0. Fluid' = Fluid
  BY FluidStays DEF CreateContent, WriteMeta, WriteServer, WriteEnvelope, Idly
<1>1. CASE CreateContent(w)
  <2>1. /\ working[w].do = "create" /\ UNCHANGED items
        /\ IF staged[u] = Missing THEN staged' = staged
           ELSE staged' = [staged EXCEPT ![u].content = IF @ = Missing THEN Empty ELSE @]
    BY <1>1 DEF CreateContent, At
  <2>2. u \in Uploads
    BY <2>1 DEF ShelfInv, JobIsWhole
  <2>3. CASE staged[u] = Missing
    BY <1>0, <2>1, <2>3, ShelfStutters
  <2>4. CASE staged[u] # Missing
    <3> DEFINE content == IF staged[u].content = Missing THEN Empty ELSE staged[u].content
    <3>1. staged[u] \in Dir
      BY <2>2, <2>4 DEF ShelfInv, ShelfTypes
    <3>2. content \in Contents \cup {Empty, Torn} /\ StagedContent(staged[u]) = content
      BY <2>4, <3>1 DEF Dir, StagedContent
    <3>3. staged' = [staged EXCEPT ![u].content = content]
      BY <2>1, <2>4
    <3> HIDE DEF content, u
    <3>4. /\ staged'[u] # Missing /\ staged'[u].content = content
          /\ \A x \in Uploads : x # u => staged'[x] = staged[x]
      BY <2>2, <2>4, <3>2, <3>3, ContentEdit
    <3>5. StagedContent(staged'[u]) = content
      BY <3>2, <3>4, MissingIsNoJob DEF StagedContent
    <3>6. QED
      BY <1>0, <2>1, <3>2, <3>4, <3>5, ShelfStutters
  <2>5. QED
    BY <2>3, <2>4
<1>2. CASE WriteMeta(w) \/ WriteServer(w)
  <2> DEFINE e == working[w].e
  <2>1. PICK step \in {0, 1}, part \in {"meta", "server"} : WriteEnvelope(w, step, part)
    BY <1>2 DEF WriteMeta, WriteServer
  <2>2. /\ working[w].do = "publish" /\ UNCHANGED items
        /\ IF staged[u] = Missing THEN staged' = staged
           ELSE staged' = [staged EXCEPT ![u][part] = e]
    BY <2>1 DEF WriteEnvelope, At
  <2>3. u \in Uploads /\ e \in Envelopes
    BY <2>2 DEF ShelfInv, JobIsWhole
  <2> HIDE DEF u, e
  <2>4. CASE staged[u] = Missing
    BY <1>0, <2>2, <2>4, ShelfStutters
  <2>5. CASE staged[u] # Missing
    <3>1. staged' = [staged EXCEPT ![u][part] = e]
      BY <2>2, <2>5
    <3>2. /\ staged'[u] # Missing /\ staged'[u].content = staged[u].content
          /\ \A x \in Uploads : x # u => staged'[x] = staged[x]
      BY <2>3, <2>5, <3>1, EnvelopeEdit
    <3>3. StagedContent(staged'[u]) = StagedContent(staged[u])
      BY <2>5, <3>2 DEF StagedContent
    <3>4. QED
      BY <1>0, <2>2, <3>2, <3>3, ShelfStutters
  <2>6. QED
    BY <2>4, <2>5
<1>3. QED
  BY <1>1, <1>2

\* One item changes, and nothing else does.
LEMMA GenerationsMove ==
    ASSUME ShelfInv, NEW g \in Gens, NEW i \in Items, NEW after,
           AsItem(items'[g][i]) = after, items' \in [Gens -> [Items -> Dir \cup {Missing}]],
           \A h \in Gens, j \in Items : h # g \/ j # i => items'[h][j] = items[h][j]
    PROVE  Generations' = [Generations EXCEPT ![g][i] = after]
<1> DEFINE edited == [Generations EXCEPT ![g][i] = after]
<1>1. \A h \in Gens, j \in Items :
         edited[h][j] = IF h = g /\ j = i THEN after ELSE AsItem(items[h][j])
  BY DEF Generations
<1>2. \A h \in Gens, j \in Items : Generations'[h][j] = AsItem(items'[h][j])
  BY DEF Generations, AsItem
<1>3. \A h \in Gens : /\ Generations'[h] = [j \in Items |-> Generations'[h][j]]
                      /\ edited[h] = [j \in Items |-> edited[h][j]]
  BY DEF Generations
<1>4. Generations' = [h \in Gens |-> Generations'[h]] /\ edited = [h \in Gens |-> edited[h]]
  BY DEF Generations
<1> HIDE DEF edited
<1>5. \A h \in Gens, j \in Items : Generations'[h][j] = edited[h][j]
  BY <1>1, <1>2
<1>6. \A h \in Gens : Generations'[h] = edited[h]
  BY <1>3, <1>5
<1>7. Generations' = edited
  BY <1>4, <1>6
<1>8. QED
  BY <1>7 DEF edited

\* A place gets another content.
LEMMA PlaceFilled ==
    ASSUME ShelfInv, NEW u \in Uploads, staged[u] # Missing, NEW content \in Contents \cup {Empty, Torn},
           staged' = [staged EXCEPT ![u].content = content], UNCHANGED items, Fluid' = Fluid
    PROVE  Disk!DiskNext
<1>1. /\ staged'[u] # Missing /\ staged'[u].content = content
      /\ \A x \in Uploads : x # u => staged'[x] = staged[x]
  BY ContentEdit
<1>2. StagedContent(staged'[u]) = content
  BY <1>1, MissingIsNoJob DEF StagedContent
<1>3. Staging[u] # Missing
  <2>1. staged[u] \in Dir
    BY DEF ShelfInv, ShelfTypes
  <2>2. QED
    BY <2>1, PlacesHaveContent DEF Staging
<1>4. Staging' = [Staging EXCEPT ![u] = content]
  BY <1>1, <1>2, StagingMoves
<1>5. Generations' = Generations
  BY DEF Generations
<1>6. Disk!Writing(u, content)
  BY <1>3, <1>4, <1>5 DEF Disk!Writing, Disk!StageWrite, Staging, Generations
<1>7. QED
  BY <1>6 DEF Disk!DiskNext

\* An item a PUT has open gets another content.
LEMMA ItemFilled ==
    ASSUME ShelfInv, NEW g \in Gens, NEW i \in Items, items[g][i] # Missing, <<g, i>> \in Fluid,
           NEW content \in Contents \cup {Empty, Torn},
           items' = [items EXCEPT ![g][i].content = content], UNCHANGED staged, Fluid' \subseteq Fluid
    PROVE  Disk!DiskNext
<1>1. /\ items' \in [Gens -> [Items -> Dir \cup {Missing}]]
      /\ \A h \in Gens, j \in Items : h # g \/ j # i => items'[h][j] = items[h][j]
      /\ items'[g][i] # Missing /\ items'[g][i].content = content
      /\ items'[g][i].meta = items[g][i].meta /\ items'[g][i].server = items[g][i].server
  <2>1. Refills(g, i, content)
    BY DEF Refills
  <2>2. QED
    BY <2>1, ItemEdit
<1> DEFINE before == AsItem(items[g][i])
           after == [before EXCEPT !.content = content]
<1>2. AsItem(items'[g][i]) = after /\ before # Missing
  <2>1. before = [content |-> items[g][i].content,
                  envelope |-> IF items[g][i].meta = items[g][i].server THEN items[g][i].meta ELSE Missing]
    BY DEF AsItem
  <2>2. AsItem(items'[g][i]) = [content |-> content, envelope |-> before.envelope]
    BY <1>1, <2>1 DEF AsItem
  <2>3. after = [content |-> content, envelope |-> before.envelope]
    BY <2>1
  <2>4. before # Missing
    <3>1. items[g][i] \in Dir
      BY DEF ShelfInv, ShelfTypes
    <3>2. before \in Item
      BY <2>1, <3>1 DEF Dir, Item
    <3>3. QED
      BY <3>2, MissingIsNoDirectory
  <2>5. QED
    BY <2>2, <2>3, <2>4
<1>3. Generations[g][i] = before
  BY DEF Generations
<1> HIDE DEF before
<1>4. Generations' = [Generations EXCEPT ![g][i] = after]
  <2> HIDE DEF after
  <2>1. QED
    BY <1>1, <1>2, GenerationsMove
<1>5. Generations' = [Generations EXCEPT ![g][i].content = content]
  BY <1>3, <1>4
<1>6. Staging' = Staging
  BY DEF Staging
<1>7. Disk!Changing(g, i, content)
  BY <1>2, <1>3, <1>5, <1>6 DEF Disk!Changing, Staging, Generations
<1>8. QED
  BY <1>7 DEF Disk!DiskNext

\* What a PUT writes, its place or the item that has become of it gets.
LEMMA FillImplements ==
    ASSUME ShelfInv, NEW s \in Senders, IsOpen(s), NEW content \in Contents \cup {Empty, Torn},
           Fill(s, content), Fluid' \subseteq Fluid, sending[s].step # "item" => Fluid' = Fluid
    PROVE  Disk!DiskNext
<1> DEFINE put == sending[s]
<1>1. put \in Put /\ PutIsWhole(put, staged, items)
  BY DEF ShelfInv, SendersInv
<1>2. CASE put.step = "staged"
  <2>1. staged' = [staged EXCEPT ![put.u].content = content] /\ items' = items /\ Fluid' = Fluid
    BY <1>2 DEF Fill
  <2>2. put.u \in Uploads /\ staged[put.u] # Missing
    BY <1>1, <1>2 DEF PutIsWhole
  <2> HIDE DEF put
  <2>3. QED
    BY <2>1, <2>2, PlaceFilled
<1>3. CASE put.step = "item"
  <2>1. items' = [items EXCEPT ![put.g][put.i].content = content] /\ staged' = staged
    BY <1>3 DEF Fill
  <2>2. put.g \in Gens /\ put.i \in Items /\ items[put.g][put.i] # Missing
    BY <1>1, <1>3 DEF PutIsWhole
  <2>3. <<put.g, put.i>> \in Fluid
    BY <1>3 DEF Fluid
  <2> HIDE DEF put
  <2>4. QED
    BY <2>1, <2>2, <2>3, ItemFilled
<1>4. CASE put.step = "adrift"
  <2>1. UNCHANGED <<staged, items>>
    BY <1>4 DEF Fill
  <2>2. QED
    BY <2>1, ShelfStutters
<1>5. QED
  BY <1>2, <1>3, <1>4 DEF IsOpen

\* A PUT writes to what it has open, and to nothing else.
LEMMA SendImplements ==
    ASSUME ShelfInv, NEW s \in Senders, Send(s) \/ \E u \in Uploads : StartSend(s, u)
    PROVE  Disk!DiskNext
<1>1. sending[s] \in Put /\ PutIsWhole(sending[s], staged, items)
  BY DEF ShelfInv, SendersInv
<1>2. ASSUME NEW put, put.step # "item", sending' = [sending EXCEPT ![s] = put], UNCHANGED <<staged, items>>
      PROVE  Disk!DiskNext
  BY <1>2, FluidShrinks, ShelfStutters
<1>3. ASSUME NEW u \in Uploads, StartSend(s, u) PROVE Disk!DiskNext
  <2> DEFINE put == [Quiet EXCEPT !.step = "begun", !.u = u]
  <2>1. put.step = "begun" /\ sending' = [sending EXCEPT ![s] = put] /\ UNCHANGED <<staged, items>>
    BY <1>3 DEF StartSend, Quiet
  <2> HIDE DEF put
  <2>2. QED
    BY <1>2, <2>1
<1>4. ASSUME NEW step \in {"cleared", "written"}, SendOn(s, step), UNCHANGED <<staged, items>>
      PROVE  Disk!DiskNext
  <2> DEFINE put == [sending[s] EXCEPT !.step = step]
  <2>1. put.step = step /\ sending' = [sending EXCEPT ![s] = put]
    BY <1>1, <1>4 DEF SendOn, Put
  <2> HIDE DEF put
  <2>2. QED
    BY <1>2, <1>4, <2>1
<1>5. CASE CreateFile(s)
  <2> DEFINE u == sending[s].u
  <2>1. u \in Uploads /\ items' = items /\ sending[s].step # "item"
    BY <1>1, <1>5 DEF CreateFile, PutIsWhole
  <2>2. CASE staged[u] = Missing
    BY <1>2, <1>5, <2>1, <2>2, QuietIsAPut DEF CreateFile
  <2>3. CASE staged[u] # Missing
    <3> DEFINE put == [sending[s] EXCEPT !.step = "staged"]
    <3>1. /\ staged' = [staged EXCEPT ![u].content = Empty] /\ sending' = [sending EXCEPT ![s] = put]
          /\ put.step = "staged"
      BY <1>1, <1>5, <2>3 DEF CreateFile, SendOn, Put
    <3> HIDE DEF put, u
    <3>2. Fluid' = Fluid
      BY <2>1, <3>1, FluidShrinks
    <3>3. QED
      BY <2>1, <2>3, <3>1, <3>2, PlaceFilled
  <2>4. QED
    BY <2>2, <2>3
<1>6. CASE WriteSome(s)
  <2>1. PICK content \in Contents \cup {Torn} : Fill(s, content)
    BY <1>6 DEF WriteSome
  <2>2. IsOpen(s) /\ Fluid' = Fluid
    BY <1>6, FluidStays DEF WriteSome
  <2>3. QED
    BY <2>1, <2>2, FillImplements
<1>7. CASE EmptyContent(s)
  <2>1. IsOpen(s) /\ Fill(s, Empty) /\ sending' = [sending EXCEPT ![s] = Quiet]
    BY <1>7 DEF EmptyContent
  <2>2. Fluid' \subseteq Fluid /\ (sending[s].step # "item" => Fluid' = Fluid)
    BY <2>1, FluidShrinks, QuietIsAPut
  <2>3. QED
    BY <2>1, <2>2, FillImplements
<1>8. CASE KeepDigest(s)
  BY <1>2, <1>8, QuietIsAPut DEF KeepDigest
<1>9. QED
  BY <1>3, <1>4, <1>5, <1>6, <1>7, <1>8 DEF Send, DropOldDigest, EndOfContent

\* The rename is the publish: both envelopes are this publish's by then.
LEMMA RenameDirImplements ==
    ASSUME ShelfInv, NEW w \in Workers, RenameDir(w)
    PROVE  Disk!DiskNext
<1> DEFINE u == working[w].u
           g == working[w].g
           i == working[w].i
           e == working[w].e
<1>1. /\ working[w].do = "publish" /\ working[w].step = 2
      /\ IF staged[u] = Missing \/ items[g][i] # Missing
         THEN UNCHANGED <<staged, items, sending>>
         ELSE /\ items' = [items EXCEPT ![g][i] = staged[u]]
              /\ staged' = [staged EXCEPT ![u] = Missing]
              /\ sending' = [s \in Senders |->
                               IF sending[s].step = "staged" /\ sending[s].u = u
                               THEN [sending[s] EXCEPT !.step = "item", !.g = g, !.i = i]
                               ELSE sending[s]]
  BY DEF RenameDir, At
<1>2. u \in Uploads /\ g \in Gens /\ i \in Items /\ e \in Envelopes
  BY <1>1 DEF ShelfInv, JobIsWhole
<1>3. staged[u] # Missing => staged[u].content # Missing /\ staged[u].meta = e /\ staged[u].server = e
  <2>1. Written(working[w]) /\ working[w].do = "publish" /\ working[w].step = 2
    BY <1>1 DEF ShelfInv
  <2>2. QED
    BY <2>1 DEF Written
<1> HIDE DEF u, g, i, e
<1>4. CASE staged[u] = Missing \/ items[g][i] # Missing
  BY <1>1, <1>4, FluidStays, ShelfStutters
<1>5. CASE staged[u] # Missing /\ items[g][i] = Missing
  <2>1. /\ items' = [items EXCEPT ![g][i] = staged[u]] /\ staged' = [staged EXCEPT ![u] = Missing]
        /\ sending' = [s \in Senders |->
                         IF sending[s].step = "staged" /\ sending[s].u = u
                         THEN [sending[s] EXCEPT !.step = "item", !.g = g, !.i = i]
                         ELSE sending[s]]
    BY <1>1, <1>5
  <2>2. staged'[u] = Missing /\ \A x \in Uploads : x # u => staged'[x] = staged[x]
    BY <1>2, <2>1 DEF ShelfInv, ShelfTypes
  <2>3. Staging' = [Staging EXCEPT ![u] = Missing]
    BY <1>2, <2>2, StagingMoves DEF StagedContent
  <2>4. Staging[u] = staged[u].content /\ Staging[u] # Missing
    BY <1>2, <1>3, <1>5 DEF Staging, StagedContent
  <2>5. AsItem(staged[u]) = [content |-> Staging[u], envelope |-> e]
    BY <1>3, <1>5, <2>4 DEF AsItem
  <2>6. Generations[g][i] = Missing
    BY <1>2, <1>5 DEF Generations, AsItem
  <2>7. Generations' = [Generations EXCEPT ![g][i] = [content |-> Staging[u], envelope |-> e]]
    <3>1. items \in [Gens -> [Items -> Dir \cup {Missing}]] /\ staged[u] \in Dir
      BY <1>2, <1>5 DEF ShelfInv, ShelfTypes
    <3>2. /\ items'[g][i] = staged[u] /\ items' \in [Gens -> [Items -> Dir \cup {Missing}]]
          /\ \A h \in Gens, j \in Items : h # g \/ j # i => items'[h][j] = items[h][j]
      BY <1>2, <2>1, <3>1
    <3>3. QED
      BY <1>2, <2>5, <3>2, GenerationsMove
  <2>8. Fluid' \in {Fluid, Fluid \cup {<<g, i>>}}
    <3>1. ASSUME NEW s \in Senders, sending[s].step = "item"
          PROVE  sending'[s] = sending[s]
      BY <2>1, <3>1
    <3>2. ASSUME NEW s \in Senders, sending'[s].step = "item"
          PROVE  \/ sending'[s] = sending[s]
                 \/ sending[s].step = "staged" /\ sending'[s].g = g /\ sending'[s].i = i
      <4>1. sending[s] \in Put
        BY DEF ShelfInv, SendersInv
      <4>2. QED
        BY <2>1, <4>1 DEF Put
    <3>3. Fluid \subseteq Fluid'
      BY <3>1 DEF Fluid
    <3>4. Fluid' \subseteq Fluid \cup {<<g, i>>}
      <4> SUFFICES ASSUME NEW pair \in Fluid' PROVE pair \in Fluid \cup {<<g, i>>}
        OBVIOUS
      <4>1. PICK s \in Senders : sending'[s].step = "item" /\ pair = <<sending'[s].g, sending'[s].i>>
        BY DEF Fluid
      <4>2. QED
        BY <3>2, <4>1 DEF Fluid
    <3>5. QED
      BY <3>3, <3>4
  <2>9. Disk!Publishing(u, g, i, e)
    BY <2>3, <2>4, <2>6, <2>7, <2>8 DEF Disk!Publishing, Disk!Publish, Staging, Generations
  <2>10. QED
    BY <1>2, <2>9 DEF Disk!DiskNext
<1>6. QED
  BY <1>4, <1>5

\* The PUTs that lose their file with what one rename takes away.
LEMMA FluidDiscarded ==
    ASSUME ShelfInv, NEW job,
           sending' = [s \in Senders |-> IF TakesFrom(job, sending[s]) THEN [sending[s] EXCEPT !.step = "adrift"]
                                         ELSE sending[s]]
    PROVE  /\ job.do = "unstage" => Fluid' = Fluid
           /\ job.do = "remove" => Fluid' = Fluid \ {<<job.g, job.i>>}
           /\ job.do = "drop" /\ job.g \in Gens => Fluid' = Fluid \ ({job.g} \X Items)
<1>1. ASSUME NEW s \in Senders
      PROVE  sending'[s].step = "item" <=> sending[s].step = "item" /\ ~TakesFrom(job, sending[s])
  <2>1. sending[s] \in Put
    BY DEF ShelfInv, SendersInv
  <2>2. QED
    BY <2>1 DEF Put
<1>2. \A s \in Senders : sending'[s].step = "item" => sending'[s] = sending[s]
  BY <1>1
<1>3. Fluid' = {<<sending[s].g, sending[s].i>> :
                   s \in {s \in Senders : sending[s].step = "item" /\ ~TakesFrom(job, sending[s])}}
  BY <1>1, <1>2 DEF Fluid
<1>4. CASE job.do = "unstage"
  BY <1>3, <1>4 DEF Fluid, TakesFrom
<1>5. CASE job.do = "remove"
  <2>1. \A s \in Senders : sending[s].step = "item" =>
           (TakesFrom(job, sending[s]) <=> <<sending[s].g, sending[s].i>> = <<job.g, job.i>>)
    BY <1>5 DEF TakesFrom
  <2>2. QED
    BY <1>3, <1>5, <2>1 DEF Fluid
<1>6. CASE job.do = "drop" /\ job.g \in Gens
  <2>1. \A s \in Senders : sending[s].step = "item" =>
           (TakesFrom(job, sending[s]) <=> <<sending[s].g, sending[s].i>> \in {job.g} \X Items)
    BY <1>6 DEF TakesFrom, ShelfInv, SendersInv, PutIsWhole
  <2>2. Fluid' \subseteq Fluid \ ({job.g} \X Items)
    BY <1>3, <2>1 DEF Fluid
  <2>3. ASSUME NEW at \in Fluid, at \notin {job.g} \X Items PROVE at \in Fluid'
    <3>1. PICK s \in Senders : sending[s].step = "item" /\ at = <<sending[s].g, sending[s].i>>
      BY DEF Fluid
    <3>2. ~TakesFrom(job, sending[s])
      BY <2>1, <2>3, <3>1
    <3>3. QED
      BY <1>3, <3>1, <3>2
  <2>4. QED
    BY <1>6, <2>2, <2>3
<1>7. QED
  BY <1>4, <1>5, <1>6

\* What one rename takes away, the shelf in memory takes away in one step.
LEMMA DiscardImplements ==
    ASSUME ShelfInv, NEW w \in Workers, Discard(w)
    PROVE  Disk!DiskNext
<1> DEFINE u == working[w].u
           g == working[w].g
           i == working[w].i
           do == working[w].do
<1>1. /\ do \in {"remove", "drop", "unstage"}
      /\ IF Found(working[w])
         THEN /\ staged' = IF do = "unstage" THEN [staged EXCEPT ![u] = Missing] ELSE staged
              /\ items' = CASE do = "remove" -> [items EXCEPT ![g][i] = Missing]
                            [] do = "drop" -> [items EXCEPT ![g] = [x \in Items |-> Missing]]
                            [] OTHER -> items
         ELSE UNCHANGED <<staged, items, sending>>
  BY DEF Discard
<1>2. /\ do = "unstage" => u \in Uploads
      /\ do \in {"remove", "drop"} => g \in Gens
      /\ do = "remove" => i \in Items
  BY DEF ShelfInv, JobIsWhole
<1>3. /\ staged \in [Uploads -> Dir \cup {Missing}]
      /\ items \in [Gens -> [Items -> Dir \cup {Missing}]]
  BY DEF ShelfInv, ShelfTypes
<1>4. Found(working[w]) =>
         /\ do = "unstage" => Fluid' = Fluid
         /\ do = "remove" => Fluid' = Fluid \ {<<g, i>>}
         /\ do = "drop" => Fluid' = Fluid \ ({g} \X Items)
  <2>1. Found(working[w]) =>
           sending' = [s \in Senders |->
                         IF TakesFrom(working[w], sending[s]) THEN [sending[s] EXCEPT !.step = "adrift"]
                         ELSE sending[s]]
    BY DEF Discard
  <2>2. QED
    BY <1>2, <2>1, FluidDiscarded
<1> HIDE DEF u, g, i, do
<1>5. CASE ~Found(working[w])
  BY <1>1, <1>5, FluidStays, ShelfStutters
<1>6. CASE Found(working[w]) /\ do = "unstage"
  <2>1. staged' = [staged EXCEPT ![u] = Missing] /\ items' = items /\ Fluid' = Fluid
    BY <1>1, <1>4, <1>6
  <2>2. staged'[u] = Missing /\ \A x \in Uploads : x # u => staged'[x] = staged[x]
    BY <1>2, <1>3, <1>6, <2>1
  <2>3. Staging' = [Staging EXCEPT ![u] = Missing]
    BY <1>2, <1>6, <2>2, StagingMoves DEF StagedContent
  <2>4. Generations' = Generations
    BY <2>1 DEF Generations
  <2>5. Disk!Placing(u)
    BY <2>1, <2>3, <2>4 DEF Disk!Placing, Disk!StageRemove, Staging, Generations
  <2>6. QED
    BY <1>2, <1>6, <2>5 DEF Disk!DiskNext
<1>7. CASE Found(working[w]) /\ do = "remove"
  <2>1. items' = [items EXCEPT ![g][i] = Missing] /\ staged' = staged /\ Fluid' = Fluid \ {<<g, i>>}
    BY <1>1, <1>4, <1>7
  <2>2. /\ items'[g][i] = Missing /\ items' \in [Gens -> [Items -> Dir \cup {Missing}]]
        /\ \A h \in Gens, j \in Items : h # g \/ j # i => items'[h][j] = items[h][j]
    BY <1>2, <1>3, <1>7, <2>1
  <2>3. AsItem(items'[g][i]) = Missing
    BY <2>2 DEF AsItem
  <2>4. Generations' = [Generations EXCEPT ![g][i] = Missing]
    BY <1>2, <1>7, <2>2, <2>3, GenerationsMove
  <2>5. Staging' = Staging
    BY <2>1 DEF Staging
  <2>6. Disk!Removing(g, i)
    BY <2>1, <2>4, <2>5 DEF Disk!Removing, Disk!Remove, Staging, Generations
  <2>7. QED
    BY <1>2, <1>7, <2>6 DEF Disk!DiskNext
<1>8. CASE Found(working[w]) /\ do = "drop"
  <2>1. /\ items' = [items EXCEPT ![g] = [x \in Items |-> Missing]] /\ staged' = staged
        /\ Fluid' = Fluid \ ({g} \X Items)
    BY <1>1, <1>4, <1>8
  <2>2. /\ \A j \in Items : items'[g][j] = Missing
        /\ \A h \in Gens : h # g => items'[h] = items[h]
    BY <1>2, <1>3, <1>8, <2>1
  <2> DEFINE after == [Generations EXCEPT ![g] = [j \in Items |-> Missing]]
  <2>3. \A h \in Gens, j \in Items :
           after[h][j] = IF h = g THEN Missing ELSE AsItem(items[h][j])
    BY <1>2, <1>8 DEF Generations
  <2>4. \A h \in Gens, j \in Items : Generations'[h][j] = AsItem(items'[h][j])
    BY DEF Generations, AsItem
  <2>5. \A h \in Gens, j \in Items : Generations'[h][j] = after[h][j]
    <3>1. AsItem(Missing) = Missing
      BY DEF AsItem
    <3> HIDE DEF after
    <3>2. QED
      BY <2>2, <2>3, <2>4, <3>1
  <2>6. \A h \in Gens : /\ Generations'[h] = [j \in Items |-> Generations'[h][j]]
                        /\ after[h] = [j \in Items |-> after[h][j]]
    BY <1>2, <1>8 DEF Generations
  <2>7. Generations' = [h \in Gens |-> Generations'[h]] /\ after = [h \in Gens |-> after[h]]
    BY <1>2, <1>8 DEF Generations
  <2> HIDE DEF after
  <2>8. \A h \in Gens : Generations'[h] = after[h]
    BY <2>5, <2>6
  <2>9. Generations' = after
    BY <2>7, <2>8
  <2>10. Staging' = Staging
    BY <2>1 DEF Staging
  <2>11. Disk!Dropping(g)
    BY <2>1, <2>9, <2>10 DEF Disk!Dropping, Disk!DropGeneration, Staging, Generations, after
  <2>12. QED
    BY <1>2, <1>8, <2>11 DEF Disk!DiskNext
<1>9. QED
  BY <1>1, <1>5, <1>6, <1>7, <1>8

\* No other step changes a place or an item, or opens one.
LEMMA OtherStepsStutter ==
    ASSUME \/ \E w \in Workers : Begin(w) \/ RemoveDigest(w) \/ EmptyBin(w)
           \/ \E r \in Readers : \/ ReadMeta(r) \/ ReadServer(r)
                                 \/ \E g \in Gens, i \in Items : LookAtContent(r, g, i)
           \/ StartOpen \/ EmptyTrash \/ ListDigests \/ SweepOne \/ Opened \/ OpenAgain
           \/ \E u \in Uploads : LookForPlace(u)
           \/ KillShelf
           \/ UNCHANGED shelf
    PROVE  Disk!DiskNext
<1>1. UNCHANGED <<staged, items>>
  BY DEF Begin, StartCreate, StartUnstage, StartPublish, StartDrop, StartRemove, Take, RemoveDigest,
         EmptyBin, ReadMeta, ReadServer, ReadEnvelope, LookAtContent, StartOpen, EmptyTrash, ListDigests,
         LookForPlace, SweepOne, Opened, OpenAgain, KillShelf, files, shelf
<1>2. sending' = sending \/ sending' = [s \in Senders |-> Quiet]
  BY DEF Begin, StartCreate, StartUnstage, StartPublish, StartDrop, StartRemove, Take, RemoveDigest,
         EmptyBin, ReadMeta, ReadServer, ReadEnvelope, LookAtContent, StartOpen, EmptyTrash, ListDigests,
         LookForPlace, SweepOne, Opened, OpenAgain, KillShelf, Idly, shelf
<1>3. Fluid' \subseteq Fluid
  BY <1>2, QuietIsAPut DEF Fluid
<1>4. QED
  BY <1>1, <1>3, ShelfStutters

\* ImplementsDiskShelf: the files of a shelf (shelf/fs.rs) change as module DiskShelf says, with
\* workers, senders, readers and openers between its system calls and kills between any two of
\* them: places and items come, are published, and go in one step each, and an item changes only
\* while a PUT that had its file open at the publish still runs.
THEOREM FilesImplementTheShelf == FsSpec => ImplementsDiskShelf
<1>1. FsInit => Disk!DiskInit
  <2> SUFFICES ASSUME FsInit PROVE Disk!DiskInit
    OBVIOUS
  <2>1. /\ \A u \in Uploads : StagedContent(staged[u]) = Missing
        /\ \A g \in Gens, i \in Items : AsItem(items[g][i]) = Missing
    BY DEF FsInit, StagedContent, AsItem
  <2>2. Fluid = {}
    BY QuietIsAPut DEF FsInit, Fluid
  <2>3. QED
    BY <2>1, <2>2 DEF Disk!DiskInit, Disk!ShelfInit
<1>2. ShelfInv /\ [FsNext]_shelf => [Disk!DiskNext]_(Disk!disk)
  <2> SUFFICES ASSUME ShelfInv, [FsNext]_shelf PROVE Disk!DiskNext
    OBVIOUS
  <2>1. ASSUME NEW w \in Workers, Work(w) PROVE Disk!DiskNext
    BY <2>1, MakeStagedDirImplements, WritingStutters, RenameDirImplements, DiscardImplements,
       OtherStepsStutter DEF Work
  <2>2. QED
    BY <2>1, SendImplements, OtherStepsStutter DEF FsNext
<1>3. ShelfInv /\ [FsNext]_shelf => ShelfInv'
  BY StepShelf
<1>4. QED
  BY <1>1, <1>2, <1>3, InitShelf, PTL DEF FsSpec, ImplementsDiskShelf, Disk!DiskSpec

=============================================================================
