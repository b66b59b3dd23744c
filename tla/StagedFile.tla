----------------------------- MODULE StagedFile -----------------------------
(***************************************************************************)
(* One upload, seen as the files of FsShelf (shelf/fs.rs).  Sending content *)
(* holds no lock, so its steps interleave with those of other requests for  *)
(* the same upload: a repeated PUT whose predecessor still runs, a commit,  *)
(* an abort.  An open file stays open when its directory is renamed.        *)
(*                                                                         *)
(* Module Uploads takes a whole PUT as one step; this module looks inside.  *)
(***************************************************************************)
EXTENDS Integers, Sequences, SequencesExt

CONSTANTS
    Puts,        \* the PUT requests sent for the upload
    Sends,       \* the content each of them carries
    Right,       \* the content `meta` tells of
    None,        \* no digest
    Pieces,      \* the announced size, in pieces as the shelf writes them
    Overlap,     \* whether a request may come while another one still runs
    \* Bounds of the model, not of the program.
    MaxFaults

ASSUME StagedFileAssumption ==
    /\ Pieces \in Nat \ {0}
    /\ Overlap \in BOOLEAN
    /\ MaxFaults \in Nat
    /\ None \notin Puts \cup Seq({Sends[p] : p \in Puts} \cup {Right})

VARIABLES
    place,      \* where the upload's directory is: "staging", "item", or "gone"
    file,       \* its file `content`, piece by piece
    flushed,    \* what of the file is on the disk
    renamed,    \* whether the directory's place is on the disk
    digest,     \* the content whose digest is in the .sha256 file beside it
    checked,    \* whether content is checked against `meta` (checks_content)
    writer,     \* history: the PUT that emptied the file last
    upload,     \* the record: "ticket", "finished", or "aborted"
    puts,       \* how far each PUT is, and its offset in the file
    commit,     \* how far the commit under the workspace lock is
    faults

vars == <<place, file, flushed, renamed, digest, checked, writer, upload, puts, commit, faults>>

Hole == "hole"
First(n, content) == [i \in 1 .. n |-> content]
Whole(content) == First(Pieces, content)

Init ==
    /\ place = "staging"
    /\ file = <<>>
    /\ flushed = <<>>
    /\ renamed = TRUE
    /\ digest = None
    /\ checked \in BOOLEAN
    /\ writer = None
    /\ upload = "ticket"
    /\ puts = [p \in Puts |-> [step |-> "unsent", at |-> 0]]
    /\ commit = "idle"
    /\ faults = 0

\* Nobody else works on the upload, or nobody waits for that.
MayStart ==
    \/ Overlap
    \/ commit = "idle" /\ \A p \in Puts : puts[p].step \in {"unsent", "done", "failed"}

Move(p, step) == puts' = [puts EXCEPT ![p].step = step]

-----------------------------------------------------------------------------
(* putUploadContent, outside the lock. *)

\* The record is asked once, at the start: after the commit the content is
\* acknowledged and not written; without a ticket it is refused.
StartPut(p) ==
    /\ puts[p].step = "unsent"
    /\ MayStart
    /\ Move(p, CASE upload = "finished" -> "done"
                 [] upload # "finished" /\ (upload = "aborted" \/ place # "staging") -> "failed"
                 [] OTHER -> "begun")
    /\ UNCHANGED <<place, file, flushed, renamed, digest, checked, writer, upload, commit, faults>>

\* Mutant of ForgetDigest: the digest stays until there is another.
ForgetNothing(p) ==
    /\ puts[p].step = "begun"
    /\ Move(p, "cleared")
    /\ UNCHANGED <<place, file, flushed, renamed, digest, checked, writer, upload, commit, faults>>

\* `remove_digest`, before the content it was of is overwritten.
ForgetDigest(p) ==
    /\ puts[p].step = "begun"
    /\ digest' = None
    /\ Move(p, "cleared")
    /\ UNCHANGED <<place, file, flushed, renamed, checked, writer, upload, commit, faults>>

\* `create_file` truncates, and fails when the directory has moved.
Truncate(p) ==
    /\ puts[p].step = "cleared"
    /\ IF place = "staging"
       THEN file' = <<>> /\ puts' = [puts EXCEPT ![p] = [step |-> "writing", at |-> 0]] /\ writer' = p
       ELSE Move(p, "failed") /\ UNCHANGED <<file, writer>>
    /\ UNCHANGED <<place, flushed, renamed, digest, checked, upload, commit, faults>>

\* A piece is written at this request's own offset; where another one truncated the
\* file, what lies before is a hole.
WritePiece(p) ==
    LET at == puts[p].at
        padded == file \o [i \in 1 .. (IF Len(file) < at THEN at - Len(file) ELSE 0) |-> Hole]
    IN  /\ puts[p].step = "writing"
        /\ at < Pieces
        /\ file' = IF Len(padded) > at THEN [padded EXCEPT ![at + 1] = Sends[p]]
                                       ELSE Append(padded, Sends[p])
        /\ puts' = [puts EXCEPT ![p].at = at + 1]
        /\ UNCHANGED <<place, flushed, renamed, digest, checked, writer, upload, commit, faults>>

\* The end of the content is read, which may come before what was announced: the file
\* is flushed.
FlushContent(p) ==
    /\ puts[p].step = "writing"
    /\ flushed' = file
    /\ Move(p, IF checked THEN "flushed" ELSE "done")
    /\ UNCHANGED <<place, file, renamed, digest, checked, writer, upload, commit, faults>>

\* The digest is of what this request sent.
NoteDigest(p) ==
    /\ puts[p].step = "flushed"
    /\ digest' = First(puts[p].at, Sends[p])
    /\ Move(p, "done")
    /\ UNCHANGED <<place, file, flushed, renamed, checked, writer, upload, commit, faults>>

\* The client goes away before the end, or sends more than it announced: the file is
\* emptied.
CutShort(p) ==
    /\ puts[p].step = "writing"
    /\ file' = <<>>
    /\ Move(p, "failed")
    /\ UNCHANGED <<place, flushed, renamed, digest, checked, writer, upload, commit, faults>>

-----------------------------------------------------------------------------
(* commitUpload, under the lock, which the steps above do not take. *)

\* Mutant of CheckSize: whatever a request sent will do.
CheckNoSize ==
    /\ commit = "idle"
    /\ upload = "ticket"
    /\ MayStart
    /\ place = "staging"
    /\ commit' = "sized"
    /\ UNCHANGED <<place, file, flushed, renamed, digest, checked, writer, upload, puts, faults>>

\* Of another size it is refused, and may be sent again.
CheckSize ==
    /\ commit = "idle"
    /\ upload = "ticket"
    /\ MayStart
    /\ place = "staging"
    /\ Len(file) = Pieces
    /\ commit' = "sized"
    /\ UNCHANGED <<place, file, flushed, renamed, digest, checked, writer, upload, puts, faults>>

\* `check_plaintext`, or nothing.
CheckContent ==
    /\ commit = "sized"
    /\ commit' = IF checked => digest = Whole(Right) THEN "checked" ELSE "idle"
    /\ UNCHANGED <<place, file, flushed, renamed, digest, checked, writer, upload, puts, faults>>

\* `publish`: the directory becomes the item.
Rename ==
    /\ commit = "checked"
    /\ place' = "item"
    /\ renamed' = FALSE
    /\ commit' = "renamed"
    /\ UNCHANGED <<file, flushed, digest, checked, writer, upload, puts, faults>>

\* Its note goes, and the directories are flushed.
SettleRename ==
    /\ commit = "renamed"
    /\ digest' = None
    /\ renamed' = TRUE
    /\ commit' = "published"
    /\ UNCHANGED <<place, file, flushed, checked, writer, upload, puts, faults>>

RecordCommit ==
    /\ commit = "published"
    /\ upload' = "finished"
    /\ commit' = "idle"
    /\ UNCHANGED <<place, file, flushed, renamed, digest, checked, writer, puts, faults>>

\* The staging place is gone and the item is there: the record is finished.
FinishRecord ==
    /\ commit = "idle"
    /\ upload = "ticket"
    /\ MayStart
    /\ place = "item"
    /\ Len(file) = Pieces
    /\ upload' = "finished"
    /\ UNCHANGED <<place, file, flushed, renamed, digest, checked, writer, puts, commit, faults>>

\* `abortUpload` or expiry: the ticket goes, and then the staging place and its note.
EndUpload ==
    /\ commit = "idle"
    /\ upload = "ticket"
    /\ MayStart
    /\ upload' = "aborted"
    /\ UNCHANGED <<place, file, flushed, renamed, digest, checked, writer, puts, commit, faults>>

RemoveStaged ==
    /\ upload \in {"aborted", "finished"}
    /\ place = "staging" \/ digest # None
    /\ MayStart
    /\ place' = IF place = "staging" THEN "gone" ELSE place
    /\ digest' = None
    /\ UNCHANGED <<file, flushed, renamed, checked, writer, upload, puts, commit, faults>>

-----------------------------------------------------------------------------
(* Faults.  The next process opens the shelf, which sweeps digests that have *)
(* no staging place.                                                        *)

Restart ==
    /\ faults < MaxFaults
    /\ faults' = faults + 1
    /\ commit' = "idle"
    /\ puts' = [p \in Puts |-> IF puts[p].step \in {"unsent", "done"} THEN puts[p]
                               ELSE [step |-> "failed", at |-> 0]]
    /\ UNCHANGED <<checked, writer, upload>>

\* The process is killed; what it wrote is in the hands of the system.
Kill ==
    /\ Restart
    /\ digest' = IF place = "staging" THEN digest ELSE None
    /\ UNCHANGED <<place, file, flushed, renamed>>

\* The machine stops, and what was not flushed may be lost.  What directories hold
\* reaches the disk in the order of the changes, so a digest that comes back comes
\* back with the content it was of.
PowerFails ==
    /\ Restart
    /\ file' \in {file, flushed}
    /\ place' \in {place} \cup (IF renamed THEN {} ELSE {"staging"})
    /\ digest' = IF place' = "staging" THEN digest ELSE None
    /\ flushed' = file'
    /\ renamed' = TRUE

Next ==
    \/ \E p \in Puts :
          \/ StartPut(p) \/ ForgetDigest(p) \/ Truncate(p) \/ WritePiece(p)
          \/ FlushContent(p) \/ NoteDigest(p) \/ CutShort(p)
    \/ CheckSize \/ CheckContent \/ Rename \/ SettleRename \/ RecordCommit
    \/ FinishRecord \/ EndUpload \/ RemoveStaged
    \/ Kill \/ PowerFails

Spec == Init /\ [][Next]_vars

-----------------------------------------------------------------------------
(* Properties. *)

\* Every variable has its type.
TypeOK ==
    /\ place \in {"staging", "item", "gone"}
    /\ file \in BoundedSeq({Sends[p] : p \in Puts} \cup {Hole}, Pieces)
    /\ flushed \in BoundedSeq({Sends[p] : p \in Puts} \cup {Hole}, Pieces)
    /\ renamed \in BOOLEAN
    /\ digest \in BoundedSeq({Sends[p] : p \in Puts}, Pieces) \cup {None}
    /\ checked \in BOOLEAN
    /\ writer \in Puts \cup {None}
    /\ upload \in {"ticket", "finished", "aborted"}
    /\ puts \in [Puts -> [step : {"unsent", "begun", "cleared", "writing", "flushed",
                                  "done", "failed"}, at : 0 .. Pieces]]
    /\ commit \in {"idle", "sized", "checked", "renamed", "published"}
    /\ faults \in 0 .. MaxFaults

\* The content in the file is that of a request that was answered.
Acknowledged == writer # None /\ puts[writer].step = "done"

\* An item whose content was checked, or was acknowledged when it was sent, has the whole of
\* what one request sent, of the announced size though a shorter body is acknowledged too
\* (put_upload_content, commit_upload), on the disk ("before anyone may publish it", write),
\* and the content `meta` tells of where that is checked, whatever was killed, cut short or
\* lost with the power before and after.  A finished upload is an item; it takes two faults,
\* the first of them inside its commit, to lose one.
ItemIsWhole ==
    /\ place = "item" /\ (checked \/ Acknowledged) =>
          /\ flushed = file
          /\ \E p \in Puts : file = Whole(Sends[p])
          /\ checked => file = Whole(Right)
    /\ upload = "finished" /\ faults < 2 => place = "item"

\* Of every finished upload and whatever the faults: it is an item, whole and on the disk
\* ("On the disk before anyone may publish it", `write`).
FinishedIsStored ==
    upload = "finished" => place = "item" /\ flushed = file /\ \E p \in Puts : file = Whole(Sends[p])

\* A digest beside a staging place is of the content in it, so checking the digest is
\* checking the content (remove_digest comes first and write_file last in `write`).
DigestIsOfTheContent ==
    place = "staging" /\ digest # None => file = digest

\* "Before the commit it replaces what was sent before; after it, it is acknowledged
\* and the content discarded" (upload.rs, put_upload_content): no PUT changes an item.
FinishedNeverChanges ==
    [][upload = "finished" => file' = file]_vars

=============================================================================
