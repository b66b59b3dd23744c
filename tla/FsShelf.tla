------------------------------ MODULE FsShelf ------------------------------
(***************************************************************************)
(* The shelf in a directory (shelf/fs.rs), as its files.  An operation is   *)
(* several system calls; the rules run some of them under the workspace's   *)
(* lock (stage_create, publish, remove) and others outside it (stage_write, *)
(* stage_remove, drop_generation, and every read), and another process may  *)
(* open the shelf at any time.  What stage_write leaves in its file, piece  *)
(* by piece and on the disk, is in module StagedFile.                       *)
(***************************************************************************)
EXTENDS Naturals, FiniteSets

CONSTANTS
    Uploads, Gens, Items, Contents, Envelopes,
    Workers,      \* threads that change the shelf
    Senders,      \* threads that write content, each for a PUT
    Readers,      \* threads that read it
    Missing, Empty,
    Torn,         \* content that is not the whole of what one request sent
    \* Bounds of the model, not of the program.
    MaxKills, MaxTrash

ASSUME FsShelfAssumption ==
    /\ MaxKills \in Nat /\ MaxTrash \in Nat
    /\ Missing \notin Contents \cup Envelopes \cup Uploads \cup {Empty}
    /\ Missing \notin {"create", "publish", "remove", "drop", "unstage"}
    /\ Empty \notin Contents
    /\ Torn \notin Contents \cup {Empty, Missing}

VARIABLES
    staged,     \* staging/<upload>/: its files, or Missing
    digests,    \* uploads with a <upload>.sha256 beside it
    items,      \* gen-<n>/items/<id>/: its files, or Missing
    trash,      \* what is in trash/, by the number in its name
    trashed,    \* names used so far
    working,    \* what each worker does, and how far it is
    sending,    \* how far each PUT is, and where its file is
    reading,    \* what each reader has read so far
    opener,     \* a process that opens the shelf: how far, the digests it has yet to look at,
                \* the one it removes, and whether the place of that was made since it looked
    up,         \* whether a process has the shelf open
    kills

files == <<staged, digests, items, trash, trashed>>
shelf == <<files, working, sending, reading, opener, up, kills>>

Dir == [content : Contents \cup {Empty, Torn, Missing}, meta : Envelopes \cup {Missing},
        server : Envelopes \cup {Missing}]
Item == [content : Contents \cup {Empty, Torn, Missing}, envelope : Envelopes \cup {Missing}]
ASSUME MissingIsNoDirectory == Missing \notin Dir \cup Item

NewDir == [content |-> Missing, meta |-> Missing, server |-> Missing]
Free == [do |-> Missing, step |-> 0, u |-> Missing, g |-> Missing, i |-> Missing, e |-> Missing, bin |-> 0]
Quiet == [step |-> "idle", u |-> Missing, g |-> Missing, i |-> Missing]
Closed == [step |-> "idle", names |-> {}, orphan |-> Missing, anew |-> FALSE]
Done == [step |-> "done", g |-> Missing, i |-> Missing]

FsInit ==
    /\ staged = [u \in Uploads |-> Missing]
    /\ digests = {}
    /\ items = [g \in Gens |-> [i \in Items |-> Missing]]
    /\ trash = {}
    /\ trashed = 0
    /\ working = [w \in Workers |-> Free]
    /\ reading = [r \in Readers |-> Done]
    /\ sending = [s \in Senders |-> Quiet]
    /\ opener = Closed
    /\ up = TRUE
    /\ kills = 0

\* The workspace's lock, which is the ledger's transaction.
Locked == \E w \in Workers : working[w].do \in {"create", "publish", "remove"}

Idly == UNCHANGED <<sending, reading, opener, up, kills>>

Take(w, job) ==
    /\ up
    /\ working[w] = Free
    /\ working' = [working EXCEPT ![w] = job]
    /\ UNCHANGED files /\ Idly

At(w, do, step) == working[w].do = do /\ working[w].step = step
On(w, step) == working' = [working EXCEPT ![w].step = step]
Leave(w) == working' = [working EXCEPT ![w] = Free]

-----------------------------------------------------------------------------
(* Staging. *)

\* For a new ticket, and for one whose place has gone missing.
StartCreate(w, u) == ~Locked /\ Take(w, [Free EXCEPT !.do = "create", !.u = u])

MakeStagedDir(w) ==
    LET u == working[w].u
    IN  /\ At(w, "create", 0)
        /\ staged' = [staged EXCEPT ![u] = IF @ = Missing THEN NewDir ELSE @]
        /\ opener' = [opener EXCEPT !.anew = @ \/ (staged[u] = Missing /\ opener.orphan = u)]
        /\ On(w, 1)
        /\ UNCHANGED <<digests, items, trash, trashed, sending, reading, up, kills>>

CreateContent(w) ==
    LET u == working[w].u
    IN  /\ At(w, "create", 1)
        /\ IF staged[u] = Missing THEN UNCHANGED staged
           ELSE staged' = [staged EXCEPT ![u].content = IF @ = Missing THEN Empty ELSE @]
        /\ Leave(w)
        /\ UNCHANGED <<digests, items, trash, trashed>> /\ Idly

-----------------------------------------------------------------------------
(* stage_write, outside the lock: "staged", "item", and "adrift" say that the *)
(* file is open, and whether its directory is still the place, has become an  *)
(* item, or lies in the trash.                                               *)

SendOn(s, step) == sending' = [sending EXCEPT ![s].step = step]
Unmoved == UNCHANGED <<trash, trashed, working, reading, opener, up, kills>>

\* Without its place it is refused.
StartSend(s, u) ==
    /\ up
    /\ sending[s] = Quiet
    /\ staged[u] # Missing
    /\ sending' = [sending EXCEPT ![s] = [Quiet EXCEPT !.step = "begun", !.u = u]]
    /\ UNCHANGED <<staged, digests, items>> /\ Unmoved

\* "The digest of what was there is the digest of nothing now."
DropOldDigest(s) ==
    /\ sending[s].step = "begun"
    /\ digests' = digests \ {sending[s].u}
    /\ SendOn(s, "cleared")
    /\ UNCHANGED <<staged, items>> /\ Unmoved

\* `create_file` empties the file, and fails where the place has gone meanwhile.
CreateFile(s) ==
    LET u == sending[s].u
    IN  /\ sending[s].step = "cleared"
        /\ IF staged[u] = Missing
           THEN UNCHANGED staged /\ sending' = [sending EXCEPT ![s] = Quiet]
           ELSE staged' = [staged EXCEPT ![u].content = Empty] /\ SendOn(s, "staged")
        /\ UNCHANGED <<digests, items>> /\ Unmoved

IsOpen(s) == sending[s].step \in {"staged", "item", "adrift"}

\* The open file gets a content, wherever it is by now.
Fill(s, content) ==
    LET put == sending[s]
    IN  CASE put.step = "staged" -> staged' = [staged EXCEPT ![put.u].content = content] /\ UNCHANGED items
          [] put.step = "item" -> items' = [items EXCEPT ![put.g][put.i].content = content] /\ UNCHANGED staged
          [] OTHER -> UNCHANGED <<staged, items>>

\* After a piece the file holds the whole of what was sent, or not.
WriteSome(s) ==
    /\ IsOpen(s)
    /\ \E content \in Contents \cup {Torn} : Fill(s, content)
    /\ UNCHANGED <<digests, sending>> /\ Unmoved

\* The end of the body, however early, and the flush.
EndOfContent(s) ==
    /\ IsOpen(s)
    /\ SendOn(s, "written")
    /\ UNCHANGED <<staged, digests, items>> /\ Unmoved

\* Where the content is hashed; the note needs no place.
KeepDigest(s) ==
    /\ sending[s].step = "written"
    /\ \E hashed \in BOOLEAN : digests' = IF hashed THEN digests \cup {sending[s].u} ELSE digests
    /\ sending' = [sending EXCEPT ![s] = Quiet]
    /\ UNCHANGED <<staged, items>> /\ Unmoved

\* The content was refused, or its sender went away: the file is emptied.
EmptyContent(s) ==
    /\ IsOpen(s)
    /\ Fill(s, Empty)
    /\ sending' = [sending EXCEPT ![s] = Quiet]
    /\ UNCHANGED digests /\ Unmoved

Send(s) ==
    \/ DropOldDigest(s) \/ CreateFile(s) \/ WriteSome(s)
    \/ EndOfContent(s) \/ KeepDigest(s) \/ EmptyContent(s)

-----------------------------------------------------------------------------
(* publish.  A rule publishes what has its size, so a place with its file. *)

StartPublish(w, u, g, i, e) ==
    /\ ~Locked
    /\ staged[u] # Missing /\ staged[u].content # Missing
    /\ Take(w, [Free EXCEPT !.do = "publish", !.u = u, !.g = g, !.i = i, !.e = e])

\* Where the place has gone meanwhile, writing into it fails.
WriteEnvelope(w, step, file) ==
    LET u == working[w].u
    IN  /\ At(w, "publish", step)
        /\ IF staged[u] = Missing
           THEN Leave(w) /\ UNCHANGED staged
           ELSE staged' = [staged EXCEPT ![u][file] = working[w].e] /\ On(w, step + 1)
        /\ UNCHANGED <<digests, items, trash, trashed>> /\ Idly

\* Mutant of WriteServer: an older file is left as it is.
WriteServerOnce(w) ==
    LET u == working[w].u
    IN  /\ At(w, "publish", 1)
        /\ IF staged[u] = Missing
           THEN Leave(w) /\ UNCHANGED staged
           ELSE /\ staged' = [staged EXCEPT ![u].server = IF @ = Missing THEN working[w].e ELSE @]
                /\ On(w, 2)
        /\ UNCHANGED <<digests, items, trash, trashed>> /\ Idly

WriteMeta(w) == WriteEnvelope(w, 0, "meta")
WriteServer(w) == WriteEnvelope(w, 1, "server")

\* `rename` refuses a target that is not empty, and then nothing is replaced.  A file that is
\* open stays open, in the item.
RenameDir(w) ==
    LET job == working[w]
    IN  /\ At(w, "publish", 2)
        /\ IF staged[job.u] = Missing \/ items[job.g][job.i] # Missing
           THEN Leave(w) /\ UNCHANGED <<staged, items, sending>>
           ELSE /\ items' = [items EXCEPT ![job.g][job.i] = staged[job.u]]
                /\ staged' = [staged EXCEPT ![job.u] = Missing]
                /\ sending' = [s \in Senders |->
                                 IF sending[s].step = "staged" /\ sending[s].u = job.u
                                 THEN [sending[s] EXCEPT !.step = "item", !.g = job.g, !.i = job.i]
                                 ELSE sending[s]]
                /\ On(w, 3)
        /\ UNCHANGED <<digests, trash, trashed, reading, opener, up, kills>>

RemoveDigest(w) ==
    /\ At(w, "publish", 3) \/ At(w, "unstage", 2)
    /\ digests' = digests \ {working[w].u}
    /\ Leave(w)
    /\ UNCHANGED <<staged, items, trash, trashed>> /\ Idly

-----------------------------------------------------------------------------
(* Removing.  What is removed is renamed into the trash, and then deleted.  *)

StartRemove(w, g, i) == ~Locked /\ Take(w, [Free EXCEPT !.do = "remove", !.g = g, !.i = i])
StartDrop(w, g) == Take(w, [Free EXCEPT !.do = "drop", !.g = g])
StartUnstage(w, u) == Take(w, [Free EXCEPT !.do = "unstage", !.u = u])

\* What the worker's job takes away, in one rename.
Found(job) ==
    CASE job.do = "remove"  -> items[job.g][job.i] # Missing
      [] job.do = "drop"    -> \E i \in Items : items[job.g][i] # Missing
      [] job.do = "unstage" -> staged[job.u] # Missing
      [] OTHER              -> FALSE

\* Whether the job takes away the file this PUT writes.
TakesFrom(job, put) ==
    CASE job.do = "remove"  -> put.step = "item" /\ put.g = job.g /\ put.i = job.i
      [] job.do = "drop"    -> put.step = "item" /\ put.g = job.g
      [] job.do = "unstage" -> put.step = "staged" /\ put.u = job.u
      [] OTHER              -> FALSE

\* After an unstaged place its digest goes too.
Afterwards(w) == IF working[w].do = "unstage" THEN On(w, 2) ELSE Leave(w)

Discard(w) ==
    LET job == working[w]
    IN  /\ job.do \in {"remove", "drop", "unstage"} /\ job.step = 0
        /\ trashed < MaxTrash
        /\ IF Found(job)
           THEN /\ trash' = trash \cup {trashed}
                /\ trashed' = trashed + 1
                /\ working' = [working EXCEPT ![w].step = 1, ![w].bin = trashed]
                /\ staged' = IF job.do = "unstage" THEN [staged EXCEPT ![job.u] = Missing] ELSE staged
                /\ items' = CASE job.do = "remove" -> [items EXCEPT ![job.g][job.i] = Missing]
                              [] job.do = "drop" -> [items EXCEPT ![job.g] = [i \in Items |-> Missing]]
                              [] OTHER -> items
                /\ sending' = [s \in Senders |->
                                 IF TakesFrom(job, sending[s]) THEN [sending[s] EXCEPT !.step = "adrift"]
                                 ELSE sending[s]]
           ELSE Afterwards(w) /\ UNCHANGED <<staged, items, trash, trashed, sending>>
        /\ UNCHANGED <<digests, reading, opener, up, kills>>

\* `remove_tree`; somebody else may have emptied the trash.
EmptyBin(w) ==
    /\ working[w].do \in {"remove", "drop", "unstage"} /\ working[w].step = 1
    /\ trash' = trash \ {working[w].bin}
    /\ Afterwards(w)
    /\ UNCHANGED <<staged, digests, items, trashed>> /\ Idly

-----------------------------------------------------------------------------
(* get: the size from `content`, then meta.json, then server.json. *)

\* Without `content` there is no item, and without the others the shelf cannot be used.
LookAtContent(r, g, i) ==
    /\ up
    /\ reading[r].g = Missing
    /\ reading' = [reading EXCEPT ![r] = IF items[g][i] = Missing THEN Done
                                        ELSE [step |-> "sized", g |-> g, i |-> i]]
    /\ UNCHANGED <<files, working, sending, opener, up, kills>>

ReadEnvelope(r, from, to) ==
    /\ reading[r].step = from
    /\ reading' = [reading EXCEPT ![r] = IF items[@.g][@.i] = Missing THEN [Done EXCEPT !.step = "unavailable"]
                                        ELSE to]
    /\ UNCHANGED <<files, working, sending, opener, up, kills>>

ReadMeta(r) == ReadEnvelope(r, "sized", [reading[r] EXCEPT !.step = "envelope"])
ReadServer(r) == ReadEnvelope(r, "envelope", Done)

-----------------------------------------------------------------------------
(* Opening, by the next process or by a command while the server runs. *)

StartOpen ==
    /\ opener.step = "idle"
    /\ opener' = [opener EXCEPT !.step = "trash"]
    /\ UNCHANGED <<files, working, sending, reading, up, kills>>

EmptyTrash ==
    /\ opener.step = "trash"
    /\ trash' = {}
    /\ opener' = [opener EXCEPT !.step = "list"]
    /\ UNCHANGED <<staged, digests, items, trashed, working, sending, reading, up, kills>>

\* `sweep_digests` reads the names in staging/, and then looks at one after the other.
ListDigests ==
    /\ opener.step = "list"
    /\ opener' = [opener EXCEPT !.step = "sweep", !.names = digests]
    /\ UNCHANGED <<files, working, sending, reading, up, kills>>

\* Mutant of LookForPlace: any digest is an orphan's.
TakeAnyDigest(u) ==
    /\ opener.step = "sweep" /\ u \in opener.names
    /\ opener' = [step |-> "orphan", names |-> opener.names \ {u}, orphan |-> u, anew |-> FALSE]
    /\ UNCHANGED <<files, working, sending, reading, up, kills>>

LookForPlace(u) ==
    /\ opener.step = "sweep" /\ u \in opener.names
    /\ opener' = IF staged[u] = Missing
                 THEN [step |-> "orphan", names |-> opener.names \ {u}, orphan |-> u, anew |-> FALSE]
                 ELSE [opener EXCEPT !.names = @ \ {u}]
    /\ UNCHANGED <<files, working, sending, reading, up, kills>>

\* Removing a digest that has gone meanwhile is an error here.
SweepOne ==
    /\ opener.step = "orphan"
    /\ digests' = digests \ {opener.orphan}
    /\ opener' = IF opener.orphan \in digests
                 THEN [opener EXCEPT !.step = "sweep", !.orphan = Missing, !.anew = FALSE]
                 ELSE [Closed EXCEPT !.step = "failed"]
    /\ UNCHANGED <<staged, items, trash, trashed, working, sending, reading, up, kills>>

Opened ==
    /\ opener.step = "sweep" /\ opener.names = {}
    /\ opener' = [opener EXCEPT !.step = "idle"]
    /\ up' = TRUE
    /\ UNCHANGED <<files, working, sending, reading, kills>>

OpenAgain ==
    /\ opener.step = "failed"
    /\ opener' = [opener EXCEPT !.step = "idle"]
    /\ UNCHANGED <<files, working, sending, reading, up, kills>>

\* Every process that has the shelf open, or is opening it, is killed.
KillShelf ==
    /\ up /\ kills < MaxKills
    /\ kills' = kills + 1
    /\ up' = FALSE
    /\ working' = [w \in Workers |-> Free]
    /\ reading' = [r \in Readers |-> Done]
    /\ sending' = [s \in Senders |-> Quiet]
    /\ opener' = Closed
    /\ UNCHANGED files

Work(w) ==
    \/ MakeStagedDir(w) \/ CreateContent(w)
    \/ WriteMeta(w) \/ WriteServer(w) \/ RenameDir(w) \/ RemoveDigest(w)
    \/ Discard(w) \/ EmptyBin(w)

Begin(w) ==
    \/ \E u \in Uploads :
          \/ StartCreate(w, u) \/ StartUnstage(w, u)
          \/ \E g \in Gens, i \in Items, e \in Envelopes : StartPublish(w, u, g, i, e)
    \/ \E g \in Gens : StartDrop(w, g) \/ \E i \in Items : StartRemove(w, g, i)

FsNext ==
    \/ \E w \in Workers : Begin(w) \/ Work(w)
    \/ \E s \in Senders : Send(s) \/ \E u \in Uploads : StartSend(s, u)
    \/ \E r \in Readers :
          \/ ReadMeta(r) \/ ReadServer(r)
          \/ \E g \in Gens, i \in Items : LookAtContent(r, g, i)
    \/ StartOpen \/ EmptyTrash \/ ListDigests \/ SweepOne \/ Opened \/ OpenAgain
    \/ \E u \in Uploads : LookForPlace(u)
    \/ KillShelf

FsSpec == FsInit /\ [][FsNext]_shelf

-----------------------------------------------------------------------------
(* Properties. *)

\* Every variable has its type.
FsTypeOK ==
    /\ staged \in [Uploads -> Dir \cup {Missing}]
    /\ digests \subseteq Uploads
    /\ items \in [Gens -> [Items -> Dir \cup {Missing}]]
    /\ trash \subseteq 0 .. MaxTrash /\ trashed \in 0 .. MaxTrash
    /\ up \in BOOLEAN
    /\ kills \in 0 .. MaxKills

StagedContent(dir) ==
    IF dir = Missing THEN Missing ELSE IF dir.content = Missing THEN Empty ELSE dir.content

\* What an item's directory holds, as one value; a directory with files of two
\* publishes, or without one of them, is no item the shelf in memory could have.
AsItem(dir) ==
    IF dir = Missing THEN Missing
    ELSE [content |-> dir.content, envelope |-> IF dir.meta = dir.server THEN dir.meta ELSE Missing]

\* The items a PUT still writes to.
Fluid == {<<sending[s].g, sending[s].i>> : s \in {s \in Senders : sending[s].step = "item"}}

Disk == INSTANCE DiskShelf WITH
    staging <- [u \in Uploads |-> StagedContent(staged[u])],
    generations <- [g \in Gens |-> [i \in Items |-> AsItem(items[g][i])]],
    fluid <- Fluid

\* Places and items come, are published, and go as in the shelf in memory, each in one step,
\* wherever a process is killed between its calls: an item has its content and the envelope
\* of one publish, and nothing is replaced.  `write` (fs.rs) is no such step: it leaves parts
\* of a content in the place it writes, and where the place is published meanwhile, in the
\* item.  What is published while no PUT of it runs never changes.
ImplementsDiskShelf == Disk!DiskSpec

\* "Emptying the trash may be cut short and is finished when the shelf is next opened":
\* once it is open and nobody works on it, nothing lies in the trash.
TrashIsEmptied ==
    up /\ opener.step = "idle" /\ (\A w \in Workers : working[w] = Free) => trash = {}

\* A digest vouches for staged content (stage_digest): no opening of the shelf, by whichever
\* process (sweep_digests), takes the digest of a place that is there, unless that was made
\* between its look and its removal, as beginning an upload again makes one that has gone
\* missing (begin_upload).  What it is there to take, the trash, is gone once the shelf is
\* open and at rest.
OpeningSparesTheLiving ==
    /\ []TrashIsEmptied
    /\ [][SweepOne => \A u \in digests \ digests' : staged[u] = Missing \/ opener.anew]_shelf

\* The same without the exception.
SweepsOnlyTheDead ==
    [][SweepOne => \A u \in digests \ digests' : staged[u] = Missing]_shelf

\* "each of which a POSIX filesystem performs in one step" (shelf/mod.rs): reading an
\* item answers it or that there is none, whoever removes it meanwhile.
GetIsOneStep == \A r \in Readers : reading[r].step # "unavailable"

\* "ServiceUnavailable when the directory cannot be used" (FsShelf::open): a directory in
\* use by another process can be.
OpeningSucceeds == opener.step # "failed"

=============================================================================
