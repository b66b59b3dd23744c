----------------------------- MODULE Workspace ------------------------------
(***************************************************************************)
(* One workspace of the server: the API operations of Encryption, Uploads,  *)
(* and Rewrites, each one transaction, interleaved with the clean-ups that  *)
(* run after them, the janitor, the repair at opening, time, and kills.     *)
(*                                                                         *)
(* Any caller may send any request at any time, again and late, so lost,    *)
(* repeated, and delayed requests need no actions of their own.             *)
(***************************************************************************)
EXTENDS Rewrites

Init ==
    /\ rec = NewRecord
    /\ gens = [g \in Gens |-> {}]
    /\ staging = [u \in UploadIds |-> None]
    /\ dropping = {}
    /\ removing = {}
    /\ open = TRUE
    /\ now = 0
    /\ faults = 0
    /\ issued = {}
    /\ answers = [u \in UploadIds |-> {}]

-----------------------------------------------------------------------------
(* Housekeeping. *)

LiveTickets(u) == rec.tickets[u] # None /\ rec.tickets[u].expires_at > now
LiveTombstones(u) == rec.tombstones[u] # None /\ rec.tombstones[u].expires_at > now

\* Mutant of Rubbish: only the current generation is taken for live.
RubbishButCurrent == {g \in Gens \ {rec.generation} : gens[g] # {}}

\* Generations on the shelf that the record does not point to.
Rubbish == {g \in Gens \ LiveGenerations : gens[g] # {}}

\* Staging places without a ticket that is still kept.
Orphans == {u \in UploadIds : staging[u] # None /\ ~LiveTickets(u)}

\* Mutant of CleanStagingOf: generations are left to the rule that abandoned them.
CleanStagingOfUploads(record) ==
    Store([record EXCEPT
             !.tickets = [u \in UploadIds |-> IF LiveTickets(u) THEN @[u] ELSE None],
             !.tombstones = [u \in UploadIds |-> IF LiveTombstones(u) THEN @[u] ELSE None]],
          {}, Orphans)

\* The rule `clean_staging` on a record: expired tickets and outcomes are
\* forgotten, and the removal of what nothing points to is asked for.
CleanStagingOf(record) ==
    Store([record EXCEPT
             !.tickets = [u \in UploadIds |-> IF LiveTickets(u) THEN @[u] ELSE None],
             !.tombstones = [u \in UploadIds |-> IF LiveTombstones(u) THEN @[u] ELSE None],
             !.used = [g \in Gens |-> IF g \in Rubbish THEN 0 ELSE @[g]]],
          Rubbish, Orphans)

\* `cleanStaging`, and the janitor's pass.
CleanStaging ==
    /\ open
    /\ CleanStagingOf(rec)
    /\ RecordOnly

\* Mutant of Open: the bytes are not counted again.
OpenUncounted ==
    /\ CleanStagingOf(rec)
    /\ RecordOnly

\* A process opens the workspace, the server after a restart or the command line
\* beside it, and first repairs what an unclean stop left: `reconcile`.
Open ==
    LET counted == [g \in Gens |-> IF g \in LiveGenerations THEN BytesOf(gens[g])
                                                            ELSE rec.used[g]]
    IN  /\ CleanStagingOf([rec EXCEPT !.used = counted])
        /\ RecordOnly

\* The engine performs the clean-ups a committed rule asked for.
DropGeneration(g) ==
    /\ g \in dropping
    /\ gens' = [gens EXCEPT ![g] = {}]
    /\ dropping' = dropping \ {g}
    /\ UNCHANGED <<rec, staging, removing, open, now, faults, issued, answers>>

RemoveStaging(u) ==
    /\ u \in removing
    /\ staging' = [staging EXCEPT ![u] = None]
    /\ removing' = removing \ {u}
    /\ UNCHANGED <<rec, gens, dropping, open, now, faults, issued, answers>>

\* A clean-up fails, and is left for the janitor.
CleanupFails ==
    /\ faults < MaxFaults
    /\ faults' = faults + 1
    /\ \/ \E g \in dropping : dropping' = dropping \ {g} /\ UNCHANGED removing
       \/ \E u \in removing : removing' = removing \ {u} /\ UNCHANGED dropping
    /\ UNCHANGED <<rec, gens, staging, open, now, issued, answers>>

\* The process is killed; the clean-ups it still owed are forgotten.
Kill ==
    /\ open
    /\ faults < MaxFaults
    /\ faults' = faults + 1
    /\ open' = FALSE
    /\ dropping' = {}
    /\ removing' = {}
    /\ UNCHANGED <<rec, gens, staging, now, issued, answers>>

Tick ==
    /\ now < MaxTime
    /\ now' = now + 1
    /\ UNCHANGED <<rec, gens, staging, dropping, removing, open, faults, issued, answers>>

-----------------------------------------------------------------------------

UploadOperation(c) ==
    \/ \E r \in Request : BeginUpload(c, r)
    \/ \E u \in UploadIds :
          \/ PutUploadContent(c, u)
          \/ CommitUpload(c, u)
          \/ AbortUpload(c, u)
    \/ ProbeWrite(c)

EncryptionOperation(c) ==
    \/ \E partition \in {"current", "plain"}, item \in Item, expected \in KeyIds :
          DeleteItem(c, partition, item, expected)
    \/ \E key \in DataKeys, words \in Words :
          \/ EnableEncryption(c, key, words)
          \/ FreshStart(c, key, words)
          \/ ReplaceHeader(c, key, words)

RewriteOperation(c) ==
    \/ \E kind \in RewriteKind, expected \in KeyIds, key \in DataKeys, words \in Words :
          BeginRewrite(c, kind, expected, key, words)
    \/ HeartbeatRewrite(c)
    \/ TakeOverRewrite(c)
    \/ \E key \in DataKeys : CommitRewrite(c, key) \/ AbortRewrite(c, key)

Housekeeping ==
    \/ \E force \in BOOLEAN : OperatorAbortRewrite(force)
    \/ CleanStaging
    \/ Open
    \/ \E g \in Gens : DropGeneration(g)
    \/ \E u \in UploadIds : RemoveStaging(u)
    \/ CleanupFails
    \/ Kill
    \/ Tick

Next ==
    \/ \E c \in ApiKeys : UploadOperation(c) \/ EncryptionOperation(c) \/ RewriteOperation(c)
    \/ Housekeeping

Spec == Init /\ [][Next]_vars

\* The server is restarted after a kill, its janitor passes again and again, and a
\* process that lives performs the clean-ups it owes.
Fairness ==
    /\ WF_vars(~open /\ Open)
    /\ WF_vars(CleanStaging)
    /\ \A g \in Gens : WF_vars(DropGeneration(g))
    /\ \A u \in UploadIds : WF_vars(RemoveStaging(u))

FairSpec == Spec /\ Fairness

-----------------------------------------------------------------------------
(* Properties. *)

\* Every variable has its type.
TypeOK ==
    /\ rec \in WorkspaceRecord
    /\ gens \in [Gens -> SUBSET Item]
    /\ staging \in [UploadIds -> Nat \cup {None}]
    /\ dropping \subseteq Gens
    /\ removing \subseteq UploadIds
    /\ open \in BOOLEAN
    /\ now \in Nat
    /\ faults \in Nat
    /\ issued \subseteq UploadIds
    /\ answers \in [UploadIds -> SUBSET Outcome]

\* Every item of the current generation was uploaded under the workspace's key,
\* every staged item under the open session's new key, and every plain item under
\* none (I2 of docs/api/rewrite-session.md), however uploads begun under one key
\* interleave with a change of key, with kills, and with take-overs.
ItemsUnderTheirKey ==
    /\ \A i \in gens[rec.generation] : i.under = KeyOf(rec.seal)
    /\ rec.plain # None => \A i \in gens[rec.plain] : i.under = None
    /\ rec.session # None =>
          \A i \in gens[rec.session.staged_generation] : i.under = rec.session.next.key

\* A clean-up runs after its transaction, outside the lock, when the record may
\* have changed again: it must never hit a generation the record points to, nor the
\* staging place of an upload that still has its ticket (`Cleanup`, workspace.rs).
CleanupsSpareTheLiving ==
    /\ dropping \cap LiveGenerations = {}
    /\ \A u \in removing : rec.tickets[u] = None

\* A generation is never reused: those the record points to and those a clean-up
\* will drop are all distinct and numbered below the counter, and what lies above it
\* is empty, after any number of rewrites, aborts, and kills (begin_rewrite).
GenerationsNeverReused ==
    /\ \A g \in LiveGenerations \cup dropping : g < rec.next_generation
    /\ \A g \in Gens : g >= rec.next_generation => gens[g] = {}
    /\ rec.plain # rec.generation
    /\ rec.session # None => /\ rec.session.staged_generation # rec.generation
                             /\ rec.session.staged_generation # rec.plain

\* No two items of one live generation hold the same content, whichever upload
\* commits first and whatever a kill left unrecorded (commit_upload, upload.rs).
ContentStoredOnce ==
    \A g \in LiveGenerations : \A i, j \in gens[g] : SameContent(i, j) => i = j

\* The header wraps the key the items are sealed under, so the words open them;
\* a change of words that raced a rotation would lock the workspace for good.
HeaderWrapsTheKey ==
    /\ rec.seal # None => rec.seal.header.wraps = rec.seal.key
    /\ rec.session # None => rec.session.next.header.wraps = rec.session.next.key

\* An upload of a rewrite lives no longer than its session: its ticket is under the
\* new key of the session that is open, which was not aborted before.
RewriteUploadsBelongToTheSession ==
    /\ \A u \in RewriteUploads :
          rec.session # None /\ rec.tickets[u].request.item.under = rec.session.next.key
    /\ rec.session # None => rec.session.next.key \notin rec.ended_rewrites

\* The bytes the record counts are the bytes on the shelf whenever a process has
\* the workspace open (I4), if what ended the last process was a kill.
BooksBalance ==
    open => \A g \in LiveGenerations : rec.used[g] = BytesOf(gens[g])

\* A workspace holds no more than its quota, and a rewrite stages no more than its
\* own allowance of the same size (begin_upload, upload.rs).
WithinQuota ==
    /\ BytesOf(gens[rec.generation])
         + (IF rec.plain = None THEN 0 ELSE BytesOf(gens[rec.plain])) =< Quota
    /\ rec.session # None => BytesOf(gens[rec.session.staged_generation]) =< Quota

\* An upload id has one outcome, and every replay of its commit returns it (I5).
OneOutcome == \A u \in UploadIds : Cardinality(answers[u]) =< 1

\* Nothing is lost and nothing is invented (I3): to its users the workspace is the
\* store of module Store, in which a rewrite is one step.
S == INSTANCE Store WITH
        current <- gens[rec.generation],
        aside <- IF rec.plain = None THEN {} ELSE gens[rec.plain],
        key <- KeyOf(rec.seal)

ImplementsStore == S!Spec

\* How a shelf keeps a set of items: each under its id, its content and its envelope.
Filed(items) ==
    [i \in Item |-> IF i \in items THEN [content |-> SizeOf(i), envelope |-> i] ELSE None]

\* A workspace asks of its shelf only what module MemoryShelf promises, one operation
\* a step and with its precondition met: no content goes where no staging place is, no
\* item is published over another, and whatever is interrupted in between is in order on
\* the shelf (upload.rs and workspace.rs, against shelf/mod.rs).  Since FsShelf
\* implements that module too, files can stand in for the sets of this one.
Shelf == INSTANCE MemoryShelf WITH
            Uploads <- UploadIds,
            Items <- Item,
            Contents <- {Size[t] : t \in Texts},
            Envelopes <- Item,
            Missing <- None,
            Empty <- 0,
            generations <- [g \in Gens |-> Filed(gens[g])]

UsesTheShelf == Shelf!ShelfSpec

\* A session passes from one key to another only when its lease has ended, and it
\* never changes what it rewrites to or where it stages it.
SessionsPassAtLeaseEnd ==
    [][rec.session # None /\ rec'.session # None =>
          /\ rec'.session.next = rec.session.next
          /\ rec'.session.staged_generation = rec.session.staged_generation
          /\ rec'.session.holder = rec.session.holder \/ rec.session.lease_expires_at =< now
      ]_vars

\* What nothing points to goes away in the end: a generation a rewrite left, and a
\* staging place without an upload (the janitor, server.rs and clean_staging).
RubbishGoes ==
    /\ \A g \in Gens : (g \in Rubbish) ~> (g \notin Rubbish)
    /\ \A u \in UploadIds : (u \in Orphans) ~> (u \notin Orphans)

\* ledger/mod.rs: "The reverse, a record of something that is not there, cannot
\* happen."
RecordNeverAhead ==
    \A g \in LiveGenerations : rec.used[g] =< BytesOf(gens[g])

=============================================================================
