------------------------------ MODULE Uploads -------------------------------
(***************************************************************************)
(* The upload lifecycle of upload.rs: begin, send content, commit, abort.   *)
(* Sending content runs outside any transaction; here it is one step, so    *)
(* two requests never work on one staged file at once.                      *)
(***************************************************************************)
EXTENDS Record

\* Where an upload goes, if it may go anywhere; asked when it begins and again
\* when it commits.
MayUpload(c, r) ==
    IF r.in_rewrite
    THEN HeldSession(c) /\ rec.session.next.key = r.item.under
    ELSE CheckWritable(r.item.under)

UploadTarget(r) ==
    IF r.in_rewrite THEN rec.session.staged_generation ELSE rec.generation

\* The client's side of a rewrite, which the server cannot check: what the holder
\* stages is the re-encryption of an item of the current generation.
HonestRequest(r) ==
    r.in_rewrite => \E i \in gens[rec.generation] :
                        i.text = r.item.text /\ i.stamp = r.item.stamp

\* Bytes promised to live uploads: those of a rewrite, or the others.
ReservedBy(in_rewrite) ==
    LET live == {u \in UploadIds : /\ rec.tickets[u] # None
                                   /\ rec.tickets[u].expires_at > now
                                   /\ rec.tickets[u].request.in_rewrite = in_rewrite}
    IN  Cardinality(UNION {{u} \X (1 .. SizeOf(rec.tickets[u].request.item)) : u \in live})

\* Mutant of Held: what other uploads were promised is not counted.
HeldWithoutPromises(r) ==
    IF r.in_rewrite THEN rec.used[rec.session.staged_generation] ELSE rec.used[rec.generation]

\* What counts against the quota: a rewrite's next generation has an allowance
\* of its own.
Held(r) ==
    IF r.in_rewrite
    THEN rec.used[rec.session.staged_generation] + ReservedBy(TRUE)
    ELSE rec.used[rec.generation]
           + (IF rec.plain = None THEN 0 ELSE rec.used[rec.plain])
           + ReservedBy(FALSE)

TicketsOf(c, r) ==
    {u \in UploadIds : /\ rec.tickets[u] # None
                       /\ rec.tickets[u].owner = c
                       /\ rec.tickets[u].request = r}

DropTickets(uploads) ==
    [u \in UploadIds |-> IF u \in uploads THEN None ELSE rec.tickets[u]]

\* Someone stored this content first: the caller's own tickets for the same
\* request are given up.
AnswerStored(c, r) ==
    /\ Same(UploadTarget(r), r.item) # {}
    /\ Store([rec EXCEPT !.tickets = DropTickets(TicketsOf(c, r))], {}, TicketsOf(c, r))
    /\ UNCHANGED <<staging, issued>>

\* A live ticket for the same request is answered again, and its staging place
\* made anew if it went missing.
AnswerTicket(c, r) ==
    /\ Same(UploadTarget(r), r.item) = {}
    /\ \E u \in TicketsOf(c, r) :
          /\ rec.tickets[u].expires_at > now
          /\ staging' = StageCreate(u)
    /\ Store(rec, {}, {})
    /\ UNCHANGED issued

IssueTicket(c, r) ==
    /\ Same(UploadTarget(r), r.item) = {}
    /\ \A u \in TicketsOf(c, r) : rec.tickets[u].expires_at =< now
    /\ Held(r) + SizeOf(r.item) =< Quota
    /\ \E u \in UploadIds \ issued :
          LET ticket == [owner |-> c, request |-> r, expires_at |-> now + StagingSecs]
          IN  /\ staging' = StageCreate(u)
              /\ issued' = issued \cup {u}
              /\ \/ Store([rec EXCEPT !.tickets[u] = ticket], {}, {})
                 \/ NotStored

\* `beginUpload`.
BeginUpload(c, r) ==
    /\ open
    /\ MustWrite(c)
    /\ MayUpload(c, r)
    /\ HonestRequest(r)
    /\ SizeOf(r.item) =< MaxItemBytes
    /\ \/ AnswerStored(c, r)
       \/ AnswerTicket(c, r)
       \/ IssueTicket(c, r)
    /\ UNCHANGED <<gens, now, answers>>

\* Mutant of PutUploadContent: that the staging place is there is not asked.
PutUploadContentAnywhere(c, u) ==
    /\ open
    /\ ~LiveTombstone(c, u)
    /\ LiveTicket(c, u)
    /\ \E n \in {0, SizeOf(rec.tickets[u].request.item)} :
          staging' = [staging EXCEPT ![u] = n]
    /\ UNCHANGED <<rec, gens, dropping, removing, open, now, faults, issued, answers>>

\* `putUploadContent`: the whole content arrives, or it is cut short and the
\* staged file is emptied.  After the commit the content is discarded.
PutUploadContent(c, u) ==
    /\ open
    /\ ~LiveTombstone(c, u)
    /\ LiveTicket(c, u)
    /\ staging[u] # None
    /\ \E n \in {0, SizeOf(rec.tickets[u].request.item)} :
          staging' = [staging EXCEPT ![u] = n]
    /\ UNCHANGED <<rec, gens, dropping, removing, open, now, faults, issued, answers>>

\* The ticket goes, the outcome stays for replays, and what is left of the
\* staging place is removed once the record is stored.
FinishUpload(record, c, u, outcome) ==
    /\ Store([record EXCEPT !.tickets[u] = None,
                            !.tombstones[u] = [owner |-> c, outcome |-> outcome,
                                               expires_at |-> now + StagingSecs]],
             {}, {u})
    /\ answers' = [answers EXCEPT ![u] = @ \cup {outcome}]

\* Mutant of ReplayCommit: a repeated commit says that nothing was created.
ReplayCommitAsDuplicate(c, u) ==
    /\ LiveTombstone(c, u)
    /\ answers' = [answers EXCEPT ![u] =
                      @ \cup {[rec.tombstones[u].outcome EXCEPT !.created = FALSE]}]
    /\ Store(rec, {}, {})
    /\ UNCHANGED <<gens, staging>>

\* A repeated commit answers the remembered outcome.
ReplayCommit(c, u) ==
    /\ LiveTombstone(c, u)
    /\ answers' = [answers EXCEPT ![u] = @ \cup {rec.tombstones[u].outcome}]
    /\ Store(rec, {}, {})
    /\ UNCHANGED <<gens, staging>>

\* The staging place is gone and the item is there: an earlier commit published
\* it and its record was not stored.  The bytes are taken from the shelf.
RecoverCommit(c, u, r, g) ==
    /\ staging[u] = None
    /\ r.item \in gens[g]
    /\ FinishUpload([rec EXCEPT !.used[g] = BytesOf(gens[g])], c, u,
                    [item |-> r.item, created |-> TRUE, staged |-> r.in_rewrite])
    /\ UNCHANGED <<gens, staging>>

RejectDuplicate(c, u, r, g) ==
    /\ staging[u] = SizeOf(r.item)
    /\ \E stored \in FindIn(g, r.item) :
          FinishUpload(rec, c, u,
                       [item |-> stored, created |-> FALSE, staged |-> r.in_rewrite])
    /\ UNCHANGED <<gens, staging>>

\* Mutant of Publish: what was stored since the upload began is not looked for.
PublishUnseen(c, u, r, g) ==
    /\ staging[u] = SizeOf(r.item)
    /\ gens' = [gens EXCEPT ![g] = @ \cup {r.item}]
    /\ staging' = [staging EXCEPT ![u] = None]
    /\ \/ FinishUpload([rec EXCEPT !.used[g] = @ + SizeOf(r.item)], c, u,
                       [item |-> r.item, created |-> TRUE, staged |-> r.in_rewrite])
       \/ NotStored /\ UNCHANGED answers

\* The staging place becomes the item, inside the transaction and before the
\* record is stored.
Publish(c, u, r, g) ==
    /\ staging[u] = SizeOf(r.item)
    /\ Same(g, r.item) = {}
    /\ gens' = [gens EXCEPT ![g] = @ \cup {r.item}]
    /\ staging' = [staging EXCEPT ![u] = None]
    /\ \/ FinishUpload([rec EXCEPT !.used[g] = @ + SizeOf(r.item)], c, u,
                       [item |-> r.item, created |-> TRUE, staged |-> r.in_rewrite])
       \/ NotStored /\ UNCHANGED answers

\* `commitUpload`.
CommitUpload(c, u) ==
    /\ open
    /\ \/ ReplayCommit(c, u)
       \/ /\ ~LiveTombstone(c, u)
          /\ LiveTicket(c, u)
          /\ LET r == rec.tickets[u].request
                 g == UploadTarget(r)
             IN  /\ MayUpload(c, r)
                 /\ \/ RecoverCommit(c, u, r, g)
                    \/ RejectDuplicate(c, u, r, g)
                    \/ Publish(c, u, r, g)
    /\ UNCHANGED <<now, issued>>

\* `abortUpload`: the caller's own ticket goes, live or not.
AbortUpload(c, u) ==
    /\ open
    /\ rec.tickets[u] # None
    /\ rec.tickets[u].owner = c
    /\ Store([rec EXCEPT !.tickets[u] = None], {}, {u})
    /\ UNCHANGED <<gens, staging, now, issued, answers>>

\* `probeWrite` makes a staging place and removes it.  Either it does both, which
\* leaves nothing, or the process is killed in between or the removal fails.
ProbeWrite(c) ==
    /\ open
    /\ MustWrite(c)
    /\ rec.session = None
    /\ \E u \in UploadIds \ issued :
          /\ issued' = issued \cup {u}
          /\ staging' = StageCreate(u)
    /\ NotStored
    /\ UNCHANGED <<gens, now, answers>>

\* The uploads of a rewrite, which end with it.
RewriteUploads ==
    {u \in UploadIds : rec.tickets[u] # None /\ rec.tickets[u].request.in_rewrite}

=============================================================================
