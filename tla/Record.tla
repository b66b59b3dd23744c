------------------------------- MODULE Record -------------------------------
(***************************************************************************)
(* What one workspace keeps: its record in the control database            *)
(* (ledger/mod.rs), its shelf on the filesystem (shelf/mod.rs), and the     *)
(* clean-ups its engine still owes (workspace.rs, `Cleanup`).  The modules  *)
(* Encryption, Uploads, and Rewrites hold the rules that change them, one   *)
(* action per API operation; Workspace composes them with the janitor, the  *)
(* repair at opening, the clock, and the faults.                            *)
(*                                                                         *)
(* A refused request changes nothing, so a refusal is a guard that is not   *)
(* met.  A text stands for what a user stores; sealed under a data key it   *)
(* becomes an item whose id is made of its creation time (stamp) and of a   *)
(* content key that depends on the text and on the data key.                *)
(***************************************************************************)
EXTENDS Integers, FiniteSets

CONSTANTS
    ApiKeys,        \* the API keys of the workspace: who makes requests
    Writers,        \* those of them with the role read-write
    DataKeys,       \* data key ids a client may seal under
    Words,          \* the words a header may wrap a data key under
    Texts,          \* what is stored
    Stamps,         \* creation times of items
    Size,           \* bytes of each text
    UploadIds,      \* the ids the random source yields, each at most once
    None,           \* Rust's `None`: no key, no ticket, no session, ...
    MaxItemBytes,   \* limits.max_item_bytes
    Quota,          \* limits.workspace_quota_bytes
    StagingSecs,    \* limits.staging_secs
    LeaseSecs,      \* limits.lease_secs
    CommitMayFail,  \* whether a database commit may fail and the process live
    \* Bounds of the model, not of the program.
    MaxGeneration, MaxTime, MaxFaults

ASSUME CallersAssumption == Writers \subseteq ApiKeys

ASSUME StampsAssumption == Stamps \subseteq Nat

ASSUME LimitsAssumption ==
    /\ Size \in [Texts -> Nat \ {0}]
    /\ MaxItemBytes \in Nat
    /\ Quota \in Nat
    /\ StagingSecs \in Nat
    /\ LeaseSecs \in Nat
    /\ CommitMayFail \in BOOLEAN

ASSUME BoundsAssumption ==
    /\ MaxGeneration \in Nat \ {0}
    /\ MaxTime \in Nat
    /\ MaxFaults \in Nat

ASSUME UploadIdsAssumption == IsFiniteSet(UploadIds)

VARIABLES
    rec,        \* the record, as the ledger holds it
    gens,       \* the shelf: the items of each generation
    staging,    \* the shelf: bytes in each staging place, None where there is none
    dropping,   \* clean-ups owed: generations to drop
    removing,   \* clean-ups owed: staging places to remove
    open,       \* whether a process has the workspace open
    now,        \* the clock
    faults,     \* how many kills and failures there were; bounded
    issued,     \* the upload ids handed out so far
    answers     \* history: what commitUpload answered for each upload

vars == <<rec, gens, staging, dropping, removing, open, now, faults, issued, answers>>

-----------------------------------------------------------------------------
(* The record's parts. *)

Gens == 0 .. MaxGeneration
KeyIds == DataKeys \cup {None}
Seal == [key : DataKeys, header : [wraps : DataKeys, words : Words]]
Item == [text : Texts, stamp : Stamps, under : KeyIds]
Request == [item : Item, in_rewrite : BOOLEAN]
Ticket == [owner : ApiKeys, request : Request, expires_at : Nat]
Outcome == [item : Item, created : BOOLEAN, staged : BOOLEAN]
Tombstone == [owner : ApiKeys, outcome : Outcome, expires_at : Nat]
RewriteKind == {"migrate", "rotate"}
Session == [kind : RewriteKind, next : Seal, holder : ApiKeys,
            lease_expires_at : Nat, staged_generation : Gens]

ASSUME NoneAssumption ==
    None \notin ApiKeys \cup DataKeys \cup Nat \cup Seal \cup Ticket \cup Tombstone \cup Session

(* `seal` is the seal readers go by: of State::Settled, or the session's    *)
(* `prior` while one is open, which no rule changes before the session ends. *)
WorkspaceRecord ==
    [seal : Seal \cup {None}, session : Session \cup {None},
     generation : Gens, plain : Gens \cup {None}, next_generation : Nat,
     used : [Gens -> Nat],
     tickets : [UploadIds -> Ticket \cup {None}],
     tombstones : [UploadIds -> Tombstone \cup {None}],
     ended_rewrites : SUBSET DataKeys]

NewRecord ==
    [seal |-> None, session |-> None,
     generation |-> 0, plain |-> None, next_generation |-> 1,
     used |-> [g \in Gens |-> 0],
     tickets |-> [u \in UploadIds |-> None],
     tombstones |-> [u \in UploadIds |-> None],
     ended_rewrites |-> {}]

KeyOf(seal) == IF seal = None THEN None ELSE seal.key
SizeOf(item) == Size[item.text]
SameContent(i, j) == i.text = j.text /\ i.under = j.under

-----------------------------------------------------------------------------
(* What the rules ask of the record. *)

MustWrite(c) == c \in Writers

\* Mutant of CheckWritable: the key id the caller expects is not compared.
CheckWritableUnderAnyKey(expected) ==
    rec.session = None

\* Refuses ordinary writes during a rewrite and writes under another key id.
CheckWritable(expected) ==
    /\ rec.session = None
    /\ KeyOf(rec.seal) = expected

GenerationOf(partition) ==
    IF partition = "current" THEN rec.generation ELSE rec.plain

\* The generations the record points to: current, plain, and staged.
LiveGenerations ==
    {rec.generation}
      \cup (IF rec.plain = None THEN {} ELSE {rec.plain})
      \cup (IF rec.session = None THEN {} ELSE {rec.session.staged_generation})

HeldSession(c) ==
    /\ rec.session # None
    /\ rec.session.holder = c

LiveTicket(c, u) ==
    /\ rec.tickets[u] # None
    /\ rec.tickets[u].owner = c
    /\ rec.tickets[u].expires_at > now

LiveTombstone(c, u) ==
    /\ rec.tombstones[u] # None
    /\ rec.tombstones[u].owner = c
    /\ rec.tombstones[u].expires_at > now

-----------------------------------------------------------------------------
(* The shelf. *)

\* The bytes of a set of items, each byte an <<item, position>> pair.
ByteSet(items) == UNION {{i} \X (1 .. SizeOf(i)) : i \in items}

BytesOf(items) == Cardinality(ByteSet(items))

\* The items of a generation with the content key of `item`, and the oldest of
\* them, which is the one `find_in` answers.
Same(g, item) == {i \in gens[g] : SameContent(i, item)}

FindIn(g, item) == {i \in Same(g, item) : \A j \in Same(g, item) : i.stamp =< j.stamp}

StageCreate(u) == IF staging[u] = None THEN [staging EXCEPT ![u] = 0] ELSE staging

-----------------------------------------------------------------------------
(* A rule runs inside one ledger transaction, in a process that has the     *)
(* workspace open, and the clean-ups it asks for run after the commit,      *)
(* outside it.                                                              *)

Store(record, generations, uploads) ==
    /\ rec' = record
    /\ dropping' = dropping \cup generations
    /\ removing' = removing \cup uploads
    /\ open' = TRUE
    /\ UNCHANGED faults

\* The rule's shelf step is done and the record is not stored: the process was
\* killed before the commit, or the commit failed (or a flush after the rename
\* of a publish did) and the request is answered ServiceUnavailable.
NotStored ==
    /\ faults < MaxFaults
    /\ faults' = faults + 1
    /\ rec' = rec
    /\ \/ /\ open' = FALSE
          /\ dropping' = {}
          /\ removing' = {}
       \/ /\ CommitMayFail
          /\ UNCHANGED <<open, dropping, removing>>

=============================================================================
