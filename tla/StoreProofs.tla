---------------------------- MODULE StoreProofs -----------------------------
(***************************************************************************)
(* A workspace implements module Store, for every value of the constants:  *)
(* nothing is lost and nothing is invented, and a rewrite is one step.      *)
(*                                                                         *)
(* The refinement needs two facts more than the safety of WorkspaceProofs.  *)
(* While a session is open, whatever is staged, or was promised a place     *)
(* among what is staged, is the re-encryption of an item that is current;   *)
(* so counting the staged items, which is all that commitRewrite does, is    *)
(* enough to know that none is missing.  And nothing is set aside before a  *)
(* workspace is sealed.                                                     *)
(***************************************************************************)
EXTENDS WorkspaceProofs, FunctionTheorems

HasCounterpart(item) ==
    \E i \in gens[rec.generation] : i.text = item.text /\ i.stamp = item.stamp

Copied ==
    rec.session # None =>
       /\ rec.session.next.key # KeyOf(rec.seal)
       /\ \A i \in gens[rec.session.staged_generation] : HasCounterpart(i)
       /\ \A u \in RewriteUploads : HasCounterpart(rec.tickets[u].request.item)

NothingAside == rec.seal = None => rec.plain = None

StoreInv == SafetyInv /\ Copied /\ NothingAside

\* What the users see of a workspace.
Seen == <<gens[rec.generation], IF rec.plain = None THEN {} ELSE gens[rec.plain], KeyOf(rec.seal)>>

\* Where the record's pointers go: what is staged becomes current under another key, a
\* generation that is new is one that was never used, and what is set aside stays so.
Moves ==
    /\ rec'.next_generation \in {rec.next_generation, rec.next_generation + 1}
    /\ \/ rec'.generation = rec.generation
       \/ /\ KeyOf(rec'.seal) # KeyOf(rec.seal)
          /\ \/ rec.session # None /\ rec'.generation = rec.session.staged_generation
             \/ rec'.generation = rec.next_generation
    /\ rec'.session # None =>
          \/ /\ rec.session # None
             /\ rec'.session.staged_generation = rec.session.staged_generation
          \/ rec'.session.staged_generation = rec.next_generation
    /\ \/ rec'.plain = rec.plain
       \/ rec.plain = None /\ rec'.plain = rec.generation

\* A step of the store, or none, that leaves the two facts true.
Mapped == [S!Next]_Seen /\ Copied' /\ NothingAside' /\ Moves

-----------------------------------------------------------------------------
(* Steps that the users do not see. *)

\* A workspace is sealed exactly if readers are told a key.
LEMMA SealedByKey ==
    ASSUME NEW seal \in Seal \cup {None}
    PROVE  seal = None <=> KeyOf(seal) = None
<1>1. seal # None => seal.key \in DataKeys
  BY DEF Seal
<1>2. QED
  BY <1>1, NoneAssumption DEF KeyOf

\* A session that stays open is the same one, with its holder or after its lease.
Passes ==
    rec.session # None /\ rec'.session # None =>
       /\ rec'.session.next = rec.session.next
       /\ rec'.session.staged_generation = rec.session.staged_generation
       /\ rec'.session.holder = rec.session.holder \/ rec.session.lease_expires_at =< now

Unseen ==
    /\ Steady
    /\ Passes
    /\ \A g \in LiveGenerations : gens'[g] = gens[g]
    /\ \A u \in UploadIds : rec'.tickets[u] \in {rec.tickets[u], None}

\* In addition the books stay as they are, and no outcome comes or goes.
Quiet ==
    /\ Unseen
    /\ rec'.used = rec.used
    /\ rec'.tombstones = rec.tombstones
    /\ open' => open
    /\ issued \subseteq issued'
    /\ UNCHANGED answers

\* A step that moves no pointer, touches no item the record points to, and issues no
\* ticket is a stuttering step of the store.
LEMMA UnseenMapped ==
    ASSUME StoreInv, TypeOK', Unseen
    PROVE  Mapped
<1>1. TypeOK
  BY DEF StoreInv, SafetyInv, TypeInv
<1>2. /\ gens'[rec.generation] = gens[rec.generation]
      /\ rec.plain # None => gens'[rec.plain] = gens[rec.plain]
      /\ rec.session # None =>
            gens'[rec.session.staged_generation] = gens[rec.session.staged_generation]
  BY Zenon DEF Unseen, LiveGenerations
<1>3. UNCHANGED Seen
  BY <1>2 DEF Unseen, Steady, Seen
<1>4. RewriteUploads' \subseteq RewriteUploads /\ \A u \in RewriteUploads' : rec'.tickets[u] = rec.tickets[u]
  BY Zenon DEF RewriteUploads, Unseen
<1>5. Copied'
  <2>1. \A item : HasCounterpart(item)' <=> HasCounterpart(item)
    BY <1>2 DEF HasCounterpart, Unseen, Steady
  <2>2. QED
    BY <1>2, <1>4, <2>1, Zenon DEF StoreInv, Copied, Unseen, Steady
<1>6. NothingAside'
  <2>1. rec.seal \in Seal \cup {None} /\ rec'.seal \in Seal \cup {None}
    BY <1>1 DEF TypeOK, WorkspaceRecord
  <2>2. QED
    BY <2>1, SealedByKey, Zenon DEF StoreInv, NothingAside, Unseen, Steady
<1>7. Moves
  BY Zenon DEF Unseen, Steady, Moves
<1>8. QED
  BY <1>3, <1>5, <1>6, <1>7 DEF Mapped

\* A rule that stores the record it read, but for tickets that end, is quiet.
LEMMA StoreQuiet ==
    ASSUME SafetyInv, NEW tickets, NEW generations, NEW uploads,
           Store([rec EXCEPT !.tickets = tickets], generations, uploads),
           \A u \in UploadIds : tickets[u] \in {rec.tickets[u], None},
           open, UNCHANGED <<gens, answers>>, issued \subseteq issued'
    PROVE  Quiet
<1>1. TypeOK /\ HeaderWrapsTheKey
  BY DEF SafetyInv, TypeInv
<1>2. rec' = [rec EXCEPT !.tickets = tickets]
  BY DEF Store
<1>3. /\ KeepsPointers /\ rec'.tickets = tickets
      /\ rec'.used = rec.used /\ rec'.tombstones = rec.tombstones
  BY <1>1, <1>2 DEF TypeOK, WorkspaceRecord, KeepsPointers
<1>4. Steady /\ Passes
  BY <1>1, <1>3, KeepsPointersSteady, Zenon DEF Passes, KeepsPointers
<1>5. QED
  BY <1>3, <1>4, Zenon DEF Quiet, Unseen

\* A step that leaves the record alone is quiet, if it touches no live item.
LEMMA IdleQuiet ==
    ASSUME SafetyInv, UNCHANGED <<rec, answers>>, open' => open, issued \subseteq issued',
           \A g \in LiveGenerations : gens'[g] = gens[g]
    PROVE  Quiet
<1>1. KeepsPointers /\ HeaderWrapsTheKey
  BY Zenon DEF KeepsPointers, SafetyInv
<1>2. Steady /\ Passes
  BY <1>1, KeepsPointersSteady, Zenon DEF Passes, KeepsPointers
<1>3. QED
  BY <1>2, Zenon DEF Quiet, Unseen

\* beginUpload is quiet unless it issues a ticket (begin_upload).
LEMMA BeginUploadQuiet ==
    ASSUME SafetyInv, NEW c \in ApiKeys, NEW r \in Request, BeginUpload(c, r)
    PROVE  \/ Quiet
           \/ \E u \in UploadIds \ issued :
                 LET ticket == [owner |-> c, request |-> r, expires_at |-> now + StagingSecs]
                 IN  /\ issued' = issued \cup {u}
                     /\ Store([rec EXCEPT !.tickets[u] = ticket], {}, {})
<1>0. TypeOK /\ open /\ UNCHANGED <<gens, answers>>
  BY Zenon DEF SafetyInv, TypeInv, BeginUpload
<1>1. CASE AnswerStored(c, r)
  <2> DEFINE tickets == DropTickets(TicketsOf(c, r))
  <2>1. \A u \in UploadIds : tickets[u] \in {rec.tickets[u], None}
    BY DEF DropTickets
  <2>2. Store([rec EXCEPT !.tickets = tickets], {}, TicketsOf(c, r)) /\ issued \subseteq issued'
    BY <1>1 DEF AnswerStored
  <2> HIDE DEF tickets
  <2>3. QED
    BY <1>0, <2>1, <2>2, StoreQuiet, Zenon
<1>2. CASE AnswerTicket(c, r)
  <2>1. rec' = rec /\ UNCHANGED issued
    BY <1>2 DEF AnswerTicket, Store
  <2>2. QED
    BY <1>0, <2>1, IdleQuiet
<1>3. CASE IssueTicket(c, r)
  <2> DEFINE ticket == [owner |-> c, request |-> r, expires_at |-> now + StagingSecs]
  <2>1. PICK u \in UploadIds \ issued :
            /\ issued' = issued \cup {u}
            /\ \/ Store([rec EXCEPT !.tickets[u] = ticket], {}, {})
               \/ NotStored
    BY <1>3, Zenon DEF IssueTicket
  <2>2. ASSUME NotStored PROVE Quiet
    <3>1. rec' = rec
      BY <2>2, Zenon DEF NotStored
    <3>2. QED
      BY <1>0, <2>1, <3>1, IdleQuiet
  <2>3. QED
    BY <2>1, <2>2, Zenon
<1>4. QED
  BY <1>1, <1>2, <1>3, Zenon DEF BeginUpload

\* Sending content and giving up an upload are quiet.
LEMMA UploadQuiet ==
    ASSUME SafetyInv, NEW c \in ApiKeys, NEW u \in UploadIds,
           PutUploadContent(c, u) \/ AbortUpload(c, u)
    PROVE  Quiet
<1>0. TypeOK
  BY DEF SafetyInv, TypeInv
<1>1. CASE PutUploadContent(c, u)
  BY <1>1, IdleQuiet DEF PutUploadContent
<1>2. CASE AbortUpload(c, u)
  <2> DEFINE tickets == [rec.tickets EXCEPT ![u] = None]
  <2>1. Store([rec EXCEPT !.tickets = tickets], {}, {u})
    BY <1>0, <1>2 DEF AbortUpload, TypeOK, WorkspaceRecord
  <2>2. \A v \in UploadIds : tickets[v] \in {rec.tickets[v], None}
    BY <1>0, RecordTypes
  <2>3. open /\ UNCHANGED <<gens, answers>> /\ issued \subseteq issued'
    BY <1>2 DEF AbortUpload
  <2> HIDE DEF tickets
  <2>4. QED
    BY <2>1, <2>2, <2>3, StoreQuiet, Zenon
<1>3. QED
  BY <1>1, <1>2

\* A probe is quiet.
LEMMA ProbeQuiet ==
    ASSUME SafetyInv, NEW c \in ApiKeys, ProbeWrite(c)
    PROVE  Quiet
<1>1. rec' = rec /\ open
  BY Zenon DEF ProbeWrite, NotStored
<1>2. issued \subseteq issued' /\ UNCHANGED <<gens, answers>>
  BY DEF ProbeWrite
<1>3. QED
  BY <1>1, <1>2, IdleQuiet

\* The change of words is quiet: the key the header wraps stays (replace_header).
LEMMA ReplaceHeaderQuiet ==
    ASSUME SafetyInv, NEW c \in ApiKeys, NEW expected \in DataKeys, NEW words \in Words,
           ReplaceHeader(c, expected, words)
    PROVE  Quiet
<1> DEFINE header == [wraps |-> expected, words |-> words]
           seal == [rec.seal EXCEPT !.header = header]
<1>1. TypeOK
  BY DEF SafetyInv, TypeInv
<1>2. /\ rec' = [rec EXCEPT !.seal.header = header]
      /\ rec.seal # None /\ rec.session = None /\ open
      /\ UNCHANGED <<gens, issued, answers>>
  BY DEF Store, ReplaceHeader
<1>3. seal # None /\ seal.key = rec.seal.key
  <2>1. rec.seal \in Seal /\ header \in [wraps : DataKeys, words : Words]
    BY <1>1, <1>2, RecordTypes
  <2> HIDE DEF header
  <2>2. seal \in Seal /\ seal.key = rec.seal.key
    BY <2>1 DEF Seal
  <2>3. QED
    BY <2>2, NoneAssumption
<1> HIDE DEF header
<1>4. /\ rec'.session = rec.session /\ rec'.seal = seal /\ rec'.tickets = rec.tickets
      /\ rec'.generation = rec.generation /\ rec'.plain = rec.plain
      /\ rec'.next_generation = rec.next_generation
      /\ rec'.ended_rewrites = rec.ended_rewrites
      /\ rec'.used = rec.used /\ rec'.tombstones = rec.tombstones
  BY <1>1, <1>2 DEF TypeOK, WorkspaceRecord
<1> HIDE DEF seal
<1>5. Steady /\ Passes
  BY <1>2, <1>3, <1>4, Zenon DEF Steady, Passes, KeyOf
<1>6. \A u \in UploadIds : rec'.tickets[u] \in {rec.tickets[u], None}
  BY <1>4
<1>7. (\A g \in LiveGenerations : gens'[g] = gens[g]) /\ issued \subseteq issued'
  BY <1>2
<1>8. QED
  BY <1>2, <1>4, <1>5, <1>6, <1>7, Zenon DEF Quiet, Unseen

\* The holder may renew a lease at any time, another key only when it has ended.
LEMMA RenewLeaseQuiet ==
    ASSUME SafetyInv, NEW c \in ApiKeys, rec.session # None, open,
           rec.session.holder = c \/ rec.session.lease_expires_at =< now,
           Store(RenewLease(c), {}, {}), RecordOnly
    PROVE  Quiet
<1> DEFINE session == [rec.session EXCEPT !.holder = c, !.lease_expires_at = now + LeaseSecs]
<1>1. TypeOK
  BY DEF SafetyInv, TypeInv
<1>2. rec' = [rec EXCEPT !.session = session] /\ UNCHANGED <<gens, issued, answers>>
  BY <1>1 DEF Store, RenewLease, RecordOnly, TypeOK, WorkspaceRecord
<1>3. /\ session # None
      /\ session.next = rec.session.next /\ session.holder = c
      /\ session.staged_generation = rec.session.staged_generation
  <2>1. rec.session \in Session /\ now + LeaseSecs \in Nat
    BY <1>1, RecordTypes, LimitsAssumption DEF TypeOK
  <2>2. session \in Session
    BY <2>1 DEF Session
  <2>3. session # None
    BY <2>2, NoneAssumption
  <2>4. QED
    BY <2>1, <2>3 DEF Session
<1> HIDE DEF session
<1>4. /\ rec'.session = session /\ rec'.seal = rec.seal /\ rec'.tickets = rec.tickets
      /\ rec'.generation = rec.generation /\ rec'.plain = rec.plain
      /\ rec'.next_generation = rec.next_generation
      /\ rec'.ended_rewrites = rec.ended_rewrites
      /\ rec'.used = rec.used /\ rec'.tombstones = rec.tombstones
  BY <1>1, <1>2 DEF TypeOK, WorkspaceRecord
<1>5. Steady /\ Passes
  BY <1>3, <1>4, Zenon DEF Steady, Passes
<1>6. \A u \in UploadIds : rec'.tickets[u] \in {rec.tickets[u], None}
  BY <1>4
<1>7. (\A g \in LiveGenerations : gens'[g] = gens[g]) /\ issued \subseteq issued'
  BY <1>2
<1>8. QED
  BY <1>2, <1>4, <1>5, <1>6, <1>7, Zenon DEF Quiet, Unseen

\* A clean-up is quiet, since it hits nothing the record points to; so are a kill and
\* the passing of time.
LEMMA CleanupQuiet ==
    ASSUME SafetyInv,
           \/ \E g \in Gens : DropGeneration(g)
           \/ \E u \in UploadIds : RemoveStaging(u)
           \/ CleanupFails \/ Kill \/ Tick
    PROVE  Quiet
<1>1. UNCHANGED <<rec, answers, issued>> /\ (open' => open)
  BY DEF DropGeneration, RemoveStaging, CleanupFails, Kill, Tick
<1>2. \A g \in LiveGenerations : gens'[g] = gens[g]
  <2>1. ASSUME NEW d \in Gens, DropGeneration(d), NEW g \in LiveGenerations
        PROVE  gens'[g] = gens[g]
    <3>1. g # d /\ gens' = [gens EXCEPT ![d] = {}]
      BY <2>1 DEF DropGeneration, SafetyInv, Shelved
    <3>2. QED
      BY <3>1
  <2>2. CASE ~\E g \in Gens : DropGeneration(g)
    BY <2>2 DEF RemoveStaging, CleanupFails, Kill, Tick
  <2>3. QED
    BY <2>1, <2>2
<1>3. QED
  BY <1>1, <1>2, IdleQuiet

\* Cleaning up the record's tickets is not seen (clean_staging).
LEMMA CleanStagingUnseen ==
    ASSUME SafetyInv, NEW used \in [Gens -> Nat],
           CleanStagingOf([rec EXCEPT !.used = used]), RecordOnly
    PROVE  /\ Unseen
           /\ \A g \in Gens : /\ rec'.used[g] \in {used[g], 0}
                              /\ g \in LiveGenerations => rec'.used[g] = used[g]
           /\ \A u \in UploadIds : rec'.tombstones[u] \in {rec.tombstones[u], None}
<1> DEFINE tickets == [u \in UploadIds |-> IF LiveTickets(u) THEN rec.tickets[u] ELSE None]
           tombstones == [u \in UploadIds |-> IF LiveTombstones(u) THEN rec.tombstones[u] ELSE None]
           kept == [g \in Gens |-> IF g \in Rubbish THEN 0 ELSE used[g]]
           record == [rec EXCEPT !.tickets = tickets, !.tombstones = tombstones, !.used = kept]
<1>1. TypeOK /\ HeaderWrapsTheKey
  BY DEF SafetyInv, TypeInv
<1>2. Store(record, Rubbish, Orphans)
  BY <1>1 DEF CleanStagingOf, TypeOK, WorkspaceRecord
<1>3. rec' = record /\ UNCHANGED gens
  BY <1>2, Zenon DEF Store, RecordOnly
<1>4. \A u \in UploadIds : tickets[u] \in {rec.tickets[u], None} /\ tombstones[u] \in {rec.tombstones[u], None}
  OBVIOUS
<1>5. \A g \in Gens : kept[g] \in {used[g], 0} /\ (g \in LiveGenerations => kept[g] = used[g])
  BY DEF Rubbish
<1> HIDE DEF tickets, tombstones, kept
<1>6. KeepsPointers /\ rec'.tickets = tickets /\ rec'.tombstones = tombstones /\ rec'.used = kept
  BY <1>1, <1>3 DEF TypeOK, WorkspaceRecord, KeepsPointers
<1>7. Steady /\ Passes
  BY <1>1, <1>6, KeepsPointersSteady, Zenon DEF Passes, KeepsPointers
<1> HIDE DEF record
<1>8. QED
  BY <1>3, <1>4, <1>5, <1>6, <1>7, Zenon DEF Unseen

\* The janitor's pass leaves the books to the rule; opening a workspace first counts
\* what is on the shelf (reconcile).
LEMMA RepairCounts ==
    ASSUME SafetyInv, CleanStaging \/ Open
    PROVE  /\ RecordOnly
           /\ \E used \in [Gens -> Nat] :
                 /\ CleanStagingOf([rec EXCEPT !.used = used])
                 /\ \A g \in Gens \ LiveGenerations : used[g] = rec.used[g]
                 /\ \/ open /\ used = rec.used
                    \/ \A g \in LiveGenerations : used[g] = BytesOf(gens[g])
<1>0. TypeOK /\ FiniteShelf /\ LiveGenerations \subseteq Gens
  BY LiveTypes DEF SafetyInv, TypeInv
<1>1. CASE CleanStaging
  <2>1. rec.used \in [Gens -> Nat] /\ rec = [rec EXCEPT !.used = rec.used]
    BY <1>0 DEF TypeOK, WorkspaceRecord
  <2>2. open /\ RecordOnly /\ CleanStagingOf(rec)
    BY <1>1, Zenon DEF CleanStaging
  <2>3. QED
    BY <2>1, <2>2, Zenon
<1>2. CASE Open
  <2> DEFINE counted == [g \in Gens |-> IF g \in LiveGenerations THEN BytesOf(gens[g])
                                                                 ELSE rec.used[g]]
  <2>1. CleanStagingOf([rec EXCEPT !.used = counted]) /\ RecordOnly
    BY <1>2, Zenon DEF Open
  <2>2. counted \in [Gens -> Nat]
    <3>1. \A g \in Gens : BytesOf(gens[g]) \in Nat
      BY <1>0, BytesNat DEF FiniteShelf
    <3>2. QED
      BY <1>0, <3>1, RecordTypes
  <2>3. /\ \A g \in Gens \ LiveGenerations : counted[g] = rec.used[g]
        /\ \A g \in LiveGenerations : counted[g] = BytesOf(gens[g])
    BY <1>0
  <2> HIDE DEF counted
  <2>4. QED
    BY <2>1, <2>2, <2>3, Zenon
<1>3. QED
  BY <1>1, <1>2

\* Neither the janitor nor a restart changes what the users see.
LEMMA RepairUnseen ==
    ASSUME SafetyInv, CleanStaging \/ Open
    PROVE  Unseen
BY RepairCounts, CleanStagingUnseen, Zenon

\* Recording the outcome of an upload is not seen, but for what was published before.
LEMMA FinishUploadEffect ==
    ASSUME SafetyInv, NEW used, NEW c, NEW u \in UploadIds, NEW outcome,
           FinishUpload([rec EXCEPT !.used = used], c, u, outcome)
    PROVE  /\ KeepsPointers
           /\ Steady
           /\ Passes
           /\ rec'.tickets = [rec.tickets EXCEPT ![u] = None]
           /\ \A v \in UploadIds : rec'.tickets[v] \in {rec.tickets[v], None}
           /\ rec'.tombstones = [rec.tombstones EXCEPT ![u] =
                                    [owner |-> c, outcome |-> outcome,
                                     expires_at |-> now + StagingSecs]]
           /\ rec'.used = used
           /\ answers' = [answers EXCEPT ![u] = @ \cup {outcome}]
<1> DEFINE tombstone == [owner |-> c, outcome |-> outcome, expires_at |-> now + StagingSecs]
<1>1. TypeOK /\ HeaderWrapsTheKey
  BY DEF SafetyInv, TypeInv
<1>2. /\ rec' = [[rec EXCEPT !.used = used] EXCEPT !.tickets[u] = None, !.tombstones[u] = tombstone]
      /\ answers' = [answers EXCEPT ![u] = @ \cup {outcome}]
  BY DEF FinishUpload, Store
<1> HIDE DEF tombstone
<1>3. /\ KeepsPointers
      /\ rec'.tickets = [rec.tickets EXCEPT ![u] = None]
      /\ rec'.tombstones = [rec.tombstones EXCEPT ![u] = tombstone]
      /\ rec'.used = used
  BY <1>1, <1>2 DEF TypeOK, WorkspaceRecord, KeepsPointers
<1>4. \A v \in UploadIds : rec'.tickets[v] \in {rec.tickets[v], None}
  BY <1>1, <1>3, RecordTypes
<1>5. Steady /\ Passes
  BY <1>1, <1>3, KeepsPointersSteady, Zenon DEF Passes, KeepsPointers
<1>6. QED
  BY <1>2, <1>3, <1>4, <1>5, Zenon DEF tombstone

\* What commitUpload does when it publishes nothing: it repeats an answer, or it ends
\* the upload and at most counts the bytes of one generation again.
Repeats(u) ==
    /\ rec.tombstones[u] # None
    /\ UNCHANGED <<rec, gens, issued>>
    /\ answers' = [answers EXCEPT ![u] = @ \cup {rec.tombstones[u].outcome}]

Ends(c, u) ==
    /\ rec.tickets[u] # None
    /\ UNCHANGED <<gens, issued>>
    /\ \E used \in [Gens -> Nat] : \E outcome :
          /\ FinishUpload([rec EXCEPT !.used = used], c, u, outcome)
          /\ \A g \in Gens :
                \/ used[g] = rec.used[g]
                \/ g \in LiveGenerations /\ used[g] = BytesOf(gens[g])

Publishes(c, u) ==
    LET r == rec.tickets[u].request
    IN  /\ rec.tickets[u] # None
        /\ rec.tickets[u].expires_at > now
        /\ MayUpload(c, r)
        /\ Publish(c, u, r, UploadTarget(r))
        /\ UNCHANGED issued

\* The generation an upload goes to is one the record points to.
LEMMA TargetLives ==
    ASSUME TypeOK, NEW c, NEW r, MayUpload(c, r)
    PROVE  UploadTarget(r) \in LiveGenerations /\ UploadTarget(r) \in Gens
<1>1. UploadTarget(r) \in LiveGenerations
  BY Zenon DEF UploadTarget, MayUpload, HeldSession, LiveGenerations
<1>2. QED
  BY <1>1, LiveTypes

\* commitUpload repeats an answer, ends an upload, or publishes an item.
LEMMA CommitUploadCases ==
    ASSUME SafetyInv, NEW c \in ApiKeys, NEW u \in UploadIds, CommitUpload(c, u)
    PROVE  open /\ (Repeats(u) \/ Ends(c, u) \/ Publishes(c, u))
<1> DEFINE r == rec.tickets[u].request
           g == UploadTarget(r)
<1>0. TypeOK /\ FiniteShelf /\ open /\ UNCHANGED issued
  BY Zenon DEF SafetyInv, TypeInv, CommitUpload
<1>1. CASE ReplayCommit(c, u)
  <2>1. Repeats(u)
    BY <1>0, <1>1, Zenon DEF ReplayCommit, Store, LiveTombstone, Repeats
  <2>2. QED
    BY <1>0, <2>1
<1>2. CASE /\ LiveTicket(c, u)
           /\ MayUpload(c, r)
           /\ \/ RecoverCommit(c, u, r, g)
              \/ RejectDuplicate(c, u, r, g)
              \/ Publish(c, u, r, g)
  <2>1. rec.tickets[u] # None
    BY <1>2 DEF LiveTicket
  <2>2. g \in LiveGenerations /\ g \in Gens
    BY <1>0, <1>2, TargetLives, Zenon
  <2>3. CASE RecoverCommit(c, u, r, g)
    <3> HIDE DEF r, g
    <3> DEFINE used == [rec.used EXCEPT ![g] = BytesOf(gens[g])]
               outcome == [item |-> r.item, created |-> TRUE, staged |-> r.in_rewrite]
    <3>1. FinishUpload([rec EXCEPT !.used[g] = BytesOf(gens[g])], c, u, outcome) /\ UNCHANGED gens
      BY <2>3, Zenon DEF RecoverCommit
    <3>2. [rec EXCEPT !.used[g] = BytesOf(gens[g])] = [rec EXCEPT !.used = used]
      BY <1>0 DEF TypeOK, WorkspaceRecord
    <3>3. /\ used \in [Gens -> Nat]
          /\ \A h \in Gens :
                \/ used[h] = rec.used[h]
                \/ h \in LiveGenerations /\ used[h] = BytesOf(gens[h])
      <4>1. BytesOf(gens[g]) \in Nat
        BY <1>0, <2>2, BytesNat DEF FiniteShelf
      <4>2. QED
        BY <1>0, <2>2, <4>1, RecordTypes
    <3> HIDE DEF used, outcome
    <3>4. FinishUpload([rec EXCEPT !.used = used], c, u, outcome)
      BY <3>1, <3>2, Zenon
    <3>5. Ends(c, u)
      BY <1>0, <2>1, <3>1, <3>3, <3>4, Zenon DEF Ends
    <3>6. QED
      BY <1>0, <3>5
  <2>4. CASE RejectDuplicate(c, u, r, g)
    <3> HIDE DEF r, g
    <3>1. PICK outcome : FinishUpload(rec, c, u, outcome)
      BY <2>4, Zenon DEF RejectDuplicate
    <3>2. rec.used \in [Gens -> Nat] /\ rec = [rec EXCEPT !.used = rec.used]
      BY <1>0 DEF TypeOK, WorkspaceRecord
    <3>3. UNCHANGED gens
      BY <2>4, Zenon DEF RejectDuplicate
    <3>4. FinishUpload([rec EXCEPT !.used = rec.used], c, u, outcome)
      BY <3>1, <3>2, Zenon
    <3>5. Ends(c, u)
      BY <1>0, <2>1, <3>2, <3>3, <3>4, Zenon DEF Ends
    <3>6. QED
      BY <1>0, <3>5
  <2>5. CASE Publish(c, u, r, g)
    BY <1>0, <1>2, <2>1, <2>5, Zenon DEF Publishes, LiveTicket
  <2>6. QED
    BY <1>2, <2>3, <2>4, <2>5, Zenon
<1>3. QED
  BY <1>1, <1>2, Zenon DEF CommitUpload

\* A commit that publishes nothing is not seen.
LEMMA CommitUnseen ==
    ASSUME SafetyInv, NEW c, NEW u \in UploadIds, Repeats(u) \/ Ends(c, u)
    PROVE  Unseen
<1>1. CASE Repeats(u)
  <2>1. KeepsPointers /\ HeaderWrapsTheKey /\ UNCHANGED <<rec, gens>>
    BY <1>1, Zenon DEF KeepsPointers, SafetyInv, Repeats
  <2>2. Steady /\ Passes
    BY <2>1, KeepsPointersSteady, Zenon DEF Passes, KeepsPointers
  <2>3. QED
    BY <2>1, <2>2, Zenon DEF Unseen
<1>2. CASE Ends(c, u)
  <2>1. PICK used, outcome : FinishUpload([rec EXCEPT !.used = used], c, u, outcome)
    BY <1>2, Zenon DEF Ends
  <2>2. QED
    BY <1>2, <2>1, FinishUploadEffect, Zenon DEF Unseen, Ends
<1>3. QED
  BY <1>1, <1>2

-----------------------------------------------------------------------------
(* Steps that change what the users see, and steps of a rewrite. *)

\* A new ticket of a rewrite is for the re-encryption of an item that is current, as
\* the holder promises (HonestRequest).
LEMMA IssuedMapped ==
    ASSUME StoreInv, NEW c \in ApiKeys, NEW r \in Request, BeginUpload(c, r),
           NEW u \in UploadIds, NEW ticket, ticket.request = r,
           Store([rec EXCEPT !.tickets[u] = ticket], {}, {})
    PROVE  Mapped /\ Passes
<1>1. TypeOK /\ HeaderWrapsTheKey
  BY DEF StoreInv, SafetyInv, TypeInv
<1>2. rec' = [rec EXCEPT !.tickets[u] = ticket] /\ UNCHANGED gens
  BY DEF Store, BeginUpload
<1>3. KeepsPointers /\ rec'.tickets = [rec.tickets EXCEPT ![u] = ticket]
  BY <1>1, <1>2 DEF TypeOK, WorkspaceRecord, KeepsPointers
<1>4. \A v \in UploadIds : rec'.tickets[v] = IF v = u THEN ticket ELSE rec.tickets[v]
  BY <1>1, <1>3, RecordTypes
<1>5. \A item : HasCounterpart(item)' <=> HasCounterpart(item)
  BY <1>2, <1>3 DEF HasCounterpart, KeepsPointers
<1>6. \A v \in RewriteUploads' : HasCounterpart(rec'.tickets[v].request.item)
  <2>1. r.in_rewrite => HasCounterpart(r.item)
    BY Zenon DEF BeginUpload, HonestRequest, HasCounterpart
  <2>2. ASSUME NEW v \in RewriteUploads', v # u
        PROVE  HasCounterpart(rec'.tickets[v].request.item)
    <3>1. v \in RewriteUploads /\ rec'.tickets[v] = rec.tickets[v]
      BY <1>4, <2>2 DEF RewriteUploads
    <3>2. rec.session # None
      BY <3>1 DEF StoreInv, SafetyInv, Ticketed, RewriteUploadsBelongToTheSession
    <3>3. QED
      BY <3>1, <3>2 DEF StoreInv, Copied
  <2>3. ASSUME u \in RewriteUploads'
        PROVE  HasCounterpart(rec'.tickets[u].request.item)
    <3>1. rec'.tickets[u].request = r /\ r.in_rewrite
      BY <1>4, <2>3 DEF RewriteUploads
    <3>2. QED
      BY <2>1, <3>1
  <2>4. QED
    BY <2>2, <2>3, Zenon
<1>7. Copied'
  <2>1. \A i : i \in gens'[rec'.session.staged_generation] <=> i \in gens[rec.session.staged_generation]
    BY <1>2, <1>3 DEF KeepsPointers
  <2>2. QED
    BY <1>3, <1>5, <1>6, <2>1, Zenon DEF Copied, StoreInv, KeepsPointers
<1>8. NothingAside' /\ Passes /\ Moves
  BY <1>3, Zenon DEF NothingAside, StoreInv, KeepsPointers, Passes, Moves
<1>9. UNCHANGED Seen
  BY <1>2, <1>3 DEF KeepsPointers, Seen
<1>10. QED
  BY <1>7, <1>8, <1>9 DEF Mapped

\* deleteItem removes the item it names, stored or not (delete_item).
LEMMA DeleteItemMapped ==
    ASSUME StoreInv, NEW c \in ApiKeys, NEW partition, NEW item \in Item,
           NEW expected \in KeyIds, DeleteItem(c, partition, item, expected)
    PROVE  Mapped /\ Passes
<1> DEFINE g == GenerationOf(partition)
           less == IF rec.used[g] < SizeOf(item) THEN 0 ELSE rec.used[g] - SizeOf(item)
           record == [rec EXCEPT !.used[g] = less]
<1>1. TypeOK
  BY DEF StoreInv, SafetyInv, TypeInv
<1>2. /\ Store(record, {}, {}) \/ NotStored
      /\ gens' = [gens EXCEPT ![g] = @ \ {item}]
      /\ g # None /\ item \in gens[g] /\ rec.session = None
  BY Zenon DEF DeleteItem, CheckWritable
<1>3. KeepsPointers
  <2>1. CASE Store(record, {}, {})
    <3> HIDE DEF g, less
    <3>1. rec' = record
      BY <2>1 DEF Store
    <3>2. QED
      BY <1>1, <3>1 DEF TypeOK, WorkspaceRecord, KeepsPointers
  <2>2. CASE NotStored
    BY <1>1, <2>2, NotStoredKeeps
  <2>3. QED
    BY <1>2, <2>1, <2>2
<1>4. Copied' /\ NothingAside' /\ Passes /\ Moves
  BY <1>2, <1>3, Zenon DEF StoreInv, Copied, NothingAside, Passes, KeepsPointers, Moves
<1>5. rec.generation \in Gens /\ rec.plain # rec.generation /\ (rec.plain # None => rec.plain \in Gens)
  BY <1>1, RecordTypes DEF StoreInv, SafetyInv, Shelved, GenerationsNeverReused
<1>6. S!Remove(item)
  <2>1. CASE g = rec.generation
    <3>1. /\ item \in gens[rec.generation]
          /\ gens'[rec'.generation] = gens[rec.generation] \ {item}
          /\ rec.plain # None => gens'[rec'.plain] = gens[rec.plain]
          /\ rec'.plain = rec.plain /\ rec'.seal = rec.seal
      BY <1>1, <1>2, <1>3, <1>5, <2>1 DEF KeepsPointers, TypeOK
    <3>2. QED
      BY <3>1 DEF S!Remove
  <2>2. CASE g = rec.plain
    <3>1. /\ rec.plain # None /\ item \in gens[rec.plain]
          /\ gens'[rec'.generation] = gens[rec.generation]
          /\ gens'[rec'.plain] = gens[rec.plain] \ {item}
          /\ rec'.plain = rec.plain /\ rec'.seal = rec.seal
      BY <1>1, <1>2, <1>3, <1>5, <2>2 DEF KeepsPointers, TypeOK
    <3>2. QED
      BY <3>1 DEF S!Remove
  <2>3. QED
    BY <2>1, <2>2 DEF GenerationOf
<1>7. QED
  BY <1>4, <1>6 DEF Mapped, S!Next

\* Publishing an item, recorded or not, puts it into the store; in a rewrite nobody
\* sees it yet, and it is the re-encryption of an item that is current (commit_upload).
LEMMA PublishMapped ==
    ASSUME StoreInv, NEW c \in ApiKeys, NEW u \in UploadIds, Publishes(c, u)
    PROVE  Mapped /\ Passes
<1> DEFINE r == rec.tickets[u].request
           g == UploadTarget(r)
           n == rec.used[g] + SizeOf(r.item)
           outcome == [item |-> r.item, created |-> TRUE, staged |-> r.in_rewrite]
<1>1. TypeOK /\ HeaderWrapsTheKey
  BY DEF StoreInv, SafetyInv, TypeInv
<1>2. /\ rec.tickets[u] # None /\ MayUpload(c, r)
      /\ Same(g, r.item) = {}
      /\ gens' = [gens EXCEPT ![g] = @ \cup {r.item}]
      /\ FinishUpload([rec EXCEPT !.used[g] = n], c, u, outcome) \/ NotStored
  BY Zenon DEF Publishes, Publish
<1>3. r \in Request /\ r.item \in Item
  <2>1. rec.tickets[u] \in Ticket
    BY <1>1, <1>2, RecordTypes
  <2>2. QED
    BY <2>1 DEF Ticket, Request
<1>4. g \in LiveGenerations /\ g \in Gens
  BY <1>1, <1>2, TargetLives, Zenon
<1>5. KeepsPointers /\ \A v \in UploadIds : rec'.tickets[v] \in {rec.tickets[v], None}
  <2> HIDE DEF r, g, n, outcome
  <2>1. CASE NotStored
    BY <1>1, <2>1, NotStoredKeeps, Zenon
  <2>2. CASE FinishUpload([rec EXCEPT !.used[g] = n], c, u, outcome)
    <3>1. /\ KeepsPointers
          /\ rec'.tickets = [rec.tickets EXCEPT ![u] = None]
          /\ dropping' = dropping
          /\ removing' = removing \cup {u}
      BY <1>1, <2>2, FinishUploadKeeps, Zenon
    <3>2. QED
      BY <1>1, <3>1, RecordTypes
  <2>3. QED
    BY <1>2, <2>1, <2>2, Zenon
<1>6. NothingAside' /\ Passes /\ Moves
  BY <1>5, Zenon DEF NothingAside, StoreInv, KeepsPointers, Passes, Moves
<1>7. \A h \in Gens : gens'[h] = IF h = g THEN gens[g] \cup {r.item} ELSE gens[h]
  BY <1>1, <1>2, <1>4 DEF TypeOK
<1>8. /\ rec.generation \in Gens /\ rec.generation # rec.plain
      /\ rec.plain # None => rec.plain \in Gens
  BY <1>1, RecordTypes DEF StoreInv, SafetyInv, Shelved, GenerationsNeverReused
<1>9. CASE r.in_rewrite
  <2>1. /\ rec.session # None /\ g = rec.session.staged_generation
        /\ g # rec.generation /\ g # rec.plain /\ u \in RewriteUploads
    BY <1>2, <1>9
       DEF MayUpload, HeldSession, UploadTarget, StoreInv, SafetyInv, Shelved,
           GenerationsNeverReused, RewriteUploads
  <2>2. HasCounterpart(r.item)
    BY <2>1, Zenon DEF StoreInv, Copied
  <2> HIDE DEF r, g
  <2>3. /\ gens'[rec.generation] = gens[rec.generation]
        /\ rec.plain # None => gens'[rec.plain] = gens[rec.plain]
        /\ gens'[g] = gens[g] \cup {r.item}
    BY <1>4, <1>7, <1>8, <2>1
  <2>4. UNCHANGED Seen
    BY <1>5, <2>3 DEF Seen, KeepsPointers
  <2>5. \A item : HasCounterpart(item)' <=> HasCounterpart(item)
    BY <1>5, <2>3 DEF HasCounterpart, KeepsPointers
  <2>6. RewriteUploads' \subseteq RewriteUploads /\ \A v \in RewriteUploads' : rec'.tickets[v] = rec.tickets[v]
    BY <1>5, Zenon DEF RewriteUploads
  <2>7. \A i \in gens[g] \cup {r.item} : HasCounterpart(i)
    BY <2>1, <2>2 DEF StoreInv, Copied
  <2>8. Copied'
    BY <1>5, <2>1, <2>3, <2>5, <2>6, <2>7, Zenon DEF StoreInv, Copied, KeepsPointers
  <2>9. QED
    BY <1>6, <2>4, <2>8 DEF Mapped
<1>10. CASE ~r.in_rewrite
  <2>1. rec.session = None /\ KeyOf(rec.seal) = r.item.under /\ g = rec.generation
    BY <1>2, <1>10 DEF MayUpload, CheckWritable, UploadTarget
  <2>2. \A i \in gens[rec.generation] : i.text # r.item.text
    BY <1>2, <2>1 DEF StoreInv, SafetyInv, Shelved, ItemsUnderTheirKey, Same, SameContent
  <2> HIDE DEF r, g
  <2>3. /\ gens'[rec.generation] = gens[rec.generation] \cup {r.item}
        /\ rec.plain # None => gens'[rec.plain] = gens[rec.plain]
    BY <1>4, <1>7, <1>8, <2>1
  <2>4. S!Put(r.item)
    BY <1>5, <2>1, <2>2, <2>3 DEF S!Put, KeepsPointers
  <2>5. Copied'
    BY <1>5, <2>1, Zenon DEF Copied, KeepsPointers
  <2>6. QED
    BY <1>3, <1>6, <2>4, <2>5 DEF Mapped, S!Next
<1>11. QED
  BY <1>9, <1>10

\* A plaintext workspace is sealed with nothing to set aside.
LEMMA SealEmptyMapped ==
    ASSUME StoreInv, NEW key \in DataKeys, NEW words \in Words,
           rec.session = None, rec.seal = None, gens[rec.generation] = {},
           Store([rec EXCEPT !.seal = SealUnder(key, words)], {}, {}), RecordOnly
    PROVE  Mapped /\ Passes
<1> DEFINE seal == SealUnder(key, words)
<1>1. TypeOK
  BY DEF StoreInv, SafetyInv, TypeInv
<1>2. rec' = [rec EXCEPT !.seal = seal] /\ UNCHANGED gens
  BY DEF Store, RecordOnly
<1>3. seal # None /\ KeyOf(seal) = key
  BY SealUnderWraps
<1> HIDE DEF seal
<1>4. /\ rec'.session = None /\ rec'.seal = seal
      /\ rec'.generation = rec.generation /\ rec'.plain = rec.plain
      /\ rec'.next_generation = rec.next_generation
  BY <1>1, <1>2 DEF TypeOK, WorkspaceRecord
<1>5. /\ Copied' /\ NothingAside' /\ Passes /\ Moves
      /\ rec.plain = None /\ KeyOf(rec.seal) = None
  BY <1>3, <1>4 DEF Copied, StoreInv, NothingAside, Passes, Moves, KeyOf
<1>6. S!Seal(key)
  BY <1>2, <1>3, <1>4, <1>5 DEF S!Seal
<1>7. key \in KeyIds \ {None}
  BY NoneAssumption DEF KeyIds
<1>8. QED
  BY <1>5, <1>6, <1>7 DEF Mapped, S!Next

\* A plaintext workspace is sealed, and what it holds is set aside.
LEMMA SetAsideMapped ==
    ASSUME StoreInv, NEW key \in DataKeys, NEW words \in Words,
           rec.session = None, rec.seal = None, rec.next_generation =< MaxGeneration,
           Store([rec EXCEPT !.seal = SealUnder(key, words),
                             !.plain = rec.generation,
                             !.generation = rec.next_generation,
                             !.next_generation = @ + 1], {}, {}), RecordOnly
    PROVE  Mapped /\ Passes
<1> DEFINE seal == SealUnder(key, words)
           next == rec.next_generation
<1>1. TypeOK
  BY DEF StoreInv, SafetyInv, TypeInv
<1>2. /\ rec' = [rec EXCEPT !.seal = seal, !.plain = rec.generation,
                            !.generation = next, !.next_generation = next + 1]
      /\ UNCHANGED gens
  BY DEF Store, RecordOnly
<1>3. seal # None /\ KeyOf(seal) = key
  BY SealUnderWraps
<1>4. gens[next] = {} /\ rec.generation # None
  <2>1. rec.generation \in Nat /\ next \in Gens /\ next \in Nat
    BY <1>1, RecordTypes, BoundsAssumption DEF Gens
  <2>2. QED
    BY <2>1, NoneAssumption DEF StoreInv, SafetyInv, Shelved, GenerationsNeverReused
<1> HIDE DEF seal, next
<1>5. /\ rec'.session = None /\ rec'.seal = seal
      /\ rec'.generation = next /\ rec'.plain = rec.generation
      /\ rec'.next_generation = next + 1
  BY <1>1, <1>2 DEF TypeOK, WorkspaceRecord
<1>6. /\ Copied' /\ NothingAside' /\ Passes
      /\ rec.plain = None /\ KeyOf(rec.seal) = None /\ KeyOf(rec'.seal) # None
  BY <1>3, <1>5, NoneAssumption DEF Copied, StoreInv, NothingAside, Passes, KeyOf
<1>7. S!Seal(key)
  BY <1>2, <1>3, <1>4, <1>5, <1>6 DEF S!Seal
<1>8. key \in KeyIds \ {None}
  BY NoneAssumption DEF KeyIds
<1>9. Moves
  BY <1>5, <1>6 DEF Moves, next
<1>10. QED
  BY <1>6, <1>7, <1>8, <1>9 DEF Mapped, S!Next

\* A session begins with nothing staged and no upload of its own, under a key that is
\* not the current one (begin_rewrite).
LEMMA OpenSessionMapped ==
    ASSUME StoreInv, NEW c \in ApiKeys, NEW kind \in RewriteKind, NEW expected,
           NEW key \in DataKeys, NEW words \in Words,
           OpenSession(c, kind, expected, key, words), RecordOnly
    PROVE  Mapped /\ Passes
<1> DEFINE seal == SealUnder(key, words)
           next == rec.next_generation
           session == [kind |-> kind, next |-> seal, holder |-> c,
                       lease_expires_at |-> now + LeaseSecs, staged_generation |-> next]
<1>1. TypeOK
  BY DEF StoreInv, SafetyInv, TypeInv
<1>2. /\ rec' = [rec EXCEPT !.next_generation = next + 1, !.session = session]
      /\ rec.session = None /\ next =< MaxGeneration /\ KeyOf(rec.seal) # key
      /\ UNCHANGED gens
  BY DEF OpenSession, Store, RecordOnly
<1>3. gens[next] = {}
  <2>1. next \in Gens /\ next \in Nat
    BY <1>1, <1>2, RecordTypes, BoundsAssumption DEF Gens
  <2>2. QED
    BY <2>1 DEF StoreInv, SafetyInv, Shelved, GenerationsNeverReused
<1>4. seal.key = key /\ session.next = seal /\ session.staged_generation = next
  BY SealUnderWraps
<1> HIDE DEF session, seal
<1>5. /\ rec'.session = session /\ rec'.seal = rec.seal /\ rec'.tickets = rec.tickets
      /\ rec'.generation = rec.generation /\ rec'.plain = rec.plain
      /\ rec'.next_generation = next + 1
  <2> DEFINE m == next + 1
  <2> HIDE DEF m
  <2>1. rec' = [rec EXCEPT !.next_generation = m, !.session = session]
    BY <1>2 DEF m
  <2>2. /\ rec'.session = session /\ rec'.seal = rec.seal /\ rec'.tickets = rec.tickets
        /\ rec'.generation = rec.generation /\ rec'.plain = rec.plain
        /\ rec'.next_generation = m
    BY <1>1, <2>1 DEF TypeOK, WorkspaceRecord
  <2>3. QED
    BY <2>2 DEF m
<1> HIDE DEF next
<1>6. RewriteUploads' = {}
  BY <1>2, <1>5, Zenon
     DEF StoreInv, SafetyInv, Ticketed, RewriteUploadsBelongToTheSession, RewriteUploads
<1>7. Copied'
  BY <1>2, <1>3, <1>4, <1>5, <1>6 DEF Copied
<1>8. NothingAside' /\ Passes
  BY <1>2, <1>5, Zenon DEF NothingAside, StoreInv, Passes
<1>9. UNCHANGED Seen
  BY <1>2, <1>5 DEF Seen
<1>10. Moves
  BY <1>2, <1>4, <1>5 DEF Moves, next
<1>11. QED
  BY <1>7, <1>8, <1>9, <1>10 DEF Mapped

\* Every abort ends the session and nothing that is seen (end_aborted).
LEMMA EndAbortedMapped ==
    ASSUME StoreInv, rec.session # None, EndAborted
    PROVE  Mapped /\ Passes
<1> DEFINE tickets == DropTickets(RewriteUploads)
           staged == rec.session.staged_generation
           ended == rec.session.next.key
<1>1. TypeOK
  BY DEF StoreInv, SafetyInv, TypeInv
<1>2. /\ rec' = [rec EXCEPT !.ended_rewrites = @ \cup {ended}, !.session = None,
                            !.used[staged] = 0, !.tickets = tickets]
      /\ UNCHANGED gens
  BY DEF EndAborted, Store, RecordOnly
<1> HIDE DEF tickets, staged, ended
<1>3. /\ rec'.session = None /\ rec'.seal = rec.seal
      /\ rec'.generation = rec.generation /\ rec'.plain = rec.plain
      /\ rec'.next_generation = rec.next_generation
  BY <1>1, <1>2 DEF TypeOK, WorkspaceRecord
<1>4. Copied' /\ NothingAside' /\ Passes /\ Moves
  BY <1>3, Zenon DEF Copied, NothingAside, StoreInv, Passes, Moves
<1>5. UNCHANGED Seen
  BY <1>2, <1>3 DEF Seen
<1>6. QED
  BY <1>4, <1>5 DEF Mapped

\* A generation whose bytes are finitely many holds finitely many items.
LEMMA FiniteItems ==
    ASSUME NEW items \in SUBSET Item, IsFiniteSet(ByteSet(items))
    PROVE  IsFiniteSet(items)
<1> DEFINE first == [i \in items |-> <<i, 1>>]
<1>1. \A i \in items : <<i, 1>> \in ByteSet(items)
  <2>1. ASSUME NEW i \in items PROVE <<i, 1>> \in {i} \X (1 .. SizeOf(i))
    BY SizeOfNat
  <2>2. QED
    BY <2>1 DEF ByteSet
<1>2. first \in Injection(items, ByteSet(items))
  BY <1>1 DEF Injection, IsInjective
<1>3. QED
  BY <1>2, FS_Injection, Zenon

Rekeyed(items, key) == {[i EXCEPT !.under = key] : i \in items}

\* As many items staged as there are current ones, each of them the re-encryption of a
\* current one and no content twice: then the staged items are the re-encryptions of
\* all current ones.
LEMMA CountingSuffices ==
    ASSUME NEW old \in SUBSET Item, NEW new \in SUBSET Item, NEW key,
           IsFiniteSet(old), IsFiniteSet(new), Cardinality(new) = Cardinality(old),
           \A i \in new : i.under = key,
           \A i, j \in new : SameContent(i, j) => i = j,
           \A i \in new : \E j \in old : j.text = i.text /\ j.stamp = i.stamp
    PROVE  new = Rekeyed(old, key)
<1> DEFINE Of(i) == CHOOSE j \in old : j.text = i.text /\ j.stamp = i.stamp
           f == [i \in new |-> Of(i)]
<1>1. \A i \in new : f[i] \in old /\ f[i].text = i.text /\ f[i].stamp = i.stamp
  OBVIOUS
<1>2. f \in [new -> old]
  BY <1>1
<1> HIDE DEF f
<1>3. \A i, j \in new : f[i] = f[j] => i = j
  BY <1>1 DEF SameContent
<1>4. f \in Injection(new, old)
  BY <1>2, <1>3 DEF Injection, IsInjective
<1>5. f \in Surjection(new, old)
  BY <1>4, FS_Injection
<1>6. \A j \in old : \E i \in new : f[i] = j
  BY <1>5 DEF Surjection
<1>7. \A i \in new : i = [f[i] EXCEPT !.under = key]
  <2>1. ASSUME NEW i \in new, NEW j \in old, j.text = i.text, j.stamp = i.stamp
        PROVE  i = [j EXCEPT !.under = key]
    BY <2>1 DEF Item
  <2>2. QED
    BY <1>1, <2>1
<1>8. QED
  BY <1>1, <1>6, <1>7 DEF Rekeyed

\* What is staged when a rewrite is committed are the items, under the next key.
LEMMA CommitRekeys ==
    ASSUME StoreInv, NEW c \in ApiKeys, NEW key \in DataKeys, CommitRewrite(c, key)
    PROVE  gens[rec.session.staged_generation] = Rekeyed(gens[rec.generation], key)
<1> DEFINE staged == rec.session.staged_generation
           old == rec.generation
<1>1. /\ TypeOK /\ FiniteShelf /\ rec.session # None /\ rec.session.next.key = key
      /\ Cardinality(gens[staged]) = Cardinality(gens[old])
  BY DEF StoreInv, SafetyInv, TypeInv, CommitRewrite, HeldSession
<1>2. staged \in LiveGenerations /\ staged \in Gens /\ old \in Gens
  BY <1>1, LiveTypes, RecordTypes DEF LiveGenerations
<1>3. gens[staged] \in SUBSET Item /\ gens[old] \in SUBSET Item
  BY <1>1, <1>2 DEF TypeOK
<1>4. IsFiniteSet(gens[staged]) /\ IsFiniteSet(gens[old])
  BY <1>1, <1>2, <1>3, FiniteItems DEF FiniteShelf
<1>5. \A i \in gens[staged] : i.under = key
  BY <1>1 DEF StoreInv, SafetyInv, Shelved, ItemsUnderTheirKey
<1>6. \A i, j \in gens[staged] : SameContent(i, j) => i = j
  BY <1>2 DEF StoreInv, SafetyInv, Shelved, ContentStoredOnce
<1>7. \A i \in gens[staged] : \E j \in gens[old] : j.text = i.text /\ j.stamp = i.stamp
  BY <1>1 DEF StoreInv, Copied, HasCounterpart
<1> HIDE DEF staged, old
<1>8. gens[staged] = Rekeyed(gens[old], key)
  BY <1>1, <1>3, <1>4, <1>5, <1>6, <1>7, CountingSuffices, Zenon
<1>9. QED
  BY <1>8 DEF staged, old

\* commitRewrite is the step of the store that re-encrypts every item and loses none
\* (commit_rewrite).
LEMMA CommitRewriteMapped ==
    ASSUME StoreInv, NEW c \in ApiKeys, NEW key \in DataKeys, CommitRewrite(c, key)
    PROVE  Mapped /\ Passes
<1> DEFINE tickets == DropTickets(RewriteUploads)
           staged == rec.session.staged_generation
           next == rec.session.next
           old == rec.generation
<1>1. TypeOK /\ FiniteShelf
  BY DEF StoreInv, SafetyInv, TypeInv
<1>2. /\ rec' = [rec EXCEPT !.generation = staged, !.seal = next, !.session = None,
                            !.used[old] = 0, !.tickets = tickets]
      /\ rec.session # None /\ next.key = key
      /\ Cardinality(gens[staged]) = Cardinality(gens[old])
      /\ UNCHANGED gens
  BY DEF CommitRewrite, HeldSession, Store, RecordOnly
<1>3. next # None /\ KeyOf(next) = key /\ staged \in Gens /\ old \in Gens
  <2>1. rec.session \in Session
    BY <1>1, <1>2, RecordTypes
  <2>2. next \in Seal /\ staged \in Gens
    BY <2>1 DEF Session
  <2>3. next # None
    BY <2>2, NoneAssumption
  <2>4. QED
    BY <1>1, <1>2, <2>2, <2>3, RecordTypes DEF KeyOf
<1>4. staged \in LiveGenerations
  BY <1>2, Zenon DEF LiveGenerations
<1>5. key # KeyOf(rec.seal)
  BY <1>2 DEF StoreInv, Copied
<1>6. gens[staged] = Rekeyed(gens[old], key)
  BY CommitRekeys
<1> HIDE DEF tickets, staged, next, old
<1>7. /\ rec'.session = None /\ rec'.seal = next
      /\ rec'.generation = staged /\ rec'.plain = rec.plain
      /\ rec'.next_generation = rec.next_generation
  BY <1>1, <1>2 DEF TypeOK, WorkspaceRecord
<1>8. Copied' /\ NothingAside' /\ Passes
  BY <1>3, <1>7, Zenon DEF Copied, NothingAside, Passes
<1>9. S!Rekey(key)
  BY <1>2, <1>3, <1>5, <1>6, <1>7 DEF S!Rekey, Rekeyed, old
<1>10. key \in KeyIds \ {None}
  BY NoneAssumption DEF KeyIds
<1>11. Moves
  BY <1>2, <1>3, <1>5, <1>7 DEF Moves, staged
<1>12. QED
  BY <1>8, <1>9, <1>10, <1>11 DEF Mapped, S!Next

-----------------------------------------------------------------------------

\* Every step of a workspace is a step of the store or is not seen by its users, and
\* keeps what the mapping rests on.
LEMMA StepMapped ==
    ASSUME StoreInv, [Next]_vars
    PROVE  StoreInv' /\ Mapped /\ Passes
<1>0. SafetyInv' /\ SafetyInv /\ TypeOK'
  BY StepSafe DEF StoreInv, SafetyInv, TypeInv
<1>1. ASSUME Quiet \/ Unseen PROVE Mapped /\ Passes
  BY <1>0, <1>1, UnseenMapped DEF Quiet, Unseen
<1>2. ASSUME NEW c \in ApiKeys, UploadOperation(c) PROVE Mapped /\ Passes
  <2>1. ASSUME NEW r \in Request, BeginUpload(c, r) PROVE Mapped /\ Passes
    <3> DEFINE ticket == [owner |-> c, request |-> r, expires_at |-> now + StagingSecs]
    <3>1. Quiet \/ \E u \in UploadIds : Store([rec EXCEPT !.tickets[u] = ticket], {}, {})
      BY <1>0, <2>1, BeginUploadQuiet
    <3>2. ticket.request = r
      OBVIOUS
    <3> HIDE DEF ticket
    <3>3. QED
      BY <1>1, <2>1, <3>1, <3>2, IssuedMapped, Zenon
  <2>2. ASSUME NEW u \in UploadIds, CommitUpload(c, u) PROVE Mapped /\ Passes
    BY <1>0, <1>1, <2>2, CommitUploadCases, CommitUnseen, PublishMapped, Zenon
  <2>3. QED
    BY <1>0, <1>1, <1>2, <2>1, <2>2, UploadQuiet, ProbeQuiet, Zenon DEF UploadOperation
<1>3. ASSUME NEW c \in ApiKeys, EncryptionOperation(c) PROVE Mapped /\ Passes
  <2>1. ASSUME NEW key \in DataKeys, NEW words \in Words,
               EnableEncryption(c, key, words) \/ FreshStart(c, key, words)
        PROVE  Mapped /\ Passes
    <3>1. rec.session = None /\ rec.seal = None /\ RecordOnly
      BY <2>1, Zenon DEF EnableEncryption, FreshStart, Settle, RecordOnly
    <3>2. QED
      BY <2>1, <3>1, SealEmptyMapped, SetAsideMapped, Zenon DEF EnableEncryption, FreshStart
  <2>2. QED
    BY <1>0, <1>1, <1>3, <2>1, DeleteItemMapped, ReplaceHeaderQuiet, Zenon
       DEF EncryptionOperation
<1>4. ASSUME NEW c \in ApiKeys, RewriteOperation(c) PROVE Mapped /\ Passes
  <2>1. ASSUME NEW kind \in RewriteKind, NEW expected \in KeyIds, NEW key \in DataKeys,
               NEW words \in Words, BeginRewrite(c, kind, expected, key, words)
        PROVE  Mapped /\ Passes
    BY <1>0, <1>1, <2>1, RenewLeaseQuiet, OpenSessionMapped, Zenon
       DEF BeginRewrite, ReplayBegin, HeldSession
  <2>2. ASSUME HeartbeatRewrite(c) \/ TakeOverRewrite(c) PROVE Mapped /\ Passes
    BY <1>0, <1>1, <2>2, RenewLeaseQuiet, Zenon
       DEF HeartbeatRewrite, TakeOverRewrite, HeldSession
  <2>3. QED
    BY <1>4, <2>1, <2>2, CommitRewriteMapped, EndAbortedMapped, Zenon
       DEF RewriteOperation, AbortRewrite, HeldSession
<1>5. ASSUME Housekeeping PROVE Mapped /\ Passes
  BY <1>0, <1>1, <1>5, EndAbortedMapped, RepairUnseen, CleanupQuiet, Zenon
     DEF Housekeeping, OperatorAbortRewrite
<1>6. ASSUME UNCHANGED vars PROVE Mapped /\ Passes
  <2>1. Quiet
    BY <1>0, <1>6, IdleQuiet DEF vars
  <2>2. QED
    BY <1>1, <2>1
<1>7. Mapped /\ Passes
  BY <1>2, <1>3, <1>4, <1>5, <1>6, Zenon DEF Next
<1>8. QED
  BY <1>0, <1>7 DEF StoreInv, Mapped

\* A new workspace is an empty store.
LEMMA InitMapped == Init => StoreInv /\ S!Init
<1> SUFFICES ASSUME Init PROVE StoreInv /\ S!Init
  OBVIOUS
<1>1. /\ rec.generation = 0 /\ rec.plain = None /\ rec.session = None /\ rec.seal = None
      /\ gens[0] = {}
  BY BoundsAssumption DEF Init, NewRecord, Gens
<1>2. QED
  BY <1>1, InitSafe DEF StoreInv, Copied, NothingAside, S!Init, KeyOf

\* What the refinement rests on holds in every reachable state.
LEMMA AlwaysMapped == Spec => []StoreInv
<1>1. StoreInv /\ [Next]_vars => StoreInv'
  BY StepMapped
<1>2. QED
  BY <1>1, InitMapped, PTL DEF Spec

\* I3 of docs/api/rewrite-session.md: to its users a workspace is the store of module
\* Store.  However uploads, deletions, rewrites, take-overs, aborts, kills, repairs, and
\* clean-ups interleave, an item appears only by being put, disappears only by being
\* deleted, and a rewrite re-encrypts all of them in one step.
THEOREM WorkspaceImplementsStore == Spec => ImplementsStore
<1>1. Init => S!Init
  BY InitMapped
<1>2. StoreInv /\ [Next]_vars => [S!Next]_<<gens[rec.generation],
            IF rec.plain = None THEN {} ELSE gens[rec.plain], KeyOf(rec.seal)>>
  BY StepMapped DEF Mapped, Seen
<1>3. QED
  BY <1>1, <1>2, AlwaysMapped, PTL DEF Spec, ImplementsStore, S!Spec

\* The lease of a rewrite: a session changes hands only when its lease has ended, and
\* whoever holds it goes on with the same key and the same staged generation
\* (take_over_rewrite).
THEOREM SessionsChangeHandsAtLeaseEnd == Spec => SessionsPassAtLeaseEnd
<1>1. StoreInv /\ [Next]_vars => [Passes]_vars
  BY StepMapped
<1>2. SessionsPassAtLeaseEnd <=> [][Passes]_vars
  BY DEF SessionsPassAtLeaseEnd, Passes
<1>3. QED
  BY <1>1, <1>2, AlwaysMapped, PTL DEF Spec

-----------------------------------------------------------------------------
(* What a workspace asks of its shelf. *)

ShelfStep == [Shelf!ShelfNext]_<<staging, [g \in Gens |-> Filed(gens[g])]>>

\* A generation as a shelf keeps it, with an item more, with an item less, and dropped.
LEMMA FiledItems ==
    ASSUME NEW items \in SUBSET Item, NEW item \in Item
    PROVE  /\ Filed(items \cup {item}) =
                 [Filed(items) EXCEPT ![item] = [content |-> SizeOf(item), envelope |-> item]]
           /\ Filed(items \ {item}) = [Filed(items) EXCEPT ![item] = None]
           /\ item \notin items => Filed(items)[item] = None
           /\ Filed({}) = [i \in Item |-> None]
<1> DEFINE F(i) == [content |-> SizeOf(i), envelope |-> i]
<1>1. \A its : Filed(its) = [i \in Item |-> IF i \in its THEN F(i) ELSE None]
  BY DEF Filed
<1> HIDE DEF F
<1>2. QED
  BY <1>1 DEF F

\* A step that leaves the shelf alone.
LEMMA ShelfRests ==
    ASSUME UNCHANGED <<gens, staging>>
    PROVE  ShelfStep
BY DEF ShelfStep

\* A step on staging places only.
LEMMA ShelfStages ==
    ASSUME TypeOK, NEW u \in UploadIds, UNCHANGED gens,
           \/ staging' = StageCreate(u)
           \/ staging' = [staging EXCEPT ![u] = None]
           \/ /\ staging[u] # None
              /\ \E n \in {Size[t] : t \in Texts} \cup {0} : staging' = [staging EXCEPT ![u] = n]
    PROVE  ShelfStep
<1> DEFINE shelf == [g \in Gens |-> Filed(gens[g])]
<1>1. UNCHANGED shelf
  OBVIOUS
<1> HIDE DEF shelf
<1>2. CASE staging' = StageCreate(u)
  <2>1. staging' = [staging EXCEPT ![u] = IF staging[u] = None THEN 0 ELSE staging[u]]
    BY <1>2 DEF StageCreate, TypeOK
  <2>2. Shelf!StageCreate(u)
    BY <1>1, <2>1 DEF Shelf!StageCreate, shelf
  <2>3. QED
    BY <2>2 DEF ShelfStep, Shelf!ShelfNext
<1>3. CASE staging' = [staging EXCEPT ![u] = None]
  <2>1. Shelf!StageRemove(u)
    BY <1>1, <1>3 DEF Shelf!StageRemove, shelf
  <2>2. QED
    BY <2>1 DEF ShelfStep, Shelf!ShelfNext
<1>4. ASSUME NEW n \in {Size[t] : t \in Texts} \cup {0}, staging[u] # None,
             staging' = [staging EXCEPT ![u] = n]
      PROVE  ShelfStep
  <2>1. Shelf!StageWrite(u, n)
    BY <1>1, <1>4 DEF Shelf!StageWrite, shelf
  <2>2. QED
    BY <2>1 DEF ShelfStep, Shelf!ShelfNext
<1>5. QED
  BY <1>2, <1>3, <1>4

\* Dropping a generation, and taking an item from one.
LEMMA ShelfRemoves ==
    ASSUME TypeOK, NEW g \in Gens, UNCHANGED staging,
           \/ gens' = [gens EXCEPT ![g] = {}]
           \/ \E item \in Item : gens' = [gens EXCEPT ![g] = @ \ {item}]
    PROVE  ShelfStep
<1>1. gens[g] \in SUBSET Item
  BY DEF TypeOK
<1>2. CASE gens' = [gens EXCEPT ![g] = {}]
  <2>1. gens'[g] = {} /\ \A h \in Gens : h # g => gens'[h] = gens[h]
    BY <1>2 DEF TypeOK
  <2>2. Filed(gens'[g]) = [i \in Item |-> None]
    BY <1>1, <2>1 DEF Filed
  <2>3. Shelf!DropGeneration(g)
    BY <2>1, <2>2 DEF Shelf!DropGeneration
  <2>4. QED
    BY <2>3 DEF ShelfStep, Shelf!ShelfNext
<1>3. ASSUME NEW item \in Item, gens' = [gens EXCEPT ![g] = @ \ {item}]
      PROVE  ShelfStep
  <2>1. gens'[g] = gens[g] \ {item} /\ \A h \in Gens : h # g => gens'[h] = gens[h]
    BY <1>3 DEF TypeOK
  <2>2. Filed(gens'[g]) = [Filed(gens[g]) EXCEPT ![item] = None]
    BY <1>1, <2>1, FiledItems
  <2>3. Shelf!Remove(g, item)
    BY <2>1, <2>2 DEF Shelf!Remove
  <2>4. QED
    BY <2>3 DEF ShelfStep, Shelf!ShelfNext
<1>4. QED
  BY <1>2, <1>3

\* Publishing moves a staging place to where nothing is.
LEMMA ShelfPublishes ==
    ASSUME TypeOK, NEW c, NEW u \in UploadIds, NEW r \in Request, NEW g \in Gens,
           Publish(c, u, r, g)
    PROVE  ShelfStep
<1> DEFINE item == r.item
           stored == [content |-> SizeOf(item), envelope |-> item]
<1>1. /\ staging[u] = SizeOf(item) /\ Same(g, item) = {}
      /\ gens' = [gens EXCEPT ![g] = @ \cup {item}]
      /\ staging' = [staging EXCEPT ![u] = None]
  BY Zenon DEF Publish
<1>2. item \in Item /\ gens[g] \in SUBSET Item
  BY DEF TypeOK, Request
<1> HIDE DEF item
<1>3. staging[u] # None
  BY <1>1, <1>2, SizeOfNat, NoneAssumption
<1>4. item \notin gens[g]
  BY <1>1 DEF Same, SameContent
<1>5. gens'[g] = gens[g] \cup {item} /\ \A h \in Gens : h # g => gens'[h] = gens[h]
  BY <1>1 DEF TypeOK
<1>6. stored = [content |-> staging[u], envelope |-> item]
  BY <1>1
<1>7. Filed(gens'[g]) = [Filed(gens[g]) EXCEPT ![item] = stored] /\ Filed(gens[g])[item] = None
  <2>1. /\ Filed(gens[g] \cup {item}) = [Filed(gens[g]) EXCEPT ![item] = stored]
        /\ Filed(gens[g])[item] = None
    BY <1>2, <1>4, FiledItems, Zenon
  <2> HIDE DEF stored
  <2>2. QED
    BY <1>5, <2>1
<1> HIDE DEF stored
<1>8. /\ [h \in Gens |-> Filed(gens[h])]' = [[h \in Gens |-> Filed(gens[h])] EXCEPT ![g][item] = stored]
      /\ [h \in Gens |-> Filed(gens[h])][g][item] = None
  BY <1>5, <1>7
<1>9. Shelf!Publish(u, g, item, item)
  BY <1>1, <1>3, <1>6, <1>8, Zenon DEF Shelf!Publish
<1>10. QED
  BY <1>2, <1>9 DEF ShelfStep, Shelf!ShelfNext

\* Every step of a workspace is one operation of the shelf, or none.
LEMMA StepOnShelf ==
    ASSUME TypeOK, [Next]_vars
    PROVE  ShelfStep
<1>1. ASSUME NEW c \in ApiKeys, UploadOperation(c) PROVE ShelfStep
  <2>1. ASSUME NEW r \in Request, BeginUpload(c, r) PROVE ShelfStep
    <3>1. UNCHANGED gens /\ (UNCHANGED staging \/ \E u \in UploadIds : staging' = StageCreate(u))
      BY <2>1, Zenon DEF BeginUpload, AnswerStored, AnswerTicket, IssueTicket, TicketsOf
    <3>2. QED
      BY <3>1, ShelfRests, ShelfStages, Zenon
  <2>2. ASSUME NEW u \in UploadIds, PutUploadContent(c, u) PROVE ShelfStep
    <3> DEFINE contents == {Size[t] : t \in Texts} \cup {0}
               r == rec.tickets[u].request
    <3>1. SizeOf(r.item) \in contents
      <4>1. rec.tickets[u] \in Ticket
        BY <2>2, RecordTypes DEF PutUploadContent, LiveTicket
      <4>2. QED
        BY <4>1 DEF Ticket, Request, Item, SizeOf
    <3>2. /\ UNCHANGED gens /\ staging[u] # None
          /\ \E n \in {0, SizeOf(r.item)} : staging' = [staging EXCEPT ![u] = n]
      BY <2>2 DEF PutUploadContent
    <3>3. \E n \in contents : staging' = [staging EXCEPT ![u] = n]
      BY <3>1, <3>2
    <3>4. QED
      BY <3>2, <3>3, ShelfStages, Zenon
  <2>3. ASSUME NEW u \in UploadIds, CommitUpload(c, u) PROVE ShelfStep
    <3> DEFINE r == rec.tickets[u].request
               g == UploadTarget(r)
    <3>1. CASE UNCHANGED <<gens, staging>>
      BY <3>1, ShelfRests
    <3>2. CASE rec.tickets[u] # None /\ MayUpload(c, r) /\ Publish(c, u, r, g)
      <4>1. rec.tickets[u] \in Ticket
        BY <3>2, RecordTypes
      <4>2. r \in Request
        BY <4>1 DEF Ticket
      <4>3. g \in Gens
        BY <3>2, <4>2, UploadTargetType, Zenon
      <4> HIDE DEF r, g
      <4>4. QED
        BY <3>2, <4>2, <4>3, ShelfPublishes, Zenon
    <3>3. QED
      BY <2>3, <3>1, <3>2, Zenon
         DEF CommitUpload, ReplayCommit, RecoverCommit, RejectDuplicate, LiveTicket
  <2>4. ASSUME \/ \E u \in UploadIds : AbortUpload(c, u)
               \/ ProbeWrite(c)
        PROVE  ShelfStep
    BY <2>4, ShelfRests, ShelfStages, Zenon DEF AbortUpload, ProbeWrite
  <2>5. QED
    BY <1>1, <2>1, <2>2, <2>3, <2>4, Zenon DEF UploadOperation
<1>2. ASSUME NEW c \in ApiKeys, EncryptionOperation(c) PROVE ShelfStep
  <2>1. ASSUME NEW partition, NEW item \in Item, NEW expected,
               DeleteItem(c, partition, item, expected)
        PROVE  ShelfStep
    <3> DEFINE g == GenerationOf(partition)
    <3>1. g # None /\ gens' = [gens EXCEPT ![g] = @ \ {item}] /\ UNCHANGED staging
      BY <2>1, Zenon DEF DeleteItem
    <3>2. g \in Gens
      BY <3>1, RecordTypes, Zenon DEF GenerationOf
    <3> HIDE DEF g
    <3>3. QED
      BY <3>1, <3>2, ShelfRemoves, Zenon
  <2>2. QED
    BY <1>2, <2>1, ShelfRests, Zenon
       DEF EncryptionOperation, EnableEncryption, FreshStart, ReplaceHeader
<1>3. ASSUME NEW c \in ApiKeys, RewriteOperation(c) PROVE ShelfStep
  <2>1. UNCHANGED <<gens, staging>>
    BY <1>3, Zenon DEF RewriteOperation, BeginRewrite, HeartbeatRewrite, TakeOverRewrite,
                       CommitRewrite, AbortRewrite, EndAborted, RecordOnly
  <2>2. QED
    BY <2>1, ShelfRests
<1>4. ASSUME Housekeeping PROVE ShelfStep
  <2>1. ASSUME NEW g \in Gens, DropGeneration(g) PROVE ShelfStep
    BY <2>1, ShelfRemoves, Zenon DEF DropGeneration
  <2>2. ASSUME NEW u \in UploadIds, RemoveStaging(u) PROVE ShelfStep
    BY <2>2, ShelfStages, Zenon DEF RemoveStaging
  <2>3. ASSUME UNCHANGED <<gens, staging>> PROVE ShelfStep
    BY <2>3, ShelfRests
  <2>4. QED
    BY <1>4, <2>1, <2>2, <2>3, Zenon
       DEF Housekeeping, OperatorAbortRewrite, EndAborted, CleanStaging, Open, RecordOnly,
           CleanupFails, Kill, Tick
<1>5. ASSUME UNCHANGED vars PROVE ShelfStep
  BY <1>5, ShelfRests DEF vars
<1>6. QED
  BY <1>1, <1>2, <1>3, <1>4, <1>5, Zenon DEF Next

\* To its shelf a workspace is a caller that keeps to the trait ItemShelf: whatever it does
\* to staging places and items is one operation of module MemoryShelf, whose precondition
\* holds, also where a step is cut short by a kill or a failed commit.  FilesImplementTheShelf
\* is the other half: what files do is what that module does.
THEOREM WorkspaceKeepsToTheShelf == Spec => UsesTheShelf
<1>1. Init => Shelf!ShelfInit
  <2>1. ASSUME Init PROVE Shelf!ShelfInit
    <3>1. \A g \in Gens : Filed(gens[g]) = [i \in Item |-> None]
      BY <2>1 DEF Init, Filed
    <3>2. QED
      BY <2>1, <3>1 DEF Init, Shelf!ShelfInit
  <2>2. QED
    BY <2>1
<1>2. TypeOK /\ [Next]_vars => [Shelf!ShelfNext]_<<staging, [g \in Gens |-> Filed(gens[g])]>>
  BY StepOnShelf DEF ShelfStep
<1>3. QED
  BY <1>1, <1>2, TypeCorrect, PTL DEF Spec, UsesTheShelf, Shelf!ShelfSpec, Shelf!shelves

-----------------------------------------------------------------------------
(* What a workspace has left behind it. *)

\* Plaintext that the record points to.
PlainTexts == {i \in UNION {gens[g] : g \in LiveGenerations} : i.under = None}

\* Sealed is sealed for good: no rule goes back, and whatever was under way when the
\* workspace was sealed, an upload begun in plaintext, a session taken over or aborted, a
\* commit repeated after a kill, adds no plaintext ("Items of two kinds never mix",
\* docs/encryption.md).
SealedForGood ==
    [][rec.seal # None => rec'.seal # None /\ PlainTexts' \subseteq PlainTexts]_vars

\* The plaintext of a sealed workspace is what it set aside.
PlainIsAside ==
    rec.seal # None => PlainTexts = IF rec.plain = None THEN {} ELSE gens[rec.plain]

\* Nothing else is plaintext, since every other item is under its partition's key.
LEMMA OnlyAsideIsPlain == StoreInv => PlainIsAside
<1> SUFFICES ASSUME StoreInv, rec.seal # None
             PROVE  PlainTexts = IF rec.plain = None THEN {} ELSE gens[rec.plain]
  BY DEF PlainIsAside
<1>1. KeyOf(rec.seal) # None /\ (rec.session # None => rec.session.next.key # None)
  <2>1. TypeOK
    BY DEF StoreInv, SafetyInv, TypeInv
  <2>2. rec.seal \in Seal /\ (rec.session # None => rec.session \in Session)
    BY <2>1, RecordTypes
  <2>3. rec.session # None => rec.session.next.key \in DataKeys
    BY <2>2 DEF Session, Seal
  <2>4. QED
    BY <2>2, <2>3, SealedByKey, NoneAssumption
<1>2. /\ \A i \in gens[rec.generation] : i.under # None
      /\ rec.plain # None => \A i \in gens[rec.plain] : i.under = None
      /\ rec.session # None => \A i \in gens[rec.session.staged_generation] : i.under # None
  BY <1>1 DEF StoreInv, SafetyInv, Shelved, ItemsUnderTheirKey
<1>3. QED
  BY <1>2 DEF PlainTexts, LiveGenerations

\* Once a workspace is sealed it stays so, and no plaintext is added to it.
THEOREM PlaintextOnlyGoes == Spec => SealedForGood
<1>1. ASSUME StoreInv, PlainIsAside, PlainIsAside', [Next]_vars, rec.seal # None
      PROVE  rec'.seal # None /\ PlainTexts' \subseteq PlainTexts
  <2> DEFINE aside == IF rec.plain = None THEN {} ELSE gens[rec.plain]
             key == KeyOf(rec.seal)
  <2>1. StoreInv' /\ [S!Next]_Seen
    BY <1>1, StepMapped DEF Mapped
  <2>2. key # None /\ (key' # None => rec'.seal # None)
    <3>1. TypeOK
      BY <1>1 DEF StoreInv, SafetyInv, TypeInv
    <3>2. rec.seal \in Seal
      BY <1>1, <3>1, RecordTypes
    <3>3. QED
      BY <1>1, <3>2, SealedByKey DEF KeyOf
  <2>3. key' # None /\ aside' \subseteq aside
    <3>1. CASE UNCHANGED Seen
      BY <2>2, <3>1 DEF Seen
    <3>2. CASE S!Next
      BY <2>2, <3>2 DEF S!Next, S!Put, S!Remove, S!Seal, S!Rekey
    <3>3. QED
      BY <2>1, <3>1, <3>2
  <2>4. PlainTexts = aside /\ (rec'.seal # None => PlainTexts' = aside')
    BY <1>1 DEF PlainIsAside
  <2> HIDE DEF aside, key
  <2>5. QED
    BY <2>2, <2>3, <2>4
<1>2. StoreInv /\ PlainIsAside /\ PlainIsAside' /\ [Next]_vars =>
         [rec.seal # None => rec'.seal # None /\ PlainTexts' \subseteq PlainTexts]_vars
  BY <1>1
<1>3. QED
  BY <1>2, OnlyAsideIsPlain, AlwaysMapped, PTL DEF Spec, SealedForGood

\* Generations that were in use and that the record points to no longer.
Retired == {g \in Gens \ LiveGenerations : g < rec.next_generation}

\* What the record has left it never comes back to, and nothing is put there: that is why
\* a clean-up may run outside the lock, late, or again after a restart (`Cleanup`,
\* workspace.rs).
RetiredForGood ==
    [][Retired \subseteq Retired' /\ \A g \in Retired : gens'[g] \subseteq gens[g]]_vars

\* Items enter only generations that the record points to.
LEMMA ItemsEnterLive ==
    ASSUME TypeOK, [Next]_vars, NEW g \in Gens \ LiveGenerations
    PROVE  gens'[g] \subseteq gens[g]
<1> DEFINE Goal == gens'[g] \subseteq gens[g]
<1>1. ASSUME UNCHANGED gens PROVE Goal
  BY <1>1
<1>2. ASSUME NEW c \in ApiKeys, UploadOperation(c) PROVE Goal
  <2>1. ASSUME NEW u \in UploadIds, CommitUpload(c, u) PROVE Goal
    <3> DEFINE r == rec.tickets[u].request
               t == UploadTarget(r)
    <3>1. CASE MayUpload(c, r) /\ Publish(c, u, r, t)
      <4>1. t \in LiveGenerations /\ gens' = [gens EXCEPT ![t] = @ \cup {r.item}]
        BY <3>1, TargetLives, Zenon DEF Publish
      <4> HIDE DEF t
      <4>2. QED
        BY <4>1 DEF TypeOK
    <3>2. CASE UNCHANGED gens
      BY <1>1, <3>2
    <3> HIDE DEF Goal
    <3>3. QED
      BY <2>1, <3>1, <3>2, Zenon DEF CommitUpload, ReplayCommit, RecoverCommit, RejectDuplicate
  <2> HIDE DEF Goal
  <2>2. QED
    BY <1>1, <1>2, <2>1, Zenon
       DEF UploadOperation, BeginUpload, PutUploadContent, AbortUpload, ProbeWrite
<1>3. ASSUME NEW c \in ApiKeys, EncryptionOperation(c) PROVE Goal
  <2>1. ASSUME NEW partition, NEW item, NEW expected, DeleteItem(c, partition, item, expected)
        PROVE  Goal
    <3>1. gens' = [gens EXCEPT ![GenerationOf(partition)] = @ \ {item}]
      BY <2>1, Zenon DEF DeleteItem
    <3>2. QED
      BY <3>1 DEF TypeOK
  <2> HIDE DEF Goal
  <2>2. QED
    BY <1>1, <1>3, <2>1, Zenon
       DEF EncryptionOperation, EnableEncryption, FreshStart, ReplaceHeader
<1>4. ASSUME NEW c \in ApiKeys, RewriteOperation(c) PROVE Goal
  <2>1. UNCHANGED gens
    BY <1>4, Zenon DEF RewriteOperation, BeginRewrite, HeartbeatRewrite, TakeOverRewrite,
                       CommitRewrite, AbortRewrite, EndAborted, RecordOnly
  <2>2. QED
    BY <1>1, <2>1
<1>5. ASSUME Housekeeping PROVE Goal
  <2>1. ASSUME NEW d \in Gens, DropGeneration(d) PROVE Goal
    BY <2>1 DEF DropGeneration, TypeOK
  <2> HIDE DEF Goal
  <2>2. QED
    BY <1>1, <1>5, <2>1, Zenon
       DEF Housekeeping, OperatorAbortRewrite, EndAborted, CleanStaging, Open, RecordOnly,
           RemoveStaging, CleanupFails, Kill, Tick
<1>6. ASSUME UNCHANGED vars PROVE Goal
  BY <1>6 DEF vars
<1> HIDE DEF Goal
<1>7. Goal
  BY <1>2, <1>3, <1>4, <1>5, <1>6, Zenon DEF Next
<1>8. QED
  BY <1>7 DEF Goal

\* A generation that the record left is left for good.
THEOREM LeftGenerationsStayLeft == Spec => RetiredForGood
<1>1. ASSUME StoreInv, [Next]_vars, NEW g \in Retired
      PROVE  g \in Retired' /\ gens'[g] \subseteq gens[g]
  <2>1. TypeOK /\ StoreInv' /\ Moves
    BY <1>1, StepMapped DEF Mapped, StoreInv, SafetyInv, TypeInv
  <2>2. g \in Gens \ LiveGenerations /\ g < rec.next_generation /\ rec.next_generation \in Nat
    BY <2>1, RecordTypes DEF Retired
  <2>3. gens'[g] \subseteq gens[g]
    BY <1>1, <2>1, <2>2, ItemsEnterLive
  <2>4. g \in Nat
    BY <2>2, BoundsAssumption DEF Gens
  <2>5. g < rec'.next_generation /\ g # rec.next_generation
    BY <2>1, <2>2, <2>4 DEF Moves
  <2>6. /\ g # rec.generation
        /\ rec.plain # None => g # rec.plain
        /\ rec.session # None => g # rec.session.staged_generation
    BY <2>2 DEF LiveGenerations
  <2>7. /\ g # rec'.generation
        /\ rec'.plain # None => g # rec'.plain
        /\ rec'.session # None => g # rec'.session.staged_generation
    BY <2>1, <2>5, <2>6, Zenon DEF Moves
  <2>8. g \notin LiveGenerations'
    BY <2>7 DEF LiveGenerations
  <2>9. QED
    BY <2>2, <2>3, <2>5, <2>8 DEF Retired
<1>2. StoreInv /\ [Next]_vars =>
         [Retired \subseteq Retired' /\ \A g \in Retired : gens'[g] \subseteq gens[g]]_vars
  BY <1>1
<1>3. QED
  BY <1>2, AlwaysMapped, PTL DEF Spec, RetiredForGood

\* The repair at opening: whatever failed before, kills and failed commits alike, once a
\* process has opened the workspace the counts are the bytes on the shelf (reconcile).
OpeningCounts == [][Open => BooksBalance']_vars

\* Opening a workspace sets its books right, also where commits may fail.
THEOREM OpeningRepairsTheBooks == Spec => OpeningCounts
<1>1. ASSUME StoreInv, Open PROVE BooksBalance'
  <2>1. SafetyInv /\ RecordOnly /\ LiveGenerations \subseteq Gens
    BY <1>1, RepairCounts, LiveTypes DEF StoreInv, SafetyInv, TypeInv
  <2> DEFINE counted == [g \in Gens |-> IF g \in LiveGenerations THEN BytesOf(gens[g])
                                                                 ELSE rec.used[g]]
  <2>2. CleanStagingOf([rec EXCEPT !.used = counted])
    BY <1>1, Zenon DEF Open
  <2>3. counted \in [Gens -> Nat]
    <3>1. \A g \in Gens : BytesOf(gens[g]) \in Nat
      BY <2>1, BytesNat DEF SafetyInv, TypeInv, TypeOK, FiniteShelf
    <3>2. QED
      BY <2>1, <3>1, RecordTypes DEF SafetyInv, TypeInv
  <2>4. \A g \in LiveGenerations : counted[g] = BytesOf(gens[g])
    BY <2>1
  <2> HIDE DEF counted
  <2>5. /\ Unseen
        /\ \A g \in Gens : g \in LiveGenerations => rec'.used[g] = counted[g]
    BY <2>1, <2>2, <2>3, CleanStagingUnseen, Zenon
  <2>6. LiveGenerations' = LiveGenerations /\ UNCHANGED gens
    BY <2>1, <2>5, SteadyLive DEF Unseen, RecordOnly
  <2>7. QED
    BY <2>1, <2>4, <2>5, <2>6 DEF BooksBalance
<1>2. StoreInv /\ [Next]_vars => [Open => BooksBalance']_vars
  BY <1>1
<1>3. QED
  BY <1>2, AlwaysMapped, PTL DEF Spec, OpeningCounts

=============================================================================
