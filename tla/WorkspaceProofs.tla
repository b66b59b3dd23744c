-------------------------- MODULE WorkspaceProofs ---------------------------
(***************************************************************************)
(* Theorems about Workspace, for every value of its constants: its types,   *)
(* and then the safety of its items, with an inductive invariant in two     *)
(* halves: Shelved, about the record's pointers and the generations they    *)
(* point to, and Ticketed, about uploads.                                   *)
(***************************************************************************)
EXTENDS Workspace, TLAPS, FiniteSetTheorems

(* Every item on the shelf has finitely many bytes in all, so that the bytes *)
(* of a generation are a number.                                            *)
FiniteShelf == \A g \in Gens : IsFiniteSet(ByteSet(gens[g]))

TypeInv == TypeOK /\ FiniteShelf

-----------------------------------------------------------------------------

\* An item has at least one byte.
LEMMA SizeOfNat ==
    ASSUME NEW item \in Item
    PROVE  SizeOf(item) \in Nat \ {0}
BY LimitsAssumption DEF SizeOf, Item

\* An empty generation holds no bytes.
LEMMA NoBytes ==
    IsFiniteSet(ByteSet({})) /\ BytesOf({}) = 0
<1>1. ByteSet({}) = {}
  BY DEF ByteSet
<1>2. QED
  BY <1>1, FS_EmptySet DEF BytesOf

\* The bytes of one item are as many as its size.
LEMMA BytesOfOne ==
    ASSUME NEW item \in Item
    PROVE  /\ IsFiniteSet({item} \X (1 .. SizeOf(item)))
           /\ Cardinality({item} \X (1 .. SizeOf(item))) = SizeOf(item)
<1>1. SizeOf(item) \in Nat \ {0}
  BY SizeOfNat
<1>2. IsFiniteSet({item}) /\ Cardinality({item}) = 1
  BY FS_Singleton
<1>3. IsFiniteSet(1 .. SizeOf(item)) /\ Cardinality(1 .. SizeOf(item)) = SizeOf(item)
  BY <1>1, FS_Interval
<1> DEFINE One == {item}
           Places == 1 .. SizeOf(item)
<1> HIDE DEF One, Places
<1>4. IsFiniteSet(One \X Places) /\ Cardinality(One \X Places) = Cardinality(One) * Cardinality(Places)
  BY <1>2, <1>3, FS_Product DEF One, Places
<1>5. Cardinality(One) * Cardinality(Places) = SizeOf(item)
  BY <1>1, <1>2, <1>3 DEF One, Places
<1>6. QED
  BY <1>4, <1>5 DEF One, Places

\* The bytes of a generation with one more item.
LEMMA ByteSetAdd ==
    ASSUME NEW items, NEW item
    PROVE  ByteSet(items \cup {item}) = ByteSet(items) \cup ({item} \X (1 .. SizeOf(item)))
BY DEF ByteSet

\* The bytes of a generation with one item less.
LEMMA ByteSetRemove ==
    ASSUME NEW items, NEW item \in items
    PROVE  /\ ByteSet(items \ {item}) \subseteq ByteSet(items)
           /\ items = (items \ {item}) \cup {item}
BY DEF ByteSet

\* An item that is not in a generation shares no byte with it.
LEMMA ByteSetDisjoint ==
    ASSUME NEW items, NEW item, item \notin items
    PROVE  ByteSet(items) \cap ({item} \X (1 .. SizeOf(item))) = {}
BY DEF ByteSet

\* One more item adds its size.
LEMMA BytesAdd ==
    ASSUME NEW items, IsFiniteSet(ByteSet(items)), NEW item \in Item
    PROVE  /\ IsFiniteSet(ByteSet(items \cup {item}))
           /\ item \notin items =>
                 BytesOf(items \cup {item}) = BytesOf(items) + SizeOf(item)
<1> DEFINE one == {item} \X (1 .. SizeOf(item))
<1>1. IsFiniteSet(one) /\ Cardinality(one) = SizeOf(item)
  BY BytesOfOne
<1>2. ByteSet(items \cup {item}) = ByteSet(items) \cup one
  BY ByteSetAdd
<1>3. /\ IsFiniteSet(ByteSet(items) \cup one)
      /\ Cardinality(ByteSet(items) \cup one)
            = Cardinality(ByteSet(items)) + Cardinality(one) - Cardinality(ByteSet(items) \cap one)
  BY <1>1, FS_Union
<1>4. ASSUME item \notin items PROVE Cardinality(ByteSet(items) \cap one) = 0
  <2>1. ByteSet(items) \cap one = {}
    BY <1>4, ByteSetDisjoint
  <2>2. QED
    BY <2>1, FS_EmptySet
<1>5. Cardinality(ByteSet(items)) \in Nat /\ SizeOf(item) \in Nat
  BY FS_CardinalityType, SizeOfNat
<1> HIDE DEF one
<1>6. IsFiniteSet(ByteSet(items \cup {item}))
  BY <1>2, <1>3, Zenon
<1>7. ASSUME item \notin items
      PROVE  BytesOf(items \cup {item}) = BytesOf(items) + SizeOf(item)
  <2>1. BytesOf(items \cup {item}) = Cardinality(ByteSet(items) \cup one)
    BY <1>2, Zenon DEF BytesOf
  <2>2. QED
    BY <2>1, <1>1, <1>3, <1>4, <1>5, <1>7 DEF BytesOf
<1>8. QED
  BY <1>6, <1>7

\* One item less takes its size away.
LEMMA BytesRemove ==
    ASSUME NEW items, IsFiniteSet(ByteSet(items)), NEW item \in Item, item \in items
    PROVE  /\ IsFiniteSet(ByteSet(items \ {item}))
           /\ BytesOf(items) = BytesOf(items \ {item}) + SizeOf(item)
<1> DEFINE rest == items \ {item}
<1>1. ByteSet(rest) \subseteq ByteSet(items) /\ items = rest \cup {item}
  BY ByteSetRemove
<1>2. IsFiniteSet(ByteSet(rest))
  BY <1>1, FS_Subset
<1>3. item \notin rest
  OBVIOUS
<1> HIDE DEF rest
<1>4. BytesOf(rest \cup {item}) = BytesOf(rest) + SizeOf(item)
  BY <1>2, <1>3, BytesAdd
<1>5. QED
  BY <1>1, <1>2, <1>4 DEF rest

\* The bytes of a generation are a number.
LEMMA BytesNat ==
    ASSUME NEW items, IsFiniteSet(ByteSet(items))
    PROVE  BytesOf(items) \in Nat
BY FS_CardinalityType DEF BytesOf

-----------------------------------------------------------------------------
(* Type correctness. *)

\* What a type-correct record gives its readers.
LEMMA RecordTypes ==
    ASSUME TypeOK
    PROVE  /\ rec.generation \in Gens
           /\ rec.plain # None => rec.plain \in Gens
           /\ rec.session # None => rec.session \in Session
           /\ rec.seal # None => rec.seal \in Seal
           /\ rec.next_generation \in Nat
           /\ rec.used \in [Gens -> Nat]
           /\ rec.tickets \in [UploadIds -> Ticket \cup {None}]
           /\ rec.tombstones \in [UploadIds -> Tombstone \cup {None}]
           /\ rec.ended_rewrites \subseteq DataKeys
BY DEF TypeOK, WorkspaceRecord


\* The part of the type that a rule's transaction writes.
Committed ==
    /\ rec \in WorkspaceRecord
    /\ dropping \subseteq Gens
    /\ removing \subseteq UploadIds
    /\ open \in BOOLEAN
    /\ faults \in Nat

\* A rule that stores a well-typed record leaves every variable Store sets well
\* typed.
LEMMA StoreTypes ==
    ASSUME TypeOK, NEW record \in WorkspaceRecord,
           NEW generations \in SUBSET Gens, NEW uploads \in SUBSET UploadIds,
           Store(record, generations, uploads)
    PROVE  Committed'
<1>1. rec' \in WorkspaceRecord /\ open' \in BOOLEAN /\ faults' \in Nat
  BY Zenon DEF TypeOK, Store
<1>2. dropping' \subseteq Gens /\ removing' \subseteq UploadIds
  BY DEF TypeOK, Store
<1>3. QED
  BY <1>1, <1>2, Zenon DEF Committed

\* A rule whose record is not stored keeps the types.
LEMMA NotStoredTypes ==
    ASSUME TypeOK, NotStored
    PROVE  Committed' /\ rec' = rec
<1>1. rec' \in WorkspaceRecord /\ open' \in BOOLEAN /\ rec' = rec
  BY Zenon DEF TypeOK, NotStored
<1>2. faults' \in Nat
  BY DEF TypeOK, NotStored
<1>3. dropping' \subseteq Gens /\ removing' \subseteq UploadIds
  BY Zenon DEF TypeOK, NotStored
<1>4. QED
  BY <1>1, <1>2, <1>3, Zenon DEF Committed

\* deleteItem keeps the types; the count saturates at zero (delete_item).
LEMMA DeleteItemTypes ==
    ASSUME TypeInv, NEW c \in ApiKeys, NEW partition, NEW item \in Item, NEW expected \in KeyIds,
           DeleteItem(c, partition, item, expected)
    PROVE  TypeInv'
<1> DEFINE g == GenerationOf(partition)
           less == IF rec.used[g] < SizeOf(item) THEN 0 ELSE rec.used[g] - SizeOf(item)
           record == [rec EXCEPT !.used[g] = less]
<1> USE DEF TypeInv
<1>1. g \in Gens
  BY RecordTypes DEF DeleteItem, GenerationOf
<1>2. record \in WorkspaceRecord
  <2>1. less \in Nat
    BY <1>1, RecordTypes, SizeOfNat
  <2> HIDE DEF g, less
  <2>2. QED
    BY <1>1, <2>1 DEF TypeOK, WorkspaceRecord
<1>3. Store(record, {}, {}) \/ NotStored
  BY Zenon DEF DeleteItem
<1>4. /\ gens' = [gens EXCEPT ![g] = @ \ {item}]
      /\ item \in gens[g]
      /\ UNCHANGED <<staging, now, issued, answers>>
  BY Zenon DEF DeleteItem
<1> HIDE DEF record, g
<1>5. Committed'
  BY <1>2, <1>3, StoreTypes, NotStoredTypes, Zenon
<1>6. gens' \in [Gens -> SUBSET Item]
  BY <1>1, <1>4 DEF TypeOK
<1>7. TypeOK'
  BY <1>4, <1>5, <1>6, Zenon DEF TypeOK, Committed
<1>8. FiniteShelf'
  <2>1. IsFiniteSet(ByteSet(gens[g] \ {item}))
    BY <1>1, <1>4, BytesRemove DEF FiniteShelf
  <2>2. QED
    BY <1>1, <1>4, <2>1 DEF FiniteShelf, TypeOK
<1>9. QED
  BY <1>7, <1>8

\* A rule that moves nothing on the shelf keeps the types if its record has them.
LEMMA RecordOnlyTypes ==
    ASSUME TypeInv, Committed', RecordOnly
    PROVE  TypeInv'
<1>1. TypeOK'
  BY Zenon DEF TypeInv, TypeOK, Committed, RecordOnly
<1>2. FiniteShelf'
  BY Zenon DEF TypeInv, FiniteShelf, RecordOnly
<1>3. QED
  BY <1>1, <1>2 DEF TypeInv

\* What a client announces is a seal.
LEMMA SealUnderType ==
    ASSUME NEW key \in DataKeys, NEW words \in Words
    PROVE  SealUnder(key, words) \in Seal
BY DEF SealUnder, Seal

\* enableEncryption keeps the types.
LEMMA EnableEncryptionTypes ==
    ASSUME TypeInv, NEW c, NEW key \in DataKeys, NEW words \in Words,
           EnableEncryption(c, key, words)
    PROVE  TypeInv'
<1> DEFINE record == [rec EXCEPT !.seal = SealUnder(key, words)]
<1>1. record \in WorkspaceRecord
  BY SealUnderType DEF TypeInv, TypeOK, WorkspaceRecord
<1>2. Store(record, {}, {}) /\ RecordOnly
  BY Zenon DEF EnableEncryption, RecordOnly
<1> HIDE DEF record
<1>3. QED
  BY <1>1, <1>2, StoreTypes, RecordOnlyTypes, Zenon DEF TypeInv

\* freshStart keeps the types, with items to set aside and without.
LEMMA FreshStartTypes ==
    ASSUME TypeInv, NEW c, NEW key \in DataKeys, NEW words \in Words,
           FreshStart(c, key, words)
    PROVE  TypeInv'
<1> DEFINE sealed == [rec EXCEPT !.seal = SealUnder(key, words)]
           moved == [rec EXCEPT !.seal = SealUnder(key, words),
                                !.plain = rec.generation,
                                !.generation = rec.next_generation,
                                !.next_generation = @ + 1]
<1>1. sealed \in WorkspaceRecord
  BY SealUnderType DEF TypeInv, TypeOK, WorkspaceRecord
<1>2. ASSUME rec.next_generation =< MaxGeneration
      PROVE  moved \in WorkspaceRecord
  <2> DEFINE seal == SealUnder(key, words)
             next == rec.next_generation
  <2>1. seal \in Seal /\ next \in Gens /\ next + 1 \in Nat /\ rec.generation \in Gens
    BY <1>2, SealUnderType, RecordTypes, BoundsAssumption DEF TypeInv, Gens
  <2> HIDE DEF seal, next
  <2>2. [rec EXCEPT !.seal = seal, !.plain = rec.generation,
                    !.generation = next, !.next_generation = next + 1] \in WorkspaceRecord
    BY <2>1 DEF TypeInv, TypeOK, WorkspaceRecord
  <2>3. QED
    BY <2>2 DEF seal, next
<1>3. /\ \/ Store(sealed, {}, {})
         \/ rec.next_generation =< MaxGeneration /\ Store(moved, {}, {})
      /\ RecordOnly
  BY Zenon DEF FreshStart, RecordOnly
<1> HIDE DEF sealed, moved
<1>4. QED
  BY <1>1, <1>2, <1>3, StoreTypes, RecordOnlyTypes, Zenon DEF TypeInv

\* replaceHeader keeps the types.
LEMMA ReplaceHeaderTypes ==
    ASSUME TypeInv, NEW c, NEW expected \in DataKeys, NEW words \in Words,
           ReplaceHeader(c, expected, words)
    PROVE  TypeInv'
<1> DEFINE record == [rec EXCEPT !.seal.header = [wraps |-> expected, words |-> words]]
<1>1. rec.seal \in Seal
  BY RecordTypes DEF TypeInv, ReplaceHeader
<1>2. record \in WorkspaceRecord
  <2>1. [rec.seal EXCEPT !.header = [wraps |-> expected, words |-> words]] \in Seal
    BY <1>1 DEF Seal
  <2>2. QED
    BY <2>1 DEF TypeInv, TypeOK, WorkspaceRecord
<1>3. Store(record, {}, {}) /\ RecordOnly
  BY Zenon DEF ReplaceHeader, RecordOnly
<1> HIDE DEF record
<1>4. QED
  BY <1>2, <1>3, StoreTypes, RecordOnlyTypes, Zenon DEF TypeInv

\* Making a staging place keeps the shelf's type.
LEMMA StageCreateTypes ==
    ASSUME TypeOK, NEW u \in UploadIds
    PROVE  StageCreate(u) \in [UploadIds -> Nat \cup {None}]
BY DEF TypeOK, StageCreate

\* Dropping tickets leaves a table of tickets.
LEMMA DropTicketsType ==
    ASSUME TypeOK, NEW uploads
    PROVE  DropTickets(uploads) \in [UploadIds -> Ticket \cup {None}]
BY RecordTypes DEF DropTickets

\* beginUpload keeps the types, in each of its three answers.
LEMMA BeginUploadTypes ==
    ASSUME TypeInv, NEW c \in ApiKeys, NEW r \in Request, BeginUpload(c, r)
    PROVE  TypeInv'
<1> USE DEF TypeInv
<1>1. Committed' /\ staging' \in [UploadIds -> Nat \cup {None}] /\ issued' \subseteq UploadIds
  <2>1. CASE AnswerStored(c, r)
    <3> DEFINE record == [rec EXCEPT !.tickets = DropTickets(TicketsOf(c, r))]
    <3>1. record \in WorkspaceRecord
      BY DropTicketsType DEF TypeOK, WorkspaceRecord
    <3>2. TicketsOf(c, r) \in SUBSET UploadIds
      BY DEF TicketsOf
    <3>3. Store(record, {}, TicketsOf(c, r)) /\ UNCHANGED <<staging, issued>>
      BY <2>1, Zenon DEF AnswerStored
    <3> HIDE DEF record
    <3>4. QED
      BY <3>1, <3>2, <3>3, StoreTypes, Zenon DEF TypeOK
  <2>2. CASE AnswerTicket(c, r)
    <3>1. PICK u \in UploadIds : staging' = StageCreate(u)
      BY <2>2 DEF AnswerTicket, TicketsOf
    <3>2. Store(rec, {}, {}) /\ UNCHANGED issued
      BY <2>2, Zenon DEF AnswerTicket
    <3>3. QED
      BY <3>1, <3>2, StageCreateTypes, StoreTypes, Zenon DEF TypeOK
  <2>3. CASE IssueTicket(c, r)
    <3> DEFINE ticket == [owner |-> c, request |-> r, expires_at |-> now + StagingSecs]
    <3>1. PICK u \in UploadIds : /\ staging' = StageCreate(u)
                                 /\ issued' = issued \cup {u}
                                 /\ \/ Store([rec EXCEPT !.tickets[u] = ticket], {}, {})
                                    \/ NotStored
      BY <2>3, Zenon DEF IssueTicket
    <3> DEFINE record == [rec EXCEPT !.tickets[u] = ticket]
    <3>2. record \in WorkspaceRecord
      <4>1. ticket \in Ticket
        BY LimitsAssumption DEF TypeOK, Ticket
      <4> HIDE DEF ticket
      <4>2. QED
        BY <4>1 DEF TypeOK, WorkspaceRecord
    <3>25. Store(record, {}, {}) \/ NotStored
      BY <3>1
    <3> HIDE DEF record
    <3>3. Committed'
      BY <3>25, <3>2, StoreTypes, NotStoredTypes, Zenon
    <3>4. staging' \in [UploadIds -> Nat \cup {None}] /\ issued' \subseteq UploadIds
      BY <3>1, StageCreateTypes DEF TypeOK
    <3>5. QED
      BY <3>3, <3>4
  <2>4. QED
    BY <2>1, <2>2, <2>3 DEF BeginUpload
<1>2. UNCHANGED <<gens, now, answers>>
  BY DEF BeginUpload
<1>3. TypeOK' /\ FiniteShelf'
  BY <1>1, <1>2, Zenon DEF TypeOK, FiniteShelf, Committed
<1>4. QED
  BY <1>3

\* putUploadContent keeps the types.
LEMMA PutUploadContentTypes ==
    ASSUME TypeInv, NEW c, NEW u \in UploadIds, PutUploadContent(c, u)
    PROVE  TypeInv'
<1>1. rec.tickets[u].request.item \in Item
  BY RecordTypes DEF TypeInv, PutUploadContent, LiveTicket, Ticket, Request
<1>2. staging' \in [UploadIds -> Nat \cup {None}]
  BY <1>1, SizeOfNat DEF TypeInv, TypeOK, PutUploadContent
<1>3. TypeOK' /\ FiniteShelf'
  BY <1>2, Zenon DEF TypeInv, TypeOK, FiniteShelf, PutUploadContent
<1>4. QED
  BY <1>3 DEF TypeInv

\* An upload that may go somewhere goes to a generation.
LEMMA UploadTargetType ==
    ASSUME TypeOK, NEW c, NEW r \in Request, MayUpload(c, r)
    PROVE  UploadTarget(r) \in Gens
<1>1. CASE r.in_rewrite
  <2>1. rec.session \in Session
    BY <1>1, RecordTypes DEF MayUpload, HeldSession
  <2>2. QED
    BY <1>1, <2>1 DEF UploadTarget, Session
<1>2. CASE ~r.in_rewrite
  BY <1>2, RecordTypes DEF UploadTarget
<1>3. QED
  BY <1>1, <1>2

\* Recording an upload's outcome keeps the types (finish_upload).
LEMMA FinishUploadTypes ==
    ASSUME TypeOK, NEW record \in WorkspaceRecord, NEW c \in ApiKeys, NEW u \in UploadIds,
           NEW outcome \in Outcome, FinishUpload(record, c, u, outcome)
    PROVE  Committed' /\ answers' \in [UploadIds -> SUBSET Outcome]
<1> DEFINE tombstone == [owner |-> c, outcome |-> outcome, expires_at |-> now + StagingSecs]
           final == [record EXCEPT !.tickets[u] = None, !.tombstones[u] = tombstone]
<1>1. tombstone \in Tombstone
  BY LimitsAssumption DEF TypeOK, Tombstone
<1>2. final \in WorkspaceRecord
  <2> HIDE DEF tombstone
  <2>1. QED
    BY <1>1 DEF WorkspaceRecord
<1>3. Store(final, {}, {u})
  BY Zenon DEF FinishUpload
<1>4. answers' = [answers EXCEPT ![u] = @ \cup {outcome}]
  BY Zenon DEF FinishUpload
<1> HIDE DEF final
<1>5. Committed'
  BY <1>2, <1>3, StoreTypes
<1>6. QED
  BY <1>4, <1>5 DEF TypeOK

\* Publishing an item keeps the shelf's type and its bytes finite.
LEMMA ShelfAdd ==
    ASSUME TypeInv, NEW g \in Gens, NEW item \in Item,
           gens' = [gens EXCEPT ![g] = @ \cup {item}]
    PROVE  gens' \in [Gens -> SUBSET Item] /\ FiniteShelf'
<1>1. IsFiniteSet(ByteSet(gens[g] \cup {item}))
  BY BytesAdd DEF TypeInv, FiniteShelf
<1>2. QED
  BY <1>1 DEF TypeInv, TypeOK, FiniteShelf

\* commitUpload keeps the types, in each of its four outcomes.
LEMMA CommitUploadTypes ==
    ASSUME TypeInv, NEW c \in ApiKeys, NEW u \in UploadIds, CommitUpload(c, u)
    PROVE  TypeInv'
<1> DEFINE r == rec.tickets[u].request
           g == UploadTarget(r)
           Shelved == /\ gens' \in [Gens -> SUBSET Item]
                      /\ FiniteShelf'
                      /\ staging' \in [UploadIds -> Nat \cup {None}]
                      /\ answers' \in [UploadIds -> SUBSET Outcome]
<1>0. TypeOK
  BY DEF TypeInv
<1>1. ASSUME ReplayCommit(c, u) PROVE Committed' /\ Shelved
  <2>1. Store(rec, {}, {}) /\ UNCHANGED <<gens, staging>>
    BY <1>1, Zenon DEF ReplayCommit
  <2>2. rec.tombstones[u].outcome \in Outcome
    BY <1>0, <1>1, RecordTypes DEF ReplayCommit, LiveTombstone, Tombstone
  <2>3. answers' \in [UploadIds -> SUBSET Outcome]
    BY <1>1, <2>2 DEF TypeInv, TypeOK, ReplayCommit
  <2>4. Committed'
    BY <1>0, <2>1, StoreTypes, Zenon DEF TypeOK
  <2>5. QED
    BY <2>1, <2>3, <2>4, Zenon DEF TypeInv, TypeOK, FiniteShelf
<1>2. ASSUME LiveTicket(c, u), MayUpload(c, r)
      PROVE  r \in Request /\ r.item \in Item /\ g \in Gens
  <2>1. r \in Request
    BY <1>0, <1>2, RecordTypes DEF LiveTicket, Ticket
  <2>2. QED
    BY <1>0, <1>2, <2>1, UploadTargetType DEF Request
<1> HIDE DEF r, g
<1>3. ASSUME r \in Request, r.item \in Item, g \in Gens, RecoverCommit(c, u, r, g)
      PROVE  Committed' /\ Shelved
  <2> DEFINE record == [rec EXCEPT !.used[g] = BytesOf(gens[g])]
             outcome == [item |-> r.item, created |-> TRUE, staged |-> r.in_rewrite]
  <2>1. record \in WorkspaceRecord
    <3>1. BytesOf(gens[g]) \in Nat
      BY <1>3, BytesNat DEF TypeInv, FiniteShelf
    <3>2. QED
      BY <1>0, <1>3, <3>1 DEF TypeOK, WorkspaceRecord
  <2>2. outcome \in Outcome
    BY <1>3 DEF Outcome, Request
  <2>3. FinishUpload(record, c, u, outcome) /\ UNCHANGED <<gens, staging>>
    BY <1>3, Zenon DEF RecoverCommit
  <2> HIDE DEF record, outcome
  <2>4. Committed' /\ answers' \in [UploadIds -> SUBSET Outcome]
    BY <1>0, <2>1, <2>2, <2>3, FinishUploadTypes
  <2>5. QED
    BY <2>3, <2>4, Zenon DEF TypeInv, TypeOK, FiniteShelf
<1>4. ASSUME r \in Request, r.item \in Item, g \in Gens, RejectDuplicate(c, u, r, g)
      PROVE  Committed' /\ Shelved
  <2>1. PICK stored \in FindIn(g, r.item) :
           FinishUpload(rec, c, u, [item |-> stored, created |-> FALSE, staged |-> r.in_rewrite])
    BY <1>4, Zenon DEF RejectDuplicate
  <2> DEFINE outcome == [item |-> stored, created |-> FALSE, staged |-> r.in_rewrite]
  <2>2. stored \in Item
    BY <1>0, <1>4 DEF TypeOK, FindIn, Same
  <2>3. outcome \in Outcome
    BY <1>4, <2>2 DEF Outcome, Request
  <2>4. FinishUpload(rec, c, u, outcome)
    BY <2>1
  <2> HIDE DEF outcome
  <2>5. Committed' /\ answers' \in [UploadIds -> SUBSET Outcome]
    BY <1>0, <2>3, <2>4, FinishUploadTypes DEF TypeOK
  <2>6. UNCHANGED <<gens, staging>>
    BY <1>4 DEF RejectDuplicate
  <2>7. QED
    BY <2>5, <2>6, Zenon DEF TypeInv, TypeOK, FiniteShelf
<1>5. ASSUME r \in Request, r.item \in Item, g \in Gens, Publish(c, u, r, g)
      PROVE  Committed' /\ Shelved
  <2> DEFINE record == [rec EXCEPT !.used[g] = @ + SizeOf(r.item)]
             outcome == [item |-> r.item, created |-> TRUE, staged |-> r.in_rewrite]
  <2>1. record \in WorkspaceRecord
    <3>1. SizeOf(r.item) \in Nat
      BY <1>5, SizeOfNat
    <3>2. QED
      BY <1>0, <1>5, <3>1 DEF TypeOK, WorkspaceRecord
  <2>2. outcome \in Outcome
    BY <1>5 DEF Outcome, Request
  <2>3. \/ FinishUpload(record, c, u, outcome)
        \/ NotStored /\ UNCHANGED answers
    BY <1>5, Zenon DEF Publish
  <2> HIDE DEF record, outcome
  <2>4. Committed' /\ answers' \in [UploadIds -> SUBSET Outcome]
    <3>1. CASE FinishUpload(record, c, u, outcome)
      BY <1>0, <2>1, <2>2, <3>1, FinishUploadTypes
    <3>2. CASE NotStored /\ UNCHANGED answers
      BY <1>0, <3>2, NotStoredTypes, Zenon DEF TypeOK
    <3>3. QED
      BY <2>3, <3>1, <3>2
  <2>5. gens' \in [Gens -> SUBSET Item] /\ FiniteShelf'
    BY <1>5, ShelfAdd DEF Publish
  <2>6. staging' \in [UploadIds -> Nat \cup {None}]
    BY <1>0, <1>5 DEF TypeOK, Publish
  <2>7. QED
    BY <2>4, <2>5, <2>6
<1>6. Committed' /\ Shelved
  <2> HIDE DEF Shelved
  <2>1. CASE ReplayCommit(c, u)
    BY <1>1, <2>1
  <2>2. CASE /\ LiveTicket(c, u)
             /\ MayUpload(c, r)
             /\ \/ RecoverCommit(c, u, r, g)
                \/ RejectDuplicate(c, u, r, g)
                \/ Publish(c, u, r, g)
    BY <1>2, <1>3, <1>4, <1>5, <2>2
  <2>3. QED
    BY <2>1, <2>2, Zenon DEF CommitUpload, r, g
<1>7. UNCHANGED <<now, issued>>
  BY DEF CommitUpload
<1>8. TypeOK'
  BY <1>0, <1>6, <1>7, Zenon DEF TypeOK, Committed
<1>9. QED
  BY <1>6, <1>8 DEF TypeInv

\* abortUpload keeps the types.
LEMMA AbortUploadTypes ==
    ASSUME TypeInv, NEW c, NEW u \in UploadIds, AbortUpload(c, u)
    PROVE  TypeInv'
<1> DEFINE record == [rec EXCEPT !.tickets[u] = None]
<1>1. record \in WorkspaceRecord
  BY DEF TypeInv, TypeOK, WorkspaceRecord
<1>2. Store(record, {}, {u}) /\ RecordOnly
  BY Zenon DEF AbortUpload, RecordOnly
<1> HIDE DEF record
<1>3. Committed'
  BY <1>1, <1>2, StoreTypes DEF TypeInv
<1>4. QED
  BY <1>2, <1>3, RecordOnlyTypes

\* probeWrite keeps the types.
LEMMA ProbeWriteTypes ==
    ASSUME TypeInv, NEW c, ProbeWrite(c)
    PROVE  TypeInv'
<1>1. PICK u \in UploadIds : issued' = issued \cup {u} /\ staging' = StageCreate(u)
  BY DEF ProbeWrite
<1>2. issued' \subseteq UploadIds /\ staging' \in [UploadIds -> Nat \cup {None}]
  BY <1>1, StageCreateTypes DEF TypeInv, TypeOK
<1>3. Committed' /\ UNCHANGED <<gens, now, answers>>
  BY NotStoredTypes DEF ProbeWrite, TypeInv
<1>4. TypeOK' /\ FiniteShelf'
  BY <1>2, <1>3, Zenon DEF TypeInv, TypeOK, FiniteShelf, Committed
<1>5. QED
  BY <1>4 DEF TypeInv

\* Renewing a lease or passing it on keeps the types (renew_lease).
LEMMA RenewLeaseTypes ==
    ASSUME TypeInv, NEW c \in ApiKeys, rec.session # None, Store(RenewLease(c), {}, {}), RecordOnly
    PROVE  TypeInv'
<1> DEFINE session == [rec.session EXCEPT !.holder = c, !.lease_expires_at = now + LeaseSecs]
<1>1. session \in Session
  <2>1. rec.session \in Session /\ now + LeaseSecs \in Nat
    BY RecordTypes, LimitsAssumption DEF TypeInv, TypeOK
  <2>2. QED
    BY <2>1 DEF Session
<1>2. RenewLease(c) \in WorkspaceRecord
  <2>1. [rec EXCEPT !.session = session] \in WorkspaceRecord
    <3> HIDE DEF session
    <3>1. QED
      BY <1>1 DEF TypeInv, TypeOK, WorkspaceRecord
  <2>2. RenewLease(c) = [rec EXCEPT !.session = session]
    BY DEF RenewLease, TypeInv, TypeOK, WorkspaceRecord
  <2>3. QED
    BY <2>1, <2>2, Zenon
<1> DEFINE record == RenewLease(c)
<1>3. record \in WorkspaceRecord /\ Store(record, {}, {})
  BY <1>2
<1> HIDE DEF record
<1>4. QED
  BY <1>3, StoreTypes, RecordOnlyTypes, Zenon DEF TypeInv

\* Opening a rewrite session keeps the types.
LEMMA OpenSessionTypes ==
    ASSUME TypeInv, NEW c \in ApiKeys, NEW kind \in RewriteKind, NEW expected,
           NEW key \in DataKeys, NEW words \in Words,
           OpenSession(c, kind, expected, key, words), RecordOnly
    PROVE  TypeInv'
<1> DEFINE session == [kind |-> kind, next |-> SealUnder(key, words), holder |-> c,
                       lease_expires_at |-> now + LeaseSecs,
                       staged_generation |-> rec.next_generation]
           record == [rec EXCEPT !.next_generation = @ + 1, !.session = session]
<1>1. session \in Session
  <2>1. rec.next_generation \in Gens
    BY RecordTypes, BoundsAssumption DEF TypeInv, OpenSession, Gens
  <2>2. QED
    BY <2>1, SealUnderType, LimitsAssumption DEF TypeInv, TypeOK, Session
<1>2. Store(record, {}, {})
  BY Zenon DEF OpenSession
<1>3. record \in WorkspaceRecord
  <2> DEFINE next == rec.next_generation + 1
  <2>1. next \in Nat
    BY RecordTypes DEF TypeInv
  <2> HIDE DEF session, next
  <2>2. [rec EXCEPT !.next_generation = next, !.session = session] \in WorkspaceRecord
    BY <1>1, <2>1 DEF TypeInv, TypeOK, WorkspaceRecord
  <2>3. QED
    BY <2>2 DEF next
<1> HIDE DEF record
<1>4. QED
  BY <1>2, <1>3, StoreTypes, RecordOnlyTypes, Zenon DEF TypeInv

\* beginRewrite keeps the types, sent first and sent again.
LEMMA BeginRewriteTypes ==
    ASSUME TypeInv, NEW c \in ApiKeys, NEW kind \in RewriteKind, NEW expected,
           NEW key \in DataKeys, NEW words \in Words,
           BeginRewrite(c, kind, expected, key, words)
    PROVE  TypeInv'
BY RenewLeaseTypes, OpenSessionTypes, Zenon DEF BeginRewrite, ReplayBegin, HeldSession

\* The uploads of a rewrite are uploads.
LEMMA RewriteUploadsType == RewriteUploads \in SUBSET UploadIds
BY DEF RewriteUploads

\* commitRewrite keeps the types.
LEMMA CommitRewriteTypes ==
    ASSUME TypeInv, NEW c \in ApiKeys, NEW key \in DataKeys, CommitRewrite(c, key)
    PROVE  TypeInv'
<1> DEFINE tickets == DropTickets(RewriteUploads)
           staged == rec.session.staged_generation
           next == rec.session.next
           old == rec.generation
           record == [rec EXCEPT !.generation = staged, !.seal = next, !.session = None,
                                 !.used[old] = 0, !.tickets = tickets]
<1>1. Store(record, {old}, RewriteUploads) /\ RecordOnly
  BY Zenon DEF CommitRewrite
<1>2. rec.session \in Session
  BY RecordTypes DEF TypeInv, CommitRewrite, HeldSession
<1>3. staged \in Gens /\ next \in Seal /\ old \in Gens
  BY <1>2, RecordTypes DEF TypeInv, Session
<1>4. tickets \in [UploadIds -> Ticket \cup {None}]
  BY DropTicketsType DEF TypeInv
<1> HIDE DEF tickets, staged, next, old
<1>5. record \in WorkspaceRecord
  BY <1>3, <1>4 DEF TypeInv, TypeOK, WorkspaceRecord
<1> HIDE DEF record
<1>6. {old} \in SUBSET Gens
  BY <1>3
<1>7. Committed'
  BY <1>1, <1>5, <1>6, RewriteUploadsType, StoreTypes, Zenon DEF TypeInv
<1>8. QED
  BY <1>1, <1>7, RecordOnlyTypes

\* Every abort of a rewrite keeps the types (end_aborted).
LEMMA EndAbortedTypes ==
    ASSUME TypeInv, rec.session # None, EndAborted
    PROVE  TypeInv'
<1> DEFINE tickets == DropTickets(RewriteUploads)
           staged == rec.session.staged_generation
           ended == rec.session.next.key
           record == [rec EXCEPT !.ended_rewrites = @ \cup {ended}, !.session = None,
                                 !.used[staged] = 0, !.tickets = tickets]
<1>1. Store(record, {staged}, RewriteUploads) /\ RecordOnly
  BY Zenon DEF EndAborted
<1>2. rec.session \in Session
  BY RecordTypes DEF TypeInv
<1>3. staged \in Gens /\ ended \in DataKeys
  BY <1>2 DEF Session, Seal
<1>4. tickets \in [UploadIds -> Ticket \cup {None}]
  BY DropTicketsType DEF TypeInv
<1> HIDE DEF tickets, staged, ended
<1>5. record \in WorkspaceRecord
  BY <1>3, <1>4 DEF TypeInv, TypeOK, WorkspaceRecord
<1> HIDE DEF record
<1>6. {staged} \in SUBSET Gens
  BY <1>3
<1>7. Committed'
  BY <1>1, <1>5, <1>6, RewriteUploadsType, StoreTypes, Zenon DEF TypeInv
<1>8. QED
  BY <1>1, <1>7, RecordOnlyTypes

\* The rule clean_staging keeps the types, on the record as it is or recounted.
LEMMA CleanStagingTypes ==
    ASSUME TypeInv, NEW used \in [Gens -> Nat],
           CleanStagingOf([rec EXCEPT !.used = used]), RecordOnly
    PROVE  TypeInv'
<1> DEFINE tickets == [u \in UploadIds |-> IF LiveTickets(u) THEN rec.tickets[u] ELSE None]
           tombstones == [u \in UploadIds |-> IF LiveTombstones(u) THEN rec.tombstones[u] ELSE None]
           kept == [g \in Gens |-> IF g \in Rubbish THEN 0 ELSE used[g]]
           record == [rec EXCEPT !.tickets = tickets, !.tombstones = tombstones, !.used = kept]
<1>1. Store(record, Rubbish, Orphans)
  BY DEF CleanStagingOf, TypeInv, TypeOK, WorkspaceRecord
<1>2. tickets \in [UploadIds -> Ticket \cup {None}]
  BY RecordTypes DEF TypeInv
<1>3. tombstones \in [UploadIds -> Tombstone \cup {None}]
  BY RecordTypes DEF TypeInv
<1>4. kept \in [Gens -> Nat]
  OBVIOUS
<1> HIDE DEF tickets, tombstones, kept
<1>5. record \in WorkspaceRecord
  BY <1>2, <1>3, <1>4 DEF TypeInv, TypeOK, WorkspaceRecord
<1> HIDE DEF record
<1>6. Rubbish \in SUBSET Gens /\ Orphans \in SUBSET UploadIds
  BY DEF Rubbish, Orphans
<1>7. QED
  BY <1>1, <1>5, <1>6, StoreTypes, RecordOnlyTypes, Zenon DEF TypeInv

\* Housekeeping, kills, and the clock keep the types.
LEMMA HousekeepingTypes ==
    ASSUME TypeInv, Housekeeping
    PROVE  TypeInv'
<1>0. TypeOK /\ FiniteShelf
  BY DEF TypeInv
<1>1. ASSUME NEW force \in BOOLEAN, OperatorAbortRewrite(force) PROVE TypeInv'
  BY <1>1, EndAbortedTypes, Zenon DEF OperatorAbortRewrite
<1>2. CASE CleanStaging
  <2> DEFINE used == rec.used
  <2>1. used \in [Gens -> Nat] /\ rec = [rec EXCEPT !.used = used]
    BY <1>0 DEF TypeOK, WorkspaceRecord
  <2>2. CleanStagingOf(rec) /\ RecordOnly
    BY <1>2, Zenon DEF CleanStaging
  <2> HIDE DEF used
  <2>3. CleanStagingOf([rec EXCEPT !.used = used])
    BY <2>1, <2>2, Zenon
  <2>4. QED
    BY <2>1, <2>2, <2>3, CleanStagingTypes
<1>3. CASE Open
  <2> DEFINE counted == [g \in Gens |-> IF g \in LiveGenerations THEN BytesOf(gens[g])
                                                                 ELSE rec.used[g]]
  <2>1. CleanStagingOf([rec EXCEPT !.used = counted]) /\ RecordOnly
    BY <1>3, Zenon DEF Open
  <2>2. counted \in [Gens -> Nat]
    <3>1. \A g \in Gens : BytesOf(gens[g]) \in Nat
      BY <1>0, BytesNat DEF FiniteShelf
    <3>2. QED
      BY <1>0, <3>1, RecordTypes
  <2> HIDE DEF counted
  <2>3. QED
    BY <2>1, <2>2, CleanStagingTypes
<1>4. ASSUME NEW g \in Gens, DropGeneration(g) PROVE TypeInv'
  <2>1. gens' \in [Gens -> SUBSET Item] /\ dropping' \subseteq Gens
    BY <1>0, <1>4 DEF TypeOK, DropGeneration
  <2>2. FiniteShelf'
    BY <1>0, <1>4, NoBytes DEF TypeOK, FiniteShelf, DropGeneration
  <2>3. TypeOK'
    BY <1>0, <1>4, <2>1, Zenon DEF TypeOK, DropGeneration
  <2>4. QED
    BY <2>2, <2>3 DEF TypeInv
<1>5. ASSUME NEW u \in UploadIds, RemoveStaging(u) PROVE TypeInv'
  <2>1. staging' \in [UploadIds -> Nat \cup {None}] /\ removing' \subseteq UploadIds
    BY <1>0, <1>5 DEF TypeOK, RemoveStaging
  <2>2. TypeOK' /\ FiniteShelf'
    BY <1>0, <1>5, <2>1, Zenon DEF TypeOK, FiniteShelf, RemoveStaging
  <2>3. QED
    BY <2>2 DEF TypeInv
<1>6. CASE CleanupFails
  <2>1. dropping' \subseteq Gens /\ removing' \subseteq UploadIds /\ faults' \in Nat
    BY <1>0, <1>6 DEF TypeOK, CleanupFails
  <2>2. TypeOK' /\ FiniteShelf'
    BY <1>0, <1>6, <2>1, Zenon DEF TypeOK, FiniteShelf, CleanupFails
  <2>3. QED
    BY <2>2 DEF TypeInv
<1>7. CASE Kill
  <2>1. faults' \in Nat
    BY <1>0, <1>7 DEF TypeOK, Kill
  <2>2. TypeOK' /\ FiniteShelf'
    BY <1>0, <1>7, <2>1, Zenon DEF TypeOK, FiniteShelf, Kill
  <2>3. QED
    BY <2>2 DEF TypeInv
<1>8. CASE Tick
  <2>1. now' \in Nat
    BY <1>0, <1>8 DEF TypeOK, Tick
  <2>2. TypeOK' /\ FiniteShelf'
    BY <1>0, <1>8, <2>1, Zenon DEF TypeOK, FiniteShelf, Tick
  <2>3. QED
    BY <2>2 DEF TypeInv
<1>9. QED
  BY <1>1, <1>2, <1>3, <1>4, <1>5, <1>6, <1>7, <1>8 DEF Housekeeping

\* A new workspace is well typed.
LEMMA InitTypes == Init => TypeInv
<1>1. NewRecord \in WorkspaceRecord
  BY BoundsAssumption DEF NewRecord, WorkspaceRecord, Gens
<1>2. SUFFICES ASSUME Init PROVE TypeOK /\ FiniteShelf
  BY DEF TypeInv
<1>3. TypeOK
  BY <1>1, <1>2 DEF Init, TypeOK
<1>4. FiniteShelf
  BY <1>2, NoBytes DEF Init, FiniteShelf
<1>5. QED
  BY <1>3, <1>4

\* Every step keeps the types.
LEMMA StepTypes ==
    ASSUME TypeInv, [Next]_vars
    PROVE  TypeInv'
<1>1. ASSUME NEW c \in ApiKeys, UploadOperation(c) PROVE TypeInv'
  BY <1>1, BeginUploadTypes, PutUploadContentTypes, CommitUploadTypes, AbortUploadTypes,
     ProbeWriteTypes, Zenon DEF UploadOperation
<1>2. ASSUME NEW c \in ApiKeys, EncryptionOperation(c) PROVE TypeInv'
  BY <1>2, DeleteItemTypes, EnableEncryptionTypes, FreshStartTypes, ReplaceHeaderTypes, Zenon
     DEF EncryptionOperation
<1>3. ASSUME NEW c \in ApiKeys, RewriteOperation(c) PROVE TypeInv'
  BY <1>3, BeginRewriteTypes, RenewLeaseTypes, CommitRewriteTypes, EndAbortedTypes, Zenon
     DEF RewriteOperation, HeartbeatRewrite, TakeOverRewrite, AbortRewrite, HeldSession
<1>4. CASE UNCHANGED vars
  BY <1>4, Zenon DEF vars, TypeInv, TypeOK, FiniteShelf
<1>5. QED
  BY <1>1, <1>2, <1>3, <1>4, HousekeepingTypes, Zenon DEF Next

\* Every variable keeps its type.
THEOREM TypeCorrect == Spec => []TypeOK
<1>1. TypeInv => TypeOK
  BY DEF TypeInv
<1>2. QED
  BY <1>1, InitTypes, StepTypes, PTL DEF Spec

-----------------------------------------------------------------------------
(* The safety of the items. *)

Shelved ==
    /\ GenerationsNeverReused
    /\ dropping \cap LiveGenerations = {}
    /\ ItemsUnderTheirKey
    /\ ContentStoredOnce

\* What a step that moves no pointer leaves as it was.
Steady ==
    /\ rec'.generation = rec.generation
    /\ rec'.plain = rec.plain
    /\ rec'.next_generation = rec.next_generation
    /\ KeyOf(rec'.seal) = KeyOf(rec.seal)
    /\ rec'.ended_rewrites = rec.ended_rewrites
    /\ rec.session = None <=> rec'.session = None
    /\ rec.session # None => /\ rec'.session.next = rec.session.next
                             /\ rec'.session.staged_generation = rec.session.staged_generation

\* A steady step leaves the record's pointers where they were.
LEMMA SteadyLive ==
    ASSUME Steady
    PROVE  LiveGenerations' = LiveGenerations
BY Zenon DEF Steady, LiveGenerations

\* What the record points to are generations.
LEMMA LiveTypes ==
    ASSUME TypeOK
    PROVE  LiveGenerations \subseteq Gens
<1>1. rec.session # None => rec.session.staged_generation \in Gens
  BY RecordTypes DEF Session
<1>2. QED
  BY <1>1, RecordTypes DEF LiveGenerations

\* A steady step may take items away and may owe the removal of generations that
\* nothing points to.
LEMMA SteadyShelved ==
    ASSUME TypeOK, Shelved, Steady,
           \A g \in Gens : gens'[g] \subseteq gens[g],
           NEW rubbish \in SUBSET Gens,
           dropping' \subseteq dropping \cup rubbish,
           rubbish \cap LiveGenerations = {},
           \A g \in rubbish : g < rec.next_generation
    PROVE  Shelved'
<1>1. LiveGenerations' = LiveGenerations /\ LiveGenerations \subseteq Gens
  BY SteadyLive, LiveTypes
<1>2. GenerationsNeverReused'
  BY <1>1 DEF Shelved, GenerationsNeverReused, Steady
<1>3. (dropping \cap LiveGenerations = {})'
  BY <1>1 DEF Shelved
<1>4. ItemsUnderTheirKey'
  <2>1. /\ rec.generation \in Gens
        /\ rec.plain # None => rec.plain \in Gens
        /\ rec.session # None => rec.session.staged_generation \in Gens
    BY <1>1, Zenon DEF LiveGenerations
  <2>2. QED
    BY <2>1 DEF Shelved, ItemsUnderTheirKey, Steady
<1>5. ContentStoredOnce'
  BY <1>1 DEF Shelved, ContentStoredOnce
<1>6. QED
  BY <1>2, <1>3, <1>4, <1>5 DEF Shelved

\* A commit adds an item, under the key of the generation it goes to, whose content
\* is not there yet.
LEMMA AddShelved ==
    ASSUME TypeOK, Shelved, Steady, dropping' \subseteq dropping,
           NEW c, NEW r \in Request, MayUpload(c, r),
           Same(UploadTarget(r), r.item) = {},
           gens' = [gens EXCEPT ![UploadTarget(r)] = @ \cup {r.item}]
    PROVE  Shelved'
<1> DEFINE g == UploadTarget(r)
<1>1. LiveGenerations' = LiveGenerations /\ LiveGenerations \subseteq Gens
  BY SteadyLive, LiveTypes
<1>2. /\ rec.generation \in Gens
      /\ rec.plain # None => rec.plain \in Gens
      /\ rec.session # None => rec.session.staged_generation \in Gens
  BY <1>1, Zenon DEF LiveGenerations
<1>3. g \in LiveGenerations /\ g \in Gens
  BY <1>1, Zenon DEF UploadTarget, MayUpload, HeldSession, LiveGenerations
<1>4. \A h \in Gens : gens'[h] = IF h = g THEN gens[g] \cup {r.item} ELSE gens[h]
  BY DEF TypeOK
<1>5. GenerationsNeverReused'
  <2> HIDE DEF g
  <2>1. rec.next_generation \in Nat /\ g \in Nat /\ g < rec.next_generation
    BY <1>3, RecordTypes, BoundsAssumption DEF Gens, Shelved, GenerationsNeverReused
  <2>2. \A h \in Gens : h >= rec.next_generation => h # g /\ gens'[h] = {}
    BY <1>3, <1>4, <2>1, BoundsAssumption DEF Shelved, GenerationsNeverReused, Gens
  <2>3. QED
    BY <1>1, <2>2 DEF Shelved, GenerationsNeverReused, Steady
<1>6. (dropping \cap LiveGenerations = {})'
  BY <1>1 DEF Shelved
<1>7. ItemsUnderTheirKey'
  <2>1. CASE r.in_rewrite
    <3>1. /\ rec.session # None /\ rec.session.next.key = r.item.under
          /\ g = rec.session.staged_generation
          /\ g # rec.generation /\ g # rec.plain
      BY <2>1 DEF MayUpload, HeldSession, UploadTarget, Shelved, GenerationsNeverReused
    <3> HIDE DEF g
    <3>2. QED
      BY <1>2, <1>3, <1>4, <3>1 DEF Shelved, ItemsUnderTheirKey, Steady
  <2>2. CASE ~r.in_rewrite
    <3>1. /\ rec.session = None /\ KeyOf(rec.seal) = r.item.under
          /\ g = rec.generation /\ g # rec.plain
      BY <2>2 DEF MayUpload, CheckWritable, UploadTarget, Shelved, GenerationsNeverReused
    <3> HIDE DEF g
    <3>2. QED
      BY <1>2, <1>3, <1>4, <3>1 DEF Shelved, ItemsUnderTheirKey, Steady
  <2>3. QED
    BY <2>1, <2>2
<1>8. ContentStoredOnce'
  <2> HIDE DEF g
  <2>1. \A i \in gens[g] : ~SameContent(i, r.item) /\ ~SameContent(r.item, i)
    BY DEF Same, SameContent, g
  <2>2. QED
    BY <1>1, <1>3, <1>4, <2>1 DEF Shelved, ContentStoredOnce
<1>9. QED
  BY <1>5, <1>6, <1>7, <1>8 DEF Shelved

-----------------------------------------------------------------------------
(* Uploads. *)

Ticketed ==
    /\ \A u \in UploadIds :
          rec.tickets[u] # None \/ staging[u] # None \/ u \in removing => u \in issued
    /\ \A u \in removing : rec.tickets[u] = None
    /\ RewriteUploadsBelongToTheSession

\* A steady step may end uploads, and may owe the removal of the staging places of
\* uploads that have ended.
LEMMA SteadyTicketed ==
    ASSUME TypeOK, TypeOK', Ticketed, Steady, issued \subseteq issued',
           \A u \in UploadIds : rec'.tickets[u] \in {rec.tickets[u], None},
           \A u \in UploadIds : staging'[u] # None => staging[u] # None \/ u \in issued',
           \A u \in removing' :
              \/ u \in removing
              \/ (rec.tickets[u] # None \/ staging[u] # None) /\ rec'.tickets[u] = None
    PROVE  Ticketed'
<1>1. \A u \in UploadIds :
          (rec'.tickets[u] # None \/ staging'[u] # None \/ u \in removing') => u \in issued'
  BY DEF Ticketed, TypeOK
<1>2. \A u \in removing' : rec'.tickets[u] = None
  BY DEF Ticketed, TypeOK
<1>3. RewriteUploadsBelongToTheSession'
  <2>1. RewriteUploads' \subseteq RewriteUploads /\ \A u \in RewriteUploads' : rec'.tickets[u] = rec.tickets[u]
    BY Zenon DEF RewriteUploads
  <2>2. QED
    BY <2>1, Zenon DEF Ticketed, RewriteUploadsBelongToTheSession, Steady
<1>4. QED
  BY <1>1, <1>2, <1>3 DEF Ticketed

-----------------------------------------------------------------------------
(* The steps that move no pointer. *)

SafetyInv ==
    /\ TypeInv
    /\ Shelved
    /\ Ticketed
    /\ HeaderWrapsTheKey

KeepsPointers ==
    /\ rec'.generation = rec.generation
    /\ rec'.plain = rec.plain
    /\ rec'.next_generation = rec.next_generation
    /\ rec'.seal = rec.seal
    /\ rec'.session = rec.session
    /\ rec'.ended_rewrites = rec.ended_rewrites

\* A step that keeps the record's pointers is steady.
LEMMA KeepsPointersSteady ==
    ASSUME KeepsPointers, HeaderWrapsTheKey
    PROVE  Steady /\ HeaderWrapsTheKey'
BY Zenon DEF KeepsPointers, Steady, HeaderWrapsTheKey

\* Nothing new on the shelf, and nothing new to drop.
LEMMA QuietShelved ==
    ASSUME TypeOK, Shelved, Steady, dropping' \subseteq dropping,
           \A g \in Gens : gens'[g] \subseteq gens[g]
    PROVE  Shelved'
<1> DEFINE rubbish == {}
<1>1. /\ rubbish \in SUBSET Gens /\ dropping' \subseteq dropping \cup rubbish
      /\ rubbish \cap LiveGenerations = {} /\ \A g \in rubbish : g < rec.next_generation
  OBVIOUS
<1> HIDE DEF rubbish
<1>2. QED
  BY <1>1, SteadyShelved, Zenon

\* No new ticket, staging place, or removal.
LEMMA QuietTicketed ==
    ASSUME TypeOK, TypeOK', Ticketed, Steady, UNCHANGED issued,
           \A u \in UploadIds : rec'.tickets[u] = rec.tickets[u],
           \A u \in UploadIds : staging'[u] # None => staging[u] # None,
           removing' \subseteq removing
    PROVE  Ticketed'
BY SteadyTicketed, Zenon

\* A rule whose record is not stored is steady and owes nothing new.
LEMMA NotStoredKeeps ==
    ASSUME TypeOK, NotStored
    PROVE  /\ KeepsPointers
           /\ rec'.tickets = rec.tickets
           /\ dropping' \subseteq dropping
           /\ removing' \subseteq removing
BY Zenon DEF NotStored, KeepsPointers

\* deleteItem keeps the invariant, stored or not (delete_item).
LEMMA DeleteItemSafe ==
    ASSUME SafetyInv, NEW c \in ApiKeys, NEW partition, NEW item \in Item, NEW expected \in KeyIds,
           DeleteItem(c, partition, item, expected)
    PROVE  SafetyInv'
<1> DEFINE g == GenerationOf(partition)
           less == IF rec.used[g] < SizeOf(item) THEN 0 ELSE rec.used[g] - SizeOf(item)
           record == [rec EXCEPT !.used[g] = less]
<1>1. TypeInv' /\ TypeOK' /\ TypeOK
  BY DeleteItemTypes DEF SafetyInv, TypeInv
<1>2. /\ Store(record, {}, {}) \/ NotStored
      /\ gens' = [gens EXCEPT ![g] = @ \ {item}]
      /\ UNCHANGED <<staging, issued>>
  BY Zenon DEF DeleteItem
<1>3. /\ KeepsPointers
      /\ rec'.tickets = rec.tickets
      /\ dropping' \subseteq dropping
      /\ removing' \subseteq removing
  <2>1. CASE Store(record, {}, {})
    <3> HIDE DEF g, less
    <3>1. rec' = record /\ dropping' = dropping /\ removing' = removing
      BY <2>1 DEF Store
    <3>2. KeepsPointers /\ rec'.tickets = rec.tickets
      BY <1>1, <3>1 DEF TypeOK, WorkspaceRecord, KeepsPointers
    <3>3. QED
      BY <3>1, <3>2
  <2>2. CASE NotStored
    BY <1>1, <2>2, NotStoredKeeps
  <2>3. QED
    BY <1>2, <2>1, <2>2
<1>4. Steady /\ HeaderWrapsTheKey'
  BY <1>3, KeepsPointersSteady DEF SafetyInv
<1> HIDE DEF g
<1>5. Shelved'
  <2>1. \A h \in Gens : gens'[h] \subseteq gens[h]
    BY <1>1, <1>2 DEF TypeOK
  <2>2. QED
    BY <1>1, <1>3, <1>4, <2>1, QuietShelved DEF SafetyInv
<1>6. Ticketed'
  BY <1>1, <1>2, <1>3, <1>4, QuietTicketed, Zenon DEF SafetyInv
<1>7. QED
  BY <1>1, <1>4, <1>5, <1>6 DEF SafetyInv

\* The steps that change neither the record nor what the shelf holds.
LEMMA IdleSafe ==
    ASSUME SafetyInv, TypeInv', UNCHANGED <<rec, issued>>,
           dropping' \subseteq dropping, removing' \subseteq removing,
           \A g \in Gens : gens'[g] \subseteq gens[g],
           \A u \in UploadIds : staging'[u] # None => staging[u] # None
    PROVE  SafetyInv'
<1>1. TypeOK /\ TypeOK'
  BY DEF SafetyInv, TypeInv
<1>2. Steady /\ HeaderWrapsTheKey'
  BY KeepsPointersSteady, Zenon DEF SafetyInv, KeepsPointers
<1>3. Shelved'
  BY <1>1, <1>2, QuietShelved, Zenon DEF SafetyInv
<1>4. Ticketed'
  BY <1>1, <1>2, QuietTicketed, Zenon DEF SafetyInv
<1>5. QED
  BY <1>2, <1>3, <1>4 DEF SafetyInv

\* beginUpload of stored content keeps the invariant (begin_upload).
LEMMA AnswerStoredSafe ==
    ASSUME SafetyInv, TypeInv', NEW c \in ApiKeys, NEW r \in Request, AnswerStored(c, r),
           UNCHANGED gens
    PROVE  SafetyInv'
<1>1. TypeOK /\ TypeOK'
  BY DEF SafetyInv, TypeInv
<1> DEFINE tickets == DropTickets(TicketsOf(c, r))
<1>2. rec' = [rec EXCEPT !.tickets = tickets] /\ dropping' = dropping
      /\ removing' = removing \cup TicketsOf(c, r) /\ UNCHANGED <<staging, issued>>
  BY DEF AnswerStored, Store
<1>3. \A u \in UploadIds : tickets[u] = IF u \in TicketsOf(c, r) THEN None ELSE rec.tickets[u]
  BY DEF DropTickets
<1> HIDE DEF tickets
<1>4. KeepsPointers /\ rec'.tickets = tickets
  BY <1>1, <1>2 DEF TypeOK, WorkspaceRecord, KeepsPointers
<1>5. Steady /\ HeaderWrapsTheKey'
  BY <1>4, KeepsPointersSteady DEF SafetyInv
<1>6. Shelved'
  BY <1>1, <1>2, <1>5, QuietShelved DEF SafetyInv
<1>7. Ticketed'
  <2>1. \A u \in TicketsOf(c, r) : rec.tickets[u] # None /\ u \in UploadIds
    BY DEF TicketsOf
  <2>2. \A u \in UploadIds : rec'.tickets[u] \in {rec.tickets[u], None}
    BY <1>3, <1>4
  <2>3. \A u \in removing' :
           \/ u \in removing
           \/ (rec.tickets[u] # None \/ staging[u] # None) /\ rec'.tickets[u] = None
    BY <1>2, <1>3, <1>4, <2>1
  <2>4. QED
    BY <1>1, <1>2, <1>5, <2>2, <2>3, SteadyTicketed DEF SafetyInv
<1>8. QED
  BY <1>5, <1>6, <1>7 DEF SafetyInv

\* Making a staging place changes at most that one.
LEMMA StageCreateEffect ==
    ASSUME TypeOK, NEW u \in UploadIds, staging' = StageCreate(u)
    PROVE  \A v \in UploadIds : staging'[v] # None => staging[v] # None \/ v = u
BY DEF TypeOK, StageCreate

\* beginUpload that answers a live ticket keeps the invariant (begin_upload).
LEMMA AnswerTicketSafe ==
    ASSUME SafetyInv, TypeInv', NEW c \in ApiKeys, NEW r \in Request, AnswerTicket(c, r),
           UNCHANGED gens
    PROVE  SafetyInv'
<1>1. TypeOK /\ TypeOK'
  BY DEF SafetyInv, TypeInv
<1>2. rec' = rec /\ dropping' = dropping /\ removing' = removing /\ UNCHANGED issued
  BY DEF AnswerTicket, Store
<1>3. KeepsPointers /\ rec'.tickets = rec.tickets
  BY <1>2, Zenon DEF KeepsPointers
<1>4. Steady /\ HeaderWrapsTheKey'
  BY <1>3, KeepsPointersSteady DEF SafetyInv
<1>5. Shelved'
  BY <1>1, <1>2, <1>4, QuietShelved DEF SafetyInv
<1>6. Ticketed'
  <2>1. PICK u \in UploadIds : rec.tickets[u] # None /\ staging' = StageCreate(u)
    BY DEF AnswerTicket, TicketsOf
  <2>2. u \in issued
    BY <2>1 DEF SafetyInv, Ticketed
  <2>3. \A v \in UploadIds : staging'[v] # None => staging[v] # None \/ v \in issued'
    BY <1>1, <1>2, <2>1, <2>2, StageCreateEffect
  <2>4. QED
    BY <1>1, <1>2, <1>3, <1>4, <2>3, SteadyTicketed DEF SafetyInv
<1>7. QED
  BY <1>4, <1>5, <1>6 DEF SafetyInv

\* A staging place is made under a fresh id, and the ticket for it is not stored.
LEMMA StageFreshSafe ==
    ASSUME SafetyInv, TypeInv', NEW u \in UploadIds, issued' = issued \cup {u},
           staging' = StageCreate(u), NotStored, UNCHANGED gens
    PROVE  SafetyInv'
<1>1. TypeOK /\ TypeOK'
  BY DEF SafetyInv, TypeInv
<1>2. /\ KeepsPointers
      /\ rec'.tickets = rec.tickets
      /\ dropping' \subseteq dropping
      /\ removing' \subseteq removing
  BY <1>1, NotStoredKeeps
<1>3. Steady /\ HeaderWrapsTheKey'
  BY <1>2, KeepsPointersSteady DEF SafetyInv
<1>4. Shelved'
  BY <1>1, <1>2, <1>3, QuietShelved DEF SafetyInv
<1>5. Ticketed'
  <2>1. \A v \in UploadIds : staging'[v] # None => staging[v] # None \/ v \in issued'
    BY <1>1, StageCreateEffect
  <2>2. issued \subseteq issued'
    OBVIOUS
  <2>3. QED
    BY <1>1, <1>2, <1>3, <2>1, <2>2, SteadyTicketed DEF SafetyInv
<1>6. QED
  BY <1>3, <1>4, <1>5 DEF SafetyInv

\* A fresh id gets its ticket: no removal owed to an earlier upload is for it.
LEMMA TicketFreshSafe ==
    ASSUME SafetyInv, TypeInv', NEW c \in ApiKeys, NEW r \in Request, MayUpload(c, r),
           NEW u \in UploadIds \ issued, NEW ticket \in Ticket, ticket.request = r,
           issued' = issued \cup {u}, staging' = StageCreate(u),
           Store([rec EXCEPT !.tickets[u] = ticket], {}, {}), UNCHANGED gens
    PROVE  SafetyInv'
<1>1. TypeOK /\ TypeOK'
  BY DEF SafetyInv, TypeInv
<1>2. /\ rec' = [rec EXCEPT !.tickets[u] = ticket]
      /\ dropping' = dropping /\ removing' = removing
  BY DEF Store
<1>3. KeepsPointers /\ rec'.tickets = [rec.tickets EXCEPT ![u] = ticket]
  BY <1>1, <1>2 DEF TypeOK, WorkspaceRecord, KeepsPointers
<1>4. Steady /\ HeaderWrapsTheKey'
  BY <1>3, KeepsPointersSteady DEF SafetyInv
<1>5. Shelved'
  BY <1>1, <1>2, <1>4, QuietShelved DEF SafetyInv
<1>6. \A v \in UploadIds : rec'.tickets[v] = IF v = u THEN ticket ELSE rec.tickets[v]
  BY <1>1, <1>3, RecordTypes
<1>7. Ticketed'
  <2>1. \A v \in UploadIds :
            (rec'.tickets[v] # None \/ staging'[v] # None \/ v \in removing') => v \in issued'
    BY <1>1, <1>2, <1>6, StageCreateEffect DEF SafetyInv, Ticketed
  <2>2. \A v \in removing' : rec'.tickets[v] = None
    BY <1>1, <1>2, <1>6 DEF SafetyInv, Ticketed, TypeOK
  <2>3. RewriteUploadsBelongToTheSession'
    <3>1. ASSUME NEW v \in RewriteUploads'
          PROVE  rec'.session # None /\ rec'.tickets[v].request.item.under = rec'.session.next.key
      <4>1. CASE v = u
        <5>1. rec'.tickets[v] = ticket /\ ticket.request.in_rewrite
          BY <1>6, <3>1, <4>1 DEF RewriteUploads
        <5>2. QED
          BY <5>1, <1>3 DEF MayUpload, HeldSession, KeepsPointers
      <4>2. CASE v # u
        <5>1. v \in RewriteUploads /\ rec'.tickets[v] = rec.tickets[v]
          BY <1>6, <3>1, <4>2, Zenon DEF RewriteUploads
        <5>2. QED
          BY <5>1, <1>3, Zenon DEF SafetyInv, Ticketed, RewriteUploadsBelongToTheSession, KeepsPointers
      <4>3. QED
        BY <4>1, <4>2
    <3>2. QED
      BY <3>1, <1>3, Zenon DEF SafetyInv, Ticketed, RewriteUploadsBelongToTheSession, KeepsPointers
  <2>4. QED
    BY <2>1, <2>2, <2>3 DEF Ticketed
<1>8. QED
  BY <1>4, <1>5, <1>7 DEF SafetyInv

\* beginUpload keeps the invariant, in each of its three answers.
LEMMA BeginUploadSafe ==
    ASSUME SafetyInv, NEW c \in ApiKeys, NEW r \in Request, BeginUpload(c, r)
    PROVE  SafetyInv'
<1>1. TypeInv' /\ UNCHANGED gens /\ MayUpload(c, r)
  BY BeginUploadTypes, Zenon DEF SafetyInv, BeginUpload
<1>2. CASE IssueTicket(c, r)
  <2> DEFINE ticket == [owner |-> c, request |-> r, expires_at |-> now + StagingSecs]
  <2>1. PICK u \in UploadIds \ issued :
            /\ staging' = StageCreate(u)
            /\ issued' = issued \cup {u}
            /\ \/ Store([rec EXCEPT !.tickets[u] = ticket], {}, {})
               \/ NotStored
    BY <1>2, Zenon DEF IssueTicket
  <2>2. ticket \in Ticket /\ ticket.request = r
    BY LimitsAssumption DEF SafetyInv, TypeInv, TypeOK, Ticket
  <2> HIDE DEF ticket
  <2>3. CASE NotStored
    BY <1>1, <2>1, <2>3, StageFreshSafe, Zenon
  <2>4. CASE Store([rec EXCEPT !.tickets[u] = ticket], {}, {})
    BY <1>1, <2>1, <2>2, <2>4, TicketFreshSafe, Zenon
  <2>5. QED
    BY <2>1, <2>3, <2>4, Zenon
<1>3. QED
  BY <1>1, <1>2, AnswerStoredSafe, AnswerTicketSafe, Zenon DEF BeginUpload

\* putUploadContent keeps the invariant: it writes only under a ticket.
LEMMA PutUploadContentSafe ==
    ASSUME SafetyInv, NEW c \in ApiKeys, NEW u \in UploadIds, PutUploadContent(c, u)
    PROVE  SafetyInv'
<1>1. TypeInv' /\ TypeOK
  BY PutUploadContentTypes DEF SafetyInv, TypeInv
<1>2. \A v \in UploadIds : staging'[v] # None => staging[v] # None
  BY <1>1 DEF PutUploadContent, TypeOK
<1>3. QED
  BY <1>1, <1>2, IdleSafe DEF PutUploadContent

\* probeWrite keeps the invariant: its id is fresh.
LEMMA ProbeWriteSafe ==
    ASSUME SafetyInv, NEW c \in ApiKeys, ProbeWrite(c)
    PROVE  SafetyInv'
<1>1. TypeInv'
  BY ProbeWriteTypes DEF SafetyInv
<1>2. PICK u \in UploadIds : issued' = issued \cup {u} /\ staging' = StageCreate(u)
  BY DEF ProbeWrite
<1>3. NotStored /\ UNCHANGED gens
  BY Zenon DEF ProbeWrite
<1>4. QED
  BY <1>1, <1>2, <1>3, StageFreshSafe, Zenon

\* An upload ends: its ticket goes, and the removal of its staging place is owed.
LEMMA EndUploadTicketed ==
    ASSUME SafetyInv, TypeOK', Steady, NEW u \in UploadIds, rec.tickets[u] # None,
           rec'.tickets = [rec.tickets EXCEPT ![u] = None],
           removing' = removing \cup {u}, UNCHANGED issued,
           \A v \in UploadIds : staging'[v] # None => staging[v] # None
    PROVE  Ticketed'
<1>1. TypeOK
  BY DEF SafetyInv, TypeInv
<1>2. \A v \in UploadIds : rec'.tickets[v] = IF v = u THEN None ELSE rec.tickets[v]
  BY <1>1, RecordTypes
<1>3. QED
  BY <1>1, <1>2, SteadyTicketed DEF SafetyInv

\* abortUpload keeps the invariant (abort_upload).
LEMMA AbortUploadSafe ==
    ASSUME SafetyInv, NEW c \in ApiKeys, NEW u \in UploadIds, AbortUpload(c, u)
    PROVE  SafetyInv'
<1>1. TypeInv' /\ TypeOK' /\ TypeOK
  BY AbortUploadTypes DEF SafetyInv, TypeInv
<1>2. /\ rec' = [rec EXCEPT !.tickets[u] = None]
      /\ rec.tickets[u] # None
      /\ dropping' = dropping /\ removing' = removing \cup {u}
      /\ UNCHANGED <<gens, staging, issued>>
  BY DEF AbortUpload, Store
<1>3. KeepsPointers /\ rec'.tickets = [rec.tickets EXCEPT ![u] = None]
  BY <1>1, <1>2 DEF TypeOK, WorkspaceRecord, KeepsPointers
<1>4. Steady /\ HeaderWrapsTheKey'
  BY <1>3, KeepsPointersSteady DEF SafetyInv
<1>5. Shelved'
  BY <1>1, <1>2, <1>4, QuietShelved DEF SafetyInv
<1>6. Ticketed'
  BY <1>1, <1>2, <1>3, <1>4, EndUploadTicketed
<1>7. QED
  BY <1>1, <1>4, <1>5, <1>6 DEF SafetyInv

\* Recording an outcome moves no pointer and ends one ticket (finish_upload).
LEMMA FinishUploadKeeps ==
    ASSUME TypeOK, NEW g, NEW n, NEW c, NEW u \in UploadIds, NEW outcome,
           FinishUpload([rec EXCEPT !.used[g] = n], c, u, outcome)
           \/ FinishUpload(rec, c, u, outcome)
    PROVE  /\ KeepsPointers
           /\ rec'.tickets = [rec.tickets EXCEPT ![u] = None]
           /\ dropping' = dropping
           /\ removing' = removing \cup {u}
<1> DEFINE tombstone == [owner |-> c, outcome |-> outcome, expires_at |-> now + StagingSecs]
<1>1. CASE FinishUpload([rec EXCEPT !.used[g] = n], c, u, outcome)
  <2>1. /\ rec' = [[rec EXCEPT !.used[g] = n] EXCEPT !.tickets[u] = None, !.tombstones[u] = tombstone]
        /\ dropping' = dropping
        /\ removing' = removing \cup {u}
    BY <1>1 DEF FinishUpload, Store
  <2> HIDE DEF tombstone
  <2>2. KeepsPointers /\ rec'.tickets = [rec.tickets EXCEPT ![u] = None]
    BY <2>1 DEF TypeOK, WorkspaceRecord, KeepsPointers
  <2>3. QED
    BY <2>1, <2>2
<1>2. CASE FinishUpload(rec, c, u, outcome)
  <2>1. /\ rec' = [rec EXCEPT !.tickets[u] = None, !.tombstones[u] = tombstone]
        /\ dropping' = dropping
        /\ removing' = removing \cup {u}
    BY <1>2 DEF FinishUpload, Store
  <2> HIDE DEF tombstone
  <2>2. KeepsPointers /\ rec'.tickets = [rec.tickets EXCEPT ![u] = None]
    BY <2>1 DEF TypeOK, WorkspaceRecord, KeepsPointers
  <2>3. QED
    BY <2>1, <2>2
<1>3. QED
  BY <1>1, <1>2

\* An upload ends without touching the shelf.
LEMMA EndUploadSafe ==
    ASSUME SafetyInv, TypeInv', NEW g, NEW n, NEW c, NEW u \in UploadIds, NEW outcome,
           rec.tickets[u] # None,
           FinishUpload([rec EXCEPT !.used[g] = n], c, u, outcome)
           \/ FinishUpload(rec, c, u, outcome),
           UNCHANGED <<gens, staging, issued>>
    PROVE  SafetyInv'
<1>1. TypeOK' /\ TypeOK
  BY DEF SafetyInv, TypeInv
<1>2. /\ KeepsPointers
      /\ rec'.tickets = [rec.tickets EXCEPT ![u] = None]
      /\ dropping' = dropping
      /\ removing' = removing \cup {u}
  BY <1>1, FinishUploadKeeps, Zenon
<1>3. Steady /\ HeaderWrapsTheKey'
  BY <1>2, KeepsPointersSteady DEF SafetyInv
<1>4. Shelved'
  BY <1>1, <1>2, <1>3, QuietShelved DEF SafetyInv
<1>5. Ticketed'
  BY <1>1, <1>2, <1>3, EndUploadTicketed
<1>6. QED
  BY <1>3, <1>4, <1>5 DEF SafetyInv

\* Publishing keeps the invariant, recorded or not: the content is new to its
\* generation and under its key (commit_upload).
LEMMA PublishSafe ==
    ASSUME SafetyInv, TypeInv', NEW c \in ApiKeys, NEW u \in UploadIds, NEW r \in Request,
           rec.tickets[u] # None, MayUpload(c, r), Publish(c, u, r, UploadTarget(r)),
           UNCHANGED issued
    PROVE  SafetyInv'
<1> DEFINE g == UploadTarget(r)
           n == rec.used[g] + SizeOf(r.item)
           outcome == [item |-> r.item, created |-> TRUE, staged |-> r.in_rewrite]
<1>1. TypeOK' /\ TypeOK
  BY DEF SafetyInv, TypeInv
<1>2. /\ Same(g, r.item) = {}
      /\ gens' = [gens EXCEPT ![g] = @ \cup {r.item}]
      /\ staging' = [staging EXCEPT ![u] = None]
  BY Zenon DEF Publish
<1>3. FinishUpload([rec EXCEPT !.used[g] = n], c, u, outcome) \/ NotStored
  BY Zenon DEF Publish
<1>4. /\ KeepsPointers
      /\ dropping' \subseteq dropping
      /\ \/ /\ rec'.tickets = [rec.tickets EXCEPT ![u] = None]
            /\ removing' = removing \cup {u}
         \/ /\ rec'.tickets = rec.tickets
            /\ removing' \subseteq removing
  <2> HIDE DEF g, n, outcome
  <2>1. CASE NotStored
    BY <1>1, <2>1, NotStoredKeeps, Zenon
  <2>2. CASE FinishUpload([rec EXCEPT !.used[g] = n], c, u, outcome)
    <3>1. /\ KeepsPointers
          /\ rec'.tickets = [rec.tickets EXCEPT ![u] = None]
          /\ dropping' = dropping
          /\ removing' = removing \cup {u}
      BY <1>1, <2>2, FinishUploadKeeps, Zenon
    <3>2. QED
      BY <3>1
  <2>3. QED
    BY <1>3, <2>1, <2>2, Zenon
<1>5. Steady /\ HeaderWrapsTheKey'
  BY <1>4, KeepsPointersSteady DEF SafetyInv
<1>6. Shelved'
  BY <1>1, <1>2, <1>4, <1>5, AddShelved, Zenon DEF SafetyInv
<1>7. Ticketed'
  <2>1. \A v \in UploadIds : staging'[v] # None => staging[v] # None
    BY <1>1, <1>2 DEF TypeOK
  <2>2. QED
    BY <1>1, <1>4, <1>5, <2>1, EndUploadTicketed, QuietTicketed, Zenon DEF SafetyInv
<1>8. QED
  BY <1>5, <1>6, <1>7 DEF SafetyInv

\* commitUpload keeps the invariant, in each of its four outcomes.
LEMMA CommitUploadSafe ==
    ASSUME SafetyInv, NEW c \in ApiKeys, NEW u \in UploadIds, CommitUpload(c, u)
    PROVE  SafetyInv'
<1> DEFINE r == rec.tickets[u].request
           g == UploadTarget(r)
<1>1. TypeInv' /\ TypeOK /\ UNCHANGED issued
  BY CommitUploadTypes, Zenon DEF SafetyInv, TypeInv, CommitUpload
<1>2. CASE ReplayCommit(c, u)
  <2>1. /\ UNCHANGED <<rec, gens, staging>>
        /\ dropping' = dropping /\ removing' = removing
    BY <1>2 DEF ReplayCommit, Store
  <2>2. QED
    BY <1>1, <2>1, IdleSafe
<1>3. CASE /\ LiveTicket(c, u)
           /\ MayUpload(c, r)
           /\ \/ RecoverCommit(c, u, r, g)
              \/ RejectDuplicate(c, u, r, g)
              \/ Publish(c, u, r, g)
  <2>1. rec.tickets[u] # None /\ r \in Request
    BY <1>1, <1>3, RecordTypes DEF LiveTicket, Ticket
  <2>2. CASE RecoverCommit(c, u, r, g)
    <3> HIDE DEF r, g
    <3> DEFINE n == BytesOf(gens[g])
               outcome == [item |-> r.item, created |-> TRUE, staged |-> r.in_rewrite]
    <3>1. FinishUpload([rec EXCEPT !.used[g] = n], c, u, outcome) /\ UNCHANGED <<gens, staging>>
      BY <2>2, Zenon DEF RecoverCommit
    <3> HIDE DEF n, outcome
    <3>2. QED
      BY <1>1, <2>1, <3>1, EndUploadSafe, Zenon
  <2>3. CASE RejectDuplicate(c, u, r, g)
    <3> HIDE DEF r, g
    <3>1. PICK stored \in FindIn(g, r.item) :
             FinishUpload(rec, c, u, [item |-> stored, created |-> FALSE, staged |-> r.in_rewrite])
      BY <2>3, Zenon DEF RejectDuplicate
    <3> DEFINE outcome == [item |-> stored, created |-> FALSE, staged |-> r.in_rewrite]
    <3>2. FinishUpload(rec, c, u, outcome) /\ UNCHANGED <<gens, staging>>
      BY <2>3, <3>1, Zenon DEF RejectDuplicate
    <3> HIDE DEF outcome
    <3>3. QED
      BY <1>1, <2>1, <3>2, EndUploadSafe, Zenon
  <2>4. CASE Publish(c, u, r, g)
    <3> HIDE DEF r
    <3>1. QED
      BY <1>1, <1>3, <2>1, <2>4, PublishSafe, Zenon
  <2>5. QED
    BY <1>3, <2>2, <2>3, <2>4, Zenon
<1>4. QED
  BY <1>2, <1>3, Zenon DEF CommitUpload

\* The rule clean_staging asks only for the removal of what nothing points to.
LEMMA CleanStagingSafe ==
    ASSUME SafetyInv, TypeInv', NEW used \in [Gens -> Nat],
           CleanStagingOf([rec EXCEPT !.used = used]), RecordOnly
    PROVE  SafetyInv'
<1> DEFINE tickets == [u \in UploadIds |-> IF LiveTickets(u) THEN rec.tickets[u] ELSE None]
           tombstones == [u \in UploadIds |-> IF LiveTombstones(u) THEN rec.tombstones[u] ELSE None]
           kept == [g \in Gens |-> IF g \in Rubbish THEN 0 ELSE used[g]]
           record == [rec EXCEPT !.tickets = tickets, !.tombstones = tombstones, !.used = kept]
<1>1. TypeOK' /\ TypeOK
  BY DEF SafetyInv, TypeInv
<1>2. Store(record, Rubbish, Orphans)
  BY <1>1 DEF CleanStagingOf, TypeOK, WorkspaceRecord
<1>3. \A u \in UploadIds : tickets[u] = IF LiveTickets(u) THEN rec.tickets[u] ELSE None
  OBVIOUS
<1>4. rec' = record /\ dropping' = dropping \cup Rubbish /\ removing' = removing \cup Orphans
  BY <1>2, Zenon DEF Store
<1> HIDE DEF tickets, tombstones, kept
<1>5. KeepsPointers /\ rec'.tickets = tickets
  BY <1>1, <1>4 DEF TypeOK, WorkspaceRecord, KeepsPointers
<1>6. Steady /\ HeaderWrapsTheKey'
  BY <1>5, KeepsPointersSteady DEF SafetyInv
<1> HIDE DEF record
<1>7. Shelved'
  <2>1. Rubbish \subseteq Gens /\ Rubbish \cap LiveGenerations = {}
    BY DEF Rubbish
  <2>2. \A g \in Rubbish : g < rec.next_generation
    BY <1>1, RecordTypes, BoundsAssumption
       DEF Rubbish, SafetyInv, Shelved, GenerationsNeverReused, Gens
  <2>3. \A g \in Gens : gens'[g] = gens[g]
    BY DEF RecordOnly
  <2>4. QED
    BY <1>1, <1>4, <1>6, <2>1, <2>2, <2>3, SteadyShelved DEF SafetyInv
<1>8. Ticketed'
  <2>1. \A u \in UploadIds : rec'.tickets[u] \in {rec.tickets[u], None}
    BY <1>3, <1>5
  <2>2. \A u \in removing' :
           \/ u \in removing
           \/ (rec.tickets[u] # None \/ staging[u] # None) /\ rec'.tickets[u] = None
    BY <1>3, <1>4, <1>5, Zenon DEF Orphans
  <2>3. UNCHANGED <<staging, issued>>
    BY DEF RecordOnly
  <2>4. QED
    BY <1>1, <1>6, <2>1, <2>2, <2>3, SteadyTicketed DEF SafetyInv
<1>9. QED
  BY <1>6, <1>7, <1>8 DEF SafetyInv

\* Opening a workspace keeps the invariant: reconcile moves no pointer.
LEMMA RepairSafe ==
    ASSUME SafetyInv, TypeInv', CleanStaging \/ Open
    PROVE  SafetyInv'
<1>0. TypeOK /\ FiniteShelf
  BY DEF SafetyInv, TypeInv
<1>1. CASE CleanStaging
  <2> DEFINE used == rec.used
  <2>1. used \in [Gens -> Nat] /\ rec = [rec EXCEPT !.used = used]
    BY <1>0 DEF TypeOK, WorkspaceRecord
  <2>2. CleanStagingOf(rec) /\ RecordOnly
    BY <1>1, Zenon DEF CleanStaging
  <2> HIDE DEF used
  <2>3. CleanStagingOf([rec EXCEPT !.used = used])
    BY <2>1, <2>2, Zenon
  <2>4. QED
    BY <2>1, <2>2, <2>3, CleanStagingSafe
<1>2. CASE Open
  <2> DEFINE counted == [g \in Gens |-> IF g \in LiveGenerations THEN BytesOf(gens[g])
                                                                 ELSE rec.used[g]]
  <2>1. CleanStagingOf([rec EXCEPT !.used = counted]) /\ RecordOnly
    BY <1>2, Zenon DEF Open
  <2>2. counted \in [Gens -> Nat]
    <3>1. \A g \in Gens : BytesOf(gens[g]) \in Nat
      BY <1>0, BytesNat DEF FiniteShelf
    <3>2. QED
      BY <1>0, <3>1, RecordTypes
  <2> HIDE DEF counted
  <2>3. QED
    BY <2>1, <2>2, CleanStagingSafe
<1>3. QED
  BY <1>1, <1>2

\* A clean-up keeps the invariant, done or left to the janitor (Engine::write).
LEMMA CleanupSafe ==
    ASSUME SafetyInv, TypeInv',
           \/ \E g \in Gens : DropGeneration(g)
           \/ \E u \in UploadIds : RemoveStaging(u)
           \/ CleanupFails \/ Kill \/ Tick
    PROVE  SafetyInv'
<1>0. TypeOK
  BY DEF SafetyInv, TypeInv
<1>1. ASSUME NEW g \in Gens, DropGeneration(g) PROVE SafetyInv'
  <2>1. \A h \in Gens : gens'[h] \subseteq gens[h]
    BY <1>0, <1>1 DEF DropGeneration, TypeOK
  <2>2. QED
    BY <1>1, <2>1, IdleSafe DEF DropGeneration
<1>2. ASSUME NEW u \in UploadIds, RemoveStaging(u) PROVE SafetyInv'
  <2>1. \A v \in UploadIds : staging'[v] # None => staging[v] # None
    BY <1>0, <1>2 DEF RemoveStaging, TypeOK
  <2>2. QED
    BY <1>2, <2>1, IdleSafe DEF RemoveStaging
<1>3. CASE CleanupFails
  BY <1>3, IdleSafe DEF CleanupFails
<1>4. CASE Kill
  BY <1>4, IdleSafe DEF Kill
<1>5. CASE Tick
  BY <1>5, IdleSafe DEF Tick
<1>6. QED
  BY <1>1, <1>2, <1>3, <1>4, <1>5

-----------------------------------------------------------------------------
(* The steps that change the session, the seal, or a pointer. *)

\* A lease is renewed or passes to another key: the session stays the same one.
LEMMA RenewLeaseSafe ==
    ASSUME SafetyInv, NEW c \in ApiKeys, rec.session # None,
           Store(RenewLease(c), {}, {}), RecordOnly
    PROVE  SafetyInv'
<1> DEFINE session == [rec.session EXCEPT !.holder = c, !.lease_expires_at = now + LeaseSecs]
<1>1. TypeInv' /\ TypeOK' /\ TypeOK
  BY RenewLeaseTypes DEF SafetyInv, TypeInv
<1>2. /\ rec' = [rec EXCEPT !.session = session]
      /\ dropping' = dropping /\ removing' = removing /\ UNCHANGED <<gens, staging, issued>>
  BY <1>1 DEF Store, RenewLease, RecordOnly, TypeOK, WorkspaceRecord
<1>3. /\ session # None
      /\ session.next = rec.session.next
      /\ session.staged_generation = rec.session.staged_generation
  <2>1. rec.session \in Session /\ session \in Session
    <3>1. rec.session \in Session /\ now + LeaseSecs \in Nat
      BY <1>1, RecordTypes, LimitsAssumption DEF TypeOK
    <3>2. QED
      BY <3>1 DEF Session
  <2>2. session # None
    BY <2>1, NoneAssumption
  <2>3. QED
    BY <2>1, <2>2 DEF Session
<1> HIDE DEF session
<1>4. /\ rec'.session = session /\ rec'.seal = rec.seal /\ rec'.tickets = rec.tickets
      /\ rec'.generation = rec.generation /\ rec'.plain = rec.plain
      /\ rec'.next_generation = rec.next_generation
      /\ rec'.ended_rewrites = rec.ended_rewrites
  BY <1>1, <1>2 DEF TypeOK, WorkspaceRecord
<1>5. Steady /\ HeaderWrapsTheKey'
  BY <1>3, <1>4, Zenon DEF Steady, SafetyInv, HeaderWrapsTheKey
<1>6. Shelved'
  BY <1>1, <1>2, <1>5, QuietShelved DEF SafetyInv
<1>7. Ticketed'
  BY <1>1, <1>2, <1>4, <1>5, QuietTicketed DEF SafetyInv
<1>8. QED
  BY <1>1, <1>5, <1>6, <1>7 DEF SafetyInv

\* replaceHeader keeps the invariant: the header wraps the key that was compared.
LEMMA ReplaceHeaderSafe ==
    ASSUME SafetyInv, NEW c \in ApiKeys, NEW expected \in DataKeys, NEW words \in Words,
           ReplaceHeader(c, expected, words)
    PROVE  SafetyInv'
<1> DEFINE header == [wraps |-> expected, words |-> words]
           seal == [rec.seal EXCEPT !.header = header]
<1>1. TypeInv' /\ TypeOK' /\ TypeOK
  BY ReplaceHeaderTypes DEF SafetyInv, TypeInv
<1>2. /\ rec' = [rec EXCEPT !.seal.header = header]
      /\ rec.seal # None /\ rec.seal.key = expected /\ rec.session = None
      /\ dropping' = dropping /\ removing' = removing /\ UNCHANGED <<gens, staging, issued>>
  BY DEF Store, ReplaceHeader
<1>3. seal # None /\ seal.key = rec.seal.key /\ seal.header.wraps = expected
  <2>1. rec.seal \in Seal /\ header.wraps = expected /\ header \in [wraps : DataKeys, words : Words]
    BY <1>1, <1>2, RecordTypes
  <2> HIDE DEF header
  <2>2. seal \in Seal /\ seal.key = rec.seal.key /\ seal.header = header
    BY <2>1 DEF Seal
  <2>3. QED
    BY <2>1, <2>2, NoneAssumption
<1> HIDE DEF header
<1>4. /\ rec'.session = rec.session /\ rec'.seal = seal /\ rec'.tickets = rec.tickets
      /\ rec'.generation = rec.generation /\ rec'.plain = rec.plain
      /\ rec'.next_generation = rec.next_generation
      /\ rec'.ended_rewrites = rec.ended_rewrites
  BY <1>1, <1>2 DEF TypeOK, WorkspaceRecord
<1> HIDE DEF seal
<1>5. Steady /\ HeaderWrapsTheKey'
  BY <1>2, <1>3, <1>4, Zenon DEF Steady, SafetyInv, HeaderWrapsTheKey, KeyOf
<1>6. Shelved'
  BY <1>1, <1>2, <1>5, QuietShelved DEF SafetyInv
<1>7. Ticketed'
  BY <1>1, <1>2, <1>4, <1>5, QuietTicketed DEF SafetyInv
<1>8. QED
  BY <1>1, <1>5, <1>6, <1>7 DEF SafetyInv

\* A header announced with a key id wraps that key.
LEMMA SealUnderWraps ==
    ASSUME NEW key \in DataKeys, NEW words \in Words
    PROVE  LET seal == SealUnder(key, words)
           IN  /\ seal # None
               /\ seal.key = key
               /\ seal.header.wraps = key
               /\ KeyOf(seal) = key
<1>1. SealUnder(key, words) # None
  BY SealUnderType, NoneAssumption
<1>2. QED
  BY <1>1 DEF SealUnder, KeyOf

\* Tickets and staging places while no session is open before or after the step.
LEMMA UnsealedTicketed ==
    ASSUME SafetyInv, TypeOK', rec.session = None, rec'.session = None,
           rec'.tickets = rec.tickets, removing' = removing, UNCHANGED <<staging, issued>>
    PROVE  Ticketed'
BY Zenon DEF SafetyInv, Ticketed, RewriteUploadsBelongToTheSession, RewriteUploads

\* An empty plaintext workspace is sealed.
LEMMA SealEmptySafe ==
    ASSUME SafetyInv, TypeInv', NEW key \in DataKeys, NEW words \in Words,
           rec.session = None, gens[rec.generation] = {},
           Store([rec EXCEPT !.seal = SealUnder(key, words)], {}, {}), RecordOnly
    PROVE  SafetyInv'
<1> DEFINE seal == SealUnder(key, words)
<1>1. TypeOK' /\ TypeOK
  BY DEF SafetyInv, TypeInv
<1>2. /\ rec' = [rec EXCEPT !.seal = seal]
      /\ dropping' = dropping /\ removing' = removing /\ UNCHANGED <<gens, staging, issued>>
  BY DEF Store, RecordOnly
<1>3. seal # None /\ seal.key = key /\ seal.header.wraps = key
  BY SealUnderWraps
<1> HIDE DEF seal
<1>4. /\ rec'.session = rec.session /\ rec'.seal = seal /\ rec'.tickets = rec.tickets
      /\ rec'.generation = rec.generation /\ rec'.plain = rec.plain
      /\ rec'.next_generation = rec.next_generation
  BY <1>1, <1>2 DEF TypeOK, WorkspaceRecord
<1>5. HeaderWrapsTheKey'
  BY <1>3, <1>4, Zenon DEF HeaderWrapsTheKey
<1>6. Shelved'
  <2>1. LiveGenerations' = LiveGenerations
    BY <1>4, Zenon DEF LiveGenerations
  <2>2. GenerationsNeverReused' /\ (dropping \cap LiveGenerations = {})' /\ ContentStoredOnce'
    BY <1>2, <1>4, <2>1, Zenon DEF SafetyInv, Shelved, GenerationsNeverReused, ContentStoredOnce
  <2>3. ItemsUnderTheirKey'
    BY <1>2, <1>4 DEF SafetyInv, Shelved, ItemsUnderTheirKey
  <2>4. QED
    BY <2>2, <2>3 DEF Shelved
<1>7. Ticketed'
  BY <1>1, <1>2, <1>4, UnsealedTicketed
<1>8. QED
  BY <1>5, <1>6, <1>7 DEF SafetyInv

\* A plaintext workspace is sealed, and its items are set aside.
LEMMA SetAsideSafe ==
    ASSUME SafetyInv, TypeInv', NEW key \in DataKeys, NEW words \in Words,
           rec.session = None, rec.seal = None, rec.next_generation =< MaxGeneration,
           Store([rec EXCEPT !.seal = SealUnder(key, words),
                             !.plain = rec.generation,
                             !.generation = rec.next_generation,
                             !.next_generation = @ + 1], {}, {}), RecordOnly
    PROVE  SafetyInv'
<1> DEFINE seal == SealUnder(key, words)
           next == rec.next_generation
<1>1. TypeOK' /\ TypeOK
  BY DEF SafetyInv, TypeInv
<1>2. /\ rec' = [rec EXCEPT !.seal = seal, !.plain = rec.generation,
                            !.generation = next, !.next_generation = next + 1]
      /\ dropping' = dropping /\ removing' = removing /\ UNCHANGED <<gens, staging, issued>>
  BY DEF Store, RecordOnly
<1>3. seal # None /\ seal.key = key /\ seal.header.wraps = key
  BY SealUnderWraps
<1>4. /\ next \in Gens /\ next \in Nat /\ rec.generation \in Nat
      /\ rec.generation < next /\ gens[next] = {} /\ rec.generation # None
      /\ \A g \in dropping : g < next /\ g \in Nat
  <2>1. rec.generation \in Nat /\ next \in Gens /\ next \in Nat
    BY <1>1, RecordTypes, BoundsAssumption DEF Gens
  <2>2. rec.generation < next /\ gens[next] = {}
    BY <2>1 DEF SafetyInv, Shelved, GenerationsNeverReused, LiveGenerations
  <2>3. rec.generation # None
    BY <2>1, NoneAssumption
  <2>4. \A g \in dropping : g < next /\ g \in Nat
    BY <1>1, BoundsAssumption DEF TypeOK, Gens, SafetyInv, Shelved, GenerationsNeverReused
  <2>5. QED
    BY <2>1, <2>2, <2>3, <2>4
<1> HIDE DEF seal, next
<1>5. /\ rec'.session = rec.session /\ rec'.seal = seal /\ rec'.tickets = rec.tickets
      /\ rec'.generation = next /\ rec'.plain = rec.generation
      /\ rec'.next_generation = next + 1
  BY <1>1, <1>2 DEF TypeOK, WorkspaceRecord
<1>6. HeaderWrapsTheKey'
  BY <1>3, <1>5, Zenon DEF HeaderWrapsTheKey
<1>7. Shelved'
  <2>1. LiveGenerations' = {next, rec.generation}
    BY <1>4, <1>5 DEF LiveGenerations
  <2>2. GenerationsNeverReused'
    <3>1. \A g \in {next, rec.generation} \cup dropping : g < next + 1
      BY <1>4
    <3>2. \A g \in Gens : g >= next + 1 => gens[g] = {}
      BY <1>4, BoundsAssumption DEF SafetyInv, Shelved, GenerationsNeverReused, next, Gens
    <3>3. rec.generation # next
      BY <1>4
    <3>4. QED
      BY <1>2, <1>5, <2>1, <3>1, <3>2, <3>3 DEF GenerationsNeverReused
  <2>3. (dropping \cap LiveGenerations = {})'
    <3>1. next \notin dropping
      BY <1>4
    <3>2. rec.generation \notin dropping
      BY DEF SafetyInv, Shelved, LiveGenerations
    <3>3. QED
      BY <1>2, <2>1, <3>1, <3>2
  <2>4. ContentStoredOnce'
    BY <1>2, <1>4, <2>1 DEF SafetyInv, Shelved, ContentStoredOnce, LiveGenerations
  <2>5. ItemsUnderTheirKey'
    BY <1>2, <1>4, <1>5 DEF SafetyInv, Shelved, ItemsUnderTheirKey, KeyOf
  <2>6. QED
    BY <2>2, <2>3, <2>4, <2>5 DEF Shelved
<1>8. Ticketed'
  BY <1>1, <1>2, <1>5, UnsealedTicketed
<1>9. QED
  BY <1>6, <1>7, <1>8 DEF SafetyInv

\* enableEncryption and freshStart keep the invariant.
LEMMA SettleSafe ==
    ASSUME SafetyInv, NEW c \in ApiKeys, NEW key \in DataKeys, NEW words \in Words,
           EnableEncryption(c, key, words) \/ FreshStart(c, key, words)
    PROVE  SafetyInv'
<1>1. TypeInv' /\ rec.session = None /\ rec.seal = None /\ RecordOnly
  BY EnableEncryptionTypes, FreshStartTypes, Zenon
     DEF SafetyInv, EnableEncryption, FreshStart, Settle, RecordOnly
<1>2. QED
  BY <1>1, SealEmptySafe, SetAsideSafe, Zenon DEF EnableEncryption, FreshStart

\* Opening a session keeps the invariant: the staged generation is fresh and empty
\* (begin_rewrite).
LEMMA OpenSessionSafe ==
    ASSUME SafetyInv, NEW c \in ApiKeys, NEW kind \in RewriteKind, NEW expected,
           NEW key \in DataKeys, NEW words \in Words,
           OpenSession(c, kind, expected, key, words), RecordOnly
    PROVE  SafetyInv'
<1> DEFINE seal == SealUnder(key, words)
           next == rec.next_generation
           session == [kind |-> kind, next |-> seal, holder |-> c,
                       lease_expires_at |-> now + LeaseSecs, staged_generation |-> next]
<1>1. TypeInv' /\ TypeOK' /\ TypeOK
  BY OpenSessionTypes DEF SafetyInv, TypeInv
<1>2. /\ rec' = [rec EXCEPT !.next_generation = next + 1, !.session = session]
      /\ rec.session = None /\ key \notin rec.ended_rewrites /\ next =< MaxGeneration
      /\ dropping' = dropping /\ removing' = removing /\ UNCHANGED <<gens, staging, issued>>
  BY DEF OpenSession, Store, RecordOnly
<1>3. seal # None /\ seal.key = key /\ seal.header.wraps = key
  BY SealUnderWraps
<1>4. /\ next \in Gens /\ next \in Nat /\ rec.generation \in Nat
      /\ rec.generation < next /\ gens[next] = {}
      /\ rec.plain # None => rec.plain \in Nat /\ rec.plain < next
      /\ \A g \in dropping : g < next /\ g \in Nat
  BY <1>1, <1>2, RecordTypes, BoundsAssumption
     DEF TypeOK, Gens, SafetyInv, Shelved, GenerationsNeverReused, LiveGenerations
<1>5. session # None /\ session.next = seal /\ session.staged_generation = next
  <2>1. session \in Session
    BY <1>1, <1>4, SealUnderType, LimitsAssumption DEF TypeOK, Session
  <2>2. session # None
    BY <2>1, NoneAssumption
  <2>3. QED
    BY <2>2
<1> HIDE DEF session, seal
<1>6. /\ rec'.session = session /\ rec'.seal = rec.seal /\ rec'.tickets = rec.tickets
      /\ rec'.generation = rec.generation /\ rec'.plain = rec.plain
      /\ rec'.next_generation = next + 1
      /\ rec'.ended_rewrites = rec.ended_rewrites
  <2> DEFINE m == next + 1
  <2> HIDE DEF m
  <2>1. rec' = [rec EXCEPT !.next_generation = m, !.session = session]
    BY <1>2 DEF m
  <2>2. QED
    BY <1>1, <2>1 DEF TypeOK, WorkspaceRecord, m
<1>7. HeaderWrapsTheKey'
  BY <1>3, <1>5, <1>6, Zenon DEF HeaderWrapsTheKey, SafetyInv
<1> HIDE DEF next
<1>8. Shelved'
  <2>1. LiveGenerations' = LiveGenerations \cup {next}
    BY <1>2, <1>5, <1>6 DEF LiveGenerations
  <2>2. GenerationsNeverReused'
    <3>1. \A g \in LiveGenerations \cup {next} \cup dropping : g < next + 1
      <4>1. \A g \in LiveGenerations : g < next /\ g \in Nat
        BY <1>1, LiveTypes, BoundsAssumption
           DEF SafetyInv, Shelved, GenerationsNeverReused, next, Gens
      <4>2. QED
        BY <1>4, <4>1
    <3>2. \A g \in Gens : g >= next + 1 => gens[g] = {}
      BY <1>4, BoundsAssumption DEF SafetyInv, Shelved, GenerationsNeverReused, next, Gens
    <3>3. rec.generation # next /\ rec.plain # next
      <4>1. None # next
        BY <1>4, NoneAssumption
      <4>2. QED
        BY <1>4, <4>1
    <3>4. rec.plain # rec.generation
      BY DEF SafetyInv, Shelved, GenerationsNeverReused
    <3>5. QED
      BY <1>2, <1>5, <1>6, <2>1, <3>1, <3>2, <3>3, <3>4 DEF GenerationsNeverReused
  <2>3. (dropping \cap LiveGenerations = {})'
    <3>1. next \notin dropping
      BY <1>4
    <3>2. QED
      BY <1>2, <2>1, <3>1 DEF SafetyInv, Shelved
  <2>4. ContentStoredOnce'
    BY <1>2, <1>4, <2>1 DEF SafetyInv, Shelved, ContentStoredOnce
  <2>5. ItemsUnderTheirKey'
    BY <1>2, <1>4, <1>5, <1>6, Zenon DEF SafetyInv, Shelved, ItemsUnderTheirKey
  <2>6. QED
    BY <2>2, <2>3, <2>4, <2>5 DEF Shelved
<1>9. Ticketed'
  <2>1. RewriteUploads' = RewriteUploads /\ RewriteUploads = {}
    BY <1>2, <1>6, Zenon DEF SafetyInv, Ticketed, RewriteUploadsBelongToTheSession, RewriteUploads
  <2>2. RewriteUploadsBelongToTheSession'
    BY <1>2, <1>3, <1>5, <1>6, <2>1 DEF RewriteUploadsBelongToTheSession
  <2>3. QED
    BY <1>2, <1>6, <2>2, Zenon DEF SafetyInv, Ticketed
<1>10. QED
  BY <1>1, <1>7, <1>8, <1>9 DEF SafetyInv

\* beginRewrite keeps the invariant, sent first and sent again.
LEMMA BeginRewriteSafe ==
    ASSUME SafetyInv, NEW c \in ApiKeys, NEW kind \in RewriteKind, NEW expected,
           NEW key \in DataKeys, NEW words \in Words,
           BeginRewrite(c, kind, expected, key, words)
    PROVE  SafetyInv'
BY RenewLeaseSafe, OpenSessionSafe, Zenon DEF BeginRewrite, ReplayBegin, HeldSession

\* The uploads of a session end with it.
LEMMA SessionEndTicketed ==
    ASSUME SafetyInv, TypeOK', rec'.session = None,
           rec'.tickets = DropTickets(RewriteUploads),
           removing' = removing \cup RewriteUploads, UNCHANGED <<staging, issued>>
    PROVE  Ticketed'
<1>1. TypeOK
  BY DEF SafetyInv, TypeInv
<1>2. \A u \in UploadIds :
          rec'.tickets[u] = IF u \in RewriteUploads THEN None ELSE rec.tickets[u]
  BY DEF DropTickets
<1>3. \A u \in RewriteUploads : u \in UploadIds /\ rec.tickets[u] # None
  BY DEF RewriteUploads
<1>4. \A u \in UploadIds :
          (rec'.tickets[u] # None \/ staging'[u] # None \/ u \in removing') => u \in issued'
  BY <1>2, <1>3, Zenon DEF SafetyInv, Ticketed
<1>5. \A u \in removing' : rec'.tickets[u] = None
  BY <1>1, <1>2, <1>3 DEF SafetyInv, Ticketed, TypeOK
<1>6. RewriteUploads' = {}
  BY <1>2, Zenon DEF RewriteUploads
<1>7. QED
  BY <1>4, <1>5, <1>6, Zenon DEF Ticketed, RewriteUploadsBelongToTheSession

\* commitRewrite keeps the invariant: the pointer moves to items under the new key.
LEMMA CommitRewriteSafe ==
    ASSUME SafetyInv, NEW c \in ApiKeys, NEW key \in DataKeys, CommitRewrite(c, key)
    PROVE  SafetyInv'
<1> DEFINE tickets == DropTickets(RewriteUploads)
           staged == rec.session.staged_generation
           next == rec.session.next
           old == rec.generation
<1>1. TypeInv' /\ TypeOK' /\ TypeOK
  BY CommitRewriteTypes DEF SafetyInv, TypeInv
<1>2. /\ rec' = [rec EXCEPT !.generation = staged, !.seal = next, !.session = None,
                            !.used[old] = 0, !.tickets = tickets]
      /\ rec.session # None
      /\ dropping' = dropping \cup {old} /\ removing' = removing \cup RewriteUploads
      /\ UNCHANGED <<gens, staging, issued>>
  BY DEF CommitRewrite, HeldSession, Store, RecordOnly
<1>3. next \in Seal /\ next # None /\ next.header.wraps = next.key
  <2>1. rec.session \in Session
    BY <1>1, <1>2, RecordTypes
  <2>2. next \in Seal
    BY <2>1 DEF Session
  <2>3. QED
    BY <1>2, <2>2, NoneAssumption DEF SafetyInv, HeaderWrapsTheKey
<1>4. /\ staged # old /\ staged # rec.plain /\ old # rec.plain
      /\ staged \in LiveGenerations /\ old \in LiveGenerations
  BY <1>2, Zenon DEF SafetyInv, Shelved, GenerationsNeverReused, LiveGenerations
<1>5. \A i \in gens[staged] : i.under = next.key
  BY <1>2 DEF SafetyInv, Shelved, ItemsUnderTheirKey
<1> HIDE DEF tickets, staged, next, old
<1>6. /\ rec'.session = None /\ rec'.seal = next /\ rec'.tickets = tickets
      /\ rec'.generation = staged /\ rec'.plain = rec.plain
      /\ rec'.next_generation = rec.next_generation
  BY <1>1, <1>2 DEF TypeOK, WorkspaceRecord
<1>7. HeaderWrapsTheKey'
  BY <1>3, <1>6, Zenon DEF HeaderWrapsTheKey
<1>8. Shelved'
  <2>1. LiveGenerations' = LiveGenerations \ {old}
    <3>1. LiveGenerations' = {staged} \cup (IF rec.plain = None THEN {} ELSE {rec.plain})
      BY <1>6, Zenon DEF LiveGenerations
    <3>2. LiveGenerations = {old, staged} \cup (IF rec.plain = None THEN {} ELSE {rec.plain})
      BY <1>2 DEF LiveGenerations, old, staged
    <3>3. QED
      BY <3>1, <3>2, <1>4
  <2>2. GenerationsNeverReused'
    <3>1. \A g \in (LiveGenerations \ {old}) \cup (dropping \cup {old}) : g < rec.next_generation
      BY <1>4 DEF SafetyInv, Shelved, GenerationsNeverReused
    <3>2. QED
      BY <1>2, <1>4, <1>6, <2>1, <3>1, Zenon DEF SafetyInv, Shelved, GenerationsNeverReused
  <2>3. (dropping \cap LiveGenerations = {})'
    BY <1>2, <2>1 DEF SafetyInv, Shelved
  <2>4. ContentStoredOnce'
    BY <1>2, <2>1 DEF SafetyInv, Shelved, ContentStoredOnce
  <2>5. ItemsUnderTheirKey'
    BY <1>2, <1>3, <1>5, <1>6, Zenon DEF SafetyInv, Shelved, ItemsUnderTheirKey, KeyOf
  <2>6. QED
    BY <2>2, <2>3, <2>4, <2>5 DEF Shelved
<1>9. Ticketed'
  BY <1>1, <1>2, <1>6, SessionEndTicketed, Zenon DEF tickets
<1>10. QED
  BY <1>1, <1>7, <1>8, <1>9 DEF SafetyInv

\* Every abort keeps the invariant: the staged generation is no longer pointed to
\* (end_aborted).
LEMMA EndAbortedSafe ==
    ASSUME SafetyInv, rec.session # None, EndAborted
    PROVE  SafetyInv'
<1> DEFINE tickets == DropTickets(RewriteUploads)
           staged == rec.session.staged_generation
           ended == rec.session.next.key
<1>1. TypeInv' /\ TypeOK' /\ TypeOK
  BY EndAbortedTypes DEF SafetyInv, TypeInv
<1>2. /\ rec' = [rec EXCEPT !.ended_rewrites = @ \cup {ended}, !.session = None,
                            !.used[staged] = 0, !.tickets = tickets]
      /\ dropping' = dropping \cup {staged} /\ removing' = removing \cup RewriteUploads
      /\ UNCHANGED <<gens, staging, issued>>
  BY DEF EndAborted, Store, RecordOnly
<1>3. /\ staged # rec.generation /\ staged # rec.plain
      /\ staged \in LiveGenerations
  BY Zenon DEF SafetyInv, Shelved, GenerationsNeverReused, LiveGenerations
<1> HIDE DEF tickets, staged, ended
<1>4. /\ rec'.session = None /\ rec'.seal = rec.seal /\ rec'.tickets = tickets
      /\ rec'.generation = rec.generation /\ rec'.plain = rec.plain
      /\ rec'.next_generation = rec.next_generation
  BY <1>1, <1>2 DEF TypeOK, WorkspaceRecord
<1>5. HeaderWrapsTheKey'
  BY <1>4, Zenon DEF HeaderWrapsTheKey, SafetyInv
<1>6. Shelved'
  <2>1. LiveGenerations' = LiveGenerations \ {staged}
    <3>1. LiveGenerations' = {rec.generation} \cup (IF rec.plain = None THEN {} ELSE {rec.plain})
      BY <1>4, Zenon DEF LiveGenerations
    <3>2. LiveGenerations = {rec.generation, staged}
                              \cup (IF rec.plain = None THEN {} ELSE {rec.plain})
      BY DEF LiveGenerations, staged
    <3>3. QED
      BY <3>1, <3>2, <1>3
  <2>2. GenerationsNeverReused'
    <3>1. \A g \in (LiveGenerations \ {staged}) \cup (dropping \cup {staged}) :
              g < rec.next_generation
      BY <1>3 DEF SafetyInv, Shelved, GenerationsNeverReused
    <3>2. QED
      BY <1>2, <1>4, <2>1, <3>1, Zenon DEF SafetyInv, Shelved, GenerationsNeverReused
  <2>3. (dropping \cap LiveGenerations = {})'
    BY <1>2, <2>1 DEF SafetyInv, Shelved
  <2>4. ContentStoredOnce'
    BY <1>2, <2>1 DEF SafetyInv, Shelved, ContentStoredOnce
  <2>5. ItemsUnderTheirKey'
    BY <1>2, <1>4, Zenon DEF SafetyInv, Shelved, ItemsUnderTheirKey
  <2>6. QED
    BY <2>2, <2>3, <2>4, <2>5 DEF Shelved
<1>7. Ticketed'
  BY <1>1, <1>2, <1>4, SessionEndTicketed, Zenon DEF tickets
<1>8. QED
  BY <1>1, <1>5, <1>6, <1>7 DEF SafetyInv

-----------------------------------------------------------------------------

\* A new workspace satisfies the invariant.
LEMMA InitSafe == Init => SafetyInv
<1> SUFFICES ASSUME Init PROVE SafetyInv
  OBVIOUS
<1>1. TypeInv
  BY InitTypes
<1>2. /\ rec.generation = 0 /\ rec.plain = None /\ rec.session = None /\ rec.seal = None
      /\ rec.next_generation = 1 /\ \A u \in UploadIds : rec.tickets[u] = None
  BY DEF Init, NewRecord
<1>3. LiveGenerations = {0} /\ 0 \in Gens /\ None # 0
  BY <1>2, BoundsAssumption, NoneAssumption DEF LiveGenerations, Gens
<1>4. Shelved
  BY <1>2, <1>3 DEF Init, Shelved, GenerationsNeverReused, ItemsUnderTheirKey, ContentStoredOnce
<1>5. Ticketed /\ HeaderWrapsTheKey
  BY <1>2 DEF Init, Ticketed, RewriteUploadsBelongToTheSession, RewriteUploads, HeaderWrapsTheKey
<1>6. QED
  BY <1>1, <1>4, <1>5 DEF SafetyInv

\* Every step keeps the invariant.
LEMMA StepSafe ==
    ASSUME SafetyInv, [Next]_vars
    PROVE  SafetyInv'
<1>0. TypeInv'
  BY StepTypes DEF SafetyInv
<1>1. ASSUME NEW c \in ApiKeys, UploadOperation(c) PROVE SafetyInv'
  BY <1>1, BeginUploadSafe, PutUploadContentSafe, CommitUploadSafe, AbortUploadSafe,
     ProbeWriteSafe, Zenon DEF UploadOperation
<1>2. ASSUME NEW c \in ApiKeys, EncryptionOperation(c) PROVE SafetyInv'
  BY <1>2, DeleteItemSafe, SettleSafe, ReplaceHeaderSafe, Zenon DEF EncryptionOperation
<1>3. ASSUME NEW c \in ApiKeys, RewriteOperation(c) PROVE SafetyInv'
  BY <1>3, BeginRewriteSafe, RenewLeaseSafe, CommitRewriteSafe, EndAbortedSafe, Zenon
     DEF RewriteOperation, HeartbeatRewrite, TakeOverRewrite, AbortRewrite, HeldSession
<1>4. CASE Housekeeping
  BY <1>0, <1>4, EndAbortedSafe, RepairSafe, CleanupSafe, Zenon
     DEF Housekeeping, OperatorAbortRewrite
<1>5. CASE UNCHANGED vars
  BY <1>0, <1>5, IdleSafe DEF vars
<1>6. QED
  BY <1>1, <1>2, <1>3, <1>4, <1>5, Zenon DEF Next

\* The invariant holds in every reachable state.
LEMMA AlwaysSafe == Spec => []SafetyInv
BY InitSafe, StepSafe, PTL DEF Spec

\* I2 of docs/api/rewrite-session.md: whatever uploads, rewrites, take-overs, aborts,
\* kills, and clean-ups interleave, every item a reader finds was uploaded under the
\* key the record names for the place it is in.
THEOREM ItemsStayUnderTheirKey == Spec => []ItemsUnderTheirKey
<1>1. SafetyInv => ItemsUnderTheirKey
  BY DEF SafetyInv, Shelved
<1>2. QED
  BY <1>1, AlwaysSafe, PTL

\* No clean-up that is still owed can hit what the record has come to point to, so
\* running it outside the transaction, late or never, is safe (workspace.rs, Cleanup).
THEOREM CleanupsAreSafe == Spec => []CleanupsSpareTheLiving
<1>1. SafetyInv => CleanupsSpareTheLiving
  BY DEF SafetyInv, Shelved, Ticketed, CleanupsSpareTheLiving
<1>2. QED
  BY <1>1, AlwaysSafe, PTL

\* A generation number is used once (begin_rewrite, fresh_start).
THEOREM GenerationsAreFresh == Spec => []GenerationsNeverReused
<1>1. SafetyInv => GenerationsNeverReused
  BY DEF SafetyInv, Shelved
<1>2. QED
  BY <1>1, AlwaysSafe, PTL

\* One content is one item in every generation the record points to (commit_upload).
THEOREM ContentIsStoredOnce == Spec => []ContentStoredOnce
<1>1. SafetyInv => ContentStoredOnce
  BY DEF SafetyInv, Shelved
<1>2. QED
  BY <1>1, AlwaysSafe, PTL

\* The header a reader gets wraps the key its items are sealed under (replace_header,
\* commit_rewrite).
THEOREM HeadersWrapTheirKey == Spec => []HeaderWrapsTheKey
<1>1. SafetyInv => HeaderWrapsTheKey
  BY DEF SafetyInv
<1>2. QED
  BY <1>1, AlwaysSafe, PTL

\* No upload outlives the rewrite it belongs to (drop_rewrite_uploads).
THEOREM RewriteUploadsEndWithIt == Spec => []RewriteUploadsBelongToTheSession
<1>1. SafetyInv => RewriteUploadsBelongToTheSession
  BY DEF SafetyInv, Ticketed
<1>2. QED
  BY <1>1, AlwaysSafe, PTL

=============================================================================
