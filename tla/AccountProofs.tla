--------------------------- MODULE AccountProofs ----------------------------
(***************************************************************************)
(* The books of a workspace, the outcomes of its uploads, and its quota,    *)
(* for every value of the constants.                                        *)
(***************************************************************************)
EXTENDS StoreProofs

\* A generation that was never pointed to has no bytes in the books, which is what
\* it holds when it comes to be pointed to.
FreshUnused == \A g \in Gens : g >= rec.next_generation => rec.used[g] = 0

Balanced ==
    /\ ~CommitMayFail => BooksBalance
    /\ FreshUnused

\* An upload that was answered has no ticket any more and never gets one again, and
\* what is remembered of it is what was answered.
OutcomeKnown ==
    \A u \in UploadIds :
       /\ \A a, b \in answers[u] : a = b
       /\ answers[u] # {} => u \in issued /\ rec.tickets[u] = None
       /\ rec.tombstones[u] # None => answers[u] = {rec.tombstones[u].outcome}

AccountInv == StoreInv /\ Balanced /\ OutcomeKnown

-----------------------------------------------------------------------------
(* Outcomes. *)

\* A step that answers nothing, issues no ticket, and at most forgets outcomes.
Silent ==
    /\ \A u \in UploadIds : /\ rec'.tickets[u] \in {rec.tickets[u], None}
                            /\ rec'.tombstones[u] \in {rec.tombstones[u], None}
    /\ issued \subseteq issued'
    /\ UNCHANGED answers

\* A silent step leaves what is known of uploads true.
LEMMA SilentOutcomes ==
    ASSUME OutcomeKnown, Silent
    PROVE  OutcomeKnown'
BY Zenon DEF OutcomeKnown, Silent

\* A fresh id was never answered, so its ticket contradicts no answer.
LEMMA FreshOutcomes ==
    ASSUME TypeOK, OutcomeKnown, NEW u \in UploadIds \ issued, issued' = issued \cup {u},
           \A v \in UploadIds : v # u => rec'.tickets[v] = rec.tickets[v],
           rec'.tombstones = rec.tombstones, UNCHANGED answers
    PROVE  OutcomeKnown'
<1>1. answers[u] = {}
  BY DEF OutcomeKnown
<1>2. QED
  BY <1>1 DEF OutcomeKnown

\* An upload ends with one answer, its first.
LEMMA FinishOutcomes ==
    ASSUME SafetyInv, OutcomeKnown, NEW used, NEW c, NEW u \in UploadIds, NEW outcome,
           rec.tickets[u] # None, UNCHANGED issued,
           FinishUpload([rec EXCEPT !.used = used], c, u, outcome)
    PROVE  OutcomeKnown'
<1> DEFINE tombstone == [owner |-> c, outcome |-> outcome, expires_at |-> now + StagingSecs]
<1>1. TypeOK /\ u \in issued
  BY DEF SafetyInv, TypeInv, Ticketed
<1>2. /\ rec' = [[rec EXCEPT !.used = used] EXCEPT !.tickets[u] = None, !.tombstones[u] = tombstone]
      /\ answers' = [answers EXCEPT ![u] = @ \cup {outcome}]
  BY DEF FinishUpload, Store
<1>3. answers[u] = {}
  BY DEF OutcomeKnown
<1>4. tombstone.outcome = outcome
  OBVIOUS
<1> HIDE DEF tombstone
<1>5. /\ rec'.tickets = [rec.tickets EXCEPT ![u] = None]
      /\ rec'.tombstones = [rec.tombstones EXCEPT ![u] = tombstone]
  BY <1>1, <1>2 DEF TypeOK, WorkspaceRecord
<1>6. \A v \in UploadIds :
         /\ rec'.tickets[v] = IF v = u THEN None ELSE rec.tickets[v]
         /\ rec'.tombstones[v] = IF v = u THEN tombstone ELSE rec.tombstones[v]
         /\ answers'[v] = IF v = u THEN {outcome} ELSE answers[v]
  BY <1>1, <1>2, <1>3, <1>5, RecordTypes DEF TypeOK
<1>7. QED
  BY <1>1, <1>4, <1>6 DEF OutcomeKnown

\* Every answer of commitUpload is the first, or the one that is remembered.
LEMMA CommitOutcomes ==
    ASSUME SafetyInv, OutcomeKnown, NEW c \in ApiKeys, NEW u \in UploadIds, CommitUpload(c, u)
    PROVE  OutcomeKnown'
<1>0. TypeOK
  BY DEF SafetyInv, TypeInv
<1>1. CASE Repeats(u)
  <2>1. /\ rec.tombstones[u] # None /\ UNCHANGED <<rec, issued>>
        /\ \A v \in UploadIds :
              answers'[v] = IF v = u THEN answers[u] \cup {rec.tombstones[u].outcome} ELSE answers[v]
    BY <1>0, <1>1 DEF Repeats, TypeOK
  <2>2. \A v \in UploadIds : answers'[v] = answers[v]
    BY <2>1 DEF OutcomeKnown
  <2>3. QED
    BY <2>1, <2>2, Zenon DEF OutcomeKnown
<1>2. CASE Ends(c, u)
  <2>1. PICK used, outcome : FinishUpload([rec EXCEPT !.used = used], c, u, outcome)
    BY <1>2, Zenon DEF Ends
  <2>2. QED
    BY <1>2, <2>1, FinishOutcomes, Zenon DEF Ends
<1>3. CASE Publishes(c, u)
  <2> DEFINE r == rec.tickets[u].request
             g == UploadTarget(r)
             n == rec.used[g] + SizeOf(r.item)
             outcome == [item |-> r.item, created |-> TRUE, staged |-> r.in_rewrite]
             used == [rec.used EXCEPT ![g] = n]
  <2>1. /\ rec.tickets[u] # None /\ UNCHANGED issued
        /\ \/ FinishUpload([rec EXCEPT !.used[g] = n], c, u, outcome)
           \/ NotStored /\ UNCHANGED answers
    BY <1>3, Zenon DEF Publishes, Publish
  <2> HIDE DEF r, g, n, outcome
  <2>2. CASE FinishUpload([rec EXCEPT !.used[g] = n], c, u, outcome)
    <3>1. [rec EXCEPT !.used[g] = n] = [rec EXCEPT !.used = used]
      BY <1>0 DEF TypeOK, WorkspaceRecord
    <3> HIDE DEF used
    <3>2. FinishUpload([rec EXCEPT !.used = used], c, u, outcome)
      BY <2>2, <3>1, Zenon
    <3>3. QED
      BY <2>1, <3>2, FinishOutcomes, Zenon
  <2>3. CASE NotStored /\ UNCHANGED answers
    <3>1. UNCHANGED <<rec, issued, answers>>
      BY <2>1, <2>3, Zenon DEF NotStored
    <3>2. QED
      BY <3>1, Zenon DEF OutcomeKnown
  <2>4. QED
    BY <2>1, <2>2, <2>3, Zenon
<1>4. QED
  BY <1>1, <1>2, <1>3, CommitUploadCases

-----------------------------------------------------------------------------
(* Books. *)

\* What the record points to is older than the counter of generations.
LEMMA LiveIsOld ==
    ASSUME SafetyInv
    PROVE  /\ rec.next_generation \in Nat
           /\ \A g \in Gens : g \in Nat
           /\ \A g \in LiveGenerations : g \in Gens /\ ~(g >= rec.next_generation)
<1>1. TypeOK /\ \A g \in LiveGenerations : g < rec.next_generation
  BY DEF SafetyInv, TypeInv, Shelved, GenerationsNeverReused
<1>2. rec.next_generation \in Nat /\ \A g \in Gens : g \in Nat
  BY <1>1, RecordTypes, BoundsAssumption DEF Gens
<1>3. QED
  BY <1>1, <1>2, LiveTypes

\* A step that moves no pointer keeps the books if the bytes it counts are those on
\* the shelf.
LEMMA SteadyBalanced ==
    ASSUME SafetyInv, Balanced, Steady,
           \A g \in Gens \ LiveGenerations : rec'.used[g] \in {rec.used[g], 0},
           ~CommitMayFail /\ open' =>
              \A g \in LiveGenerations : rec'.used[g] = BytesOf(gens'[g])
    PROVE  Balanced'
<1>1. LiveGenerations' = LiveGenerations
  BY SteadyLive
<1>2. ~CommitMayFail => BooksBalance'
  BY <1>1, Zenon DEF BooksBalance
<1>3. FreshUnused'
  BY LiveIsOld DEF FreshUnused, Balanced, Steady
<1>4. QED
  BY <1>2, <1>3, Zenon DEF Balanced

\* A quiet step keeps the books and the outcomes.
LEMMA QuietAccount ==
    ASSUME AccountInv, Quiet
    PROVE  Balanced' /\ OutcomeKnown'
<1>1. Balanced'
  <2>1. SafetyInv /\ Balanced /\ Steady /\ rec'.used = rec.used /\ (open' => open)
        /\ \A g \in LiveGenerations : gens'[g] = gens[g]
    BY DEF AccountInv, StoreInv, Quiet, Unseen
  <2>2. ~CommitMayFail /\ open' =>
           \A g \in LiveGenerations : rec'.used[g] = BytesOf(gens'[g])
    BY <2>1 DEF Balanced, BooksBalance
  <2>3. \A g \in Gens \ LiveGenerations : rec'.used[g] \in {rec.used[g], 0}
    BY <2>1
  <2>4. QED
    BY <2>1, <2>2, <2>3, SteadyBalanced, Zenon
<1>2. OutcomeKnown'
  <2>1. Silent
    BY Zenon DEF Quiet, Unseen, Silent
  <2>2. QED
    BY <2>1, SilentOutcomes, Zenon DEF AccountInv
<1>3. QED
  BY <1>1, <1>2

\* A new ticket changes neither the books nor any outcome.
LEMMA IssuedAccount ==
    ASSUME AccountInv, NEW c \in ApiKeys, NEW r \in Request, BeginUpload(c, r),
           NEW u \in UploadIds \ issued, issued' = issued \cup {u}, NEW ticket,
           Store([rec EXCEPT !.tickets[u] = ticket], {}, {})
    PROVE  Balanced' /\ OutcomeKnown'
<1>1. TypeOK /\ HeaderWrapsTheKey /\ SafetyInv /\ Balanced /\ OutcomeKnown
  BY DEF AccountInv, StoreInv, SafetyInv, TypeInv
<1>2. rec' = [rec EXCEPT !.tickets[u] = ticket] /\ UNCHANGED <<gens, answers>> /\ open
  BY DEF Store, BeginUpload
<1>3. /\ KeepsPointers /\ rec'.tickets = [rec.tickets EXCEPT ![u] = ticket]
      /\ rec'.used = rec.used /\ rec'.tombstones = rec.tombstones
  BY <1>1, <1>2 DEF TypeOK, WorkspaceRecord, KeepsPointers
<1>4. Steady
  BY <1>1, <1>3, KeepsPointersSteady
<1>5. ~CommitMayFail /\ open' =>
         \A g \in LiveGenerations : rec'.used[g] = BytesOf(gens'[g])
  BY <1>1, <1>2, <1>3 DEF Balanced, BooksBalance
<1>6. \A g \in Gens \ LiveGenerations : rec'.used[g] \in {rec.used[g], 0}
  BY <1>3
<1>7. Balanced'
  BY <1>1, <1>4, <1>5, <1>6, SteadyBalanced, Zenon
<1>8. \A v \in UploadIds : v # u => rec'.tickets[v] = rec.tickets[v]
  BY <1>1, <1>3, RecordTypes
<1>9. OutcomeKnown'
  BY <1>1, <1>2, <1>3, <1>8, FreshOutcomes, Zenon
<1>10. QED
  BY <1>7, <1>9

\* commitUpload adds the size of what it publishes, or counts the shelf again; if it is
\* killed before its record is stored, no process has the workspace open.
LEMMA CommitBalanced ==
    ASSUME AccountInv, NEW c \in ApiKeys, NEW u \in UploadIds, CommitUpload(c, u)
    PROVE  Balanced'
<1>0. /\ TypeOK /\ FiniteShelf /\ SafetyInv /\ Balanced /\ open /\ HeaderWrapsTheKey
      /\ ~CommitMayFail => \A g \in LiveGenerations : rec.used[g] = BytesOf(gens[g])
  BY CommitUploadCases DEF AccountInv, StoreInv, SafetyInv, TypeInv, Balanced, BooksBalance
<1>1. CASE Repeats(u)
  <2>1. UNCHANGED <<rec, gens>> /\ Steady
    BY <1>1, CommitUnseen, Zenon DEF Repeats, Unseen, AccountInv, StoreInv
  <2>2. /\ ~CommitMayFail /\ open' =>
              \A g \in LiveGenerations : rec'.used[g] = BytesOf(gens'[g])
        /\ \A g \in Gens \ LiveGenerations : rec'.used[g] \in {rec.used[g], 0}
    BY <1>0, <2>1
  <2>3. QED
    BY <1>0, <2>1, <2>2, SteadyBalanced, Zenon
<1>2. CASE Ends(c, u)
  <2>1. PICK used, outcome :
           /\ used \in [Gens -> Nat]
           /\ FinishUpload([rec EXCEPT !.used = used], c, u, outcome)
           /\ \A g \in Gens :
                 \/ used[g] = rec.used[g]
                 \/ g \in LiveGenerations /\ used[g] = BytesOf(gens[g])
    BY <1>2, Zenon DEF Ends
  <2>2. Steady /\ rec'.used = used
    BY <1>0, <2>1, FinishUploadEffect, Zenon
  <2>3. UNCHANGED gens /\ LiveGenerations \subseteq Gens
    BY <1>0, <1>2, LiveTypes DEF Ends
  <2>4. /\ ~CommitMayFail /\ open' =>
              \A g \in LiveGenerations : rec'.used[g] = BytesOf(gens'[g])
        /\ \A g \in Gens \ LiveGenerations : rec'.used[g] \in {rec.used[g], 0}
    BY <1>0, <2>1, <2>2, <2>3
  <2>5. QED
    BY <1>0, <2>2, <2>4, SteadyBalanced, Zenon
<1>3. CASE Publishes(c, u)
  <2> DEFINE r == rec.tickets[u].request
             g == UploadTarget(r)
             n == rec.used[g] + SizeOf(r.item)
             outcome == [item |-> r.item, created |-> TRUE, staged |-> r.in_rewrite]
             used == [rec.used EXCEPT ![g] = n]
  <2>1. /\ rec.tickets[u] # None /\ MayUpload(c, r) /\ Same(g, r.item) = {}
        /\ gens' = [gens EXCEPT ![g] = @ \cup {r.item}]
        /\ FinishUpload([rec EXCEPT !.used[g] = n], c, u, outcome) \/ NotStored
    BY <1>3, Zenon DEF Publishes, Publish
  <2>2. g \in LiveGenerations /\ g \in Gens
    BY <1>0, <2>1, TargetLives, Zenon
  <2>3. r.item \in Item /\ r.item \notin gens[g]
    <3>1. rec.tickets[u] \in Ticket
      BY <1>0, <2>1, RecordTypes
    <3>2. r.item \in Item
      BY <3>1 DEF Ticket, Request
    <3>3. QED
      BY <2>1, <3>2 DEF Same, SameContent
  <2>4. BytesOf(gens[g] \cup {r.item}) = BytesOf(gens[g]) + SizeOf(r.item)
    BY <1>0, <2>2, <2>3, BytesAdd DEF FiniteShelf
  <2>5. CASE FinishUpload([rec EXCEPT !.used[g] = n], c, u, outcome)
    <3>1. \A h \in Gens : /\ used[h] = IF h = g THEN n ELSE rec.used[h]
                          /\ gens'[h] = IF h = g THEN gens[g] \cup {r.item} ELSE gens[h]
      BY <1>0, <2>1, <2>2, RecordTypes DEF TypeOK
    <3>2. LiveGenerations \subseteq Gens
      BY <1>0, LiveTypes
    <3>3. ~CommitMayFail => \A h \in LiveGenerations : used[h] = BytesOf(gens'[h])
      BY <1>0, <2>2, <2>4, <3>1, <3>2
    <3>4. \A h \in Gens \ LiveGenerations : used[h] \in {rec.used[h], 0}
      BY <2>2, <3>1
    <3> HIDE DEF r, g, n, outcome
    <3>5. [rec EXCEPT !.used[g] = n] = [rec EXCEPT !.used = used]
      BY <1>0 DEF TypeOK, WorkspaceRecord
    <3> HIDE DEF used
    <3>6. FinishUpload([rec EXCEPT !.used = used], c, u, outcome)
      BY <2>5, <3>5, Zenon
    <3>7. Steady /\ rec'.used = used
      BY <1>0, <3>6, FinishUploadEffect, Zenon
    <3>8. QED
      BY <1>0, <3>3, <3>4, <3>7, SteadyBalanced, Zenon
  <2>6. CASE NotStored
    <3>1. rec' = rec /\ (~CommitMayFail => ~open')
      BY <2>6 DEF NotStored
    <3>2. Steady
      BY <1>0, <3>1, KeepsPointersSteady, Zenon DEF KeepsPointers
    <3>3. QED
      BY <1>0, <3>1, <3>2, SteadyBalanced, Zenon
  <2>7. QED
    BY <2>1, <2>5, <2>6, Zenon
<1>4. QED
  BY <1>1, <1>2, <1>3, CommitUploadCases DEF AccountInv, StoreInv

\* deleteItem takes the item's size out of the books, which hold at least that.
LEMMA DeleteItemAccount ==
    ASSUME AccountInv, NEW c \in ApiKeys, NEW partition, NEW item \in Item,
           NEW expected \in KeyIds, DeleteItem(c, partition, item, expected)
    PROVE  Balanced' /\ OutcomeKnown'
<1> DEFINE g == GenerationOf(partition)
           less == IF rec.used[g] < SizeOf(item) THEN 0 ELSE rec.used[g] - SizeOf(item)
           record == [rec EXCEPT !.used[g] = less]
<1>1. /\ TypeOK /\ FiniteShelf /\ SafetyInv /\ Balanced /\ OutcomeKnown /\ HeaderWrapsTheKey
      /\ ~CommitMayFail /\ open => \A h \in LiveGenerations : rec.used[h] = BytesOf(gens[h])
  BY DEF AccountInv, StoreInv, SafetyInv, TypeInv, Balanced, BooksBalance
<1>2. /\ Store(record, {}, {}) \/ NotStored
      /\ gens' = [gens EXCEPT ![g] = @ \ {item}]
      /\ g # None /\ item \in gens[g] /\ open
      /\ UNCHANGED <<issued, answers>>
  BY Zenon DEF DeleteItem
<1>3. g \in LiveGenerations /\ g \in Gens
  <2>1. g \in LiveGenerations
    BY <1>2 DEF GenerationOf, LiveGenerations
  <2>2. QED
    BY <1>1, <2>1, LiveTypes
<1>4. CASE Store(record, {}, {})
  <2>1. BytesOf(gens[g]) = BytesOf(gens[g] \ {item}) + SizeOf(item)
        /\ BytesOf(gens[g] \ {item}) \in Nat /\ SizeOf(item) \in Nat
    BY <1>1, <1>2, <1>3, BytesRemove, BytesNat, SizeOfNat DEF FiniteShelf
  <2>2. rec.used[g] = BytesOf(gens[g]) => less = BytesOf(gens[g] \ {item})
    BY <2>1
  <2> HIDE DEF g, less
  <2>3. rec' = record
    BY <1>4 DEF Store
  <2>4. /\ KeepsPointers /\ rec'.used = [rec.used EXCEPT ![g] = less]
        /\ rec'.tickets = rec.tickets /\ rec'.tombstones = rec.tombstones
    BY <1>1, <2>3 DEF TypeOK, WorkspaceRecord, KeepsPointers
  <2>5. Steady
    BY <1>1, <2>4, KeepsPointersSteady
  <2>6. \A h \in Gens : /\ rec'.used[h] = IF h = g THEN less ELSE rec.used[h]
                        /\ gens'[h] = IF h = g THEN gens[g] \ {item} ELSE gens[h]
    BY <1>1, <1>2, <1>3, <2>4, RecordTypes DEF TypeOK
  <2>7. LiveGenerations \subseteq Gens
    BY <1>1, LiveTypes
  <2>8. ~CommitMayFail /\ open' => \A h \in LiveGenerations : rec'.used[h] = BytesOf(gens'[h])
    BY <1>1, <1>2, <1>3, <2>2, <2>6, <2>7
  <2>9. \A h \in Gens \ LiveGenerations : rec'.used[h] \in {rec.used[h], 0}
    BY <1>3, <2>6
  <2>10. Balanced'
    BY <1>1, <2>5, <2>8, <2>9, SteadyBalanced, Zenon
  <2>11. Silent
    BY <1>2, <2>4 DEF Silent
  <2>12. QED
    BY <1>1, <2>10, <2>11, SilentOutcomes
<1>5. CASE NotStored
  <2>1. rec' = rec /\ (~CommitMayFail => ~open')
    BY <1>5 DEF NotStored
  <2>2. Steady
    BY <1>1, <2>1, KeepsPointersSteady, Zenon DEF KeepsPointers
  <2>3. Balanced'
    BY <1>1, <2>1, <2>2, SteadyBalanced, Zenon
  <2>4. Silent
    BY <1>2, <2>1 DEF Silent
  <2>5. QED
    BY <1>1, <2>3, <2>4, SilentOutcomes
<1>6. QED
  BY <1>2, <1>4, <1>5

\* Whatever a kill left uncounted is counted when a workspace is opened (reconcile).
LEMMA RepairAccount ==
    ASSUME AccountInv, CleanStaging \/ Open
    PROVE  Balanced' /\ OutcomeKnown'
<1>1. /\ SafetyInv /\ Balanced /\ OutcomeKnown
      /\ ~CommitMayFail /\ open => \A g \in LiveGenerations : rec.used[g] = BytesOf(gens[g])
  BY DEF AccountInv, StoreInv, Balanced, BooksBalance
<1>2. RecordOnly /\ LiveGenerations \subseteq Gens
  BY <1>1, RepairCounts, LiveTypes DEF SafetyInv, TypeInv
<1>3. PICK used \in [Gens -> Nat] :
         /\ CleanStagingOf([rec EXCEPT !.used = used])
         /\ \A g \in Gens \ LiveGenerations : used[g] = rec.used[g]
         /\ \/ open /\ used = rec.used
            \/ \A g \in LiveGenerations : used[g] = BytesOf(gens[g])
  BY <1>1, RepairCounts, Zenon
<1>4. /\ Unseen
      /\ \A g \in Gens : /\ rec'.used[g] \in {used[g], 0}
                         /\ g \in LiveGenerations => rec'.used[g] = used[g]
      /\ \A u \in UploadIds : rec'.tombstones[u] \in {rec.tombstones[u], None}
  BY <1>1, <1>2, <1>3, CleanStagingUnseen, Zenon
<1>5. Balanced'
  <2>1. ~CommitMayFail /\ open' => \A g \in LiveGenerations : rec'.used[g] = BytesOf(gens'[g])
    BY <1>1, <1>2, <1>3, <1>4 DEF RecordOnly
  <2>2. \A g \in Gens \ LiveGenerations : rec'.used[g] \in {rec.used[g], 0}
    BY <1>3, <1>4
  <2>3. QED
    BY <1>1, <1>4, <2>1, <2>2, SteadyBalanced, Zenon DEF Unseen
<1>6. Silent
  BY <1>2, <1>4 DEF Silent, Unseen, RecordOnly
<1>7. QED
  BY <1>1, <1>5, <1>6, SilentOutcomes

\* Books and outcomes when the record comes to point to fewer generations.
LEMMA FewerAccount ==
    ASSUME AccountInv, NEW old \in LiveGenerations, LiveGenerations' = LiveGenerations \ {old},
           rec'.next_generation = rec.next_generation, open,
           rec'.used = [rec.used EXCEPT ![old] = 0], rec'.tombstones = rec.tombstones,
           rec'.tickets = DropTickets(RewriteUploads), UNCHANGED <<gens, issued, answers>>
    PROVE  Balanced' /\ OutcomeKnown'
<1>1. /\ SafetyInv /\ TypeOK /\ Balanced /\ OutcomeKnown
      /\ ~CommitMayFail /\ open => \A g \in LiveGenerations : rec.used[g] = BytesOf(gens[g])
  BY DEF AccountInv, StoreInv, SafetyInv, TypeInv, Balanced, BooksBalance
<1>2. \A g \in Gens : rec'.used[g] = IF g = old THEN 0 ELSE rec.used[g]
  BY <1>1, RecordTypes
<1>3. LiveGenerations \subseteq Gens
  BY <1>1, LiveTypes
<1>4. Balanced'
  <2>1. ~CommitMayFail => BooksBalance'
    BY <1>1, <1>2, <1>3 DEF BooksBalance
  <2>2. FreshUnused'
    BY <1>1, <1>2 DEF Balanced, FreshUnused
  <2>3. QED
    BY <2>1, <2>2 DEF Balanced
<1>5. Silent
  BY DEF Silent, DropTickets
<1>6. QED
  BY <1>1, <1>4, <1>5, SilentOutcomes

\* Books and outcomes when the record comes to point to its next generation, empty and
\* with nothing in the books, if to anything new.
LEMMA MoreAccount ==
    ASSUME AccountInv, NEW fresh \in SUBSET {rec.next_generation}, fresh \subseteq Gens,
           LiveGenerations' \subseteq LiveGenerations \cup fresh,
           rec'.next_generation \in {rec.next_generation, rec.next_generation + 1}, open,
           rec'.used = rec.used, rec'.tombstones = rec.tombstones,
           rec'.tickets = rec.tickets, UNCHANGED <<gens, issued, answers>>
    PROVE  Balanced' /\ OutcomeKnown'
<1>1. /\ SafetyInv /\ Balanced /\ OutcomeKnown
      /\ ~CommitMayFail /\ open => \A g \in LiveGenerations : rec.used[g] = BytesOf(gens[g])
  BY DEF AccountInv, StoreInv, Balanced, BooksBalance
<1>2. \A g \in fresh : gens[g] = {} /\ rec.used[g] = 0 /\ BytesOf({}) = 0
  BY <1>1, LiveIsOld, NoBytes DEF SafetyInv, Shelved, GenerationsNeverReused, Balanced, FreshUnused
<1>3. Balanced'
  <2>1. ~CommitMayFail => BooksBalance'
    BY <1>1, <1>2 DEF BooksBalance
  <2>2. FreshUnused'
    BY <1>1, LiveIsOld DEF Balanced, FreshUnused
  <2>3. QED
    BY <2>1, <2>2 DEF Balanced
<1>4. Silent
  BY DEF Silent
<1>5. QED
  BY <1>1, <1>3, <1>4, SilentOutcomes

\* Sealing a workspace keeps the books: what is set aside stays counted.
LEMMA SettleAccount ==
    ASSUME AccountInv, NEW c \in ApiKeys, NEW key \in DataKeys, NEW words \in Words,
           EnableEncryption(c, key, words) \/ FreshStart(c, key, words)
    PROVE  Balanced' /\ OutcomeKnown'
<1> DEFINE seal == SealUnder(key, words)
           next == rec.next_generation
<1>1. /\ TypeOK /\ open /\ rec.session = None
      /\ UNCHANGED <<gens, issued, answers>>
  BY DEF AccountInv, StoreInv, SafetyInv, TypeInv, EnableEncryption, FreshStart, Settle
<1>2. \/ rec' = [rec EXCEPT !.seal = seal]
      \/ /\ next =< MaxGeneration
         /\ rec' = [rec EXCEPT !.seal = seal, !.plain = rec.generation,
                               !.generation = next, !.next_generation = next + 1]
  BY DEF EnableEncryption, FreshStart, Store
<1> HIDE DEF seal
<1>3. CASE rec' = [rec EXCEPT !.seal = seal]
  <2>1. /\ rec'.session = rec.session /\ rec'.generation = rec.generation
        /\ rec'.plain = rec.plain /\ rec'.next_generation = rec.next_generation
        /\ rec'.used = rec.used /\ rec'.tickets = rec.tickets /\ rec'.tombstones = rec.tombstones
    BY <1>1, <1>3 DEF TypeOK, WorkspaceRecord
  <2> DEFINE fresh == {}
  <2>2. /\ LiveGenerations' \subseteq LiveGenerations \cup fresh
        /\ fresh \in SUBSET {rec.next_generation} /\ fresh \subseteq Gens
    BY <2>1 DEF LiveGenerations
  <2>3. rec'.next_generation \in {rec.next_generation, rec.next_generation + 1}
    BY <2>1
  <2> HIDE DEF fresh
  <2>4. QED
    BY <1>1, <2>1, <2>2, <2>3, MoreAccount, Zenon
<1>4. CASE /\ next =< MaxGeneration
           /\ rec' = [rec EXCEPT !.seal = seal, !.plain = rec.generation,
                                 !.generation = next, !.next_generation = next + 1]
  <2>1. next \in Gens
    BY <1>1, <1>4, RecordTypes, BoundsAssumption DEF Gens
  <2> HIDE DEF next
  <2>2. /\ rec'.session = None /\ rec'.generation = next
        /\ rec'.plain = rec.generation /\ rec'.next_generation = next + 1
        /\ rec'.used = rec.used /\ rec'.tickets = rec.tickets /\ rec'.tombstones = rec.tombstones
    BY <1>1, <1>4 DEF TypeOK, WorkspaceRecord
  <2>3. LiveGenerations' \subseteq LiveGenerations \cup {next}
    BY <2>2 DEF LiveGenerations
  <2>4. QED
    BY <1>1, <2>1, <2>2, <2>3, MoreAccount DEF next
<1>5. QED
  BY <1>2, <1>3, <1>4

\* Opening a session keeps the books: it stages into an empty generation.
LEMMA OpenSessionAccount ==
    ASSUME AccountInv, NEW c \in ApiKeys, NEW kind \in RewriteKind, NEW expected,
           NEW key \in DataKeys, NEW words \in Words, open,
           OpenSession(c, kind, expected, key, words), RecordOnly
    PROVE  Balanced' /\ OutcomeKnown'
<1> DEFINE next == rec.next_generation
           m == next + 1
           session == [kind |-> kind, next |-> SealUnder(key, words), holder |-> c,
                       lease_expires_at |-> now + LeaseSecs, staged_generation |-> next]
<1>1. /\ rec' = [rec EXCEPT !.next_generation = m, !.session = session]
      /\ next =< MaxGeneration /\ UNCHANGED <<gens, issued, answers>>
  BY DEF OpenSession, Store, RecordOnly
<1>2. TypeOK
  BY DEF AccountInv, StoreInv, SafetyInv, TypeInv
<1>3. next \in Gens /\ session.staged_generation = next
  BY <1>1, <1>2, RecordTypes, BoundsAssumption DEF Gens
<1> HIDE DEF session, m
<1>4. /\ rec'.session = session /\ rec'.generation = rec.generation
      /\ rec'.plain = rec.plain /\ rec'.next_generation = m
      /\ rec'.used = rec.used /\ rec'.tickets = rec.tickets /\ rec'.tombstones = rec.tombstones
  BY <1>1, <1>2 DEF TypeOK, WorkspaceRecord
<1> HIDE DEF next
<1>5. LiveGenerations' \subseteq LiveGenerations \cup {next}
  BY <1>3, <1>4 DEF LiveGenerations
<1>6. QED
  BY <1>1, <1>3, <1>4, <1>5, MoreAccount DEF next, m

\* The end of a rewrite, committed or aborted, takes the generation it leaves out of
\* the books.
LEMMA RewriteEndAccount ==
    ASSUME AccountInv, open, rec.session # None,
           (\E c \in ApiKeys, key \in DataKeys : CommitRewrite(c, key)) \/ EndAborted
    PROVE  Balanced' /\ OutcomeKnown'
<1> DEFINE tickets == DropTickets(RewriteUploads)
           staged == rec.session.staged_generation
           next == rec.session.next
           old == rec.generation
           ended == rec.session.next.key
<1>1. /\ TypeOK /\ staged # old /\ staged # rec.plain /\ old # rec.plain
      /\ staged \in LiveGenerations /\ old \in LiveGenerations
  BY Zenon DEF AccountInv, StoreInv, SafetyInv, TypeInv, Shelved, GenerationsNeverReused, LiveGenerations
<1>2. UNCHANGED <<gens, issued, answers>>
  BY DEF CommitRewrite, EndAborted, RecordOnly
<1>3. LiveGenerations = {old, staged} \cup (IF rec.plain = None THEN {} ELSE {rec.plain})
  BY DEF LiveGenerations
<1>4. CASE \E c \in ApiKeys, key \in DataKeys : CommitRewrite(c, key)
  <2>1. rec' = [rec EXCEPT !.generation = staged, !.seal = next, !.session = None,
                           !.used[old] = 0, !.tickets = tickets]
    BY <1>4 DEF CommitRewrite, Store
  <2> HIDE DEF tickets, staged, next, old
  <2>2. /\ rec'.session = None /\ rec'.generation = staged
        /\ rec'.plain = rec.plain /\ rec'.next_generation = rec.next_generation
        /\ rec'.used = [rec.used EXCEPT ![old] = 0] /\ rec'.tickets = tickets
        /\ rec'.tombstones = rec.tombstones
    BY <1>1, <2>1 DEF TypeOK, WorkspaceRecord
  <2>3. LiveGenerations' = {staged} \cup (IF rec.plain = None THEN {} ELSE {rec.plain})
    BY <2>2, Zenon DEF LiveGenerations
  <2>4. LiveGenerations' = LiveGenerations \ {old}
    BY <1>1, <1>3, <2>3
  <2>5. QED
    BY <1>1, <1>2, <2>2, <2>4, FewerAccount, Zenon DEF tickets
<1>5. CASE EndAborted
  <2>1. rec' = [rec EXCEPT !.ended_rewrites = @ \cup {ended}, !.session = None,
                           !.used[staged] = 0, !.tickets = tickets]
    BY <1>5 DEF EndAborted, Store
  <2> HIDE DEF tickets, staged, ended, old
  <2>2. /\ rec'.session = None /\ rec'.generation = rec.generation
        /\ rec'.plain = rec.plain /\ rec'.next_generation = rec.next_generation
        /\ rec'.used = [rec.used EXCEPT ![staged] = 0] /\ rec'.tickets = tickets
        /\ rec'.tombstones = rec.tombstones
    BY <1>1, <2>1 DEF TypeOK, WorkspaceRecord
  <2>3. LiveGenerations' = {old} \cup (IF rec.plain = None THEN {} ELSE {rec.plain})
    BY <2>2, Zenon DEF LiveGenerations, old
  <2>4. LiveGenerations' = LiveGenerations \ {staged}
    BY <1>1, <1>3, <2>3
  <2>5. QED
    BY <1>1, <1>2, <2>2, <2>4, FewerAccount, Zenon DEF tickets
<1>6. QED
  BY <1>4, <1>5

-----------------------------------------------------------------------------

\* Every step keeps the books and the outcomes.
LEMMA StepAccount ==
    ASSUME AccountInv, [Next]_vars
    PROVE  AccountInv'
<1> DEFINE Kept == Balanced' /\ OutcomeKnown'
<1>0. StoreInv' /\ SafetyInv
  BY StepMapped DEF AccountInv, StoreInv
<1>1. ASSUME Quiet PROVE Kept
  BY <1>1, QuietAccount
<1>2. ASSUME NEW c \in ApiKeys, UploadOperation(c) PROVE Kept
  <2>1. ASSUME NEW r \in Request, BeginUpload(c, r) PROVE Kept
    <3> DEFINE ticket == [owner |-> c, request |-> r, expires_at |-> now + StagingSecs]
    <3>1. \/ Quiet
          \/ \E u \in UploadIds \ issued : /\ issued' = issued \cup {u}
                                           /\ Store([rec EXCEPT !.tickets[u] = ticket], {}, {})
      BY <1>0, <2>1, BeginUploadQuiet
    <3> HIDE DEF ticket
    <3>2. QED
      BY <1>1, <2>1, <3>1, IssuedAccount, Zenon
  <2>2. ASSUME NEW u \in UploadIds, CommitUpload(c, u) PROVE Kept
    BY <1>0, <2>2, CommitBalanced, CommitOutcomes, Zenon DEF AccountInv
  <2>3. QED
    BY <1>0, <1>1, <1>2, <2>1, <2>2, UploadQuiet, ProbeQuiet, Zenon DEF UploadOperation
<1>3. ASSUME NEW c \in ApiKeys, EncryptionOperation(c) PROVE Kept
  BY <1>0, <1>1, <1>3, DeleteItemAccount, SettleAccount, ReplaceHeaderQuiet, Zenon
     DEF EncryptionOperation
<1>4. ASSUME NEW c \in ApiKeys, RewriteOperation(c) PROVE Kept
  <2>1. ASSUME NEW kind \in RewriteKind, NEW expected \in KeyIds, NEW key \in DataKeys,
               NEW words \in Words, BeginRewrite(c, kind, expected, key, words)
        PROVE  Kept
    BY <1>0, <1>1, <2>1, RenewLeaseQuiet, OpenSessionAccount, Zenon
       DEF BeginRewrite, ReplayBegin, HeldSession
  <2>2. ASSUME HeartbeatRewrite(c) \/ TakeOverRewrite(c) PROVE Kept
    BY <1>0, <1>1, <2>2, RenewLeaseQuiet, Zenon
       DEF HeartbeatRewrite, TakeOverRewrite, HeldSession
  <2>3. ASSUME NEW key \in DataKeys, CommitRewrite(c, key) \/ AbortRewrite(c, key) PROVE Kept
    <3>1. open /\ rec.session # None
      BY <2>3 DEF CommitRewrite, AbortRewrite, HeldSession
    <3>2. QED
      BY <2>3, <3>1, RewriteEndAccount, Zenon DEF AbortRewrite
  <2>4. QED
    BY <1>4, <2>1, <2>2, <2>3, Zenon DEF RewriteOperation
<1>5. ASSUME Housekeeping PROVE Kept
  BY <1>0, <1>1, <1>5, RewriteEndAccount, RepairAccount, CleanupQuiet, Zenon
     DEF Housekeeping, OperatorAbortRewrite
<1>6. ASSUME UNCHANGED vars PROVE Kept
  <2>1. Quiet
    BY <1>0, <1>6, IdleQuiet DEF vars
  <2>2. QED
    BY <1>1, <2>1
<1>7. Kept
  BY <1>2, <1>3, <1>4, <1>5, <1>6, Zenon DEF Next
<1>8. QED
  BY <1>0, <1>7 DEF AccountInv

\* The books of a new workspace are in order.
LEMMA InitAccount == Init => AccountInv
<1> SUFFICES ASSUME Init PROVE AccountInv
  OBVIOUS
<1>1. /\ \A g \in Gens : rec.used[g] = 0 /\ gens[g] = {}
      /\ \A u \in UploadIds : rec.tickets[u] = None /\ rec.tombstones[u] = None /\ answers[u] = {}
  BY DEF Init, NewRecord
<1>2. StoreInv /\ LiveGenerations \subseteq Gens /\ BytesOf({}) = 0
  BY InitMapped, LiveTypes, NoBytes DEF StoreInv, SafetyInv, TypeInv
<1>3. Balanced
  BY <1>1, <1>2 DEF Balanced, BooksBalance, FreshUnused
<1>4. OutcomeKnown
  BY <1>1 DEF OutcomeKnown
<1>5. QED
  BY <1>2, <1>3, <1>4 DEF AccountInv

\* Books and outcomes are in order in every reachable state.
LEMMA AlwaysAccount == Spec => []AccountInv
<1>1. AccountInv /\ [Next]_vars => AccountInv'
  BY StepAccount
<1>2. QED
  BY <1>1, InitAccount, PTL DEF Spec

\* I4 of docs/api/rewrite-session.md: if no commit of the database fails while its
\* process lives on, the bytes the record counts are the bytes on the shelf whenever a
\* process has the workspace open, after any kill and at any point of a rewrite
\* (commit_upload, delete_item, reconcile).
THEOREM BooksStayBalanced ==
    ASSUME CommitMayFail = FALSE
    PROVE  Spec => []BooksBalance
<1>1. AccountInv => BooksBalance
  BY DEF AccountInv, Balanced
<1>2. QED
  BY <1>1, AlwaysAccount, PTL

\* I5: an upload id has one outcome.  A commit that is repeated, that was killed before
\* its record was stored, or that comes after the outcome was forgotten never answers
\* another (commit_upload, finish_upload).
THEOREM OneOutcomePerUpload == Spec => []OneOutcome
<1>1. AccountInv => OneOutcome
  <2> SUFFICES ASSUME AccountInv, NEW u \in UploadIds PROVE Cardinality(answers[u]) =< 1
    BY DEF OneOutcome
  <2>1. CASE answers[u] = {}
    BY <2>1, FS_EmptySet
  <2>2. CASE answers[u] # {}
    <3>1. PICK a : answers[u] = {a}
      BY <2>2 DEF AccountInv, OutcomeKnown
    <3>2. Cardinality({a}) = 1
      BY FS_Singleton
    <3>3. QED
      BY <3>1, <3>2
  <2>3. QED
    BY <2>1, <2>2
<1>2. QED
  BY <1>1, AlwaysAccount, PTL

-----------------------------------------------------------------------------
(* The quota.                                                               *)
(*                                                                          *)
(* A commit that is killed after its publish leaves content nothing counts   *)
(* while its ticket still reserves room for it.  Such tickets have their     *)
(* content on the shelf, each its own, and what all others may still publish  *)
(* fits beside what is there.                                                *)

\* The bytes that tickets reserve, as pairs of an upload and a position.
Units(tickets, uploads) ==
    UNION {{u} \X (1 .. SizeOf(tickets[u].request.item)) : u \in uploads}

Asked(u) == rec.tickets[u].request.item

\* The live uploads but those of a rewrite.
Promised ==
    {u \in UploadIds : /\ rec.tickets[u] # None
                       /\ rec.tickets[u].expires_at > now
                       /\ rec.tickets[u].request.in_rewrite = FALSE}

\* Where the content of such an upload is, if it is anywhere.
Where(u) == IF Asked(u).under = None /\ rec.plain # None THEN rec.plain ELSE rec.generation

Covered(uploads) ==
    /\ uploads \subseteq Promised
    /\ \A u \in uploads : /\ \E i \in gens[Where(u)] : i.text = Asked(u).text
                          /\ rec.seal = None => Asked(u).under = None
    /\ \A u, v \in uploads : Asked(u).text = Asked(v).text /\ Where(u) = Where(v) => u = v

StoredBytes == BytesOf(gens[rec.generation])
          + (IF rec.plain = None THEN 0 ELSE BytesOf(gens[rec.plain]))

Outstanding(uploads) == Cardinality(Units(rec.tickets, Promised \ uploads))

QuotaInv == \E uploads \in SUBSET UploadIds : Covered(uploads) /\ StoredBytes + Outstanding(uploads) =< Quota

\* What one upload reserves is as much as its size.
LEMMA UnitsOfOne ==
    ASSUME NEW u, NEW n \in Nat \ {0}
    PROVE  IsFiniteSet({u} \X (1 .. n)) /\ Cardinality({u} \X (1 .. n)) = n
<1>1. IsFiniteSet({u}) /\ Cardinality({u}) = 1
  BY FS_Singleton
<1>2. IsFiniteSet(1 .. n) /\ Cardinality(1 .. n) = n
  BY FS_Interval
<1> DEFINE one == {u}
           places == 1 .. n
<1> HIDE DEF one, places
<1>3. IsFiniteSet(one \X places) /\ Cardinality(one \X places) = Cardinality(one) * Cardinality(places)
  BY <1>1, <1>2, FS_Product DEF one, places
<1>4. Cardinality(one) * Cardinality(places) = n
  BY <1>1, <1>2 DEF one, places
<1>5. QED
  BY <1>3, <1>4 DEF one, places

\* Tickets ask for items, whose size is a number.
LEMMA AskedTypes ==
    ASSUME NEW t \in Ticket
    PROVE  /\ t.request.item \in Item /\ SizeOf(t.request.item) \in Nat \ {0}
           /\ t.expires_at \in Nat /\ t.request.item.text \in Texts
           /\ t.request.item.under \in KeyIds /\ t # None
<1>1. t.request.item \in Item /\ t.expires_at \in Nat
  BY DEF Ticket, Request
<1>2. t # None
  BY NoneAssumption
<1>3. QED
  BY <1>1, <1>2, SizeOfNat DEF Item

\* Tickets reserve finitely many bytes.
LEMMA UnitsFinite ==
    ASSUME NEW tickets, NEW uploads \in SUBSET UploadIds, \A u \in uploads : tickets[u] \in Ticket
    PROVE  /\ IsFiniteSet(Units(tickets, uploads))
           /\ Cardinality(Units(tickets, uploads)) \in Nat
<1> DEFINE Part(u) == {u} \X (1 .. SizeOf(tickets[u].request.item))
           parts == {Part(u) : u \in uploads}
           f == [u \in uploads |-> Part(u)]
<1>1. IsFiniteSet(uploads)
  BY UploadIdsAssumption, FS_Subset
<1>2. f \in Surjection(uploads, parts)
  BY DEF Surjection
<1>3. \A u \in uploads : IsFiniteSet(Part(u))
  BY AskedTypes, UnitsOfOne
<1>4. \A part \in parts : IsFiniteSet(part)
  BY <1>3
<1>5. Units(tickets, uploads) = UNION parts
  BY DEF Units
<1> HIDE DEF f, parts
<1>6. IsFiniteSet(parts)
  BY <1>1, <1>2, FS_Surjection, Zenon
<1>7. IsFiniteSet(UNION parts)
  BY <1>4, <1>6, FS_UNION
<1>8. QED
  BY <1>5, <1>7, FS_CardinalityType

\* Fewer uploads reserve no more.
LEMMA UnitsFewer ==
    ASSUME NEW tickets, NEW uploads \in SUBSET UploadIds, \A u \in uploads : tickets[u] \in Ticket,
           NEW others, NEW fewer \in SUBSET uploads, \A u \in fewer : others[u] = tickets[u]
    PROVE  Cardinality(Units(others, fewer)) =< Cardinality(Units(tickets, uploads))
<1>1. Units(others, fewer) \subseteq Units(tickets, uploads)
  BY DEF Units
<1>2. QED
  BY <1>1, UnitsFinite, FS_Subset

\* One upload more reserves its size more.
LEMMA UnitsAdd ==
    ASSUME NEW tickets, NEW uploads \in SUBSET UploadIds, \A u \in uploads : tickets[u] \in Ticket,
           NEW u \in UploadIds \ uploads, tickets[u] \in Ticket
    PROVE  Cardinality(Units(tickets, uploads \cup {u}))
              = Cardinality(Units(tickets, uploads)) + SizeOf(tickets[u].request.item)
<1> DEFINE one == {u} \X (1 .. SizeOf(tickets[u].request.item))
           rest == Units(tickets, uploads)
<1>1. IsFiniteSet(one) /\ Cardinality(one) = SizeOf(tickets[u].request.item)
  BY AskedTypes, UnitsOfOne
<1>2. Units(tickets, uploads \cup {u}) = rest \cup one
  BY DEF Units
<1>3. rest \cap one = {}
  BY DEF Units
<1>4. IsFiniteSet(rest) /\ Cardinality(rest) \in Nat
  BY UnitsFinite
<1> HIDE DEF one, rest
<1>5. /\ Cardinality(rest \cup one)
            = Cardinality(rest) + Cardinality(one) - Cardinality(rest \cap one)
      /\ Cardinality({}) = 0
  BY <1>1, <1>4, FS_Union, FS_EmptySet
<1>6. Cardinality(rest \cup one) = Cardinality(rest) + Cardinality(one)
  <2>1. Cardinality(one) \in Nat
    BY <1>1, AskedTypes
  <2>2. Cardinality(rest \cap one) = 0
    BY <1>3, <1>5
  <2>3. QED
    BY <1>4, <1>5, <2>1, <2>2
<1>7. QED
  BY <1>1, <1>2, <1>6 DEF rest

\* A live upload has a ticket.
LEMMA PromisedTypes ==
    ASSUME TypeOK
    PROVE  /\ Promised \in SUBSET UploadIds
           /\ \A u \in Promised : rec.tickets[u] \in Ticket
BY RecordTypes DEF Promised

\* What is stored and what is outstanding are numbers.
LEMMA StoredNat ==
    ASSUME SafetyInv
    PROVE  /\ BytesOf(gens[rec.generation]) \in Nat
           /\ rec.plain # None => BytesOf(gens[rec.plain]) \in Nat
           /\ StoredBytes \in Nat
<1>1. /\ rec.generation \in Gens /\ (rec.plain # None => rec.plain \in Gens)
      /\ FiniteShelf
  BY RecordTypes DEF SafetyInv, TypeInv
<1>2. \A g \in Gens : BytesOf(gens[g]) \in Nat
  BY <1>1, BytesNat DEF FiniteShelf
<1>3. QED
  BY <1>1, <1>2 DEF StoredBytes

\* After a step too.
LEMMA StoredNatNext == SafetyInv' => (StoredBytes \in Nat)'
<1>1. SafetyInv => StoredBytes \in Nat
  BY StoredNat
<1>2. QED
  BY <1>1, PTL

\* A step that issues no ticket and adds no bytes keeps the quota, if the content of each
\* upload that has its content on the shelf stays there, in whatever generation.
LEMMA QuotaKept ==
    ASSUME SafetyInv, SafetyInv', NEW uploads \in SUBSET UploadIds,
           Covered(uploads), StoredBytes + Outstanding(uploads) =< Quota,
           now' \in Nat, now' >= now,
           \A u \in UploadIds : rec'.tickets[u] \in {rec.tickets[u], None},
           StoredBytes' =< StoredBytes,
           rec'.seal = None => rec.seal = None,
           \A u \in uploads : rec'.tickets[u] = rec.tickets[u] =>
              \A i \in gens[Where(u)] : \E j \in gens'[Where(u)'] : j.text = i.text,
           \A u, v \in uploads :
              rec'.tickets[u] = rec.tickets[u] /\ rec'.tickets[v] = rec.tickets[v] =>
                 (Where(u)' = Where(v)' => Where(u) = Where(v))
    PROVE  QuotaInv'
<1>0. TypeOK /\ TypeOK'
  BY DEF SafetyInv, TypeInv
<1>1. PICK kept \in SUBSET UploadIds : kept = uploads \cap Promised'
  OBVIOUS
<1>2. ASSUME NEW u \in Promised'
      PROVE  rec'.tickets[u] = rec.tickets[u] /\ u \in Promised
  <2>1. u \in UploadIds /\ rec'.tickets[u] # None /\ rec'.tickets[u].expires_at > now'
        /\ rec'.tickets[u].request.in_rewrite = FALSE
    BY DEF Promised
  <2>2. rec'.tickets[u] = rec.tickets[u] /\ rec.tickets[u] \in Ticket
    BY <1>0, <2>1, RecordTypes
  <2>3. rec.tickets[u].expires_at > now
    BY <1>0, <2>1, <2>2, AskedTypes DEF TypeOK
  <2>4. QED
    BY <2>1, <2>2, <2>3 DEF Promised
<1>3. Covered(kept)'
  <2>1. kept \subseteq Promised'
    BY <1>1
  <2>2. ASSUME NEW u \in kept
        PROVE  /\ \E i \in gens'[Where(u)'] : i.text = Asked(u)'.text
               /\ rec'.seal = None => Asked(u)'.under = None
    BY <1>1, <1>2 DEF Covered, Asked
  <2>3. ASSUME NEW u \in kept, NEW v \in kept, Asked(u)'.text = Asked(v)'.text, Where(u)' = Where(v)'
        PROVE  u = v
    BY <1>1, <1>2, <2>3 DEF Covered, Asked
  <2>4. QED
    BY <2>1, <2>2, <2>3, Zenon DEF Covered
<1>4. Outstanding(kept)' =< Outstanding(uploads)
  <2>1. Promised' \ kept \subseteq Promised \ uploads
    BY <1>1, <1>2
  <2>2. \A u \in Promised' \ kept : rec'.tickets[u] = rec.tickets[u]
    BY <1>2
  <2>3. Promised \ uploads \in SUBSET UploadIds /\ \A u \in Promised \ uploads : rec.tickets[u] \in Ticket
    BY <1>0, PromisedTypes
  <2>4. QED
    BY <2>1, <2>2, <2>3, UnitsFewer DEF Outstanding
<1>5. StoredBytes' \in Nat /\ StoredBytes \in Nat
  BY StoredNat, StoredNatNext
<1>6. Outstanding(kept)' \in Nat /\ Outstanding(uploads) \in Nat
  <2>1. Promised' \ kept \in SUBSET UploadIds /\ Promised \ uploads \in SUBSET UploadIds
    BY DEF Promised
  <2>2. /\ \A u \in Promised' \ kept : rec'.tickets[u] \in Ticket
        /\ \A u \in Promised \ uploads : rec.tickets[u] \in Ticket
    BY <1>0, <1>2, PromisedTypes
  <2>3. QED
    BY <2>1, <2>2, UnitsFinite DEF Outstanding
<1>7. StoredBytes' + Outstanding(kept)' =< Quota
  BY <1>4, <1>5, <1>6, LimitsAssumption
<1>8. QED
  BY <1>3, <1>7 DEF QuotaInv

\* A step that issues no ticket, and moves and touches nothing that is stored.
LEMMA QuotaUnmoved ==
    ASSUME SafetyInv, SafetyInv', QuotaInv, now' \in Nat, now' >= now,
           \A u \in UploadIds : rec'.tickets[u] \in {rec.tickets[u], None},
           rec'.generation = rec.generation, rec'.plain = rec.plain,
           rec'.seal = None => rec.seal = None,
           gens'[rec.generation] = gens[rec.generation],
           rec.plain # None => gens'[rec.plain] = gens[rec.plain]
    PROVE  QuotaInv'
<1>1. PICK uploads \in SUBSET UploadIds :
         Covered(uploads) /\ StoredBytes + Outstanding(uploads) =< Quota
  BY DEF QuotaInv
<1>2. StoredBytes' =< StoredBytes
  <2>1. StoredBytes' = StoredBytes
    BY DEF StoredBytes
  <2>2. QED
    BY <2>1, StoredNat
<1>3. \A u \in uploads : rec'.tickets[u] = rec.tickets[u] => Where(u)' = Where(u)
  BY DEF Where, Asked
<1>4. \A u \in uploads : gens'[Where(u)] = gens[Where(u)]
  BY DEF Where
<1>5. QED
  BY <1>1, <1>2, <1>3, <1>4, QuotaKept

\* A copy of the items under another key, or of some of them, has no more bytes.
LEMMA CopiesAreNoLarger ==
    ASSUME NEW old \in SUBSET Item, NEW new \in SUBSET Item, NEW key,
           IsFiniteSet(ByteSet(old)),
           \A i \in new : i.under = key,
           \A i, j \in new : SameContent(i, j) => i = j,
           \A i \in new : \E j \in old : j.text = i.text
    PROVE  BytesOf(new) =< BytesOf(old)
<1> DEFINE Of(i) == CHOOSE j \in old : j.text = i.text
           f == [b \in ByteSet(new) |-> <<Of(b[1]), b[2]>>]
<1>1. ASSUME NEW i \in new
      PROVE  Of(i) \in old /\ Of(i).text = i.text /\ SizeOf(Of(i)) = SizeOf(i)
  BY DEF SizeOf
<1>2. ASSUME NEW i \in new, NEW j \in new, Of(i) = Of(j) PROVE i = j
  BY <1>1, <1>2 DEF SameContent
<1> HIDE DEF Of
<1>3. ASSUME NEW b \in ByteSet(new)
      PROVE  b[1] \in new /\ b[2] \in 1 .. SizeOf(b[1]) /\ b = <<b[1], b[2]>>
  BY DEF ByteSet
<1>4. ASSUME NEW b \in ByteSet(new) PROVE f[b] \in ByteSet(old)
  <2>1. <<Of(b[1]), b[2]>> \in {Of(b[1])} \X (1 .. SizeOf(Of(b[1])))
    BY <1>1, <1>3
  <2>2. QED
    BY <1>1, <1>3, <2>1 DEF ByteSet
<1>5. ASSUME NEW a \in ByteSet(new), NEW b \in ByteSet(new), f[a] = f[b] PROVE a = b
  <2>1. Of(a[1]) = Of(b[1]) /\ a[2] = b[2]
    BY <1>5
  <2>2. QED
    BY <1>2, <1>3, <2>1
<1>6. f \in Injection(ByteSet(new), ByteSet(old))
  BY <1>4, <1>5 DEF Injection, IsInjective
<1> HIDE DEF f
<1>7. QED
  BY <1>6, FS_Injection, Zenon DEF BytesOf

\* While a workspace may be written to, an upload that has its content on the shelf has it
\* in the current generation.
LEMMA WrittenHere ==
    ASSUME StoreInv, NEW u, CheckWritable(Asked(u).under)
    PROVE  Where(u) = rec.generation
<1>1. rec.seal \in Seal \cup {None} /\ KeyOf(rec.seal) = Asked(u).under
  BY DEF StoreInv, SafetyInv, TypeInv, TypeOK, WorkspaceRecord, CheckWritable
<1>2. Asked(u).under = None => rec.plain = None
  BY <1>1, SealedByKey DEF StoreInv, NothingAside
<1>3. QED
  BY <1>2 DEF Where

\* A text that is current is found again by its content key.
LEMMA FoundAgain ==
    ASSUME StoreInv, NEW item, item.under = KeyOf(rec.seal),
           NEW i \in gens[rec.generation], i.text = item.text
    PROVE  Same(rec.generation, item) # {}
<1>1. i.under = KeyOf(rec.seal)
  BY DEF StoreInv, SafetyInv, Shelved, ItemsUnderTheirKey
<1>2. QED
  BY <1>1 DEF Same, SameContent

\* A ticket is issued only if what is stored, all that is promised and the new content
\* fit (begin_upload).
LEMMA IssuedQuota ==
    ASSUME AccountInv, SafetyInv', QuotaInv, CommitMayFail = FALSE,
           NEW c \in ApiKeys, NEW r \in Request, BeginUpload(c, r),
           NEW u \in UploadIds \ issued, issued' = issued \cup {u},
           NEW ticket \in Ticket, ticket.request = r,
           Store([rec EXCEPT !.tickets[u] = ticket], {}, {})
    PROVE  QuotaInv'
<1>1. /\ TypeOK /\ SafetyInv /\ rec.tickets[u] = None
      /\ open => \A g \in LiveGenerations : rec.used[g] = BytesOf(gens[g])
  BY DEF AccountInv, StoreInv, SafetyInv, TypeInv, Ticketed, Balanced, BooksBalance
<1>2. rec' = [rec EXCEPT !.tickets[u] = ticket] /\ UNCHANGED <<gens, now>> /\ open
  BY DEF Store, BeginUpload
<1>3. /\ KeepsPointers /\ rec'.tickets = [rec.tickets EXCEPT ![u] = ticket]
  BY <1>1, <1>2 DEF TypeOK, WorkspaceRecord, KeepsPointers
<1>4. /\ rec'.tickets[u] = ticket
      /\ \A v \in UploadIds : v # u => rec'.tickets[v] = rec.tickets[v]
  BY <1>1, <1>3, RecordTypes
<1>5. Held(r) + SizeOf(r.item) =< Quota
  BY Zenon DEF BeginUpload, AnswerStored, AnswerTicket, IssueTicket
<1>6. PICK uploads \in SUBSET UploadIds :
         Covered(uploads) /\ StoredBytes + Outstanding(uploads) =< Quota
  BY DEF QuotaInv
<1>7. u \notin Promised /\ u \notin uploads
  BY <1>1, <1>6 DEF Promised, Covered
<1>8. Promised \subseteq Promised' /\ Promised' \subseteq Promised \cup {u}
  BY <1>2, <1>4, <1>7 DEF Promised
<1>9. Covered(uploads)'
  <2>1. \A v \in uploads : Asked(v)' = Asked(v) /\ Where(v)' = Where(v)
    BY <1>3, <1>4, <1>7 DEF Asked, Where, KeepsPointers
  <2>2. QED
    BY <1>2, <1>3, <1>6, <1>8, <2>1 DEF Covered, KeepsPointers
<1>10. StoredBytes' = StoredBytes /\ StoredBytes \in Nat
  BY <1>1, <1>2, <1>3, StoredNat DEF StoredBytes, KeepsPointers
<1>11. PICK tickets : tickets = rec'.tickets
  OBVIOUS
<1>12. Promised \in SUBSET UploadIds /\ \A v \in Promised : rec.tickets[v] \in Ticket
  BY <1>1, PromisedTypes
<1>13. CASE r.in_rewrite # FALSE
  <2>1. Promised' = Promised
    BY <1>4, <1>8, <1>13 DEF Promised
  <2>2. Outstanding(uploads)' =< Outstanding(uploads)
    BY <1>4, <1>7, <1>12, <2>1, UnitsFewer DEF Outstanding
  <2>3. Outstanding(uploads)' \in Nat /\ Outstanding(uploads) \in Nat
    BY <1>4, <1>7, <1>12, <2>1, UnitsFinite DEF Outstanding
  <2>4. QED
    BY <1>6, <1>9, <1>10, <2>2, <2>3, LimitsAssumption DEF QuotaInv
<1>14. CASE r.in_rewrite = FALSE
  <2> DEFINE more == (Promised \ uploads) \cup {u}
  <2>1. \A v \in more : tickets[v] \in Ticket
    BY <1>4, <1>11, <1>12
  <2>2. more \in SUBSET UploadIds /\ Promised' \ uploads \in SUBSET more
    BY <1>7, <1>8, <1>12
  <2>3. Outstanding(uploads)' =< Cardinality(Units(tickets, more))
    BY <1>11, <2>1, <2>2, UnitsFewer DEF Outstanding
  <2>4. Cardinality(Units(tickets, more))
           = Cardinality(Units(tickets, Promised \ uploads)) + SizeOf(r.item)
    BY <1>4, <1>7, <1>11, <1>12, <2>1, UnitsAdd
  <2>5. Cardinality(Units(tickets, Promised \ uploads)) =< Cardinality(Units(rec.tickets, Promised))
    BY <1>4, <1>7, <1>11, <1>12, UnitsFewer
  <2>6. ReservedBy(FALSE) = Cardinality(Units(rec.tickets, Promised))
    BY DEF ReservedBy, Units, Promised
  <2>7. Held(r) = StoredBytes + ReservedBy(FALSE)
    <3>1. /\ rec.used[rec.generation] = BytesOf(gens[rec.generation])
          /\ rec.plain # None => rec.used[rec.plain] = BytesOf(gens[rec.plain])
      BY <1>1, <1>2 DEF LiveGenerations
    <3>2. QED
      BY <1>14, <3>1, Zenon DEF Held, StoredBytes
  <2>8. /\ Outstanding(uploads)' \in Nat /\ Cardinality(Units(tickets, more)) \in Nat
        /\ Cardinality(Units(tickets, Promised \ uploads)) \in Nat
        /\ Cardinality(Units(rec.tickets, Promised)) \in Nat
        /\ SizeOf(r.item) \in Nat
    <3>1. /\ \A v \in Promised' \ uploads : rec'.tickets[v] \in Ticket
          /\ \A v \in Promised \ uploads : tickets[v] \in Ticket
          /\ Promised' \ uploads \in SUBSET UploadIds /\ Promised \ uploads \in SUBSET UploadIds
      BY <1>11, <1>12, <2>1, <2>2
    <3>2. SizeOf(r.item) \in Nat
      BY SizeOfNat DEF Request
    <3>3. QED
      BY <1>12, <2>1, <2>2, <3>1, <3>2, UnitsFinite DEF Outstanding
  <2> HIDE DEF more
  <2>9. StoredBytes' + Outstanding(uploads)' =< Quota
    <3>1. StoredBytes + Cardinality(Units(rec.tickets, Promised)) + SizeOf(r.item) =< Quota
      BY <1>5, <2>6, <2>7, Zenon
    <3>2. ASSUME NEW s \in Nat, NEW o \in Nat, NEW m \in Nat, NEW p \in Nat, NEW q \in Nat,
                 NEW z \in Nat, o =< m, m = p + z, p =< q, s + q + z =< Quota
          PROVE  s + o =< Quota
      BY <3>2, LimitsAssumption
    <3> HIDE DEF Outstanding, StoredBytes, Units, SizeOf
    <3>3. StoredBytes + Outstanding(uploads)' =< Quota
      BY <1>10, <2>3, <2>4, <2>5, <2>8, <3>1, <3>2
    <3>4. QED
      BY <1>10, <3>3
  <2>10. QED
    BY <1>9, <2>9 DEF QuotaInv
<1>15. QED
  BY <1>13, <1>14

\* What commitUpload publishes was promised and is promised no more, whether its record is
\* stored or it is killed before: then the upload has its content on the shelf
\* (commit_upload).
LEMMA PublishQuota ==
    ASSUME AccountInv, SafetyInv', QuotaInv, NEW c \in ApiKeys, NEW u \in UploadIds,
           Publishes(c, u), UNCHANGED now
    PROVE  QuotaInv'
<1> DEFINE r == rec.tickets[u].request
           g == UploadTarget(r)
           n == rec.used[g] + SizeOf(r.item)
           outcome == [item |-> r.item, created |-> TRUE, staged |-> r.in_rewrite]
           used == [rec.used EXCEPT ![g] = n]
<1>1. /\ TypeOK /\ FiniteShelf /\ SafetyInv /\ StoreInv /\ HeaderWrapsTheKey /\ now \in Nat
  BY DEF AccountInv, StoreInv, SafetyInv, TypeInv, TypeOK
<1>2. /\ rec.tickets[u] # None /\ rec.tickets[u].expires_at > now
      /\ MayUpload(c, r) /\ Same(g, r.item) = {}
      /\ gens' = [gens EXCEPT ![g] = @ \cup {r.item}]
      /\ FinishUpload([rec EXCEPT !.used[g] = n], c, u, outcome) \/ NotStored
  BY Zenon DEF Publishes, Publish
<1>3. rec.tickets[u] \in Ticket /\ r.item \in Item /\ r.in_rewrite \in BOOLEAN
  <2>1. rec.tickets[u] \in Ticket
    BY <1>1, <1>2, RecordTypes
  <2>2. QED
    BY <2>1 DEF Ticket, Request
<1>4. g \in LiveGenerations /\ g \in Gens
  BY <1>1, <1>2, TargetLives, Zenon
<1>5. \A h \in Gens : gens'[h] = IF h = g THEN gens[g] \cup {r.item} ELSE gens[h]
  BY <1>1, <1>2, <1>4 DEF TypeOK
<1>6. KeepsPointers /\ (rec' = rec \/ rec'.tickets = [rec.tickets EXCEPT ![u] = None])
  <2>1. CASE NotStored
    BY <2>1 DEF NotStored, KeepsPointers
  <2>2. CASE FinishUpload([rec EXCEPT !.used[g] = n], c, u, outcome)
    <3> HIDE DEF g, n, outcome
    <3>1. [rec EXCEPT !.used[g] = n] = [rec EXCEPT !.used = used]
      BY <1>1 DEF TypeOK, WorkspaceRecord
    <3> HIDE DEF used
    <3>2. FinishUpload([rec EXCEPT !.used = used], c, u, outcome)
      BY <2>2, <3>1, Zenon
    <3>3. QED
      BY <1>1, <3>2, FinishUploadEffect, Zenon
  <2>3. QED
    BY <1>2, <2>1, <2>2, Zenon
<1>7. /\ \A v \in UploadIds : v # u => rec'.tickets[v] = rec.tickets[v]
      /\ rec' = rec \/ rec'.tickets[u] = None
      /\ \A v \in UploadIds : rec'.tickets[v] \in {rec.tickets[v], None}
  BY <1>1, <1>6, RecordTypes
<1>8. rec.generation \in Gens /\ (rec.plain # None => rec.plain \in Gens) /\ rec.plain # rec.generation
  BY <1>1, RecordTypes DEF SafetyInv, Shelved, GenerationsNeverReused
<1>9. CASE r.in_rewrite
  <2>1. g # rec.generation /\ g # rec.plain
    BY <1>1, <1>2, <1>9 DEF SafetyInv, Shelved, GenerationsNeverReused, MayUpload, HeldSession, UploadTarget
  <2>2. /\ gens'[rec.generation] = gens[rec.generation]
        /\ rec.plain # None => gens'[rec.plain] = gens[rec.plain]
    BY <1>5, <1>8, <2>1
  <2>3. now' \in Nat /\ now' >= now
    BY <1>1
  <2> HIDE DEF r, g
  <2>4. QED
    BY <1>1, <1>6, <1>7, <2>2, <2>3, QuotaUnmoved DEF KeepsPointers
<1>10. CASE ~r.in_rewrite
  <2>1. g = rec.generation /\ CheckWritable(Asked(u).under) /\ Asked(u) = r.item
    BY <1>2, <1>10 DEF UploadTarget, MayUpload, Asked
  <2>2. Where(u) = rec.generation /\ r.item.under = KeyOf(rec.seal)
    BY <1>1, <2>1, WrittenHere DEF CheckWritable
  <2>3. \A i \in gens[rec.generation] : i.text # r.item.text
    BY <1>1, <1>2, <2>1, <2>2, FoundAgain
  <2>4. u \in Promised
    BY <1>2, <1>3, <1>10 DEF Promised
  <2>5. PICK uploads \in SUBSET UploadIds :
           Covered(uploads) /\ StoredBytes + Outstanding(uploads) =< Quota
    BY DEF QuotaInv
  <2>6. \A v \in uploads : Where(v) = rec.generation => Asked(v).text # Asked(u).text
    BY <2>1, <2>3, <2>5 DEF Covered
  <2>7. u \notin uploads
    BY <2>2, <2>6
  <2> DEFINE rest == (Promised \ uploads) \ {u}
  <2>8. Promised \in SUBSET UploadIds /\ \A v \in Promised : rec.tickets[v] \in Ticket
    BY <1>1, PromisedTypes
  <2>9. StoredBytes' = StoredBytes + SizeOf(r.item)
    <3>1. r.item \notin gens[g]
      BY <2>1, <2>3
    <3>2. BytesOf(gens[g] \cup {r.item}) = BytesOf(gens[g]) + SizeOf(r.item)
      BY <1>1, <1>3, <1>4, <3>1, BytesAdd DEF FiniteShelf
    <3>3. gens'[rec.generation] = gens[g] \cup {r.item} /\ (rec.plain # None => gens'[rec.plain] = gens[rec.plain])
      BY <1>5, <1>8, <2>1
    <3>4. SizeOf(r.item) \in Nat
      BY <1>3, SizeOfNat
    <3> HIDE DEF r, g
    <3>5. QED
      BY <1>1, <1>6, <2>1, <3>2, <3>3, <3>4, StoredNat DEF StoredBytes, KeepsPointers
  <2>10. Outstanding(uploads) = Cardinality(Units(rec.tickets, rest)) + SizeOf(r.item)
    <3>1. Promised \ uploads = rest \cup {u}
      BY <2>4, <2>7
    <3>2. Cardinality(Units(rec.tickets, rest \cup {u})) = Cardinality(Units(rec.tickets, rest)) + SizeOf(r.item)
      BY <1>3, <2>8, UnitsAdd
    <3>3. QED
      BY <3>1, <3>2 DEF Outstanding
  <2>11. /\ Cardinality(Units(rec.tickets, rest)) \in Nat /\ SizeOf(r.item) \in Nat
         /\ StoredBytes \in Nat
    BY <1>1, <1>3, <2>8, UnitsFinite, StoredNat, SizeOfNat
  <2>12. PICK kept \in SUBSET UploadIds :
            kept = IF rec' = rec THEN uploads \cup {u} ELSE uploads
    OBVIOUS
  <2>13. /\ \A v \in kept : v \in Promised' /\ Asked(v)' = Asked(v) /\ Where(v)' = Where(v)
         /\ Promised' \ kept = rest
         /\ \A v \in rest : rec'.tickets[v] = rec.tickets[v]
    <3>1. CASE rec' = rec
      BY <2>4, <2>5, <2>12, <3>1 DEF Covered, Promised, Asked, Where
    <3>2. CASE rec' # rec
      <4>1. rec'.tickets[u] = None
        BY <1>7, <3>2
      <4>2. \A v \in UploadIds : v \in Promised' <=> v \in Promised /\ v # u
        BY <1>7, <4>1 DEF Promised
      <4>3. kept = uploads /\ \A v \in kept : rec'.tickets[v] = rec.tickets[v]
        BY <1>7, <2>7, <2>12, <3>2
      <4>4. Promised' = Promised \ {u}
        BY <4>2, <2>8 DEF Promised
      <4>5. \A v \in kept : v \in Promised'
        BY <2>5, <2>7, <4>3, <4>4 DEF Covered
      <4>6. \A v \in kept : Asked(v)' = Asked(v) /\ Where(v)' = Where(v)
        BY <1>6, <4>3 DEF Asked, Where, KeepsPointers
      <4>7. Promised' \ kept = rest
        BY <4>3, <4>4
      <4>8. \A v \in rest : rec'.tickets[v] = rec.tickets[v]
        BY <1>7, <2>8
      <4>9. QED
        BY <4>5, <4>6, <4>7, <4>8
    <3>3. QED
      BY <3>1, <3>2
  <2>14. Covered(kept)'
    <3>1. \A v \in kept : v = u \/ v \in uploads
      BY <2>12
    <3>2. ASSUME NEW v \in kept PROVE \E i \in gens'[Where(v)] : i.text = Asked(v).text
      <4>1. CASE v = u
        BY <1>5, <1>8, <2>1, <2>2, <4>1
      <4>2. CASE v \in uploads
        <5>1. Where(v) \in Gens
          BY <1>8 DEF Where
        <5>2. gens[Where(v)] \subseteq gens'[Where(v)]
          BY <1>5, <5>1
        <5>3. QED
          BY <2>5, <4>2, <5>2 DEF Covered
      <4>3. QED
        BY <3>1, <4>1, <4>2
    <3>3. ASSUME NEW v \in kept, rec'.seal = None PROVE Asked(v).under = None
      <4>1. rec.seal = None
        BY <1>6, <3>3 DEF KeepsPointers
      <4>2. QED
        BY <2>1, <2>2, <2>5, <3>1, <4>1 DEF Covered, KeyOf
    <3>4. ASSUME NEW v \in kept, NEW w \in kept, Asked(v).text = Asked(w).text, Where(v) = Where(w)
          PROVE  v = w
      BY <2>2, <2>5, <2>6, <3>1, <3>4 DEF Covered
    <3>5. QED
      BY <2>13, <3>2, <3>3, <3>4, Zenon DEF Covered
  <2>15. Outstanding(kept)' = Cardinality(Units(rec.tickets, rest))
    <3>1. Units(rec'.tickets, rest) = Units(rec.tickets, rest)
      BY <2>13 DEF Units
    <3>2. QED
      BY <2>13, <3>1 DEF Outstanding
  <2>16. StoredBytes' + Outstanding(kept)' =< Quota
    <3> HIDE DEF rest, r
    <3>1. QED
      BY <2>5, <2>9, <2>10, <2>11, <2>15, LimitsAssumption
  <2>17. QED
    BY <2>14, <2>16 DEF QuotaInv
<1>11. QED
  BY <1>9, <1>10

\* deleteItem makes as much room as the upload whose content it deletes may need, if there
\* is one (delete_item).
LEMMA DeleteItemQuota ==
    ASSUME AccountInv, SafetyInv', QuotaInv, NEW c \in ApiKeys, NEW partition, NEW item \in Item,
           NEW expected \in KeyIds, DeleteItem(c, partition, item, expected)
    PROVE  QuotaInv'
<1> DEFINE g == GenerationOf(partition)
           less == IF rec.used[g] < SizeOf(item) THEN 0 ELSE rec.used[g] - SizeOf(item)
<1>1. TypeOK /\ FiniteShelf /\ SafetyInv
  BY DEF AccountInv, StoreInv, SafetyInv, TypeInv
<1>2. /\ Store([rec EXCEPT !.used[g] = less], {}, {}) \/ NotStored
      /\ gens' = [gens EXCEPT ![g] = @ \ {item}]
      /\ g # None /\ item \in gens[g] /\ UNCHANGED now
  BY Zenon DEF DeleteItem
<1>3. g \in {rec.generation, rec.plain} /\ g \in Gens
  <2>1. g \in {rec.generation, rec.plain}
    BY DEF GenerationOf
  <2>2. QED
    BY <1>1, <1>2, <2>1, RecordTypes
<1> HIDE DEF g, less
<1>4. KeepsPointers /\ rec'.tickets = rec.tickets
  BY <1>1, <1>2 DEF Store, NotStored, TypeOK, WorkspaceRecord, KeepsPointers
<1>5. \A h \in Gens : gens'[h] = IF h = g THEN gens[g] \ {item} ELSE gens[h]
  BY <1>1, <1>2, <1>3 DEF TypeOK
<1>6. rec.generation \in Gens /\ (rec.plain # None => rec.plain \in Gens) /\ rec.plain # rec.generation
  BY <1>1, RecordTypes DEF SafetyInv, Shelved, GenerationsNeverReused
<1>7. PICK uploads \in SUBSET UploadIds :
         Covered(uploads) /\ StoredBytes + Outstanding(uploads) =< Quota
  BY DEF QuotaInv
<1>8. StoredBytes = StoredBytes' + SizeOf(item) /\ SizeOf(item) \in Nat /\ StoredBytes' \in Nat
  <2>1. /\ BytesOf(gens[g]) = BytesOf(gens[g] \ {item}) + SizeOf(item)
        /\ BytesOf(gens[g] \ {item}) \in Nat /\ SizeOf(item) \in Nat
    BY <1>1, <1>2, <1>3, BytesRemove, BytesNat, SizeOfNat DEF FiniteShelf
  <2>2. /\ BytesOf(gens[rec.generation]) \in Nat
        /\ rec.plain # None => BytesOf(gens[rec.plain]) \in Nat
    BY <1>1, StoredNat
  <2>3. /\ gens'[rec.generation] = IF rec.generation = g THEN gens[g] \ {item} ELSE gens[rec.generation]
        /\ rec.plain # None =>
              gens'[rec.plain] = IF rec.plain = g THEN gens[g] \ {item} ELSE gens[rec.plain]
    BY <1>5, <1>6
  <2>4. CASE g = rec.generation
    BY <1>4, <1>6, <2>1, <2>2, <2>3, <2>4 DEF StoredBytes, KeepsPointers
  <2>5. CASE g = rec.plain
    <3>1. rec.plain # None /\ rec.generation # g /\ rec'.plain = rec.plain
          /\ rec'.generation = rec.generation
      BY <1>2, <1>4, <1>6, <2>5 DEF KeepsPointers
    <3>2. /\ gens'[rec.generation] = gens[rec.generation]
          /\ gens'[rec.plain] = gens[g] \ {item}
      BY <2>3, <2>5, <3>1
    <3>3. StoredBytes' = BytesOf(gens[rec.generation]) + BytesOf(gens[g] \ {item})
      BY <3>1, <3>2 DEF StoredBytes
    <3>4. StoredBytes = BytesOf(gens[rec.generation]) + BytesOf(gens[g])
      BY <2>5, <3>1 DEF StoredBytes
    <3>5. QED
      BY <2>1, <2>2, <3>3, <3>4
  <2>6. QED
    BY <1>3, <2>4, <2>5
<1>9. /\ Promised' = Promised
      /\ \A u : Asked(u)' = Asked(u) /\ Where(u)' = Where(u)
  BY <1>2, <1>4 DEF Promised, Asked, Where, KeepsPointers
<1>10. Promised \in SUBSET UploadIds /\ \A u \in Promised : rec.tickets[u] \in Ticket
  BY <1>1, PromisedTypes
<1>11. PICK kept \in SUBSET UploadIds :
          kept = {u \in uploads : ~(Where(u) = g /\ Asked(u).text = item.text)}
  OBVIOUS
<1>12. Covered(kept)'
  <2>1. ASSUME NEW u \in kept PROVE \E i \in gens'[Where(u)] : i.text = Asked(u).text
    <3>1. PICK i \in gens[Where(u)] : i.text = Asked(u).text
      BY <1>7, <1>11 DEF Covered
    <3>2. Where(u) \in Gens
      BY <1>6 DEF Where
    <3>3. i \in gens'[Where(u)]
      BY <1>5, <1>11, <3>1, <3>2
    <3>4. QED
      BY <3>1, <3>3
  <2>2. kept \subseteq uploads /\ (rec'.seal = None => rec.seal = None)
    BY <1>4, <1>11 DEF KeepsPointers
  <2>3. QED
    BY <1>7, <1>9, <2>1, <2>2 DEF Covered
<1>13. Outstanding(kept)' = Cardinality(Units(rec.tickets, Promised \ kept))
  BY <1>4, <1>9 DEF Outstanding
<1>14. Cardinality(Units(rec.tickets, Promised \ kept)) =< Outstanding(uploads) + SizeOf(item)
  <2>1. Cardinality(Units(rec.tickets, Promised \ uploads)) \in Nat
    BY <1>10, UnitsFinite
  <2>2. CASE kept = uploads
    BY <1>8, <2>1, <2>2 DEF Outstanding
  <2>3. CASE kept # uploads
    <3>1. PICK u \in uploads : Where(u) = g /\ Asked(u).text = item.text
      BY <1>11, <2>3
    <3>2. uploads \ kept = {u}
      BY <1>7, <1>11, <3>1 DEF Covered
    <3>3. u \in Promised /\ kept \subseteq uploads
      BY <1>7, <1>11 DEF Covered
    <3>4. Promised \ kept = (Promised \ uploads) \cup {u}
      BY <1>7, <3>2, <3>3 DEF Covered
    <3>5. SizeOf(rec.tickets[u].request.item) = SizeOf(item)
      BY <3>1 DEF SizeOf, Asked
    <3>6. Cardinality(Units(rec.tickets, (Promised \ uploads) \cup {u}))
             = Cardinality(Units(rec.tickets, Promised \ uploads)) + SizeOf(rec.tickets[u].request.item)
      BY <1>10, <3>3, UnitsAdd
    <3>7. QED
      BY <1>8, <2>1, <3>4, <3>5, <3>6 DEF Outstanding
  <2>4. QED
    BY <2>2, <2>3
<1>15. Cardinality(Units(rec.tickets, Promised \ kept)) \in Nat /\ Outstanding(uploads) \in Nat
  BY <1>10, UnitsFinite DEF Outstanding
<1>16. StoredBytes' + Outstanding(kept)' =< Quota
  BY <1>7, <1>8, <1>13, <1>14, <1>15, LimitsAssumption
<1>17. QED
  BY <1>12, <1>16 DEF QuotaInv

\* Time does not run backwards.
LEMMA ClockRuns ==
    ASSUME TypeOK, [Next]_vars
    PROVE  now' \in Nat /\ now' >= now
<1>1. now \in Nat
  BY DEF TypeOK
<1>2. ASSUME NEW c \in ApiKeys, UploadOperation(c) PROVE now' = now
  BY <1>2 DEF UploadOperation, BeginUpload, PutUploadContent, CommitUpload, AbortUpload, ProbeWrite, RecordOnly
<1>3. ASSUME NEW c \in ApiKeys, EncryptionOperation(c) PROVE now' = now
  BY <1>3 DEF EncryptionOperation, DeleteItem, EnableEncryption, FreshStart, ReplaceHeader
<1>4. ASSUME NEW c \in ApiKeys, RewriteOperation(c) PROVE now' = now
  BY <1>4 DEF RewriteOperation, BeginRewrite, HeartbeatRewrite, TakeOverRewrite, CommitRewrite,
              AbortRewrite, EndAborted, RecordOnly
<1>5. ASSUME Housekeeping PROVE now' \in {now, now + 1}
  BY <1>5 DEF Housekeeping, OperatorAbortRewrite, EndAborted, RecordOnly, CleanStaging, Open,
              DropGeneration, RemoveStaging, CleanupFails, Kill, Tick
<1>6. ASSUME UNCHANGED vars PROVE now' = now
  BY <1>6 DEF vars
<1>7. now' \in {now, now + 1}
  BY <1>2, <1>3, <1>4, <1>5, <1>6, Zenon DEF Next
<1>8. QED
  BY <1>1, <1>7

\* Steps that are not seen keep the quota.
LEMMA UnseenQuota ==
    ASSUME SafetyInv, SafetyInv', QuotaInv, now' \in Nat, now' >= now, Unseen
    PROVE  QuotaInv'
<1>1. /\ rec.seal \in Seal \cup {None} /\ rec'.seal \in Seal \cup {None}
  BY DEF SafetyInv, TypeInv, TypeOK, WorkspaceRecord
<1>2. rec'.seal = None => rec.seal = None
  BY <1>1, SealedByKey DEF Unseen, Steady
<1>3. /\ gens'[rec.generation] = gens[rec.generation]
      /\ rec.plain # None => gens'[rec.plain] = gens[rec.plain]
  BY DEF Unseen, LiveGenerations
<1>4. QED
  BY <1>2, <1>3, QuotaUnmoved DEF Unseen, Steady

\* Sealing a workspace moves a pointer, and what the items take stays the same
\* (fresh_start).
LEMMA SettleQuota ==
    ASSUME StoreInv, SafetyInv', QuotaInv, now' \in Nat, now' >= now, NEW c \in ApiKeys,
           NEW key \in DataKeys, NEW words \in Words,
           EnableEncryption(c, key, words) \/ FreshStart(c, key, words)
    PROVE  QuotaInv'
<1> DEFINE seal == SealUnder(key, words)
           next == rec.next_generation
           old == rec.generation
<1>1. /\ TypeOK /\ SafetyInv /\ rec.seal = None /\ rec.plain = None /\ UNCHANGED gens
  BY DEF StoreInv, SafetyInv, TypeInv, NothingAside, EnableEncryption, FreshStart, Settle
<1>2. \/ rec' = [rec EXCEPT !.seal = seal]
      \/ /\ next =< MaxGeneration
         /\ rec' = [rec EXCEPT !.seal = seal, !.plain = rec.generation,
                               !.generation = next, !.next_generation = next + 1]
  BY DEF EnableEncryption, FreshStart, Store
<1> HIDE DEF seal
<1>3. CASE rec' = [rec EXCEPT !.seal = seal]
  <2>1. /\ rec'.generation = rec.generation /\ rec'.plain = rec.plain /\ rec'.tickets = rec.tickets
    BY <1>1, <1>3 DEF TypeOK, WorkspaceRecord
  <2>2. QED
    BY <1>1, <2>1, QuotaUnmoved
<1>4. CASE /\ next =< MaxGeneration
           /\ rec' = [rec EXCEPT !.seal = seal, !.plain = rec.generation,
                                 !.generation = next, !.next_generation = next + 1]
  <2>1. next \in Gens /\ old \in Gens /\ old # None
    BY <1>1, <1>4, RecordTypes, BoundsAssumption, NoneAssumption DEF Gens
  <2>2. gens[next] = {} /\ BytesOf({}) = 0
    BY <1>1, <2>1, NoBytes, LiveIsOld DEF SafetyInv, Shelved, GenerationsNeverReused
  <2> HIDE DEF next
  <2>3. /\ rec'.generation = next /\ rec'.plain = old /\ rec'.tickets = rec.tickets
    BY <1>1, <1>4 DEF TypeOK, WorkspaceRecord
  <2>4. PICK uploads \in SUBSET UploadIds :
           Covered(uploads) /\ StoredBytes + Outstanding(uploads) =< Quota
    BY DEF QuotaInv
  <2>5. StoredBytes' =< StoredBytes
    <3>1. BytesOf(gens[old]) \in Nat
      BY <1>1, StoredNat
    <3>2. StoredBytes' = 0 + BytesOf(gens[old]) /\ StoredBytes = BytesOf(gens[old]) + 0
      BY <1>1, <2>1, <2>2, <2>3 DEF StoredBytes
    <3>3. QED
      BY <3>1, <3>2
  <2>6. \A u \in uploads : Where(u) = old /\ Where(u)' = old
    <3>1. \A u \in uploads : Asked(u).under = None /\ Asked(u)' = Asked(u)
      BY <1>1, <2>3, <2>4 DEF Covered, Asked
    <3>2. QED
      BY <1>1, <2>1, <2>3, <3>1 DEF Where
  <2> HIDE DEF old
  <2>7. QED
    BY <1>1, <2>3, <2>4, <2>5, <2>6, QuotaKept
<1>5. QED
  BY <1>2, <1>3, <1>4

\* Opening a session stages nothing yet (begin_rewrite).
LEMMA OpenSessionQuota ==
    ASSUME SafetyInv, SafetyInv', QuotaInv, now' \in Nat, now' >= now, NEW c \in ApiKeys,
           NEW kind \in RewriteKind, NEW expected, NEW key \in DataKeys, NEW words \in Words,
           OpenSession(c, kind, expected, key, words), RecordOnly
    PROVE  QuotaInv'
<1> DEFINE m == rec.next_generation + 1
           session == [kind |-> kind, next |-> SealUnder(key, words), holder |-> c,
                       lease_expires_at |-> now + LeaseSecs, staged_generation |-> rec.next_generation]
<1>1. rec' = [rec EXCEPT !.next_generation = m, !.session = session] /\ UNCHANGED gens /\ TypeOK
  BY DEF OpenSession, Store, RecordOnly, SafetyInv, TypeInv
<1> HIDE DEF session, m
<1>2. /\ rec'.generation = rec.generation /\ rec'.plain = rec.plain /\ rec'.seal = rec.seal
      /\ rec'.tickets = rec.tickets
  BY <1>1 DEF TypeOK, WorkspaceRecord
<1>3. QED
  BY <1>1, <1>2, QuotaUnmoved

\* An abort touches neither the items nor the uploads of others (end_aborted).
LEMMA EndAbortedQuota ==
    ASSUME SafetyInv, SafetyInv', QuotaInv, now' \in Nat, now' >= now, rec.session # None, EndAborted
    PROVE  QuotaInv'
<1> DEFINE tickets == DropTickets(RewriteUploads)
           staged == rec.session.staged_generation
           ended == rec.session.next.key
<1>1. /\ rec' = [rec EXCEPT !.ended_rewrites = @ \cup {ended}, !.session = None,
                            !.used[staged] = 0, !.tickets = tickets]
      /\ UNCHANGED gens /\ TypeOK
  BY DEF EndAborted, Store, RecordOnly, SafetyInv, TypeInv
<1>2. \A u \in UploadIds : tickets[u] \in {rec.tickets[u], None}
  BY DEF DropTickets
<1> HIDE DEF tickets, staged, ended
<1>3. /\ rec'.generation = rec.generation /\ rec'.plain = rec.plain /\ rec'.seal = rec.seal
      /\ rec'.tickets = tickets
  BY <1>1 DEF TypeOK, WorkspaceRecord
<1>4. QED
  BY <1>1, <1>2, <1>3, QuotaUnmoved

\* A committed rewrite puts in the place of the items their re-encryptions, which take
\* no more room; an upload under way finds its content among them if it was among the
\* items (commit_rewrite).
LEMMA CommitRewriteQuota ==
    ASSUME StoreInv, SafetyInv', QuotaInv, now' \in Nat, now' >= now, NEW c \in ApiKeys,
           NEW key \in DataKeys, CommitRewrite(c, key)
    PROVE  QuotaInv'
<1> DEFINE tickets == DropTickets(RewriteUploads)
           staged == rec.session.staged_generation
           next == rec.session.next
           old == rec.generation
<1>1. TypeOK /\ FiniteShelf /\ SafetyInv
  BY DEF StoreInv, SafetyInv, TypeInv
<1>2. /\ rec' = [rec EXCEPT !.generation = staged, !.seal = next, !.session = None,
                            !.used[old] = 0, !.tickets = tickets]
      /\ rec.session # None /\ next.key = key /\ UNCHANGED gens
  BY DEF CommitRewrite, HeldSession, Store, RecordOnly
<1>3. next # None /\ staged \in Gens /\ old \in Gens /\ staged # rec.plain /\ old # rec.plain
  <2>1. rec.session \in Session
    BY <1>1, <1>2, RecordTypes
  <2>2. next \in Seal /\ staged \in Gens
    BY <2>1 DEF Session
  <2>3. next # None
    BY <2>2, NoneAssumption
  <2>4. QED
    BY <1>1, <1>2, <2>2, <2>3, RecordTypes DEF SafetyInv, Shelved, GenerationsNeverReused
<1>4. gens[staged] = Rekeyed(gens[old], key)
  BY CommitRekeys
<1>5. \A i, j \in gens[staged] : SameContent(i, j) => i = j
  BY <1>1, <1>2 DEF SafetyInv, Shelved, ContentStoredOnce, LiveGenerations
<1>6. \A u \in UploadIds : tickets[u] \in {rec.tickets[u], None}
  BY DEF DropTickets
<1> HIDE DEF tickets, staged, next, old
<1>7. /\ rec'.seal = next /\ rec'.generation = staged /\ rec'.plain = rec.plain
      /\ rec'.tickets = tickets
  BY <1>1, <1>2 DEF TypeOK, WorkspaceRecord
<1>8. gens[staged] \in SUBSET Item /\ gens[old] \in SUBSET Item
  BY <1>1, <1>3 DEF TypeOK
<1>9. /\ \A i \in gens[staged] : i.under = key /\ \E j \in gens[old] : j.text = i.text
      /\ \A i \in gens[old] : \E j \in gens[staged] : j.text = i.text
  <2>1. ASSUME NEW i \in gens[old]
        PROVE  [i EXCEPT !.under = key].under = key /\ [i EXCEPT !.under = key].text = i.text
    BY <1>8 DEF Item
  <2>2. \A i \in gens[staged] : \E j \in gens[old] : i = [j EXCEPT !.under = key]
    BY <1>4 DEF Rekeyed
  <2>3. \A j \in gens[old] : [j EXCEPT !.under = key] \in gens[staged]
    BY <1>4 DEF Rekeyed
  <2>4. ASSUME NEW i \in gens[staged] PROVE i.under = key /\ \E j \in gens[old] : j.text = i.text
    <3>1. PICK j \in gens[old] : i = [j EXCEPT !.under = key]
      BY <2>2
    <3>2. i.under = key /\ i.text = j.text
      BY <2>1, <3>1, Zenon
    <3>3. QED
      BY <3>2
  <2>5. ASSUME NEW i \in gens[old] PROVE \E j \in gens[staged] : j.text = i.text
    BY <2>1, <2>3
  <2>6. QED
    BY <2>4, <2>5
<1>10. BytesOf(gens[staged]) =< BytesOf(gens[old])
  BY <1>1, <1>3, <1>5, <1>8, <1>9, CopiesAreNoLarger DEF FiniteShelf
<1>11. StoredBytes' =< StoredBytes
  <2>1. BytesOf(gens[staged]) \in Nat
    BY <1>1, <1>3, BytesNat DEF FiniteShelf
  <2>2. BytesOf(gens[old]) \in Nat /\ (rec.plain # None => BytesOf(gens[rec.plain]) \in Nat)
    BY <1>1, StoredNat DEF old
  <2>3. /\ StoredBytes' = BytesOf(gens[staged]) + (IF rec.plain = None THEN 0 ELSE BytesOf(gens[rec.plain]))
        /\ StoredBytes = BytesOf(gens[old]) + (IF rec.plain = None THEN 0 ELSE BytesOf(gens[rec.plain]))
    BY <1>2, <1>7 DEF StoredBytes, old
  <2>4. QED
    BY <1>10, <2>1, <2>2, <2>3
<1>12. PICK uploads \in SUBSET UploadIds :
          Covered(uploads) /\ StoredBytes + Outstanding(uploads) =< Quota
  BY DEF QuotaInv
<1>13. ASSUME NEW u \in uploads, rec'.tickets[u] = rec.tickets[u]
       PROVE  \/ Where(u) = rec.plain /\ Where(u)' = rec.plain
              \/ Where(u) = old /\ Where(u)' = staged
  <2>1. Asked(u)' = Asked(u)
    BY <1>13 DEF Asked
  <2>2. QED
    BY <1>7, <2>1 DEF Where, old
<1>14. ASSUME NEW u \in uploads, rec'.tickets[u] = rec.tickets[u]
       PROVE  \A i \in gens[Where(u)] : \E j \in gens'[Where(u)'] : j.text = i.text
  <2>1. CASE Where(u) = rec.plain /\ Where(u)' = rec.plain
    BY <1>2, <2>1
  <2>2. CASE Where(u) = old /\ Where(u)' = staged
    BY <1>2, <1>9, <2>2
  <2>3. QED
    BY <1>13, <1>14, <2>1, <2>2
<1>15. ASSUME NEW u \in uploads, NEW v \in uploads, rec'.tickets[u] = rec.tickets[u],
              rec'.tickets[v] = rec.tickets[v], Where(u)' = Where(v)'
       PROVE  Where(u) = Where(v)
  BY <1>3, <1>13, <1>15
<1>16. QED
  BY <1>1, <1>3, <1>6, <1>7, <1>11, <1>12, <1>14, <1>15, QuotaKept

\* Every step keeps the quota, if no commit of the database fails while its process
\* lives on.
LEMMA StepQuota ==
    ASSUME AccountInv, QuotaInv, CommitMayFail = FALSE, [Next]_vars
    PROVE  QuotaInv'
<1>0. /\ StoreInv /\ StoreInv' /\ SafetyInv /\ SafetyInv'
      /\ now \in Nat /\ now' \in Nat /\ now' >= now
  BY StepMapped, ClockRuns DEF AccountInv, StoreInv, SafetyInv, TypeInv, TypeOK
<1>1. ASSUME Unseen PROVE QuotaInv'
  BY <1>0, <1>1, UnseenQuota
<1>2. ASSUME NEW c \in ApiKeys, UploadOperation(c) PROVE QuotaInv'
  <2>1. ASSUME NEW r \in Request, BeginUpload(c, r) PROVE QuotaInv'
    <3> DEFINE ticket == [owner |-> c, request |-> r, expires_at |-> now + StagingSecs]
    <3>1. \/ Quiet
          \/ \E u \in UploadIds \ issued : /\ issued' = issued \cup {u}
                                           /\ Store([rec EXCEPT !.tickets[u] = ticket], {}, {})
      BY <1>0, <2>1, BeginUploadQuiet
    <3>2. ticket \in Ticket /\ ticket.request = r
      BY <1>0, LimitsAssumption DEF Ticket
    <3> HIDE DEF ticket
    <3>3. QED
      BY <1>0, <1>1, <2>1, <3>1, <3>2, IssuedQuota, Zenon DEF Quiet
  <2>2. ASSUME NEW u \in UploadIds, CommitUpload(c, u) PROVE QuotaInv'
    <3>1. Repeats(u) \/ Ends(c, u) \/ Publishes(c, u)
      BY <1>0, <2>2, CommitUploadCases, Zenon
    <3>2. UNCHANGED now
      BY <2>2 DEF CommitUpload
    <3>3. QED
      BY <1>0, <1>1, <3>1, <3>2, CommitUnseen, PublishQuota, Zenon
  <2>3. QED
    BY <1>0, <1>1, <1>2, <2>1, <2>2, UploadQuiet, ProbeQuiet, Zenon DEF UploadOperation, Quiet
<1>3. ASSUME NEW c \in ApiKeys, EncryptionOperation(c) PROVE QuotaInv'
  BY <1>0, <1>1, <1>3, DeleteItemQuota, SettleQuota, ReplaceHeaderQuiet, Zenon
     DEF EncryptionOperation, Quiet
<1>4. ASSUME NEW c \in ApiKeys, RewriteOperation(c) PROVE QuotaInv'
  <2>1. ASSUME NEW kind \in RewriteKind, NEW expected \in KeyIds, NEW key \in DataKeys,
               NEW words \in Words, BeginRewrite(c, kind, expected, key, words)
        PROVE  QuotaInv'
    BY <1>0, <1>1, <2>1, RenewLeaseQuiet, OpenSessionQuota, Zenon
       DEF BeginRewrite, ReplayBegin, HeldSession, Quiet
  <2>2. ASSUME HeartbeatRewrite(c) \/ TakeOverRewrite(c) PROVE QuotaInv'
    BY <1>0, <1>1, <2>2, RenewLeaseQuiet, Zenon
       DEF HeartbeatRewrite, TakeOverRewrite, HeldSession, Quiet
  <2>3. ASSUME NEW key \in DataKeys, CommitRewrite(c, key) \/ AbortRewrite(c, key) PROVE QuotaInv'
    <3>1. rec.session # None
      BY <2>3 DEF CommitRewrite, AbortRewrite, HeldSession
    <3>2. QED
      BY <1>0, <2>3, <3>1, CommitRewriteQuota, EndAbortedQuota, Zenon DEF AbortRewrite
  <2>4. QED
    BY <1>4, <2>1, <2>2, <2>3, Zenon DEF RewriteOperation
<1>5. ASSUME Housekeeping PROVE QuotaInv'
  BY <1>0, <1>1, <1>5, EndAbortedQuota, RepairUnseen, CleanupQuiet, Zenon
     DEF Housekeeping, OperatorAbortRewrite, Quiet
<1>6. ASSUME UNCHANGED vars PROVE QuotaInv'
  <2>1. Quiet
    BY <1>0, <1>6, IdleQuiet DEF vars
  <2>2. QED
    BY <1>1, <2>1 DEF Quiet
<1>7. QED
  BY <1>2, <1>3, <1>4, <1>5, <1>6, Zenon DEF Next

\* A new workspace holds nothing and promises nothing.
LEMMA InitQuota == Init => QuotaInv
<1> SUFFICES ASSUME Init PROVE QuotaInv
  OBVIOUS
<1>1. /\ rec.generation \in Gens /\ rec.plain = None /\ gens[rec.generation] = {}
      /\ Promised = {}
  <2>1. TypeOK
    BY InitTypes DEF TypeInv
  <2>2. rec.generation \in Gens
    BY <2>1, RecordTypes
  <2>3. QED
    BY <2>2 DEF Init, NewRecord, Promised
<1>2. Covered({}) /\ {} \in SUBSET UploadIds
  BY DEF Covered
<1>3. StoredBytes = 0 + 0 /\ Outstanding({}) = 0
  <2>1. Units(rec.tickets, Promised \ {}) = {}
    BY <1>1 DEF Units
  <2>2. QED
    BY <1>1, <2>1, NoBytes, FS_EmptySet DEF StoredBytes, Outstanding
<1>4. StoredBytes + Outstanding({}) =< Quota
  BY <1>3, LimitsAssumption
<1>5. QED
  BY <1>2, <1>4 DEF QuotaInv

\* If no commit of the database fails while its process lives on, a workspace never holds
\* more than its quota, the plain partition included, whatever commits are killed between
\* their publish and their record, and a rewrite stages no more than what it re-encrypts
\* (begin_upload's check against held bytes and reservations, upload.rs).
THEOREM QuotaIsKept == ASSUME CommitMayFail = FALSE PROVE Spec => []WithinQuota
<1>1. AccountInv /\ QuotaInv /\ [Next]_vars => QuotaInv'
  BY StepQuota
<1>2. AccountInv /\ QuotaInv => WithinQuota
  <2> SUFFICES ASSUME AccountInv, QuotaInv PROVE WithinQuota
    OBVIOUS
  <2>1. TypeOK /\ FiniteShelf /\ SafetyInv /\ Copied
    BY DEF AccountInv, StoreInv, SafetyInv, TypeInv
  <2>2. PICK uploads \in SUBSET UploadIds :
           Covered(uploads) /\ StoredBytes + Outstanding(uploads) =< Quota
    BY DEF QuotaInv
  <2>3. Outstanding(uploads) \in Nat /\ StoredBytes \in Nat
    <3>1. Promised \ uploads \in SUBSET UploadIds /\ \A u \in Promised \ uploads : rec.tickets[u] \in Ticket
      BY <2>1, PromisedTypes
    <3>2. QED
      BY <2>1, <3>1, UnitsFinite, StoredNat DEF Outstanding
  <2>4. StoredBytes =< Quota
    BY <2>2, <2>3, LimitsAssumption
  <2>5. ASSUME rec.session # None PROVE BytesOf(gens[rec.session.staged_generation]) =< Quota
    <3> DEFINE staged == rec.session.staged_generation
               old == rec.generation
    <3>1. staged \in LiveGenerations /\ staged \in Gens /\ old \in Gens
      BY <2>1, <2>5, LiveTypes, RecordTypes DEF LiveGenerations
    <3>2. gens[staged] \in SUBSET Item /\ gens[old] \in SUBSET Item
      BY <2>1, <3>1 DEF TypeOK
    <3>3. /\ \A i \in gens[staged] : i.under = rec.session.next.key
          /\ \A i, j \in gens[staged] : SameContent(i, j) => i = j
          /\ \A i \in gens[staged] : \E j \in gens[old] : j.text = i.text
      BY <2>1, <2>5, <3>1
         DEF SafetyInv, Shelved, ItemsUnderTheirKey, ContentStoredOnce, Copied, HasCounterpart
    <3>4. BytesOf(gens[staged]) =< BytesOf(gens[old])
      BY <2>1, <3>1, <3>2, <3>3, CopiesAreNoLarger DEF FiniteShelf
    <3>5. /\ BytesOf(gens[staged]) \in Nat /\ BytesOf(gens[old]) \in Nat
          /\ rec.plain # None => BytesOf(gens[rec.plain]) \in Nat
      BY <2>1, <3>1, BytesNat, StoredNat DEF FiniteShelf
    <3>6. BytesOf(gens[old]) =< StoredBytes
      BY <3>5 DEF StoredBytes
    <3>7. QED
      BY <2>3, <2>4, <3>4, <3>5, <3>6, LimitsAssumption
  <2>6. QED
    BY <2>4, <2>5 DEF WithinQuota, StoredBytes
<1>3. QED
  BY <1>1, <1>2, InitQuota, AlwaysAccount, PTL DEF Spec

=============================================================================
