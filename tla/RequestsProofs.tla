--------------------------- MODULE RequestsProofs ---------------------------
(***************************************************************************)
(* What a reader is answered beside any number of writers, for every value  *)
(* of the constants.                                                        *)
(*                                                                         *)
(* A read lets go of the record before it looks at the shelf, so the        *)
(* generation it loaded may be current no more, or gone.  The invariant     *)
(* says what the reader can still rely on: from the moment the partition    *)
(* is another generation, nothing was in it all the time, and a generation  *)
(* that left the partition gains no item any more.                          *)
(***************************************************************************)
EXTENDS StoreProofs, Requests

\* Every request that is under way or answered.
ReadRecord ==
    [at : {"load", "ids", "look", "open", "answered"}, handler : Handlers, caller : ApiKeys,
     partition : Partitions, item : Item \cup {None}, generation : Gens \cup {None},
     lease : Nat \cup {None}, next : {"ids", "look", "open"},
     todo : SUBSET Item, found : SUBSET Item,
     answer : {None, "Ok", "NotFound", "LeaseHeld", "Refused"},
     always : SUBSET Item, held : SUBSET Gens, ever : SUBSET Item, texts : SUBSET Texts]

\* Which step of which handler a request is at.
InPlace(r) ==
    /\ r.at = "look" \/ (r.at = "load" /\ r.next = "look") =>
          r.handler \notin {"listItemIds", "resolveItem"}
    /\ r.at = "open" \/ (r.at = "load" /\ r.next = "open") => r.handler = "getItemContent"

\* What was followed since the request came holds what there is now.
Followed(r) ==
    /\ r.always \subseteq Visible(r.caller, r.partition)
    /\ Visible(r.caller, r.partition) \subseteq r.ever
    /\ HeldNow(r.caller, r.partition) \subseteq r.held
    /\ r.found \subseteq r.ever

\* A listing found what stayed, or has still to look at it.
Listing(r) ==
    r.handler = "listItems" /\ (r.at = "look" \/ (r.at = "load" /\ r.next = "look"))
        => r.always \subseteq r.todo \cup r.found

\* Where the generation that was loaded stands.
Standing(r) ==
    /\ r.generation \in Gens
    /\ r.generation < rec.next_generation
    /\ r.partition # "staged" /\ rec.session # None =>
          r.generation # rec.session.staged_generation
    /\ r.partition = "plain" => r.generation # rec.generation
    /\ r.partition = "staged" => r.generation \in r.held

\* What can still be found in it.
Contents(r) ==
    /\ gens[r.generation] \subseteq r.ever
    /\ r.always = {} \/ r.generation = GenerationLoaded(r.caller, r.partition)

\* What an answer says is so.
Truthful(r) ==
    /\ r.found \subseteq r.ever
    /\ r.answer = "Ok" /\ r.handler \in {"listItems", "listItemIds"} => r.always \subseteq r.found
    /\ r.answer = "NotFound" /\ r.handler \in {"getItem", "getItemContent", "findByContentKey"} =>
          r.item \notin r.always

ReadOK(r) ==
    \/ r = NoRead
    \/ /\ r \in ReadRecord
       /\ r.handler = "writeRefused" => r.at \in {"load", "answered"} /\ r.found = {}
       /\ r.handler # "writeRefused" /\ r.at # "answered" => InPlace(r) /\ Followed(r) /\ Listing(r)
       /\ r.handler # "writeRefused" /\ r.at \in {"ids", "look", "open"} => Standing(r) /\ Contents(r)
       /\ r.at = "answered" => Truthful(r)

ReadInv == StoreInv /\ ReadOK(read)

-----------------------------------------------------------------------------
(* What the steps of the workspace do to the shelf. *)

\* A generation gains an item only while it is current or staged.
Grows ==
    \A g \in Gens :
       \/ gens'[g] \subseteq gens[g]
       \/ g = rec'.generation
       \/ rec'.session # None /\ g = rec'.session.staged_generation

\* An upload puts its item into the generation that is current or staged (commit_upload).
LEMMA PublishGrows ==
    ASSUME StoreInv, NEW c \in ApiKeys, NEW u \in UploadIds, Publishes(c, u)
    PROVE  Grows
<1> DEFINE r == rec.tickets[u].request
           g == UploadTarget(r)
           n == rec.used[g] + SizeOf(r.item)
           outcome == [item |-> r.item, created |-> TRUE, staged |-> r.in_rewrite]
<1>1. TypeOK
  BY DEF StoreInv, SafetyInv, TypeInv
<1>2. /\ MayUpload(c, r)
      /\ gens' = [gens EXCEPT ![g] = @ \cup {r.item}]
      /\ FinishUpload([rec EXCEPT !.used[g] = n], c, u, outcome) \/ NotStored
  BY Zenon DEF Publishes, Publish
<1>3. KeepsPointers
  <2> HIDE DEF r, g, n, outcome
  <2>1. QED
    BY <1>1, <1>2, FinishUploadKeeps, NotStoredKeeps, Zenon
<1>4. g = rec'.generation \/ (rec'.session # None /\ g = rec'.session.staged_generation)
  BY <1>2, <1>3, Zenon DEF UploadTarget, MayUpload, HeldSession, KeepsPointers
<1> HIDE DEF g
<1>5. \A h \in Gens : h # g => gens'[h] = gens[h]
  BY <1>1, <1>2 DEF TypeOK
<1>6. QED
  BY <1>4, <1>5 DEF Grows

\* Nothing else puts an item on the shelf.
LEMMA StepGrows ==
    ASSUME StoreInv, [Next]_vars
    PROVE  Grows
<1>0. TypeOK /\ SafetyInv
  BY DEF StoreInv, SafetyInv, TypeInv
<1>1. ASSUME UNCHANGED gens PROVE Grows
  BY <1>1 DEF Grows
<1>2. ASSUME NEW c \in ApiKeys, UploadOperation(c) PROVE Grows
  <2>1. ASSUME NEW u \in UploadIds, CommitUpload(c, u) PROVE Grows
    BY <1>0, <1>1, <2>1, CommitUploadCases, PublishGrows, Zenon DEF Repeats, Ends
  <2>2. QED
    BY <1>1, <1>2, <2>1, Zenon
       DEF UploadOperation, BeginUpload, PutUploadContent, AbortUpload, ProbeWrite
<1>3. ASSUME NEW c \in ApiKeys, EncryptionOperation(c) PROVE Grows
  <2>1. ASSUME NEW partition, NEW item \in Item, NEW expected \in KeyIds,
               DeleteItem(c, partition, item, expected)
        PROVE  Grows
    <3> DEFINE g == GenerationOf(partition)
    <3>1. gens' = [gens EXCEPT ![g] = @ \ {item}]
      BY <2>1, Zenon DEF DeleteItem
    <3> HIDE DEF g
    <3>2. QED
      BY <1>0, <3>1 DEF TypeOK, Grows
  <2>2. QED
    BY <1>1, <1>3, <2>1, Zenon
       DEF EncryptionOperation, EnableEncryption, FreshStart, ReplaceHeader
<1>4. ASSUME NEW c \in ApiKeys, RewriteOperation(c) PROVE Grows
  BY <1>1, <1>4, Zenon
     DEF RewriteOperation, BeginRewrite, HeartbeatRewrite, TakeOverRewrite, CommitRewrite,
         AbortRewrite, EndAborted, RecordOnly
<1>5. ASSUME Housekeeping PROVE Grows
  <2>1. ASSUME NEW g \in Gens, DropGeneration(g) PROVE Grows
    BY <1>0, <2>1 DEF DropGeneration, TypeOK, Grows
  <2>2. QED
    BY <1>1, <1>5, <2>1, Zenon
       DEF Housekeeping, OperatorAbortRewrite, EndAborted, CleanStaging, Open, RemoveStaging,
           CleanupFails, Kill, Tick, RecordOnly
<1>6. QED
  BY <1>1, <1>2, <1>3, <1>4, <1>5, Zenon DEF Next, vars

-----------------------------------------------------------------------------
(* A request beside a step of the workspace. *)

Pointed ==
    /\ Gens \subseteq Nat /\ None \notin Gens
    /\ rec.next_generation \in Nat
    /\ rec.generation \in Gens /\ rec.generation < rec.next_generation
    /\ rec.plain # None => /\ rec.plain \in Gens /\ rec.plain < rec.next_generation
                           /\ rec.plain # rec.generation
    /\ rec.session # None =>
          LET staged == rec.session.staged_generation
          IN  /\ staged \in Gens /\ staged < rec.next_generation
              /\ staged # rec.generation /\ staged # rec.plain
    /\ gens \in [Gens -> SUBSET Item]

\* What the record points to exists: generations below the counter, all distinct.
LEMMA Pointers == StoreInv => Pointed
<1> SUFFICES ASSUME StoreInv PROVE Pointed
  OBVIOUS
<1>1. TypeOK /\ GenerationsNeverReused
  BY DEF StoreInv, SafetyInv, TypeInv, Shelved
<1>2. Gens \subseteq Nat /\ None \notin Gens
  BY NoneAssumption, BoundsAssumption DEF Gens
<1>3. rec.session # None => rec.session.staged_generation \in Gens
  BY <1>1, RecordTypes DEF Session
<1>4. /\ rec.generation \in LiveGenerations
      /\ rec.plain # None => rec.plain \in LiveGenerations
      /\ rec.session # None => rec.session.staged_generation \in LiveGenerations
  BY Zenon DEF LiveGenerations
<1>5. gens \in [Gens -> SUBSET Item]
  BY <1>1 DEF TypeOK
<1>6. QED
  BY <1>1, <1>2, <1>3, <1>4, <1>5, RecordTypes DEF GenerationsNeverReused, Pointed

\* The generation a call loads is the one its caller sees; where there is none to load,
\* there is nothing to see (generation_of, held_session).
LEMMA LoadedIsVisible ==
    ASSUME StoreInv, NEW c, NEW p \in Partitions
    PROVE  LET g == GenerationLoaded(c, p)
           IN  /\ g = None => Visible(c, p) = {}
               /\ g # None => /\ g \in Gens /\ g < rec.next_generation
                              /\ Visible(c, p) = gens[g]
                              /\ p # "staged" /\ rec.session # None =>
                                    g # rec.session.staged_generation
                              /\ p = "plain" => g # rec.generation
                              /\ p = "staged" => HeldNow(c, p) = {g}
               /\ Visible(c, p) \subseteq Item
               /\ HeldNow(c, p) \subseteq Gens
<1> DEFINE g == GenerationLoaded(c, p)
<1>1. CASE p = "current"
  <2>1. g = rec.generation /\ Visible(c, p) = gens[rec.generation] /\ HeldNow(c, p) = {}
    BY <1>1 DEF GenerationLoaded, Visible, HeldNow
  <2>2. QED
    BY <1>1, <2>1, Pointers DEF Pointed
<1>2. CASE p = "plain"
  <2>1. /\ g = rec.plain /\ HeldNow(c, p) = {}
        /\ Visible(c, p) = IF rec.plain = None THEN {} ELSE gens[rec.plain]
    BY <1>2 DEF GenerationLoaded, Visible, HeldNow
  <2>2. QED
    BY <1>2, <2>1, Pointers DEF Pointed
<1>3. CASE p = "staged"
  <2>1. /\ g = IF HeldSession(c) THEN rec.session.staged_generation ELSE None
        /\ Visible(c, p) = IF HeldSession(c) THEN gens[rec.session.staged_generation] ELSE {}
        /\ HeldNow(c, p) = IF HeldSession(c) THEN {rec.session.staged_generation} ELSE {}
    BY <1>3 DEF GenerationLoaded, Visible, HeldNow
  <2>2. HeldSession(c) => rec.session # None
    BY DEF HeldSession
  <2>3. QED
    BY <1>3, <2>1, <2>2, Pointers DEF Pointed
<1>4. QED
  BY <1>1, <1>2, <1>3 DEF Partitions

\* What the request followed keeps holding what there is, whatever step the workspace
\* takes between two of its own: what left the partition was not there all the time, and
\* what the loaded generation still gains is shown to the caller too.
LEMMA WatchSafe ==
    ASSUME ReadInv, StoreInv', Moves, Passes, Grows, read.at \notin {"idle", "answered"},
           NEW c, NEW p, NEW held, c = read.caller, p = read.partition,
           held = read.held \cup HeldNow(c, p)',
           read' = Watch(Visible(c, p)', held, Readable(c, p, held)')
    PROVE  ReadOK(read)'
<1> DEFINE visible == Visible(c, p)'
           readable == Readable(c, p, held)'
           stays == read.always \cap visible
           seen == read.ever \cup readable
           kept == read.texts \cap {i.text : i \in visible}
           g == read.generation
<1>1. Pointed /\ Pointed'
  <2>1. Pointed
    BY Pointers DEF ReadInv
  <2>2. Pointed'
    BY Pointers, PTL
  <2>3. QED
    BY <2>1, <2>2
<1>2. /\ read \in ReadRecord
      /\ read.handler = "writeRefused" => read.at = "load" /\ read.found = {}
      /\ read.handler # "writeRefused" => InPlace(read) /\ Followed(read) /\ Listing(read)
      /\ read.handler # "writeRefused" /\ read.at # "load" => Standing(read) /\ Contents(read)
      /\ p \in Partitions
  BY DEF ReadInv, ReadOK, NoRead, ReadRecord
<1>3. /\ visible \subseteq Item /\ HeldNow(c, p)' \subseteq Gens
      /\ visible \subseteq readable /\ readable \subseteq Item
  <2>1. visible \subseteq Item /\ HeldNow(c, p)' \subseteq Gens
    BY <1>1, <1>2 DEF Pointed, Visible, HeldNow, HeldSession, Partitions
  <2>2. \A h \in LiveGenerations' : gens'[h] \subseteq Item
    BY <1>1 DEF Pointed, LiveGenerations
  <2>3. QED
    BY <2>1, <2>2 DEF Readable
<1>4. /\ held \in SUBSET Gens /\ kept \in SUBSET Texts
      /\ stays \in SUBSET Item /\ seen \in SUBSET Item
  BY <1>2, <1>3 DEF ReadRecord
<1>5. /\ \A h \in held : gens'[h] \subseteq readable \/ h \notin LiveGenerations'
  BY DEF Readable
<1>6. read' = [read EXCEPT !.always = stays, !.held = held, !.ever = seen, !.texts = kept]
  BY DEF Watch
<1>7. /\ p = "current" => /\ visible = gens'[rec'.generation]
                          /\ GenerationLoaded(c, p)' = rec'.generation
      /\ p = "plain" => /\ visible = IF rec'.plain = None THEN {} ELSE gens'[rec'.plain]
                        /\ GenerationLoaded(c, p)' = rec'.plain
      /\ p = "staged" => /\ ~HeldSession(c)' => visible = {}
                         /\ HeldSession(c)' => GenerationLoaded(c, p)' = rec'.session.staged_generation
  BY DEF Visible, GenerationLoaded
<1> HIDE DEF visible, readable, kept, stays, seen
<1>8. /\ read' \in ReadRecord
      /\ read'.always = read.always \cap visible
      /\ read'.held = held
      /\ read'.ever = read.ever \cup readable
      /\ read'.at = read.at /\ read'.handler = read.handler /\ read'.next = read.next
      /\ read'.caller = c /\ read'.partition = p /\ read'.generation = g
      /\ read'.todo = read.todo /\ read'.found = read.found
  <2>1. read' \in ReadRecord
    BY <1>2, <1>4, <1>6 DEF ReadRecord
  <2>2. /\ read'.always = stays /\ read'.held = held /\ read'.ever = seen
        /\ read'.at = read.at /\ read'.handler = read.handler /\ read'.next = read.next
        /\ read'.caller = read.caller /\ read'.partition = read.partition
        /\ read'.generation = read.generation
        /\ read'.todo = read.todo /\ read'.found = read.found
    BY <1>2, <1>6 DEF ReadRecord
  <2>3. QED
    BY <2>1, <2>2 DEF stays, seen
<1>9. ASSUME read.handler # "writeRefused"
      PROVE  InPlace(read)' /\ Followed(read)' /\ Listing(read)'
  <2>1. Visible(read.caller, read.partition)' = visible
    BY <1>8 DEF visible
  <2>2. HeldNow(read.caller, read.partition)' \subseteq held
    BY <1>8
  <2>3. Followed(read)'
    BY <1>2, <1>3, <1>8, <1>9, <2>1, <2>2 DEF Followed
  <2>4. InPlace(read)'
    BY <1>2, <1>8, <1>9, Zenon DEF InPlace
  <2>5. Listing(read)'
    <3>1. Listing(read)
      BY <1>2, <1>9
    <3>2. ASSUME read.always \subseteq read.todo \cup read.found
          PROVE  read'.always \subseteq read'.todo \cup read'.found
      BY <1>8, <3>2
    <3>3. read'.at = read.at /\ read'.handler = read.handler /\ read'.next = read.next
      BY <1>8
    <3>4. QED
      BY <3>1, <3>2, <3>3 DEF Listing
  <2>6. QED
    BY <2>3, <2>4, <2>5
<1>10. ASSUME read.handler # "writeRefused", read.at # "load"
       PROVE  Standing(read)' /\ Contents(read)'
  <2>1. Standing(read) /\ Contents(read) /\ read.always \subseteq Visible(c, p)
    BY <1>2, <1>10 DEF Followed
  <2>2. p \in Partitions /\ g \in Gens
    BY <1>2, <2>1 DEF ReadRecord, Standing
  <2>3. Standing(read)'
    <3>1. g < rec'.next_generation
      <4>1. g \in Nat /\ rec.next_generation \in Nat /\ g < rec.next_generation
        BY <1>1, <2>1, <2>2 DEF Standing, Pointed
      <4>2. rec'.next_generation \in {rec.next_generation, rec.next_generation + 1}
        BY DEF Moves
      <4>3. QED
        BY <4>1, <4>2
    <3>2. p # "staged" /\ rec'.session # None => g # rec'.session.staged_generation
      BY <1>1, <2>1, <2>2 DEF Standing, Moves, Pointed
    <3>3. p = "plain" => g # rec'.generation
      BY <1>1, <2>1, <2>2 DEF Standing, Moves, Pointed
    <3>4. p = "staged" => g \in held
      BY <2>1 DEF Standing
    <3>5. QED
      BY <1>8, <2>2, <3>1, <3>2, <3>3, <3>4 DEF Standing
  <2>4. gens'[g] \subseteq read.ever \cup readable
    <3>1. CASE gens'[g] \subseteq gens[g]
      BY <2>1, <3>1 DEF Contents
    <3>2. CASE g = rec'.generation \/ (rec'.session # None /\ g = rec'.session.staged_generation)
      <4>1. p = "current" => gens'[g] = visible
        BY <1>7, <1>8, <2>3, <3>2 DEF Standing
      <4>2. p = "staged" => g \in held /\ g \in LiveGenerations'
        BY <1>8, <2>3, <3>2 DEF Standing, LiveGenerations
      <4>3. p # "plain"
        BY <1>8, <2>3, <3>2 DEF Standing
      <4>4. QED
        BY <1>3, <1>5, <2>2, <4>1, <4>2, <4>3 DEF Partitions
    <3>3. QED
      BY <2>2, <3>1, <3>2 DEF Grows
  <2>5. read.always \cap visible = {} \/ g = GenerationLoaded(c, p)'
    <3>1. CASE read.always = {}
      BY <3>1
    <3>2. CASE read.always # {} /\ g = GenerationLoaded(c, p)
      <4>1. CASE p = "current"
        <5>1. g = rec.generation /\ Visible(c, p) = gens[rec.generation]
          BY <3>2, <4>1 DEF GenerationLoaded, Visible
        <5>2. rec'.generation # rec.generation => KeyOf(rec'.seal) # KeyOf(rec.seal)
          BY DEF Moves
        <5>3. /\ \A i \in gens[rec.generation] : i.under = KeyOf(rec.seal)
              /\ \A i \in gens'[rec'.generation] : i.under = KeyOf(rec'.seal)
          BY DEF ReadInv, StoreInv, SafetyInv, Shelved, ItemsUnderTheirKey
        <5>4. QED
          BY <1>7, <2>1, <4>1, <5>1, <5>2, <5>3
      <4>2. CASE p = "plain"
        BY <1>1, <1>7, <2>2, <3>2, <4>2 DEF GenerationLoaded, Moves, Pointed
      <4>3. CASE p = "staged"
        <5>1. HeldSession(c) /\ g = rec.session.staged_generation
          BY <2>1, <3>2, <4>3 DEF GenerationLoaded, Visible
        <5>2. HeldSession(c)' => rec'.session.staged_generation = g
          BY <5>1 DEF Passes, HeldSession
        <5>3. QED
          BY <1>7, <4>3, <5>2
      <4>4. QED
        BY <2>2, <4>1, <4>2, <4>3 DEF Partitions
    <3>3. QED
      BY <2>1, <3>1, <3>2 DEF Contents
  <2>6. Contents(read)'
    BY <1>8, <2>4, <2>5 DEF Contents
  <2>7. QED
    BY <2>3, <2>6
<1>11. /\ read'.handler = "writeRefused" => read'.at \in {"load", "answered"} /\ read'.found = {}
       /\ read'.at # "answered"
  BY <1>2, <1>8
<1>12. QED
  BY <1>8, <1>9, <1>10, <1>11, Zenon DEF ReadOK

-----------------------------------------------------------------------------
(* The steps of a request. *)

\* A step of the reader leaves the workspace alone.
LEMMA ReaderStep ==
    ASSUME NEW r, read' = r, UNCHANGED vars, ReadOK(r)
    PROVE  ReadOK(read)'
<1>1. \A c, p : /\ Visible(c, p)' = Visible(c, p)
                /\ HeldNow(c, p)' = HeldNow(c, p)
                /\ GenerationLoaded(c, p)' = GenerationLoaded(c, p)
  BY DEF vars, Visible, HeldNow, GenerationLoaded, HeldSession
<1>2. /\ InPlace(r) => InPlace(read)'
      /\ Listing(r) => Listing(read)'
      /\ Truthful(r) => Truthful(read)'
  BY DEF InPlace, Listing, Truthful
<1>3. Followed(r) => Followed(read)'
  BY <1>1 DEF Followed
<1>4. Standing(r) => Standing(read)'
  BY DEF Standing, vars
<1>5. Contents(r) => Contents(read)'
  BY <1>1 DEF Contents, vars
<1>6. QED
  BY <1>2, <1>3, <1>4, <1>5, Zenon DEF ReadOK

\* An answer is kept if what it says is so.
LEMMA AnswerSafe ==
    ASSUME NEW r \in ReadRecord, NEW a \in {"Ok", "NotFound", "LeaseHeld", "Refused"},
           read' = Answer(r, a), UNCHANGED vars,
           r.found \subseteq r.ever,
           r.handler = "writeRefused" => r.found = {},
           a = "Ok" /\ r.handler \in {"listItems", "listItemIds"} => r.always \subseteq r.found,
           a = "NotFound" => r.item \notin r.always \/ r.handler \in {"listItems", "writeRefused"}
    PROVE  ReadOK(read)'
<1> DEFINE answered == Answer(r, a)
<1>1. /\ answered \in ReadRecord
      /\ answered.at = "answered" /\ answered.answer = a
      /\ answered.handler = r.handler /\ answered.item = r.item
      /\ answered.found = r.found /\ answered.ever = r.ever /\ answered.always = r.always
  BY DEF Answer, ReadRecord
<1> HIDE DEF answered
<1>2. Truthful(answered)
  BY <1>1 DEF Truthful
<1>3. ReadOK(answered)
  BY <1>1, <1>2 DEF ReadOK
<1>4. QED
  BY <1>3, ReaderStep DEF answered

\* What a request that loaded a generation knows: nothing in it is strange to the caller,
\* and what was there all the time is in it.
LEMMA Knows ==
    ASSUME ReadInv, read.at \in {"ids", "look", "open"}
    PROVE  /\ read \in ReadRecord /\ read.handler # "writeRefused"
           /\ InPlace(read) /\ Followed(read) /\ Listing(read) /\ Standing(read) /\ Contents(read)
           /\ gens[read.generation] \subseteq read.ever
           /\ read.always \subseteq gens[read.generation]
           /\ gens[read.generation] \subseteq Item
           /\ read.found \subseteq read.ever
<1> DEFINE c == read.caller
           p == read.partition
           g == read.generation
<1>1. /\ read \in ReadRecord /\ read.handler # "writeRefused"
      /\ InPlace(read) /\ Followed(read) /\ Listing(read) /\ Standing(read) /\ Contents(read)
  BY DEF ReadInv, ReadOK, NoRead
<1>2. Pointed
  BY Pointers DEF ReadInv
<1>3. g \in Gens /\ g # None /\ gens[g] \subseteq Item
  BY <1>1, <1>2 DEF Standing, Pointed
<1>4. read.always \subseteq gens[g]
  <2>1. p \in Partitions /\ read.always \subseteq Visible(c, p)
    BY <1>1 DEF ReadRecord, Followed
  <2>2. g = GenerationLoaded(c, p) => Visible(c, p) = gens[g]
    <3> HIDE DEF c, p
    <3>1. QED
      BY <1>3, <2>1, LoadedIsVisible DEF ReadInv
  <2>3. QED
    BY <1>1, <2>1, <2>2 DEF Contents
<1>5. QED
  BY <1>1, <1>3, <1>4 DEF Contents, Followed

\* A request begins with what its caller sees.
LEMMA ArriveSafe ==
    ASSUME ReadInv, NEW c \in ApiKeys, NEW h \in Handlers \ {"writeRefused"},
           NEW p \in Partitions, NEW i \in Item \cup {None}, Arrive(c, h, p, i)
    PROVE  ReadOK(read)'
<1> DEFINE visible == Visible(c, p)
           held == HeldNow(c, p)
           readable == Readable(c, p, held)
           texts == {j.text : j \in visible}
           next == IF h \in {"getItem", "getItemContent"} THEN "look" ELSE "ids"
           r == [at |-> "load", handler |-> h, caller |-> c, partition |-> p,
                 item |-> i, generation |-> None, lease |-> None, next |-> next,
                 todo |-> {}, found |-> {}, answer |-> None,
                 always |-> visible, held |-> held, ever |-> readable, texts |-> texts]
<1>1. read' = r /\ UNCHANGED vars
  BY DEF Arrive
<1>2. visible \in SUBSET Item /\ held \in SUBSET Gens
  BY LoadedIsVisible DEF ReadInv
<1>3. readable \in SUBSET Item /\ visible \subseteq readable
  <2>1. \A g \in Gens : gens[g] \subseteq Item
    BY Pointers DEF ReadInv, Pointed
  <2>2. QED
    BY <1>2, <2>1 DEF Readable
<1>4. texts \in SUBSET Texts
  BY <1>2 DEF Item
<1>5. next \in {"ids", "look", "open"} /\ (next = "look" => h \in {"getItem", "getItemContent"})
      /\ next # "open"
  OBVIOUS
<1> HIDE DEF visible, held, readable, texts, next
<1>6. r \in ReadRecord
  BY <1>2, <1>3, <1>4, <1>5 DEF ReadRecord
<1>7. InPlace(r) /\ Listing(r)
  BY <1>5 DEF InPlace, Listing
<1>8. Followed(r)
  BY <1>3 DEF Followed, visible, held
<1>9. ReadOK(r)
  BY <1>6, <1>7, <1>8 DEF ReadOK
<1> HIDE DEF r
<1>10. QED
  BY <1>1, <1>9, ReaderStep

\* A refusal looks for nothing.
LEMMA RefuseSafe ==
    ASSUME NEW c \in ApiKeys, Refuse(c)
    PROVE  ReadOK(read)'
<1> DEFINE r == [at |-> "load", handler |-> "writeRefused", caller |-> c, partition |-> "current",
                 item |-> None, generation |-> None, lease |-> None, next |-> "ids",
                 todo |-> {}, found |-> {}, answer |-> None,
                 always |-> {}, held |-> {}, ever |-> {}, texts |-> {}]
<1>1. read' = r /\ UNCHANGED vars
  BY DEF Refuse
<1>2. r \in ReadRecord /\ r.handler = "writeRefused" /\ r.at = "load" /\ r.found = {}
  BY DEF ReadRecord, Handlers, Partitions
<1> HIDE DEF r
<1>3. ReadOK(r)
  BY <1>2 DEF ReadOK
<1>4. QED
  BY <1>1, <1>3, ReaderStep

\* A call loads the generation its caller may see, or answers that there is none.
LEMMA LoadSafe ==
    ASSUME ReadInv, Load
    PROVE  ReadOK(read)'
<1> DEFINE c == read.caller
           p == read.partition
           g == GenerationLoaded(c, p)
           r == [read EXCEPT !.generation = g, !.at = read.next]
<1>1. /\ read.at = "load" /\ read.handler # "writeRefused" /\ UNCHANGED vars
      /\ read' = IF g = None THEN Answer(read, NothingToRead) ELSE r
  BY DEF Load
<1>2. read \in ReadRecord /\ InPlace(read) /\ Followed(read) /\ Listing(read)
  BY <1>1 DEF ReadInv, ReadOK, NoRead
<1>3. p \in Partitions
  BY <1>2 DEF ReadRecord
<1>4. CASE g = None
  <2>1. Visible(c, p) = {}
    <3> HIDE DEF c, p
    <3>1. QED
      BY <1>3, <1>4, LoadedIsVisible DEF ReadInv, g
  <2>2. read.always = {} /\ read.found \subseteq read.ever
    BY <1>2, <2>1 DEF Followed
  <2>3. NothingToRead \in {"Ok", "NotFound", "LeaseHeld", "Refused"}
    BY DEF NothingToRead
  <2>4. QED
    BY <1>1, <1>2, <1>4, <2>2, <2>3, AnswerSafe
<1>5. CASE g # None
  <2>1. /\ g \in Gens /\ g < rec.next_generation /\ Visible(c, p) = gens[g]
        /\ p # "staged" /\ rec.session # None => g # rec.session.staged_generation
        /\ p = "plain" => g # rec.generation
        /\ p = "staged" => HeldNow(c, p) = {g}
    <3> HIDE DEF c, p
    <3>1. QED
      BY <1>3, <1>5, LoadedIsVisible DEF ReadInv, g
  <2>2. /\ r \in ReadRecord /\ r.at = read.next /\ r.generation = g
        /\ r.caller = c /\ r.partition = p /\ r.handler = read.handler /\ r.next = read.next
        /\ r.todo = read.todo /\ r.found = read.found
        /\ r.always = read.always /\ r.ever = read.ever /\ r.held = read.held
    <3> HIDE DEF g
    <3>1. QED
      BY <1>2, <2>1 DEF ReadRecord
  <2>3. read.next \in {"ids", "look", "open"}
    BY <1>2 DEF ReadRecord
  <2> HIDE DEF r
  <2>4. InPlace(r)
    BY <1>1, <1>2, <2>2, <2>3 DEF InPlace
  <2>5. Listing(r)
    BY <1>1, <1>2, <2>2, <2>3 DEF Listing
  <2>6. Followed(r)
    BY <1>2, <2>2, Zenon DEF Followed
  <2>7. Standing(r) /\ Contents(r)
    BY <1>2, <2>1, <2>2 DEF Standing, Contents, Followed
  <2>8. ReadOK(r)
    BY <1>1, <2>2, <2>3, <2>4, <2>5, <2>6, <2>7 DEF ReadOK
  <2>9. QED
    BY <1>1, <1>5, <2>8, ReaderStep
<1>6. QED
  BY <1>4, <1>5

\* The ids of the generation that was loaded, all of them or those of one content key.
LEMMA IdsSafe ==
    ASSUME ReadInv, ListItemIds \/ ResolveItem
    PROVE  ReadOK(read)'
<1> DEFINE g == read.generation
           ids == IF read.handler = "listItemIds" THEN gens[g] ELSE Same(g, read.item)
           r == [read EXCEPT !.found = ids]
<1>1. /\ read.at = "ids" /\ read.handler \in {"listItemIds", "resolveItem"} /\ UNCHANGED vars
      /\ read' = Answer(r, "Ok")
  BY DEF ListItemIds, ResolveItem
<1>2. /\ read \in ReadRecord /\ gens[g] \subseteq read.ever /\ gens[g] \subseteq Item
      /\ read.always \subseteq gens[g]
  BY <1>1, Knows
<1>3. /\ ids \in SUBSET Item /\ ids \subseteq read.ever
      /\ read.handler = "listItemIds" => read.always \subseteq ids
  BY <1>2 DEF Same
<1> HIDE DEF ids
<1>4. /\ r \in ReadRecord /\ r.found = ids /\ r.ever = read.ever /\ r.always = read.always
      /\ r.handler = read.handler
  BY <1>2, <1>3 DEF ReadRecord
<1> HIDE DEF r
<1>5. QED
  BY <1>1, <1>3, <1>4, AnswerSafe

\* A call that is followed by another, which loads a record of its own.
LEMMA AgainSafe ==
    ASSUME ReadInv, read.at \in {"ids", "look"},
           NEW i \in Item \cup {None}, NEW todo \in SUBSET Item, NEW found \in SUBSET Item,
           NEW next \in {"look", "open"}, found \subseteq read.ever,
           next = "look" => read.handler \notin {"listItemIds", "resolveItem"},
           next = "open" => read.handler = "getItemContent",
           read.handler = "listItems" => read.always \subseteq todo \cup found,
           read' = Again([read EXCEPT !.item = i, !.todo = todo, !.found = found], next),
           UNCHANGED vars
    PROVE  ReadOK(read)'
<1> DEFINE r == [read EXCEPT !.item = i, !.todo = todo, !.found = found,
                             !.at = "load", !.next = next]
<1>1. read \in ReadRecord /\ Followed(read) /\ read.handler # "writeRefused"
  BY Knows
<1>2. read' = r
  BY <1>1 DEF Again, ReadRecord
<1>3. /\ r \in ReadRecord /\ r.at = "load" /\ r.next = next /\ r.handler = read.handler
      /\ r.caller = read.caller /\ r.partition = read.partition
      /\ r.todo = todo /\ r.found = found
      /\ r.always = read.always /\ r.ever = read.ever /\ r.held = read.held
  BY <1>1 DEF ReadRecord
<1> HIDE DEF r
<1>4. InPlace(r) /\ Listing(r)
  BY <1>3 DEF InPlace, Listing
<1>5. Followed(r)
  BY <1>1, <1>3 DEF Followed
<1>6. ReadOK(r)
  BY <1>1, <1>3, <1>4, <1>5 DEF ReadOK
<1>7. QED
  BY <1>2, <1>6, ReaderStep

\* The oldest item of a content key is looked at, or there is none (find_in).
LEMMA FindSafe ==
    ASSUME ReadInv, FindByContentKey
    PROVE  ReadOK(read)'
<1> DEFINE g == read.generation
<1>1. read.at = "ids" /\ read.handler = "findByContentKey" /\ UNCHANGED vars
  BY DEF FindByContentKey
<1>2. /\ read \in ReadRecord /\ gens[g] \subseteq Item /\ read.always \subseteq gens[g]
      /\ read.found \subseteq read.ever
  BY <1>1, Knows
<1>3. CASE Same(g, read.item) = {} /\ read' = Answer(read, "NotFound")
  <2>1. read.item \notin read.always
    BY <1>2, <1>3 DEF Same, SameContent
  <2>2. QED
    BY <1>1, <1>2, <1>3, <2>1, AnswerSafe
<1>4. ASSUME NEW oldest \in FindIn(g, read.item),
             read' = Again([read EXCEPT !.item = oldest], "look")
      PROVE  ReadOK(read)'
  <2>1. oldest \in Item \cup {None}
    BY <1>2 DEF FindIn, Same
  <2>2. /\ read' = Again([read EXCEPT !.item = oldest, !.todo = read.todo, !.found = read.found], "look")
        /\ read.todo \in SUBSET Item /\ read.found \in SUBSET Item
    BY <1>2, <1>4 DEF ReadRecord
  <2>3. QED
    BY <1>1, <1>2, <2>1, <2>2, AgainSafe
<1>5. QED
  BY <1>3, <1>4 DEF FindByContentKey

\* A listing has all items of the generation before it (items_after).
LEMMA ListItemsSafe ==
    ASSUME ReadInv, ListItems
    PROVE  ReadOK(read)'
<1> DEFINE g == read.generation
           listed == gens[g]
           r == [read EXCEPT !.todo = listed, !.at = "look"]
<1>1. read.at = "ids" /\ read.handler = "listItems" /\ UNCHANGED vars
  BY DEF ListItems
<1>2. /\ read \in ReadRecord /\ listed \in SUBSET Item /\ read.always \subseteq listed
      /\ read.found \subseteq read.ever /\ InPlace(read) /\ Followed(read)
      /\ Standing(read) /\ Contents(read)
  BY <1>1, Knows
<1>3. CASE listed = {} /\ read' = Answer(read, "Ok")
  <2>1. read.always \subseteq read.found
    BY <1>2, <1>3
  <2>2. QED
    BY <1>1, <1>2, <1>3, <2>1, AnswerSafe
<1>4. CASE read' = Again([read EXCEPT !.todo = listed], "look")
  <2> HIDE DEF listed
  <2>1. /\ read' = Again([read EXCEPT !.item = read.item, !.todo = listed, !.found = read.found], "look")
        /\ read.item \in Item \cup {None} /\ read.found \in SUBSET Item
    BY <1>2, <1>4 DEF ReadRecord
  <2>2. read.always \subseteq listed \cup read.found
    BY <1>2
  <2>3. QED
    BY <1>1, <1>2, <2>1, <2>2, AgainSafe
<1>5. CASE read' = r
  <2> HIDE DEF listed
  <2>1. /\ r \in ReadRecord /\ r.at = "look" /\ r.handler = read.handler
        /\ r.caller = read.caller /\ r.partition = read.partition
        /\ r.generation = read.generation /\ r.todo = listed /\ r.found = read.found
        /\ r.always = read.always /\ r.ever = read.ever /\ r.held = read.held
    BY <1>2 DEF ReadRecord
  <2> HIDE DEF r
  <2>2. InPlace(r) /\ Listing(r)
    BY <1>1, <1>2, <2>1 DEF InPlace, Listing
  <2>3. Followed(r) /\ Standing(r) /\ Contents(r)
    BY <1>2, <2>1, Zenon DEF Followed, Standing, Contents
  <2>4. ReadOK(r)
    BY <1>1, <2>1, <2>2, <2>3 DEF ReadOK
  <2>5. QED
    BY <1>1, <1>5, <2>4, ReaderStep
<1>6. QED
  BY <1>3, <1>4, <1>5 DEF ListItems

\* A listing looks at its items one by one: what it leaves out was deleted meanwhile, or
\* is in a generation that is current no more.
LEMMA LookOverSafe ==
    ASSUME ReadInv, NEW i \in Item, LookOver(i)
    PROVE  ReadOK(read)'
<1> DEFINE g == read.generation
           left == read.todo \ {i}
           there == i \in gens[g]
           more == IF there THEN read.found \cup {i} ELSE read.found
           looked == [read EXCEPT !.todo = left, !.found = more]
<1>1. /\ read.at = "look" /\ read.handler = "listItems" /\ i \in read.todo /\ UNCHANGED vars
      /\ read' = IF read.partition = "staged" /\ ~there THEN Answer(read, "NotFound")
                 ELSE IF left = {} THEN Answer(looked, "Ok")
                 ELSE IF read.partition = "staged" THEN Again(looked, "look")
                 ELSE looked
  BY DEF LookOver
<1>2. /\ read \in ReadRecord /\ read.found \subseteq read.ever
      /\ gens[g] \subseteq read.ever /\ read.always \subseteq gens[g]
      /\ InPlace(read) /\ Listing(read) /\ Followed(read) /\ Standing(read) /\ Contents(read)
  BY <1>1, Knows
<1>3. left \in SUBSET Item /\ more \in SUBSET Item /\ more \subseteq read.ever
  BY <1>2 DEF ReadRecord
<1>4. read.always \subseteq left \cup more
  BY <1>1, <1>2 DEF Listing
<1> HIDE DEF left, more, there
<1>5. /\ looked \in ReadRecord /\ looked.at = "look" /\ looked.handler = read.handler
      /\ looked.caller = read.caller /\ looked.partition = read.partition
      /\ looked.generation = read.generation /\ looked.todo = left /\ looked.found = more
      /\ looked.always = read.always /\ looked.ever = read.ever /\ looked.held = read.held
  BY <1>1, <1>2, <1>3 DEF ReadRecord
<1>6. CASE read' = Answer(read, "NotFound")
  BY <1>1, <1>2, <1>6, AnswerSafe
<1>7. CASE left = {} /\ read' = Answer(looked, "Ok")
  <2> HIDE DEF looked
  <2>1. QED
    BY <1>1, <1>3, <1>4, <1>5, <1>7, AnswerSafe
<1>8. CASE read' = Again(looked, "look")
  <2>1. /\ read' = Again([read EXCEPT !.item = read.item, !.todo = left, !.found = more], "look")
        /\ read.item \in Item \cup {None}
    BY <1>2, <1>8 DEF ReadRecord
  <2>2. read.at \in {"ids", "look"} /\ read.handler \notin {"listItemIds", "resolveItem"}
    BY <1>1
  <2> HIDE DEF looked
  <2>3. QED
    BY <1>1, <1>3, <1>4, <2>1, <2>2, AgainSafe
<1>9. CASE read' = looked
  <2> HIDE DEF looked
  <2>1. InPlace(looked) /\ Listing(looked)
    BY <1>1, <1>4, <1>5 DEF InPlace, Listing
  <2>2. Standing(looked) /\ Contents(looked)
    BY <1>2, <1>5, Zenon DEF Standing, Contents
  <2>3. Followed(looked)
    BY <1>2, <1>3, <1>5, Zenon DEF Followed
  <2>4. ReadOK(looked)
    BY <1>1, <1>5, <2>1, <2>2, <2>3 DEF ReadOK
  <2>5. QED
    BY <1>1, <1>9, <2>4, ReaderStep
<1>10. QED
  BY <1>1, <1>6, <1>7, <1>8, <1>9, Zenon

\* An item is looked at, or opened, in the generation that was loaded.
LEMMA LookSafe ==
    ASSUME ReadInv, LookAt \/ OpenContent
    PROVE  ReadOK(read)'
<1> DEFINE g == read.generation
           r == [read EXCEPT !.found = {read.item}]
<1>1. read.at \in {"look", "open"} /\ UNCHANGED vars
  BY DEF LookAt, OpenContent
<1>2. /\ read \in ReadRecord /\ read.found \subseteq read.ever
      /\ gens[g] \subseteq read.ever /\ read.always \subseteq gens[g] /\ gens[g] \subseteq Item
      /\ InPlace(read)
  BY <1>1, Knows
<1>3. read.handler \notin {"listItems", "listItemIds"}
  BY <1>1, <1>2 DEF InPlace, LookAt, OpenContent
<1>4. CASE read.item \notin gens[g] /\ read' = Answer(read, "NotFound")
  <2>1. read.item \notin read.always
    BY <1>2, <1>4
  <2>2. QED
    BY <1>1, <1>2, <1>3, <1>4, <2>1, AnswerSafe, Knows
<1>5. CASE read.item \in gens[g] /\ read' = Answer(r, "Ok")
  <2>1. read.item \in Item /\ {read.item} \subseteq read.ever
    BY <1>2, <1>5
  <2>2. r \in ReadRecord /\ r.found = {read.item} /\ r.ever = read.ever /\ r.handler = read.handler
    BY <1>2, <2>1 DEF ReadRecord
  <2> HIDE DEF r
  <2>3. read.handler # "writeRefused"
    BY <1>1, Knows
  <2>4. QED
    BY <1>1, <1>3, <1>5, <2>1, <2>2, <2>3, AnswerSafe
<1>6. CASE read.at = "look" /\ read.handler = "getItemContent" /\ read' = Again(read, "open")
  <2>1. /\ read' = Again([read EXCEPT !.item = read.item, !.todo = read.todo, !.found = read.found], "open")
        /\ read.item \in Item \cup {None} /\ read.todo \in SUBSET Item /\ read.found \in SUBSET Item
    BY <1>2, <1>6 DEF ReadRecord
  <2>2. QED
    BY <1>1, <1>2, <1>6, <2>1, AgainSafe
<1>7. QED
  BY <1>4, <1>5, <1>6 DEF LookAt, OpenContent

\* The end of a lease is said, or that there is none any more (in_workspace).
LEMMA SayLeaseSafe ==
    ASSUME ReadInv, SayLease
    PROVE  ReadOK(read)'
<1> DEFINE lease == IF rec.session = None THEN None ELSE rec.session.lease_expires_at
           r == [read EXCEPT !.lease = lease]
<1>1. /\ read.at = "load" /\ read.handler = "writeRefused" /\ UNCHANGED vars
      /\ read' = Answer(r, "Refused")
  BY DEF SayLease
<1>2. read \in ReadRecord /\ read.found = {}
  BY <1>1 DEF ReadInv, ReadOK, NoRead
<1>3. lease \in Nat \cup {None}
  <2>1. TypeOK
    BY DEF ReadInv, StoreInv, SafetyInv, TypeInv
  <2>2. QED
    BY <2>1, RecordTypes DEF Session
<1> HIDE DEF lease
<1>4. r \in ReadRecord /\ r.found = {} /\ r.handler = "writeRefused"
  BY <1>1, <1>2, <1>3 DEF ReadRecord
<1> HIDE DEF r
<1>5. QED
  BY <1>1, <1>4, AnswerSafe

-----------------------------------------------------------------------------

\* A step of the workspace between two steps of the request, or the kill that ends it.
LEMMA WorkspaceStepSafe ==
    ASSUME ReadInv, WorkspaceStep
    PROVE  ReadInv'
<1>1. StoreInv' /\ Moves /\ Passes /\ Grows
  BY StepMapped, StepGrows, Zenon DEF ReadInv, WorkspaceStep, Mapped
<1>2. CASE read.at = "idle" /\ UNCHANGED read
  <2>1. read = NoRead
    BY <1>2 DEF ReadInv, ReadOK, ReadRecord
  <2>2. QED
    BY <1>1, <1>2, <2>1 DEF ReadInv, ReadOK
<1>3. CASE read' = NoRead
  BY <1>1, <1>3 DEF ReadInv, ReadOK
<1>4. CASE /\ read.at \notin {"idle", "answered"}
           /\ \E c \in {read.caller}, p \in {read.partition} :
                 \E held \in {read.held \cup HeldNow(c, p)'} :
                    read' = Watch(Visible(c, p)', held, Readable(c, p, held)')
  <2>1. ReadOK(read)'
    BY <1>1, <1>4, WatchSafe, Zenon
  <2>2. QED
    BY <1>1, <2>1 DEF ReadInv
<1>5. QED
  BY <1>2, <1>3, <1>4 DEF WorkspaceStep

\* Every step of the reader and of the workspace keeps the invariant.
LEMMA StepRead ==
    ASSUME ReadInv, [RequestsNext]_allVars
    PROVE  ReadInv'
<1>1. ASSUME UNCHANGED vars PROVE StoreInv'
  <2>1. [Next]_vars
    BY <1>1
  <2>2. QED
    BY <2>1, StepMapped, Zenon DEF ReadInv
<1>2. ASSUME UNCHANGED vars, ReadOK(read)' PROVE ReadInv'
  BY <1>1, <1>2 DEF ReadInv
<1>3. ASSUME NEW c \in ApiKeys, NEW h \in Handlers \ {"writeRefused"}, NEW p \in Partitions,
             NEW i \in Item \cup {None}, Arrive(c, h, p, i)
      PROVE  ReadInv'
  BY <1>2, <1>3, ArriveSafe, Zenon DEF Arrive
<1>4. ASSUME NEW c \in ApiKeys, Refuse(c) PROVE ReadInv'
  BY <1>2, <1>4, RefuseSafe, Zenon DEF Refuse
<1>5. CASE Load \/ ListItemIds \/ ResolveItem \/ FindByContentKey \/ ListItems
  BY <1>2, <1>5, LoadSafe, IdsSafe, FindSafe, ListItemsSafe, Zenon
     DEF Load, ListItemIds, ResolveItem, FindByContentKey, ListItems
<1>6. ASSUME NEW i \in Item, LookOver(i) PROVE ReadInv'
  BY <1>2, <1>6, LookOverSafe, Zenon DEF LookOver
<1>7. CASE LookAt \/ OpenContent \/ SayLease
  BY <1>2, <1>7, LookSafe, SayLeaseSafe, Zenon DEF LookAt, OpenContent, SayLease
<1>8. CASE Leave
  BY <1>2, <1>8 DEF Leave, ReadOK
<1>9. CASE UNCHANGED allVars
  <2>1. UNCHANGED vars /\ read' = read /\ ReadOK(read)
    BY <1>9 DEF allVars, ReadInv
  <2>2. QED
    BY <1>2, <2>1, ReaderStep
<1>10. QED
  BY <1>3, <1>4, <1>5, <1>6, <1>7, <1>8, <1>9, WorkspaceStepSafe, Zenon DEF RequestsNext

\* What readers rely on holds in every reachable state.
LEMMA AlwaysRead == RequestsSpec => []ReadInv
<1>1. RequestsInit => ReadInv
  BY InitMapped DEF RequestsInit, ReadInv, ReadOK
<1>2. ReadInv /\ [RequestsNext]_allVars => ReadInv'
  BY StepRead
<1>3. QED
  BY <1>1, <1>2, PTL DEF RequestsSpec

\* A request that is answered is truthful.
LEMMA AnsweredIsTruthful ==
    ASSUME ReadInv, Answered
    PROVE  Truthful(read)
BY DEF ReadInv, ReadOK, Answered, NoRead

\* A reader is answered only what was, at some moment of its request, in the partition it
\* asked for, whatever uploads, deletions, seals, rewrites, take-overs, repairs, and
\* clean-ups happen between the load of the record and the look at the shelf.
THEOREM AnswersAreFromThePartition == RequestsSpec => []AnswersWereThere
<1>1. ReadInv => AnswersWereThere
  BY AnsweredIsTruthful DEF AnswersWereThere, Truthful
<1>2. QED
  BY <1>1, AlwaysRead, PTL

\* An item is said not to be found only if it was not there for a moment of the request
\* (getItem, getItemContent, findByContentKey).
THEOREM NotFoundWasNotThere == RequestsSpec => []NotFoundIsTrue
<1>1. ReadInv => NotFoundIsTrue
  BY AnsweredIsTruthful DEF NotFoundIsTrue, Truthful
<1>2. QED
  BY <1>1, AlwaysRead, PTL

\* A listing leaves out nothing that was there from the request to the answer
\* (items_after, list_item_ids).
THEOREM ListingsLeaveOutNothingThatStays == RequestsSpec => []ListsWhatStays
<1>1. ReadInv => ListsWhatStays
  BY AnsweredIsTruthful DEF ListsWhatStays, Truthful
<1>2. QED
  BY <1>1, AlwaysRead, PTL

=============================================================================
