------------------------------ MODULE Requests ------------------------------
(***************************************************************************)
(* Reads.  A rule that changes something runs in a transaction; a read      *)
(* loads the record once, lets go of it, and looks at the shelf afterwards  *)
(* (`read`, workspace.rs), and several handlers of the API ask the engine   *)
(* more than once.  Here a reader takes these steps one by one between      *)
(* those of module Workspace.                                               *)
(***************************************************************************)
EXTENDS Workspace

VARIABLE read     \* the request of the one reader followed

allVars == <<vars, read>>

Handlers == {"listItems", "listItemIds", "getItem", "getItemContent",
             "findByContentKey", "resolveItem", "writeRefused"}
Partitions == {"current", "plain", "staged"}

\* What the caller may see of a partition right now.
Visible(c, partition) ==
    CASE partition = "current" -> gens[rec.generation]
      [] partition = "plain" -> IF rec.plain = None THEN {} ELSE gens[rec.plain]
      [] partition = "staged" -> IF HeldSession(c) THEN gens[rec.session.staged_generation]
                                                   ELSE {}

\* The generation the caller holds as the one staged.
HeldNow(c, partition) ==
    IF partition = "staged" /\ HeldSession(c) THEN {rec.session.staged_generation} ELSE {}

\* What the caller may be answered.  A request that found its caller holding the session
\* reads on in the generation it loaded, after a take-over, and after the commit too.
Readable(c, partition, held) ==
    Visible(c, partition) \cup UNION {gens[g] : g \in held \cap LiveGenerations}

NoRead == [at |-> "idle"]

RequestsInit == Init /\ read = NoRead

\* What was in the partition at every moment since the request came, and at some moment.
Watch(visible, held, readable) ==
    [read EXCEPT !.always = @ \cap visible, !.held = held, !.ever = @ \cup readable,
                 !.texts = @ \cap {i.text : i \in visible}]

Arrive(c, handler, partition, item) ==
    /\ read = NoRead
    /\ open
    /\ handler \in {"findByContentKey", "resolveItem"} => partition = "current"
    /\ (handler \in {"listItems", "listItemIds"}) <=> (item = None)
    /\ LET visible == Visible(c, partition)
           held == HeldNow(c, partition)
       IN  read' = [at |-> "load", handler |-> handler, caller |-> c, partition |-> partition,
                    item |-> item, generation |-> None, lease |-> None,
                    next |-> IF handler \in {"getItem", "getItemContent"} THEN "look" ELSE "ids",
                    todo |-> {}, found |-> {}, answer |-> None,
                    always |-> visible, held |-> held, ever |-> Readable(c, partition, held),
                    texts |-> {i.text : i \in visible}]
    /\ UNCHANGED vars

Answer(r, answer) == [r EXCEPT !.at = "answered", !.answer = answer]

-----------------------------------------------------------------------------
(* One call of the engine: the record is loaded, and then the shelf is read. *)

\* Mutant of GenerationLoaded: while a rewrite runs, what it stages is shown already.
StagedLoaded(c, partition) ==
    CASE partition = "plain" -> rec.plain
      [] OTHER -> IF rec.session = None THEN rec.generation ELSE rec.session.staged_generation

\* generation_of, and held_session for what is staged; None where there is nothing to read.
GenerationLoaded(c, partition) ==
    CASE partition = "current" -> rec.generation
      [] partition = "plain" -> rec.plain
      [] partition = "staged" -> IF HeldSession(c) THEN rec.session.staged_generation ELSE None

\* A session is its holder's; a partition that is not there has no items.
NothingToRead ==
    CASE read.partition = "staged" /\ rec.session # None -> "LeaseHeld"
      [] read.partition # "staged" /\ read.next = "ids" -> "Ok"
      [] OTHER -> "NotFound"

\* Mutant of Load: the engine keeps the record it loaded first.
LoadOnce ==
    /\ read.at = "load"
    /\ read.handler # "writeRefused"
    /\ LET g == IF read.partition = "current" THEN 0 ELSE GenerationLoaded(read.caller, read.partition)
       IN  read' = IF g = None
                   THEN Answer(read, NothingToRead)
                   ELSE [read EXCEPT !.generation = g, !.at = read.next]
    /\ UNCHANGED vars

Load ==
    /\ read.at = "load"
    /\ read.handler # "writeRefused"
    /\ LET g == GenerationLoaded(read.caller, read.partition)
       IN  read' = IF g = None
                   THEN Answer(read, NothingToRead)
                   ELSE [read EXCEPT !.generation = g, !.at = read.next]
    /\ UNCHANGED vars

\* The next call of the handler, with a record of its own.
Again(r, next) == [r EXCEPT !.at = "load", !.next = next]

\* The handlers that begin with the ids of a generation; of one that was dropped, none.
ListItemIds ==
    /\ read.at = "ids" /\ read.handler = "listItemIds"
    /\ read' = Answer([read EXCEPT !.found = gens[read.generation]], "Ok")
    /\ UNCHANGED vars

ResolveItem ==
    /\ read.at = "ids" /\ read.handler = "resolveItem"
    /\ read' = Answer([read EXCEPT !.found = Same(read.generation, read.item)], "Ok")
    /\ UNCHANGED vars

\* The oldest of them, which a call of its own then looks at.
FindByContentKey ==
    /\ read.at = "ids" /\ read.handler = "findByContentKey"
    /\ \/ Same(read.generation, read.item) = {} /\ read' = Answer(read, "NotFound")
       \/ \E oldest \in FindIn(read.generation, read.item) :
             read' = Again([read EXCEPT !.item = oldest], "look")
    /\ UNCHANGED vars

ListItems ==
    LET listed == gens[read.generation]
    IN  /\ read.at = "ids" /\ read.handler = "listItems"
        /\ read' = CASE listed = {} -> Answer(read, "Ok")
                     [] listed # {} /\ read.partition = "staged" ->
                            Again([read EXCEPT !.todo = listed], "look")
                     [] OTHER -> [read EXCEPT !.todo = listed, !.at = "look"]
        /\ UNCHANGED vars

\* Mutant of LookOver: the listing ends where an item is missing.
LookOverUntilGone(i) ==
    LET left == read.todo \ {i}
        there == i \in gens[read.generation]
        looked == [read EXCEPT !.todo = left, !.found = IF there THEN @ \cup {i} ELSE @]
    IN  /\ read.at = "look"
        /\ read.handler = "listItems"
        /\ i \in read.todo
        /\ read' = IF left = {} \/ ~there THEN Answer(looked, "Ok") ELSE looked
        /\ UNCHANGED vars

\* A listing looks at one item after the other.  "An item deleted between the listing and
\* the look is left out"; of what is staged, each is a call with a record of its own, and
\* one that is missing fails the whole.
LookOver(i) ==
    LET left == read.todo \ {i}
        there == i \in gens[read.generation]
        looked == [read EXCEPT !.todo = left, !.found = IF there THEN @ \cup {i} ELSE @]
    IN  /\ read.at = "look"
        /\ read.handler = "listItems"
        /\ i \in read.todo
        /\ read' = IF read.partition = "staged" /\ ~there THEN Answer(read, "NotFound")
                   ELSE IF left = {} THEN Answer(looked, "Ok")
                   ELSE IF read.partition = "staged" THEN Again(looked, "look")
                   ELSE looked
        /\ UNCHANGED vars

\* getItem, the second half of findByContentKey, and the first of getItemContent.
LookAt ==
    /\ read.at = "look"
    /\ read.handler # "listItems"
    /\ read' = IF read.item \notin gens[read.generation] THEN Answer(read, "NotFound")
               ELSE IF read.handler = "getItemContent" THEN Again(read, "open")
               ELSE Answer([read EXCEPT !.found = {read.item}], "Ok")
    /\ UNCHANGED vars

\* The content is opened by another call; from there on the file is held, whatever happens
\* to the item.
OpenContent ==
    /\ read.at = "open"
    /\ read' = IF read.item \notin gens[read.generation] THEN Answer(read, "NotFound")
               ELSE Answer([read EXCEPT !.found = {read.item}], "Ok")
    /\ UNCHANGED vars

\* in_workspace: a write was refused because of a session, and the session is then looked
\* up for the end of its lease.
Refuse(c) ==
    /\ read = NoRead
    /\ open
    /\ rec.session # None
    /\ read' = [at |-> "load", handler |-> "writeRefused", caller |-> c, partition |-> "current",
                item |-> None, generation |-> None, lease |-> None, next |-> "ids",
                todo |-> {}, found |-> {}, answer |-> None,
                always |-> {}, held |-> {}, ever |-> {}, texts |-> {}]
    /\ UNCHANGED vars

SayLease ==
    /\ read.at = "load"
    /\ read.handler = "writeRefused"
    /\ read' = Answer([read EXCEPT !.lease = IF rec.session = None THEN None
                                             ELSE rec.session.lease_expires_at], "Refused")
    /\ UNCHANGED vars

Leave ==
    /\ read.at = "answered"
    /\ read' = NoRead
    /\ UNCHANGED vars

\* A kill takes the request with it.  An answer leaves before anything else happens, since
\* nothing that happens later is compared with it.
WorkspaceStep ==
    /\ Next
    /\ read.at # "answered"
    /\ \/ read.at = "idle" /\ UNCHANGED read
       \/ read.at # "idle" /\ ~open' /\ read' = NoRead
       \/ /\ read.at # "idle"
          /\ open'
          /\ \E c \in {read.caller}, p \in {read.partition} :
                \E held \in {read.held \cup HeldNow(c, p)'} :
                   read' = Watch(Visible(c, p)', held, Readable(c, p, held)')

RequestsNext ==
    \/ WorkspaceStep
    \/ \E c \in ApiKeys :
          \/ \E h \in Handlers \ {"writeRefused"}, p \in Partitions,
                i \in Item \cup {None} : Arrive(c, h, p, i)
          \/ Refuse(c)
    \/ Load \/ ListItemIds \/ ResolveItem \/ FindByContentKey \/ ListItems
    \/ (\E i \in Item : LookOver(i)) \/ LookAt \/ OpenContent
    \/ SayLease \/ Leave

RequestsSpec == RequestsInit /\ [][RequestsNext]_allVars

-----------------------------------------------------------------------------
(* Properties. *)

Answered == read.at = "answered"

\* What a read answers was, at some moment of the request, in the partition it asked for:
\* no item of a generation that is not committed yet or was dropped before, and nothing
\* staged in a session that the caller never held since then (generation_of, held_session).
AnswersWereThere == Answered => read.found \subseteq read.ever

\* A listing leaves out no item that was there from the request to the answer, whatever is
\* deleted, uploaded, sealed or rewritten meanwhile (items_after, list_item_ids).
ListsWhatStays ==
    Answered /\ read.answer = "Ok" /\ read.handler \in {"listItems", "listItemIds"}
        => read.always \subseteq read.found

\* "Not found" is said of an item or of a content key only if for a moment it was not there.
NotFoundIsTrue ==
    Answered /\ read.answer = "NotFound" =>
        /\ read.handler \in {"getItem", "getItemContent"} => read.item \notin read.always
        /\ read.handler = "findByContentKey" => read.item \notin read.always

\* workspace.rs: "Every operation of an Engine ... runs as one ledger transaction", and
\* docs/api/rewrite-session.md: "Readers keep reading the current generation".  A text that
\* is stored from the request to the answer is listed, under its old key or its new one.
ListsEveryText ==
    Answered /\ read.handler \in {"listItems", "listItemIds"} /\ read.partition = "current"
        => read.texts \subseteq {i.text : i \in read.found}

\* in_workspace, state.rs: "Such a refusal says when the session's lease ends".
RefusalSaysWhen == Answered /\ read.handler = "writeRefused" => read.lease # None

=============================================================================
