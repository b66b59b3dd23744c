----------------------------- MODULE DiskShelf ------------------------------
(***************************************************************************)
(* What a shelf in a directory (shelf/fs.rs) keeps of the promise of module *)
(* MemoryShelf.  Places and items are made, published, and removed in one   *)
(* step.  Content is not written in one: while a PUT runs, its place holds  *)
(* parts of what is sent, and an item that is published meanwhile goes on   *)
(* changing until that PUT ends.                                           *)
(***************************************************************************)
EXTENDS MemoryShelf

CONSTANT Torn      \* content that is not the whole of what one request sent

VARIABLE fluid     \* the items a PUT still writes to

disk == <<shelves, fluid>>

DiskInit == ShelfInit /\ fluid = {}

Placing(u) == (StageCreate(u) \/ StageRemove(u)) /\ UNCHANGED fluid

Writing(u, content) == StageWrite(u, content) /\ UNCHANGED fluid

\* A PUT of the place may be running.
Publishing(u, g, i, envelope) ==
    /\ Publish(u, g, i, envelope)
    /\ fluid' \in {fluid, fluid \cup {<<g, i>>}}

\* Only of an item that a PUT was writing to when it was published, and only its content; it
\* may be the last change.
Changing(g, i, content) ==
    /\ <<g, i>> \in fluid
    /\ generations[g][i] # Missing
    /\ generations' = [generations EXCEPT ![g][i].content = content]
    /\ fluid' \subseteq fluid
    /\ UNCHANGED staging

\* The PUTs have ended, or were killed.
Settling ==
    /\ fluid' \subseteq fluid
    /\ UNCHANGED shelves

Removing(g, i) == Remove(g, i) /\ fluid' = fluid \ {<<g, i>>}

Dropping(g) == DropGeneration(g) /\ fluid' = fluid \ ({g} \X Items)

DiskNext ==
    \/ \E u \in Uploads :
          \/ Placing(u)
          \/ \E content \in Contents \cup {Empty, Torn} : Writing(u, content)
          \/ \E g \in Gens, i \in Items, envelope \in Envelopes : Publishing(u, g, i, envelope)
    \/ \E g \in Gens :
          \/ Dropping(g)
          \/ \E i \in Items :
                \/ Removing(g, i)
                \/ \E content \in Contents \cup {Empty, Torn} : Changing(g, i, content)
    \/ Settling

DiskSpec == DiskInit /\ [][DiskNext]_disk

=============================================================================
