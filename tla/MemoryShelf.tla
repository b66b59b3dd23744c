---------------------------- MODULE MemoryShelf ----------------------------
(***************************************************************************)
(* What a shelf promises (the trait ItemShelf, shelf/mod.rs), as the shelf  *)
(* in memory keeps it (shelf/memory.rs): every operation is one step.       *)
(***************************************************************************)
EXTENDS Naturals

CONSTANTS Uploads, Gens, Items, Contents, Envelopes, Missing, Empty

VARIABLES
    staging,      \* upload -> its content, Empty at first; Missing where there is no place
    generations   \* generation -> item id -> content and envelope, or Missing

shelves == <<staging, generations>>

Stored == [content : Contents \cup {Empty}, envelope : Envelopes]

ShelfInit ==
    /\ staging = [u \in Uploads |-> Missing]
    /\ generations = [g \in Gens |-> [i \in Items |-> Missing]]

\* Harmless when it exists.
StageCreate(u) ==
    /\ staging' = [staging EXCEPT ![u] = IF @ = Missing THEN Empty ELSE @]
    /\ UNCHANGED generations

\* Replaced whole, or emptied when the content was refused or ended early.
StageWrite(u, content) ==
    /\ staging[u] # Missing
    /\ staging' = [staging EXCEPT ![u] = content]
    /\ UNCHANGED generations

StageRemove(u) ==
    /\ staging' = [staging EXCEPT ![u] = Missing]
    /\ UNCHANGED generations

\* Unless the item exists: then nothing is replaced.
Publish(u, g, i, envelope) ==
    /\ staging[u] # Missing
    /\ generations[g][i] = Missing
    /\ staging' = [staging EXCEPT ![u] = Missing]
    /\ generations' = [generations EXCEPT ![g][i] = [content |-> staging[u], envelope |-> envelope]]

Remove(g, i) ==
    /\ generations' = [generations EXCEPT ![g][i] = Missing]
    /\ UNCHANGED staging

DropGeneration(g) ==
    /\ generations' = [generations EXCEPT ![g] = [i \in Items |-> Missing]]
    /\ UNCHANGED staging

ShelfNext ==
    \/ \E u \in Uploads :
          \/ StageCreate(u) \/ StageRemove(u)
          \/ \E content \in Contents \cup {Empty} : StageWrite(u, content)
          \/ \E g \in Gens, i \in Items, envelope \in Envelopes : Publish(u, g, i, envelope)
    \/ \E g \in Gens : DropGeneration(g) \/ \E i \in Items : Remove(g, i)

ShelfSpec == ShelfInit /\ [][ShelfNext]_shelves

=============================================================================
