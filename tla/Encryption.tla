----------------------------- MODULE Encryption -----------------------------
(***************************************************************************)
(* The rules of workspace.rs: deleting an item, and the changes of a        *)
(* workspace's encryption that re-encrypt nothing.                          *)
(***************************************************************************)
EXTENDS Record

\* Mutant of DeleteItem: the subtraction does not saturate.
DeleteItemBelowZero(c, partition, item, expected) ==
    LET g == GenerationOf(partition)
    IN  /\ open
        /\ MustWrite(c)
        /\ CheckWritable(expected)
        /\ g # None
        /\ item \in gens[g]
        /\ gens' = [gens EXCEPT ![g] = @ \ {item}]
        /\ \/ Store([rec EXCEPT !.used[g] = @ - SizeOf(item)], {}, {})
           \/ NotStored
        /\ UNCHANGED <<staging, now, issued, answers>>

\* `deleteItem`.  The item leaves the shelf inside the transaction, before the
\* record is stored; the count saturates at zero.
DeleteItem(c, partition, item, expected) ==
    LET g == GenerationOf(partition)
        less == IF rec.used[g] < SizeOf(item) THEN 0 ELSE rec.used[g] - SizeOf(item)
    IN  /\ open
        /\ MustWrite(c)
        /\ CheckWritable(expected)
        /\ g # None
        /\ item \in gens[g]
        /\ gens' = [gens EXCEPT ![g] = @ \ {item}]
        /\ \/ Store([rec EXCEPT !.used[g] = less], {}, {})
           \/ NotStored
        /\ UNCHANGED <<staging, now, issued, answers>>

\* What `enableEncryption` and `freshStart` share.  Sent again with the same key
\* id they answer the state they produced, and change nothing.
Settle(c) ==
    /\ open
    /\ MustWrite(c)
    /\ rec.session = None
    /\ rec.seal = None

\* The client wraps the data key it announces.
SealUnder(key, words) ==
    [key |-> key, header |-> [wraps |-> key, words |-> words]]

\* `enableEncryption`: seals an empty plaintext workspace.
EnableEncryption(c, key, words) ==
    /\ Settle(c)
    /\ gens[rec.generation] = {}
    /\ Store([rec EXCEPT !.seal = SealUnder(key, words)], {}, {})
    /\ UNCHANGED <<gens, staging, now, issued, answers>>

\* `freshStart`: seals a plaintext workspace; its items, if there are any,
\* become the plain partition by moving one pointer.
FreshStart(c, key, words) ==
    /\ Settle(c)
    /\ \/ /\ gens[rec.generation] = {}
          /\ Store([rec EXCEPT !.seal = SealUnder(key, words)], {}, {})
       \/ /\ gens[rec.generation] # {}
          /\ rec.next_generation =< MaxGeneration
          /\ Store([rec EXCEPT !.seal = SealUnder(key, words),
                               !.plain = rec.generation,
                               !.generation = rec.next_generation,
                               !.next_generation = @ + 1], {}, {})
    /\ UNCHANGED <<gens, staging, now, issued, answers>>

\* Mutant of ReplaceHeader: the key id the caller expects is not compared.
ReplaceHeaderUnderAnyKey(c, expected, words) ==
    /\ open
    /\ MustWrite(c)
    /\ rec.session = None
    /\ rec.seal # None
    /\ Store([rec EXCEPT !.seal.header = [wraps |-> expected, words |-> words]], {}, {})
    /\ UNCHANGED <<gens, staging, now, issued, answers>>

\* `replaceHeader`: the change of words.  The client wraps again the data key
\* whose id it names as expected.
ReplaceHeader(c, expected, words) ==
    /\ open
    /\ MustWrite(c)
    /\ rec.session = None
    /\ rec.seal # None
    /\ rec.seal.key = expected
    /\ Store([rec EXCEPT !.seal.header = [wraps |-> expected, words |-> words]], {}, {})
    /\ UNCHANGED <<gens, staging, now, issued, answers>>

=============================================================================
