------------------------------- MODULE Store --------------------------------
(***************************************************************************)
(* What a workspace promises its users, with no record, generations,        *)
(* staging, leases, crashes, or clean-ups in sight: a set of items under    *)
(* one data key, a set of plain items set aside, and five things that can   *)
(* happen to them.  In particular a rewrite is one step that re-encrypts    *)
(* every item and loses none.                                               *)
(***************************************************************************)
CONSTANTS Item, KeyIds, None

VARIABLES current, aside, key

Init ==
    /\ current = {}
    /\ aside = {}
    /\ key = None

\* A new item, under the workspace's key, whose content is not stored yet.
Put(item) ==
    /\ item.under = key
    /\ \A i \in current : i.text # item.text
    /\ current' = current \cup {item}
    /\ UNCHANGED <<aside, key>>

Remove(item) ==
    /\ item \in current \cup aside
    /\ \/ current' = current \ {item} /\ UNCHANGED aside
       \/ aside' = aside \ {item} /\ UNCHANGED current
    /\ UNCHANGED key

\* A plaintext workspace is sealed; what it holds is set aside as it is.
Seal(k) ==
    /\ key = None
    /\ key' = k
    /\ aside' = current
    /\ current' = {}

\* Every item is re-encrypted: the same text, of the same time, under the new key.
Rekey(k) ==
    /\ k # key
    /\ key' = k
    /\ current' = {[i EXCEPT !.under = k] : i \in current}
    /\ UNCHANGED aside

Next ==
    \/ \E item \in Item : Put(item) \/ Remove(item)
    \/ \E k \in KeyIds \ {None} : Seal(k) \/ Rekey(k)

Spec == Init /\ [][Next]_<<current, aside, key>>

=============================================================================
