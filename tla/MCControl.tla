------------------------------ MODULE MCControl -----------------------------
(***************************************************************************)
(* The control database, for TLC: keys and workspaces changed by operators  *)
(* while requests are authenticated (Control), or workspaces made, opened,  *)
(* checked, and deleted with their directories (Registry).                  *)
(***************************************************************************)
EXTENDS Registry, TLC

VARIABLE part   \* which of the two

\* Ids, keys, operators, and requests are alike.
MCSymmetry ==
    Permutations(Ids) \cup Permutations(KeyIds)
        \cup Permutations(Operators) \cup Permutations(Requests)

PartsInit == part \in {"keys", "workspaces"} /\ RegistryInit

PartsNext ==
    /\ UNCHANGED part
    /\ \/ part = "keys" /\ ControlNext /\ UNCHANGED host
       \/ part = "workspaces" /\ RegistryNext

PartsSpec == PartsInit /\ [][PartsNext]_<<part, registry>>

=============================================================================
