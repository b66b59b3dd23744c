---------------------------- MODULE MCWorkspace -----------------------------
(* The constants of Workspace for TLC. *)
EXTENDS Workspace, TLC

\* Texts are "short" and "long".
MCSize == [t \in Texts |-> IF t = "long" THEN 2 ELSE 1]

\* Upload ids are only compared, and so are API keys.
Symmetric == Permutations(UploadIds) \cup Permutations(ApiKeys)

=============================================================================
