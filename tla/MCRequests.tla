----------------------------- MODULE MCRequests -----------------------------
(* The constants of Requests for TLC. *)
EXTENDS Requests, TLC

\* Texts are "short" and "long".
MCSize == [t \in Texts |-> IF t = "long" THEN 2 ELSE 1]

\* Upload ids are only compared.
SymmetricUploads == Permutations(UploadIds)

=============================================================================
