---------------------------- MODULE MCStagedFile ----------------------------
(* The constants of StagedFile for TLC: an upload whose content is sent up to *)
(* three times, right, wrong, and right again.                               *)
EXTENDS StagedFile

MCSends == [p \in Puts |-> IF p = 2 THEN "wrong" ELSE "right"]

=============================================================================
