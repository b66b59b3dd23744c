------------------------------ MODULE MCStorage -----------------------------
(***************************************************************************)
(* What lies on the disk, for TLC: the files of a shelf, the files of one   *)
(* upload under power failures, and the rows of a record.  In these modules *)
(* the three share no state, so a behaviour is that of one of them; and the *)
(* shelf is looked at twice, with PUTs and another process but no reader,   *)
(* who changes nothing, and with a reader beside the workers.               *)
(***************************************************************************)
EXTENDS FsShelf, MCStagedFile, MCRows, TLC

VARIABLE part   \* the one that moves

\* Workers and envelopes are alike.
MCSymmetry == Permutations(Workers) \cup Permutations(Envelopes)

StorageInit ==
    /\ part \in {"shelf", "reads", "upload", "rows"}
    /\ FsInit /\ Init /\ RowsInit
    /\ part # "upload" => checked

StorageNext ==
    /\ UNCHANGED part
    /\ \/ /\ part \in {"shelf", "reads"} /\ FsNext
          /\ IF part = "shelf" THEN UNCHANGED reading ELSE UNCHANGED <<sending, opener>>
          /\ UNCHANGED <<vars, database>>
       \/ part = "upload" /\ Next /\ UNCHANGED <<shelf, database>>
       \/ part = "rows" /\ RowsNext /\ UNCHANGED <<shelf, vars>>

StorageSpec == StorageInit /\ [][StorageNext]_<<part, shelf, vars, database>>

=============================================================================
