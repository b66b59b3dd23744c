------------------------------- MODULE Schema -------------------------------
(***************************************************************************)
(* Opening the control database: open_connection, use_wal and migrate_with  *)
(* of ledger/sqlite.rs over the steps of control/schema.rs.  Processes of   *)
(* several builds open one file, the server and the operator's commands,    *)
(* during an upgrade of both builds; any of them may be killed anywhere.    *)
(***************************************************************************)
EXTENDS Naturals, Sequences

CONSTANTS
    Processes,
    Latest,     \* [Processes -> Nat]: how many steps a process's build knows
    Nobody

ASSUME LatestAssumption ==
    /\ Latest \in [Processes -> Nat \ {0}]
    /\ Nobody \notin Processes

VARIABLES
    mode,       \* the file: "absent", in "delete" mode as SQLite makes it, or in "wal" mode
    db,         \* what is committed: the recorded version, and the steps that ran
    lock,       \* the process alone with the database, or with SQLite's write lock
    pc,         \* where each process is in opening it
    tx,         \* the holder's uncommitted database
    late        \* the processes whose patience is over

schema == <<mode, db, lock, pc, tx, late>>

Empty == [version |-> 0, ran |-> <<>>]

SchemaInit ==
    /\ mode = "absent"
    /\ db = Empty
    /\ lock = Nobody
    /\ pc = [p \in Processes |-> "closed"]
    /\ tx = Empty
    /\ late = {}

Go(p, where) == pc' = [pc EXCEPT ![p] = where]

-----------------------------------------------------------------------------
\* The file is created when it is new, and never truncated.
Open(p) ==
    /\ pc[p] \in {"closed", "failed"}
    /\ Go(p, "wal")
    /\ mode' = IF mode = "absent" THEN "delete" ELSE mode
    /\ UNCHANGED <<db, lock, tx, late>>

\* use_wal: the mode is recorded in the file, so only the first opener has to switch.
ReadsWal(p) ==
    /\ pc[p] = "wal"
    /\ mode = "wal"
    /\ lock = Nobody
    /\ Go(p, "begin")
    /\ late' = late \ {p}
    /\ UNCHANGED <<mode, db, lock, tx>>

\* The switch needs a moment alone with the database...
StartSwitch(p) ==
    /\ pc[p] = "wal"
    /\ mode = "delete"
    /\ lock = Nobody
    /\ lock' = p
    /\ Go(p, "switching")
    /\ UNCHANGED <<mode, db, tx, late>>

Switch(p) ==
    /\ pc[p] = "switching"
    /\ mode' = "wal"
    /\ lock' = Nobody
    /\ Go(p, "begin")
    /\ late' = late \ {p}
    /\ UNCHANGED <<db, tx>>

\* Mutant of BusySwitch: "locked" is retried for ever.
BusySwitchForever(p) == FALSE /\ pc[p] = "wal" /\ UNCHANGED schema

\* ... and SQLite answers "locked" at once: tried again until the deadline.
BusySwitch(p) ==
    /\ pc[p] = "wal"
    /\ lock # Nobody
    /\ p \in late
    /\ Go(p, "failed")
    /\ late' = late \ {p}
    /\ UNCHANGED <<mode, db, lock, tx>>

-----------------------------------------------------------------------------
(* migrate_with: one IMMEDIATE transaction. *)

Begin(p) ==
    /\ pc[p] = "begin"
    /\ lock = Nobody
    /\ lock' = p
    /\ tx' = db
    /\ Go(p, "check")
    /\ late' = late \ {p}
    /\ UNCHANGED <<mode, db>>

\* The busy timeout.
BusyBegin(p) ==
    /\ pc[p] = "begin"
    /\ lock # Nobody
    /\ p \in late
    /\ Go(p, "failed")
    /\ late' = late \ {p}
    /\ UNCHANGED <<mode, db, lock, tx>>

\* The transaction is dropped, which rolls it back.
Rollback(p, where) ==
    /\ lock' = Nobody
    /\ tx' = Empty
    /\ Go(p, where)
    /\ UNCHANGED <<mode, db, late>>

\* A database from a newer server is refused.
TooNew(p) ==
    /\ pc[p] = "check"
    /\ tx.version > Latest[p]
    /\ Rollback(p, "failed")

UpToDate(p) ==
    /\ pc[p] = "check"
    /\ tx.version = Latest[p]
    /\ Rollback(p, "open")

Old(p) ==
    /\ pc[p] = "check"
    /\ tx.version < Latest[p]
    /\ Go(p, "steps")
    /\ UNCHANGED <<mode, db, lock, tx, late>>

\* Mutant of Step: every step is a transaction of its own.
StepAlone(p) ==
    LET n == Len(tx.ran) + 1
    IN  /\ pc[p] = "steps"
        /\ n \in tx.version + 1 .. Latest[p]
        /\ tx' = [tx EXCEPT !.ran = Append(@, n)]
        /\ db' = [db EXCEPT !.ran = Append(@, n)]
        /\ UNCHANGED <<mode, lock, pc, late>>

Step(p) ==
    LET n == Len(tx.ran) + 1
    IN  /\ pc[p] = "steps"
        /\ n \in tx.version + 1 .. Latest[p]
        /\ tx' = [tx EXCEPT !.ran = Append(@, n)]
        /\ UNCHANGED <<mode, db, lock, pc, late>>

\* The version is recorded in the same transaction: inserted by the first, then updated.
Commit(p) ==
    /\ pc[p] = "steps"
    /\ Len(tx.ran) = Latest[p]
    /\ db' = [tx EXCEPT !.version = Latest[p]]
    /\ tx' = Empty
    /\ lock' = Nobody
    /\ Go(p, "open")
    /\ UNCHANGED <<mode, late>>

\* One of the statements fails, the disk being full for instance.
FailStep(p) ==
    /\ pc[p] = "steps"
    /\ Rollback(p, "failed")

-----------------------------------------------------------------------------
(* The rest of the system. *)

Close(p) ==
    /\ pc[p] = "open"
    /\ Go(p, "closed")
    /\ UNCHANGED <<mode, db, lock, tx, late>>

\* Killed: SQLite drops what was not committed, and its locks.
Kill(p) ==
    /\ pc[p] \notin {"closed", "failed"}
    /\ Go(p, "closed")
    /\ lock' = IF lock = p THEN Nobody ELSE lock
    /\ tx' = IF lock = p THEN Empty ELSE tx
    /\ late' = late \ {p}
    /\ UNCHANGED <<mode, db>>

\* Time passes while a process waits for another.
Late(p) ==
    /\ pc[p] \in {"wal", "begin"}
    /\ p \notin late
    /\ late' = late \cup {p}
    /\ UNCHANGED <<mode, db, lock, pc, tx>>

Opening(p) ==
    \/ ReadsWal(p) \/ StartSwitch(p) \/ Switch(p) \/ BusySwitch(p)
    \/ Begin(p) \/ BusyBegin(p)
    \/ TooNew(p) \/ UpToDate(p) \/ Old(p) \/ Step(p) \/ Commit(p)

SchemaNext ==
    \E p \in Processes :
        \/ Open(p) \/ Opening(p) \/ FailStep(p) \/ Close(p) \/ Kill(p) \/ Late(p)

SchemaSpec == SchemaInit /\ [][SchemaNext]_schema

\* A process runs, and its clock does.
SchemaFairness == \A p \in Processes : WF_schema(Opening(p)) /\ WF_schema(Late(p))

-----------------------------------------------------------------------------
(* Properties. *)

\* "Either every step takes, or the database stays exactly as it was" (migrate_with): the
\* steps that ran on the committed database are those up to the version it records, each
\* once and in order, and the version is one a build knows; a kill anywhere, two builds at
\* work or a failing step change nothing of that.
Whole ==
    /\ db.ran = [i \in 1 .. db.version |-> i]
    /\ db.version \in {0} \cup {Latest[p] : p \in Processes}

\* A database from a newer server "is left as it is" (SqliteLedger::open), and no build
\* ever takes it back to an older schema.
NeverDowngraded == [][db'.version >= db.version]_schema

\* A process that has the database open works on one with all the steps its build knows,
\* though another build may take it further meanwhile; and the lock is never left behind by
\* a process that failed, finished, or was killed: whoever waits for it waits for one that
\* is at work (open_connection and migrate_with).
ServedByItsSchema ==
    /\ \A p \in Processes : pc[p] = "open" => mode = "wal" /\ db.version >= Latest[p]
    /\ lock # Nobody => lock \in Processes /\ pc[lock] \in {"switching", "check", "steps"}

\* Every opening comes to an end, however many others open and close the file (the
\* deadline of use_wal, and SQLite's busy timeout).
OpeningEnds ==
    SchemaFairness => \A p \in Processes : pc[p] = "wal" ~> pc[p] \in {"open", "failed", "closed"}

=============================================================================
