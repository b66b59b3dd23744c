----------------------------- MODULE HostProofs -----------------------------
(***************************************************************************)
(* Theorems about the host around the server, for every value of the       *)
(* constants: the schema of its database, the pair its connections get, the *)
(* service's files, where commands find their configuration, and the dates  *)
(* it writes.                                                               *)
(***************************************************************************)
EXTENDS Schema, TlsReload, ServiceInstall, Places, Calendar, SequenceTheorems, TLAPS

(* The schema. *)

\* The first n steps, each once and in order.
Steps(n) == [i \in 1 .. n |-> i]

Versions == {0} \cup {Latest[p] : p \in Processes}

\* Who may write is alone, and its uncommitted database is the committed one with further
\* steps: all that the version it records stands for, and none that its build does not know.
SchemaInv ==
    /\ db.version \in Versions /\ db = [version |-> db.version, ran |-> Steps(db.version)]
    /\ pc \in [Processes -> {"closed", "failed", "wal", "switching", "begin", "check", "steps", "open"}]
    /\ \A p \in Processes : pc[p] \in {"switching", "check", "steps"} => lock = p
    /\ \A p \in Processes : pc[p] = "check" => tx = db
    /\ \A p \in Processes : pc[p] = "steps" =>
          \E n \in Nat : /\ db.version =< n /\ n =< Latest[p] /\ db.version < Latest[p]
                         /\ tx = [version |-> db.version, ran |-> Steps(n)]

\* What the steps of a build's list come to.
LEMMA StepsAreASequence ==
    ASSUME NEW n \in Nat
    PROVE  /\ Steps(n) \in Seq(Nat) /\ Len(Steps(n)) = n
           /\ Append(Steps(n), n + 1) = Steps(n + 1)
<1>1. Steps(n) \in Seq(Nat) /\ Len(Steps(n)) = n /\ DOMAIN Steps(n) = 1 .. n
      /\ \A i \in 1 .. n : Steps(n)[i] = i
  BY DEF Steps
<1>2. Steps(n + 1) \in Seq(Nat) /\ Len(Steps(n + 1)) = n + 1
      /\ \A i \in 1 .. n + 1 : Steps(n + 1)[i] = i
  BY DEF Steps
<1>3. /\ Append(Steps(n), n + 1) \in Seq(Nat) /\ Len(Append(Steps(n), n + 1)) = n + 1
      /\ \A i \in 1 .. n + 1 : Append(Steps(n), n + 1)[i] = i
  BY <1>1, AppendProperties
<1>4. QED
  BY <1>1, <1>2, <1>3, SeqEqual

\* The versions of a schema are numbers.
LEMMA VersionsAreNumbers == Versions \subseteq Nat
  BY LatestAssumption DEF Versions

\* A process that holds nothing goes somewhere where it holds nothing.
LEMMA WaiterSafe ==
    ASSUME SchemaInv, NEW p \in Processes, pc[p] \notin {"switching", "check", "steps"},
           NEW where \in {"closed", "failed", "wal", "begin", "open"}, Go(p, where),
           UNCHANGED <<db, lock, tx>>
    PROVE  SchemaInv'
<1>1. /\ pc' \in [Processes -> {"closed", "failed", "wal", "switching", "begin", "check", "steps", "open"}]
      /\ pc'[p] = where /\ \A q \in Processes : q # p => pc'[q] = pc[q]
  BY DEF Go, SchemaInv
<1>2. QED
  BY <1>1 DEF SchemaInv

\* The holder gives up what it holds, its uncommitted database with it.
LEMMA HolderLeaves ==
    ASSUME SchemaInv, NEW p \in Processes, lock = p,
           NEW where \in {"closed", "failed", "wal", "begin", "open"}, Go(p, where),
           db' = db
    PROVE  SchemaInv'
<1>1. /\ pc' \in [Processes -> {"closed", "failed", "wal", "switching", "begin", "check", "steps", "open"}]
      /\ pc'[p] = where /\ \A q \in Processes : q # p => pc'[q] = pc[q]
  BY DEF Go, SchemaInv
<1>2. \A q \in Processes : q # p => pc[q] \notin {"switching", "check", "steps"}
  BY DEF SchemaInv
<1>3. \A q \in Processes : pc'[q] \notin {"switching", "check", "steps"}
  BY <1>1, <1>2
<1>4. QED
  BY <1>1, <1>3 DEF SchemaInv

\* A process takes the lock.
LEMMA HolderComes ==
    ASSUME SchemaInv, NEW p \in Processes, lock = Nobody, lock' = p, db' = db,
           \/ Go(p, "switching")
           \/ Go(p, "check") /\ tx' = db
    PROVE  SchemaInv'
<1>1. /\ pc' \in [Processes -> {"closed", "failed", "wal", "switching", "begin", "check", "steps", "open"}]
      /\ pc'[p] \in {"switching", "check"} /\ \A q \in Processes : q # p => pc'[q] = pc[q]
      /\ pc'[p] = "check" => tx' = db
  BY DEF Go, SchemaInv
<1>2. \A q \in Processes : pc[q] \notin {"switching", "check", "steps"}
  BY LatestAssumption DEF SchemaInv
<1>3. QED
  BY <1>1, <1>2 DEF SchemaInv

\* The holder's build runs its steps (migrate_with).
LEMMA MigrateSafe ==
    ASSUME SchemaInv, NEW p \in Processes, Old(p) \/ Step(p) \/ Commit(p)
    PROVE  SchemaInv' /\ (db' = db \/ db'.version > db.version)
<1>0. Latest[p] \in Nat \ {0} /\ Latest[p] \in Versions /\ db.version \in Nat
  BY LatestAssumption, VersionsAreNumbers DEF Versions, SchemaInv
<1>1. pc[p] \in {"check", "steps"} /\ lock = p
  BY DEF Old, Step, Commit, SchemaInv
<1>2. \A q \in Processes : q # p => pc[q] \notin {"switching", "check", "steps"}
  BY <1>1 DEF SchemaInv
<1>3. CASE Old(p)
  <2>1. /\ pc[p] = "check" /\ tx.version < Latest[p] /\ Go(p, "steps") /\ UNCHANGED <<db, lock, tx>>
    BY <1>3 DEF Old
  <2>2. tx = db
    BY <2>1 DEF SchemaInv
  <2>3. tx = [version |-> db.version, ran |-> Steps(db.version)] /\ db.version < Latest[p]
    BY <2>1, <2>2 DEF SchemaInv
  <2>4. /\ pc' \in [Processes -> {"closed", "failed", "wal", "switching", "begin", "check", "steps", "open"}]
        /\ pc'[p] = "steps" /\ \A q \in Processes : q # p => pc'[q] = pc[q]
    BY <2>1 DEF Go, SchemaInv
  <2>5. SchemaInv'
    BY <1>0, <1>1, <1>2, <2>1, <2>3, <2>4 DEF SchemaInv
  <2>6. QED
    BY <2>1, <2>5
<1>4. CASE Step(p)
  <2>1. PICK n \in Nat : /\ db.version =< n /\ n =< Latest[p] /\ db.version < Latest[p]
                         /\ tx = [version |-> db.version, ran |-> Steps(n)]
    BY <1>4 DEF Step, SchemaInv
  <2>2. Len(tx.ran) = n
    BY <2>1, StepsAreASequence
  <2>3. /\ pc[p] = "steps" /\ n + 1 \in tx.version + 1 .. Latest[p]
        /\ tx' = [tx EXCEPT !.ran = Append(@, n + 1)] /\ UNCHANGED <<db, lock, pc>>
    BY <1>4, <2>2 DEF Step
  <2>4. tx' = [version |-> db.version, ran |-> Append(Steps(n), n + 1)]
    BY <2>1, <2>3
  <2>5. tx' = [version |-> db.version, ran |-> Steps(n + 1)]
    BY <2>4, StepsAreASequence
  <2>6. n + 1 =< Latest[p] /\ db.version =< n + 1 /\ n + 1 \in Nat
    BY <1>0, <2>1, <2>3
  <2>7. SchemaInv'
    BY <1>1, <1>2, <2>1, <2>3, <2>5, <2>6 DEF SchemaInv
  <2>8. QED
    BY <2>3, <2>7
<1>5. CASE Commit(p)
  <2>1. PICK n \in Nat : /\ db.version =< n /\ n =< Latest[p] /\ db.version < Latest[p]
                         /\ tx = [version |-> db.version, ran |-> Steps(n)]
    BY <1>5 DEF Commit, SchemaInv
  <2>2. /\ Len(tx.ran) = Latest[p] /\ db' = [tx EXCEPT !.version = Latest[p]] /\ Go(p, "open")
    BY <1>5 DEF Commit
  <2>3. n = Latest[p]
    BY <2>1, <2>2, StepsAreASequence
  <2>4. db' = [version |-> Latest[p], ran |-> Steps(Latest[p])]
    BY <2>1, <2>2, <2>3
  <2>5. /\ pc' \in [Processes -> {"closed", "failed", "wal", "switching", "begin", "check", "steps", "open"}]
        /\ pc'[p] = "open" /\ \A q \in Processes : q # p => pc'[q] = pc[q]
    BY <2>2 DEF Go, SchemaInv
  <2>6. \A q \in Processes : pc'[q] \notin {"switching", "check", "steps"}
    BY <1>2, <2>5
  <2>7. SchemaInv'
    BY <1>0, <2>4, <2>5, <2>6 DEF SchemaInv
  <2>8. QED
    BY <1>0, <2>1, <2>4, <2>7
<1>6. QED
  BY <1>3, <1>4, <1>5

\* Every step keeps SchemaInv, and takes the version up or leaves it.
LEMMA StepSchema ==
    ASSUME SchemaInv, [SchemaNext]_schema
    PROVE  SchemaInv' /\ (db' = db \/ db'.version > db.version)
<1>1. CASE UNCHANGED schema
  BY <1>1 DEF schema, SchemaInv
<1>2. ASSUME NEW p \in Processes,
             Open(p) \/ ReadsWal(p) \/ BusySwitch(p) \/ BusyBegin(p) \/ Close(p)
      PROVE  SchemaInv' /\ db' = db
  <2>1. PICK where \in {"closed", "failed", "wal", "begin", "open"} :
            Go(p, where) /\ UNCHANGED <<db, lock, tx>> /\ pc[p] \notin {"switching", "check", "steps"}
    BY <1>2 DEF Open, ReadsWal, BusySwitch, BusyBegin, Close
  <2>2. QED
    BY <2>1, WaiterSafe
<1>3. ASSUME NEW p \in Processes, StartSwitch(p) \/ Begin(p) PROVE SchemaInv' /\ db' = db
  BY <1>3, HolderComes DEF StartSwitch, Begin
<1>4. ASSUME NEW p \in Processes, Switch(p) \/ TooNew(p) \/ UpToDate(p) \/ FailStep(p)
      PROVE  SchemaInv' /\ db' = db
  <2>1. PICK where \in {"closed", "failed", "wal", "begin", "open"} : Go(p, where) /\ db' = db
    BY <1>4 DEF Switch, TooNew, UpToDate, FailStep, Rollback
  <2>2. lock = p
    BY <1>4 DEF Switch, TooNew, UpToDate, FailStep, SchemaInv
  <2>3. QED
    BY <2>1, <2>2, HolderLeaves
<1>5. ASSUME NEW p \in Processes, Kill(p) PROVE SchemaInv' /\ db' = db
  <2>1. /\ Go(p, "closed") /\ db' = db
        /\ lock' = IF lock = p THEN Nobody ELSE lock
        /\ tx' = IF lock = p THEN Empty ELSE tx
    BY <1>5 DEF Kill
  <2>2. CASE lock = p
    BY <2>1, <2>2, HolderLeaves
  <2>3. CASE lock # p
    <3>1. pc[p] \notin {"switching", "check", "steps"}
      BY <2>3 DEF SchemaInv
    <3>2. QED
      BY <2>1, <2>3, <3>1, WaiterSafe
  <2>4. QED
    BY <2>2, <2>3
<1>6. ASSUME NEW p \in Processes, Late(p) PROVE SchemaInv' /\ db' = db
  BY <1>6 DEF Late, SchemaInv
<1>7. QED
  BY <1>1, <1>2, <1>3, <1>4, <1>5, <1>6, MigrateSafe DEF SchemaNext, Opening

\* A database starts without a schema.
LEMMA InitSchema == SchemaInit => SchemaInv
<1> SUFFICES ASSUME SchemaInit PROVE SchemaInv
  OBVIOUS
<1>1. Steps(0) = <<>>
  BY DEF Steps
<1>2. /\ db = [version |-> 0, ran |-> <<>>] /\ pc = [p \in Processes |-> "closed"]
  BY DEF SchemaInit, Empty
<1>3. QED
  BY <1>1, <1>2 DEF SchemaInv, Versions

\* Whole: whatever builds open the database together, fail at a step or are killed, the
\* steps that ran on it are those its version stands for, each once (migrate_with).
THEOREM MigrationsAreWhole == SchemaSpec => []Whole
<1>1. SchemaInv => Whole
  <2> SUFFICES ASSUME SchemaInv PROVE Whole
    OBVIOUS
  <2>1. db.ran = Steps(db.version)
    BY DEF SchemaInv
  <2>2. QED
    BY <2>1 DEF Whole, SchemaInv, Steps, Versions
<1>2. SchemaInv /\ [SchemaNext]_schema => SchemaInv'
  BY StepSchema
<1>3. QED
  BY <1>1, <1>2, InitSchema, PTL DEF SchemaSpec

\* NeverDowngraded: no build takes the database of a newer one back (TooNew).
THEOREM SchemasOnlyGoUp == SchemaSpec => NeverDowngraded
<1>1. SchemaInv /\ [SchemaNext]_schema => [db'.version >= db.version]_schema
  <2> SUFFICES ASSUME SchemaInv, [SchemaNext]_schema PROVE db'.version >= db.version
    OBVIOUS
  <2>1. SchemaInv' /\ (db' = db \/ db'.version > db.version)
    BY StepSchema
  <2>2. db.version \in Nat /\ db'.version \in Nat
    BY <2>1, VersionsAreNumbers DEF SchemaInv
  <2>3. QED
    BY <2>1, <2>2
<1>2. SchemaInv /\ [SchemaNext]_schema => SchemaInv'
  BY StepSchema
<1>3. QED
  BY <1>1, <1>2, InitSchema, PTL DEF SchemaSpec, NeverDowngraded

\* Where a process may be in opening the file, given the mode the file is in.
OpenedInv ==
    /\ ServedByItsSchema
    /\ \A p \in Processes : /\ pc[p] \in {"begin", "check", "steps"} => mode = "wal"
                            /\ pc[p] \in {"wal", "switching"} => mode # "absent"

\* Every step keeps it.
LEMMA StepOpened ==
    ASSUME SchemaInv, OpenedInv, [SchemaNext]_schema
    PROVE  OpenedInv'
<1> DEFINE At(p, where) == pc'[p] = where /\ \A q \in Processes : q # p => pc'[q] = pc[q]
<1>0. \A p \in Processes : \A where : Go(p, where) => At(p, where)
  BY DEF Go, SchemaInv
<1>1. db.version \in Nat /\ db'.version \in Nat /\ db'.version >= db.version
      /\ \A p \in Processes : Latest[p] \in Nat
  <2>1. SchemaInv' /\ (db' = db \/ db'.version > db.version)
    BY StepSchema
  <2>2. db.version \in Nat /\ db'.version \in Nat
    BY <2>1, VersionsAreNumbers DEF SchemaInv
  <2>3. QED
    BY <2>1, <2>2, LatestAssumption
<1>2. CASE UNCHANGED schema
  BY <1>2 DEF schema, OpenedInv, ServedByItsSchema
<1>3. ASSUME NEW p \in Processes, Open(p) PROVE OpenedInv'
  <2>1. /\ At(p, "wal") /\ UNCHANGED <<db, lock>> /\ pc[p] \in {"closed", "failed"}
        /\ mode' = IF mode = "absent" THEN "delete" ELSE mode
    BY <1>0, <1>3 DEF Open
  <2>2. QED
    BY <2>1 DEF OpenedInv, ServedByItsSchema
<1>4. ASSUME NEW p \in Processes, ReadsWal(p) \/ BusySwitch(p) \/ BusyBegin(p) \/ Close(p)
      PROVE  OpenedInv'
  <2>1. /\ \/ At(p, "begin") /\ mode = "wal"
           \/ At(p, "failed")
           \/ At(p, "closed")
        /\ UNCHANGED <<db, lock, mode>> /\ pc[p] \in {"wal", "begin", "open"}
    BY <1>0, <1>4 DEF ReadsWal, BusySwitch, BusyBegin, Close
  <2>2. QED
    BY <2>1 DEF OpenedInv, ServedByItsSchema
<1>5. ASSUME NEW p \in Processes, StartSwitch(p) \/ Begin(p) PROVE OpenedInv'
  <2>1. /\ \/ At(p, "switching") /\ pc[p] = "wal"
           \/ At(p, "check") /\ pc[p] = "begin"
        /\ UNCHANGED <<db, mode>> /\ lock' = p
    BY <1>0, <1>5 DEF StartSwitch, Begin
  <2>2. QED
    BY <2>1 DEF OpenedInv, ServedByItsSchema
<1>6. ASSUME NEW p \in Processes, Switch(p) PROVE OpenedInv'
  <2>1. At(p, "begin") /\ mode' = "wal" /\ lock' = Nobody /\ UNCHANGED db
    BY <1>0, <1>6 DEF Switch
  <2>2. QED
    BY <2>1 DEF OpenedInv, ServedByItsSchema
<1>7. ASSUME NEW p \in Processes, TooNew(p) \/ UpToDate(p) \/ FailStep(p) PROVE OpenedInv'
  <2>1. /\ pc[p] \in {"check", "steps"} /\ UNCHANGED <<db, mode>> /\ lock' = Nobody
        /\ \/ At(p, "failed")
           \/ At(p, "open") /\ pc[p] = "check" /\ tx.version = Latest[p]
    BY <1>0, <1>7 DEF TooNew, UpToDate, FailStep, Rollback
  <2>2. pc[p] = "check" => tx = db
    BY DEF SchemaInv
  <2>3. QED
    BY <1>1, <2>1, <2>2 DEF OpenedInv, ServedByItsSchema
<1>8. ASSUME NEW p \in Processes, Old(p) PROVE OpenedInv'
  <2>1. At(p, "steps") /\ pc[p] = "check" /\ UNCHANGED <<db, mode, lock>>
    BY <1>0, <1>8 DEF Old
  <2>2. QED
    BY <2>1 DEF OpenedInv, ServedByItsSchema
<1>9. ASSUME NEW p \in Processes, Commit(p) PROVE OpenedInv'
  <2>1. At(p, "open") /\ pc[p] = "steps" /\ lock' = Nobody /\ UNCHANGED mode
        /\ db' = [tx EXCEPT !.version = Latest[p]]
    BY <1>0, <1>9 DEF Commit
  <2>2. db'.version = Latest[p]
    <3>1. \E n : tx = [version |-> db.version, ran |-> Steps(n)]
      BY <2>1 DEF SchemaInv
    <3>2. QED
      BY <2>1, <3>1
  <2>3. QED
    BY <1>1, <2>1, <2>2 DEF OpenedInv, ServedByItsSchema
<1>10. ASSUME NEW p \in Processes, Kill(p) PROVE OpenedInv'
  <2>1. /\ At(p, "closed") /\ UNCHANGED <<db, mode>>
        /\ lock' = IF lock = p THEN Nobody ELSE lock
    BY <1>0, <1>10 DEF Kill
  <2>2. QED
    BY <2>1 DEF OpenedInv, ServedByItsSchema
<1>11. ASSUME NEW p \in Processes, Step(p) \/ Late(p) PROVE OpenedInv'
  <2>1. UNCHANGED <<pc, db, mode, lock>>
    BY <1>11 DEF Step, Late
  <2>2. QED
    BY <2>1 DEF OpenedInv, ServedByItsSchema
<1>12. QED
  BY <1>2, <1>3, <1>4, <1>5, <1>6, <1>7, <1>8, <1>9, <1>10, <1>11 DEF SchemaNext, Opening

\* Whoever has the database open finds its build's schema in it, and no lock outlives its
\* holder's work, however builds, failures and kills meet (migrate_with, use_wal).
THEOREM OpenersFindTheirSchema == SchemaSpec => []ServedByItsSchema
<1>1. SchemaInit => OpenedInv
  BY DEF SchemaInit, OpenedInv, ServedByItsSchema
<1>2. SchemaInv /\ OpenedInv /\ [SchemaNext]_schema => SchemaInv' /\ OpenedInv'
  BY StepSchema, StepOpened
<1>3. OpenedInv => ServedByItsSchema
  BY DEF OpenedInv
<1>4. QED
  BY <1>1, <1>2, <1>3, InitSchema, PTL DEF SchemaSpec

-----------------------------------------------------------------------------
(* The pair of the connections. *)

\* ServesAPair, the safety half of PairIsServed: whatever a renewal, a command or a tool does to
\* the two files between the reads of `look`, new connections never get a certificate with the
\* key of another (tls.rs, Reloading).
THEOREM ConnectionsGetAPair == TlsSpec => []ServesAPair
<1>1. TlsInit => ServesAPair
  BY DEF TlsInit, ServesAPair, Up
<1>2. ASSUME ServesAPair, [TlsNext]_tls PROVE ServesAPair'
  <2>1. CASE Writer \/ UNCHANGED tls
    <3>1. UNCHANGED <<server, current>>
      BY <2>1 DEF Writer, Make, CreateNew, FillNew, Issue, Move, HookDies, ToolStarts, ToolWrites, serving, tls
    <3>2. QED
      BY <1>2, <3>1 DEF ServesAPair, Up
  <2>2. CASE Look \/ StampCert \/ StampKey \/ Remember \/ ReadCert
    <3>1. current' = current
      BY <2>2 DEF Look, StampCert, StampKey, StampOf, Remember, ReadCert
    <3>2. Up' => Up
      BY <2>2 DEF Up, Look, StampCert, StampKey, StampOf, Remember, ReadCert
    <3>3. QED
      BY <1>2, <3>1, <3>2 DEF ServesAPair
  <2>3. CASE ReadKey
    <3>1. CASE Loads(got, files["key"]) /\ current' = [cert |-> got, key |-> files["key"]]
      BY <3>1 DEF Loads, ServesAPair
    <3>2. CASE current' = current /\ server' = IF server = "readKey" THEN "idle" ELSE "down"
      BY <1>2, <3>2 DEF ServesAPair, Up
    <3>3. QED
      BY <2>3, <3>1, <3>2 DEF ReadKey
  <2>4. CASE Start \/ Stop
    BY <2>4 DEF Start, Stop, ServesAPair, Up
  <2>5. QED
    BY <1>2, <2>1, <2>2, <2>3, <2>4 DEF TlsNext, Server
<1>3. QED
  BY <1>1, <1>2, PTL DEF TlsSpec

-----------------------------------------------------------------------------
(* The pair that `tls self-signed` makes. *)

Written == [at : Nat, key : Nat, whole : BOOLEAN]
MakerRecord == [at : {"idle", "key", "key2", "cert", "cert2", "done"}, key : Nat, file : Nat]

\* The run has created the key's file and has not finished.
AtWork(m) == maker[m].at \in {"key2", "cert", "cert2"}

\* The files as one run after the other leaves them: a certificate comes after a whole key, and an
\* unfinished file is empty.
FilesInv(fs) ==
  /\ fs \in [cert : Written, key : Written]
  /\ fs["key"] = NoFile => fs["cert"] = NoFile
  /\ fs["cert"] # NoFile => fs["key"].whole
  /\ \A n \in Names : fs[n] # NoFile => fs[n].at # 0
  /\ \A n \in Names : fs[n].whole <=> fs[n].key # 0
  /\ fs["cert"].whole => fs["cert"].key = fs["key"].key

\* What the run r that is at work finds on the disk.
FindsItsOwn(r, fs) ==
  /\ r.key # 0
  /\ fs["key"] # NoFile
  /\ r.at = "key2" => ~fs["key"].whole /\ fs["key"].at = r.file
  /\ r.at \in {"cert", "cert2"} => fs["key"].key = r.key
  /\ r.at = "cert2" => fs["cert"] # NoFile /\ fs["cert"].at = r.file

\* While nobody renews: whoever created the key's file is alone at work, and each file is as its
\* run left it, wherever runs were killed.
MakersInv ==
  /\ writes \in Nat /\ issued \in Nat
  /\ hook.at = "idle" /\ tool.at = "idle"
  /\ maker \in [Makers -> MakerRecord]
  /\ FilesInv(files)
  /\ \A m \in Makers : maker[m].at = "key" => maker[m].key # 0
  /\ \A m \in Makers : AtWork(m) => FindsItsOwn(maker[m], files)
  /\ \A m, n \in Makers : AtWork(m) /\ AtWork(n) => m = n

\* The maker's record changes, the files do not: nobody gets to work by it.
LEMMA MakersTurn ==
  ASSUME MakersInv, NEW m \in Makers, NEW r \in MakerRecord,
         maker' = [maker EXCEPT ![m] = r], UNCHANGED <<files, writes, hook, tool>>,
         issued' \in Nat, r.at \in {"key", "done"}, r.at = "key" => r.key # 0
  PROVE  MakersInv'
<1>1. maker' \in [Makers -> MakerRecord] /\ maker'[m] = r /\ \A n \in Makers \ {m} : maker'[n] = maker[n]
  BY DEF MakersInv
<1>2. \A n \in Makers : AtWork(n)' => n # m /\ AtWork(n) /\ maker'[n] = maker[n]
  BY <1>1 DEF AtWork
<1>3. QED
  BY <1>1, <1>2 DEF MakersInv

\* The maker at work, or the one that gets to work because nobody is, leaves files that it
\* finds again or is done.
LEMMA MakersWork ==
  ASSUME MakersInv, NEW m \in Makers, NEW r \in MakerRecord, NEW fs,
         maker' = [maker EXCEPT ![m] = r], files' = fs, UNCHANGED <<issued, hook, tool>>,
         writes' \in Nat, AtWork(m) \/ \A n \in Makers : ~AtWork(n),
         FilesInv(fs), r.at # "key", r.at \in {"key2", "cert", "cert2"} => FindsItsOwn(r, fs)
  PROVE  MakersInv'
<1>1. maker' \in [Makers -> MakerRecord] /\ maker'[m] = r /\ \A n \in Makers \ {m} : maker'[n] = maker[n]
  BY DEF MakersInv
<1>2. \A n \in Makers : AtWork(n)' => n = m
  BY <1>1 DEF AtWork, MakersInv
<1>3. \A n \in Makers : AtWork(n)' => FindsItsOwn(maker'[n], files')
  BY <1>1, <1>2 DEF AtWork
<1>4. \A n \in Makers : maker'[n].at = "key" => maker'[n].key # 0
  BY <1>1 DEF MakersInv
<1>5. FilesInv(files')
  OBVIOUS
<1>6. QED
  BY <1>1, <1>2, <1>3, <1>4, <1>5 DEF MakersInv

\* One step of a run of `tls self-signed`.
LEMMA MakersSafe ==
  ASSUME MakersInv, NEW m \in Makers,
         \/ Make(m)
         \/ CreateNew(m, "key", "key2") \/ FillNew(m, "key", "key2", "cert")
         \/ CreateNew(m, "cert", "cert2") \/ FillNew(m, "cert", "cert2", "done")
  PROVE  MakersInv'
<1>0. /\ writes \in Nat /\ issued \in Nat /\ maker[m] \in MakerRecord
      /\ files["cert"] \in Written /\ files["key"] \in Written
  BY DEF MakersInv, FilesInv
<1>m. Made \in MakerRecord /\ Made.at = "done"
  BY DEF Made, MakerRecord
<1>1. CASE Make(m)
  <2> DEFINE r == [at |-> "key", key |-> issued', file |-> 0]
  <2>1. /\ issued' = issued + 1 /\ UNCHANGED <<files, writes, hook, tool>>
        /\ maker' = [maker EXCEPT ![m] = r]
    BY <1>1 DEF Make
  <2>2. r \in MakerRecord /\ r.at = "key" /\ r.key # 0 /\ issued' \in Nat
    BY <1>0, <2>1 DEF MakerRecord
  <2> HIDE DEF r
  <2>3. QED
    BY <2>1, <2>2, MakersTurn
<1>2. ASSUME NEW name \in Names, NEW next \in {"key2", "cert2"}, CreateNew(m, name, next),
             files[name] # NoFile
      PROVE  MakersInv'
  <2>1. UNCHANGED <<files, writes, issued, hook, tool>> /\ maker' = [maker EXCEPT ![m] = Made]
    BY <1>2 DEF CreateNew
  <2>2. QED
    BY <1>0, <1>m, <2>1, MakersTurn
<1>3. ASSUME CreateNew(m, "key", "key2"), files["key"] = NoFile
      PROVE  MakersInv'
  <2> DEFINE empty == [at |-> writes + 1, key |-> 0, whole |-> FALSE]
             fs == [files EXCEPT !["key"] = empty]
             r == [maker[m] EXCEPT !.at = "key2", !.file = writes + 1]
  <2>1. /\ files' = fs /\ writes' = writes + 1 /\ maker[m].at = "key"
        /\ maker' = [maker EXCEPT ![m] = r] /\ UNCHANGED <<issued, hook, tool>>
    BY <1>3 DEF CreateNew, Put
  <2>2. /\ empty \in Written /\ empty.at = writes + 1 /\ empty.at # 0 /\ empty.key = 0
        /\ ~empty.whole /\ empty # NoFile
    BY <1>0 DEF Written, NoFile
  <2>3. r \in MakerRecord /\ r.at = "key2" /\ r.file = empty.at /\ r.key = maker[m].key
    <3> DEFINE at == writes + 1
    <3>1. at \in Nat /\ empty.at = at
      BY <1>0
    <3> HIDE DEF at
    <3>2. r = [maker[m] EXCEPT !.at = "key2", !.file = at]
      BY DEF at
    <3> HIDE DEF r, empty
    <3>3. QED
      BY <1>0, <3>1, <3>2 DEF MakerRecord
  <2>4. files["cert"] = NoFile /\ \A n \in Makers : ~AtWork(n)
    BY <1>3 DEF MakersInv, FilesInv, FindsItsOwn
  <2>5. maker[m].key # 0 /\ writes' \in Nat
    BY <1>0, <2>1 DEF MakersInv
  <2> HIDE DEF empty, r
  <2>6. fs \in [cert : Written, key : Written] /\ fs["key"] = empty /\ fs["cert"] = files["cert"]
    BY <2>2 DEF MakersInv, FilesInv
  <2> HIDE DEF fs
  <2>7. FilesInv(fs)
    BY <2>2, <2>4, <2>6 DEF FilesInv, Names, NoFile
  <2>8. FindsItsOwn(r, fs)
    BY <2>2, <2>3, <2>5, <2>6 DEF FindsItsOwn
  <2>9. QED
    BY <2>1, <2>3, <2>4, <2>5, <2>7, <2>8, MakersWork
<1>4. ASSUME FillNew(m, "key", "key2", "cert")
      PROVE  MakersInv'
  <2> DEFINE new == [at |-> writes + 1, key |-> maker[m].key, whole |-> TRUE]
             fs == [files EXCEPT !["key"] = new]
             r == [maker[m] EXCEPT !.at = "cert", !.file = 0]
  <2>1. maker[m].at = "key2" /\ AtWork(m)
    BY <1>4 DEF FillNew, AtWork
  <2>2. /\ maker[m].key # 0 /\ ~files["key"].whole /\ files["key"].at = maker[m].file
        /\ files["cert"] = NoFile
    BY <2>1 DEF MakersInv, FindsItsOwn, FilesInv
  <2>3. /\ files' = fs /\ writes' = writes + 1
        /\ maker' = [maker EXCEPT ![m] = r] /\ UNCHANGED <<issued, hook, tool>>
    BY <1>4, <2>2 DEF FillNew, Put
  <2>4. /\ new \in Written /\ new.at # 0 /\ new.key = maker[m].key
        /\ new.whole /\ new # NoFile
    BY <1>0 DEF Written, NoFile, MakerRecord
  <2>5. r \in MakerRecord /\ r.at = "cert" /\ r.key = maker[m].key
    BY <1>0 DEF MakerRecord
  <2>6. writes' \in Nat
    BY <1>0, <2>3
  <2> HIDE DEF new, r
  <2>7. fs \in [cert : Written, key : Written] /\ fs["key"] = new /\ fs["cert"] = files["cert"]
    BY <2>4 DEF MakersInv, FilesInv
  <2> HIDE DEF fs
  <2>8. FilesInv(fs)
    BY <2>2, <2>4, <2>7 DEF FilesInv, Names, NoFile
  <2>9. FindsItsOwn(r, fs)
    BY <2>2, <2>4, <2>5, <2>7 DEF FindsItsOwn
  <2>10. QED
    BY <2>1, <2>3, <2>5, <2>6, <2>8, <2>9, MakersWork
<1>5. ASSUME CreateNew(m, "cert", "cert2"), files["cert"] = NoFile
      PROVE  MakersInv'
  <2> DEFINE empty == [at |-> writes + 1, key |-> 0, whole |-> FALSE]
             fs == [files EXCEPT !["cert"] = empty]
             r == [maker[m] EXCEPT !.at = "cert2", !.file = writes + 1]
  <2>1. /\ files' = fs /\ writes' = writes + 1 /\ maker[m].at = "cert" /\ AtWork(m)
        /\ maker' = [maker EXCEPT ![m] = r] /\ UNCHANGED <<issued, hook, tool>>
    BY <1>5 DEF CreateNew, Put, AtWork
  <2>2. /\ empty \in Written /\ empty.at = writes + 1 /\ empty.at # 0 /\ empty.key = 0
        /\ ~empty.whole /\ empty # NoFile
    BY <1>0 DEF Written, NoFile
  <2>3. r \in MakerRecord /\ r.at = "cert2" /\ r.file = empty.at /\ r.key = maker[m].key
    <3> DEFINE at == writes + 1
    <3>1. at \in Nat /\ empty.at = at
      BY <1>0
    <3> HIDE DEF at
    <3>2. r = [maker[m] EXCEPT !.at = "cert2", !.file = at]
      BY DEF at
    <3> HIDE DEF r, empty
    <3>3. QED
      BY <1>0, <3>1, <3>2 DEF MakerRecord
  <2>4. /\ maker[m].key # 0 /\ files["key"] # NoFile /\ files["key"].key = maker[m].key
        /\ files["key"].whole /\ files["key"].at # 0
    BY <2>1 DEF MakersInv, FindsItsOwn, FilesInv, Names
  <2>5. writes' \in Nat
    BY <1>0, <2>1
  <2> HIDE DEF empty, r
  <2>6. fs \in [cert : Written, key : Written] /\ fs["cert"] = empty /\ fs["key"] = files["key"]
    BY <2>2 DEF MakersInv, FilesInv
  <2> HIDE DEF fs
  <2>7. FilesInv(fs)
    BY <2>2, <2>4, <2>6 DEF FilesInv, Names
  <2>8. FindsItsOwn(r, fs)
    BY <2>2, <2>3, <2>4, <2>6 DEF FindsItsOwn
  <2>9. QED
    BY <2>1, <2>3, <2>5, <2>7, <2>8, MakersWork
<1>6. ASSUME FillNew(m, "cert", "cert2", "done")
      PROVE  MakersInv'
  <2> DEFINE new == [at |-> writes + 1, key |-> maker[m].key, whole |-> TRUE]
             fs == [files EXCEPT !["cert"] = new]
  <2>1. maker[m].at = "cert2" /\ AtWork(m)
    BY <1>6 DEF FillNew, AtWork
  <2>2. /\ maker[m].key # 0 /\ files["key"] # NoFile /\ files["key"].key = maker[m].key
        /\ files["key"].whole /\ files["key"].at # 0 /\ files["cert"].at = maker[m].file
    BY <2>1 DEF MakersInv, FindsItsOwn, FilesInv, Names
  <2>3. /\ files' = fs /\ writes' = writes + 1
        /\ maker' = [maker EXCEPT ![m] = Made] /\ UNCHANGED <<issued, hook, tool>>
    BY <1>6, <2>2 DEF FillNew, Put
  <2>4. /\ new \in Written /\ new.at # 0 /\ new.key = maker[m].key
        /\ new.whole /\ new # NoFile
    BY <1>0 DEF Written, NoFile, MakerRecord
  <2>5. writes' \in Nat
    BY <1>0, <2>3
  <2> HIDE DEF new
  <2>6. fs \in [cert : Written, key : Written] /\ fs["cert"] = new /\ fs["key"] = files["key"]
    BY <2>4 DEF MakersInv, FilesInv
  <2> HIDE DEF fs
  <2>7. FilesInv(fs)
    BY <2>2, <2>4, <2>6 DEF FilesInv, Names
  <2>8. QED
    BY <1>m, <2>1, <2>3, <2>5, <2>7, MakersWork
<1>7. QED
  BY <1>1, <1>2, <1>3, <1>4, <1>5, <1>6 DEF Names

\* Any number of runs of `tls self-signed` at once, each killed anywhere, leave no mixture as long
\* as nobody renews the pair: two whole files are a pair, and so are two that a server would load.
\* A killed run may leave an empty certificate beside its key; that one loads with no key
\* (commands.rs, write_new).
THEOREM MakersLeaveAPair ==
  ASSUME Renewals = 0
  PROVE  TlsSpec => []NeverMixed
<1>1. TlsInit => MakersInv
  BY DEF TlsInit, MakersInv, FilesInv, AtWork, NoPair, NoFile, NotWriting, NotMaking, Written,
     MakerRecord, Names
<1>2. ASSUME MakersInv, [TlsNext]_tls PROVE MakersInv'
  <2>1. CASE \E m \in Makers :
               \/ Make(m)
               \/ CreateNew(m, "key", "key2") \/ FillNew(m, "key", "key2", "cert")
               \/ CreateNew(m, "cert", "cert2") \/ FillNew(m, "cert", "cert2", "done")
    BY <1>2, <2>1, MakersSafe
  <2>2. CASE Server \/ Start \/ Stop \/ UNCHANGED tls
    <3>1. UNCHANGED disk
      BY <2>2 DEF Server, Start, Stop, Look, StampCert, StampKey, StampOf, Remember, ReadCert,
         ReadKey, tls, disk
    <3>2. QED
      BY <1>2, <3>1 DEF MakersInv, AtWork, disk
  <2>3. ~Issue /\ ~ToolStarts /\ ~HookDies /\ ~Move("key", "cert") /\ ~Move("cert", "idle")
    BY <1>2 DEF MakersInv, Issue, ToolStarts, HookDies, Move
  <2>4. /\ ~ToolWrites("cert", FALSE, "cert", "cert2") /\ ~ToolWrites("cert", TRUE, "cert2", "key")
        /\ ~ToolWrites("key", FALSE, "key", "key2") /\ ~ToolWrites("key", TRUE, "key2", "idle")
    BY <1>2 DEF MakersInv, ToolWrites
  <2>5. QED
    BY <1>2, <2>1, <2>2, <2>3, <2>4 DEF TlsNext, Writer
<1>3. MakersInv => NeverMixed
  <2>1. ASSUME FilesInv(files), files["cert"].whole, files["key"].whole
        PROVE  PairOnDisk
    BY <2>1 DEF FilesInv, PairOnDisk, Loads, NoFile, Names
  <2>2. ASSUME FilesInv(files), Loads(files["cert"], files["key"])
        PROVE  files["cert"].whole /\ files["key"].whole
    BY <2>2 DEF FilesInv, Loads, Names
  <2>3. QED
    BY <2>1, <2>2 DEF MakersInv, NeverMixed, Names
<1>4. QED
  BY <1>1, <1>2, <1>3, PTL DEF TlsSpec

-----------------------------------------------------------------------------
(* The files of the service. *)

Programs == {"systemd-sysusers", "daemon-reload", "enable", "disable", "restart", "start"}
Halves == {Absent, "made", "theirs"}
HostTypes ==
    host \in [binary : 0 .. Foreign, unit : 0 .. Foreign, sysusers : 0 .. Foreign, dirs : BOOLEAN,
              config : {Absent, "tls", "plain", "broken"}, cert : Halves, key : Halves]

\* The actions plans are made of.
Deeds ==
    {Run(program) : program \in Programs}
    \cup {Write("binary", b) : b \in 0 .. Builds} \cup {Write("sysusers", b) : b \in 0 .. Builds}
    \cup {Write("unit", b) : b \in 0 .. Builds}
    \cup {Write("dirs", TRUE), Write("config", "tls"), Write("key", "made"), Write("cert", "made")}

\* The host being as it is, the action writes over nothing of the administrator's.
Spares(a) ==
    /\ a.file = "unit" => host.unit # Foreign
    /\ a.file = "sysusers" => host.sysusers # Foreign
    /\ a.file = "config" => host.config \in {Absent, "tls"}
    /\ a.file = "cert" => host.cert # "theirs"
    /\ a.file = "key" => host.key # "theirs"

Mindful == {a \in Deeds : Spares(a)}
Removing == {a \in Mindful : a.file \in {"none", "unit"}}

\* What is left of a plan spares what is the administrator's now, although it was made from the
\* host as it was when the command began.
ServiceInv ==
    /\ HostTypes /\ edits \in Nat
    /\ command.todo \in Seq(Mindful)
    /\ command.kind = "remove" => command.todo \in Seq(Removing)
    /\ command = [kind |-> command.kind, build |-> command.build, todo |-> command.todo,
                  said |-> command.said]

\* A plan to install is refused, or spares everything (plan_install).
LEMMA PlanInstallSpares ==
    ASSUME HostTypes, NEW build \in 1 .. Builds, NEW names \in BOOLEAN, ~Refused(build)
    PROVE  PlanInstall(build, names) \in Seq(Mindful)
<1> DEFINE makes == Tls /\ ~PairThere /\ names
           starts == ~Tls \/ PairThere \/ makes
           binary == If(host.binary # build, <<Write("binary", build)>>)
           sysusers == If(Differs(host.sysusers, build), <<Write("sysusers", build), Run("systemd-sysusers")>>)
           dirs == <<Write("dirs", TRUE)>>
           conf == If(host.config = Absent, <<Write("config", "tls")>>)
           pair == If(makes, <<Write("key", "made"), Write("cert", "made")>>)
           unit == If(Differs(host.unit, build), <<Write("unit", build), Run("daemon-reload")>>)
           enable == <<Run("enable")>>
           start == If(starts, <<Run(IF Changed(build) THEN "restart" ELSE "start")>>)
<1>1. build \in 0 .. Builds /\ Builds \in Nat \ {0}
  BY ServiceAssumption
<1>2. host.unit # Foreign /\ host.sysusers # Foreign
  BY DEF Refused, ExistingOf
<1>3. makes => host.cert = Absent /\ host.key = Absent
  BY DEF Refused, PairThere
<1>4. Absent # "theirs"
  BY DEF Absent
<1>5. /\ Write("binary", build) \in Mindful /\ Write("sysusers", build) \in Mindful
      /\ Write("dirs", TRUE) \in Mindful /\ Write("unit", build) \in Mindful
      /\ \A program \in Programs : Run(program) \in Mindful
  BY <1>1, <1>2 DEF Mindful, Deeds, Spares, Write, Run
<1>6. host.config = Absent => Write("config", "tls") \in Mindful
  BY DEF Mindful, Deeds, Spares, Write
<1>7. makes => Write("key", "made") \in Mindful /\ Write("cert", "made") \in Mindful
  BY <1>3, <1>4 DEF Mindful, Deeds, Spares, Write
<1>8. binary \in Seq(Mindful) /\ sysusers \in Seq(Mindful) /\ dirs \in Seq(Mindful)
  <2>1. Run("systemd-sysusers") \in Mindful
    BY <1>5 DEF Programs
  <2>2. <<Write("sysusers", build), Run("systemd-sysusers")>> \in Seq(Mindful)
    BY <1>5, <2>1
  <2>3. binary \in Seq(Mindful)
    BY <1>5 DEF If
  <2>4. sysusers \in Seq(Mindful)
    BY <2>2 DEF If
  <2>5. \A a \in Mindful : <<a>> \in Seq(Mindful)
    OBVIOUS
  <2>6. dirs \in Seq(Mindful)
    BY <1>5, <2>5
  <2>7. QED
    BY <2>3, <2>4, <2>6
<1>9. conf \in Seq(Mindful) /\ pair \in Seq(Mindful)
  BY <1>6, <1>7 DEF If
<1>10. unit \in Seq(Mindful) /\ enable \in Seq(Mindful) /\ start \in Seq(Mindful)
  BY <1>5 DEF If, Programs
<1>11. PlanInstall(build, names)
          = binary \o sysusers \o dirs \o conf \o pair \o unit \o enable \o start
  BY DEF PlanInstall
<1> HIDE DEF binary, sysusers, dirs, conf, pair, unit, enable, start
<1>12. QED
  BY <1>8, <1>9, <1>10, <1>11, ConcatProperties

\* A plan to remove takes the unit away, which is not the administrator's (plan_remove).
LEMMA PlanRemoveSpares ==
    ASSUME HostTypes, host.unit # Foreign
    PROVE  PlanRemove \in Seq(Removing)
<1>1. Builds \in Nat
  BY ServiceAssumption
<1>2. Run("disable") \in Removing /\ Run("daemon-reload") \in Removing /\ Write("unit", 0) \in Removing
  BY <1>1 DEF Removing, Mindful, Deeds, Spares, Write, Run, Programs
<1>3. QED
  BY <1>2 DEF PlanRemove, If

\* What the administrator has is left alone by a step of a command.
Theirs ==
    /\ host.unit = Foreign => host'.unit = Foreign
    /\ host.sysusers = Foreign => host'.sysusers = Foreign
    /\ host.config # Absent => host'.config = host.config
    /\ host.cert = "theirs" => host'.cert = "theirs"
    /\ host.key = "theirs" => host'.key = "theirs"

\* One action is done, and what spared the host before it still does.
LEMMA DeedSpares ==
    ASSUME HostTypes, NEW a \in Mindful, Effect(a)
    PROVE  /\ HostTypes' /\ Theirs
           /\ a \in Removing => host' = [host EXCEPT !.unit = host'.unit]
           /\ \A b \in Mindful : b \in Mindful'
           /\ \A b \in Removing : b \in Removing'
<1>0. Builds \in Nat /\ Foreign = Builds + 1 /\ Foreign \notin 0 .. Builds /\ 0 .. Builds \subseteq 0 .. Foreign
  BY ServiceAssumption DEF Foreign
<1> DEFINE Kept == /\ HostTypes' /\ Theirs
                   /\ a.file \in {"none", "unit"} => host' = [host EXCEPT !.unit = host'.unit]
                   /\ \A b \in Deeds : Spares(b) => Spares(b)'
<1>1. CASE a.file = "none"
  <2>1. host' = host
    BY <1>1 DEF Effect
  <2>2. host = [host EXCEPT !.unit = host.unit]
    BY DEF HostTypes
  <2>3. Kept
    BY <2>1, <2>2 DEF HostTypes, Theirs, Spares
  <2>4. QED
    BY <1>1, <2>3 DEF Mindful, Removing
<1>2. CASE a.file # "none"
  <2>1. host' = [host EXCEPT ![a.file] = a.to]
    BY <1>2 DEF Effect
  <2>2. Spares(a) /\ a \in Deeds
    BY DEF Mindful
  <2>3. CASE a.file = "binary" /\ a.to \in 0 .. Builds
    <3>1. host' = [host EXCEPT !.binary = a.to]
      BY <2>1, <2>3
    <3>2. QED
      BY <1>0, <2>3, <3>1 DEF HostTypes, Theirs, Spares, Mindful, Removing
  <2>4. CASE a.file = "sysusers" /\ a.to \in 0 .. Builds
    <3>1. host' = [host EXCEPT !.sysusers = a.to]
      BY <2>1, <2>4
    <3>2. QED
      BY <1>0, <2>2, <2>4, <3>1 DEF HostTypes, Theirs, Spares, Mindful, Removing
  <2>5. CASE a.file = "unit" /\ a.to \in 0 .. Builds
    <3>1. host' = [host EXCEPT !.unit = a.to]
      BY <2>1, <2>5
    <3>2. QED
      BY <1>0, <2>2, <2>5, <3>1 DEF HostTypes, Theirs, Spares, Mindful, Removing
  <2>6. CASE a.file = "dirs" /\ a.to = TRUE
    <3>1. host' = [host EXCEPT !.dirs = TRUE]
      BY <2>1, <2>6
    <3>2. QED
      BY <2>6, <3>1 DEF HostTypes, Theirs, Spares, Mindful, Removing
  <2>7. CASE a.file = "config" /\ a.to = "tls"
    <3>1. host' = [host EXCEPT !.config = "tls"]
      BY <2>1, <2>7
    <3>2. QED
      BY <2>2, <2>7, <3>1 DEF HostTypes, Theirs, Spares, Mindful, Removing
  <2>8. CASE a.file = "key" /\ a.to = "made"
    <3>1. host' = [host EXCEPT !.key = "made"]
      BY <2>1, <2>8
    <3>2. QED
      BY <2>2, <2>8, <3>1 DEF HostTypes, Halves, Theirs, Spares, Mindful, Removing
  <2>9. CASE a.file = "cert" /\ a.to = "made"
    <3>1. host' = [host EXCEPT !.cert = "made"]
      BY <2>1, <2>9
    <3>2. QED
      BY <2>2, <2>9, <3>1 DEF HostTypes, Halves, Theirs, Spares, Mindful, Removing
  <2>10. \/ a.file \in {"binary", "sysusers", "unit"} /\ a.to \in 0 .. Builds
         \/ a.file = "dirs" /\ a.to = TRUE
         \/ a.file = "config" /\ a.to = "tls"
         \/ a.file \in {"key", "cert"} /\ a.to = "made"
    BY <1>2, <2>2 DEF Deeds, Write, Run
  <2>11. QED
    BY <2>3, <2>4, <2>5, <2>6, <2>7, <2>8, <2>9, <2>10
<1>3. QED
  BY <1>1, <1>2

\* A command's next action.
LEMMA PerformSafe ==
    ASSUME ServiceInv, Perform
    PROVE  /\ ServiceInv' /\ Theirs
           /\ command.kind = "remove" => host' = [host EXCEPT !.unit = host'.unit]
<1> DEFINE a == Head(command.todo)
<1>1. /\ command.todo # <<>> /\ Effect(a) /\ edits' = edits
      /\ \E said : command' = [command EXCEPT !.todo = Tail(@), !.said = said]
  BY DEF Perform
<1>2. /\ a \in Mindful /\ Tail(command.todo) \in Seq(Mindful)
      /\ command.kind = "remove" => a \in Removing /\ Tail(command.todo) \in Seq(Removing)
  BY <1>1, HeadTailProperties DEF ServiceInv
<1> HIDE DEF a
<1>3. /\ HostTypes' /\ Theirs
      /\ a \in Removing => host' = [host EXCEPT !.unit = host'.unit]
      /\ \A b \in Mindful : b \in Mindful'
      /\ \A b \in Removing : b \in Removing'
  BY <1>1, <1>2, DeedSpares DEF ServiceInv
<1>4. PICK said : command' = [command EXCEPT !.todo = Tail(@), !.said = said]
  BY <1>1
<1>5. command' = [kind |-> command.kind, build |-> command.build, todo |-> Tail(command.todo), said |-> said]
  BY <1>4 DEF ServiceInv
<1>6. /\ Tail(command.todo) \in Seq(Mindful')
      /\ command.kind = "remove" => Tail(command.todo) \in Seq(Removing')
  BY <1>2, <1>3, SeqMonotonic
<1>7. ServiceInv'
  BY <1>1, <1>3, <1>5, <1>6 DEF ServiceInv
<1>8. QED
  BY <1>2, <1>3, <1>7

\* A command begins, with a plan from the host as it is.
LEMMA CommandSafe ==
    ASSUME ServiceInv, NEW build \in 1 .. Builds,
           RemoveService(build) \/ \E names \in BOOLEAN : Install(build, names)
    PROVE  ServiceInv' /\ command.todo = <<>> /\ UNCHANGED <<host, edits>>
<1>1. HostTypes
  BY DEF ServiceInv
<1>2. CASE RemoveService(build)
  <2>1. PICK todo, said : /\ command' = [kind |-> "remove", build |-> build, todo |-> todo, said |-> said]
                          /\ todo = <<>> \/ (todo = PlanRemove /\ host.unit # Foreign)
    BY <1>2 DEF RemoveService
  <2>2. todo \in Seq(Removing)
    BY <1>1, <2>1, PlanRemoveSpares, EmptySeq
  <2>3. todo \in Seq(Mindful)
    BY <2>2, SeqMonotonic DEF Removing
  <2>4. command.todo = <<>> /\ UNCHANGED <<host, edits>>
    BY <1>2 DEF RemoveService
  <2>5. Mindful' = Mindful /\ Removing' = Removing /\ HostTypes'
    BY <1>1, <2>4 DEF Mindful, Removing, Spares, HostTypes
  <2>6. QED
    BY <2>1, <2>2, <2>3, <2>4, <2>5 DEF ServiceInv
<1>3. ASSUME NEW names \in BOOLEAN, Install(build, names)
      PROVE  ServiceInv' /\ command.todo = <<>> /\ UNCHANGED <<host, edits>>
  <2>1. PICK todo, said : /\ command' = [kind |-> "install", build |-> build, todo |-> todo, said |-> said]
                          /\ todo = <<>> \/ (todo = PlanInstall(build, names) /\ ~Refused(build))
    BY <1>3 DEF Install
  <2>2. todo \in Seq(Mindful)
    BY <1>1, <2>1, PlanInstallSpares, EmptySeq
  <2>3. command.todo = <<>> /\ UNCHANGED <<host, edits>>
    BY <1>3 DEF Install
  <2>4. Mindful' = Mindful /\ HostTypes'
    BY <1>1, <2>3 DEF Mindful, Spares, HostTypes
  <2>5. QED
    BY <2>1, <2>2, <2>3, <2>4 DEF ServiceInv
<1>4. QED
  BY <1>2, <1>3

\* An action fails, and the rest of the plan with it.
LEMMA PerformFailsSafe ==
    ASSUME ServiceInv, PerformFails
    PROVE  ServiceInv' /\ UNCHANGED <<host, edits>>
<1>1. /\ command' = [command EXCEPT !.todo = <<>>, !.said = "failed"] /\ UNCHANGED <<host, edits>>
  BY DEF PerformFails
<1>2. command' = [kind |-> command.kind, build |-> command.build, todo |-> <<>>, said |-> "failed"]
  BY <1>1 DEF ServiceInv
<1>3. HostTypes' /\ \A S : <<>> \in Seq(S)
  BY <1>1 DEF ServiceInv, HostTypes
<1>4. QED
  BY <1>1, <1>2, <1>3 DEF ServiceInv

\* The administrator owns the host between two commands.
LEMMA AdministersSafe ==
    ASSUME ServiceInv, Administers
    PROVE  ServiceInv' /\ command.todo = <<>> /\ edits' # edits
<1>0. Foreign \in 0 .. Foreign /\ 0 \in 0 .. Foreign /\ edits \in Nat /\ HostTypes
  BY ServiceAssumption DEF Foreign, ServiceInv
<1>1. /\ command.todo = <<>> /\ edits' = edits + 1 /\ command' = NoCommand
  BY DEF Administers, Edit
<1>2. HostTypes'
  <2>1. CASE \E v \in {0, Foreign} : Edit("unit", v) \/ Edit("sysusers", v)
    BY <1>0, <2>1 DEF Edit, HostTypes
  <2>2. CASE \E v \in {Absent, "tls", "plain", "broken"} : Edit("config", v)
    BY <1>0, <2>2 DEF Edit, HostTypes
  <2>3. CASE \E v \in {Absent, "theirs"} : Edit("cert", v) \/ Edit("key", v)
    BY <1>0, <2>3 DEF Edit, HostTypes, Halves
  <2>4. QED
    BY <2>1, <2>2, <2>3 DEF Administers
<1>3. ServiceInv'
  BY <1>0, <1>1, <1>2 DEF ServiceInv, NoCommand
<1>4. QED
  BY <1>0, <1>1, <1>3

\* SparesTheirs: no command writes over or removes what the administrator put there, however
\* its actions fail and whichever build is installed over which, and removing the service
\* takes its unit alone (service/plan.rs).
THEOREM CommandsSpareTheAdministrators == ServiceSpec => SparesTheirs
<1> DEFINE Spared ==
       /\ RemoveTakesTheUnit
       /\ edits' = edits =>
            /\ \A f \in {"unit", "sysusers"} : host[f] = Foreign => host'[f] = Foreign
            /\ host.config # Absent => host'.config = host.config
            /\ \A f \in {"cert", "key"} : host[f] = "theirs" => host'[f] = "theirs"
<1>1. ServiceInit => ServiceInv
  <2> SUFFICES ASSUME ServiceInit PROVE ServiceInv
    OBVIOUS
  <2>1. HostTypes
    BY ServiceAssumption DEF ServiceInit, HostTypes, Halves, Foreign
  <2>2. QED
    BY <2>1 DEF ServiceInit, ServiceInv, NoCommand
<1>2. ASSUME ServiceInv, [ServiceNext]_installation PROVE ServiceInv' /\ [Spared]_installation
  <2>0. host = [host EXCEPT !.unit = host.unit]
    BY <1>2 DEF ServiceInv, HostTypes
  <2>1. CASE UNCHANGED installation
    <3>1. UNCHANGED <<host, command, edits>>
      BY <2>1 DEF installation
    <3>2. Mindful' = Mindful /\ Removing' = Removing /\ HostTypes'
      BY <1>2, <3>1 DEF Mindful, Removing, Spares, HostTypes, ServiceInv
    <3>3. QED
      BY <1>2, <2>1, <3>1, <3>2 DEF ServiceInv
  <2>2. CASE Perform
    <3>1. /\ ServiceInv' /\ Theirs
          /\ command.kind = "remove" => host' = [host EXCEPT !.unit = host'.unit]
      BY <1>2, <2>2, PerformSafe
    <3>2. Spared
      BY <3>1 DEF Theirs, RemoveTakesTheUnit
    <3>3. QED
      BY <3>1, <3>2
  <2>3. CASE PerformFails
    <3>1. ServiceInv' /\ UNCHANGED <<host, edits>>
      BY <1>2, <2>3, PerformFailsSafe
    <3>2. Spared
      BY <2>0, <3>1 DEF RemoveTakesTheUnit
    <3>3. QED
      BY <3>1, <3>2
  <2>4. CASE Administers
    <3>1. ServiceInv' /\ command.todo = <<>> /\ edits' # edits
      BY <1>2, <2>4, AdministersSafe
    <3>2. QED
      BY <3>1 DEF RemoveTakesTheUnit
  <2>5. CASE \E build \in 1 .. Builds :
                RemoveService(build) \/ \E names \in BOOLEAN : Install(build, names)
    <3>1. ServiceInv' /\ command.todo = <<>> /\ UNCHANGED <<host, edits>>
      BY <1>2, <2>5, CommandSafe
    <3>2. QED
      BY <3>1 DEF RemoveTakesTheUnit
  <2>6. QED
    BY <1>2, <2>1, <2>2, <2>3, <2>4, <2>5 DEF ServiceNext
<1>3. SparesTheirs <=> [][Spared]_installation
  BY DEF SparesTheirs
<1> HIDE DEF Spared
<1>4. QED
  BY <1>1, <1>2, <1>3, PTL DEF ServiceSpec

-----------------------------------------------------------------------------
(* Where the configuration is. *)

\* What a user's `init` wrote, not being told where, is in the user's own default place and is
\* still there.
PlacesInv ==
    /\ env \in [Users -> [variable : BOOLEAN, xdg : BOOLEAN, home : BOOLEAN]]
    /\ config \in [AllPlaces -> DataDirs \cup {None}]
    /\ owner \in [DataDirs -> Users \cup {None}]
    /\ database \in [DataDirs -> SUBSET Users]
    /\ made \in [Users -> AllPlaces \cup {None}]
    /\ \A u \in Users : made[u] \notin {None, <<"other", None>>} =>
          made[u] = DefaultFile(u) /\ config[made[u]] # None

\* The places are where they should be.
LEMMA DefaultsArePlaces ==
    ASSUME NEW u \in Users
    PROVE  /\ DefaultFile(u) \in AllPlaces /\ DefaultData(u) \in DataDirs
           /\ <<"other", None>> \in AllPlaces /\ <<"var", None>> \in DataDirs
  BY DEF DefaultFile, DefaultData, AllPlaces, UserPlaces, Shared, DataDirs

\* The first place that has a file is found, if that is the first of all.
LEMMA FirstIsFound ==
    ASSUME NEW u \in Users, env[u].variable = FALSE, Searched(u) \in Seq(AllPlaces),
           Len(Searched(u)) > 0, config[Searched(u)[1]] # None
    PROVE  Find(u) = Searched(u)[1]
<1> DEFINE there == {n \in DOMAIN Searched(u) : config[Searched(u)[n]] # None}
           first == CHOOSE n \in there : \A m \in there : n <= m
<1>1. DOMAIN Searched(u) = 1 .. Len(Searched(u)) /\ Len(Searched(u)) \in Nat
  BY LenProperties
<1>2. 1 \in there /\ there \subseteq Nat \ {0}
  BY <1>1
<1>3. \E n \in there : \A m \in there : n <= m
  BY <1>2
<1>4. first \in there /\ first <= 1
  BY <1>2, <1>3
<1>5. first = 1
  BY <1>2, <1>4
<1>6. Find(u) = Searched(u)[first]
  BY <1>2 DEF Find
<1>7. QED
  BY <1>5, <1>6

\* A user's default place is the first that the user's commands search (default_paths, find).
LEMMA DefaultIsSearchedFirst ==
    ASSUME PlacesInv, NEW u \in Users, u # Root, env[u].variable = FALSE, env[u].home \/ ~env[u].xdg
    PROVE  /\ Searched(u) \in Seq(AllPlaces) /\ Len(Searched(u)) > 0
           /\ Searched(u)[1] = DefaultFile(u)
<1> DEFINE xdg == <<<<"xdg", u>>>>
           home == <<<<"home", u>>>>
           rest == <<<<"etc", None>>, <<"here", None>>>>
<1>1. env[u].xdg \in BOOLEAN /\ env[u].home \in BOOLEAN
  BY DEF PlacesInv
<1>2. /\ xdg \in Seq(AllPlaces) /\ Len(xdg) = 1 /\ xdg[1] = <<"xdg", u>>
      /\ home \in Seq(AllPlaces) /\ Len(home) = 1 /\ home[1] = <<"home", u>>
      /\ rest \in Seq(AllPlaces) /\ Len(rest) = 2 /\ rest[1] = <<"etc", None>>
      /\ <<>> \in Seq(AllPlaces)
  <2>1. /\ <<"xdg", u>> \in AllPlaces /\ <<"home", u>> \in AllPlaces
        /\ <<"etc", None>> \in AllPlaces /\ <<"here", None>> \in AllPlaces
    BY DEF AllPlaces, UserPlaces, Shared
  <2>2. QED
    BY <2>1
<1>3. Searched(u) = (IF env[u].xdg THEN xdg ELSE <<>>) \o (IF env[u].home THEN home ELSE <<>>) \o rest
  BY DEF Searched
<1> HIDE DEF xdg, home, rest
<1>4. CASE env[u].xdg /\ env[u].home
  <2>1. Searched(u) = xdg \o home \o rest /\ DefaultFile(u) = <<"xdg", u>>
    BY <1>3, <1>4 DEF DefaultFile
  <2>2. xdg \o home \in Seq(AllPlaces) /\ Len(xdg \o home) = 2 /\ (xdg \o home)[1] = <<"xdg", u>>
    <3>1. /\ xdg \o home \in Seq(AllPlaces) /\ Len(xdg \o home) = Len(xdg) + Len(home)
          /\ \A n \in 1 .. Len(xdg) + Len(home) :
                (xdg \o home)[n] = IF n <= Len(xdg) THEN xdg[n] ELSE home[n - Len(xdg)]
      BY <1>2, ConcatProperties
    <3>2. 1 \in 1 .. Len(xdg) + Len(home)
      BY <1>2
    <3>3. (xdg \o home)[1] = xdg[1]
      BY <1>2, <3>1, <3>2
    <3>4. QED
      BY <1>2, <3>1, <3>3
  <2>3. QED
    BY <1>2, <2>1, <2>2, ConcatProperties
<1>5. CASE ~env[u].xdg /\ env[u].home
  <2>1. Searched(u) = <<>> \o home \o rest /\ DefaultFile(u) = <<"home", u>>
    BY <1>3, <1>5 DEF DefaultFile
  <2>2. <<>> \o home = home
    BY <1>2, ConcatEmptySeq
  <2>3. QED
    BY <1>2, <2>1, <2>2, ConcatProperties
<1>6. CASE ~env[u].xdg /\ ~env[u].home
  <2>1. Searched(u) = <<>> \o <<>> \o rest /\ DefaultFile(u) = <<"etc", None>>
    BY <1>3, <1>6 DEF DefaultFile
  <2>2. <<>> \o <<>> = <<>> /\ <<>> \o rest = rest
    BY <1>2, ConcatEmptySeq
  <2>3. QED
    BY <1>2, <2>1, <2>2
<1>7. QED
  BY <1>1, <1>4, <1>5, <1>6

\* `init`.
LEMMA InitCommandSafe ==
    ASSUME PlacesInv, NEW u \in Users, NEW place \in {DefaultFile(u), <<"other", None>>},
           NEW data \in {DefaultData(u), <<"var", None>>}, InitCommand(u, place, data)
    PROVE  PlacesInv' /\ config' # config
<1>1. place \in AllPlaces /\ data \in DataDirs /\ data # None
  BY DefaultsArePlaces, NoneIsNoPlace
<1>2. /\ config[place] = None /\ config' = [config EXCEPT ![place] = data]
      /\ owner' = [owner EXCEPT ![data] = IF @ = None THEN u ELSE @]
      /\ database' = [database EXCEPT ![data] = @ \cup {u}]
      /\ made' = [made EXCEPT ![u] = place] /\ env' = env
  BY DEF InitCommand
<1>3. /\ config' \in [AllPlaces -> DataDirs \cup {None}] /\ config'[place] = data
      /\ \A p \in AllPlaces : config[p] # None => config'[p] # None
  BY <1>1, <1>2 DEF PlacesInv
<1>4. /\ owner' \in [DataDirs -> Users \cup {None}] /\ database' \in [DataDirs -> SUBSET Users]
  BY <1>1, <1>2 DEF PlacesInv
<1>5. /\ made' \in [Users -> AllPlaces \cup {None}] /\ made'[u] = place
      /\ \A v \in Users : v # u => made'[v] = made[v]
  BY <1>1, <1>2 DEF PlacesInv
<1>6. \A v \in Users : DefaultFile(v)' = DefaultFile(v)
  BY <1>2 DEF DefaultFile
<1>7. ASSUME NEW v \in Users, made'[v] \notin {None, <<"other", None>>}
      PROVE  made'[v] = DefaultFile(v)' /\ config'[made'[v]] # None
  <2>1. CASE v = u
    BY <1>1, <1>3, <1>5, <1>6, <1>7, <2>1
  <2>2. CASE v # u
    <3>1. made[v] = DefaultFile(v) /\ config[made[v]] # None /\ made[v] \in AllPlaces
      BY <1>5, <1>7, <2>2 DEF PlacesInv
    <3>2. QED
      BY <1>3, <1>5, <1>6, <2>2, <3>1
  <2>3. QED
    BY <2>1, <2>2
<1>8. PlacesInv'
  BY <1>2, <1>3, <1>4, <1>5, <1>7 DEF PlacesInv
<1>9. QED
  BY <1>1, <1>2, <1>3, <1>8

\* Any other command opens the database of a directory that is its user's.
LEMMA CommandTouchesItsOwn ==
    ASSUME PlacesInv, NEW u \in Users, NEW place, Command(u, place)
    PROVE  /\ PlacesInv'
           /\ \A d \in DataDirs : database'[d] \subseteq database[d] \cup {owner[d]}
<1> DEFINE data == config[place]
<1>1. /\ owner[data] = u /\ database' = [database EXCEPT ![data] = @ \cup {u}]
      /\ UNCHANGED <<env, config, owner, made>>
  BY DEF Command, MayRun
<1> HIDE DEF data
<1>2. database' \in [DataDirs -> SUBSET Users]
  BY <1>1 DEF PlacesInv
<1>3. \A v \in Users : DefaultFile(v)' = DefaultFile(v)
  BY <1>1 DEF DefaultFile
<1>4. PlacesInv'
  BY <1>1, <1>2, <1>3 DEF PlacesInv
<1>5. QED
  BY <1>1, <1>4 DEF PlacesInv

\* Every step keeps PlacesInv, and only `init` gives a directory another user's files.
LEMMA StepPlaces ==
    ASSUME PlacesInv, [PlacesNext]_places
    PROVE  /\ PlacesInv'
           /\ config' = config => \A d \in DataDirs : database'[d] \subseteq database[d] \cup {owner[d]}
<1>1. CASE UNCHANGED places
  BY <1>1 DEF places, PlacesInv, DefaultFile
<1>2. ASSUME NEW u \in Users, NEW place, Command(u, place)
      PROVE  /\ PlacesInv'
             /\ \A d \in DataDirs : database'[d] \subseteq database[d] \cup {owner[d]}
  BY <1>2, CommandTouchesItsOwn
<1>3. QED
  BY <1>1, <1>2, InitCommandSafe DEF PlacesNext

\* A host starts without a configuration.
LEMMA InitPlaces == PlacesInit => PlacesInv
  BY DEF PlacesInit, PlacesInv

\* InitIsFound: what a user's `init` wrote is what the user's next command finds, whoever has
\* set up what before or after (default_paths, find).
THEOREM InitsAreFound == PlacesSpec => []InitIsFound
<1>1. PlacesInv => InitIsFound
  <2> SUFFICES ASSUME PlacesInv, NEW u \in Users, made[u] \notin {None, <<"other", None>>},
                      u # Root \/ env[u].variable, env[u].home \/ ~env[u].xdg \/ env[u].variable
               PROVE  Find(u) = made[u]
    BY DEF InitIsFound
  <2>1. made[u] = DefaultFile(u) /\ config[made[u]] # None /\ env[u].variable \in BOOLEAN
    BY DEF PlacesInv
  <2>2. CASE env[u].variable
    BY <2>1, <2>2 DEF DefaultFile, Find
  <2>3. CASE ~env[u].variable
    <3>1. /\ Searched(u) \in Seq(AllPlaces) /\ Len(Searched(u)) > 0
          /\ Searched(u)[1] = DefaultFile(u)
      BY <2>1, <2>3, DefaultIsSearchedFirst
    <3>2. QED
      BY <2>1, <2>3, <3>1, FirstIsFound
  <2>4. QED
    BY <2>2, <2>3
<1>2. PlacesInv /\ [PlacesNext]_places => PlacesInv'
  BY StepPlaces
<1>3. QED
  BY <1>1, <1>2, InitPlaces, PTL DEF PlacesSpec

\* CommandsAreTheOwners: but for `init`, no command adds a user's files to another's directory
\* (owner.rs, check).
THEOREM OwnersRunTheirCommands == PlacesSpec => CommandsAreTheOwners
<1>1. PlacesInv /\ [PlacesNext]_places =>
        [config' = config => \A d \in DataDirs : database'[d] \subseteq database[d] \cup {owner[d]}]_places
  BY StepPlaces
<1>2. PlacesInv /\ [PlacesNext]_places => PlacesInv'
  BY StepPlaces
<1>3. QED
  BY <1>1, <1>2, InitPlaces, PTL DEF PlacesSpec, CommandsAreTheOwners

-----------------------------------------------------------------------------
(* The calendar. *)

\* Months and years from the first of March, so that the 29th of February ends a year.
MarchYear(y, m) == IF m =< 2 THEN y - 1 ELSE y
MarchMonth(m) == IF m =< 2 THEN m + 9 ELSE m - 3
YearStart(y) == 365 * y + (y \div 4) - (y \div 100) + (y \div 400)
MonthStart(n) == (153 * n + 2) \div 5
DayOfYear(m, d) == MonthStart(MarchMonth(m)) + d - 1

\* The number of a date, counted as the days of Calendar are.
DayNumber(y, m, d) == YearStart(MarchYear(y, m)) + DayOfYear(m, d) - 719468

\* A month and a day of it, of a year after the first.
IsDate(y, m, d) ==
    /\ y \in Nat /\ m \in Nat /\ d \in Nat
    /\ 1 =< y /\ 1 =< m /\ m =< 12 /\ 1 =< d /\ d =< Length(y, m)

\* How long a month is.
LEMMA MonthLengths ==
    ASSUME NEW y, NEW m \in Nat, 1 =< m, m =< 12
    PROVE  /\ m \in {4, 6, 9, 11} => Length(y, m) = 30
           /\ m = 2 => Length(y, m) = IF Leap(y) THEN 29 ELSE 28
           /\ m \in {1, 3, 5, 7, 8, 10, 12} => Length(y, m) = 31
BY DEF Length

\* A year from March has 366 days if the February it ends with has 29.
LEMMA YearLengths ==
    ASSUME NEW y \in Nat, 1 =< y
    PROVE  YearStart(y) = YearStart(y - 1) + (IF Leap(y) THEN 366 ELSE 365)
<1>1. (y \div 4) = ((y - 1) \div 4) + (IF y % 4 = 0 THEN 1 ELSE 0)
  OBVIOUS
<1>2. (y \div 100) = ((y - 1) \div 100) + (IF y % 100 = 0 THEN 1 ELSE 0)
  OBVIOUS
<1>3. (y \div 400) = ((y - 1) \div 400) + (IF y % 400 = 0 THEN 1 ELSE 0)
  OBVIOUS
<1>4. (y % 400 = 0 => y % 100 = 0) /\ (y % 100 = 0 => y % 4 = 0)
  OBVIOUS
<1>5. QED
  BY <1>1, <1>2, <1>3, <1>4 DEF YearStart, Leap

\* Where the months of a year from March begin.
LEMMA MonthStarts ==
    /\ MonthStart(0) = 0 /\ MonthStart(1) = 31 /\ MonthStart(2) = 61 /\ MonthStart(3) = 92
    /\ MonthStart(4) = 122 /\ MonthStart(5) = 153 /\ MonthStart(6) = 184 /\ MonthStart(7) = 214
    /\ MonthStart(8) = 245 /\ MonthStart(9) = 275 /\ MonthStart(10) = 306 /\ MonthStart(11) = 337
BY DEF MonthStart

\* The day after a date has the next number.
LEMMA NextDayNumber ==
    ASSUME NEW y, NEW m, NEW d, IsDate(y, m, d)
    PROVE  \E a, b, c : /\ NextDate(<<y, m, d>>) = <<a, b, c>> /\ IsDate(a, b, c)
                        /\ DayNumber(a, b, c) = DayNumber(y, m, d) + 1
                        /\ \/ a = y /\ b = m /\ c = d + 1
                           \/ a = y /\ b = m + 1 /\ c = 1 /\ 28 =< d
                           \/ a = y + 1 /\ m = 12 /\ b = 1 /\ c = 1 /\ d = 31
<1>1. /\ y \in Nat /\ m \in Nat /\ d \in Nat /\ 1 =< y
      /\ 1 =< m /\ m =< 12 /\ 1 =< d /\ d =< Length(y, m)
  BY DEF IsDate
<1>2. Length(y, m) \in Nat /\ 28 =< Length(y, m)
  BY <1>1, MonthLengths
<1>3. NextDate(<<y, m, d>>) = IF d < Length(y, m) THEN <<y, m, d + 1>>
                              ELSE IF m < 12 THEN <<y, m + 1, 1>> ELSE <<y + 1, 1, 1>>
  BY DEF NextDate
<1>4. YearStart(y) \in Int /\ YearStart(y - 1) \in Int /\ YearStart(y + 1) \in Int
  BY <1>1 DEF YearStart
<1>5. CASE d < Length(y, m)
  <2>1. IsDate(y, m, d + 1)
    BY <1>1, <1>2, <1>5 DEF IsDate
  <2>2. DayNumber(y, m, d + 1) = DayNumber(y, m, d) + 1
    <3>1. MonthStart(MarchMonth(m)) \in Int /\ YearStart(MarchYear(y, m)) \in Int
      BY <1>1, <1>4 DEF MonthStart, MarchMonth, MarchYear
    <3>2. QED
      BY <1>1, <3>1 DEF DayNumber, DayOfYear
  <2>3. QED
    BY <1>3, <1>5, <2>1, <2>2
<1>6. CASE d = Length(y, m) /\ m < 12
  <2>1. IsDate(y, m + 1, 1)
    BY <1>1, <1>6, MonthLengths DEF IsDate
  <2>2. DayNumber(y, m + 1, 1) = DayNumber(y, m, d) + 1
    <3>1. CASE m = 2
      BY <1>1, <1>4, <1>6, <3>1, MonthLengths, MonthStarts, YearLengths
         DEF DayNumber, DayOfYear, MarchMonth, MarchYear
    <3>2. CASE m # 2
      <4>1. MarchYear(y, m + 1) = MarchYear(y, m)
        BY <1>1, <3>2 DEF MarchYear
      <4>2. DayOfYear(m + 1, 1) = DayOfYear(m, d) + 1 /\ DayOfYear(m, d) \in Int
        BY <1>1, <1>6, <3>2, MonthLengths, MonthStarts DEF DayOfYear, MarchMonth
      <4>3. QED
        BY <1>1, <1>4, <4>1, <4>2 DEF DayNumber, MarchYear
    <3>3. QED
      BY <3>1, <3>2
  <2>3. QED
    BY <1>1, <1>2, <1>3, <1>6, <2>1, <2>2
<1>7. CASE d = Length(y, m) /\ m = 12
  <2>1. IsDate(y + 1, 1, 1) /\ d = 31
    BY <1>1, <1>7, MonthLengths DEF IsDate
  <2>2. DayNumber(y + 1, 1, 1) = DayNumber(y, m, d) + 1
    BY <1>1, <1>4, <1>7, <2>1, MonthStarts DEF DayNumber, DayOfYear, MarchMonth, MarchYear
  <2>3. QED
    BY <1>1, <1>3, <1>7, <2>1, <2>2
<1>8. QED
  BY <1>1, <1>2, <1>5, <1>6, <1>7

\* rfc3339 finds the year of an era that a day of it is in.
LEMMA YearIsFound ==
    ASSUME NEW n \in Nat, n < 400, NEW doy \in Nat, doy =< 365, doy = 365 => Leap(n + 1)
    PROVE  YearOfEra(365 * n + (n \div 4) - (n \div 100) + doy) = n
<1>1. PICK a \in Nat, b \in Nat, c \in Nat : n = 100 * a + 4 * b + c /\ a =< 3 /\ b =< 24 /\ c =< 3
  <2>1. n = 100 * (n \div 100) + 4 * ((n % 100) \div 4) + (n % 4)
    OBVIOUS
  <2>2. /\ n \div 100 \in Nat /\ (n % 100) \div 4 \in Nat /\ n % 4 \in Nat
        /\ n \div 100 =< 3 /\ (n % 100) \div 4 =< 24 /\ n % 4 =< 3
    OBVIOUS
  <2>3. QED
    BY <2>1, <2>2
<1>2. n \div 4 = 25 * a + b /\ n \div 100 = a
  BY <1>1
<1>3. doy = 365 => c = 3 /\ (b = 24 => a = 3)
  BY <1>1 DEF Leap
<1>4. PICK doe \in Nat : doe = 365 * n + (n \div 4) - (n \div 100) + doy
  BY <1>1, <1>2
<1>5. doe = 36524 * a + 1461 * b + 365 * c + doy
  BY <1>1, <1>2, <1>4
<1>6. doe \div 1460 = 25 * a + b + (IF 24 * a + b + 365 * c + doy >= 1460 THEN 1 ELSE 0)
  BY <1>1, <1>5
<1>7. doe \div 36524 - (doe \div 146096) = a
  BY <1>1, <1>3, <1>5
<1>8. doe - (doe \div 1460) + (doe \div 36524) - (doe \div 146096)
         = 365 * n + doy - (IF 24 * a + b + 365 * c + doy >= 1460 THEN 1 ELSE 0)
  BY <1>1, <1>5, <1>6, <1>7
<1>9. YearOfEra(doe) = n
  <2>1. PICK less \in {0, 1} : /\ less = IF 24 * a + b + 365 * c + doy >= 1460 THEN 1 ELSE 0
                               /\ 0 =< doy - less /\ doy - less < 365
    BY <1>1, <1>3
  <2>2. (365 * n + doy - less) \div 365 = n
    BY <2>1
  <2>3. QED
    BY <1>8, <2>1, <2>2 DEF YearOfEra
<1>10. QED
  BY <1>4, <1>9

\* What rfc3339 does with the day of a year: it finds the month and the day of it.
LEMMA MonthIsFound ==
    ASSUME NEW m \in Nat, 1 =< m, m =< 12, NEW d \in Nat, 1 =< d, d =< 31,
           m \in {4, 6, 9, 11} => d =< 30, m = 2 => d =< 29
    PROVE  \E doy, mp \in Nat :
              /\ doy = DayOfYear(m, d) /\ doy =< 365 /\ (doy = 365 => m = 2 /\ d = 29)
              /\ mp = (5 * doy + 2) \div 153 /\ doy - MonthStart(mp) + 1 = d
              /\ m = IF mp < 10 THEN mp + 3 ELSE mp - 9
<1> DEFINE doy == DayOfYear(m, d)
           mp == (5 * doy + 2) \div 153
<1>1. doy \in Nat /\ doy =< 365 /\ (doy = 365 => m = 2 /\ d = 29)
  BY MonthStarts DEF DayOfYear, MarchMonth
<1>2. mp = MarchMonth(m)
  BY MonthStarts DEF DayOfYear, MarchMonth
<1>3. MonthStart(MarchMonth(m)) \in Int
  BY MonthStarts DEF MarchMonth
<1>4. doy - MonthStart(MarchMonth(m)) + 1 = d
  BY <1>3 DEF DayOfYear
<1>5. m = IF MarchMonth(m) < 10 THEN MarchMonth(m) + 3 ELSE MarchMonth(m) - 9
  BY DEF MarchMonth
<1>6. mp \in Nat
  BY <1>2 DEF MarchMonth
<1> HIDE DEF doy
<1>7. QED
  BY <1>1, <1>2, <1>4, <1>5, <1>6 DEF doy

\* From the number of a date rfc3339 gets the date back.
LEMMA DateIsFound ==
    ASSUME NEW y, NEW m, NEW d, IsDate(y, m, d)
    PROVE  Civil(DayNumber(y, m, d)) = <<y, m, d>>
<1>1. /\ y \in Nat /\ m \in Nat /\ d \in Nat /\ 1 =< y
      /\ 1 =< m /\ m =< 12 /\ 1 =< d /\ d =< Length(y, m)
  BY DEF IsDate
<1>2. /\ d =< 31 /\ (m \in {4, 6, 9, 11} => d =< 30) /\ (m = 2 => d =< 29)
      /\ m = 2 /\ d = 29 => Leap(y)
  BY <1>1, MonthLengths
<1>3. PICK doy, mp \in Nat :
         /\ doy = DayOfYear(m, d) /\ doy =< 365 /\ (doy = 365 => m = 2 /\ d = 29)
         /\ mp = (5 * doy + 2) \div 153 /\ doy - MonthStart(mp) + 1 = d
         /\ m = IF mp < 10 THEN mp + 3 ELSE mp - 9
  BY <1>1, <1>2, MonthIsFound
<1>4. PICK n \in Nat : n = MarchYear(y, m) /\ y = n + (IF m =< 2 THEN 1 ELSE 0)
  BY <1>1 DEF MarchYear
<1>5. PICK era \in Nat, yoe \in Nat : n = 400 * era + yoe /\ yoe < 400
  <2>1. n = 400 * (n \div 400) + (n % 400) /\ n \div 400 \in Nat /\ n % 400 \in Nat /\ n % 400 < 400
    OBVIOUS
  <2>2. QED
    BY <2>1
<1>6. PICK doe \in Nat : doe = 365 * yoe + (yoe \div 4) - (yoe \div 100) + doy
  BY SMT
<1>7. YearStart(n) + doy = 146097 * era + doe
  <2>1. n \div 4 = 100 * era + (yoe \div 4) /\ n \div 100 = 4 * era + (yoe \div 100) /\ n \div 400 = era
    BY <1>5
  <2>2. QED
    BY <1>5, <1>6, <2>1, SMT DEF YearStart
<1>8. doy = 365 => Leap(yoe + 1)
  <2>1. Leap(400 * era + yoe + 1) => Leap(yoe + 1)
    BY DEF Leap
  <2>2. QED
    BY <1>2, <1>3, <1>4, <1>5, <2>1
<1>9. doe < 146097
  <2>1. yoe \div 4 =< 99 /\ yoe \div 100 >= 0 /\ (yoe = 399 => yoe \div 100 = 3)
        /\ yoe \div 4 \in Nat /\ yoe \div 100 \in Nat
    BY <1>5, SMT
  <2>2. doy =< 365
    BY <1>3
  <2>3. QED
    BY <1>5, <1>6, <2>1, <2>2, SMT
<1>10. PICK z \in Nat : z = DayNumber(y, m, d) + 719468 /\ z = 146097 * era + doe
  <2>1. YearStart(n) \in Int
    BY SMT DEF YearStart
  <2>2. DayNumber(y, m, d) = YearStart(n) + doy - 719468
    BY <1>3, <1>4, SMT DEF DayNumber
  <2>3. DayNumber(y, m, d) + 719468 = 146097 * era + doe
    BY <1>7, <2>1, <2>2, SMT
  <2>4. 146097 * era + doe \in Nat
    BY SMT
  <2>5. QED
    BY <2>3, <2>4, SMT
<1>11. z \div 146097 = era /\ z % 146097 = doe
  BY <1>9, <1>10, SMT
<1>12. YearOfEra(doe) = yoe
  <2>1. YearOfEra(365 * yoe + (yoe \div 4) - (yoe \div 100) + doy) = yoe
    <3>1. yoe < 400 /\ doy =< 365
      BY <1>3, <1>5
    <3>2. QED
      BY <1>8, <3>1, YearIsFound
  <2>2. QED
    BY <1>6, <2>1
<1>13. doe - (365 * yoe + (yoe \div 4) - (yoe \div 100)) = doy
  BY <1>6, SMT
<1>14. Civil(DayNumber(y, m, d)) = <<yoe + era * 400 + (IF m =< 2 THEN 1 ELSE 0), m, d>>
  BY <1>3, <1>10, <1>11, <1>12, <1>13, SMT DEF Civil, MonthStart
<1>15. QED
  BY <1>4, <1>5, <1>14, SMT

\* The calendar and the count of days go together, and there was a day before.
CalendarInv ==
    /\ days \in Nat
    /\ \E y, m, d : date = <<y, m, d>> /\ IsDate(y, m, d) /\ DayNumber(y, m, d) = days
    /\ days > 0 => \E y, m, d : /\ IsDate(y, m, d) /\ DayNumber(y, m, d) = days - 1
                                /\ date = NextDate(<<y, m, d>>)

\* The calendar begins with the day numbered 0.
LEMMA FirstDay == IsDate(1970, 1, 1) /\ DayNumber(1970, 1, 1) = 0
<1>1. IsDate(1970, 1, 1)
  BY MonthLengths, SMT DEF IsDate
<1>2. QED
  BY <1>1, MonthStarts, SMT DEF DayNumber, DayOfYear, MarchMonth, MarchYear, YearStart

\* The calendar and the count of days go on together.
LEMMA AlwaysCalendar == CalendarSpec => []CalendarInv
<1>1. CalendarInit => CalendarInv
  BY FirstDay DEF CalendarInit, CalendarInv
<1>2. ASSUME CalendarInv, [Tomorrow]_calendar PROVE CalendarInv'
  <2>1. CASE Tomorrow
    <3>1. PICK y, m, d : date = <<y, m, d>> /\ IsDate(y, m, d) /\ DayNumber(y, m, d) = days
      BY <1>2 DEF CalendarInv
    <3>2. PICK a, b, c : NextDate(<<y, m, d>>) = <<a, b, c>> /\ IsDate(a, b, c)
                         /\ DayNumber(a, b, c) = DayNumber(y, m, d) + 1
      BY <3>1, NextDayNumber
    <3>3. days \in Nat /\ days' = days + 1 /\ date' = NextDate(<<y, m, d>>)
      BY <1>2, <2>1, <3>1 DEF CalendarInv, Tomorrow
    <3>4. days' \in Nat /\ days' > 0 /\ days' - 1 = days
      BY <3>3
    <3>5. QED
      BY <3>1, <3>2, <3>3, <3>4, Zenon DEF CalendarInv
  <2>2. CASE UNCHANGED calendar
    BY <1>2, <2>2 DEF CalendarInv, calendar
  <2>3. QED
    BY <1>2, <2>1, <2>2
<1>3. QED
  BY <1>1, <1>2, PTL DEF CalendarSpec

\* Of two numbers the larger and the smaller.
LEMMA LargerAndSmaller ==
    ASSUME NEW a \in Int, NEW b \in Int
    PROVE  /\ Max({a, b}) = IF a >= b THEN a ELSE b
           /\ Min({a, b}) = IF a =< b THEN a ELSE b
BY DEF Max, Min

\* A certificate that begins on a date, made that day or the day after, is good from that
\* date until ten years later.
LEMMA CertificateDates ==
    ASSUME NEW y, NEW m, NEW d, IsDate(y, m, d), NotBeforeDate(days) = <<y, m, d>>,
           NEW a \in Nat, NEW b \in Nat, NEW c \in Nat, date = <<a, b, c>>,
           \/ a = y /\ b = m /\ c = d
           \/ a = y /\ b = m /\ c = d + 1
           \/ a = y /\ b = m + 1 /\ c = 1 /\ 28 =< d
           \/ a = y + 1 /\ m = 12 /\ b = 1 /\ c = 1 /\ d = 31
    PROVE  CertificateIsGood
<1>1. /\ y \in Nat /\ m \in Nat /\ d \in Nat /\ 1 =< y
      /\ 1 =< m /\ m =< 12 /\ 1 =< d /\ d =< Length(y, m)
  BY DEF IsDate
<1>2. /\ Length(y, m) \in Nat /\ Length(y + 10, m) \in Nat /\ 28 =< Length(y + 10, m)
      /\ Length(y, m) =< 31
  BY <1>1, MonthLengths
<1>3. PICK e \in Nat : e = (IF d =< 28 THEN d ELSE 28) /\ 1 =< e /\ e =< 28
  BY <1>1
<1>4. NotAfterDate(days) = <<y + 10, m, e>>
  <2>1. Min({d, 28}) = e
    <3>1. d \in Int /\ 28 \in Int
      BY <1>1
    <3>2. Min({d, 28}) = IF d =< 28 THEN d ELSE 28
      BY <3>1, LargerAndSmaller
    <3>3. QED
      BY <1>3, <3>2
  <2>2. QED
    BY <2>1 DEF NotAfterDate, SelfSignedYears
<1>5. RealDate(<<y, m, d>>) /\ RealDate(<<y + 10, m, e>>)
  BY <1>1, <1>2, <1>3 DEF RealDate
<1>6. NotAfter(<<y, m, d>>, <<a, b, c>>)
  BY <1>1, <1>2 DEF NotAfter
<1>7. NotAfter(<<a, b, c>>, <<y + 10, m, e>>)
  BY <1>1, <1>2, <1>3 DEF NotAfter
<1>8. NotAfter(<<a + 10, b - 1, c>>, <<y + 10, m, e>>)
  BY <1>1, <1>2, <1>3 DEF NotAfter
<1>9. date[1] = a /\ date[2] = b /\ date[3] = c
  OBVIOUS
<1>10. QED
  BY <1>4, <1>5, <1>6, <1>7, <1>8, <1>9 DEF CertificateIsGood, SelfSignedYears

\* On every day there will be, the date rfc3339 writes is the date of the calendar, and a
\* certificate made that day has two dates that exist, is good at once and for ten years
\* (clock.rs, rfc3339; tls.rs, self_signed).
THEOREM DatesAreRight == CalendarSpec => []DateIsRight
<1>1. CalendarInv => DateIsRight
  <2> SUFFICES ASSUME CalendarInv PROVE DateIsRight
    OBVIOUS
  <2>1. PICK a, b, c : date = <<a, b, c>> /\ IsDate(a, b, c) /\ DayNumber(a, b, c) = days
    BY DEF CalendarInv
  <2>2. a \in Nat /\ b \in Nat /\ c \in Nat /\ days \in Nat /\ Civil(days) = date
    BY <2>1, DateIsFound DEF CalendarInv, IsDate
  <2>3. CASE days = 0
    <3>1. NotBeforeDate(days) = Civil(days)
      BY <2>3, LargerAndSmaller DEF NotBeforeDate
    <3>2. QED
      BY <2>1, <2>2, <3>1, CertificateDates DEF DateIsRight
  <2>4. CASE days > 0
    <3>1. PICK y, m, d : /\ IsDate(y, m, d) /\ DayNumber(y, m, d) = days - 1
                         /\ date = NextDate(<<y, m, d>>)
      BY <2>4 DEF CalendarInv
    <3>2. NotBeforeDate(days) = <<y, m, d>>
      <4>1. Max({days - 1, 0}) = days - 1
        BY <2>2, <2>4, LargerAndSmaller
      <4>2. QED
        BY <3>1, <4>1, DateIsFound DEF NotBeforeDate
    <3>3. \/ a = y /\ b = m /\ c = d + 1
          \/ a = y /\ b = m + 1 /\ c = 1 /\ 28 =< d
          \/ a = y + 1 /\ m = 12 /\ b = 1 /\ c = 1 /\ d = 31
      BY <2>1, <3>1, NextDayNumber
    <3>4. QED
      BY <2>1, <2>2, <3>1, <3>2, <3>3, CertificateDates DEF DateIsRight
  <2>5. QED
    BY <2>2, <2>3, <2>4
<1>2. QED
  BY <1>1, AlwaysCalendar, PTL

=============================================================================
