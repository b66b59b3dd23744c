-------------------------------- MODULE Rows --------------------------------
(***************************************************************************)
(* A workspace's record as the control database holds it: one row of        *)
(* `workspaces`, and rows of four other tables (ledger/sqlite.rs).  A rule  *)
(* reads and stores the record in one exclusive transaction; `load`, which  *)
(* every read of the API and of the commands begins with, selects from one  *)
(* table after the other, and no transaction holds the five together.       *)
(***************************************************************************)
EXTENDS Naturals, FiniteSets

CONSTANTS
    Records,      \* the records a rule may leave
    Processes,    \* the server, and commands
    Threads,      \* [Processes -> sets of threads]; a process's share one connection
    Null

\* A WorkspaceRecord: a seal or a session is there whole, or not at all.
IsRecord(r) ==
    /\ r = [seal |-> r.seal, session |-> r.session, generation |-> r.generation, plain |-> r.plain,
            next |-> r.next, used |-> r.used, tickets |-> r.tickets, tombstones |-> r.tombstones,
            ended |-> r.ended]
    /\ r.seal # Null => /\ r.seal = [key |-> r.seal.key, header |-> r.seal.header]
                        /\ r.seal.key # Null
    /\ r.session # Null =>
          /\ r.session = [kind |-> r.session.kind, holder |-> r.session.holder,
                          lease |-> r.session.lease, staged |-> r.session.staged,
                          next |-> [key |-> r.session.next.key, header |-> r.session.next.header]]
          /\ r.session.kind # Null

ASSUME RowsAssumption ==
    /\ \A p, q \in Processes : p # q => Threads[p] \cap Threads[q] = {}
    /\ \A p \in Processes : Null \notin Threads[p]
    /\ \A r \in Records : IsRecord(r)

VARIABLES
    tables,       \* the database
    stored,       \* the record the last transaction stored
    connections,  \* process -> the thread that has its connection
    loads         \* thread -> what it has selected so far, the records stored meanwhile, and
                  \* whether another process stored one of them

database == <<tables, stored, connections, loads>>

Tables == {"workspaces", "generations", "uploads", "tombstones", "ended_rewrites"}
AllThreads == UNION {Threads[p] : p \in Processes}
ProcessOf(t) == CHOOSE p \in Processes : t \in Threads[p]

\* WorkspaceRecord::default.
Fresh == [seal |-> Null, session |-> Null, generation |-> 0, plain |-> Null, next |-> 1,
          used |-> {}, tickets |-> {}, tombstones |-> {}, ended |-> {}]

-----------------------------------------------------------------------------
(* write and read. *)

\* The columns of `workspaces`: while a session is open the seal is the one before it.
RowOf(r) ==
    [generation |-> r.generation, plain |-> r.plain, next_generation |-> r.next,
     seal_key |-> IF r.seal = Null THEN Null ELSE r.seal.key,
     seal_header |-> IF r.seal = Null THEN Null ELSE r.seal.header,
     rw_kind |-> IF r.session = Null THEN Null ELSE r.session.kind,
     rw_next_key |-> IF r.session = Null THEN Null ELSE r.session.next.key,
     rw_next_header |-> IF r.session = Null THEN Null ELSE r.session.next.header,
     rw_holder |-> IF r.session = Null THEN Null ELSE r.session.holder,
     rw_lease_expires_at |-> IF r.session = Null THEN Null ELSE r.session.lease,
     rw_staged_generation |-> IF r.session = Null THEN Null ELSE r.session.staged]

\* The row is updated, and the rows of the other tables are replaced.
Write(r) ==
    [workspaces |-> RowOf(r), generations |-> r.used, uploads |-> r.tickets,
     tombstones |-> r.tombstones, ended_rewrites |-> r.ended]

SealFrom(row) ==
    IF row.seal_key = Null THEN Null ELSE [key |-> row.seal_key, header |-> row.seal_header]

SessionFrom(row) ==
    IF row.rw_kind = Null THEN Null
    ELSE [kind |-> row.rw_kind, holder |-> row.rw_holder, lease |-> row.rw_lease_expires_at,
          staged |-> row.rw_staged_generation,
          next |-> [key |-> row.rw_next_key, header |-> row.rw_next_header]]

ReadRows(rows) ==
    LET row == rows.workspaces
    IN  [seal |-> SealFrom(row), session |-> SessionFrom(row), generation |-> row.generation,
         plain |-> row.plain, next |-> row.next_generation, used |-> rows.generations,
         tickets |-> rows.uploads, tombstones |-> rows.tombstones, ended |-> rows.ended_rewrites]

-----------------------------------------------------------------------------
NoLoad == [rows |-> <<>>, meanwhile |-> {}, beside |-> FALSE]

\* A load that goes on has another record beside it.
Seen(u, t, r) ==
    IF loads[u] = NoLoad THEN NoLoad
    ELSE [loads[u] EXCEPT !.meanwhile = @ \cup {r}, !.beside = @ \/ ProcessOf(u) # ProcessOf(t)]

\* `create`, at the workspace's first opening.
RowsInit ==
    /\ tables = Write(Fresh)
    /\ stored = Fresh
    /\ connections = [p \in Processes |-> Null]
    /\ loads = [t \in AllThreads |-> NoLoad]

\* Mutant of Transact: the transaction's own connection is another one.
TransactBeside(t, r) ==
    /\ stored' = r
    /\ tables' = Write(r)
    /\ loads' = [u \in AllThreads |-> Seen(u, t, r)]
    /\ UNCHANGED connections

\* A transaction, alone in the database, on the process's own connection: what `read`
\* gives the rule is what was stored, and the record is written where it changed.
Transact(t, r) ==
    /\ connections[ProcessOf(t)] = Null
    /\ stored' = r
    /\ tables' = IF r = ReadRows(tables) THEN tables ELSE Write(r)
    /\ loads' = [u \in AllThreads |-> Seen(u, t, r)]
    /\ UNCHANGED connections

StartLoad(t) ==
    /\ connections[ProcessOf(t)] = Null
    /\ connections' = [connections EXCEPT ![ProcessOf(t)] = t]
    /\ loads' = [loads EXCEPT ![t] = [rows |-> <<>>, meanwhile |-> {stored}, beside |-> FALSE]]
    /\ UNCHANGED <<tables, stored>>

\* In this order, each by a statement of its own.
SelectOrder == <<"workspaces", "generations", "uploads", "tombstones", "ended_rewrites">>

Select(t) ==
    LET had == DOMAIN loads[t].rows
        table == SelectOrder[Cardinality(had) + 1]
    IN  /\ connections[ProcessOf(t)] = t
        /\ had # Tables
        /\ loads' = [loads EXCEPT ![t].rows = [x \in had \cup {table} |->
                                                  IF x = table THEN tables[x] ELSE @[x]]]
        /\ UNCHANGED <<tables, stored, connections>>

EndLoad(t) ==
    /\ connections[ProcessOf(t)] = t
    /\ DOMAIN loads[t].rows = Tables
    /\ connections' = [connections EXCEPT ![ProcessOf(t)] = Null]
    /\ loads' = [loads EXCEPT ![t] = NoLoad]
    /\ UNCHANGED <<tables, stored>>

RowsNext ==
    \E t \in AllThreads :
        \/ \E r \in Records : Transact(t, r)
        \/ StartLoad(t) \/ Select(t) \/ EndLoad(t)

RowsSpec == RowsInit /\ [][RowsNext]_database

-----------------------------------------------------------------------------
(* Properties. *)

\* The tables hold the record the last rule left, whole, however it differs from the one
\* before (read and write, ledger/sqlite.rs).
RowsHoldTheRecord == ReadRows(tables) = stored

Loaded(t) == DOMAIN loads[t].rows = Tables

\* "A copy of a workspace's record, for reading" (Ledger::load): every table a thread has
\* loaded is of a record that was stored while it did, so the key, the generation, and the
\* session, which are one row, are always of one record; all of it is of one record unless
\* another process stored one meanwhile; and the tables spell the last.
LoadsWhatWasStored ==
    /\ RowsHoldTheRecord
    /\ \A t \in AllThreads : Loaded(t) =>
          /\ \A x \in Tables : \E r \in loads[t].meanwhile : loads[t].rows[x] = Write(r)[x]
          /\ ~loads[t].beside => ReadRows(loads[t].rows) \in loads[t].meanwhile

\* Of one record, whoever stores one meanwhile.
LoadsOneRecord ==
    \A t \in AllThreads : Loaded(t) => ReadRows(loads[t].rows) \in loads[t].meanwhile

=============================================================================
