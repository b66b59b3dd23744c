------------------------------- MODULE MCRows -------------------------------
(* Rows for TLC.  The records of a workspace that gets an item, is migrated,  *)
(* once aborted and once to the end, and is rotated.                         *)
EXTENDS Rows

Header(key) == [key |-> key, header |-> key]
Used(g, bytes) == [generation |-> g, bytes |-> bytes]
MCPlain == [Fresh EXCEPT !.used = {Used(0, 1)}, !.tombstones = {"first"}]
MCMigrating ==
    [MCPlain EXCEPT !.session = [kind |-> "migrate", next |-> Header("a"), holder |-> "device",
                                 lease |-> 1, staged |-> 1],
                    !.next = 2, !.tickets = {"staged"}]
MCMigrated ==
    [MCPlain EXCEPT !.seal = Header("a"), !.generation = 1, !.next = 2, !.used = {Used(1, 1)}]

MCRecords ==
    {MCPlain, MCMigrating,
     [MCPlain EXCEPT !.next = 2, !.ended = {"a"}], MCMigrated,
     [MCMigrated EXCEPT !.session = [kind |-> "rotate", next |-> Header("b"), holder |-> "device",
                                     lease |-> 2, staged |-> 2],
                        !.next = 3, !.used = @ \cup {Used(2, 1)}]}

MCThreads == [p \in Processes |-> {<<p, i>> : i \in 1 .. IF p = "server" THEN 2 ELSE 1}]

=============================================================================
