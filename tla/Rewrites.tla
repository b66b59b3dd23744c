------------------------------ MODULE Rewrites ------------------------------
(***************************************************************************)
(* The rewrite session of rewrite.rs: every item is re-encrypted into a     *)
(* staged generation, and then one pointer moves.                           *)
(***************************************************************************)
EXTENDS Encryption, Uploads

RenewLease(c) ==
    [rec EXCEPT !.session.holder = c,
                !.session.lease_expires_at = now + LeaseSecs]

\* A record-only rule: nothing on the shelf moves.
RecordOnly == UNCHANGED <<gens, staging, now, issued, answers>>

\* Sent again by the holder, `beginRewrite` renews the lease.
ReplayBegin(c, kind, key) ==
    /\ HeldSession(c)
    /\ rec.session.kind = kind
    /\ rec.session.next.key = key
    /\ Store(RenewLease(c), {}, {})

\* Mutant of OpenSession: the counter of generations stays where it was.
OpenSessionAgain(c, kind, expected, key, words) ==
    /\ rec.session = None
    /\ (kind = "migrate") <=> (rec.seal = None)
    /\ key \notin rec.ended_rewrites
    /\ KeyOf(rec.seal) = expected
    /\ KeyOf(rec.seal) # key
    /\ rec.next_generation =< MaxGeneration
    /\ Store([rec EXCEPT !.session = [kind |-> kind, next |-> SealUnder(key, words),
                                      holder |-> c, lease_expires_at |-> now + LeaseSecs,
                                      staged_generation |-> rec.next_generation]], {}, {})

OpenSession(c, kind, expected, key, words) ==
    /\ rec.session = None
    /\ (kind = "migrate") <=> (rec.seal = None)
    /\ key \notin rec.ended_rewrites
    /\ KeyOf(rec.seal) = expected
    /\ KeyOf(rec.seal) # key
    /\ rec.next_generation =< MaxGeneration
    /\ Store([rec EXCEPT !.next_generation = @ + 1,
                         !.session = [kind |-> kind, next |-> SealUnder(key, words),
                                      holder |-> c, lease_expires_at |-> now + LeaseSecs,
                                      staged_generation |-> rec.next_generation]], {}, {})

\* `beginRewrite`.
BeginRewrite(c, kind, expected, key, words) ==
    /\ open
    /\ MustWrite(c)
    /\ \/ ReplayBegin(c, kind, key)
       \/ OpenSession(c, kind, expected, key, words)
    /\ RecordOnly

\* `heartbeatRewrite`.
HeartbeatRewrite(c) ==
    /\ open
    /\ MustWrite(c)
    /\ HeldSession(c)
    /\ Store(RenewLease(c), {}, {})
    /\ RecordOnly

\* Mutant of TakeOverRewrite: the lease is not looked at.
TakeOverRewriteAnyTime(c) ==
    /\ open
    /\ MustWrite(c)
    /\ rec.session # None
    /\ Store(RenewLease(c), {}, {})
    /\ RecordOnly

\* `takeOverRewrite`: for another key once the lease has ended, for the holder at
\* any time.
TakeOverRewrite(c) ==
    /\ open
    /\ MustWrite(c)
    /\ rec.session # None
    /\ rec.session.holder = c \/ rec.session.lease_expires_at =< now
    /\ Store(RenewLease(c), {}, {})
    /\ RecordOnly

\* Mutant of CommitRewrite: the items are not counted.
CommitRewriteUncounted(c, key) ==
    LET session == rec.session
        old == rec.generation
    IN  /\ open
        /\ MustWrite(c)
        /\ HeldSession(c)
        /\ session.next.key = key
        /\ Store([rec EXCEPT !.generation = session.staged_generation,
                             !.seal = session.next,
                             !.session = None,
                             !.used[old] = 0,
                             !.tickets = DropTickets(RewriteUploads)],
                 {old}, RewriteUploads)
        /\ RecordOnly

\* Mutant of CommitRewrite: it is enough that something is staged.
CommitRewriteOnceStaged(c, key) ==
    LET session == rec.session
        old == rec.generation
    IN  /\ open
        /\ MustWrite(c)
        /\ HeldSession(c)
        /\ session.next.key = key
        /\ gens[session.staged_generation] # {} \/ gens[old] = {}
        /\ Store([rec EXCEPT !.generation = session.staged_generation,
                             !.seal = session.next,
                             !.session = None,
                             !.used[old] = 0,
                             !.tickets = DropTickets(RewriteUploads)],
                 {old}, RewriteUploads)
        /\ RecordOnly

\* `commitRewrite`: generation, header, and key id change together; the old
\* generation is dropped after the record points elsewhere, and the rewrite's
\* uploads go with it.
CommitRewrite(c, key) ==
    LET session == rec.session
        old == rec.generation
    IN  /\ open
        /\ MustWrite(c)
        /\ HeldSession(c)
        /\ session.next.key = key
        /\ Cardinality(gens[session.staged_generation]) = Cardinality(gens[old])
        /\ Store([rec EXCEPT !.generation = session.staged_generation,
                             !.seal = session.next,
                             !.session = None,
                             !.used[old] = 0,
                             !.tickets = DropTickets(RewriteUploads)],
                 {old}, RewriteUploads)
        /\ RecordOnly

\* Mutant of EndAborted: the rewrite's uploads stay.
EndAbortedWithUploads ==
    LET staged == rec.session.staged_generation
    IN  /\ Store([rec EXCEPT !.ended_rewrites = @ \cup {rec.session.next.key},
                             !.session = None,
                             !.used[staged] = 0],
                 {staged}, {})
        /\ RecordOnly

\* What every abort does.
EndAborted ==
    LET staged == rec.session.staged_generation
    IN  /\ Store([rec EXCEPT !.ended_rewrites = @ \cup {rec.session.next.key},
                             !.session = None,
                             !.used[staged] = 0,
                             !.tickets = DropTickets(RewriteUploads)],
                 {staged}, RewriteUploads)
        /\ RecordOnly

\* `abortRewrite`.
AbortRewrite(c, key) ==
    /\ open
    /\ MustWrite(c)
    /\ HeldSession(c)
    /\ rec.session.next.key = key
    /\ EndAborted

\* `passalong-server rewrite abort`: from the host, once the lease has ended or
\* when forced.
OperatorAbortRewrite(force) ==
    /\ open
    /\ rec.session # None
    /\ force \/ rec.session.lease_expires_at =< now
    /\ EndAborted

=============================================================================
