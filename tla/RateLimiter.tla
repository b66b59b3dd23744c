----------------------------- MODULE RateLimiter ----------------------------
(***************************************************************************)
(* The limiter of failed authentications (rate.rs) and the bearer layer     *)
(* that asks it (auth.rs).  A request asks before its key is checked and    *)
(* tells of a failure afterwards, each with a time it read a moment before, *)
(* and many requests are in flight at once.                                 *)
(***************************************************************************)
EXTENDS Naturals, Sequences, SequencesExt, FiniteSets

CONSTANTS
    Attempts,     \* requests that may be in flight together
    Peers,        \* addresses clients connect from
    Proxy,        \* the proxy's own address, or NoAddress: listen.behind_proxy
    CountedAs,    \* [Peers -> addresses]: an IPv6 client as its /64, mapped IPv4 as IPv4
    PerMinute, Window, Capacity,
    NoAddress,
    LastTime      \* bound of the model

ASSUME LimiterAssumption ==
    /\ PerMinute \in Nat \ {0}
    /\ Window \in Nat \ {0}
    /\ Capacity \in Nat \ {0}
    /\ NoAddress \notin Peers
    /\ IsFiniteSet(Attempts)

VARIABLES
    clock,
    table,        \* counted address -> the times of its failures, as they were told
    attempts,
    guesses       \* history: client -> its guesses checked since a failure of it was forgotten

limiter == <<clock, table, attempts, guesses>>

Counted == {CountedAs[c] : c \in Peers}
Unasked == [at |-> "idle"]

LimiterInit ==
    /\ clock = 0
    /\ table = <<>>
    /\ attempts = [r \in Attempts |-> Unasked]
    /\ guesses = [a \in Counted |-> 0]

-----------------------------------------------------------------------------
(* The address. *)

\* Mutant of ClientAddress: the first entry of the chain is believed.
FirstOfChain(peer, chain) ==
    IF Proxy = NoAddress \/ chain = <<>> \/ Head(chain) = NoAddress THEN peer ELSE Head(chain)

\* Behind a proxy the last entry of X-Forwarded-For, which the proxy appended; the peer when
\* there is none, or it is no address.
ClientAddress(peer, chain) ==
    IF Proxy = NoAddress \/ chain = <<>> \/ Last(chain) = NoAddress THEN peer ELSE Last(chain)

\* What a client at `c` may send, and what arrives: a chain it made up, and the proxy's entry.
Chains(c) ==
    IF Proxy = NoAddress THEN {<<d>> : d \in Peers} \cup {<<>>}
    ELSE {<<d, c>> : d \in Peers} \cup {<<NoAddress, c>>, <<c>>}

-----------------------------------------------------------------------------
(* The table. *)

\* The failures that `forget_old` leaves: it takes them off the front while they are old.
ForgetOld(failures, time) ==
    LET keep == {i \in 1 .. Len(failures) : time < failures[i] + Window}
        first == IF keep = {} THEN Len(failures) + 1
                 ELSE CHOOSE i \in keep : \A j \in keep : i =< j
    IN  SubSeq(failures, first, Len(failures))

WithoutFailures(t, addresses) == [a \in DOMAIN t \ addresses |-> t[a]]
WithFailures(t, a, failures) == [b \in DOMAIN t \cup {a} |-> IF b = a THEN failures ELSE t[b]]

\* An address without failures left is taken out when it is asked about.
AskedAbout(a, time) ==
    IF a \notin DOMAIN table THEN table
    ELSE LET left == ForgetOld(table[a], time)
         IN  IF left = <<>> THEN WithoutFailures(table, {a}) ELSE WithFailures(table, a, left)

Forgets(a, time) == a \in DOMAIN table /\ Len(ForgetOld(table[a], time)) < Len(table[a])

Limited(a, time) ==
    a \in DOMAIN table /\ Len(ForgetOld(table[a], time)) >= PerMinute

RetryAfter(a, time) ==
    LET clears == Head(ForgetOld(table[a], time)) + Window
    IN  IF clears > time THEN clears - time ELSE 1

\* Mutant of MakeRoom: only what has cleared is dropped.
MakeRoomOfCleared(t, time) ==
    {WithoutFailures(t, {a \in DOMAIN t : t[a] = <<>> \/ time >= Last(t[a]) + Window})}

\* What has cleared is dropped; if nothing has, the address that failed longest ago.
MakeRoom(t, time) ==
    LET kept == WithoutFailures(t, {a \in DOMAIN t : t[a] = <<>> \/ time >= Last(t[a]) + Window})
        stalest == {a \in DOMAIN kept : \A b \in DOMAIN kept : Last(kept[a]) =< Last(kept[b])}
    IN  IF Cardinality(DOMAIN kept) < Capacity THEN {kept}
        ELSE {WithoutFailures(kept, {a}) : a \in stalest}

Roomy(a, time) ==
    IF a \notin DOMAIN table /\ Cardinality(DOMAIN table) >= Capacity
    THEN MakeRoom(table, time) ELSE {table}

-----------------------------------------------------------------------------
(* A request. *)

\* The clock is read, and then the table is locked.
GuessArrives(r) ==
    /\ attempts[r] = Unasked
    /\ \E c \in Peers : \E chain \in Chains(c) :
          attempts' = [attempts EXCEPT ![r] =
              [at |-> "asking", client |-> CountedAs[c], time |-> clock,
               address |-> CountedAs[ClientAddress(IF Proxy = NoAddress THEN c ELSE Proxy, chain)]]]
    /\ UNCHANGED <<clock, table, guesses>>

AskLimiter(r) ==
    LET a == attempts[r].address
        time == attempts[r].time
    IN  /\ attempts[r].at = "asking"
        /\ table' = AskedAbout(a, time)
        /\ attempts' = [attempts EXCEPT ![r] =
              IF Limited(a, time)
              THEN [at |-> "limited", client |-> @.client, address |-> a, time |-> time,
                    wait |-> RetryAfter(a, time)]
              ELSE [@ EXCEPT !.at = "checking"]]
        /\ guesses' = [guesses EXCEPT ![a] = IF Forgets(a, time) THEN 0 ELSE @]
        /\ UNCHANGED clock

\* The key is not one of this server, or there is none.
Guess(r) ==
    LET c == attempts[r].client
    IN  /\ attempts[r].at = "checking"
        /\ guesses' = [guesses EXCEPT ![c] = @ + 1]
        /\ attempts' = [attempts EXCEPT ![r].at = "guessed"]
        /\ UNCHANGED <<clock, table>>

\* A right key, an expired or revoked one, the database does not answer, or the client left
\* before it was answered, and the request with it: none is counted.
NoGuess(r) ==
    /\ attempts[r].at = "checking"
    /\ attempts' = [attempts EXCEPT ![r] = Unasked]
    /\ UNCHANGED <<clock, table, guesses>>

ReadClock(r) ==
    /\ attempts[r].at = "guessed"
    /\ attempts' = [attempts EXCEPT ![r].at = "telling", ![r].time = clock]
    /\ UNCHANGED <<clock, table, guesses>>

Failed(r) ==
    LET a == attempts[r].address
        time == attempts[r].time
    IN  /\ attempts[r].at = "telling"
        /\ \E roomy \in Roomy(a, time) :
              LET had == IF a \in DOMAIN roomy THEN ForgetOld(roomy[a], time) ELSE <<>>
              IN  /\ table' = WithFailures(roomy, a, IF Len(had) < PerMinute THEN Append(had, time) ELSE had)
                  /\ guesses' = [b \in Counted |->
                        IF b \in DOMAIN table \ DOMAIN roomy \/ (b = a /\ Forgets(a, time))
                        THEN 0 ELSE guesses[b]]
        /\ attempts' = [attempts EXCEPT ![r] = Unasked]
        /\ UNCHANGED clock

Answered(r) ==
    /\ attempts[r].at = "limited"
    /\ attempts' = [attempts EXCEPT ![r] = Unasked]
    /\ UNCHANGED <<clock, table, guesses>>

TimePasses ==
    /\ clock < LastTime
    /\ clock' = clock + 1
    /\ UNCHANGED <<table, attempts, guesses>>

LimiterNext ==
    \/ \E r \in Attempts :
          GuessArrives(r) \/ AskLimiter(r) \/ Guess(r) \/ NoGuess(r) \/ ReadClock(r) \/ Failed(r) \/ Answered(r)
    \/ TimePasses

LimiterSpec == LimiterInit /\ [][LimiterNext]_limiter

-----------------------------------------------------------------------------
(* Properties. *)

\* "An address holds at most `per_minute` timestamps.  The table of addresses is bounded as
\* well", under whatever addresses fail together (rate.rs), and no address in it is without
\* a failure.
TableBounded ==
    /\ Cardinality(DOMAIN table) =< Capacity
    /\ \A a \in DOMAIN table : Len(table[a]) \in 1 .. PerMinute

\* How many guesses a client gets before it is refused: while none of its failures is
\* forgotten, for its age or to make room, no more are checked than the limit and the requests
\* that had asked already when it was reached (auth.rs asks first and counts last), whatever
\* X-Forwarded-For it forges and in whatever order the requests go on.
GuessesBounded ==
    \A a \in Counted : guesses[a] =< PerMinute + Cardinality(Attempts) - 1

\* docs/configuration.md: "At `limits.auth_failures_per_minute` the address is answered
\* `RATE_LIMITED`" "until its oldest guess is a minute old".
GuessesLimited == \A a \in Counted : guesses[a] =< PerMinute

\* docs/configuration.md: RATE_LIMITED "until its oldest guess is a minute old".  Whoever is
\* refused has as many guesses told of that are younger than that.
RefusedWithCause ==
    \A r \in Attempts :
        attempts[r].at = "limited" /\ attempts[r].address \in DOMAIN table =>
            LET failures == table[attempts[r].address]
            IN  \A i \in 1 .. Len(failures) :
                    Len(failures) = PerMinute => attempts[r].time < failures[i] + Window

=============================================================================
