------------------------------- MODULE Serving ------------------------------
(***************************************************************************)
(* Listening, serving and stopping (server.rs, serve.rs): the accept loop   *)
(* with its handshakes, requests whose handlers may panic, the janitor's    *)
(* task, and the drain after SIGTERM.  What a handler does is the subject   *)
(* of the other modules; here it works on the blocking pool for a while.    *)
(***************************************************************************)
EXTENDS Naturals, Sequences, SequencesExt, FiniteSets

CONSTANTS
    Clients,
    Silent,       \* those of Clients that connect and say nothing
    Stalling,     \* those that begin to send a body and never finish
    Mode,         \* listen.mode: "tls" or "plain"
    Handshakes    \* HANDSHAKES

ASSUME ServingAssumption ==
    /\ Silent \subseteq Clients
    /\ Stalling \subseteq Clients
    /\ Mode \in {"tls", "plain"}
    /\ Handshakes \in Nat \ {0}

VARIABLES
    phase,        \* "starting", "failed", "serving", "draining", "returned", "exited"
    backlog,      \* connections the listener has not accepted, in order
    clients,      \* where each client's connection is
    jobs,         \* who has work on the blocking pool: clients, and "janitor"
    janitor       \* "sleeping", "sweeping", "aborted"

serving == <<phase, backlog, clients, jobs, janitor>>

ServingInit ==
    /\ phase = "starting"
    /\ backlog = <<>>
    /\ clients = [c \in Clients |-> "away"]
    /\ jobs = {}
    /\ janitor = "sleeping"

To(c, where) == clients' = [clients EXCEPT ![c] = where]

\* The database, the pair of tls mode, and the address: without any of them the server does
\* not start, and it never falls back to plain HTTP.
Bind ==
    /\ phase = "starting"
    /\ phase' \in {"serving", "failed"}
    /\ UNCHANGED <<backlog, clients, jobs, janitor>>

Restart ==
    /\ phase \in {"failed", "exited"}
    /\ phase' = "starting"
    /\ backlog' = <<>>
    /\ clients' = [c \in Clients |-> "away"]
    /\ jobs' = {}
    /\ janitor' = "sleeping"

-----------------------------------------------------------------------------
(* Incoming::accept. *)

\* A client stands for one connection after another: it comes back when nothing is left of
\* the last one.
Connect(c) ==
    /\ phase = "serving"
    /\ clients[c] \in {"away", "closed", "answered"}
    /\ c \notin jobs
    /\ backlog' = Append(backlog, c)
    /\ To(c, "waiting")
    /\ UNCHANGED <<phase, jobs, janitor>>

Shaking == {c \in Clients : clients[c] \in {"shaking", "shaken"}}

\* A connection is accepted while there is room; in tls mode its handshake is a task of its
\* own.
Accept ==
    /\ phase = "serving"
    /\ backlog # <<>>
    /\ Cardinality(Shaking) < Handshakes
    /\ To(Head(backlog), IF Mode = "plain" THEN "connected" ELSE "shaking")
    /\ backlog' = Tail(backlog)
    /\ UNCHANGED <<phase, jobs, janitor>>

Shake(c) ==
    /\ clients[c] = "shaking"
    /\ c \notin Silent
    /\ To(c, "shaken")
    /\ UNCHANGED <<phase, backlog, jobs, janitor>>

\* The handshake fails, or takes longer than HANDSHAKE.
ShakeEnds(c) ==
    /\ clients[c] = "shaking"
    /\ To(c, "closed")
    /\ UNCHANGED <<phase, backlog, jobs, janitor>>

\* The loop takes a finished handshake, and gives the connection to the server.
Join(c) ==
    /\ phase = "serving"
    /\ clients[c] = "shaken"
    /\ To(c, "connected")
    /\ UNCHANGED <<phase, backlog, jobs, janitor>>

-----------------------------------------------------------------------------
(* `outer`, and the handler on the blocking pool. *)

Request(c) ==
    /\ phase \in {"serving", "draining"}
    /\ clients[c] = "connected"
    /\ c \notin Silent
    /\ To(c, "asking")
    /\ UNCHANGED <<phase, backlog, jobs, janitor>>

Handle(c) ==
    /\ phase \in {"serving", "draining"}
    /\ clients[c] = "asking"
    /\ jobs' = jobs \cup {c}
    /\ To(c, "working")
    /\ UNCHANGED <<phase, backlog, janitor>>

\* A handler that panics takes its own task down, and the client is answered.
Panic(c) ==
    /\ phase \in {"serving", "draining"}
    /\ clients[c] = "asking"
    /\ To(c, "answered")
    /\ UNCHANGED <<phase, backlog, jobs, janitor>>

\* The work on the pool ends, whether anyone still waits for it or not.  Work that panics
\* there is an answer too: ServiceUnavailable.
WorkEnds(c) ==
    /\ c \in jobs \cap Clients
    /\ jobs' = jobs \ {c}
    /\ IF clients[c] = "working" THEN To(c, "answered") ELSE UNCHANGED clients
    /\ UNCHANGED <<phase, backlog, janitor>>

ClientLeaves(c) ==
    /\ clients[c] \in {"connected", "asking", "working", "answered"}
    /\ To(c, "away")
    /\ UNCHANGED <<phase, backlog, jobs, janitor>>

-----------------------------------------------------------------------------
(* The janitor. *)

Sweep ==
    /\ phase \in {"serving", "draining"}
    /\ janitor = "sleeping"
    /\ janitor' = "sweeping"
    /\ jobs' = jobs \cup {"janitor"}
    /\ UNCHANGED <<phase, backlog, clients>>

\* A workspace that fails is logged and the next one tried; a pass that fails altogether, or
\* panics, is logged and followed by the next.
SweepEnds ==
    /\ "janitor" \in jobs
    /\ jobs' = jobs \ {"janitor"}
    /\ janitor' = IF janitor = "sweeping" THEN "sleeping" ELSE janitor
    /\ UNCHANGED <<phase, backlog, clients>>

-----------------------------------------------------------------------------
(* run, after `shutdown` completes. *)

\* SIGTERM or Ctrl-C: the listener is dropped with its backlog and its handshakes, and
\* connections that serve no request are closed.
Told ==
    /\ phase = "serving"
    /\ phase' = "draining"
    /\ backlog' = <<>>
    /\ clients' = [c \in Clients |-> IF clients[c] \in {"asking", "working"} THEN clients[c]
                                     ELSE "closed"]
    /\ UNCHANGED <<jobs, janitor>>

InFlight == {c \in Clients : clients[c] \in {"asking", "working"}}

Return ==
    /\ phase' = "returned"
    /\ janitor' = "aborted"
    /\ clients' = [c \in Clients |-> "closed"]
    /\ UNCHANGED <<backlog, jobs>>

Drained ==
    /\ phase = "draining"
    /\ InFlight = {}
    /\ Return

\* Mutant of DrainOver: what is in flight has all the time it wants.
DrainNeverOver == FALSE /\ phase = "draining" /\ Return

\* The time to drain is over: requests still in flight are cut off.
DrainOver ==
    /\ phase = "draining"
    /\ Return

\* The runtime is dropped, which waits for the threads of the blocking pool; then the
\* process ends.
Exit ==
    /\ phase = "returned"
    /\ jobs = {}
    /\ phase' = "exited"
    /\ UNCHANGED <<backlog, clients, jobs, janitor>>

ServingNext ==
    \/ Bind \/ Restart
    \/ Accept
    \/ \E c \in Clients :
          \/ Connect(c) \/ Shake(c) \/ ShakeEnds(c) \/ Join(c)
          \/ Request(c) \/ Handle(c) \/ Panic(c) \/ WorkEnds(c) \/ ClientLeaves(c)
    \/ Sweep \/ SweepEnds
    \/ Told \/ Drained \/ DrainOver \/ Exit

ServingSpec == ServingInit /\ [][ServingNext]_serving

\* Work on the pool ends, but for work that waits for a stalling client's body; when the
\* connection is gone that ends too (Bridge).
EndsByItself(c) == c \notin Stalling \/ clients[c] # "working"

\* Tasks run and timers fire; nothing is asked of a client.
ServingFairness ==
    /\ WF_serving(Accept)
    /\ \A c \in Clients : /\ WF_serving(ShakeEnds(c)) /\ WF_serving(Join(c)) /\ WF_serving(Handle(c))
                          /\ WF_serving(EndsByItself(c) /\ WorkEnds(c))
    /\ WF_serving(Sweep) /\ WF_serving(SweepEnds)
    /\ WF_serving(Drained) /\ WF_serving(DrainOver) /\ WF_serving(Exit)

-----------------------------------------------------------------------------
(* Properties. *)

Stopping == phase \notin {"starting", "serving"}

\* "A client that says nothing holds up nobody but itself" and "which the timeout sees to"
\* (Incoming): whoever waits in the backlog is accepted in the end, with as many silent
\* clients as there are slots, coming back for ever.
EveryoneIsAccepted ==
    \A c \in Clients : clients[c] = "waiting" ~> clients[c] # "waiting"

\* A request that was sent is answered, a panic in its handler included, unless its client
\* left or the server is stopping (outer).
NotCutOff ==
    [][\A c \in Clients : clients[c] \in {"asking", "working"} /\ clients'[c] = "closed"
            => phase' = "returned"]_serving

\* "Which is bounded, or a client that never finishes would keep the process for ever"
\* (run): once told, the server returns, and the process ends.
Returns == phase = "draining" ~> phase = "exited"

\* "The janitor never ends": it passes again and again while the server serves.
JanitorPasses == [](phase = "serving" => <>(janitor = "sweeping" \/ Stopping))

\* What `run` keeps doing whatever its clients, handlers, and janitor do, under the fairness
\* of its scheduler and its timeouts: it accepts, it sweeps, it cuts nobody off, and it
\* returns once told.
ServesToTheEnd ==
    /\ NotCutOff
    /\ ServingFairness => EveryoneIsAccepted /\ JanitorPasses /\ Returns

\* docs/usage.md: "lets the requests in flight finish, for at most half a minute, and exits
\* 0".  When the time is over no request is worked on any more.
NothingOutlivesTheDrain == phase = "returned" => jobs \cap Clients = {}

=============================================================================
