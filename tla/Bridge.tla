------------------------------- MODULE Bridge -------------------------------
(***************************************************************************)
(* The bridge between asynchronous bodies and the synchronous core          *)
(* (bridge.rs).  An upload: a task pumps the request's body into a bounded  *)
(* channel, and the shelf reads from it on a thread of the blocking pool.   *)
(* A download: a thread of the pool reads the content into such a channel,  *)
(* and the connection takes it from there.  Both are counted by one         *)
(* BridgeStats.  A piece stands for its bytes.                              *)
(***************************************************************************)
EXTENDS Naturals, Sequences, FiniteSets

CONSTANTS
    Transfers,
    Uploads,      \* those of Transfers that are uploads
    Lively,       \* those whose client keeps sending or reading
    Pieces,       \* announced, or asked for
    Depth,        \* DEPTH
    Threads       \* how many threads the blocking pool has

ASSUME BridgeAssumption ==
    /\ Uploads \subseteq Transfers
    /\ Lively \subseteq Transfers
    /\ Pieces \in Nat \ {0}
    /\ Depth \in Nat \ {0}
    /\ Threads \in Nat \ {0}

VARIABLES
    transfers,
    held          \* BridgeStats, whose peak is the most it ever was

bridge == <<transfers, held>>

-----------------------------------------------------------------------------
New == [thread |-> "none",   \* the blocking side: "none", "queued", "running", "over"
        left |-> Pieces,     \* what the producer has yet to get
        hand |-> 0,          \* pieces it has counted and not sent
        channel |-> <<>>,    \* of "ok" and "err"
        current |-> 0,       \* pieces the reader has received and not read
        got |-> 0,           \* pieces read, or given to the client
        ended |-> FALSE,     \* the content is shorter than it said
        producer |-> TRUE, consumer |-> TRUE,
        dropped |-> FALSE,   \* history: the server stopped, and nobody is answered
        result |-> "none"]

BridgeInit ==
    /\ transfers = [t \in Transfers |-> New]
    /\ held = 0

OkIn(channel) == Cardinality({n \in DOMAIN channel : channel[n] = "ok"})
PiecesOf(tr) == tr.hand + OkIn(tr.channel) + tr.current

AllInFlight == UNION {{t} \X (1 .. PiecesOf(transfers[t])) : t \in Transfers}

\* Every step ends so: the counter moved by `took` and `gave`.
Become(t, tr, took, gave) ==
    /\ transfers' = [transfers EXCEPT ![t] = tr]
    /\ held' = held + took - gave

Move(t, tr) == Become(t, tr, 0, 0)

\* The request came: its work waits for a thread, while the pump already runs.
TransferArrives(t) ==
    /\ transfers[t].thread = "none"
    /\ Move(t, [transfers[t] EXCEPT !.thread = "queued"])

GetThread(t) ==
    /\ transfers[t].thread = "queued"
    /\ Cardinality({u \in Transfers : transfers[u].thread = "running"}) < Threads
    /\ Move(t, [transfers[t] EXCEPT !.thread = "running"])

-----------------------------------------------------------------------------
(* read_body and BodyReader. *)

Pumping(t) ==
    /\ t \in Uploads
    /\ transfers[t].thread # "none"
    /\ transfers[t].producer

\* A frame arrives: its piece is counted, and then sent.
PumpFrame(t) ==
    LET tr == transfers[t]
    IN  /\ Pumping(t)
        /\ tr.hand = 0
        /\ tr.left > 0
        /\ Become(t, [tr EXCEPT !.hand = 1, !.left = @ - 1], 1, 0)

HasRoom(tr) == Len(tr.channel) < Depth

\* The send waits for room.  Where the reader is gone it fails, and what was counted is not
\* given back.
PumpSend(t) ==
    LET tr == transfers[t]
    IN  /\ Pumping(t)
        /\ tr.hand = 1
        /\ \/ /\ tr.consumer
              /\ HasRoom(tr)
              /\ Move(t, [tr EXCEPT !.hand = 0, !.channel = Append(@, "ok")])
           \/ /\ ~tr.consumer
              /\ Move(t, [tr EXCEPT !.hand = 0, !.producer = FALSE])

PumpEnd(t) ==
    LET tr == transfers[t]
    IN  /\ Pumping(t)
        /\ tr.hand = 0
        /\ tr.left = 0
        /\ Move(t, [tr EXCEPT !.producer = FALSE])

\* Mutant of PumpBroken: the pump just ends.
PumpBrokenSilently(t) ==
    LET tr == transfers[t]
    IN  /\ Pumping(t)
        /\ tr.hand = 0
        /\ tr.left > 0
        /\ Move(t, [tr EXCEPT !.producer = FALSE])

\* The client went away, or sent what is not HTTP.  A body shorter than its Content-Length,
\* which the handler compared with what was announced, is such an error too.
PumpBroken(t) ==
    LET tr == transfers[t]
    IN  /\ Pumping(t)
        /\ tr.hand = 0
        /\ tr.left > 0
        /\ tr.consumer => HasRoom(tr)
        /\ Move(t, [tr EXCEPT !.producer = FALSE,
                              !.channel = IF tr.consumer THEN Append(@, "err") ELSE @])

\* The task is dropped when the server stops, its sender and the request's handler with it:
\* the reader sees the end of a body, not an error, and nobody is told what came of it.
PumpDropped(t) ==
    /\ Pumping(t)
    /\ Move(t, [transfers[t] EXCEPT !.producer = FALSE, !.hand = 0, !.dropped = TRUE])

Reading(t) == t \in Uploads /\ transfers[t].thread = "running"

\* The shelf is done, and the reader is dropped with what is in it.
Over(tr, result) ==
    [tr EXCEPT !.thread = "over", !.consumer = FALSE, !.channel = <<>>, !.current = 0,
               !.result = result]

Receive(t) ==
    LET tr == transfers[t]
    IN  /\ Reading(t)
        /\ tr.current = 0
        /\ tr.channel # <<>>
        /\ Move(t, IF Head(tr.channel) = "err" THEN Over(tr, "refused")
                   ELSE [tr EXCEPT !.current = 1, !.channel = Tail(@)])

Read(t) ==
    LET tr == transfers[t]
    IN  /\ Reading(t)
        /\ tr.current = 1
        /\ Become(t, [tr EXCEPT !.current = 0, !.got = @ + 1], 0, 1)

\* The end of what came: `pump` refuses more than was announced, and never less.  The size is
\* compared when the upload is committed (StagedFile's CheckSize).
EndOfBody(t) ==
    LET tr == transfers[t]
    IN  /\ Reading(t)
        /\ tr.current = 0
        /\ tr.channel = <<>>
        /\ ~tr.producer
        /\ Move(t, Over(tr, "accepted"))

\* The shelf refuses the content before its end: the disk is full, or the upload is over.
ShelfRefuses(t) ==
    /\ Reading(t)
    /\ Move(t, Over(transfers[t], "refused"))

-----------------------------------------------------------------------------
(* stream_out and ReaderBody. *)

Streaming(t) == t \in Transfers \ Uploads /\ transfers[t].thread = "running"

\* A piece is read and counted.
Produce(t) ==
    LET tr == transfers[t]
    IN  /\ Streaming(t)
        /\ ~tr.ended
        /\ tr.hand = 0
        /\ tr.left > 0
        /\ Become(t, [tr EXCEPT !.hand = 1, !.left = @ - 1], 1, 0)

SendOut(t) ==
    LET tr == transfers[t]
    IN  /\ Streaming(t)
        /\ tr.hand = 1
        /\ \/ /\ tr.consumer
              /\ HasRoom(tr)
              /\ Move(t, [tr EXCEPT !.hand = 0, !.channel = Append(@, "ok")])
           \/ /\ ~tr.consumer
              /\ Move(t, [tr EXCEPT !.hand = 0, !.thread = "over", !.producer = FALSE])

\* Mutant of SendError: the error is sent whether anyone receives it or not.
SendErrorRegardless(t) ==
    LET tr == transfers[t]
    IN  /\ Streaming(t)
        /\ tr.hand = 0
        /\ tr.left > 0
        /\ tr.consumer => HasRoom(tr)
        /\ Move(t, [tr EXCEPT !.ended = TRUE,
                              !.channel = IF tr.consumer THEN Append(@, "err") ELSE @])

\* The content ended early, for good, or cannot be read.  The loop goes on, and ends at the
\* first send that nobody receives.
SendError(t) ==
    LET tr == transfers[t]
    IN  /\ Streaming(t)
        /\ tr.hand = 0
        /\ tr.left > 0
        /\ \/ /\ tr.consumer
              /\ HasRoom(tr)
              /\ \E ended \in {tr.ended, TRUE} :
                    Move(t, [tr EXCEPT !.ended = ended, !.channel = Append(@, "err")])
           \/ /\ ~tr.consumer
              /\ Move(t, [tr EXCEPT !.thread = "over", !.producer = FALSE])

EndOfContent(t) ==
    LET tr == transfers[t]
    IN  /\ Streaming(t)
        /\ tr.hand = 0
        /\ tr.left = 0
        /\ Move(t, [tr EXCEPT !.thread = "over", !.producer = FALSE])

\* The connection takes a frame; after an error it is closed.
PollFrame(t) ==
    LET tr == transfers[t]
    IN  /\ t \notin Uploads
        /\ tr.consumer
        /\ tr.channel # <<>>
        /\ IF Head(tr.channel) = "ok"
           THEN Become(t, [tr EXCEPT !.channel = Tail(@), !.got = @ + 1,
                                     !.result = IF tr.got + 1 = Pieces THEN "sent" ELSE @], 0, 1)
           ELSE Move(t, [tr EXCEPT !.channel = <<>>, !.consumer = FALSE, !.result = "broken"])

ReaderLeaves(t) ==
    LET tr == transfers[t]
    IN  /\ t \notin Uploads
        /\ tr.thread # "none"
        /\ tr.consumer
        /\ Move(t, [tr EXCEPT !.channel = <<>>, !.consumer = FALSE])

-----------------------------------------------------------------------------
\* The server's own steps; the client's are PumpFrame, PumpBroken, PollFrame, ClientLeaves.
ServeTransfer(t) ==
    \/ GetThread(t)
    \/ PumpSend(t) \/ PumpEnd(t) \/ Receive(t) \/ Read(t) \/ EndOfBody(t)
    \/ Produce(t) \/ SendOut(t) \/ SendError(t) \/ EndOfContent(t)

BridgeNext ==
    \E t \in Transfers :
        \/ TransferArrives(t) \/ ServeTransfer(t) \/ PumpFrame(t) \/ PumpBroken(t) \/ PumpDropped(t)
        \/ ShelfRefuses(t) \/ PollFrame(t) \/ ReaderLeaves(t)

BridgeSpec == BridgeInit /\ [][BridgeNext]_bridge

\* The pool's threads and the tasks run; a lively client sends its frames and takes its own.
BridgeFairness ==
    /\ \A t \in Transfers : WF_bridge(ServeTransfer(t))
    /\ \A t \in Lively : WF_bridge(PumpFrame(t)) /\ WF_bridge(PollFrame(t))

-----------------------------------------------------------------------------
(* Properties. *)

\* A client that is told its content was taken sent all of it, and all of it was read: the
\* shelf takes whatever came (`pump`), so a body cut short has to reach it as an error, behind
\* what is still in the channel (read_body, BodyReader).  A pump that a stopping server drops
\* does end a body early; there is no answer then, and the commit compares the size.
AcceptedIsWhole ==
    \A t \in Uploads : transfers[t].result = "accepted" /\ ~transfers[t].dropped
                            => transfers[t].got = Pieces

\* What a transfer holds is bounded whatever the item's size and however slow either side
\* is: the channel, one piece waiting to be sent, and one being read.
HoldsLittle == \A t \in Transfers : PiecesOf(transfers[t]) =< Depth + 2

\* A transfer whose client keeps up comes to its end and gives its thread back, although it
\* waits for a thread of the pool that all transfers share (AppState's blocking), with others
\* stalled, gone or broken beside it.  It holds while fewer clients stall than there are
\* threads: one that stalls keeps its thread.
LivelyEnds ==
    BridgeFairness => \A t \in Lively : transfers[t].thread = "queued" ~> transfers[t].thread = "over"

\* bridge.rs: "a slow client slows only its own transfer".  A download whose client keeps
\* reading comes to its end, however many others stall.
SlowOnlyItself ==
    BridgeFairness => \A t \in Lively \ Uploads : transfers[t].thread = "queued" ~>
                                   transfers[t].thread = "over" \/ ~transfers[t].consumer

\* bridge.rs: "what is in flight is at most [`DEPTH`] pieces".
AtMostDepth == \A t \in Transfers : PiecesOf(transfers[t]) =< Depth

\* bridge.rs, BridgeStats: "What the bridge holds".
HeldIsReal == held = Cardinality(AllInFlight)

=============================================================================
