---------------------------- MODULE ServerProofs ----------------------------
(***************************************************************************)
(* Theorems about the running server, for every value of the constants: the *)
(* bridges of its transfers, the ranges of contents it answers, its limiter *)
(* of failed authentications, and its stop.                                 *)
(***************************************************************************)
EXTENDS Serving, Bridge, ContentRange, RateLimiter, SequenceTheorems, FiniteSetTheorems,
        WellFoundedInduction, TLAPS

(* Bodies. *)

Transfer ==
    [thread : {"none", "queued", "running", "over"}, left : Nat, hand : {0, 1},
     channel : Seq({"ok", "err"}), current : {0, 1}, got : Nat, ended : BOOLEAN,
     producer : BOOLEAN, consumer : BOOLEAN, dropped : BOOLEAN,
     result : {"none", "accepted", "refused", "sent", "broken"}]

\* The channel never holds more than it may.
Fits(tr) == tr \in Transfer /\ Len(tr.channel) =< Depth

\* An error is on its way to the reader.
Warned(channel) == \E n \in DOMAIN channel : channel[n] = "err"

\* While the shelf reads an upload nothing of it is lost, unless an error comes behind what is
\* still there; and a pump that ended without one had nothing left.
AllOf(tr) == tr.left + tr.hand + Len(tr.channel) + tr.current + tr.got

Conserved(tr) ==
    /\ tr.consumer
    /\ tr.producer => ~Warned(tr.channel)
    /\ ~Warned(tr.channel) => AllOf(tr) = Pieces
    /\ ~tr.producer /\ ~Warned(tr.channel) => tr.left = 0 /\ tr.hand = 0

\* An upload that was not dropped keeps its pieces until it is over, and is accepted with all
\* of them.
Careful(tr) ==
    /\ tr.result = "accepted" => tr.thread = "over"
    /\ tr.result = "accepted" /\ ~tr.dropped => tr.got = Pieces
    /\ tr.thread # "over" /\ ~tr.dropped => Conserved(tr)

InOrder(t, tr) == Fits(tr) /\ (t \in Uploads => Careful(tr))

BridgeInv == transfers \in [Transfers -> Transfer] /\ \A t \in Transfers : InOrder(t, transfers[t])

\* A step moves one transfer, and leaves the others in order.
LEMMA TransferMoves ==
    ASSUME BridgeInv, NEW t \in Transfers, NEW tr, InOrder(t, tr), NEW took, NEW gave,
           Become(t, tr, took, gave)
    PROVE  BridgeInv'
<1>1. transfers' = [transfers EXCEPT ![t] = tr]
  BY DEF Become
<1>2. QED
  BY <1>1 DEF BridgeInv, InOrder, Fits

\* A piece is put into a channel with room, or taken out.
LEMMA ChannelMoves ==
    ASSUME NEW channel \in Seq({"ok", "err"}), NEW piece \in {"ok", "err"}
    PROVE  /\ <<>> \in Seq({"ok", "err"}) /\ Len(<<>>) = 0 /\ Len(channel) \in Nat
           /\ Append(channel, piece) \in Seq({"ok", "err"})
           /\ Len(Append(channel, piece)) = Len(channel) + 1
           /\ channel # <<>> => /\ Head(channel) \in {"ok", "err"}
                                /\ Tail(channel) \in Seq({"ok", "err"})
                                /\ Len(Tail(channel)) = Len(channel) - 1
  OBVIOUS

\* What is in a channel after a piece or an error is put in, or a piece is taken out.
LEMMA WarningsMove ==
    ASSUME NEW channel \in Seq({"ok", "err"})
    PROVE  /\ ~Warned(<<>>)
           /\ Warned(Append(channel, "ok")) <=> Warned(channel)
           /\ Warned(Append(channel, "err"))
           /\ channel # <<>> /\ Head(channel) = "ok" => (Warned(Tail(channel)) <=> Warned(channel))
<1>1. ~Warned(<<>>)
  BY DEF Warned
<1>2. ASSUME NEW piece \in {"ok", "err"}
      PROVE  Warned(Append(channel, piece)) <=> Warned(channel) \/ piece = "err"
  <2> DEFINE more == Append(channel, piece)
             n == Len(channel) + 1
  <2>1. /\ Len(channel) \in Nat /\ DOMAIN channel = 1 .. Len(channel) /\ DOMAIN more = 1 .. n
        /\ more[n] = piece
        /\ \A i \in 1 .. Len(channel) : more[i] = channel[i]
    OBVIOUS
  <2>2. \A i \in 1 .. n : i \in 1 .. Len(channel) \/ i = n
    BY <2>1
  <2>3. n \in 1 .. n /\ \A i \in 1 .. Len(channel) : i \in 1 .. n
    BY <2>1
  <2> HIDE DEF more, n
  <2>4. Warned(more) <=> Warned(channel) \/ piece = "err"
    BY <2>1, <2>2, <2>3 DEF Warned
  <2>5. QED
    BY <2>4 DEF more
<1>3. ASSUME channel # <<>>, Head(channel) = "ok"
      PROVE  Warned(Tail(channel)) <=> Warned(channel)
  <2>1. /\ Len(channel) \in Nat \ {0} /\ DOMAIN channel = 1 .. Len(channel) /\ channel[1] = "ok"
        /\ DOMAIN Tail(channel) = 1 .. (Len(channel) - 1)
        /\ \A n \in 1 .. (Len(channel) - 1) : Tail(channel)[n] = channel[n + 1]
    BY <1>3
  <2>2. ASSUME Warned(Tail(channel)) PROVE Warned(channel)
    BY <2>1, <2>2 DEF Warned
  <2>3. ASSUME Warned(channel) PROVE Warned(Tail(channel))
    <3>1. PICK n \in DOMAIN channel : channel[n] = "err"
      BY <2>3 DEF Warned
    <3>2. n - 1 \in 1 .. (Len(channel) - 1) /\ Tail(channel)[n - 1] = channel[(n - 1) + 1]
      BY <2>1, <3>1
    <3>3. QED
      BY <2>1, <3>1, <3>2 DEF Warned
  <2>4. QED
    BY <2>2, <2>3
<1>4. QED
  BY <1>1, <1>2, <1>3

\* A piece goes one place further.
LEMMA PieceMoves ==
    ASSUME NEW tr, NEW next, Conserved(tr), next.consumer = tr.consumer,
           next.producer = tr.producer, Warned(next.channel) <=> Warned(tr.channel),
           AllOf(next) = AllOf(tr),
           tr.producer \/ (next.left = tr.left /\ next.hand = tr.hand)
    PROVE  Conserved(next)
  BY Zenon DEF Conserved

\* A transfer that has not started is in order.
LEMMA NewTransfer == ASSUME NEW t \in Transfers PROVE InOrder(t, New)
<1>1. New \in Transfer /\ Len(New.channel) = 0 /\ New.channel = <<>>
  BY BridgeAssumption DEF New, Transfer
<1>2. ~Warned(New.channel) /\ Pieces + 0 + 0 + 0 + 0 = Pieces
  BY <1>1, WarningsMove, BridgeAssumption DEF Transfer
<1>3. AllOf(New) = Pieces
  BY <1>1, <1>2, BridgeAssumption DEF AllOf, New
<1>4. Conserved(New)
  BY <1>1, <1>2, <1>3 DEF Conserved, New
<1>5. QED
  BY <1>1, <1>4, BridgeAssumption DEF InOrder, Fits, Careful, New

\* The steps of an upload's pump.
LEMMA PumpSafe ==
    ASSUME BridgeInv, NEW t \in Transfers,
           PumpFrame(t) \/ PumpSend(t) \/ PumpEnd(t) \/ PumpBroken(t) \/ PumpDropped(t)
    PROVE  BridgeInv'
<1> DEFINE tr == transfers[t]
<1>1. Fits(tr) /\ tr \in Transfer /\ Len(tr.channel) \in Nat /\ Depth \in Nat \ {0}
  BY BridgeAssumption DEF BridgeInv, InOrder, Fits, Transfer
<1>2. t \in Uploads /\ tr.producer
  BY DEF PumpFrame, PumpSend, PumpEnd, PumpBroken, PumpDropped, Pumping
<1>3. Careful(tr)
  BY <1>2 DEF BridgeInv, InOrder
<1>0. tr.left \in Nat /\ tr.hand \in Nat /\ tr.current \in Nat /\ tr.got \in Nat
  BY <1>1 DEF Transfer
<1>4. ASSUME NEW next, Fits(next), next.thread = tr.thread, next.result = tr.result,
             next.got = tr.got, next.dropped = tr.dropped,
             tr.thread # "over" /\ ~tr.dropped /\ Conserved(tr) => Conserved(next)
      PROVE  InOrder(t, next)
  BY <1>3, <1>4 DEF InOrder, Careful
<1>5. CASE PumpFrame(t)
  <2> DEFINE left == tr.left - 1
             next == [tr EXCEPT !.hand = 1, !.left = left]
  <2>1. Become(t, next, 1, 0) /\ tr.left > 0 /\ tr.hand = 0
    BY <1>5 DEF PumpFrame
  <2>2. left \in Nat /\ left + 1 = tr.left
    BY <1>1, <2>1 DEF Transfer
  <2> HIDE DEF left
  <2>3. /\ Fits(next) /\ next.hand = 1 /\ next.left = left /\ next.thread = tr.thread
        /\ next.result = tr.result /\ next.got = tr.got /\ next.dropped = tr.dropped
        /\ next.channel = tr.channel /\ next.current = tr.current
        /\ next.producer = tr.producer /\ next.consumer = tr.consumer
    BY <1>1, <2>2 DEF Fits, Transfer
  <2> HIDE DEF next
  <2>4. Conserved(tr) => Conserved(next)
    <3> DEFINE n == Len(tr.channel)
    <3>1. n \in Nat /\ tr.hand = 0
      BY <1>1, <2>1
    <3>2. AllOf(tr) = (left + 1) + 0 + n + tr.current + tr.got
      BY Zenon, <2>2, <3>1 DEF AllOf
    <3>3. AllOf(next) = left + 1 + n + tr.current + tr.got
      BY Zenon, <2>2, <2>3, <3>1 DEF AllOf
    <3>4. AllOf(next) = AllOf(tr)
      BY <1>0, <2>2, <3>1, <3>2, <3>3
    <3>5. QED
      BY <1>2, <2>3, <3>4, PieceMoves
  <2>5. QED
    BY <1>4, <2>1, <2>3, <2>4, TransferMoves
<1>6. CASE PumpSend(t)
  <2>1. CASE HasRoom(tr) /\ Move(t, [tr EXCEPT !.hand = 0, !.channel = Append(@, "ok")])
    <3> DEFINE more == Append(tr.channel, "ok")
               next == [tr EXCEPT !.hand = 0, !.channel = more]
    <3>1. /\ more \in Seq({"ok", "err"}) /\ Len(more) =< Depth /\ Len(more) = Len(tr.channel) + 1
          /\ Warned(more) <=> Warned(tr.channel)
      BY <1>1, <2>1, ChannelMoves, WarningsMove DEF HasRoom, Transfer
    <3> HIDE DEF more
    <3>2. /\ Fits(next) /\ next.hand = 0 /\ next.channel = more /\ next.thread = tr.thread
          /\ next.result = tr.result /\ next.got = tr.got /\ next.dropped = tr.dropped
          /\ next.left = tr.left /\ next.current = tr.current
          /\ next.producer = tr.producer /\ next.consumer = tr.consumer
      BY <1>1, <3>1 DEF Fits, Transfer
    <3>3. Move(t, next)
      BY <2>1 DEF more
    <3>4. tr.hand = 1
      BY <1>6 DEF PumpSend
    <3> HIDE DEF next
    <3>5. Conserved(tr) => Conserved(next)
      <4> DEFINE n == Len(tr.channel)
      <4>1. n \in Nat /\ n + 1 \in Nat /\ Len(next.channel) = n + 1
        BY <1>1, <3>1, <3>2
      <4>2. AllOf(tr) = tr.left + 1 + n + tr.current + tr.got
        BY Zenon, <3>4, <4>1 DEF AllOf
      <4> HIDE DEF n
      <4>3. AllOf(next) = tr.left + 0 + (n + 1) + tr.current + tr.got
        BY Zenon, <3>2, <4>1 DEF AllOf
      <4> DEFINE a == tr.left
                 c == tr.current
                 d == tr.got
      <4>4. a \in Nat /\ c \in Nat /\ d \in Nat
        BY <1>0
      <4> HIDE DEF a, c, d
      <4>5. a + 1 + n + c + d = a + 0 + (n + 1) + c + d
        BY <4>1, <4>4
      <4>6. AllOf(next) = AllOf(tr)
        BY Zenon, <4>2, <4>3, <4>5 DEF a, c, d
      <4>7. QED
        BY <1>2, <3>1, <3>2, <4>6, PieceMoves
    <3>6. QED
      BY <1>4, <3>2, <3>3, <3>5, TransferMoves DEF Move
  <2>2. CASE ~tr.consumer /\ Move(t, [tr EXCEPT !.hand = 0, !.producer = FALSE])
    <3> DEFINE next == [tr EXCEPT !.hand = 0, !.producer = FALSE]
    <3>1. /\ Fits(next) /\ next.thread = tr.thread /\ next.result = tr.result
          /\ next.got = tr.got /\ next.dropped = tr.dropped
      BY <1>1 DEF Fits, Transfer
    <3>2. ~Conserved(tr)
      BY <2>2 DEF Conserved
    <3> HIDE DEF next
    <3>3. InOrder(t, next)
      BY <1>4, <3>1, <3>2
    <3>4. Move(t, next)
      BY <2>2 DEF next
    <3>5. QED
      BY <3>3, <3>4, TransferMoves DEF Move
  <2>3. QED
    BY <1>6, <2>1, <2>2 DEF PumpSend
<1>7. CASE PumpEnd(t)
  <2> DEFINE next == [tr EXCEPT !.producer = FALSE]
  <2>1. /\ Fits(next) /\ next.hand = tr.hand /\ next.channel = tr.channel /\ next.thread = tr.thread
        /\ next.result = tr.result /\ next.got = tr.got /\ next.dropped = tr.dropped
        /\ next.left = tr.left /\ next.current = tr.current /\ next.consumer = tr.consumer
        /\ ~next.producer
    BY <1>1 DEF Fits, Transfer
  <2>2. Move(t, next) /\ tr.hand = 0 /\ tr.left = 0
    BY <1>7 DEF PumpEnd
  <2> HIDE DEF next
  <2>3. Conserved(tr) => Conserved(next)
    BY <2>1, <2>2 DEF Conserved, AllOf
  <2>4. QED
    BY <1>4, <2>1, <2>2, <2>3, TransferMoves DEF Move
<1>8. CASE PumpBroken(t)
  <2> DEFINE channel == IF tr.consumer THEN Append(tr.channel, "err") ELSE tr.channel
             next == [tr EXCEPT !.producer = FALSE, !.channel = channel]
  <2>1. Become(t, next, 0, 0) /\ (tr.consumer => HasRoom(tr))
    BY <1>8 DEF PumpBroken, Move
  <2>2. /\ channel \in Seq({"ok", "err"}) /\ Len(channel) =< Depth
        /\ tr.consumer => Warned(channel)
    BY <1>1, <2>1, ChannelMoves, WarningsMove DEF HasRoom, Fits, Transfer
  <2> HIDE DEF channel
  <2>3. /\ Fits(next) /\ next.thread = tr.thread /\ next.result = tr.result /\ next.got = tr.got
        /\ next.dropped = tr.dropped /\ next.consumer = tr.consumer /\ next.channel = channel
        /\ ~next.producer
    BY <1>1, <2>2 DEF Fits, Transfer
  <2> HIDE DEF next
  <2>4. Conserved(tr) => Conserved(next)
    BY <2>2, <2>3 DEF Conserved
  <2>5. QED
    BY <1>4, <2>1, <2>3, <2>4, TransferMoves
<1>9. CASE PumpDropped(t)
  <2> DEFINE next == [tr EXCEPT !.producer = FALSE, !.hand = 0, !.dropped = TRUE]
  <2>1. Fits(next) /\ next.thread = tr.thread /\ next.result = tr.result /\ next.dropped
    BY <1>1 DEF Fits, Transfer
  <2>2. Move(t, next)
    BY <1>9 DEF PumpDropped
  <2> HIDE DEF next
  <2>3. InOrder(t, next)
    BY <1>3, <2>1 DEF InOrder, Careful
  <2>4. QED
    BY <2>2, <2>3, TransferMoves DEF Move
<1>10. QED
  BY <1>5, <1>6, <1>7, <1>8, <1>9

\* The steps of its reader.
LEMMA ReaderSafe ==
    ASSUME BridgeInv, NEW t \in Transfers, Receive(t) \/ Read(t) \/ EndOfBody(t) \/ ShelfRefuses(t)
    PROVE  BridgeInv'
<1> DEFINE tr == transfers[t]
<1>1. Fits(tr) /\ tr \in Transfer /\ Len(tr.channel) \in Nat /\ Depth \in Nat \ {0}
  BY BridgeAssumption DEF BridgeInv, InOrder, Fits, Transfer
<1>2. t \in Uploads /\ tr.thread = "running"
  BY DEF Receive, Read, EndOfBody, ShelfRefuses, Reading
<1>3. tr.result # "accepted" /\ (~tr.dropped => Conserved(tr))
  BY <1>2 DEF BridgeInv, InOrder, Careful
<1>0. tr.left \in Nat /\ tr.hand \in Nat /\ tr.current \in Nat /\ tr.got \in Nat
  BY <1>1 DEF Transfer
<1>4. ASSUME NEW result \in {"accepted", "refused"},
             result = "accepted" /\ ~tr.dropped => tr.got = Pieces
      PROVE  InOrder(t, Over(tr, result))
  <2> DEFINE first == [tr EXCEPT !.thread = "over", !.consumer = FALSE, !.channel = <<>>]
             next == [first EXCEPT !.current = 0, !.result = result]
  <2>1. <<>> \in Seq({"ok", "err"}) /\ Len(<<>>) =< Depth
    BY <1>1
  <2>2. /\ first \in Transfer /\ first.thread = "over" /\ first.got = tr.got
        /\ first.channel = <<>> /\ first.dropped = tr.dropped
    BY <1>1, <2>1 DEF Transfer
  <2>3. Over(tr, result) = next
    BY DEF Over
  <2> HIDE DEF first
  <2>4. /\ next \in Transfer /\ next.thread = "over" /\ next.got = tr.got /\ next.channel = <<>>
        /\ next.result = result /\ next.dropped = tr.dropped
    BY <2>2 DEF Transfer
  <2> HIDE DEF next
  <2>5. QED
    BY <1>4, <2>1, <2>3, <2>4 DEF InOrder, Fits, Careful
<1>5. CASE Receive(t)
  <2>1. CASE Move(t, Over(tr, "refused"))
    BY <1>4, <2>1, TransferMoves DEF Move
  <2>2. CASE /\ Move(t, [tr EXCEPT !.current = 1, !.channel = Tail(@)])
             /\ tr.channel # <<>> /\ Head(tr.channel) # "err"
    <3> DEFINE rest == Tail(tr.channel)
               next == [tr EXCEPT !.current = 1, !.channel = rest]
    <3>1. Head(tr.channel) = "ok"
      BY <1>1, <2>2, ChannelMoves DEF Transfer
    <3>2. /\ rest \in Seq({"ok", "err"}) /\ Len(rest) =< Depth /\ Len(rest) = Len(tr.channel) - 1
          /\ Warned(rest) <=> Warned(tr.channel)
      BY <1>1, <2>2, <3>1, ChannelMoves, WarningsMove DEF Fits, Transfer
    <3> HIDE DEF rest
    <3>3. /\ Fits(next) /\ next.hand = tr.hand /\ next.channel = rest /\ next.thread = tr.thread
          /\ next.result = tr.result /\ next.got = tr.got /\ next.dropped = tr.dropped
          /\ next.left = tr.left /\ next.current = 1
          /\ next.producer = tr.producer /\ next.consumer = tr.consumer
      BY <1>1, <3>2 DEF Fits, Transfer
    <3>4. Move(t, next) /\ tr.current = 0
      BY <1>5, <2>2 DEF rest, Receive
    <3> HIDE DEF next
    <3>5. Conserved(tr) => Conserved(next)
      <4> DEFINE n == Len(rest)
      <4>1. n \in Nat /\ n + 1 \in Nat /\ Len(tr.channel) = n + 1
        BY <1>1, <3>2
      <4>2. AllOf(next) = tr.left + tr.hand + n + 1 + tr.got
        BY Zenon, <3>3, <4>1 DEF AllOf
      <4> HIDE DEF n
      <4>3. AllOf(tr) = tr.left + tr.hand + (n + 1) + 0 + tr.got
        BY Zenon, <3>4, <4>1 DEF AllOf
      <4> DEFINE a == tr.left
                 b == tr.hand
                 d == tr.got
      <4>4. a \in Nat /\ b \in Nat /\ d \in Nat
        BY <1>0
      <4> HIDE DEF a, b, d
      <4>5. a + b + (n + 1) + 0 + d = a + b + n + 1 + d
        BY <4>1, <4>4
      <4>6. AllOf(next) = AllOf(tr)
        BY Zenon, <4>2, <4>3, <4>5 DEF a, b, d
      <4>7. QED
        BY <3>2, <3>3, <4>6, PieceMoves
    <3>6. InOrder(t, next)
      BY <1>3, <3>3, <3>5 DEF InOrder, Careful
    <3>7. QED
      BY <3>4, <3>6, TransferMoves DEF Move
  <2>3. QED
    BY <1>5, <2>1, <2>2 DEF Receive
<1>6. CASE Read(t)
  <2> DEFINE got == tr.got + 1
             next == [tr EXCEPT !.current = 0, !.got = got]
  <2>1. got \in Nat /\ got = tr.got + 1
    BY <1>1 DEF Transfer
  <2>2. Become(t, next, 0, 1) /\ tr.current = 1
    BY <1>6 DEF Read
  <2> HIDE DEF got
  <2>3. /\ Fits(next) /\ next.hand = tr.hand /\ next.channel = tr.channel /\ next.thread = tr.thread
        /\ next.result = tr.result /\ next.got = got /\ next.dropped = tr.dropped
        /\ next.left = tr.left /\ next.current = 0
        /\ next.producer = tr.producer /\ next.consumer = tr.consumer
    BY <1>1, <2>1 DEF Fits, Transfer
  <2> HIDE DEF next
  <2>4. Conserved(tr) => Conserved(next)
    <3> DEFINE n == Len(tr.channel)
    <3>1. n \in Nat /\ tr.current = 1
      BY <1>1, <2>2
    <3>2. AllOf(tr) = tr.left + tr.hand + n + 1 + tr.got
      BY Zenon, <3>1 DEF AllOf
    <3>3. AllOf(next) = tr.left + tr.hand + n + 0 + (tr.got + 1)
      BY Zenon, <2>1, <2>3, <3>1 DEF AllOf
    <3> DEFINE a == tr.left
               b == tr.hand
               d == tr.got
    <3>4. a \in Nat /\ b \in Nat /\ d \in Nat
      BY <1>0
    <3> HIDE DEF n, a, b, d
    <3>5. a + b + n + 1 + d = a + b + n + 0 + (d + 1)
      BY <3>1, <3>4
    <3>6. AllOf(next) = AllOf(tr)
      BY Zenon, <3>2, <3>3, <3>5 DEF a, b, d
    <3>7. QED
      BY <2>3, <3>6, PieceMoves
  <2>5. InOrder(t, next)
    BY <1>3, <2>3, <2>4 DEF InOrder, Careful
  <2>6. QED
    BY <2>2, <2>5, TransferMoves
<1>7. CASE EndOfBody(t)
  <2>1. Move(t, Over(tr, "accepted")) /\ tr.current = 0 /\ tr.channel = <<>> /\ ~tr.producer
    BY <1>7 DEF EndOfBody
  <2>2. ~Warned(tr.channel) /\ Len(tr.channel) = 0
    BY <1>1, <2>1, WarningsMove DEF Transfer
  <2>3. ~tr.dropped => tr.got = Pieces
    <3>1. ASSUME ~tr.dropped PROVE AllOf(tr) = Pieces /\ tr.left = 0 /\ tr.hand = 0
      BY <1>3, <2>1, <2>2, <3>1 DEF Conserved
    <3>2. QED
      BY <1>0, <2>1, <2>2, <3>1 DEF AllOf
  <2>4. QED
    BY <1>4, <2>1, <2>3, TransferMoves DEF Move
<1>8. CASE ShelfRefuses(t)
  BY <1>4, <1>8, TransferMoves DEF Move, ShelfRefuses
<1>9. QED
  BY <1>5, <1>6, <1>7, <1>8

\* The steps of a download.
LEMMA StreamSafe ==
    ASSUME BridgeInv, NEW t \in Transfers,
           Produce(t) \/ SendOut(t) \/ SendError(t) \/ EndOfContent(t) \/ PollFrame(t) \/ ReaderLeaves(t)
    PROVE  BridgeInv'
<1> DEFINE tr == transfers[t]
<1>1. Fits(tr) /\ tr \in Transfer /\ Len(tr.channel) \in Nat /\ Depth \in Nat \ {0}
  BY BridgeAssumption DEF BridgeInv, InOrder, Fits, Transfer
<1>2. t \notin Uploads
  BY DEF Produce, SendOut, SendError, EndOfContent, PollFrame, ReaderLeaves, Streaming
<1>3. CASE Produce(t)
  <2> DEFINE left == tr.left - 1
             next == [tr EXCEPT !.hand = 1, !.left = left]
  <2>1. Become(t, next, 1, 0) /\ tr.left > 0
    BY <1>3 DEF Produce
  <2>2. left \in Nat
    BY <1>1, <2>1 DEF Transfer
  <2> HIDE DEF left
  <2>3. InOrder(t, next)
    BY <1>1, <1>2, <2>2 DEF InOrder, Fits, Transfer
  <2>4. QED
    BY <2>1, <2>3, TransferMoves
<1>4. CASE SendOut(t)
  <2>1. CASE HasRoom(tr) /\ Move(t, [tr EXCEPT !.hand = 0, !.channel = Append(@, "ok")])
    <3> DEFINE next == [tr EXCEPT !.hand = 0, !.channel = Append(@, "ok")]
    <3>1. Append(tr.channel, "ok") \in Seq({"ok", "err"}) /\ Len(Append(tr.channel, "ok")) =< Depth
      BY <1>1, <2>1, ChannelMoves DEF HasRoom, Transfer
    <3>2. InOrder(t, next)
      BY <1>1, <1>2, <3>1 DEF InOrder, Fits, Transfer
    <3>3. QED
      BY <2>1, <3>2, TransferMoves DEF Move
  <2>2. CASE Move(t, [tr EXCEPT !.hand = 0, !.thread = "over", !.producer = FALSE])
    <3> DEFINE next == [tr EXCEPT !.hand = 0, !.thread = "over", !.producer = FALSE]
    <3>1. InOrder(t, next)
      BY <1>1, <1>2 DEF InOrder, Fits, Transfer
    <3>2. QED
      BY <2>2, <3>1, TransferMoves DEF Move
  <2>3. QED
    BY <1>4, <2>1, <2>2 DEF SendOut
<1>5. CASE SendError(t)
  <2>1. ASSUME HasRoom(tr), NEW ended \in {tr.ended, TRUE},
               Move(t, [tr EXCEPT !.ended = ended, !.channel = Append(@, "err")])
        PROVE  BridgeInv'
    <3> DEFINE next == [tr EXCEPT !.ended = ended, !.channel = Append(@, "err")]
    <3>1. Append(tr.channel, "err") \in Seq({"ok", "err"}) /\ Len(Append(tr.channel, "err")) =< Depth
      BY <1>1, <2>1, ChannelMoves DEF HasRoom, Transfer
    <3>0. ended \in BOOLEAN
      BY <1>1 DEF Transfer
    <3>2. InOrder(t, next)
      BY <1>1, <1>2, <3>0, <3>1 DEF InOrder, Fits, Transfer
    <3>3. QED
      BY <2>1, <3>2, TransferMoves DEF Move
  <2>2. CASE Move(t, [tr EXCEPT !.thread = "over", !.producer = FALSE])
    <3> DEFINE next == [tr EXCEPT !.thread = "over", !.producer = FALSE]
    <3>1. InOrder(t, next)
      BY <1>1, <1>2 DEF InOrder, Fits, Transfer
    <3>2. QED
      BY <2>2, <3>1, TransferMoves DEF Move
  <2>3. QED
    BY <1>5, <2>1, <2>2 DEF SendError
<1>6. CASE EndOfContent(t)
  <2> DEFINE next == [tr EXCEPT !.thread = "over", !.producer = FALSE]
  <2>1. InOrder(t, next)
    BY <1>1, <1>2 DEF InOrder, Fits, Transfer
  <2>2. QED
    BY <1>6, <2>1, TransferMoves DEF Move, EndOfContent
<1>7. CASE PollFrame(t)
  <2>1. CASE Head(tr.channel) = "ok"
    <3> DEFINE result == IF tr.got + 1 = Pieces THEN "sent" ELSE tr.result
               got == tr.got + 1
               next == [tr EXCEPT !.channel = Tail(@), !.got = got, !.result = result]
    <3>1. Become(t, next, 0, 1) /\ tr.channel # <<>>
      BY <1>7, <2>1 DEF PollFrame
    <3>2. Tail(tr.channel) \in Seq({"ok", "err"}) /\ Len(Tail(tr.channel)) =< Depth
      BY <1>1, <3>1, ChannelMoves DEF InOrder, Fits, Transfer
    <3>3. result \in {"none", "accepted", "refused", "sent", "broken"} /\ got \in Nat
      BY <1>1 DEF Transfer
    <3> HIDE DEF result, got
    <3>4. InOrder(t, next)
      BY <1>1, <1>2, <3>2, <3>3 DEF InOrder, Fits, Transfer
    <3>5. QED
      BY <3>1, <3>4, TransferMoves
  <2>2. CASE Head(tr.channel) # "ok"
    <3> DEFINE next == [tr EXCEPT !.channel = <<>>, !.consumer = FALSE, !.result = "broken"]
    <3>0. <<>> \in Seq({"ok", "err"}) /\ Len(<<>>) =< Depth
      BY <1>1
    <3>1. InOrder(t, next)
      BY <1>1, <1>2, <3>0 DEF InOrder, Fits, Transfer
    <3>2. QED
      BY <1>7, <2>2, <3>1, TransferMoves DEF Move, PollFrame
  <2>3. QED
    BY <2>1, <2>2
<1>8. CASE ReaderLeaves(t)
  <2> DEFINE next == [tr EXCEPT !.channel = <<>>, !.consumer = FALSE]
  <2>0. <<>> \in Seq({"ok", "err"}) /\ Len(<<>>) =< Depth
    BY <1>1
  <2>1. InOrder(t, next)
    BY <1>1, <1>2, <2>0 DEF InOrder, Fits, Transfer
  <2>2. QED
    BY <1>8, <2>1, TransferMoves DEF Move, ReaderLeaves
<1>9. QED
  BY <1>3, <1>4, <1>5, <1>6, <1>7, <1>8

\* Every step keeps BridgeInv.
LEMMA StepBridge ==
    ASSUME BridgeInv, [BridgeNext]_bridge
    PROVE  BridgeInv'
<1>1. CASE UNCHANGED bridge
  BY <1>1 DEF bridge, BridgeInv
<1>2. ASSUME NEW t \in Transfers, TransferArrives(t) \/ GetThread(t)
      PROVE  BridgeInv'
  <2> DEFINE tr == transfers[t]
  <2>1. InOrder(t, tr) /\ tr.thread # "over"
    BY <1>2 DEF BridgeInv, TransferArrives, GetThread
  <2>2. PICK thread \in {"queued", "running"} : Move(t, [tr EXCEPT !.thread = thread])
    BY <1>2 DEF TransferArrives, GetThread
  <2> DEFINE next == [tr EXCEPT !.thread = thread]
  <2>3. /\ Fits(next) /\ next.hand = tr.hand /\ next.channel = tr.channel /\ next.thread # "over"
        /\ next.result = tr.result /\ next.got = tr.got /\ next.dropped = tr.dropped
        /\ next.left = tr.left /\ next.current = tr.current
        /\ next.producer = tr.producer /\ next.consumer = tr.consumer
    BY <2>1 DEF InOrder, Fits, Transfer
  <2>4. Move(t, next)
    BY <2>2
  <2> HIDE DEF next
  <2>5. Conserved(tr) => Conserved(next)
    BY <2>3 DEF Conserved, AllOf
  <2>6. InOrder(t, next)
    BY <2>1, <2>3, <2>5 DEF InOrder, Careful
  <2>7. QED
    BY <2>4, <2>6, TransferMoves DEF Move
<1>3. QED
  BY <1>1, <1>2, PumpSafe, ReaderSafe, StreamSafe DEF BridgeNext, ServeTransfer

\* AcceptedIsWhole: a client that is told its content was taken sent all of it, and the shelf
\* read all of it, unless a stopping server dropped the task that fills the channel, although
\* the shelf takes whatever comes before the end (BodyReader, pump).
THEOREM AcceptedBodiesAreWhole == BridgeSpec => []AcceptedIsWhole
<1>1. BridgeInit => BridgeInv
  BY NewTransfer DEF BridgeInit, BridgeInv, InOrder, Fits
<1>2. BridgeInv /\ [BridgeNext]_bridge => BridgeInv'
  BY StepBridge
<1>3. BridgeInv => AcceptedIsWhole
  BY BridgeAssumption DEF BridgeInv, InOrder, Careful, AcceptedIsWhole
<1>4. QED
  BY <1>1, <1>2, <1>3, PTL DEF BridgeSpec

\* HoldsLittle: whatever the size of a body and whoever is slow, a transfer holds DEPTH pieces
\* and two more (bridge.rs).
THEOREM TransfersHoldLittle == BridgeSpec => []HoldsLittle
<1>1. BridgeInit => BridgeInv
  BY NewTransfer DEF BridgeInit, BridgeInv, InOrder, Fits
<1>2. BridgeInv /\ [BridgeNext]_bridge => BridgeInv'
  BY StepBridge
<1>3. BridgeInv => HoldsLittle
  <2> SUFFICES ASSUME BridgeInv, NEW t \in Transfers PROVE PiecesOf(transfers[t]) =< Depth + 2
    BY DEF HoldsLittle
  <2> DEFINE tr == transfers[t]
  <2>1. /\ tr.channel \in Seq({"ok", "err"}) /\ Len(tr.channel) =< Depth
        /\ tr.hand \in {0, 1} /\ tr.current \in {0, 1} /\ Depth \in Nat
    BY BridgeAssumption DEF BridgeInv, InOrder, Fits, Transfer
  <2> DEFINE ok == {n \in DOMAIN tr.channel : tr.channel[n] = "ok"}
             n == Len(tr.channel)
  <2>2. n \in Nat /\ DOMAIN tr.channel = 1 .. n
    BY <2>1
  <2>3. IsFiniteSet(1 .. n) /\ Cardinality(1 .. n) = n
    BY <2>2, FS_Interval
  <2>4. Cardinality(ok) =< n /\ Cardinality(ok) \in Nat
    BY <2>2, <2>3, FS_Subset, FS_CardinalityType
  <2>5. OkIn(tr.channel) = Cardinality(ok)
    BY DEF OkIn
  <2> HIDE DEF ok
  <2>6. QED
    BY <2>1, <2>2, <2>4, <2>5 DEF PiecesOf
<1>4. QED
  BY <1>1, <1>2, <1>3, PTL DEF BridgeSpec

-----------------------------------------------------------------------------
(* Ranges of contents. *)

\* What a header comes to, as the bytes it selects.
Means(h, size, r) ==
    \/ r = Whole /\ \A o \in 0 .. MaxSize : Selects(h, size, o) <=> o < size
    \/ r = Beyond /\ \A o \in 0 .. MaxSize : ~Selects(h, size, o)
    \/ /\ r.kind = "part" /\ r.first =< r.last /\ r.last < size
       /\ \A o \in 0 .. MaxSize : Selects(h, size, o) <=> r.first =< o /\ o =< r.last

Ranges == [kind : {"whole", "beyond", "part"}, first : 0 .. MaxSize, last : 0 .. MaxSize]

\* The reading of a header is its meaning (one_range).
LEMMA OneRangeMeans ==
    ASSUME NEW h \in Header, NEW size \in 0 .. MaxSize
    PROVE  OneRange(h, size) \in Ranges /\ Means(h, size, OneRange(h, size))
<1> DEFINE end == Less(size, 1)
           r == OneRange(h, size)
           both == IsNumber(h.first) /\ IsNumber(h.last) /\ h.first <= h.last
           from == IsNumber(h.first) /\ h.last = Empty
           suffix == h.first = Empty /\ IsNumber(h.last) /\ h.last > 0
<1>0. MaxSize \in Nat /\ size \in Nat /\ Empty = MaxSize + 1 /\ Junk = MaxSize + 2
  BY RangeAssumption DEF Empty, Junk
<1>1. /\ h.first \in 0 .. MaxSize + 2 /\ h.last \in 0 .. MaxSize + 2
      /\ h.form \in {"other", "range"}
      /\ h.form = "other" => h.first = Empty /\ h.last = Empty
  BY <1>0 DEF Header, Part
<1>2. end \in 0 .. MaxSize /\ (size > 0 => end = size - 1)
  BY <1>0 DEF Less
<1>3. Whole \in Ranges /\ Beyond \in Ranges /\ Whole # Beyond /\ Whole.kind = "whole"
  BY <1>0 DEF Whole, Beyond, Ranges
<1>4. CASE h.form = "other" \/ ~(both \/ from \/ suffix)
  <2>1. r = Whole
    BY <1>4 DEF OneRange
  <2>2. ~IsRange(h)
    BY <1>4 DEF IsRange
  <2>3. \A o \in 0 .. MaxSize : Selects(h, size, o) <=> o < size
    BY <2>2 DEF Selects
  <2>4. QED
    BY <1>3, <2>1, <2>3 DEF Means
<1>5. CASE h.form = "range" /\ both
  <2> DEFINE last == Min({h.last, end})
             part == [kind |-> "part", first |-> h.first, last |-> last]
  <2>1. h.first \in 0 .. MaxSize /\ h.last \in 0 .. MaxSize /\ h.first <= h.last /\ IsRange(h)
    BY <1>0, <1>1, <1>5 DEF IsNumber, IsRange
  <2>2. last \in 0 .. MaxSize /\ last = IF h.last =< end THEN h.last ELSE end
    <3>1. \E x \in {h.last, end} : \A y \in {h.last, end} : x =< y
      BY <1>0, <1>2, <2>1
    <3>2. last \in {h.last, end} /\ \A y \in {h.last, end} : last =< y
      BY <3>1 DEF Min
    <3> HIDE DEF last, end
    <3>3. QED
      BY <1>0, <1>2, <2>1, <3>2
  <2>3. ~from /\ ~suffix
    BY <1>0, <2>1 DEF IsNumber
  <2>4. r = IF part = Whole THEN Whole ELSE IF size = 0 \/ part.first >= size THEN Beyond ELSE part
    BY <1>5, <2>3 DEF OneRange
  <2> HIDE DEF last, end, r
  <2>5. part # Whole /\ part \in Ranges /\ part.first = h.first /\ part.last = last /\ part.kind = "part"
    BY <1>3, <2>1, <2>2 DEF Ranges
  <2> HIDE DEF part
  <2>6. \A o \in 0 .. MaxSize : Selects(h, size, o) <=> o < size /\ h.first =< o /\ o =< h.last
    BY <1>0, <2>1 DEF Selects, IsNumber
  <2>7. CASE size = 0 \/ h.first >= size
    <3>1. r = Beyond
      BY <2>4, <2>5, <2>7
    <3>2. \A o \in 0 .. MaxSize : ~Selects(h, size, o)
      BY <1>0, <2>1, <2>6, <2>7
    <3>3. QED
      BY <1>3, <3>1, <3>2 DEF Means, r
  <2>8. CASE ~(size = 0 \/ h.first >= size)
    <3>1. r = part
      BY <2>4, <2>5, <2>8
    <3>2. h.first =< last /\ last < size
      BY <1>0, <1>2, <2>1, <2>2, <2>8
    <3>3. \A o \in 0 .. MaxSize : Selects(h, size, o) <=> h.first =< o /\ o =< last
      BY <1>0, <1>2, <2>1, <2>2, <2>6, <2>8
    <3>4. QED
      BY <2>5, <3>1, <3>2, <3>3 DEF Means, r
  <2>9. QED
    BY <2>7, <2>8
<1>6. CASE h.form = "range" /\ from
  <2> DEFINE part == [kind |-> "part", first |-> h.first, last |-> end]
  <2>1. h.first \in 0 .. MaxSize /\ h.last = Empty /\ IsRange(h) /\ ~IsNumber(h.last)
    BY <1>0, <1>1, <1>6 DEF IsNumber, IsRange
  <2>2. ~both /\ ~suffix
    BY <1>0, <2>1 DEF IsNumber
  <2>3. r = IF part = Whole THEN Whole ELSE IF size = 0 \/ part.first >= size THEN Beyond ELSE part
    BY <1>6, <2>2 DEF OneRange
  <2> HIDE DEF end, r
  <2>4. part # Whole /\ part \in Ranges /\ part.first = h.first /\ part.last = end /\ part.kind = "part"
    BY <1>2, <1>3, <2>1 DEF Ranges
  <2> HIDE DEF part
  <2>5. \A o \in 0 .. MaxSize : Selects(h, size, o) <=> o < size /\ h.first =< o
    BY <1>0, <2>1 DEF Selects, IsNumber
  <2>6. CASE size = 0 \/ h.first >= size
    <3>1. r = Beyond
      BY <2>3, <2>4, <2>6
    <3>2. \A o \in 0 .. MaxSize : ~Selects(h, size, o)
      BY <1>0, <2>1, <2>5, <2>6
    <3>3. QED
      BY <1>3, <3>1, <3>2 DEF Means, r
  <2>7. CASE ~(size = 0 \/ h.first >= size)
    <3>1. r = part
      BY <2>3, <2>4, <2>7
    <3>2. h.first =< end /\ end < size
      BY <1>0, <1>2, <2>1, <2>7
    <3>3. \A o \in 0 .. MaxSize : Selects(h, size, o) <=> h.first =< o /\ o =< end
      BY <1>0, <1>2, <2>1, <2>5, <2>7
    <3>4. QED
      BY <2>4, <3>1, <3>2, <3>3 DEF Means, r
  <2>8. QED
    BY <2>6, <2>7
<1>7. CASE h.form = "range" /\ suffix
  <2> DEFINE first == Less(size, h.last)
             part == [kind |-> "part", first |-> first, last |-> end]
  <2>1. h.first = Empty /\ h.last \in 1 .. MaxSize /\ IsRange(h) /\ ~IsNumber(h.first)
    BY <1>0, <1>1, <1>7 DEF IsNumber, IsRange
  <2>2. ~both /\ ~from
    BY <1>0, <2>1 DEF IsNumber
  <2>3. r = IF part = Whole THEN Whole ELSE IF size = 0 \/ part.first >= size THEN Beyond ELSE part
    BY <1>7, <2>2 DEF OneRange
  <2>4. first \in 0 .. MaxSize /\ first = IF size > h.last THEN size - h.last ELSE 0
    BY <1>0, <2>1 DEF Less
  <2> HIDE DEF first, end, r
  <2>5. part # Whole /\ part \in Ranges /\ part.first = first /\ part.last = end /\ part.kind = "part"
    BY <1>2, <1>3, <2>4 DEF Ranges
  <2> HIDE DEF part
  <2>6. \A o \in 0 .. MaxSize : Selects(h, size, o) <=> o < size /\ size - o =< h.last
    BY <1>0, <2>1 DEF Selects, IsNumber
  <2>7. CASE size = 0
    <3>1. r = Beyond
      BY <2>3, <2>5, <2>7
    <3>2. \A o \in 0 .. MaxSize : ~Selects(h, size, o)
      BY <1>0, <2>6, <2>7
    <3>3. QED
      BY <1>3, <3>1, <3>2 DEF Means, r
  <2>8. CASE size # 0
    <3>1. first < size /\ first =< end /\ end < size
      BY <1>0, <1>2, <2>1, <2>4, <2>8
    <3>2. r = part
      BY <1>0, <2>3, <2>4, <2>5, <2>8, <3>1
    <3>3. \A o \in 0 .. MaxSize : Selects(h, size, o) <=> first =< o /\ o =< end
      BY <1>0, <1>2, <2>1, <2>4, <2>6, <2>8
    <3>4. QED
      BY <2>5, <3>1, <3>2, <3>3 DEF Means, r
  <2>9. QED
    BY <2>7, <2>8
<1>8. QED
  BY <1>1, <1>4, <1>5, <1>6, <1>7

Contents == [version : Nat, size : 0 .. MaxSize, there : BOOLEAN]
Asked == [at : {"idle", "look", "open", "stream", "done", "broken", "404", "416"},
          header : Header, range : Ranges, looked : Contents, opened : Contents, length : Nat]
Promised(size, r) ==
    IF size = 0 THEN 0 ELSE IF r = Whole THEN size ELSE r.last - r.first + 1

\* What the handler found with its look holds until the answer is over, and what has left is
\* the beginning of it.
RangeInv ==
    /\ item \in Contents
    /\ request \in Asked
    /\ sent \in [from : 0 .. MaxSize, count : Nat]
    /\ request.at \in {"open", "stream", "done", "broken"} =>
          /\ request.range = OneRange(request.header, request.looked.size)
          /\ request.range # Beyond
          /\ request.length = Promised(request.looked.size, request.range)
    /\ request.at = "416" => OneRange(request.header, request.looked.size) = Beyond
    /\ request.at \in {"stream", "done", "broken"} =>
          sent.from = request.range.first /\ sent.count =< request.length
    /\ request.at = "broken" =>
          sent.count < request.length /\ sent.from + sent.count >= request.opened.size
    /\ request.at = "done" => sent.count = request.length

\* What the headers promise is a number of bytes, and they are all in the content.
LEMMA PromiseIsKept ==
    ASSUME NEW h \in Header, NEW size \in 0 .. MaxSize, NEW r, r = OneRange(h, size), r # Beyond
    PROVE  /\ Promised(size, r) \in Nat
           /\ r.first + Promised(size, r) =< size
           /\ \A o \in 0 .. MaxSize :
                 Selects(h, size, o) <=> r.first =< o /\ o < r.first + Promised(size, r)
<1>1. MaxSize \in Nat /\ r \in Ranges /\ Means(h, size, r)
  BY OneRangeMeans, RangeAssumption
<1>2. r.first \in 0 .. MaxSize /\ r.last \in 0 .. MaxSize
  BY <1>1 DEF Ranges
<1>3. CASE r = Whole
  <2>1. r.first = 0 /\ r.kind = "whole"
    BY <1>3 DEF Whole
  <2>2. \A o \in 0 .. MaxSize : Selects(h, size, o) <=> o < size
    BY <1>1, <1>3, <2>1 DEF Means
  <2>3. Promised(size, r) = size
    BY <1>3 DEF Promised
  <2>4. QED
    BY <1>1, <2>1, <2>2, <2>3
<1>4. CASE r # Whole
  <2>1. /\ r.first =< r.last /\ r.last < size
        /\ \A o \in 0 .. MaxSize : Selects(h, size, o) <=> r.first =< o /\ o =< r.last
    BY <1>1, <1>4 DEF Means
  <2>2. Promised(size, r) = r.last - r.first + 1
    BY <1>1, <1>2, <1>4, <2>1 DEF Promised
  <2> HIDE DEF Promised
  <2>3. QED
    BY <1>1, <1>2, <2>1, <2>2
<1>5. QED
  BY <1>3, <1>4

\* The look at the item.
LEMMA LookSafe == ASSUME RangeInv, Look PROVE RangeInv'
<1> DEFINE r == OneRange(request.header, item.size)
           at == IF r = Beyond THEN "416" ELSE "open"
           length == IF r = Beyond \/ item.size = 0 THEN 0
                     ELSE IF r = Whole THEN item.size ELSE r.last - r.first + 1
<1>1. /\ request.header \in Header /\ item.size \in 0 .. MaxSize
      /\ item \in Contents /\ request \in Asked
  BY DEF RangeInv, Asked, Contents
<1>2. r \in Ranges
  BY <1>1, OneRangeMeans
<1>3. r # Beyond => length = Promised(item.size, r)
  BY DEF Promised
<1>4. length \in Nat
  BY <1>1, <1>3, PromiseIsKept
<1>5. at \in {"416", "open"} /\ (at = "416" <=> r = Beyond)
  OBVIOUS
<1>6. /\ request' = [request EXCEPT !.at = at, !.looked = item, !.range = r, !.length = length]
      /\ item' = item /\ sent' = sent
  BY DEF Look
<1> HIDE DEF r, at, length
<1>7. request' \in Asked
  BY <1>1, <1>2, <1>4, <1>5, <1>6 DEF Asked
<1>8. /\ request'.at = at /\ request'.looked = item /\ request'.range = r
      /\ request'.length = length /\ request'.header = request.header
  BY <1>1, <1>6 DEF Asked
<1>9. request'.range = OneRange(request'.header, request'.looked.size)
  BY <1>8 DEF r
<1>10. QED
  BY <1>3, <1>5, <1>6, <1>7, <1>8, <1>9 DEF RangeInv

\* The opening of the content, and every piece of it that leaves.
LEMMA AnswerSafe ==
    ASSUME RangeInv, OpenContent \/ EndsEarly \/ Finished \/ \E n \in 1 .. MaxSize : Send(n)
    PROVE  RangeInv'
<1>1. /\ item \in Contents /\ request \in Asked /\ sent \in [from : 0 .. MaxSize, count : Nat]
      /\ request.range \in Ranges /\ request.range.first \in 0 .. MaxSize /\ request.length \in Nat
  BY DEF RangeInv, Asked, Ranges
<1>2. CASE OpenContent
  <2>1. /\ request' = [request EXCEPT !.at = "stream", !.opened = item]
        /\ sent' = [from |-> request.range.first, count |-> 0] /\ item' = item
        /\ request.at = "open"
    BY <1>2 DEF OpenContent
  <2>2. /\ request' \in Asked /\ request'.at = "stream" /\ request'.opened = item
        /\ request'.range = request.range /\ request'.looked = request.looked
        /\ request'.header = request.header /\ request'.length = request.length
    BY <1>1, <2>1 DEF Asked
  <2>3. QED
    BY <1>1, <2>1, <2>2 DEF RangeInv
<1>3. ASSUME NEW n \in 1 .. MaxSize, Send(n) PROVE RangeInv'
  <2>1. /\ sent' = [sent EXCEPT !.count = @ + n] /\ item' = item /\ request' = request
        /\ request.at = "stream" /\ sent.count + n =< request.length
    BY <1>3 DEF Send
  <2>2. n \in Nat
    BY RangeAssumption
  <2>3. sent'.from = sent.from /\ sent'.count = sent.count + n
    BY <1>1, <2>1
  <2>4. sent' \in [from : 0 .. MaxSize, count : Nat]
    BY <1>1, <2>1, <2>2
  <2>5. QED
    BY <1>1, <2>1, <2>3, <2>4 DEF RangeInv
<1>4. ASSUME NEW s \in {"broken", "done"}, request.at = "stream",
             request' = [request EXCEPT !.at = s], item' = item, sent' = sent,
             s = "broken" => sent.count < request.length
                             /\ sent.from + sent.count >= request.opened.size,
             s = "done" => sent.count = request.length
      PROVE  RangeInv'
  <2>1. /\ request' \in Asked /\ request'.at = s /\ request'.opened = request.opened
        /\ request'.range = request.range /\ request'.looked = request.looked
        /\ request'.header = request.header /\ request'.length = request.length
    BY <1>1, <1>4 DEF Asked
  <2>2. QED
    BY <1>1, <1>4, <2>1 DEF RangeInv
<1>5. CASE EndsEarly
  BY <1>4, <1>5 DEF EndsEarly
<1>6. CASE Finished
  BY <1>4, <1>6 DEF Finished
<1>7. QED
  BY <1>2, <1>3, <1>5, <1>6

\* A request before its look or turned away, and what others do to the item.
LEMMA AsideSafe ==
    ASSUME RangeInv,
           (\E h \in Header : AskFor(h)) \/ NotFound \/ Delete \/ \E size \in 0 .. MaxSize : Change(size)
    PROVE  RangeInv'
<1>1. /\ item \in Contents /\ request \in Asked /\ sent \in [from : 0 .. MaxSize, count : Nat]
  BY DEF RangeInv
<1>2. ASSUME NEW h \in Header, AskFor(h) PROVE RangeInv'
  <2>1. request' = [request EXCEPT !.at = "look", !.header = h] /\ item' = item /\ sent' = sent
    BY <1>2 DEF AskFor
  <2>2. request' \in Asked /\ request'.at = "look"
    BY <1>1, <2>1 DEF Asked
  <2>3. QED
    BY <1>1, <2>1, <2>2 DEF RangeInv
<1>3. CASE NotFound
  <2>1. request' = [request EXCEPT !.at = "404"] /\ item' = item /\ sent' = sent
    BY <1>3 DEF NotFound
  <2>2. request' \in Asked /\ request'.at = "404"
    BY <1>1, <2>1 DEF Asked
  <2>3. QED
    BY <1>1, <2>1, <2>2 DEF RangeInv
<1>4. CASE Delete
  <2>1. item' = [item EXCEPT !.there = FALSE] /\ request' = request /\ sent' = sent
    BY <1>4 DEF Delete
  <2>2. item' \in Contents
    BY <1>1, <2>1 DEF Contents
  <2>3. QED
    BY <2>1, <2>2 DEF RangeInv
<1>5. ASSUME NEW size \in 0 .. MaxSize, Change(size) PROVE RangeInv'
  <2> DEFINE next == item.version + 1
  <2>1. /\ item' = [version |-> next, size |-> size, there |-> TRUE]
        /\ request' = request /\ sent' = sent
    BY <1>5 DEF Change
  <2>2. next \in Nat
    BY <1>1 DEF Contents
  <2> HIDE DEF next
  <2>3. item' \in Contents
    BY <2>1, <2>2 DEF Contents
  <2>4. QED
    BY <2>1, <2>3 DEF RangeInv
<1>6. QED
  BY <1>2, <1>3, <1>4, <1>5

\* The invariant is enough.
LEMMA RangeInvSuffices == ASSUME RangeInv PROVE ExactlyWhatWasAsked
<1> DEFINE h == request.header
           size == request.looked.size
           r == OneRange(h, size)
<1>1. /\ request \in Asked /\ h \in Header /\ size \in 0 .. MaxSize /\ MaxSize \in Nat
      /\ sent.from \in 0 .. MaxSize /\ sent.count \in Nat /\ request.length \in Nat
  BY RangeAssumption DEF RangeInv, Asked, Contents
<1>2. ASSUME request.at = "done", request.opened = request.looked PROVE Left = Selected(h, size)
  <2>1. /\ r # Beyond /\ request.length = Promised(size, r)
        /\ sent.from = r.first /\ sent.count = request.length
    BY <1>2 DEF RangeInv
  <2>2. \A o \in 0 .. MaxSize :
            Selects(h, size, o) <=> sent.from =< o /\ o < sent.from + sent.count
    BY <1>1, <2>1, PromiseIsKept
  <2> HIDE DEF h, size, r
  <2>3. QED
    BY <2>2 DEF Left, Selected
<1>3. ASSUME request.at = "416" PROVE Selected(h, size) = {}
  <2>1. r = Beyond /\ r \in Ranges /\ Means(h, size, r)
    BY <1>1, <1>3, OneRangeMeans DEF RangeInv
  <2>2. r.kind = "beyond" /\ r # Whole
    BY <2>1 DEF Beyond, Whole
  <2>3. \A o \in 0 .. MaxSize : ~Selects(h, size, o)
    BY <2>1, <2>2 DEF Means
  <2> HIDE DEF h, size, r
  <2>4. QED
    BY <2>3 DEF Selected
<1>4. ASSUME request.at = "broken" PROVE request.opened # request.looked
  <2>1. /\ r # Beyond /\ request.length = Promised(size, r)
        /\ sent.from = r.first /\ sent.count < request.length
        /\ sent.from + sent.count >= request.opened.size
    BY <1>4 DEF RangeInv
  <2>2. r.first + Promised(size, r) =< size
    BY <1>1, <2>1, PromiseIsKept
  <2>3. request.opened.size \in Nat
    BY <1>1 DEF Asked, Contents
  <2>4. size # request.opened.size
    BY <1>1, <2>1, <2>2, <2>3
  <2>5. QED
    BY <2>4
<1>5. request.at = "done" => sent.count = request.length
  BY DEF RangeInv
<1>6. QED
  BY <1>2, <1>3, <1>4, <1>5 DEF ExactlyWhatWasAsked

\* An answer that came to its end is exactly the bytes the header selects of the content it was
\* looked up for, none is refused that selects a byte, and none breaks off whose content is
\* still the one that was looked at: for every size, every header, and every moment at which
\* the item is replaced or deleted (get_item_content, one_range, stream_out).
THEOREM AnswersAreTheBytesAsked == RangeSpec => []ExactlyWhatWasAsked
<1>1. RangeInit => RangeInv
  <2> SUFFICES ASSUME RangeInit PROVE RangeInv
    OBVIOUS
  <2>0. MaxSize \in Nat
    BY RangeAssumption
  <2>1. item \in Contents /\ request = NoRequest /\ sent = [from |-> 0, count |-> 0]
    <3>1. /\ item \in [version : {0}, size : 0 .. MaxSize, there : {TRUE}]
          /\ request = NoRequest /\ sent = [from |-> 0, count |-> 0]
      BY DEF RangeInit
    <3>2. item = [version |-> 0, size |-> item.size, there |-> TRUE] /\ item.size \in 0 .. MaxSize
      BY <3>1
    <3>3. \A size \in 0 .. MaxSize : [version |-> 0, size |-> size, there |-> TRUE] \in Contents
      BY DEF Contents
    <3>4. QED
      BY <3>1, <3>2, <3>3, Zenon
  <2>2. sent \in [from : 0 .. MaxSize, count : Nat]
    BY <2>0, <2>1
  <2>3. Nothing \in Contents /\ Whole \in Ranges
    BY <2>0 DEF Nothing, Contents, Whole, Ranges
  <2>4. [form |-> "other", first |-> Empty, last |-> Empty] \in Header
    BY DEF Header
  <2>5. request \in Asked /\ request.at = "idle"
    BY <2>1, <2>3, <2>4 DEF NoRequest, Asked
  <2>6. QED
    BY <2>1, <2>2, <2>5 DEF RangeInv
<1>2. RangeInv /\ [RangeNext]_answer => RangeInv'
  <2> SUFFICES ASSUME RangeInv, [RangeNext]_answer PROVE RangeInv'
    OBVIOUS
  <2>1. CASE UNCHANGED answer
    BY <2>1 DEF answer, RangeInv
  <2>2. CASE RangeNext
    BY <2>2, LookSafe, AnswerSafe, AsideSafe DEF RangeNext
  <2>3. QED
    BY <2>1, <2>2
<1>3. RangeInv => ExactlyWhatWasAsked
  BY RangeInvSuffices
<1>4. QED
  BY <1>1, <1>2, <1>3, PTL DEF RangeSpec

-----------------------------------------------------------------------------
(* The limiter of failed authentications. *)

\* There is a least number in every set of them that is not empty.
LEMMA LeastNumber ==
    ASSUME NEW S \in SUBSET Nat, S # {}
    PROVE  \E x \in S : \A y \in S : x =< y
<1>1. \E x \in S : \A y \in S : ~(<<y, x>> \in OpToRel(<, Nat))
  BY NatLessThanWellFounded, WFMin
<1>2. ASSUME NEW x \in S, NEW y \in S PROVE <<y, x>> \in OpToRel(<, Nat) <=> y < x
  BY DEF OpToRel
<1>3. PICK x \in S : \A y \in S : ~(<<y, x>> \in OpToRel(<, Nat))
  BY <1>1
<1>4. \A y \in S : ~(y < x)
  BY <1>2, <1>3
<1>5. \A y \in S : x =< y
  BY <1>4
<1>6. QED
  BY <1>5

\* `n` bounds the addresses of a table, and each has between one failure and `per_minute`.
Bounded(t, n) ==
    /\ IsFiniteSet(DOMAIN t) /\ Cardinality(DOMAIN t) =< n
    /\ \A a \in DOMAIN t : t[a] \in Seq(Nat) /\ Len(t[a]) \in 1 .. PerMinute

\* forget_old takes failures off the front, and adds none.
LEMMA ForgetsSome ==
    ASSUME NEW failures \in Seq(Nat), NEW time \in Nat
    PROVE  ForgetOld(failures, time) \in Seq(Nat) /\ Len(ForgetOld(failures, time)) =< Len(failures)
<1> DEFINE n == Len(failures)
           keep == {i \in 1 .. n : time < failures[i] + Window}
           first == IF keep = {} THEN n + 1 ELSE CHOOSE i \in keep : \A j \in keep : i =< j
<1>1. n \in Nat
  BY LenProperties
<1>2. first \in 1 .. n + 1
  <2>1. CASE keep = {}
    BY <1>1, <2>1
  <2>2. CASE keep # {}
    <3>1. keep \in SUBSET Nat /\ keep \subseteq 1 .. n
      BY <1>1
    <3>2. \E i \in keep : \A j \in keep : i =< j
      BY <2>2, <3>1, LeastNumber
    <3>3. first \in keep
      BY <2>2, <3>2
    <3> HIDE DEF first, keep
    <3>4. first \in 1 .. n
      BY <3>1, <3>3
    <3> HIDE DEF n
    <3>5. QED
      BY <1>1, <3>4
  <2>3. QED
    BY <2>1, <2>2
<1>3. ForgetOld(failures, time) = SubSeq(failures, first, n)
  BY DEF ForgetOld
<1> HIDE DEF first
<1>4. SubSeq(failures, first, n) \in Seq(Nat)
  BY <1>1, <1>2
<1>5. Len(SubSeq(failures, first, n)) =< n
  BY <1>1, <1>2
<1>6. QED
  BY <1>3, <1>4, <1>5

\* Addresses are taken out of a table.
LEMMA TakenOut ==
    ASSUME NEW t, NEW n \in Nat, Bounded(t, n), NEW A
    PROVE  /\ Bounded(WithoutFailures(t, A), n)
           /\ DOMAIN WithoutFailures(t, A) = DOMAIN t \ A
           /\ Cardinality(DOMAIN t \ A) \in Nat
<1> DEFINE u == WithoutFailures(t, A)
<1>1. DOMAIN u = DOMAIN t \ A /\ \A a \in DOMAIN u : u[a] = t[a]
  BY DEF WithoutFailures
<1>2. IsFiniteSet(DOMAIN t) /\ Cardinality(DOMAIN t) \in Nat /\ Cardinality(DOMAIN t) =< n
  BY FS_CardinalityType DEF Bounded
<1>3. (DOMAIN t \ A) \in SUBSET DOMAIN t
  OBVIOUS
<1>4. /\ IsFiniteSet(DOMAIN t \ A) /\ Cardinality(DOMAIN t \ A) =< Cardinality(DOMAIN t)
      /\ Cardinality(DOMAIN t \ A) \in Nat
  BY <1>2, <1>3, FS_Subset, FS_CardinalityType
<1>5. Cardinality(DOMAIN t \ A) =< n
  BY <1>2, <1>4
<1> HIDE DEF u
<1>6. Bounded(u, n)
  BY <1>1, <1>4, <1>5 DEF Bounded
<1>7. QED
  BY <1>1, <1>4, <1>6 DEF u

\* An address is put into a table that holds it already, or has room.
LEMMA PutIn ==
    ASSUME NEW t, NEW n \in Nat, Bounded(t, n), NEW a, NEW failures \in Seq(Nat),
           Len(failures) \in 1 .. PerMinute, a \in DOMAIN t \/ Cardinality(DOMAIN t) < n
    PROVE  Bounded(WithFailures(t, a, failures), n)
<1> DEFINE u == WithFailures(t, a, failures)
<1>1. DOMAIN u = DOMAIN t \cup {a} /\ \A b \in DOMAIN u : u[b] = IF b = a THEN failures ELSE t[b]
  BY DEF WithFailures
<1>2. IsFiniteSet(DOMAIN t) /\ Cardinality(DOMAIN t) \in Nat /\ Cardinality(DOMAIN t) =< n
  BY FS_CardinalityType DEF Bounded
<1>3. /\ IsFiniteSet(DOMAIN t \cup {a})
      /\ Cardinality(DOMAIN t \cup {a}) =
            IF a \in DOMAIN t THEN Cardinality(DOMAIN t) ELSE Cardinality(DOMAIN t) + 1
  BY <1>2, FS_AddElement
<1>4. Cardinality(DOMAIN t \cup {a}) =< n
  BY <1>2, <1>3
<1> HIDE DEF u
<1>5. \A b \in DOMAIN u : u[b] \in Seq(Nat) /\ Len(u[b]) \in 1 .. PerMinute
  BY <1>1 DEF Bounded
<1>6. Bounded(u, n)
  BY <1>1, <1>3, <1>4, <1>5 DEF Bounded
<1>7. QED
  BY <1>6 DEF u

\* make_room leaves room for one more.
LEMMA RoomIsMade ==
    ASSUME NEW t, Bounded(t, Capacity), NEW time, NEW roomy \in MakeRoom(t, time)
    PROVE  Bounded(roomy, Capacity) /\ Cardinality(DOMAIN roomy) < Capacity
<1> DEFINE kept == WithoutFailures(t, {a \in DOMAIN t : t[a] = <<>> \/ time >= Last(t[a]) + Window})
           stalest == {a \in DOMAIN kept : \A b \in DOMAIN kept : Last(kept[a]) =< Last(kept[b])}
<1>0. Capacity \in Nat
  BY LimiterAssumption
<1>1. Bounded(kept, Capacity)
  BY <1>0, TakenOut
<1>2. \/ Cardinality(DOMAIN kept) < Capacity /\ roomy = kept
      \/ ~(Cardinality(DOMAIN kept) < Capacity) /\ \E a \in stalest : roomy = WithoutFailures(kept, {a})
  BY DEF MakeRoom
<1>3. stalest \subseteq DOMAIN kept
  OBVIOUS
<1> HIDE DEF kept, stalest
<1>4. ASSUME NEW a \in stalest, roomy = WithoutFailures(kept, {a})
      PROVE  Bounded(roomy, Capacity) /\ Cardinality(DOMAIN roomy) < Capacity
  <2>1. Bounded(roomy, Capacity) /\ DOMAIN roomy = DOMAIN kept \ {a}
    BY <1>0, <1>1, <1>4, TakenOut
  <2>2. /\ IsFiniteSet(DOMAIN kept) /\ Cardinality(DOMAIN kept) \in Nat
        /\ Cardinality(DOMAIN kept) =< Capacity
    BY <1>1, FS_CardinalityType DEF Bounded
  <2>3. Cardinality(DOMAIN kept \ {a}) = Cardinality(DOMAIN kept) - 1
    BY <1>3, <1>4, <2>2, FS_RemoveElement
  <2>4. QED
    BY <1>0, <2>1, <2>2, <2>3
<1>5. QED
  BY <1>1, <1>2, <1>4

\* The addresses that requests count under.
AddressesOf(c) ==
    {CountedAs[ClientAddress(IF Proxy = NoAddress THEN c ELSE Proxy, chain)] : chain \in Chains(c)}
Addresses == UNION {AddressesOf(c) : c \in Peers}

\* A request that is being looked at knows when; one that is refused tells no failure.
OnItsWay(a) ==
    \/ a = Unasked
    \/ a \in [at : {"asking", "checking", "guessed", "telling"}, client : Counted, time : Nat,
              address : Addresses]
    \/ a.at = "limited"

LimiterInv ==
    /\ clock \in Nat
    /\ Bounded(table, Capacity)
    /\ DOMAIN attempts = Attempts
    /\ \A r \in Attempts : OnItsWay(attempts[r])

\* One request moves.
LEMMA AttemptMoves ==
    ASSUME LimiterInv, NEW r \in Attempts, NEW a, OnItsWay(a),
           attempts' = [attempts EXCEPT ![r] = a]
    PROVE  DOMAIN attempts' = Attempts /\ \A q \in Attempts : OnItsWay(attempts'[q])
<1>1. /\ DOMAIN attempts' = Attempts
      /\ \A q \in Attempts : attempts'[q] = IF q = r THEN a ELSE attempts[q]
  BY DEF LimiterInv
<1>2. QED
  BY <1>1 DEF LimiterInv

\* A request in flight has the fields its step reads.
LEMMA AttemptFields ==
    ASSUME NEW a, OnItsWay(a), a.at \in {"asking", "checking", "guessed", "telling"}
    PROVE  /\ a \in [at : {"asking", "checking", "guessed", "telling"}, client : Counted,
                     time : Nat, address : Addresses]
           /\ a.time \in Nat
<1>1. Unasked.at = "idle"
  BY DEF Unasked
<1>2. QED
  BY <1>1 DEF OnItsWay

\* The steps of a request that leave the table alone.
LEMMA OnTheWaySafe ==
    ASSUME LimiterInv, NEW r \in Attempts,
           GuessArrives(r) \/ Guess(r) \/ NoGuess(r) \/ ReadClock(r) \/ Answered(r)
    PROVE  LimiterInv'
<1> DEFINE a == attempts[r]
<1>1. OnItsWay(a) /\ OnItsWay(Unasked) /\ clock \in Nat /\ DOMAIN attempts = Attempts
  BY DEF LimiterInv, OnItsWay
<1>2. SUFFICES ASSUME NEW next, OnItsWay(next), attempts' = [attempts EXCEPT ![r] = next],
                      table' = table, clock' = clock
               PROVE  LimiterInv'
  <2>1. CASE NoGuess(r) \/ Answered(r)
    BY <1>1, <1>2, <2>1 DEF NoGuess, Answered
  <2>2. CASE GuessArrives(r)
    <3>0. PICK c \in Peers : \E chain \in Chains(c) :
              attempts' = [attempts EXCEPT ![r] =
                  [at |-> "asking", client |-> CountedAs[c], time |-> clock,
                   address |-> CountedAs[ClientAddress(IF Proxy = NoAddress THEN c ELSE Proxy, chain)]]]
      BY <2>2 DEF GuessArrives
    <3>1. PICK chain \in Chains(c) :
              attempts' = [attempts EXCEPT ![r] =
                  [at |-> "asking", client |-> CountedAs[c], time |-> clock,
                   address |-> CountedAs[ClientAddress(IF Proxy = NoAddress THEN c ELSE Proxy, chain)]]]
      BY <3>0
    <3> DEFINE address == CountedAs[ClientAddress(IF Proxy = NoAddress THEN c ELSE Proxy, chain)]
               client == CountedAs[c]
    <3>2. client \in Counted
      BY DEF Counted
    <3>3. address \in Addresses
      <4>1. address \in AddressesOf(c)
        BY DEF AddressesOf
      <4>2. QED
        BY <4>1 DEF Addresses
    <3> HIDE DEF address, client
    <3>4. OnItsWay([at |-> "asking", client |-> client, time |-> clock, address |-> address])
      BY <1>1, <3>2, <3>3 DEF OnItsWay
    <3>5. QED
      BY <1>2, <2>2, <3>1, <3>4 DEF GuessArrives, address, client
  <2>3. CASE Guess(r)
    <3>1. attempts' = [attempts EXCEPT ![r] = [a EXCEPT !.at = "guessed"]]
      BY <1>1, <2>3 DEF Guess
    <3>2. OnItsWay([a EXCEPT !.at = "guessed"])
      BY <1>1, <2>3, AttemptFields DEF Guess, OnItsWay
    <3>3. QED
      BY <1>2, <2>3, <3>1, <3>2 DEF Guess
  <2>4. CASE ReadClock(r)
    <3>1. attempts' = [attempts EXCEPT ![r] = [a EXCEPT !.at = "telling", !.time = clock]]
      BY <1>1, <2>4 DEF ReadClock
    <3>2. OnItsWay([a EXCEPT !.at = "telling", !.time = clock])
      BY <1>1, <2>4, AttemptFields DEF ReadClock, OnItsWay
    <3>3. QED
      BY <1>2, <2>4, <3>1, <3>2 DEF ReadClock
  <2>5. QED
    BY <2>1, <2>2, <2>3, <2>4
<1>3. DOMAIN attempts' = Attempts /\ \A q \in Attempts : OnItsWay(attempts'[q])
  BY <1>2, AttemptMoves
<1>4. QED
  BY <1>1, <1>2, <1>3 DEF LimiterInv

\* Asking forgets what is old, and takes an address out that has nothing left.
LEMMA AskLimiterSafe == ASSUME LimiterInv, NEW r \in Attempts, AskLimiter(r) PROVE LimiterInv'
<1> DEFINE a == attempts[r].address
           time == attempts[r].time
           next == IF Limited(a, time)
                   THEN [at |-> "limited", client |-> attempts[r].client, address |-> a, time |-> time,
                         wait |-> RetryAfter(a, time)]
                   ELSE [attempts[r] EXCEPT !.at = "checking"]
           left == ForgetOld(table[a], time)
<1>0. Capacity \in Nat /\ PerMinute \in Nat
  BY LimiterAssumption
<1>1. /\ attempts[r].at = "asking" /\ table' = AskedAbout(a, time) /\ clock' = clock
      /\ OnItsWay(attempts[r]) /\ Bounded(table, Capacity) /\ clock \in Nat
  BY DEF AskLimiter, LimiterInv
<1>2. attempts' = [attempts EXCEPT ![r] = next]
  BY DEF AskLimiter, LimiterInv
<1>3. /\ attempts[r] \in [at : {"asking", "checking", "guessed", "telling"}, client : Counted,
                          time : Nat, address : Addresses]
      /\ time \in Nat
  BY <1>1, AttemptFields
<1>4. OnItsWay(next)
  <2>1. CASE Limited(a, time)
    <3>1. next.at = "limited"
      BY <2>1
    <3>2. QED
      BY <3>1 DEF OnItsWay
  <2>2. CASE ~Limited(a, time)
    BY <1>3, <2>2 DEF OnItsWay
  <2>3. QED
    BY <2>1, <2>2
<1>5. DOMAIN attempts' = Attempts /\ \A q \in Attempts : OnItsWay(attempts'[q])
  BY <1>2, <1>4, AttemptMoves
<1> HIDE DEF next, time, a
<1>6. Bounded(table', Capacity)
  <2>1. CASE a \notin DOMAIN table
    BY <1>1, <2>1 DEF AskedAbout
  <2>2. CASE a \in DOMAIN table
    <3>1. table[a] \in Seq(Nat) /\ Len(table[a]) \in 1 .. PerMinute
      BY <1>1, <2>2 DEF Bounded
    <3>2. left \in Seq(Nat) /\ Len(left) =< Len(table[a])
      BY <1>3, <3>1, ForgetsSome
    <3>3. table' = IF left = <<>> THEN WithoutFailures(table, {a}) ELSE WithFailures(table, a, left)
      BY <1>1, <2>2 DEF AskedAbout
    <3> HIDE DEF left
    <3>4. CASE left = <<>>
      <4>1. Bounded(WithoutFailures(table, {a}), Capacity)
        BY <1>0, <1>1, TakenOut
      <4>2. QED
        BY <3>3, <3>4, <4>1
    <3>5. CASE left # <<>>
      <4>1. Len(left) \in 1 .. PerMinute
        BY <1>0, <3>1, <3>2, <3>5
      <4>2. QED
        BY <1>0, <1>1, <2>2, <3>2, <3>3, <3>5, <4>1, PutIn
    <3>6. QED
      BY <3>4, <3>5
  <2>3. QED
    BY <2>1, <2>2
<1>7. QED
  BY <1>1, <1>5, <1>6 DEF LimiterInv

\* A failure is told: room is made for a new address, and no address gets more than its share.
LEMMA FailedSafe == ASSUME LimiterInv, NEW r \in Attempts, Failed(r) PROVE LimiterInv'
<1> DEFINE a == attempts[r].address
           time == attempts[r].time
<1>0. Capacity \in Nat /\ PerMinute \in Nat \ {0}
  BY LimiterAssumption
<1>1. /\ attempts[r].at = "telling" /\ clock' = clock /\ attempts' = [attempts EXCEPT ![r] = Unasked]
      /\ OnItsWay(attempts[r]) /\ Bounded(table, Capacity) /\ clock \in Nat /\ OnItsWay(Unasked)
  BY DEF Failed, LimiterInv, OnItsWay
<1>2. time \in Nat
  BY <1>1, AttemptFields
<1>3. DOMAIN attempts' = Attempts /\ \A q \in Attempts : OnItsWay(attempts'[q])
  BY <1>1, AttemptMoves
<1>4. PICK roomy \in Roomy(a, time) :
          LET had == IF a \in DOMAIN roomy THEN ForgetOld(roomy[a], time) ELSE <<>>
          IN  table' = WithFailures(roomy, a, IF Len(had) < PerMinute THEN Append(had, time) ELSE had)
  BY DEF Failed
<1> HIDE DEF a, time
<1> DEFINE had == IF a \in DOMAIN roomy THEN ForgetOld(roomy[a], time) ELSE <<>>
           has == IF Len(had) < PerMinute THEN Append(had, time) ELSE had
<1>5. Bounded(roomy, Capacity) /\ (a \in DOMAIN roomy \/ Cardinality(DOMAIN roomy) < Capacity)
  <2>1. CASE a \notin DOMAIN table /\ Cardinality(DOMAIN table) >= Capacity
    BY <1>1, <1>4, <2>1, RoomIsMade DEF Roomy
  <2>2. CASE ~(a \notin DOMAIN table /\ Cardinality(DOMAIN table) >= Capacity)
    <3>1. roomy = table
      BY <1>4, <2>2 DEF Roomy
    <3>2. Cardinality(DOMAIN table) \in Nat
      BY <1>1, FS_CardinalityType DEF Bounded
    <3>3. QED
      BY <1>0, <1>1, <2>2, <3>1, <3>2
  <2>3. QED
    BY <2>1, <2>2
<1>6. had \in Seq(Nat) /\ Len(had) =< PerMinute
  <2>1. CASE a \in DOMAIN roomy
    <3>1. roomy[a] \in Seq(Nat) /\ Len(roomy[a]) \in 1 .. PerMinute
      BY <1>5, <2>1 DEF Bounded
    <3>2. had \in Seq(Nat) /\ Len(had) =< Len(roomy[a])
      BY <1>2, <2>1, <3>1, ForgetsSome
    <3> HIDE DEF had
    <3>3. Len(had) \in Nat
      BY <3>2, LenProperties
    <3>4. QED
      BY <1>0, <3>1, <3>2, <3>3
  <2>2. CASE a \notin DOMAIN roomy
    <3>1. had = <<>>
      BY <2>2
    <3> HIDE DEF had
    <3>2. QED
      BY <1>0, <3>1
  <2>3. QED
    BY <2>1, <2>2
<1>7. table' = WithFailures(roomy, a, has)
  BY <1>4
<1> HIDE DEF had
<1>8. Len(had) \in Nat
  BY <1>6, LenProperties
<1>9. has \in Seq(Nat) /\ Len(has) \in 1 .. PerMinute
  <2>1. CASE Len(had) < PerMinute
    <3>1. Append(had, time) \in Seq(Nat) /\ Len(Append(had, time)) = Len(had) + 1
      BY <1>2, <1>6
    <3>2. QED
      BY <1>0, <1>8, <2>1, <3>1
  <2>2. CASE ~(Len(had) < PerMinute)
    BY <1>0, <1>6, <1>8, <2>2
  <2>3. QED
    BY <2>1, <2>2
<1> HIDE DEF has
<1>10. Bounded(table', Capacity)
  BY <1>0, <1>5, <1>7, <1>9, PutIn
<1>11. QED
  BY <1>1, <1>3, <1>10 DEF LimiterInv

\* "An address holds at most `per_minute` timestamps.  The table of addresses is bounded as
\* well" (rate.rs), for any limit, window and capacity, whatever addresses fail together and
\* with whatever old times they are told.
THEOREM LimiterStaysSmall == LimiterSpec => []TableBounded
<1>1. LimiterInit => LimiterInv
  <2> SUFFICES ASSUME LimiterInit PROVE LimiterInv
    OBVIOUS
  <2>1. DOMAIN table = {}
    BY DEF LimiterInit
  <2>2. Bounded(table, Capacity)
    BY <2>1, FS_EmptySet, LimiterAssumption DEF Bounded
  <2>3. QED
    BY <2>2 DEF LimiterInit, LimiterInv, OnItsWay
<1>2. LimiterInv /\ [LimiterNext]_limiter => LimiterInv'
  <2> SUFFICES ASSUME LimiterInv, [LimiterNext]_limiter PROVE LimiterInv'
    OBVIOUS
  <2>1. CASE UNCHANGED limiter
    BY <2>1 DEF limiter, LimiterInv
  <2>2. CASE TimePasses
    <3>1. clock' = clock + 1 /\ table' = table /\ attempts' = attempts
      BY <2>2 DEF TimePasses
    <3>2. clock' \in Nat
      BY <3>1 DEF LimiterInv
    <3>3. QED
      BY <3>1, <3>2 DEF LimiterInv
  <2>3. ASSUME NEW r \in Attempts,
               \/ GuessArrives(r) \/ AskLimiter(r) \/ Guess(r) \/ NoGuess(r) \/ ReadClock(r)
               \/ Failed(r) \/ Answered(r)
        PROVE  LimiterInv'
    BY <2>3, OnTheWaySafe, AskLimiterSafe, FailedSafe
  <2>4. QED
    BY <2>1, <2>2, <2>3 DEF LimiterNext
<1>3. LimiterInv => TableBounded
  BY DEF LimiterInv, Bounded, TableBounded
<1>4. QED
  BY <1>1, <1>2, <1>3, PTL DEF LimiterSpec

-----------------------------------------------------------------------------
(* Listening, serving and stopping. *)

\* Every connection is somewhere, and those of the backlog are of clients.
ServingInv ==
    /\ clients \in [Clients -> {"away", "waiting", "shaking", "shaken", "connected", "asking",
                                "working", "answered", "closed"}]
    /\ backlog \in Seq(Clients)

\* One client's connection moves.
LEMMA ClientMoves ==
    ASSUME ServingInv, NEW c \in Clients,
           NEW where \in {"away", "waiting", "shaking", "shaken", "connected", "asking",
                          "working", "answered", "closed"},
           To(c, where)
    PROVE  /\ clients' \in [Clients -> {"away", "waiting", "shaking", "shaken", "connected", "asking",
                                        "working", "answered", "closed"}]
           /\ \A d \in Clients : clients'[d] = IF d = c THEN where ELSE clients[d]
  BY DEF ServingInv, To

\* No step closes the connection of a request that was sent and is not answered, but the return
\* of the server, after the time it had to drain: neither a handshake that ends late, nor the
\* signal itself (run, Incoming::accept).
THEOREM RequestsAreNotCutOff == ServingSpec => NotCutOff
<1> DEFINE Kept == \A c \in Clients : clients[c] \in {"asking", "working"} /\ clients'[c] = "closed"
                        => phase' = "returned"
<1>1. ServingInit => ServingInv
  BY DEF ServingInit, ServingInv
<1>2. ServingInv /\ [ServingNext]_serving => ServingInv' /\ (Kept \/ UNCHANGED serving)
  <2> SUFFICES ASSUME ServingInv, [ServingNext]_serving PROVE ServingInv' /\ (Kept \/ UNCHANGED serving)
    OBVIOUS
  <2>1. CASE UNCHANGED serving
    BY <2>1 DEF serving, ServingInv
  <2>2. CASE Bind \/ Sweep \/ SweepEnds \/ Exit
    <3>1. clients' = clients /\ backlog' = backlog
      BY <2>2 DEF Bind, Sweep, SweepEnds, Exit
    <3>2. QED
      BY <3>1 DEF ServingInv
  <2>3. CASE Restart
    <3>1. clients' = [c \in Clients |-> "away"] /\ backlog' = <<>>
      BY <2>3 DEF Restart
    <3>2. ServingInv'
      BY <3>1 DEF ServingInv
    <3>3. Kept
      BY <3>1
    <3>4. QED
      BY <3>2, <3>3
  <2>4. CASE Told
    <3>1. /\ clients' = [c \in Clients |-> IF clients[c] \in {"asking", "working"} THEN clients[c]
                                           ELSE "closed"]
          /\ backlog' = <<>>
      BY <2>4 DEF Told
    <3>2. ServingInv'
      BY <3>1 DEF ServingInv
    <3>3. Kept
      BY <3>1
    <3>4. QED
      BY <3>2, <3>3
  <2>5. CASE Drained \/ DrainOver
    <3>1. phase' = "returned" /\ clients' = [c \in Clients |-> "closed"] /\ backlog' = backlog
      BY <2>5 DEF Drained, DrainOver, Return
    <3>2. QED
      BY <3>1 DEF ServingInv
  <2>6. CASE Accept
    <3>1. /\ To(Head(backlog), IF Mode = "plain" THEN "connected" ELSE "shaking")
          /\ backlog # <<>> /\ backlog' = Tail(backlog)
      BY <2>6 DEF Accept
    <3>2. Head(backlog) \in Clients /\ Tail(backlog) \in Seq(Clients)
      BY <3>1 DEF ServingInv
    <3>3. QED
      BY <3>1, <3>2, ClientMoves DEF ServingInv
  <2>7. ASSUME NEW c \in Clients, Connect(c) PROVE ServingInv' /\ Kept
    <3>1. To(c, "waiting") /\ backlog' = Append(backlog, c)
      BY <2>7 DEF Connect
    <3>2. backlog' \in Seq(Clients)
      BY <3>1 DEF ServingInv
    <3>3. QED
      BY <3>1, <3>2, ClientMoves DEF ServingInv
  <2>8. ASSUME NEW c \in Clients,
               Shake(c) \/ Join(c) \/ Request(c) \/ Handle(c) \/ Panic(c) \/ ClientLeaves(c)
        PROVE  ServingInv' /\ Kept
    <3>1. /\ \E where \in {"shaken", "connected", "asking", "working", "answered", "away"} : To(c, where)
          /\ backlog' = backlog
      BY <2>8 DEF Shake, Join, Request, Handle, Panic, ClientLeaves
    <3>2. QED
      BY <3>1, ClientMoves DEF ServingInv
  <2>9. ASSUME NEW c \in Clients, ShakeEnds(c) PROVE ServingInv' /\ Kept
    <3>1. To(c, "closed") /\ clients[c] = "shaking" /\ backlog' = backlog
      BY <2>9 DEF ShakeEnds
    <3>2. QED
      BY <3>1, ClientMoves DEF ServingInv
  <2>10. ASSUME NEW c \in Clients, WorkEnds(c) PROVE ServingInv' /\ Kept
    <3>1. (To(c, "answered") \/ clients' = clients) /\ backlog' = backlog
      BY <2>10 DEF WorkEnds
    <3>2. QED
      BY <3>1, ClientMoves DEF ServingInv
  <2>11. QED
    BY <2>1, <2>2, <2>3, <2>4, <2>5, <2>6, <2>7, <2>8, <2>9, <2>10 DEF ServingNext
<1>3. QED
  BY <1>1, <1>2, PTL DEF ServingSpec, NotCutOff

-----------------------------------------------------------------------------
(* The limiter, asked by requests in flight together. *)

\* How many failures of an address the table has, the requests whose guess it was not told
\* yet, and those that are not being checked under the address.
Held(a) == IF a \in DOMAIN table THEN Len(table[a]) ELSE 0
Untold(a) == {q \in Attempts : attempts[q].at \in {"guessed", "telling"} /\ attempts[q].address = a}
Others(a) == {q \in Attempts : ~(attempts[q].at = "checking" /\ attempts[q].address = a)}

\* How many guesses can have been checked: below the limit each is in the table or not told
\* yet; at the limit no more are let in, and each that was let in before is checked once.
Spent(n, untold, others) ==
    IF n < PerMinute THEN n + Cardinality(untold) ELSE PerMinute - 1 + Cardinality(others)

OfItsClient(a) ==
    a.at \in {"asking", "checking", "guessed", "telling"} => a.client = a.address

GuessInv ==
    /\ guesses \in [Counted -> Nat]
    /\ \A q \in Attempts : OfItsClient(attempts[q])
    /\ \A a \in Counted : guesses[a] =< Spent(Held(a), Untold(a), Others(a))

\* A set of requests in flight can be counted.
LEMMA RequestsCount ==
    ASSUME NEW S \in SUBSET Attempts
    PROVE  IsFiniteSet(S) /\ Cardinality(S) \in Nat /\ Cardinality(S) =< Cardinality(Attempts)
<1>1. IsFiniteSet(Attempts)
  BY LimiterAssumption
<1>2. QED
  BY <1>1, FS_Subset, FS_CardinalityType

\* More requests of either kind leave room for as many guesses.
LEMMA SpentGrows ==
    ASSUME NEW n \in Nat, NEW U \in SUBSET Attempts, NEW V \in SUBSET Attempts,
           NEW O \in SUBSET Attempts, NEW Q \in SUBSET Attempts,
           U \subseteq V, n >= PerMinute => O \subseteq Q
    PROVE  Spent(n, U, O) =< Spent(n, V, Q) /\ Spent(n, U, O) \in Nat /\ Spent(n, V, Q) \in Nat
<1>1. /\ Cardinality(U) \in Nat /\ Cardinality(V) \in Nat /\ Cardinality(O) \in Nat
      /\ Cardinality(Q) \in Nat /\ IsFiniteSet(V) /\ IsFiniteSet(Q)
  BY RequestsCount
<1>2. Cardinality(U) =< Cardinality(V)
  BY <1>1, FS_Subset
<1>3. n >= PerMinute => Cardinality(O) =< Cardinality(Q)
  BY <1>1, FS_Subset
<1>4. PerMinute \in Nat \ {0}
  BY LimiterAssumption
<1>5. QED
  BY <1>1, <1>2, <1>3, <1>4 DEF Spent

\* A request that is checked makes room for its own guess.
LEMMA SpentByOne ==
    ASSUME NEW n \in Nat, NEW U \in SUBSET Attempts, NEW O \in SUBSET Attempts,
           NEW r \in Attempts, r \notin U, r \notin O
    PROVE  Spent(n, U \cup {r}, O \cup {r}) = Spent(n, U, O) + 1 /\ Spent(n, U, O) \in Nat
<1>1. /\ Cardinality(U) \in Nat /\ Cardinality(O) \in Nat /\ IsFiniteSet(U) /\ IsFiniteSet(O)
  BY RequestsCount
<1>2. Cardinality(U \cup {r}) = Cardinality(U) + 1 /\ Cardinality(O \cup {r}) = Cardinality(O) + 1
  BY <1>1, FS_AddElement
<1>3. PerMinute \in Nat \ {0}
  BY LimiterAssumption
<1>4. QED
  BY <1>1, <1>2, <1>3 DEF Spent

\* A guess that is told is in the table instead.
LEMMA SpentIsTold ==
    ASSUME NEW n \in Nat, n < PerMinute, NEW U \in SUBSET Attempts, NEW O, NEW r \in U,
           NEW Q \in SUBSET Attempts, U \subseteq Q
    PROVE  Spent(n, U, O) =< Spent(n + 1, U \ {r}, Q) /\ Spent(n, U, O) \in Nat
<1>1. /\ Cardinality(U) \in Nat /\ Cardinality(Q) \in Nat /\ IsFiniteSet(U) /\ IsFiniteSet(Q)
  BY RequestsCount
<1>2. Cardinality(U \ {r}) = Cardinality(U) - 1
  BY <1>1, FS_RemoveElement
<1>3. Cardinality(U) =< Cardinality(Q)
  BY <1>1, FS_Subset
<1>4. PerMinute \in Nat \ {0}
  BY LimiterAssumption
<1>5. QED
  BY <1>1, <1>2, <1>3, <1>4 DEF Spent

\* What the bounds are over.
LEMMA GuessTypes ==
    ASSUME LimiterInv
    PROVE  /\ \A a : Held(a) \in Nat /\ Held(a) =< PerMinute
           /\ \A a : Untold(a) \in SUBSET Attempts /\ Others(a) \in SUBSET Attempts
<1>1. ASSUME NEW a PROVE Held(a) \in Nat /\ Held(a) =< PerMinute
  <2>1. PerMinute \in Nat
    BY LimiterAssumption
  <2>2. CASE a \in DOMAIN table
    <3>1. Len(table[a]) \in 1 .. PerMinute
      BY <2>2 DEF LimiterInv, Bounded
    <3>2. QED
      BY <2>1, <2>2, <3>1 DEF Held
  <2>3. CASE a \notin DOMAIN table
    BY <2>1, <2>3 DEF Held
  <2>4. QED
    BY <2>2, <2>3
<1>2. QED
  BY <1>1 DEF Untold, Others

\* GuessInv is enough.
LEMMA GuessInvSuffices == ASSUME LimiterInv, GuessInv PROVE GuessesBounded
<1> SUFFICES ASSUME NEW a \in Counted
             PROVE  guesses[a] =< PerMinute + Cardinality(Attempts) - 1
  BY DEF GuessesBounded
<1>1. guesses[a] \in Nat /\ guesses[a] =< Spent(Held(a), Untold(a), Others(a))
  BY DEF GuessInv
<1>2. /\ Cardinality(Untold(a)) \in Nat /\ Cardinality(Untold(a)) =< Cardinality(Attempts)
      /\ Cardinality(Others(a)) \in Nat /\ Cardinality(Others(a)) =< Cardinality(Attempts)
      /\ Held(a) \in Nat
  BY GuessTypes, RequestsCount
<1>3. PerMinute \in Nat \ {0} /\ Cardinality(Attempts) \in Nat
  BY LimiterAssumption, FS_CardinalityType
<1>4. QED
  BY <1>1, <1>2, <1>3 DEF Spent

\* A request counts under its client's address, whatever it claims.
LEMMA NothingIsForged ==
    ASSUME NEW c \in Peers, NEW chain \in Chains(c)
    PROVE  ClientAddress(IF Proxy = NoAddress THEN c ELSE Proxy, chain) = c
<1>1. CASE Proxy = NoAddress
  BY <1>1 DEF ClientAddress
<1>2. CASE Proxy # NoAddress
  <2>1. (\E d : chain = <<d, c>>) \/ chain = <<c>>
    BY <1>2 DEF Chains
  <2>2. chain # <<>> /\ Last(chain) = c
    BY <2>1 DEF Last
  <2>3. c # NoAddress
    BY LimiterAssumption
  <2>4. QED
    BY <1>2, <2>2, <2>3 DEF ClientAddress
<1>3. QED
  BY <1>1, <1>2

\* The steps of a request that touch neither the table nor the guesses.
LEMMA GuessOnTheWay ==
    ASSUME LimiterInv, GuessInv, NEW r \in Attempts,
           GuessArrives(r) \/ NoGuess(r) \/ ReadClock(r) \/ Answered(r)
    PROVE  GuessInv'
<1>1. table' = table /\ guesses' = guesses /\ DOMAIN attempts = Attempts /\ OnItsWay(attempts[r])
  BY DEF GuessArrives, NoGuess, ReadClock, Answered, LimiterInv
<1>2. SUFFICES ASSUME NEW next, attempts' = [attempts EXCEPT ![r] = next], OfItsClient(next),
                      next.at # "checking",
                      /\ next.at \in {"guessed", "telling"}
                            <=> attempts[r].at \in {"guessed", "telling"}
                      /\ next.at \in {"guessed", "telling"} => next.address = attempts[r].address
               PROVE  GuessInv'
  <2>1. CASE NoGuess(r) \/ Answered(r)
    <3>1. attempts' = [attempts EXCEPT ![r] = Unasked] /\ attempts[r].at \in {"checking", "limited"}
      BY <2>1 DEF NoGuess, Answered
    <3>2. Unasked.at = "idle"
      BY DEF Unasked
    <3>3. QED
      BY <1>2, <3>1, <3>2 DEF OfItsClient
  <2>2. CASE GuessArrives(r)
    <3>1. PICK c \in Peers : \E chain \in Chains(c) :
              attempts' = [attempts EXCEPT ![r] =
                  [at |-> "asking", client |-> CountedAs[c], time |-> clock,
                   address |-> CountedAs[ClientAddress(IF Proxy = NoAddress THEN c ELSE Proxy, chain)]]]
      BY <2>2 DEF GuessArrives
    <3>2. attempts' = [attempts EXCEPT ![r] =
              [at |-> "asking", client |-> CountedAs[c], time |-> clock, address |-> CountedAs[c]]]
      BY <3>1, NothingIsForged
    <3> DEFINE next == [at |-> "asking", client |-> CountedAs[c], time |-> clock,
                        address |-> CountedAs[c]]
    <3>3. next.at = "asking" /\ next.client = next.address
      OBVIOUS
    <3>4. attempts[r].at = "idle"
      BY <2>2 DEF GuessArrives, Unasked
    <3>5. attempts' = [attempts EXCEPT ![r] = next]
      BY <3>2
    <3> HIDE DEF next
    <3>6. QED
      BY <1>2, <3>3, <3>4, <3>5 DEF OfItsClient
  <2>3. CASE ReadClock(r)
    <3> DEFINE next == [attempts[r] EXCEPT !.at = "telling", !.time = clock]
    <3>1. attempts' = [attempts EXCEPT ![r] = next] /\ attempts[r].at = "guessed"
      BY <1>1, <2>3 DEF ReadClock
    <3>2. attempts[r] \in [at : {"asking", "checking", "guessed", "telling"}, client : Counted,
                           time : Nat, address : Addresses]
      BY <1>1, <3>1, AttemptFields
    <3>3. /\ next.at = "telling" /\ next.client = attempts[r].client
          /\ next.address = attempts[r].address
      BY <3>2
    <3>4. attempts[r].client = attempts[r].address
      BY <3>1 DEF GuessInv, OfItsClient
    <3> HIDE DEF next
    <3>5. QED
      BY <1>2, <3>1, <3>3, <3>4 DEF OfItsClient
  <2>4. QED
    BY <2>1, <2>2, <2>3
<1>3. \A q \in Attempts : attempts'[q] = IF q = r THEN next ELSE attempts[q]
  BY <1>1, <1>2
<1>4. \A q \in Attempts : OfItsClient(attempts'[q])
  BY <1>2, <1>3 DEF GuessInv
<1>5. ASSUME NEW a \in Counted
      PROVE  guesses'[a] =< Spent(Held(a)', Untold(a)', Others(a)')
  <2>1. Held(a)' = Held(a)
    BY <1>1 DEF Held
  <2>2. Untold(a)' = Untold(a)
    BY <1>2, <1>3 DEF Untold
  <2>3. Others(a) \subseteq Others(a)' /\ Others(a)' \in SUBSET Attempts
    BY <1>2, <1>3 DEF Others
  <2>4. guesses[a] =< Spent(Held(a), Untold(a), Others(a)) /\ guesses[a] \in Nat
    BY DEF GuessInv
  <2>5. /\ Spent(Held(a), Untold(a), Others(a)) =< Spent(Held(a), Untold(a), Others(a)')
        /\ Spent(Held(a), Untold(a), Others(a)) \in Nat
        /\ Spent(Held(a), Untold(a), Others(a)') \in Nat
    BY <2>3, GuessTypes, SpentGrows
  <2>6. QED
    BY <1>1, <2>1, <2>2, <2>4, <2>5
<1>6. QED
  BY <1>1, <1>4, <1>5 DEF GuessInv

\* A guess is checked.
LEMMA GuessIsChecked ==
    ASSUME LimiterInv, GuessInv, NEW r \in Attempts, Guess(r)
    PROVE  GuessInv'
<1> DEFINE c == attempts[r].client
           next == [attempts[r] EXCEPT !.at = "guessed"]
<1>1. /\ table' = table /\ DOMAIN attempts = Attempts /\ attempts[r].at = "checking"
      /\ attempts' = [attempts EXCEPT ![r] = next]
      /\ guesses' = [guesses EXCEPT ![c] = guesses[c] + 1]
  BY DEF Guess, LimiterInv
<1>2. /\ attempts[r] \in [at : {"asking", "checking", "guessed", "telling"}, client : Counted,
                          time : Nat, address : Addresses]
      /\ attempts[r].address = c
  BY <1>1, AttemptFields DEF LimiterInv, GuessInv, OfItsClient
<1>3. next.at = "guessed" /\ next.client = c /\ next.address = c /\ c \in Counted
  BY <1>2
<1> HIDE DEF next, c
<1>4. \A q \in Attempts : attempts'[q] = IF q = r THEN next ELSE attempts[q]
  BY <1>1
<1>5. guesses \in [Counted -> Nat] /\ guesses[c] + 1 \in Nat
  BY <1>3 DEF GuessInv
<1>6. guesses' \in [Counted -> Nat]
  BY <1>1, <1>5
<1>7. \A q \in Attempts : OfItsClient(attempts'[q])
  BY <1>3, <1>4 DEF GuessInv, OfItsClient
<1>8. ASSUME NEW a \in Counted
      PROVE  guesses'[a] =< Spent(Held(a)', Untold(a)', Others(a)')
  <2>1. Held(a)' = Held(a) /\ Held(a) \in Nat
    BY <1>1, GuessTypes DEF Held
  <2>2. guesses[a] =< Spent(Held(a), Untold(a), Others(a)) /\ guesses[a] \in Nat
    BY DEF GuessInv
  <2>3. CASE a = c
    <3>1. Untold(a)' = Untold(a) \cup {r} /\ r \notin Untold(a)
      BY <1>1, <1>3, <1>4, <2>3 DEF Untold
    <3>2. Others(a)' = Others(a) \cup {r} /\ r \notin Others(a)
      BY <1>1, <1>2, <1>3, <1>4, <2>3 DEF Others
    <3>3. guesses'[a] = guesses[a] + 1
      BY <1>1, <1>5, <2>3
    <3>4. /\ Spent(Held(a), Untold(a)', Others(a)') = Spent(Held(a), Untold(a), Others(a)) + 1
          /\ Spent(Held(a), Untold(a), Others(a)) \in Nat
      BY <2>1, <3>1, <3>2, GuessTypes, SpentByOne
    <3>5. QED
      BY <2>1, <2>2, <3>3, <3>4
  <2>4. CASE a # c
    <3>1. Untold(a)' = Untold(a) /\ Others(a)' = Others(a)
      BY <1>1, <1>2, <1>3, <1>4, <2>4 DEF Untold, Others
    <3>2. guesses'[a] = guesses[a]
      BY <1>1, <1>5, <2>4
    <3>3. QED
      BY <2>1, <2>2, <3>1, <3>2
  <2>5. QED
    BY <2>3, <2>4
<1>9. QED
  BY <1>6, <1>7, <1>8 DEF GuessInv

\* After a step the table has a number of failures too, so a client whose count starts anew is
\* below its bound.
LEMMA StartsAnew ==
    ASSUME LimiterInv', NEW a
    PROVE  0 =< Spent(Held(a)', Untold(a)', Others(a)')
<1>1. Held(a)' \in Nat
  <2>1. PerMinute \in Nat
    BY LimiterAssumption
  <2>2. CASE a \in DOMAIN table'
    <3>1. Len(table'[a]) \in 1 .. PerMinute
      BY <2>2 DEF LimiterInv, Bounded
    <3>2. QED
      BY <2>1, <2>2, <3>1 DEF Held
  <2>3. CASE a \notin DOMAIN table'
    BY <2>3 DEF Held
  <2>4. QED
    BY <2>2, <2>3
<1>2. Untold(a)' \in SUBSET Attempts /\ Others(a)' \in SUBSET Attempts
  BY DEF Untold, Others
<1>3. Spent(Held(a)', Untold(a)', Others(a)') \in Nat
  BY <1>1, <1>2, SpentGrows
<1>4. QED
  BY <1>3

\* The limiter is asked: at the limit nobody is let in, unless a failure was forgotten.
LEMMA GuessAsked ==
    ASSUME LimiterInv, GuessInv, NEW r \in Attempts, AskLimiter(r), LimiterInv'
    PROVE  GuessInv'
<1> DEFINE a == attempts[r].address
           time == attempts[r].time
           next == IF Limited(a, time)
                   THEN [at |-> "limited", client |-> attempts[r].client, address |-> a, time |-> time,
                         wait |-> RetryAfter(a, time)]
                   ELSE [attempts[r] EXCEPT !.at = "checking"]
           left == ForgetOld(table[a], time)
<1>0. PerMinute \in Nat \ {0}
  BY LimiterAssumption
<1>1. /\ attempts[r].at = "asking" /\ table' = AskedAbout(a, time)
      /\ OnItsWay(attempts[r]) /\ Bounded(table, Capacity) /\ DOMAIN attempts = Attempts
      /\ guesses' = [guesses EXCEPT ![a] = IF Forgets(a, time) THEN 0 ELSE guesses[a]]
  BY DEF AskLimiter, LimiterInv
<1>2. attempts' = [attempts EXCEPT ![r] = next]
  BY DEF AskLimiter, LimiterInv
<1>3. /\ attempts[r] \in [at : {"asking", "checking", "guessed", "telling"}, client : Counted,
                          time : Nat, address : Addresses]
      /\ time \in Nat /\ attempts[r].client = a /\ a \in Counted
  <2>1. /\ attempts[r] \in [at : {"asking", "checking", "guessed", "telling"}, client : Counted,
                            time : Nat, address : Addresses]
        /\ time \in Nat
    BY <1>1, AttemptFields
  <2>2. attempts[r].client = a
    BY <1>1 DEF GuessInv, OfItsClient
  <2>3. attempts[r].client \in Counted
    BY <2>1
  <2>4. QED
    BY <2>1, <2>2, <2>3
<1>4. /\ next.at \in {"limited", "checking"} /\ (next.at = "limited" <=> Limited(a, time))
      /\ next.client = a /\ next.address = a
  <2>1. CASE Limited(a, time)
    BY <1>3, <2>1
  <2>2. CASE ~Limited(a, time)
    BY <1>3, <2>2
  <2>3. QED
    BY <2>1, <2>2
<1> HIDE DEF next, time, a
<1>5. \A q \in Attempts : attempts'[q] = IF q = r THEN next ELSE attempts[q]
  BY <1>1, <1>2
<1>6. guesses \in [Counted -> Nat] /\ guesses' \in [Counted -> Nat]
  BY <1>1, <1>3 DEF GuessInv
<1>7. \A q \in Attempts : OfItsClient(attempts'[q])
  BY <1>4, <1>5 DEF GuessInv, OfItsClient
<1>8. ASSUME NEW b \in Counted
      PROVE  guesses'[b] =< Spent(Held(b)', Untold(b)', Others(b)')
  <2>1. guesses[b] =< Spent(Held(b), Untold(b), Others(b)) /\ guesses[b] \in Nat
    BY DEF GuessInv
  <2>2. Untold(b)' = Untold(b)
    BY <1>1, <1>4, <1>5 DEF Untold
  <2>3. CASE b # a
    <3>1. Held(b)' = Held(b)
      BY <1>1, <2>3 DEF Held, AskedAbout, WithFailures, WithoutFailures
    <3>2. Others(b)' = Others(b)
      BY <1>1, <1>4, <1>5, <2>3 DEF Others
    <3>3. guesses'[b] = guesses[b]
      BY <1>1, <1>6, <2>3
    <3>4. QED
      BY <2>1, <2>2, <3>1, <3>2, <3>3
  <2>4. CASE b = a /\ Forgets(a, time)
    <3>1. guesses'[b] = 0
      BY <1>1, <1>3, <1>6, <2>4
    <3>2. QED
      BY <3>1, StartsAnew
  <2>5. CASE b = a /\ ~Forgets(a, time)
    <3>1. guesses'[b] = guesses[b]
      BY <1>1, <1>6, <2>5
    <3>2. /\ Held(b)' = Held(b)
          /\ Held(b) >= PerMinute => Limited(a, time)
      <4>1. CASE a \notin DOMAIN table
        BY <1>0, <1>1, <2>5, <4>1 DEF Held, AskedAbout
      <4>2. CASE a \in DOMAIN table
        <5>1. table[a] \in Seq(Nat) /\ Len(table[a]) \in 1 .. PerMinute
          BY <1>1, <4>2 DEF Bounded
        <5>2. left \in Seq(Nat) /\ Len(left) =< Len(table[a])
          BY <1>3, <5>1, ForgetsSome
        <5>3. Len(left) \in Nat /\ ~(Len(left) < Len(table[a]))
          BY <2>5, <4>2, <5>2, LenProperties DEF Forgets
        <5>4. Len(left) = Len(table[a])
          BY <1>0, <5>1, <5>2, <5>3
        <5>5. left # <<>>
          <6>1. Len(<<>>) = 0
            OBVIOUS
          <6> HIDE DEF left
          <6>2. QED
            BY <1>0, <5>1, <5>4, <6>1
        <5>6. table' = WithFailures(table, a, left)
          BY <1>1, <4>2, <5>5 DEF AskedAbout
        <5>7. Limited(a, time) <=> Len(left) >= PerMinute
          BY <4>2 DEF Limited
        <5> HIDE DEF left
        <5>8. Held(b)' = Len(left) /\ Held(b) = Len(table[a])
          BY <2>5, <4>2, <5>6 DEF Held, WithFailures
        <5>9. QED
          BY <5>4, <5>7, <5>8
      <4>3. QED
        BY <4>1, <4>2
    <3>3. Held(b) >= PerMinute => Others(b) \subseteq Others(b)'
      BY <1>1, <1>4, <1>5, <3>2 DEF Others
    <3>4. Others(b)' \in SUBSET Attempts
      BY DEF Others
    <3>5. /\ Spent(Held(b), Untold(b), Others(b)) =< Spent(Held(b), Untold(b), Others(b)')
          /\ Spent(Held(b), Untold(b), Others(b)) \in Nat
          /\ Spent(Held(b), Untold(b), Others(b)') \in Nat
      BY <3>3, <3>4, GuessTypes, SpentGrows
    <3>6. QED
      BY <2>1, <2>2, <3>1, <3>2, <3>5
  <2>6. QED
    BY <2>3, <2>4, <2>5
<1>9. QED
  BY <1>6, <1>7, <1>8 DEF GuessInv

\* Room is made by taking addresses out, never the one that needs it.
LEMMA RoomyKeeps ==
    ASSUME NEW a, NEW time, NEW roomy \in Roomy(a, time)
    PROVE  /\ DOMAIN roomy \subseteq DOMAIN table
           /\ \A b \in DOMAIN roomy : roomy[b] = table[b]
           /\ a \in DOMAIN table => roomy = table
<1>1. CASE ~(a \notin DOMAIN table /\ Cardinality(DOMAIN table) >= Capacity)
  BY <1>1 DEF Roomy
<1>2. CASE a \notin DOMAIN table /\ Cardinality(DOMAIN table) >= Capacity
  <2> DEFINE kept == WithoutFailures(table, {b \in DOMAIN table :
                                            table[b] = <<>> \/ time >= Last(table[b]) + Window})
             stalest == {b \in DOMAIN kept : \A d \in DOMAIN kept : Last(kept[b]) =< Last(kept[d])}
  <2>1. roomy \in MakeRoom(table, time)
    BY <1>2 DEF Roomy
  <2>2. roomy = kept \/ \E b \in stalest : roomy = WithoutFailures(kept, {b})
    BY <2>1 DEF MakeRoom
  <2>3. DOMAIN kept \subseteq DOMAIN table /\ \A b \in DOMAIN kept : kept[b] = table[b]
    BY DEF WithoutFailures
  <2> HIDE DEF kept, stalest
  <2>4. QED
    BY <1>2, <2>2, <2>3 DEF WithoutFailures
<1>3. QED
  BY <1>1, <1>2

\* A failure told takes the place of the untold guess; who makes room for it starts anew.
LEMMA GuessTold ==
    ASSUME LimiterInv, GuessInv, NEW r \in Attempts, Failed(r), LimiterInv'
    PROVE  GuessInv'
<1> DEFINE a == attempts[r].address
           time == attempts[r].time
<1>0. PerMinute \in Nat \ {0}
  BY LimiterAssumption
<1>1. /\ attempts[r].at = "telling" /\ attempts' = [attempts EXCEPT ![r] = Unasked]
      /\ OnItsWay(attempts[r]) /\ Bounded(table, Capacity) /\ DOMAIN attempts = Attempts
  BY DEF Failed, LimiterInv
<1>2. time \in Nat
  BY <1>1, AttemptFields
<1>3. PICK roomy \in Roomy(a, time) :
          LET had == IF a \in DOMAIN roomy THEN ForgetOld(roomy[a], time) ELSE <<>>
          IN  /\ table' = WithFailures(roomy, a, IF Len(had) < PerMinute THEN Append(had, time) ELSE had)
              /\ guesses' = [b \in Counted |->
                    IF b \in DOMAIN table \ DOMAIN roomy \/ (b = a /\ Forgets(a, time))
                    THEN 0 ELSE guesses[b]]
  BY DEF Failed
<1> HIDE DEF a, time
<1> DEFINE had == IF a \in DOMAIN roomy THEN ForgetOld(roomy[a], time) ELSE <<>>
           has == IF Len(had) < PerMinute THEN Append(had, time) ELSE had
           anew == {b \in Counted : b \in DOMAIN table \ DOMAIN roomy \/ (b = a /\ Forgets(a, time))}
<1>4. table' = WithFailures(roomy, a, has)
  BY <1>3
<1>5. \A b \in Counted : guesses'[b] = IF b \in anew THEN 0 ELSE guesses[b]
  BY <1>3
<1>6. guesses \in [Counted -> Nat] /\ guesses' \in [Counted -> Nat]
  <2>1. guesses \in [Counted -> Nat]
    BY DEF GuessInv
  <2>2. QED
    BY <1>3, <2>1
<1>7. /\ DOMAIN roomy \subseteq DOMAIN table /\ (a \in DOMAIN table => roomy = table)
      /\ \A b \in DOMAIN roomy : roomy[b] = table[b]
  BY <1>3, RoomyKeeps
<1>8. Unasked.at = "idle"
  BY DEF Unasked
<1>9. \A q \in Attempts : attempts'[q] = IF q = r THEN Unasked ELSE attempts[q]
  BY <1>1
<1>10. \A q \in Attempts : OfItsClient(attempts'[q])
  BY <1>8, <1>9 DEF GuessInv, OfItsClient
<1>11. a \notin anew => Len(had) = Held(a) /\ had \in Seq(Nat)
  <2> SUFFICES ASSUME a \notin anew PROVE Len(had) = Held(a) /\ had \in Seq(Nat)
    OBVIOUS
  <2>1. CASE a \notin DOMAIN table
    <3>1. had = <<>> /\ Held(a) = 0
      BY <1>7, <2>1 DEF Held
    <3> HIDE DEF had
    <3>2. QED
      BY <3>1
  <2>2. CASE a \in DOMAIN table
    <3>1. roomy = table /\ had = ForgetOld(table[a], time)
      BY <1>7, <2>2
    <3>2. table[a] \in Seq(Nat) /\ Len(table[a]) \in 1 .. PerMinute
      BY <1>1, <2>2 DEF Bounded
    <3>3. ForgetOld(table[a], time) \in Seq(Nat) /\ Len(ForgetOld(table[a], time)) =< Len(table[a])
      BY <1>2, <3>2, ForgetsSome
    <3>4. ~Forgets(a, time)
      <4>1. a \in Counted
        <5>1. attempts[r].client = a
          BY <1>1 DEF GuessInv, OfItsClient, a
        <5>2. attempts[r] \in [at : {"asking", "checking", "guessed", "telling"},
                               client : Counted, time : Nat, address : Addresses]
          BY <1>1, AttemptFields
        <5>3. attempts[r].client \in Counted
          BY <5>2
        <5>4. QED
          BY <5>1, <5>3
      <4>2. QED
        BY <4>1
    <3>5. ~(Len(ForgetOld(table[a], time)) < Len(table[a]))
      BY <2>2, <3>4 DEF Forgets
    <3>6. Len(ForgetOld(table[a], time)) \in Nat
      BY <3>3, LenProperties
    <3>7. Held(a) = Len(table[a])
      BY <2>2 DEF Held
    <3> HIDE DEF had
    <3>8. QED
      BY <1>0, <3>1, <3>2, <3>3, <3>5, <3>6, <3>7
  <2>3. QED
    BY <2>1, <2>2
<1>12. ASSUME NEW b \in Counted
       PROVE  guesses'[b] =< Spent(Held(b)', Untold(b)', Others(b)')
  <2>1. guesses[b] =< Spent(Held(b), Untold(b), Others(b)) /\ guesses[b] \in Nat
    BY DEF GuessInv
  <2>2. CASE b \in anew
    <3>1. guesses'[b] = 0
      BY <1>5, <2>2
    <3>2. QED
      BY <3>1, StartsAnew
  <2>3. CASE b \notin anew /\ b # a
    <3>1. Untold(b)' = Untold(b) /\ Others(b)' = Others(b)
      BY <1>1, <1>8, <1>9, <2>3 DEF Untold, Others, a
    <3>2. b \in DOMAIN table <=> b \in DOMAIN roomy
      BY <1>7, <2>3
    <3>3. Held(b)' = Held(b)
      BY <1>4, <1>7, <2>3, <3>2 DEF Held, WithFailures
    <3>4. guesses'[b] = guesses[b]
      BY <1>5, <2>3
    <3>5. QED
      BY <2>1, <3>1, <3>3, <3>4
  <2>4. CASE b \notin anew /\ b = a
    <3>1. /\ Untold(b)' = Untold(b) \ {r} /\ r \in Untold(b) /\ Others(b)' \in SUBSET Attempts
          /\ Others(b) \subseteq Others(b)'
      BY <1>1, <1>8, <1>9, <2>4 DEF Untold, Others, a
    <3>2. Untold(b) \subseteq Others(b)'
      BY <1>8, <1>9 DEF Untold, Others
    <3>3. guesses'[b] = guesses[b]
      BY <1>5, <2>4
    <3>4. Held(b)' = Len(has)
      BY <1>4, <2>4 DEF Held, WithFailures
    <3>5. Len(had) = Held(b) /\ had \in Seq(Nat) /\ Held(b) \in Nat
      BY <1>11, <2>4, GuessTypes
    <3> HIDE DEF had, anew
    <3>6. CASE Held(b) < PerMinute
      <4>1. has = Append(had, time)
        BY <3>5, <3>6
      <4>2. Len(Append(had, time)) = Len(had) + 1
        BY <1>2, <3>5
      <4>3. Held(b)' = Held(b) + 1
        BY <3>4, <3>5, <4>1, <4>2
      <4>4. /\ Spent(Held(b), Untold(b), Others(b)) =< Spent(Held(b) + 1, Untold(b) \ {r}, Others(b)')
            /\ Spent(Held(b), Untold(b), Others(b)) \in Nat
        BY <3>1, <3>2, <3>5, <3>6, GuessTypes, SpentIsTold
      <4>5. Spent(Held(b) + 1, Untold(b) \ {r}, Others(b)') \in Nat
        <5>1. Held(b) + 1 \in Nat /\ Untold(b) \ {r} \in SUBSET Attempts
          BY <3>5, GuessTypes
        <5>2. QED
          BY <3>1, <5>1, SpentGrows
      <4>6. QED
        BY <2>1, <3>1, <3>3, <4>3, <4>4, <4>5
    <3>7. CASE ~(Held(b) < PerMinute)
      <4>1. has = had /\ Held(b)' = Held(b)
        BY <3>4, <3>5, <3>7
      <4>2. /\ Cardinality(Others(b)) =< Cardinality(Others(b)')
            /\ Cardinality(Others(b)) \in Nat /\ Cardinality(Others(b)') \in Nat
        BY <3>1, RequestsCount, FS_Subset
      <4>3. /\ Spent(Held(b), Untold(b), Others(b)) = PerMinute - 1 + Cardinality(Others(b))
            /\ Spent(Held(b), Untold(b)', Others(b)') = PerMinute - 1 + Cardinality(Others(b)')
        BY <3>7 DEF Spent
      <4>4. QED
        BY <1>0, <2>1, <3>3, <4>1, <4>2, <4>3
    <3>8. QED
      BY <3>6, <3>7
  <2>5. QED
    BY <2>2, <2>3, <2>4
<1>13. QED
  BY <1>6, <1>10, <1>12 DEF GuessInv

\* GuessesBounded: while none of its failures is forgotten, a client has no more guesses checked
\* than the limit and the requests that are in flight when it reaches it, for any limit, window
\* and capacity, any number of requests in flight, whatever it claims in X-Forwarded-For and
\* however long each request takes (rate.rs, auth.rs).
THEOREM GuessesAreBounded == LimiterSpec => []GuessesBounded
<1>1. LimiterInit => LimiterInv /\ GuessInv
  <2> SUFFICES ASSUME LimiterInit PROVE LimiterInv /\ GuessInv
    OBVIOUS
  <2>1. DOMAIN table = {}
    BY DEF LimiterInit
  <2>2. Bounded(table, Capacity)
    BY <2>1, FS_EmptySet, LimiterAssumption DEF Bounded
  <2>3. LimiterInv
    BY <2>2 DEF LimiterInit, LimiterInv, OnItsWay
  <2>4. Unasked.at = "idle" /\ \A q \in Attempts : attempts[q] = Unasked
    BY DEF LimiterInit, Unasked
  <2>5. \A q \in Attempts : OfItsClient(attempts[q])
    BY <2>4 DEF OfItsClient
  <2>6. guesses \in [Counted -> Nat] /\ \A a \in Counted : guesses[a] = 0
    BY DEF LimiterInit
  <2>7. ASSUME NEW a \in Counted PROVE guesses[a] =< Spent(Held(a), Untold(a), Others(a))
    <3>1. Spent(Held(a), Untold(a), Others(a)) \in Nat
      BY <2>3, GuessTypes, SpentGrows
    <3>2. QED
      BY <2>6, <3>1
  <2>8. QED
    BY <2>3, <2>5, <2>6, <2>7 DEF GuessInv
<1>2. LimiterInv /\ GuessInv /\ [LimiterNext]_limiter => LimiterInv' /\ GuessInv'
  <2> SUFFICES ASSUME LimiterInv, GuessInv, [LimiterNext]_limiter PROVE LimiterInv' /\ GuessInv'
    OBVIOUS
  <2>1. CASE UNCHANGED limiter
    BY <2>1 DEF limiter, LimiterInv, GuessInv, Held, Untold, Others
  <2>2. CASE TimePasses
    <3>1. clock' = clock + 1 /\ table' = table /\ attempts' = attempts /\ guesses' = guesses
      BY <2>2 DEF TimePasses
    <3>2. clock' \in Nat
      BY <3>1 DEF LimiterInv
    <3>3. LimiterInv'
      BY <3>1, <3>2 DEF LimiterInv
    <3>4. GuessInv'
      BY <3>1 DEF GuessInv, Held, Untold, Others
    <3>5. QED
      BY <3>3, <3>4
  <2>3. ASSUME NEW q \in Attempts,
               \/ GuessArrives(q) \/ AskLimiter(q) \/ Guess(q) \/ NoGuess(q) \/ ReadClock(q)
               \/ Failed(q) \/ Answered(q)
        PROVE  LimiterInv' /\ GuessInv'
    <3>1. LimiterInv'
      BY <2>3, OnTheWaySafe, AskLimiterSafe, FailedSafe
    <3>2. GuessInv'
      BY <2>3, <3>1, GuessOnTheWay, GuessIsChecked, GuessAsked, GuessTold
    <3>3. QED
      BY <3>1, <3>2
  <2>4. QED
    BY <2>1, <2>2, <2>3 DEF LimiterNext
<1>3. LimiterInv /\ GuessInv => GuessesBounded
  BY GuessInvSuffices
<1>4. QED
  BY <1>1, <1>2, <1>3, PTL DEF LimiterSpec

=============================================================================
