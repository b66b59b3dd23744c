----------------------------- MODULE ContentRange -----------------------------
(***************************************************************************)
(* getItemContent (crates/passalong-server-api, handlers/items.rs): the     *)
(* item is looked at for its size, the Range header is read against that    *)
(* size (`one_range`, bridge.rs), the content is opened at the first byte,  *)
(* and as many bytes leave as the headers promised (`stream_out`).          *)
(* Looking and opening are two calls of the engine, each with its own look  *)
(* at the workspace, and another content may be stored under the id between *)
(* them.                                                                    *)
(*                                                                          *)
(* A part of the header is empty, a number, or Junk (anything that is no    *)
(* number, or none that a u64 holds).  Content is its version and size.     *)
(***************************************************************************)
EXTENDS Naturals, FiniteSetsExt

CONSTANTS
  MaxSize,     \* bound: the size of contents, and of the numbers asked for
  Changes      \* bound: how often another content is stored under the id

ASSUME RangeAssumption == MaxSize \in Nat /\ Changes \in Nat

VARIABLES
  item,       \* what is stored under the id: its version and size, and whether it is there
  request,    \* the parts of the header, where the handler is, what it has
  sent        \* the bytes that left: from which offset, and how many

answer == <<item, request, sent>>

Empty == MaxSize + 1
Junk == MaxSize + 2
Part == 0..Junk
IsNumber(part) == part <= MaxSize

(* No header, another unit, several ranges, or no dash: not one range.     *)
Header == [form : {"other"}, first : {Empty}, last : {Empty}]
          \cup [form : {"range"}, first : Part, last : Part]

Whole == [kind |-> "whole", first |-> 0, last |-> 0]
Beyond == [kind |-> "beyond", first |-> 0, last |-> 0]

\* saturating_sub.
Less(a, b) == IF a > b THEN a - b ELSE 0

\* Mutant of OneRange: the last byte is the one asked for, there or not.
OneRangeUnbounded(h, size) ==
  IF h.form = "range" /\ IsNumber(h.first) /\ IsNumber(h.last) /\ h.first <= h.last
  THEN IF h.first >= size THEN Beyond
       ELSE [kind |-> "part", first |-> h.first, last |-> h.last]
  ELSE Whole

(* `one_range`.                                                            *)
OneRange(h, size) ==
  LET end == Less(size, 1)
      part == CASE IsNumber(h.first) /\ IsNumber(h.last) /\ h.first <= h.last ->
                     [kind |-> "part", first |-> h.first, last |-> Min({h.last, end})]
                [] IsNumber(h.first) /\ h.last = Empty ->
                     [kind |-> "part", first |-> h.first, last |-> end]
                [] h.first = Empty /\ IsNumber(h.last) /\ h.last > 0 ->
                     [kind |-> "part", first |-> Less(size, h.last), last |-> end]
                [] OTHER -> Whole
  IN IF h.form = "other" \/ part = Whole THEN Whole
     ELSE IF size = 0 \/ part.first >= size THEN Beyond
     ELSE part

Nothing == [version |-> 0, size |-> 0, there |-> FALSE]
NoRequest == [at |-> "idle", header |-> [form |-> "other", first |-> Empty, last |-> Empty],
         range |-> Whole, looked |-> Nothing, opened |-> Nothing, length |-> 0]

RangeInit ==
  /\ item \in [version : {0}, size : 0..MaxSize, there : {TRUE}]
  /\ request = NoRequest
  /\ sent = [from |-> 0, count |-> 0]

AskFor(h) ==
  /\ request.at = "idle"
  /\ request' = [request EXCEPT !.at = "look", !.header = h]
  /\ UNCHANGED <<item, sent>>

(* The item's size, and what is asked of it; 416 if it lies beyond.        *)
Look ==
  LET range == OneRange(request.header, item.size)
  IN /\ request.at = "look"
     /\ item.there
     /\ request' = [request EXCEPT
          !.at = IF range = Beyond THEN "416" ELSE "open",
          !.looked = item,
          !.range = range,
          !.length = IF range = Beyond \/ item.size = 0 THEN 0
                     ELSE IF range = Whole THEN item.size
                     ELSE range.last - range.first + 1]
     /\ UNCHANGED <<item, sent>>

(* The content that is there now, from the first byte on; from here on the
   file is held.                                                           *)
OpenContent ==
  /\ request.at = "open"
  /\ item.there
  /\ request' = [request EXCEPT !.at = "stream", !.opened = item]
  /\ sent' = [from |-> request.range.first, count |-> 0]
  /\ UNCHANGED item

(* There is no such item, or no longer.                                    *)
NotFound ==
  /\ request.at \in {"look", "open"}
  /\ ~item.there
  /\ request' = [request EXCEPT !.at = "404"]
  /\ UNCHANGED <<item, sent>>

(* `stream_out`: "the content ended early", and the connection breaks.     *)
EndsEarly ==
  /\ request.at = "stream"
  /\ sent.count < request.length
  /\ sent.from + sent.count >= request.opened.size
  /\ request' = [request EXCEPT !.at = "broken"]
  /\ UNCHANGED <<item, sent>>

(* A piece leaves: as much of it as one read gives.                        *)
Send(n) ==
  /\ request.at = "stream"
  /\ sent.count + n <= request.length
  /\ sent.from + sent.count + n <= request.opened.size
  /\ sent' = [sent EXCEPT !.count = @ + n]
  /\ UNCHANGED <<item, request>>

(* Everything that was promised has left.                                  *)
Finished ==
  /\ request.at = "stream"
  /\ sent.count = request.length
  /\ request' = [request EXCEPT !.at = "done"]
  /\ UNCHANGED <<item, sent>>

(* The item is deleted, or stored or rewritten under its id.               *)
Delete ==
  /\ item.there
  /\ item' = [item EXCEPT !.there = FALSE]
  /\ UNCHANGED <<request, sent>>

Change(size) ==
  /\ item.version < Changes
  /\ item' = [version |-> item.version + 1, size |-> size, there |-> TRUE]
  /\ UNCHANGED <<request, sent>>

RangeNext ==
  \/ \E h \in Header : AskFor(h)
  \/ Look \/ OpenContent \/ NotFound \/ EndsEarly \/ Finished \/ Delete
  \/ \E n \in 1..MaxSize : Send(n)
  \/ \E size \in 0..MaxSize : Change(size)

RangeSpec == RangeInit /\ [][RangeNext]_answer

-----------------------------------------------------------------------------
(* The bytes a header selects of a content, by the meaning of the header and
   not by how it is computed; all of them for what is no range.            *)
IsRange(h) ==
  /\ h.form = "range"
  /\ \/ IsNumber(h.first) /\ IsNumber(h.last) /\ h.first <= h.last
     \/ IsNumber(h.first) /\ h.last = Empty
     \/ h.first = Empty /\ IsNumber(h.last) /\ h.last > 0
Selects(h, size, offset) ==
  /\ offset < size
  /\ IsRange(h) => /\ IsNumber(h.first) => h.first <= offset
                   /\ h.first = Empty => size - offset <= h.last
                   /\ IsNumber(h.first) /\ IsNumber(h.last) => offset <= h.last
Selected(h, size) == {o \in 0..MaxSize : Selects(h, size, o)}
Left == {o \in 0..MaxSize : sent.from <= o /\ o < sent.from + sent.count}

(* An answer that came to its end is exactly the bytes that the header
   selects of the content, unless that content was replaced between the look
   and the opening; and one is refused as beyond the content only if it
   selects none (one_range, get_item_content).  Whatever happened to the item,
   an answer that ends without an error is as long as its headers said: what
   is missing is never the client's guess (stream_out).                    *)
ExactlyWhatWasAsked ==
  /\ request.at = "done" /\ request.opened = request.looked =>
       Left = Selected(request.header, request.looked.size)
  /\ request.at = "416" => Selected(request.header, request.looked.size) = {}
  /\ request.at = "broken" => request.opened # request.looked
  /\ request.at = "done" => sent.count = request.length
=============================================================================
