------------------------------- MODULE Inflate -------------------------------
(***************************************************************************)
(* Decompression (src/src/tiles/compression.cpp): whole payloads, and      *)
(* InflatingByteStream, which inflates one piece by piece through a ring of*)
(* its last Window bytes.  One step is one call of tinfl, of the caller's  *)
(* reader or of memcpy.                                                    *)
(*                                                                         *)
(* tinfl (miniz) is external: `yields[c]` is how many bytes a payload's    *)
(* first c compressed units decode to, and `end` how it goes after the     *)
(* last: "done", "cut" short, "corrupt", or "stuck", asking for more       *)
(* without taking any.  It copies from the window: what it writes is       *)
(* garbage unless the ring holds the bytes it wrote last.                  *)
(***************************************************************************)
EXTENDS Integers, Sequences, FiniteSets

CONSTANTS
  Payloads,        \* [id, compression, head, yields, end, isize, crc]
  Window,          \* TINFL_LZ_DICT_SIZE
  Chunk,           \* kInflateChunkBytes
  Probe,           \* kMaxGzipHeaderProbe
  MaxOutput,       \* max_output_size
  Counts,          \* how many bytes a caller reads or skips at once
  MaxVarint,       \* the bytes of the longest varint
  NoPayload, NoCall, Garbage

VARIABLES
  payload,                       \* compression_, reader_, input_offset_, input_size_
  input_consumed, window_pos, avail_start, avail_len, finished, failed,
  window,                        \* window_, whose contents outlive a payload
  made,                          \* what tinfl has written since tinfl_init
  passed,                        \* the bytes behind consumed_
  call                           \* the caller's, while it runs

vars == <<payload, input_consumed, window_pos, avail_start, avail_len, finished, failed,
          window, made, passed, call>>

Smaller(a, b) == IF a < b THEN a ELSE b

-----------------------------------------------------------------------------
(* Payloads.                                                               *)

Units(p) == Len(p.yields)
Yield(p, c) == IF c = 0 THEN 0 ELSE p.yields[c]
Deflated(p) == [i \in 1..Yield(p, Units(p)) |-> <<p.id, i>>]

Ops == {"Read", "ReadVarint", "AtEnd"}

\* The ring holds a piece, a piece is at least a byte, decoding more never
\* yields less, and a unit of an uncompressed payload is a byte of it.
InflateAssumption ==
  /\ Window \in Nat \ {0} /\ Chunk \in 1..Window /\ Counts \subseteq Nat
  /\ NoPayload \notin Payloads /\ NoCall \notin [op : Ops, left : Nat, bytes : Nat]
  /\ \A p \in Payloads :
       /\ p.yields \in Seq(Nat)
       /\ \A i, j \in DOMAIN p.yields : i <= j => p.yields[i] <= p.yields[j]
       /\ p.compression = "none" => \A i \in DOMAIN p.yields : p.yields[i] = i

\* Where a string or the field before it ends, when no byte from `limit` on may
\* be looked at: one past the limit if its zero is not found before it.
StringEnd(pos, length, limit) ==
  IF length < 0 THEN pos
  ELSE IF pos + length < limit THEN pos + length + 1
  ELSE (IF pos < limit THEN limit ELSE pos) + 1

\* The optional parts of a gzip header, absent when negative; 0 when the
\* length of the extra field is cut off.
HeaderEnd(p, limit) ==
  LET extra == IF p.head.extra < 0 THEN 10 ELSE 12 + p.head.extra
      name == StringEnd(extra, p.head.name, limit)
      comment == StringEnd(name, p.head.comment, limit)
  IN  IF p.head.extra >= 0 /\ 12 > limit THEN 0
      ELSE comment + (IF p.head.crc THEN 2 ELSE 0)

HeaderSize(p) == HeaderEnd(p, 2 * (14 + p.head.extra + p.head.name + p.head.comment))
InputSize(p) == IF p.compression = "none" THEN Units(p) ELSE HeaderSize(p) + Units(p) + 8

StripGzipWrapper(p) ==
  LET pos == HeaderEnd(p, InputSize(p))
  IN  InputSize(p) >= 18 /\ p.head.magic /\ pos > 0 /\ pos + 8 <= InputSize(p)

\* The same over the front of the payload: a header longer than the probe is
\* refused.
ProbeHeader(p) ==
  LET limit == Smaller(Probe, InputSize(p))
      pos == HeaderEnd(p, limit)
  IN  InputSize(p) >= 18 /\ p.head.magic /\ pos \in 1..limit /\ pos + 8 <= InputSize(p)

Refused == [ok |-> FALSE, output |-> <<>>]

\* What is left of the inflated bytes after the checks of length and CRC.
Checked(p) ==
  IF p.isize > MaxOutput THEN Refused
  ELSE IF p.isize = 0 THEN [ok |-> Units(p) = 0, output |-> <<>>]
  ELSE IF p.end = "done" /\ Len(Deflated(p)) = p.isize /\ p.crc
       THEN [ok |-> TRUE, output |-> Deflated(p)] ELSE Refused

DecompressPayload(p) ==
  IF p.compression = "none"
  THEN IF InputSize(p) <= MaxOutput THEN [ok |-> TRUE, output |-> Deflated(p)] ELSE Refused
  ELSE IF p.compression = "gzip" /\ StripGzipWrapper(p) THEN Checked(p) ELSE Refused

\* The same from a reader, piece by piece, into one buffer.
DecompressStreaming(p) ==
  IF p.compression = "none"
  THEN IF InputSize(p) <= MaxOutput THEN [ok |-> TRUE, output |-> Deflated(p)] ELSE Refused
  ELSE IF p.compression = "gzip" /\ ProbeHeader(p) THEN Checked(p) ELSE Refused

-----------------------------------------------------------------------------
(* tinfl.                                                                  *)

\* The ring holds the bytes written last, the next place being window_pos.
DictionaryIntact ==
  \A back \in 1..Smaller(made, Window) :
    window[(window_pos - back) % Window] = Deflated(payload)[made - back + 1]

\* The results of one call with `want` units of input at hand and room up to
\* the end of the ring.
Inflated(want) ==
  LET room == Window - window_pos
      reach == Yield(payload, input_consumed + want) - made
      last == input_consumed + want = Units(payload)
      all == [in |-> want, out |-> reach,
              status |-> IF ~last THEN "needs more input"
                         ELSE IF payload.end = "done" THEN "done"
                         ELSE IF payload.end = "stuck" THEN "needs more input" ELSE "failed"]
  IN  IF reach > room
      THEN {[in |-> i, out |-> room, status |-> "has more output"] :
              i \in {j \in 0..want : Yield(payload, input_consumed + j) - made >= room}}
      ELSE {all}

\* Where `out` bytes land in the ring.
Written(out) ==
  [i \in 0..Window - 1 |->
     IF i \in window_pos..window_pos + out - 1
     THEN IF DictionaryIntact THEN Deflated(payload)[made + i - window_pos + 1] ELSE Garbage
     ELSE window[i]]

-----------------------------------------------------------------------------
Init ==
  /\ payload = NoPayload /\ call = NoCall
  /\ input_consumed = 0 /\ window_pos = 0 /\ avail_start = 0 /\ avail_len = 0
  /\ finished = FALSE /\ failed = FALSE
  /\ window = [i \in 0..Window - 1 |-> Garbage]
  /\ made = 0 /\ passed = <<>>

Restarted ==
  /\ passed' = <<>> /\ input_consumed' = 0 /\ window_pos' = 0 /\ made' = 0
  /\ finished' = FALSE /\ failed' = FALSE

\* Mutant: the run left over from the payload before is kept.
BeginOverRun(p) ==
  /\ call = NoCall /\ Restarted
  /\ payload' = IF p.compression = "none" \/ ProbeHeader(p) THEN p ELSE NoPayload
  /\ UNCHANGED <<window, call, avail_start, avail_len>>

\* Any payload, the same one for a second pass, and in the middle of another.
\* One that is refused, or whose header cannot be read, is not read from.
Begin(p) ==
  /\ call = NoCall /\ Restarted
  /\ avail_start' = 0 /\ avail_len' = 0
  /\ payload' = IF p.compression = "none" \/ ProbeHeader(p) THEN p ELSE NoPayload
  /\ UNCHANGED <<window, call>>

BeginFails ==
  /\ call = NoCall /\ Restarted
  /\ avail_start' = 0 /\ avail_len' = 0 /\ payload' = NoPayload
  /\ UNCHANGED <<window, call>>

Call(op, left) ==
  /\ payload # NoPayload /\ call = NoCall
  /\ call' = [op |-> op, left |-> left, bytes |-> 0]
  /\ UNCHANGED <<payload, input_consumed, window_pos, avail_start, avail_len, finished, failed,
                 window, made, passed>>

Read == \E n \in Counts : Call("Read", n)   \* and Skip
ReadVarint == Call("ReadVarint", 1)
AtEnd == Call("AtEnd", 1)

\* Bytes of the available run are handed over.
Take ==
  /\ call # NoCall /\ call.op # "AtEnd" /\ call.left > 0 /\ avail_len > 0
  /\ LET take == Smaller(call.left, avail_len)
     IN  /\ passed' = passed \o [i \in 1..take |-> window[avail_start + i - 1]]
         /\ avail_start' = avail_start + take /\ avail_len' = avail_len - take
         /\ call' = [call EXCEPT !.left = @ - take, !.bytes = @ + take]
  /\ UNCHANGED <<payload, input_consumed, window_pos, finished, failed, window, made>>

\* The byte may say that another one follows.
NextByte ==
  /\ call # NoCall /\ call.op = "ReadVarint" /\ call.left = 0 /\ call.bytes < MaxVarint
  /\ call' = [call EXCEPT !.left = 1]
  /\ UNCHANGED <<payload, input_consumed, window_pos, avail_start, avail_len, finished, failed,
                 window, made, passed>>

Return ==
  /\ call # NoCall
  /\ \/ call.left = 0
     \/ call.op = "AtEnd" /\ avail_len > 0
     \/ avail_len = 0 /\ (failed \/ finished)
  /\ call' = NoCall
  /\ UNCHANGED <<payload, input_consumed, window_pos, avail_start, avail_len, finished, failed,
                 window, made, passed>>

NeedsFill ==
  /\ call # NoCall /\ call.left > 0 /\ avail_len = 0 /\ ~failed /\ ~finished

Want == Smaller(Units(payload) - input_consumed, Chunk)

\* The reader comes back short: the call returns with nothing.
ReadFails ==
  /\ NeedsFill /\ Want > 0
  /\ failed' = TRUE /\ call' = NoCall
  /\ UNCHANGED <<payload, input_consumed, window_pos, avail_start, avail_len, finished,
                 window, made, passed>>

\* An uncompressed payload is staged in the window from its start.
FillNone ==
  /\ NeedsFill /\ payload.compression = "none"
  /\ finished' = (Want = 0)
  /\ avail_start' = 0 /\ avail_len' = Want
  /\ input_consumed' = input_consumed + Want
  /\ window' = [i \in 0..Window - 1 |-> IF i < Want THEN Deflated(payload)[input_consumed + i + 1]
                                        ELSE window[i]]
  /\ UNCHANGED <<payload, window_pos, failed, made, passed, call>>

\* Mutant: a call of tinfl without progress is tried again.
StallsForGood(r) == r.status = "failed"

\* Without progress the payload is malformed.
Hopeless(r) ==
  \/ r.status = "failed"
  \/ r.in = 0 /\ r.out = 0 /\ r.status # "done"

\* One turn of the loop: a failure returns even when it left some bytes.
FillInflated ==
  /\ NeedsFill /\ payload.compression = "gzip"
  /\ \E r \in Inflated(Want) :
       /\ input_consumed' = input_consumed + r.in
       /\ made' = made + r.out
       /\ window' = Written(r.out)
       /\ window_pos' = (window_pos + r.out) % Window
       /\ avail_start' = (IF r.out > 0 THEN window_pos ELSE avail_start)
       /\ avail_len' = r.out
       /\ finished' = (r.status = "done")
       /\ failed' = Hopeless(r)
       /\ call' = IF Hopeless(r) THEN NoCall ELSE call
  /\ UNCHANGED <<payload, passed>>

Step == Take \/ NextByte \/ Return \/ ReadFails \/ FillNone \/ FillInflated

Next ==
  \/ \E p \in Payloads : Begin(p)
  \/ BeginFails \/ Read \/ ReadVarint \/ AtEnd
  \/ Step

Spec == Init /\ [][Next]_vars

\* The stream is sequential code: a call that has started goes on.
FairSpec == Spec /\ WF_vars(Step)

-----------------------------------------------------------------------------
\* A stream passes the very bytes that inflating the payload whole gives, in
\* order and from the start at every Begin, whatever the sizes of the reads, of
\* the ring and of the pieces, and ends only behind the last: "False means the
\* stream ended early or the payload is malformed" (compression.hpp:97).
Contents ==
  IF payload = NoPayload THEN <<>>
  ELSE LET whole == DecompressStreaming(payload)
       IN  IF whole.ok THEN whole.output ELSE Deflated(payload)

Stream == INSTANCE ByteStream WITH
  content <- Contents,
  passed <- passed,
  status <- IF failed THEN "failed" ELSE IF finished /\ avail_len = 0 THEN "ended" ELSE "open"

ImplementsStream == Stream!StreamSpec

\* Every call returns: a payload that tinfl makes nothing of is given up.
CallsReturn == (call # NoCall) ~> (call = NoCall)
=============================================================================
