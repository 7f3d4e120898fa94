----------------------------- MODULE PartProofs -----------------------------
(***************************************************************************)
(* The parts of the library that answer from their arguments alone, and    *)
(* the inflating stream, each for every value of its constants and every   *)
(* argument of its kind.                                                   *)
(*                                                                         *)
(* The inflating stream implements the byte stream of its payload, for any *)
(* ring, pieces no larger than it, sizes of reads, and payloads.  The      *)
(* invariant follows the bytes: what has been passed and the available run *)
(* are together what the stream has produced, the run lies in the ring as  *)
(* it was decoded, and the ring still holds what decoding goes back to.    *)
(*                                                                         *)
(* The decoders are folds over the words of a geometry, the fields of a    *)
(* feature and of a layer, and the layers of a tile: each is first shown to*)
(* be a recursion along its positions (FoldRuns), whose invariant is then  *)
(* proved by induction over the positions.                                 *)
(*                                                                         *)
(* Of strokes: where the walk of a line is after each of its steps, what   *)
(* its runs cover, and which of a straight line's points the clipping      *)
(* keeps.  Of tile ids: that a round of the loop makes, of four curves over*)
(* squares, one over the square twice as wide.                             *)
(***************************************************************************)
EXTENDS Inflate, MvtDecoder, Stroke, TileId, CommonLemmas, SequenceTheorems

-----------------------------------------------------------------------------
(* The inflating stream.                                                   *)

\* How many bytes the stream has produced: passed, or available.
Produced == IF payload.compression = "none" THEN input_consumed ELSE made

PassedFromTheStart ==
  /\ avail_len <= Produced
  /\ passed = [i \in 1..Produced - avail_len |-> Deflated(payload)[i]]

RunInTheRing ==
  /\ avail_start + avail_len <= Window
  /\ \A j \in 0..avail_len - 1 :
       window[avail_start + j] = Deflated(payload)[Produced - avail_len + j + 1]

InStep ==
  /\ input_consumed \in 0..Units(payload)
  /\ Produced <= Yield(payload, input_consumed)
  /\ finished => Produced = Yield(payload, Units(payload)) /\ ~failed

TypeOK ==
  /\ payload \in Payloads \cup {NoPayload}
  /\ \/ call = NoCall
     \/ payload # NoPayload /\ call \in [op : Ops, left : Nat, bytes : Nat]
  /\ input_consumed \in Nat /\ window_pos \in 0..Window - 1
  /\ avail_start \in Nat /\ avail_len \in Nat /\ made \in Nat
  /\ finished \in BOOLEAN /\ failed \in BOOLEAN

IInv ==
  /\ TypeOK
  /\ payload # NoPayload =>
       /\ PassedFromTheStart /\ RunInTheRing /\ InStep
       /\ payload.compression = "gzip" => DictionaryIntact

-----------------------------------------------------------------------------
(* Payloads and the ring.                                                  *)

LEMMA InRing ==
  ASSUME NEW w \in Nat \ {0}, NEW x \in Int
  PROVE  /\ x \in 0..w - 1 => x % w = x
         /\ x \in w..2 * w - 1 => x % w = x - w
         /\ x \in -w..-1 => x % w = x + w
<1>1. ASSUME x \in 0..w - 1 PROVE x % w = x
  BY <1>1, SMT
<1>2. ASSUME x \in w..2 * w - 1 PROVE x % w = x - w
  BY <1>2, SMT
<1>3. ASSUME x \in -w..-1 PROVE x % w = x + w
  BY <1>3, SMT
<1> QED
  BY <1>1, <1>2, <1>3

LEMMA Yields ==
  ASSUME InflateAssumption, NEW p \in Payloads
  PROVE  /\ Units(p) \in Nat
         /\ \A c \in 0..Units(p) : Yield(p, c) \in Nat
         /\ \A c, e \in 0..Units(p) : c <= e => Yield(p, c) <= Yield(p, e)
         /\ p.compression = "none" => \A c \in 0..Units(p) : Yield(p, c) = c
<1>1. /\ p.yields \in Seq(Nat)
      /\ \A i, j \in DOMAIN p.yields : i <= j => p.yields[i] <= p.yields[j]
      /\ p.compression = "none" => \A i \in DOMAIN p.yields : p.yields[i] = i
  BY DEF InflateAssumption
<1>2. Units(p) \in Nat /\ DOMAIN p.yields = 1..Units(p)
  BY <1>1 DEF Units
<1>3. \A c \in 0..Units(p) : c = 0 \/ c \in DOMAIN p.yields
  BY <1>2
<1>4. \A c \in 0..Units(p) : Yield(p, c) \in Nat
  BY <1>1, <1>3 DEF Yield
<1>5. \A c, e \in 0..Units(p) : c <= e => Yield(p, c) <= Yield(p, e)
  <2> SUFFICES ASSUME NEW c \in 0..Units(p), NEW e \in 0..Units(p), c <= e
               PROVE  Yield(p, c) <= Yield(p, e)
    OBVIOUS
  <2>1. CASE c = 0
    BY <1>4, <2>1 DEF Yield
  <2>2. CASE c # 0
    BY <1>1, <1>2, <1>3, <2>2, SMTT(30) DEF Yield
  <2> QED
    BY <2>1, <2>2
<1>6. p.compression = "none" => \A c \in 0..Units(p) : Yield(p, c) = c
  BY <1>1, <1>3 DEF Yield
<1> QED
  BY <1>2, <1>4, <1>5, <1>6

\* What a stream is compared with is what its units decode to.
LEMMA ContentsAreDeflated ==
  ASSUME InflateAssumption, payload \in Payloads
  PROVE  Contents = Deflated(payload)
<1>1. payload # NoPayload
  BY DEF InflateAssumption
<1>2. Units(payload) = 0 => Deflated(payload) = <<>>
  BY DEF Deflated, Yield
<1>3. Checked(payload).ok => Checked(payload).output = Deflated(payload)
  <2>1. CASE payload.isize > MaxOutput
    BY <2>1 DEF Checked, Refused
  <2>2. CASE ~(payload.isize > MaxOutput) /\ payload.isize = 0
    BY <1>2, <2>2 DEF Checked
  <2>3. CASE ~(payload.isize > MaxOutput) /\ payload.isize # 0
    BY <2>3 DEF Checked, Refused
  <2> QED
    BY <2>1, <2>2, <2>3
<1>4. LET whole == DecompressStreaming(payload)
      IN  whole.ok => whole.output = Deflated(payload)
  BY <1>3 DEF DecompressStreaming, Refused
<1> QED
  BY <1>1, <1>4 DEF Contents

\* A call of tinfl takes no more than it is given, writes no further than the
\* ring's end nor the units taken decode to, and is done only when all is out.
LEMMA InflatedResult ==
  ASSUME InflateAssumption, TypeOK, payload \in Payloads, InStep,
         payload.compression = "gzip", NEW r \in Inflated(Want)
  PROVE  /\ r.in \in Nat /\ input_consumed + r.in \in 0..Units(payload)
         /\ r.out \in 0..Window - window_pos
         /\ made + r.out <= Yield(payload, input_consumed + r.in)
         /\ r.status = "done" => made + r.out = Yield(payload, Units(payload))
<1> DEFINE room == Window - window_pos
           to(i) == Yield(payload, input_consumed + i)
<1>1. Want \in Nat /\ input_consumed + Want \in 0..Units(payload)
  BY Yields DEF InStep, Want, Smaller, InflateAssumption
<1>2. \A i \in 0..Want : /\ input_consumed + i \in 0..Units(payload)
                         /\ to(i) \in Nat /\ made <= to(i)
  <2> SUFFICES ASSUME NEW i \in 0..Want
               PROVE  /\ input_consumed + i \in 0..Units(payload)
                      /\ to(i) \in Nat /\ made <= to(i)
    OBVIOUS
  <2>1. input_consumed + i \in 0..Units(payload)
    BY <1>1, Yields DEF InStep
  <2>2. to(i) \in Nat /\ Yield(payload, input_consumed) \in Nat
        /\ Yield(payload, input_consumed) <= to(i)
    BY <2>1, Yields DEF InStep
  <2>3. made <= Yield(payload, input_consumed)
    BY DEF InStep, Produced
  <2> QED
    BY <2>1, <2>2, <2>3 DEF TypeOK
<1>3. room \in 1..Window /\ Window \in Nat
  BY DEF TypeOK, InflateAssumption
<1>4. CASE to(Want) - made > room
  <2>1. PICK i \in 0..Want : /\ to(i) - made >= room
                             /\ r = [in |-> i, out |-> room, status |-> "has more output"]
    BY <1>4 DEF Inflated
  <2>2. r.in = i /\ r.out = room /\ r.status # "done"
    BY <2>1
  <2>3. to(i) \in Nat /\ made \in Nat /\ input_consumed + i \in 0..Units(payload)
    BY <1>2 DEF TypeOK
  <2>4. made + room <= to(i)
    <3>1. ASSUME NEW m \in Nat, NEW t \in Nat, NEW k \in Nat, t - m >= k PROVE m + k <= t
      BY <3>1
    <3> HIDE DEF to, room
    <3>2. room \in Nat
      BY <1>3
    <3> QED
      BY <2>1, <2>3, <3>1, <3>2
  <2> HIDE DEF to, room
  <2>5. r.in \in Nat /\ r.out \in 0..room
    BY <1>3, <2>2
  <2> USE DEF to, room
  <2> QED
    BY <2>2, <2>3, <2>4, <2>5
<1>5. CASE ~(to(Want) - made > room)
  <2>1. /\ r.in = Want /\ r.out = to(Want) - made
        /\ r.status = "done" => input_consumed + Want = Units(payload)
    <3> DEFINE last == input_consumed + Want = Units(payload)
               how == IF ~last THEN "needs more input"
                      ELSE IF payload.end = "done" THEN "done"
                      ELSE IF payload.end = "stuck" THEN "needs more input" ELSE "failed"
    <3>1. r = [in |-> Want, out |-> to(Want) - made, status |-> how]
      BY <1>5 DEF Inflated
    <3>2. how = "done" => last
      OBVIOUS
    <3> HIDE DEF how
    <3> QED
      BY <3>1, <3>2
  <2>2. to(Want) - made \in 0..room
    BY <1>1, <1>2, <1>3, <1>5 DEF TypeOK
  <2>3. made + (to(Want) - made) = to(Want)
    BY <1>1, <1>2 DEF TypeOK
  <2> QED
    BY <1>1, <1>2, <2>1, <2>2, <2>3
<1> QED
  BY <1>4, <1>5

\* What tinfl writes keeps the ring a copy of the bytes decoded last.
LEMMA DictionaryKept ==
  ASSUME InflateAssumption, TypeOK, payload \in Payloads, DictionaryIntact,
         NEW out \in 0..Window - window_pos,
         window' = Written(out), window_pos' = (window_pos + out) % Window,
         made' = made + out, payload' = payload
  PROVE  /\ DictionaryIntact'
         /\ \A j \in 0..out - 1 : window'[window_pos + j] = Deflated(payload)[made + j + 1]
<1> DEFINE d == Deflated(payload)
<1>1. Window \in Nat \ {0} /\ window_pos \in 0..Window - 1 /\ made \in Nat
  BY DEF InflateAssumption, TypeOK
<1>2. \A i \in 0..Window - 1 :
        window'[i] = IF i \in window_pos..window_pos + out - 1
                     THEN d[made + i - window_pos + 1] ELSE window[i]
  BY DEF Written
<1> HIDE DEF d
<1>3. \A j \in 0..out - 1 : window'[window_pos + j] = d[made + j + 1]
  <2> SUFFICES ASSUME NEW j \in 0..out - 1 PROVE window'[window_pos + j] = d[made + j + 1]
    OBVIOUS
  <2>1. /\ window_pos + j \in 0..Window - 1
        /\ window_pos + j \in window_pos..window_pos + out - 1
        /\ made + (window_pos + j) - window_pos + 1 = made + j + 1
    BY <1>1
  <2> QED
    BY <1>2, <2>1
<1>4. ASSUME NEW back \in 1..Smaller(made + out, Window)
      PROVE  window'[(window_pos' - back) % Window] = d[made + out - back + 1]
  <2>0. back \in 1..Window /\ back <= made + out
    BY <1>1 DEF Smaller
  <2>1. CASE back <= out
    <3>1. (window_pos' - back) % Window = window_pos + (out - back)
      <4>1. CASE window_pos + out < Window
        <5>1. window_pos' = window_pos + out
          BY <1>1, <4>1, InRing
        <5>2. window_pos + out - back \in 0..Window - 1
          BY <1>1, <2>0, <2>1, <4>1
        <5> QED
          BY <1>1, <2>0, <5>1, <5>2, InRing
      <4>2. CASE window_pos + out >= Window
        <5>1. window_pos' = 0 /\ window_pos + out = Window
          BY <1>1, <4>2, InRing
        <5>2. 0 - back \in -Window..-1 /\ 0 - back \in Int
          BY <1>1, <2>0
        <5>3. (0 - back) % Window = (0 - back) + Window
          BY <1>1, <5>2, InRing
        <5> QED
          BY <1>1, <2>0, <5>1, <5>3
      <4> QED
        BY <1>1, <4>1, <4>2
    <3>2. out - back \in 0..out - 1 /\ made + (out - back) + 1 = made + out - back + 1
      BY <1>1, <2>0, <2>1
    <3> QED
      BY <1>3, <3>1, <3>2
  <2>2. CASE back > out
    <3>1. PICK b \in 1..Smaller(made, Window) : back = out + b /\ b <= Window - out
      <4>1. back - out \in 1..Smaller(made, Window)
            /\ back = out + (back - out) /\ back - out <= Window - out
        BY <1>1, <2>0, <2>2 DEF Smaller
      <4> QED
        BY <4>1
    <3>2. b \in 1..Window
      BY <1>1, <3>1
    <3>3. PICK at \in 0..Window - 1 :
            /\ at = (window_pos - b) % Window
            /\ at = window_pos - b \/ at = window_pos - b + Window
      <4>1. CASE window_pos - b >= 0
        <5>1. window_pos - b \in 0..Window - 1 /\ window_pos - b \in Int
          BY <1>1, <3>2, <4>1
        <5>2. (window_pos - b) % Window = window_pos - b
          BY <1>1, <5>1, InRing
        <5> QED
          BY <5>1, <5>2
      <4>2. CASE window_pos - b < 0
        <5>1. window_pos - b \in -Window..-1 /\ window_pos - b \in Int
              /\ window_pos - b + Window \in 0..Window - 1
          BY <1>1, <3>2, <4>2
        <5>2. (window_pos - b) % Window = window_pos - b + Window
          BY <1>1, <5>1, InRing
        <5> QED
          BY <5>1, <5>2
      <4> QED
        BY <1>1, <3>2, <4>1, <4>2
    <3>4. window[at] = d[made - b + 1] /\ made - b + 1 = made + out - back + 1
      BY <1>1, <3>1, <3>3 DEF DictionaryIntact, d
    <3>5. at \notin window_pos..window_pos + out - 1
      BY <1>1, <3>1, <3>2, <3>3
    <3>6. (window_pos' - back) % Window = at
      <4>1. CASE window_pos + out < Window
        <5>0. window_pos + out \in 0..Window - 1 /\ window_pos + out \in Int
          BY <1>1, <4>1
        <5>1. window_pos' = window_pos + out
          BY <1>1, <5>0, InRing
        <5>2. window_pos' - back = window_pos - b
          BY <1>1, <3>1, <3>2, <5>1
        <5> QED
          BY <3>3, <5>2
      <4>2. CASE window_pos + out >= Window
        <5>1. window_pos + out = Window /\ window_pos' = 0
          BY <1>1, <4>2, InRing, SMTT(30)
        <5>2. 0 - back \in -Window..-1 /\ 0 - back \in Int /\ 0 - back + Window = window_pos - b
          BY <1>1, <2>0, <3>1, <3>2, <5>1
        <5>3. (0 - back) % Window = window_pos - b
          BY <1>1, <5>2, InRing
        <5>4. window_pos - b = at
          BY <1>1, <3>2, <3>3, <5>2, <2>0
        <5> QED
          BY <5>1, <5>3, <5>4
      <4> QED
        BY <1>1, <4>1, <4>2
    <3> QED
      BY <1>2, <3>4, <3>5, <3>6
  <2> QED
    BY <1>1, <2>0, <2>1, <2>2
<1>5. DictionaryIntact'
  BY <1>1, <1>4 DEF DictionaryIntact, d
<1> QED
  BY <1>3, <1>5 DEF d

LEMMA DeflatedIsASequence ==
  ASSUME InflateAssumption, NEW p \in Payloads
  PROVE  /\ Yield(p, Units(p)) \in Nat
         /\ Deflated(p) \in Seq({<<p.id, i>> : i \in 1..Yield(p, Units(p))})
         /\ Len(Deflated(p)) = Yield(p, Units(p))
<1>1. Units(p) \in Nat /\ Yield(p, Units(p)) \in Nat
  BY Yields
<1> QED
  BY <1>1 DEF Deflated

\* A prefix of d, followed by what d goes on with, is the longer prefix.
LEMMA PrefixGoesOn ==
  ASSUME NEW S, NEW d \in Seq(S), NEW n \in Nat, NEW k \in Nat, n + k <= Len(d),
         NEW t \in Seq(S), Len(t) = k, \A i \in 1..k : t[i] = d[n + i]
  PROVE  [i \in 1..n |-> d[i]] \o t = [i \in 1..n + k |-> d[i]]
<1> DEFINE s == [i \in 1..n |-> d[i]]
           w == [i \in 1..n + k |-> d[i]]
<1>1. Len(d) \in Nat /\ \A i \in 1..Len(d) : d[i] \in S
  BY LenProperties, ElementOfSeq
<1>2. s \in Seq(S) /\ Len(s) = n /\ \A i \in 1..n : s[i] = d[i]
  <2>1. \A i \in 1..n : d[i] \in S
    BY <1>1
  <2> QED
    BY <2>1
<1>3. w \in Seq(S) /\ Len(w) = n + k /\ \A i \in 1..n + k : w[i] = d[i]
  <2>1. n + k \in Nat /\ \A i \in 1..n + k : d[i] \in S
    BY <1>1
  <2> QED
    BY <2>1
<1> HIDE DEF s, w
<1>4. PICK u \in Seq(S) :
        /\ u = s \o t /\ Len(u) = n + k
        /\ \A i \in 1..n + k : u[i] = IF i <= n THEN s[i] ELSE t[i - n]
  <2>1. /\ s \o t \in Seq(S) /\ Len(s \o t) = Len(s) + Len(t)
        /\ \A i \in 1..Len(s) + Len(t) :
             (s \o t)[i] = IF i <= Len(s) THEN s[i] ELSE t[i - Len(s)]
    BY <1>2, ConcatProperties
  <2> QED
    BY <1>2, <2>1
<1>5. \A i \in 1..n + k : u[i] = w[i]
  <2> SUFFICES ASSUME NEW i \in 1..n + k PROVE u[i] = w[i]
    OBVIOUS
  <2>1. CASE i <= n
    <3>1. i \in 1..n
      BY <2>1
    <3>2. u[i] = s[i]
      BY <1>4, <2>1
    <3> QED
      BY <1>2, <1>3, <3>1, <3>2
  <2>2. CASE ~(i <= n)
    <3>1. i - n \in 1..k /\ n + (i - n) = i
      BY <2>2
    <3>2. u[i] = t[i - n]
      BY <1>4, <2>2
    <3>3. t[i - n] = d[n + (i - n)]
      BY <3>1
    <3> QED
      BY <1>3, <3>1, <3>2, <3>3
  <2> QED
    BY <2>1, <2>2
<1>6. u = w
  BY <1>3, <1>4, <1>5, SeqEqual
<1> QED
  BY <1>4, <1>6 DEF s, w

-----------------------------------------------------------------------------
(* The invariant, one action at a time.                                    *)

LEMMA InitInv == InflateAssumption /\ Init => IInv
<1> SUFFICES ASSUME InflateAssumption, Init PROVE IInv
  OBVIOUS
<1>1. 0 \in 0..Window - 1
  BY DEF InflateAssumption
<1>2. finished \in BOOLEAN /\ failed \in BOOLEAN
  BY DEF Init
<1> QED
  BY <1>1, <1>2 DEF Init, IInv, TypeOK

\* A step that leaves the stream alone, but may find that its reader fails.
LEMMA OnlyTheCall ==
  ASSUME InflateAssumption, IInv,
         UNCHANGED <<payload, input_consumed, window_pos, avail_start, avail_len, finished,
                     window, made, passed>>,
         failed' = failed \/ (failed' = TRUE /\ ~finished),
         call' = NoCall \/ (payload # NoPayload /\ call' \in [op : Ops, left : Nat, bytes : Nat])
  PROVE  IInv'
<1>1. TypeOK'
  BY DEF IInv, TypeOK
<1>2. Produced' = Produced
  BY DEF Produced
<1>3. PassedFromTheStart' = PassedFromTheStart
  BY <1>2 DEF PassedFromTheStart
<1>4. RunInTheRing' = RunInTheRing
  BY <1>2 DEF RunInTheRing
<1>5. InStep => InStep'
  BY <1>2 DEF InStep
<1>6. DictionaryIntact' = DictionaryIntact
  BY DEF DictionaryIntact
<1> QED
  BY <1>1, <1>3, <1>4, <1>5, <1>6 DEF IInv

\* A payload is begun, or refused.
LEMMA Restarts ==
  ASSUME InflateAssumption, IInv, Restarted, call = NoCall, call' = call,
         avail_start' = 0, avail_len' = 0, payload' \in Payloads \cup {NoPayload}
  PROVE  IInv'
<1>1. TypeOK'
  <2>1. 0 \in 0..Window - 1
    BY DEF InflateAssumption
  <2>2. finished' \in BOOLEAN /\ failed' \in BOOLEAN
    BY DEF Restarted
  <2> QED
    BY <2>1, <2>2 DEF TypeOK, Restarted
<1>2. ASSUME payload' # NoPayload
      PROVE  (PassedFromTheStart /\ RunInTheRing /\ InStep /\ DictionaryIntact)'
  <2>1. payload' \in Payloads
    BY <1>2
  <2>2. Produced' = 0 /\ passed' = <<>> /\ made' = 0 /\ input_consumed' = 0
    BY DEF Produced, Restarted
  <2>3. Units(payload') \in Nat /\ Yield(payload', 0) = 0
    BY <2>1, Yields DEF Yield
  <2>4. PassedFromTheStart'
    BY <2>2 DEF PassedFromTheStart
  <2>5. RunInTheRing'
    BY DEF RunInTheRing, InflateAssumption
  <2>6. InStep'
    BY <2>2, <2>3 DEF InStep, Restarted
  <2>7. DictionaryIntact'
    BY <2>2 DEF DictionaryIntact, Smaller, InflateAssumption
  <2> QED
    BY <2>4, <2>5, <2>6, <2>7
<1> QED
  BY <1>1, <1>2 DEF IInv

\* Bytes of the run are handed over.
LEMMA TakeKeeps ==
  ASSUME InflateAssumption, IInv, Take
  PROVE  IInv'
<1> DEFINE take == Smaller(call.left, avail_len)
           d == Deflated(payload)
           n == Produced - avail_len
           t == [i \in 1..take |-> window[avail_start + i - 1]]
           S == {<<payload.id, i>> : i \in 1..Yield(payload, Units(payload))}
<1>1. /\ payload \in Payloads /\ payload # NoPayload
      /\ call \in [op : Ops, left : Nat, bytes : Nat]
      /\ PassedFromTheStart /\ RunInTheRing /\ InStep
      /\ payload.compression = "gzip" => DictionaryIntact
  BY DEF IInv, TypeOK, Take
<1>2. take \in 1..avail_len /\ take <= call.left /\ call.left \in Nat
  BY <1>1 DEF IInv, TypeOK, Take, Smaller
<1>3. /\ passed' = passed \o t
      /\ avail_start' = avail_start + take /\ avail_len' = avail_len - take
      /\ call' = [call EXCEPT !.left = @ - take, !.bytes = @ + take]
      /\ UNCHANGED <<payload, input_consumed, window_pos, finished, failed, window, made>>
  BY DEF Take
<1>4. Produced \in Nat /\ avail_len \in Nat /\ avail_start \in Nat /\ n \in Nat
  BY <1>1 DEF PassedFromTheStart, Produced, IInv, TypeOK
<1>5. Produced' = Produced
  BY <1>3 DEF Produced
<1>6. d \in Seq(S) /\ Len(d) = Yield(payload, Units(payload)) /\ Len(d) \in Nat
  BY <1>1, DeflatedIsASequence
<1>7. Produced <= Len(d)
  <2>1. /\ input_consumed \in 0..Units(payload) /\ Units(payload) \in 0..Units(payload)
        /\ Yield(payload, input_consumed) <= Yield(payload, Units(payload))
        /\ Yield(payload, input_consumed) \in Nat
    BY <1>1, Yields DEF InStep
  <2> QED
    BY <1>1, <1>4, <1>6, <2>1 DEF InStep
<1> HIDE DEF d, S, take
<1>8. \A j \in 0..avail_len - 1 : window[avail_start + j] = d[n + j + 1]
  BY <1>1 DEF RunInTheRing, d
<1>9. \A i \in 1..take : /\ window[avail_start + i - 1] = d[n + i]
                         /\ n + i \in 1..Len(d)
  <2> SUFFICES ASSUME NEW i \in 1..take
               PROVE  /\ window[avail_start + i - 1] = d[n + i]
                      /\ n + i \in 1..Len(d)
    OBVIOUS
  <2>1. /\ i - 1 \in 0..avail_len - 1 /\ avail_start + (i - 1) = avail_start + i - 1
        /\ n + (i - 1) + 1 = n + i
    BY <1>2, <1>4
  <2>2. n + i <= Produced /\ n + i \in Nat /\ n + i >= 1
    BY <1>2, <1>4
  <2>3. window[avail_start + i - 1] = d[n + i]
    BY <1>8, <2>1
  <2>4. n + i \in 1..Len(d)
    BY <1>4, <1>6, <1>7, <2>2
  <2> QED
    BY <2>3, <2>4
<1>10. t \in Seq(S) /\ Len(t) = take /\ \A i \in 1..take : t[i] = d[n + i]
  <2>1. take \in Nat
    BY <1>2, <1>4
  <2>2. \A i \in 1..take : window[avail_start + i - 1] \in S
    BY <1>6, <1>9, ElementOfSeq
  <2> QED
    BY <1>9, <2>1, <2>2
<1> HIDE DEF t
<1>11. n + take \in Nat /\ n + take <= Len(d) /\ take \in Nat /\ n + take = Produced - avail_len'
  BY <1>2, <1>3, <1>4, <1>6, <1>7, SMTT(30)
<1>12. passed' = [i \in 1..n + take |-> d[i]]
  <2>1. passed = [i \in 1..n |-> d[i]]
    BY <1>1 DEF PassedFromTheStart, d
  <2> HIDE DEF n
  <2> QED
    <3>1. /\ d \in Seq(S) /\ n \in Nat /\ take \in Nat /\ n + take <= Len(d)
          /\ t \in Seq(S) /\ Len(t) = take /\ \A i \in 1..take : t[i] = d[n + i]
      BY <1>4, <1>6, <1>10, <1>11
    <3>2. [i \in 1..n |-> d[i]] \o t = [i \in 1..n + take |-> d[i]]
      BY ONLY <3>1, PrefixGoesOn
    <3> QED
      BY <1>3, <2>1, <3>2
<1>13. PassedFromTheStart'
  <2>1. avail_len' <= Produced'
    BY <1>2, <1>3, <1>4, <1>5
  <2>2. Deflated(payload') = d
    BY <1>3 DEF d
  <2> QED
    BY <1>5, <1>11, <1>12, <2>1, <2>2 DEF PassedFromTheStart
<1>14. RunInTheRing'
  <2>1. avail_start' + avail_len' <= Window
    BY <1>1, <1>2, <1>3, <1>4 DEF RunInTheRing, InflateAssumption
  <2>2. ASSUME NEW j \in 0..avail_len' - 1
        PROVE  window[avail_start' + j] = d[Produced - avail_len' + j + 1]
    <3>1. /\ avail_len' = avail_len - take /\ avail_start' = avail_start + take
          /\ take \in 1..avail_len /\ n = Produced - avail_len
      BY <1>2, <1>3
    <3> HIDE DEF n
    <3>2. /\ take + j \in 0..avail_len - 1 /\ avail_start + (take + j) = avail_start' + j
          /\ n + (take + j) + 1 = Produced - avail_len' + j + 1
      BY <1>4, <3>1
    <3> QED
      BY <1>8, <3>2
  <2> QED
    BY <1>3, <1>5, <2>1, <2>2 DEF RunInTheRing, d
<1>15. InStep'
  BY <1>1, <1>3, <1>5 DEF InStep
<1>16. DictionaryIntact' = DictionaryIntact
  BY <1>3 DEF DictionaryIntact
<1>17. TypeOK'
  <2>1. call.left - take \in Nat /\ call.bytes + take \in Nat
    BY <1>1, <1>2, <1>11
  <2>2. call' \in [op : Ops, left : Nat, bytes : Nat]
    BY <1>1, <1>3, <2>1
  <2>3. avail_start' \in Nat /\ avail_len' \in Nat
    BY <1>2, <1>3, <1>4, SMTT(30)
  <2> QED
    BY <1>1, <1>3, <2>2, <2>3 DEF IInv, TypeOK
<1> QED
  BY <1>1, <1>3, <1>13, <1>14, <1>15, <1>16, <1>17 DEF IInv

\* A piece of an uncompressed payload is staged.
LEMMA FillNoneKeeps ==
  ASSUME InflateAssumption, IInv, FillNone
  PROVE  IInv'
<1> DEFINE d == Deflated(payload)
<1>1. /\ payload \in Payloads /\ payload # NoPayload
      /\ call \in [op : Ops, left : Nat, bytes : Nat]
      /\ PassedFromTheStart /\ RunInTheRing /\ InStep
      /\ avail_len = 0 /\ ~failed /\ ~finished /\ payload.compression = "none"
  BY DEF IInv, TypeOK, FillNone, NeedsFill
<1>2. Units(payload) \in Nat /\ \A c \in 0..Units(payload) : Yield(payload, c) = c
  BY <1>1, Yields
<1>3. /\ Want \in 0..Window /\ input_consumed \in Nat
      /\ input_consumed + Want \in 0..Units(payload)
      /\ Want = 0 => input_consumed = Units(payload)
  BY <1>1, <1>2 DEF InStep, Want, Smaller, InflateAssumption
<1>4. /\ finished' = (Want = 0) /\ avail_start' = 0 /\ avail_len' = Want
      /\ input_consumed' = input_consumed + Want
      /\ UNCHANGED <<payload, window_pos, failed, made, passed, call>>
  BY DEF FillNone
<1>5. \A j \in 0..Want - 1 : window'[j] = d[input_consumed + j + 1]
  <2> SUFFICES ASSUME NEW j \in 0..Want - 1 PROVE window'[j] = d[input_consumed + j + 1]
    OBVIOUS
  <2>1. j \in 0..Window - 1 /\ j < Want
    BY <1>3 DEF InflateAssumption
  <2> QED
    BY <2>1 DEF FillNone
<1>6. Produced = input_consumed /\ Produced' = input_consumed + Want
  BY <1>1, <1>4 DEF Produced
<1> HIDE DEF d
<1>7. PassedFromTheStart'
  <2>1. passed' = [i \in 1..input_consumed |-> d[i]]
    BY <1>1, <1>3, <1>4, <1>6 DEF PassedFromTheStart, d
  <2>2. Produced' - avail_len' = input_consumed /\ avail_len' <= Produced'
    BY <1>3, <1>4, <1>6
  <2> QED
    BY <1>4, <2>1, <2>2 DEF PassedFromTheStart, d
<1>8. RunInTheRing'
  <2>1. avail_start' + avail_len' <= Window
    BY <1>3, <1>4 DEF InflateAssumption
  <2>2. ASSUME NEW j \in 0..avail_len' - 1
        PROVE  window'[avail_start' + j] = d[Produced' - avail_len' + j + 1]
    <3>1. /\ avail_start' + j = j /\ Produced' - avail_len' + j + 1 = input_consumed + j + 1
          /\ j \in 0..Want - 1
      BY <1>3, <1>4, <1>6
    <3> QED
      BY <1>5, <3>1
  <2> QED
    BY <1>4, <2>1, <2>2 DEF RunInTheRing, d
<1>9. InStep'
  <2>1. Yield(payload, Units(payload)) = Units(payload)
    BY <1>2
  <2>2. finished' => Produced' = Yield(payload, Units(payload)) /\ ~failed'
    <3>1. CASE Want = 0
      BY <1>1, <1>3, <1>4, <1>6, <2>1, <3>1
    <3>2. CASE Want # 0
      BY <1>4, <3>2
    <3> QED
      BY <3>1, <3>2
  <2>3. /\ input_consumed' \in 0..Units(payload)
        /\ Produced' <= Yield(payload, input_consumed')
    <3>1. Yield(payload, input_consumed + Want) = input_consumed + Want
      BY <1>2, <1>3
    <3> QED
      BY <1>3, <1>4, <1>6, <3>1
  <2> QED
    BY <1>4, <2>2, <2>3 DEF InStep
<1>10. TypeOK'
  <2>1. finished' \in BOOLEAN
    BY <1>4
  <2>2. input_consumed' \in Nat /\ avail_start' \in Nat /\ avail_len' \in Nat
    BY <1>3, <1>4
  <2> QED
    BY <1>1, <1>4, <2>1, <2>2 DEF IInv, TypeOK
<1> QED
  BY <1>1, <1>4, <1>7, <1>8, <1>9, <1>10 DEF IInv

\* tinfl decodes a piece into the ring.
LEMMA FillInflatedKeeps ==
  ASSUME InflateAssumption, IInv, FillInflated
  PROVE  IInv'
<1> DEFINE d == Deflated(payload)
<1>1. /\ payload \in Payloads /\ payload # NoPayload
      /\ call \in [op : Ops, left : Nat, bytes : Nat]
      /\ PassedFromTheStart /\ RunInTheRing /\ InStep /\ DictionaryIntact /\ TypeOK
      /\ avail_len = 0 /\ ~failed /\ ~finished /\ payload.compression = "gzip"
  BY DEF IInv, TypeOK, FillInflated, NeedsFill
<1>2. PICK r \in Inflated(Want) :
        /\ input_consumed' = input_consumed + r.in /\ made' = made + r.out
        /\ window' = Written(r.out) /\ window_pos' = (window_pos + r.out) % Window
        /\ avail_start' = (IF r.out > 0 THEN window_pos ELSE avail_start)
        /\ avail_len' = r.out /\ finished' = (r.status = "done")
        /\ failed' = Hopeless(r)
        /\ call' = IF Hopeless(r) THEN NoCall ELSE call
  BY DEF FillInflated
<1>3. payload' = payload /\ passed' = passed
  BY DEF FillInflated
<1> DEFINE in == r.in
           out == r.out
<1>4. /\ in \in Nat /\ input_consumed + in \in 0..Units(payload)
      /\ out \in 0..Window - window_pos
      /\ made + out <= Yield(payload, input_consumed + in)
      /\ r.status = "done" => made + out = Yield(payload, Units(payload))
  BY <1>1, InflatedResult
<1>5. /\ DictionaryIntact'
      /\ \A j \in 0..out - 1 : window'[window_pos + j] = d[made + j + 1]
  BY <1>1, <1>2, <1>3, <1>4, DictionaryKept
<1>6. Produced = made /\ Produced' = made + out /\ made \in Nat /\ window_pos \in Nat
      /\ Window \in Nat /\ avail_start \in Nat
  BY <1>1, <1>2, <1>3 DEF Produced, TypeOK, InflateAssumption
<1> HIDE DEF d
<1>7. PassedFromTheStart'
  <2>1. passed' = [i \in 1..made |-> d[i]]
    <3>1. Produced - avail_len = made
      BY <1>1, <1>6
    <3> QED
      BY <1>1, <1>3, <3>1 DEF PassedFromTheStart, d
  <2>2. Produced' - avail_len' = made /\ avail_len' <= Produced'
    BY <1>2, <1>4, <1>6
  <2> QED
    BY <1>3, <2>1, <2>2 DEF PassedFromTheStart, d
<1>8. RunInTheRing'
  <2>1. avail_start' + avail_len' <= Window
    <3>1. CASE out > 0
      BY <1>2, <1>4, <1>6, <3>1
    <3>2. CASE ~(out > 0)
      <4>1. out = 0 /\ avail_start' = avail_start /\ avail_len' = 0
        BY <1>2, <1>4, <1>6, <3>2
      <4> QED
        BY <1>1, <1>6, <4>1 DEF RunInTheRing
    <3> QED
      BY <3>1, <3>2
  <2>2. ASSUME NEW j \in 0..avail_len' - 1
        PROVE  window'[avail_start' + j] = d[Produced' - avail_len' + j + 1]
    <3>1. j \in 0..out - 1 /\ out > 0 /\ Produced' - avail_len' + j + 1 = made + j + 1
      BY <1>2, <1>4, <1>6
    <3>2. avail_start' = window_pos
      BY <1>2, <3>1
    <3> QED
      BY <1>5, <3>1, <3>2
  <2> QED
    BY <1>3, <2>1, <2>2 DEF RunInTheRing, d
<1>9. InStep'
  <2>1. r.status = "done" => ~Hopeless(r)
    BY DEF Hopeless
  <2> QED
    BY <1>2, <1>3, <1>4, <1>6, <2>1 DEF InStep
<1>10. TypeOK'
  <2>1. finished' \in BOOLEAN /\ failed' \in BOOLEAN
    BY <1>2 DEF Hopeless
  <2>2. call' = NoCall \/ call' \in [op : Ops, left : Nat, bytes : Nat]
    BY <1>1, <1>2
  <2>3. input_consumed' \in Nat /\ avail_start' \in Nat /\ avail_len' \in Nat /\ made' \in Nat
    BY <1>1, <1>2, <1>4, <1>6 DEF TypeOK
  <2>4. window_pos' \in 0..Window - 1
    <3>1. Window \in Nat \ {0} /\ window_pos + out \in Int
      BY <1>4, <1>6 DEF InflateAssumption
    <3> HIDE DEF out
    <3>2. (window_pos + out) % Window \in 0..Window - 1
      BY <3>1
    <3> QED
      BY <1>2, <3>2 DEF out
  <2> QED
    BY <1>1, <1>3, <2>1, <2>2, <2>3, <2>4 DEF TypeOK
<1> QED
  BY <1>1, <1>3, <1>5, <1>7, <1>8, <1>9, <1>10 DEF IInv

LEMMA StepInv == InflateAssumption /\ IInv /\ [Next]_vars => IInv'
<1> SUFFICES ASSUME InflateAssumption, IInv, [Next]_vars PROVE IInv'
  OBVIOUS
<1>1. ASSUME NEW p \in Payloads, Begin(p) PROVE IInv'
  BY <1>1, Restarts DEF Begin
<1>2. CASE BeginFails
  BY <1>2, Restarts DEF BeginFails
<1>3. ASSUME NEW op \in Ops, NEW left \in Nat, Call(op, left) PROVE IInv'
  <2>1. call' \in [op : Ops, left : Nat, bytes : Nat] /\ payload # NoPayload
    BY <1>3 DEF Call
  <2> QED
    BY <1>3, <2>1, OnlyTheCall DEF Call
<1>4. CASE Read \/ ReadVarint \/ AtEnd
  <2>1. CASE Read
    <3>1. PICK n \in Counts : Call("Read", n)
      BY <2>1 DEF Read
    <3>2. n \in Nat
      BY DEF InflateAssumption
    <3> QED
      BY <1>3, <3>1, <3>2 DEF Ops
  <2>2. CASE ReadVarint \/ AtEnd
    BY <1>3, <2>2 DEF ReadVarint, AtEnd, Ops
  <2> QED
    BY <1>4, <2>1, <2>2
<1>5. CASE Take
  BY <1>5, TakeKeeps
<1>6. CASE NextByte
  <2>1. payload # NoPayload /\ call \in [op : Ops, left : Nat, bytes : Nat]
    BY <1>6 DEF NextByte, IInv, TypeOK
  <2>2. call' \in [op : Ops, left : Nat, bytes : Nat]
    BY <1>6, <2>1 DEF NextByte
  <2> QED
    BY <1>6, <2>1, <2>2, OnlyTheCall DEF NextByte
<1>7. CASE Return
  BY <1>7, OnlyTheCall DEF Return
<1>8. CASE ReadFails
  BY <1>8, OnlyTheCall DEF ReadFails, NeedsFill
<1>9. CASE FillNone
  BY <1>9, FillNoneKeeps
<1>10. CASE FillInflated
  BY <1>10, FillInflatedKeeps
<1>11. CASE UNCHANGED vars
  <2>1. call = NoCall \/ (payload # NoPayload /\ call \in [op : Ops, left : Nat, bytes : Nat])
    BY DEF IInv, TypeOK
  <2> QED
    BY <1>11, <2>1, OnlyTheCall DEF vars
<1> QED
  BY <1>1, <1>2, <1>4, <1>5, <1>6, <1>7, <1>8, <1>9, <1>10, <1>11 DEF Next, Step

LEMMA Invariance == InflateAssumption => (Spec => []IInv)
<1> SUFFICES ASSUME InflateAssumption PROVE Spec => []IInv
  OBVIOUS
<1> QED
  BY InitInv, StepInv, PTL DEF Spec

-----------------------------------------------------------------------------
(* The stream promised: every step passes bytes of the content, fails,     *)
(* ends, begins again, or is none of the caller's concern.                 *)

Status == IF failed THEN "failed" ELSE IF finished /\ avail_len = 0 THEN "ended" ELSE "open"

LEMMA InitMaps == Init => Stream!StreamInit
  BY DEF Init, Stream!StreamInit

\* The passed bytes are a prefix of the content, all of it once the stream has
\* ended.
PrefixPassed ==
  /\ Produced - avail_len \in 0..Len(Contents)
  /\ Len(passed) = Produced - avail_len
  /\ passed = SubSeq(Contents, 1, Produced - avail_len)
  /\ Status = "ended" => passed = Contents
  /\ Len(Contents) \in Nat

LEMMA PassedIsAPrefix ==
  InflateAssumption /\ IInv /\ payload # NoPayload => PrefixPassed
<1> SUFFICES ASSUME InflateAssumption, IInv, payload # NoPayload PROVE PrefixPassed
  OBVIOUS
<1> DEFINE d == Deflated(payload)
           n == Produced - avail_len
           S == {<<payload.id, i>> : i \in 1..Yield(payload, Units(payload))}
<1>1. payload \in Payloads /\ PassedFromTheStart /\ InStep
  BY DEF IInv, TypeOK
<1>2. Contents = d
  BY <1>1, ContentsAreDeflated
<1>3. d \in Seq(S) /\ Len(d) = Yield(payload, Units(payload)) /\ Len(d) \in Nat
  BY <1>1, DeflatedIsASequence
<1>4. Produced <= Len(d) /\ Produced \in Nat /\ avail_len \in Nat
  <2>1. /\ input_consumed \in 0..Units(payload) /\ Units(payload) \in 0..Units(payload)
        /\ Yield(payload, input_consumed) <= Yield(payload, Units(payload))
        /\ Yield(payload, input_consumed) \in Nat
    BY <1>1, Yields DEF InStep
  <2>2. Produced \in Nat /\ avail_len \in Nat
    BY DEF Produced, IInv, TypeOK
  <2> QED
    BY <1>1, <1>3, <2>1, <2>2 DEF InStep
<1>5. n \in 0..Len(d) /\ n \in Nat
  BY <1>1, <1>3, <1>4 DEF PassedFromTheStart
<1>6. passed = [i \in 1..n |-> d[i]]
  BY <1>1 DEF PassedFromTheStart
<1>7. Status = "ended" => n = Len(d)
  BY <1>1, <1>3, <1>4 DEF Status, InStep
<1> HIDE DEF d, n, S
<1>8. \A i \in 1..Len(d) : d[i] \in S
  BY <1>3, ElementOfSeq
<1>9. passed \in Seq(S) /\ Len(passed) = n
  BY <1>5, <1>6, <1>8
<1>10. PICK u \in Seq(S) : u = SubSeq(d, 1, n) /\ Len(u) = n /\ \A i \in 1..n : u[i] = d[i]
  <2>1. 1 \in Int /\ n \in Int /\ \A i \in 1..n : d[i] \in S
    BY <1>5, <1>8
  <2>2. /\ SubSeq(d, 1, n) \in Seq(S)
        /\ Len(SubSeq(d, 1, n)) = IF 1 <= n THEN n - 1 + 1 ELSE 0
        /\ \A i \in 1..n - 1 + 1 : SubSeq(d, 1, n)[i] = d[1 + i - 1]
    BY <2>1, SubSeqProperties
  <2>3. Len(SubSeq(d, 1, n)) = n
    BY <1>5, <2>2
  <2>4. \A i \in 1..n : SubSeq(d, 1, n)[i] = d[i]
    <3>1. \A i \in 1..n : i \in 1..n - 1 + 1 /\ 1 + i - 1 = i
      BY <1>5
    <3> QED
      BY <2>2, <3>1
  <2> QED
    BY <2>2, <2>3, <2>4
<1>11. passed = u
  <2>1. \A i \in 1..n : passed[i] = u[i]
    BY <1>6, <1>10
  <2> QED
    BY <1>9, <1>10, <2>1, SeqEqual
<1>12. n = Len(d) => passed = d
  <2>1. SUFFICES ASSUME n = Len(d) PROVE passed = d
    OBVIOUS
  <2>2. \A i \in 1..n : passed[i] = d[i]
    BY <1>6
  <2> QED
    BY <1>3, <1>9, <2>1, <2>2, SeqEqual
<1> QED
  BY <1>2, <1>3, <1>5, <1>7, <1>9, <1>10, <1>11, <1>12 DEF n, PrefixPassed

\* A step within one payload: the bytes passed grow along its content, and the
\* status stays, or becomes "ended" when all are passed, or fails.
LEMMA GrowsAlong ==
  ASSUME InflateAssumption, IInv, IInv', payload # NoPayload, payload' = payload,
         avail_len' <= avail_len + (Produced' - Produced),
         \/ Status' = Status /\ Status # "ended"
         \/ Status = "open" /\ Status' = "ended"
  PROVE  Stream!Pass
<1>1. Contents' = Contents
  BY DEF Contents
<1>2. PrefixPassed
  BY PassedIsAPrefix
<1>3. PrefixPassed'
  <2>1. (InflateAssumption /\ IInv /\ payload # NoPayload)'
    BY DEF InflateAssumption, Deflated
  <2> QED
    BY <2>1, PassedIsAPrefix, PTL
<1> DEFINE n == Produced' - avail_len'
<1>4. /\ n \in 0..Len(Contents) /\ n >= Len(passed)
      /\ passed' = SubSeq(Contents, 1, n)
      /\ Status' = "ended" => passed' = Contents
      /\ Len(passed) \in Nat
  <2>1. /\ Produced \in Nat /\ Produced' \in Nat /\ avail_len \in Nat /\ avail_len' \in Nat
    BY DEF IInv, TypeOK, Produced
  <2>2. Len(passed) = Produced - avail_len /\ Produced - avail_len \in Nat
    BY <1>2, <2>1 DEF PrefixPassed
  <2>3. /\ n \in 0..Len(Contents) /\ passed' = SubSeq(Contents, 1, n)
        /\ Status' = "ended" => passed' = Contents
    BY <1>1, <1>3 DEF PrefixPassed
  <2>4. Produced' - avail_len' >= Produced - avail_len
    <3>1. \A a, b, m, k \in Nat : a <= b + (m - k) => m - a >= k - b
      OBVIOUS
    <3> QED
      BY <2>1, <3>1
  <2> QED
    BY <2>2, <2>3, <2>4
<1> HIDE DEF n
<1>5. n \in Len(passed)..Len(Contents)
  BY <1>2, <1>4 DEF PrefixPassed
<1>6. \E k \in Len(passed)..Len(Contents) : passed' = SubSeq(Contents, 1, k)
  BY <1>4, <1>5
<1>7. Status # "ended" /\ (Status' = Status \/ (Status = "open" /\ passed' = Contents /\ Status' = "ended"))
  BY <1>4
<1> QED
  BY <1>1, <1>6, <1>7 DEF Stream!Pass, Status

LEMMA StepMaps ==
  InflateAssumption /\ IInv /\ IInv' /\ [Next]_vars => [Stream!StreamNext]_(Stream!streamVars)
<1> SUFFICES ASSUME InflateAssumption, IInv, IInv', [Next]_vars
             PROVE  Stream!StreamNext \/ UNCHANGED <<Contents, passed, Status>>
  BY DEF Stream!streamVars, Status
<1>0. payload' = payload => Contents' = Contents
  BY DEF Contents
<1>1. ASSUME Restarted PROVE Stream!Restart
  BY <1>1 DEF Restarted, Stream!Restart
<1>2. ASSUME UNCHANGED <<payload, passed, failed, finished, avail_len>>
      PROVE  UNCHANGED <<Contents, passed, Status>>
  BY <1>0, <1>2 DEF Status
<1>3. CASE Take
  <2> DEFINE take == Smaller(call.left, avail_len)
  <2>1. /\ payload # NoPayload /\ payload' = payload /\ avail_len' = avail_len - take
        /\ take \in 1..avail_len /\ avail_len \in Nat /\ avail_len > 0
        /\ failed' = failed /\ finished' = finished
    BY <1>3, SMTT(30) DEF Take, Smaller, IInv, TypeOK
  <2>2. Produced' = Produced /\ Produced \in Nat
    BY <1>3 DEF Take, Produced, IInv, TypeOK
  <2>3. avail_len' <= avail_len + (Produced' - Produced)
    BY <2>1, <2>2
  <2>4. Status # "ended" /\ (Status' = Status \/ (Status = "open" /\ Status' = "ended"))
    BY <2>1 DEF Status
  <2>5. Stream!Pass
    BY <2>1, <2>3, <2>4, GrowsAlong
  <2> QED
    BY <2>5 DEF Stream!StreamNext
<1>4. CASE ReadFails
  <2>1. Stream!Break
    BY <1>0, <1>4 DEF ReadFails, NeedsFill, Stream!Break
  <2> QED
    BY <2>1 DEF Stream!StreamNext
<1>5. ASSUME NeedsFill, payload # NoPayload, payload' = payload, passed' = passed,
             failed' \in BOOLEAN, finished' \in BOOLEAN,
             avail_len' = Produced' - Produced
      PROVE  Stream!StreamNext \/ UNCHANGED <<Contents, passed, Status>>
  <2>1. Status = "open" /\ Contents' = Contents /\ avail_len = 0
    BY <1>0, <1>5 DEF NeedsFill, Status
  <2>2. CASE Status' = "open"
    BY <1>5, <2>1, <2>2
  <2>3. CASE Status' = "failed"
    <3>1. Stream!Break
      BY <1>5, <2>1, <2>3 DEF Stream!Break, Status
    <3> QED
      BY <3>1 DEF Stream!StreamNext
  <2>4. CASE Status' = "ended"
    <3>1. avail_len' <= avail_len + (Produced' - Produced)
      <4>1. avail_len' \in Nat
        BY DEF IInv, TypeOK
      <4> QED
        BY <1>5, <2>1, <4>1
    <3>2. Stream!Pass
      BY <1>5, <2>1, <2>4, <3>1, GrowsAlong
    <3> QED
      BY <3>2 DEF Stream!StreamNext
  <2> QED
    BY <2>2, <2>3, <2>4 DEF Status
<1>6. CASE FillNone
  <2>1. NeedsFill /\ payload # NoPayload /\ payload.compression = "none"
    BY <1>6 DEF FillNone, NeedsFill, IInv, TypeOK
  <2>2. /\ payload' = payload /\ passed' = passed
        /\ avail_len' = Want /\ input_consumed' = input_consumed + Want
    BY <1>6 DEF FillNone
  <2>3. Produced' = Produced + Want /\ Produced \in Nat /\ Want \in Nat
    BY <2>1, <2>2 DEF Produced, IInv, TypeOK
  <2>4. avail_len' = Produced' - Produced /\ failed' \in BOOLEAN /\ finished' \in BOOLEAN
    BY <2>2, <2>3 DEF IInv, TypeOK
  <2> QED
    BY <1>5, <2>1, <2>2, <2>4
<1>7. CASE FillInflated
  <2>1. NeedsFill /\ payload # NoPayload /\ payload.compression = "gzip"
    BY <1>7 DEF FillInflated, NeedsFill, IInv, TypeOK
  <2>2. PICK r \in Inflated(Want) : made' = made + r.out /\ avail_len' = r.out
    BY <1>7 DEF FillInflated
  <2>3. payload' = payload /\ passed' = passed
    BY <1>7 DEF FillInflated
  <2>4. /\ Produced' = Produced + avail_len' /\ Produced \in Nat /\ avail_len' \in Nat
        /\ failed' \in BOOLEAN /\ finished' \in BOOLEAN
    BY <2>1, <2>2, <2>3 DEF Produced, IInv, TypeOK
  <2>5. avail_len' = Produced' - Produced
    <3>1. \A a, b, m \in Nat : m = b + a => a = m - b
      OBVIOUS
    <3>2. Produced' \in Nat
      BY DEF Produced, IInv, TypeOK
    <3> QED
      BY <2>4, <3>1, <3>2
  <2> QED
    BY <1>5, <2>1, <2>3, <2>4, <2>5
<1>8. ASSUME \/ Read \/ ReadVarint \/ AtEnd \/ NextByte \/ Return \/ UNCHANGED vars
      PROVE  UNCHANGED <<payload, passed, failed, finished, avail_len>>
  BY <1>8 DEF Read, ReadVarint, AtEnd, Call, NextByte, Return, vars
<1>9. ASSUME \/ \E p \in Payloads : Begin(p)
             \/ BeginFails
      PROVE  Restarted
  BY <1>9 DEF Begin, BeginFails
<1> QED
  BY <1>1, <1>2, <1>3, <1>4, <1>6, <1>7, <1>8, <1>9 DEF Next, Step, Stream!StreamNext

\* InflatingByteStream passes exactly the bytes its payload inflates to, from
\* the start at every Begin and in order, and ends behind the last of them, for
\* every ring, piece and payload.
THEOREM StreamImplemented == InflateAssumption => (Spec => ImplementsStream)
<1> SUFFICES ASSUME InflateAssumption PROVE Spec => ImplementsStream
  OBVIOUS
<1>1. Spec => []IInv
  BY Invariance
<1>2. IInv /\ IInv' /\ [Next]_vars => [Stream!StreamNext]_(Stream!streamVars)
  BY StepMaps
<1> QED
  BY <1>1, <1>2, InitMaps, PTL DEF Spec, ImplementsStream, Stream!StreamSpec

-----------------------------------------------------------------------------
(* Geometries.  A fold over a sequence visits its positions one by one.    *)

\* A set of positions that is not empty has a last one.
LEMMA LastPosition ==
  ASSUME NEW n \in Nat, NEW s \in SUBSET (1..n), s # {}
  PROVE  Seqs!Max(s) \in s /\ \A i \in s : i <= Seqs!Max(s)
<1> DEFINE B == {n - i : i \in s}
<1>0. \A i \in s : i \in 1..n /\ n - i \in Nat
  OBVIOUS
<1>1. B \in SUBSET Nat /\ B # {}
  BY <1>0
<1>2. PICK m \in B : \A k \in B : m <= k
  <2> HIDE DEF B
  <2> QED
    BY <1>1, LeastNatural
<1>3. PICK i \in s : m = n - i
  BY <1>2
<1>4. \A j \in s : j <= i
  <2> SUFFICES ASSUME NEW j \in s PROVE j <= i
    OBVIOUS
  <2>1. n - i <= n - j
    BY <1>2, <1>3
  <2>2. i \in 1..n /\ j \in 1..n
    BY <1>0
  <2> HIDE DEF B
  <2> QED
    BY <2>1, <2>2
<1>5. \E x \in s : \A y \in s : x >= y
  BY <1>4
<1> QED
  BY <1>5 DEF Seqs!Max

\* The last of some positions, as the decoder's folds choose it.
LEMMA DecoderLasts ==
  ASSUME NEW n \in Nat
  PROVE  Lasts([s \in SUBSET (1..n) |-> Seqs!Max(s)], n)
  BY LastPosition DEF Lasts

Rings == Seq(Seq(Int \X Int))

\* What the geometry decoder knows between two words.
Cursors == [rings : Rings, used : Nat, cx : Int, cy : Int, id : Nat, left : Nat, ok : BOOLEAN]

AtStart(stale) == [rings |-> stale, used |-> 0, cx |-> 0, cy |-> 0, id |-> 0, left |-> 0, ok |-> TRUE]

\* One word of a geometry.
OneWord(g, type, w) ==
  IF ~g.ok THEN g
  ELSE IF g.left = 0 THEN Command(g, type, w)
  ELSE Parameter(g, type, w)

LEMMA NewRings ==
  ASSUME NEW g \in Cursors, NEW n \in Nat, NEW rings \in Rings
  PROVE  [g EXCEPT !.used = n, !.rings = rings] \in Cursors
  BY DEF Cursors

LEMMA NewPoint ==
  ASSUME NEW g \in Cursors, NEW n \in Nat, NEW c \in Int
  PROVE  /\ [g EXCEPT !.left = n, !.cx = c] \in Cursors
         /\ [g EXCEPT !.left = n, !.cy = c] \in Cursors
<1>1. [g EXCEPT !.left = n, !.cx = c] \in Cursors
  BY DEF Cursors
<1>2. [g EXCEPT !.left = n, !.cy = c] \in Cursors
  BY DEF Cursors
<1> QED
  BY <1>1, <1>2

LEMMA OpenedRing == ASSUME NEW g \in Cursors PROVE OpenRing(g) \in Cursors
<1>1. g.rings \in Rings /\ g.used \in Nat /\ Len(g.rings) \in Nat
  BY LenProperties DEF Cursors, Rings
<1> DEFINE opened == IF g.used < Len(g.rings) THEN [g.rings EXCEPT ![g.used + 1] = <<>>]
                     ELSE Append(g.rings, <<>>)
<1>2. opened \in Rings
  <2>1. <<>> \in Seq(Int \X Int)
    OBVIOUS
  <2>2. CASE g.used < Len(g.rings)
    <3>1. g.used + 1 \in 1..Len(g.rings)
      BY <1>1, <2>2
    <3>2. [g.rings EXCEPT ![g.used + 1] = <<>>] \in Seq(Seq(Int \X Int))
      BY <1>1, <2>1, <3>1, ExceptSeq DEF Rings
    <3> QED
      BY <2>2, <3>2 DEF Rings
  <2>3. CASE ~(g.used < Len(g.rings))
    BY <1>1, <2>1, <2>3, AppendProperties DEF Rings
  <2> QED
    BY <2>2, <2>3
<1>3. OpenRing(g) = [g EXCEPT !.used = g.used + 1, !.rings = opened]
  BY DEF OpenRing, Cursors
<1>4. g.used + 1 \in Nat
  BY <1>1
<1> HIDE DEF opened
<1> QED
  BY <1>2, <1>3, <1>4, NewRings, Zenon

LEMMA PushedPoint == ASSUME NEW g \in Cursors PROVE PushPoint(g) \in Cursors
<1>1. g.rings \in Rings /\ g.used \in Nat /\ Len(g.rings) \in Nat /\ DOMAIN g.rings = 1..Len(g.rings)
  BY LenProperties DEF Cursors, Rings
<1> DEFINE pushed == [g.rings EXCEPT ![g.used] = Append(@, <<g.cx, g.cy>>)]
<1>2. pushed \in Rings
  <2>1. CASE g.used \in 1..Len(g.rings)
    <3>1. g.rings[g.used] \in Seq(Int \X Int)
      BY <1>1, <2>1, ElementOfSeq DEF Rings
    <3>2. <<g.cx, g.cy>> \in Int \X Int
      BY DEF Cursors
    <3>3. Append(g.rings[g.used], <<g.cx, g.cy>>) \in Seq(Int \X Int)
      BY <3>1, <3>2, AppendProperties
    <3>4. [g.rings EXCEPT ![g.used] = Append(g.rings[g.used], <<g.cx, g.cy>>)] \in Seq(Seq(Int \X Int))
      BY <1>1, <2>1, <3>3, ExceptSeq DEF Rings
    <3> QED
      BY <3>4 DEF Rings
  <2>2. CASE g.used \notin 1..Len(g.rings)
    <3>1. pushed = g.rings
      BY <1>1, <2>2 DEF Rings
    <3> QED
      BY <1>1, <3>1
  <2> QED
    BY <2>1, <2>2
<1>3. PushPoint(g) = [g EXCEPT !.rings = pushed]
  BY DEF PushPoint, Cursors
<1> HIDE DEF pushed
<1> QED
  BY <1>2, <1>3 DEF Cursors

LEMMA ZigZagIsInt == ASSUME NEW w \in Nat PROVE ZigZagDecode(w) \in Int
  BY DEF ZigZagDecode

LEMMA WordStays ==
  ASSUME NEW g \in Cursors, NEW type, NEW w \in Nat
  PROVE  OneWord(g, type, w) \in Cursors
<1>1. CASE ~g.ok
  BY <1>1 DEF OneWord
<1>2. CASE g.ok /\ g.left = 0
  <2> DEFINE taken == [g EXCEPT !.id = w % 8, !.left = 2 * (w \div 8)]
  <2>1. w % 8 \in Nat /\ 2 * (w \div 8) \in Nat
    OBVIOUS
  <2>2. taken \in Cursors
    BY <2>1 DEF Cursors
  <2>3. OpenRing(taken) \in Cursors
    <3> HIDE DEF taken
    <3> QED
      BY <2>2, OpenedRing
  <2>4. [g EXCEPT !.ok = FALSE] \in Cursors
    BY DEF Cursors
  <2>5. Command(g, type, w) \in {taken, OpenRing(taken), g, [g EXCEPT !.ok = FALSE]}
    <3> HIDE DEF taken
    <3>1. Command(g, type, w) =
            LET id == w % 8
                count == w \div 8
            IN  CASE id = 1 -> IF type = "point" /\ g.used = 0 THEN OpenRing(taken) ELSE taken
                  [] id = 2 /\ g.used > 0 -> taken
                  [] id = 7 /\ g.used > 0 /\ count = 1 -> g
                  [] OTHER -> [g EXCEPT !.ok = FALSE]
      BY DEF Command, taken
    <3> QED
      BY <3>1
  <2> HIDE DEF taken
  <2> QED
    BY <1>2, <2>2, <2>3, <2>4, <2>5 DEF OneWord
<1>3. CASE g.ok /\ g.left # 0
  <2> DEFINE d == ZigZagDecode(w)
             x == [g EXCEPT !.left = @ - 1, !.cx = @ + d]
             y == [g EXCEPT !.left = @ - 1, !.cy = @ + d]
             open == IF g.id = 1 /\ type # "point" THEN OpenRing(y) ELSE y
  <2>1. d \in Int
    BY ZigZagIsInt
  <2> HIDE DEF d
  <2>2. x \in Cursors /\ y \in Cursors
    <3>1. g.left - 1 \in Nat /\ g.cx + d \in Int /\ g.cy + d \in Int
      BY <1>3, <2>1 DEF Cursors
    <3> QED
      BY <3>1, NewPoint, Zenon
  <2>3. open \in Cursors
    <3> HIDE DEF y
    <3> QED
      BY <2>2, OpenedRing
  <2>4. PushPoint(open) \in Cursors
    <3> HIDE DEF open
    <3> QED
      BY <2>3, PushedPoint
  <2>5. Parameter(g, type, w) \in {x, PushPoint(open)}
    BY DEF Parameter, d
  <2> HIDE DEF x, open
  <2> QED
    BY <1>3, <2>2, <2>4, <2>5 DEF OneWord
<1> QED
  BY <1>1, <1>2, <1>3 DEF Cursors

\* The words are taken one by one.
LEMMA DecodingRuns ==
  ASSUME NEW words \in Seq(Nat), NEW type, NEW stale \in Rings
  PROVE  \E r \in [0..Len(words) -> Cursors] :
           /\ r[0] = AtStart(stale)
           /\ \A k \in 1..Len(words) : r[k] = OneWord(r[k - 1], type, words[k])
           /\ DecodeGeometryInto(words, type, stale) = Decoded(r[Len(words)])
<1> DEFINE n == Len(words)
           X == Cursors
           base == AtStart(stale)
           last(s) == Seqs!Max(s)
           mx == [s \in SUBSET (1..n) |-> last(s)]
           step == [q \in X \X (1..n) |-> OneWord(q[1], type, words[q[2]])]
           Folds(h) == h = [s \in SUBSET (1..n) |->
                              IF s = {} THEN base ELSE OneWord(h[s \ {last(s)}], type, words[last(s)])]
           f == CHOOSE h : Folds(h)
<1>1. n \in Nat /\ DOMAIN words = 1..n /\ \A i \in 1..n : words[i] \in Nat
  BY LenProperties
<1>2. DecodeGeometryInto(words, type, stale) = Decoded(f[1..n])
  BY <1>1 DEF DecodeGeometryInto, Seqs!FoldLeft, Seqs!MapThenFoldSet,
              AtStart, OneWord
<1> HIDE DEF f, n
<1>3. base \in X
  <2>1. stale \in Rings /\ 0 \in Nat /\ 0 \in Int
    OBVIOUS
  <2> QED
    BY <2>1 DEF AtStart, Cursors
<1>4. \A x \in X, i \in 1..n : step[<<x, i>>] = OneWord(x, type, words[i]) /\ step[<<x, i>>] \in X
  BY <1>1, WordStays
<1>5. step \in [X \X (1..n) -> X]
  <2>1. \A q \in X \X (1..n) : OneWord(q[1], type, words[q[2]]) \in X
    BY <1>1, WordStays
  <2> QED
    BY <2>1
<1>6. Lasts(mx, n) /\ \A s \in SUBSET (1..n) : mx[s] = last(s)
  BY <1>1, DecoderLasts
<1> HIDE DEF X, base, step, mx
<1>7. PICK g \in [SUBSET (1..n) -> X] : Fold(g, n, mx, base, step)
  BY ONLY <1>1, <1>3, <1>5, <1>6, FoldExists
<1>8. Folds(f)
  <2>1. ASSUME NEW s \in SUBSET (1..n), s # {}
        PROVE  g[s] = OneWord(g[s \ {last(s)}], type, words[last(s)])
    <3>1. g[s] = step[<<g[s \ {mx[s]}], mx[s]>>] /\ mx[s] \in 1..n /\ g[s \ {mx[s]}] \in X
      BY <1>6, <1>7, <2>1 DEF Fold, Lasts
    <3> HIDE DEF last
    <3> QED
      BY <1>4, <1>6, <3>1
  <2>2. g[{}] = base
    BY <1>7 DEF Fold
  <2>3. Folds(g)
    <3> HIDE DEF last
    <3> QED
      BY <1>7, <2>1, <2>2
  <2> HIDE DEF Folds
  <2> QED
    BY <2>3 DEF f
<1>9. f[{}] = base
  <2>1. {} \in SUBSET (1..n)
    OBVIOUS
  <2> HIDE DEF last
  <2> QED
    BY <1>8, <2>1
<1>10. ASSUME NEW s \in SUBSET (1..n), s # {}, f[s \ {mx[s]}] \in X
       PROVE  f[s] = step[<<f[s \ {mx[s]}], mx[s]>>]
  <2>1. f[s] = OneWord(f[s \ {last(s)}], type, words[last(s)])
    <3> HIDE DEF last
    <3> QED
      BY <1>8, <1>10
  <2>2. mx[s] = last(s) /\ mx[s] \in 1..n
    BY <1>6, <1>10 DEF Lasts
  <2> HIDE DEF last
  <2> QED
    BY <1>4, <1>10, <2>1, <2>2
<1>11. \E r \in [0..n -> X] : RecursionTo(r, n, base, step, f[1..n])
  <2>1. \A x \in X, i \in 1..n : step[<<x, i>>] \in X
    BY <1>4, Zenon
  <2>2. \A s \in SUBSET (1..n) :
          s # {} /\ f[s \ {mx[s]}] \in X => f[s] = step[<<f[s \ {mx[s]}], mx[s]>>]
    BY <1>10
  <2>3. n \in Nat /\ base \in X /\ Lasts(mx, n) /\ f[{}] = base
    BY <1>1, <1>3, <1>6, <1>9
  <2> HIDE DEF last, Folds
  <2> QED
    BY ONLY <2>1, <2>2, <2>3, FoldRuns
<1>12. PICK r \in [0..n -> X] : Recursion(r, n, base, step) /\ r[n] = f[1..n]
  BY <1>11 DEF RecursionTo
<1>13. ASSUME NEW k \in 1..n PROVE r[k] = OneWord(r[k - 1], type, words[k])
  <2>1. r[k] = step[<<r[k - 1], k>>] /\ k - 1 \in 0..n
    BY <1>1, <1>12 DEF Recursion
  <2> QED
    BY <1>4, <1>12, <2>1
<1>14. r[0] = base /\ DecodeGeometryInto(words, type, stale) = Decoded(r[n])
  BY <1>2, <1>12 DEF Recursion
<1> QED
  BY <1>12, <1>13, <1>14 DEF n, X, base

\* Two cursors that differ in what lies beyond the rings they have opened.
Same(g, h) ==
  /\ g.used = h.used /\ g.cx = h.cx /\ g.cy = h.cy /\ g.id = h.id /\ g.left = h.left /\ g.ok = h.ok
  /\ Len(h.rings) = h.used /\ h.used <= Len(g.rings)
  /\ \A i \in 1..h.used : g.rings[i] = h.rings[i]

LEMMA SameOpened ==
  ASSUME NEW g \in Cursors, NEW h \in Cursors, Same(g, h)
  PROVE  Same(OpenRing(g), OpenRing(h))
<1> DEFINE a == OpenRing(g)
           b == OpenRing(h)
           n == h.used
           u == n + 1
<1>1. /\ g.rings \in Rings /\ h.rings \in Rings /\ n \in Nat /\ Len(g.rings) \in Nat
      /\ g.used = n /\ Len(h.rings) = n /\ n <= Len(g.rings)
  BY LenProperties DEF Cursors, Rings, Same
<1>2. /\ a = [g EXCEPT !.used = u, !.rings = a.rings]
      /\ b = [h EXCEPT !.used = u, !.rings = b.rings]
      /\ a.used = u /\ b.used = u
      /\ b.rings = Append(h.rings, <<>>)
      /\ n < Len(g.rings) => a.rings = [g.rings EXCEPT ![u] = <<>>]
      /\ ~(n < Len(g.rings)) => a.rings = Append(g.rings, <<>>)
  BY <1>1 DEF OpenRing, Cursors
<1>3. /\ Len(b.rings) = u /\ b.rings[u] = <<>>
      /\ \A i \in 1..n : b.rings[i] = h.rings[i]
  BY <1>1, <1>2, AppendProperties DEF Rings
<1>4. /\ u <= Len(a.rings) /\ a.rings[u] = <<>>
      /\ \A i \in 1..n : a.rings[i] = g.rings[i]
  <2>1. CASE n < Len(g.rings)
    <3>1. u \in 1..Len(g.rings) /\ DOMAIN g.rings = 1..Len(g.rings)
      BY <1>1, <2>1, LenProperties DEF Rings
    <3>2. a.rings = [g.rings EXCEPT ![u] = <<>>]
      BY <1>2, <2>1
    <3>3. <<>> \in Seq(Int \X Int)
      OBVIOUS
    <3>4. Len(a.rings) = Len(g.rings) /\ a.rings[u] = <<>>
          /\ \A i \in 1..Len(g.rings) : i # u => a.rings[i] = g.rings[i]
      BY <1>1, <3>1, <3>2, <3>3, ExceptSeq DEF Rings
    <3> HIDE DEF a, u
    <3>5. u = n + 1
      BY DEF u
    <3> QED
      BY <1>1, <3>1, <3>4, <3>5, SMTT(30)
  <2>2. CASE ~(n < Len(g.rings))
    <3>1. Len(g.rings) = n
      BY <1>1, <2>2
    <3>2. a.rings = Append(g.rings, <<>>)
      BY <1>2, <2>2
    <3> QED
      BY <1>1, <3>1, <3>2, AppendProperties DEF Rings
  <2> QED
    BY <2>1, <2>2
<1>5. /\ a.cx = b.cx /\ a.cy = b.cy /\ a.id = b.id /\ a.left = b.left /\ a.ok = b.ok
  <2>1. g.cx = h.cx /\ g.cy = h.cy /\ g.id = h.id /\ g.left = h.left /\ g.ok = h.ok
    BY DEF Same
  <2> QED
    BY <2>1 DEF OpenRing, Cursors
<1>6. \A i \in 1..u : a.rings[i] = b.rings[i]
  <2>1. \A i \in 1..n : g.rings[i] = h.rings[i]
    BY DEF Same
  <2>2. \A i \in 1..u : i = u \/ i \in 1..n
    BY <1>1
  <2> HIDE DEF a, b, u, n
  <2> QED
    BY <1>3, <1>4, <2>1, <2>2
<1> HIDE DEF a, b, u
<1> QED
  BY <1>2, <1>3, <1>4, <1>5, <1>6 DEF Same, a, b

LEMMA SamePushed ==
  ASSUME NEW g \in Cursors, NEW h \in Cursors, Same(g, h)
  PROVE  Same(PushPoint(g), PushPoint(h))
<1> DEFINE a == PushPoint(g)
           b == PushPoint(h)
           n == h.used
           p == <<h.cx, h.cy>>
<1>1. /\ g.rings \in Rings /\ h.rings \in Rings /\ n \in Nat /\ Len(g.rings) \in Nat
      /\ g.used = n /\ Len(h.rings) = n /\ n <= Len(g.rings)
      /\ DOMAIN g.rings = 1..Len(g.rings) /\ DOMAIN h.rings = 1..n
      /\ g.cx = h.cx /\ g.cy = h.cy
  BY LenProperties DEF Cursors, Rings, Same
<1>2. /\ a.rings = [g.rings EXCEPT ![n] = Append(g.rings[n], p)]
      /\ b.rings = [h.rings EXCEPT ![n] = Append(h.rings[n], p)]
  BY <1>1 DEF PushPoint, Cursors
<1>3. /\ a.used = n /\ b.used = n
      /\ a.cx = b.cx /\ a.cy = b.cy /\ a.id = b.id /\ a.left = b.left /\ a.ok = b.ok
  <2>1. g.used = h.used /\ g.cx = h.cx /\ g.cy = h.cy /\ g.id = h.id /\ g.left = h.left /\ g.ok = h.ok
    BY DEF Same
  <2> QED
    BY <2>1 DEF PushPoint, Cursors
<1>4. \A i \in 1..n : g.rings[i] = h.rings[i]
  BY DEF Same
<1>5. ASSUME NEW i \in 1..n PROVE a.rings[i] = b.rings[i]
  <2>1. i \in DOMAIN g.rings /\ i \in DOMAIN h.rings /\ g.rings[i] = h.rings[i]
    BY <1>1, <1>4
  <2>2. i = n => g.rings[n] = h.rings[n]
    BY <2>1
  <2> HIDE DEF a, b, p
  <2> QED
    BY <1>2, <2>1, <2>2
<1>6. Len(a.rings) = Len(g.rings) /\ Len(b.rings) = n
  <2>1. /\ DOMAIN a.rings = 1..Len(g.rings) /\ DOMAIN b.rings = 1..n
    BY <1>1, <1>2
  <2>2. a \in Cursors /\ b \in Cursors
    BY PushedPoint
  <2>3. /\ a.rings \in Seq(Seq(Int \X Int)) /\ b.rings \in Seq(Seq(Int \X Int))
    BY <2>2 DEF Cursors, Rings
  <2>4. /\ DOMAIN a.rings = 1..Len(a.rings) /\ DOMAIN b.rings = 1..Len(b.rings)
        /\ Len(a.rings) \in Nat /\ Len(b.rings) \in Nat
    BY <2>3, LenProperties
  <2> HIDE DEF a, b, n
  <2> QED
    BY <1>1, <2>1, <2>4
<1> HIDE DEF a, b, p
<1> QED
  BY <1>1, <1>3, <1>5, <1>6 DEF Same, a, b

LEMMA SameWord ==
  ASSUME NEW g \in Cursors, NEW h \in Cursors, Same(g, h), NEW type, NEW w \in Nat
  PROVE  Same(OneWord(g, type, w), OneWord(h, type, w))
<1>1. /\ g.used = h.used /\ g.cx = h.cx /\ g.cy = h.cy /\ g.id = h.id /\ g.left = h.left /\ g.ok = h.ok
      /\ g.used \in Nat
  BY DEF Same, Cursors
<1>2. CASE ~g.ok
  BY <1>1, <1>2 DEF OneWord
<1>3. CASE g.ok /\ g.left = 0
  <2> DEFINE id == w % 8
             count == w \div 8
             left == 2 * count
             taken(c) == [c EXCEPT !.id = id, !.left = left]
             refused(c) == [c EXCEPT !.ok = FALSE]
  <2>1. id \in Nat /\ left \in Nat
    OBVIOUS
  <2> HIDE DEF id, left
  <2>2. taken(g) \in Cursors /\ taken(h) \in Cursors /\ Same(taken(g), taken(h))
    BY <2>1 DEF Cursors, Same
  <2>3. Same(OpenRing(taken(g)), OpenRing(taken(h)))
    <3> HIDE DEF taken
    <3> QED
      BY <2>2, SameOpened
  <2>4. Same(refused(g), refused(h))
    BY DEF Cursors, Same
  <2>5. \A c : Command(c, type, w) =
                 CASE id = 1 -> IF type = "point" /\ c.used = 0 THEN OpenRing(taken(c)) ELSE taken(c)
                   [] id = 2 /\ c.used > 0 -> taken(c)
                   [] id = 7 /\ c.used > 0 /\ count = 1 -> c
                   [] OTHER -> refused(c)
    BY DEF Command, id, left
  <2> HIDE DEF taken, refused, count
  <2>6. \/ Command(g, type, w) = OpenRing(taken(g))
           /\ Command(h, type, w) = OpenRing(taken(h))
        \/ Command(g, type, w) = taken(g) /\ Command(h, type, w) = taken(h)
        \/ Command(g, type, w) = g /\ Command(h, type, w) = h
        \/ Command(g, type, w) = refused(g) /\ Command(h, type, w) = refused(h)
    BY <1>1, <2>1, <2>5
  <2>7. Same(Command(g, type, w), Command(h, type, w))
    BY <2>2, <2>3, <2>4, <2>6
  <2> QED
    BY <1>1, <1>3, <2>7 DEF OneWord
<1>4. CASE g.ok /\ g.left # 0
  <2> DEFINE d == ZigZagDecode(w)
             x(c) == [c EXCEPT !.left = @ - 1, !.cx = @ + d]
             y(c) == [c EXCEPT !.left = @ - 1, !.cy = @ + d]
             open(c) == IF c.id = 1 /\ type # "point" THEN OpenRing(y(c)) ELSE y(c)
  <2>1. d \in Int
    BY ZigZagIsInt
  <2> HIDE DEF d
  <2>2. ASSUME NEW c \in Cursors, c.left # 0 PROVE x(c) \in Cursors /\ y(c) \in Cursors
    <3>1. c.left - 1 \in Nat /\ c.cx + d \in Int /\ c.cy + d \in Int
      BY <2>1, <2>2 DEF Cursors
    <3> QED
      BY <3>1, NewPoint, Zenon
  <2>3. x(g) \in Cursors /\ x(h) \in Cursors /\ y(g) \in Cursors /\ y(h) \in Cursors
    BY <1>1, <1>4, <2>2, Zenon
  <2>4. Same(x(g), x(h)) /\ Same(y(g), y(h))
    <3>1. Same(x(g), x(h))
      BY DEF Same, Cursors
    <3>2. Same(y(g), y(h))
      BY DEF Same, Cursors
    <3> QED
      BY <3>1, <3>2
  <2>5. \A c : Parameter(c, type, w) =
                 IF c.left % 2 = 0 THEN x(c) ELSE PushPoint(open(c))
    BY DEF Parameter, d
  <2> HIDE DEF x, y
  <2>6. open(g) \in Cursors /\ open(h) \in Cursors /\ Same(open(g), open(h))
    <3>1. /\ OpenRing(y(g)) \in Cursors /\ OpenRing(y(h)) \in Cursors
          /\ Same(OpenRing(y(g)), OpenRing(y(h)))
      BY <2>3, <2>4, OpenedRing, SameOpened
    <3> QED
      BY <1>1, <2>3, <2>4, <3>1
  <2> HIDE DEF open
  <2>7. Same(PushPoint(open(g)), PushPoint(open(h)))
    BY <2>6, SamePushed
  <2>8. Same(Parameter(g, type, w), Parameter(h, type, w))
    <3>1. g.left % 2 = h.left % 2
      BY <1>1
    <3>2. \/ Parameter(g, type, w) = x(g) /\ Parameter(h, type, w) = x(h)
          \/ Parameter(g, type, w) = PushPoint(open(g))
             /\ Parameter(h, type, w) = PushPoint(open(h))
      BY <2>5, <3>1
    <3> QED
      BY <2>4, <2>7, <3>2
  <2> QED
    BY <1>1, <1>4, <2>8 DEF OneWord
<1> QED
  BY <1>2, <1>3, <1>4 DEF Cursors

LEMMA SameDecoded ==
  ASSUME NEW g \in Cursors, NEW h \in Cursors, Same(g, h)
  PROVE  Decoded(g) = Decoded(h)
<1>1. /\ g.used = h.used /\ g.left = h.left /\ g.ok = h.ok
      /\ g.used \in Nat /\ Len(h.rings) = h.used /\ h.used <= Len(g.rings)
      /\ \A i \in 1..h.used : g.rings[i] = h.rings[i]
      /\ g.rings \in Seq(Seq(Int \X Int)) /\ h.rings \in Seq(Seq(Int \X Int))
      /\ Len(g.rings) \in Nat
  BY LenProperties DEF Same, Cursors, Rings
<1> DEFINE n == h.used
<1>2. SubSeq(g.rings, 1, n) = [i \in 1..n |-> g.rings[i]] /\ SubSeq(h.rings, 1, n) = [i \in 1..n |-> h.rings[i]]
  <2>1. SubSeq(g.rings, 1, n) = [i \in 1..(n - 1 + 1) |-> g.rings[i + 1 - 1]]
    BY <1>1
  <2>2. SubSeq(h.rings, 1, n) = [i \in 1..(n - 1 + 1) |-> h.rings[i + 1 - 1]]
    BY <1>1
  <2>3. n - 1 + 1 = n /\ \A i \in 1..n : i + 1 - 1 = i
    BY <1>1
  <2> QED
    BY <2>1, <2>2, <2>3
<1>3. SubSeq(g.rings, 1, g.used) = SubSeq(h.rings, 1, h.used)
  BY <1>1, <1>2
<1> QED
  BY <1>1, <1>3 DEF Decoded

\* What an earlier feature left in the buffers does not show.
LEMMA StaleRingsDoNotShow ==
  ASSUME NEW words \in Seq(Nat), NEW type, NEW stale \in Rings
  PROVE  DecodeGeometryInto(words, type, stale) = DecodeGeometryInto(words, type, <<>>)
<1> DEFINE n == Len(words)
           none == <<>>
<1>1. n \in Nat /\ none \in Rings /\ \A i \in 1..n : words[i] \in Nat
  BY LenProperties DEF Rings
<1>2. PICK g \in [0..n -> Cursors] :
         /\ g[0] = AtStart(stale)
         /\ \A k \in 1..n : g[k] = OneWord(g[k - 1], type, words[k])
         /\ DecodeGeometryInto(words, type, stale) = Decoded(g[n])
  BY DecodingRuns
<1>3. PICK h \in [0..n -> Cursors] :
         /\ h[0] = AtStart(none)
         /\ \A k \in 1..n : h[k] = OneWord(h[k - 1], type, words[k])
         /\ DecodeGeometryInto(words, type, none) = Decoded(h[n])
  <2> HIDE DEF none
  <2> QED
    BY <1>1, DecodingRuns
<1> DEFINE T == {k \in 0..n : Same(g[k], h[k])}
<1>4. 0 \in T
  <2>1. Len(none) = 0 /\ Len(stale) \in Nat
    BY LenProperties DEF Rings
  <2>2. Same(AtStart(stale), AtStart(none))
    BY <2>1 DEF Same, AtStart
  <2> QED
    BY <1>1, <1>2, <1>3, <2>2
<1> HIDE DEF n, none
<1>5. ASSUME NEW k \in 0..n - 1, k \in T PROVE k + 1 \in T
  <2>1. k + 1 \in 1..n /\ k \in 0..n /\ (k + 1) - 1 = k /\ k + 1 \in 0..n
    BY <1>1
  <2>2. Same(g[k], h[k]) /\ g[k] \in Cursors /\ h[k] \in Cursors /\ words[k + 1] \in Nat
    BY <1>1, <1>2, <1>3, <1>5, <2>1
  <2>3. Same(OneWord(g[k], type, words[k + 1]), OneWord(h[k], type, words[k + 1]))
    BY <2>2, SameWord
  <2>4. g[k + 1] = OneWord(g[k], type, words[k + 1]) /\ h[k + 1] = OneWord(h[k], type, words[k + 1])
    BY <1>2, <1>3, <2>1
  <2> QED
    BY <2>1, <2>3, <2>4
<1>6. \A k \in 0..n : k \in T
  <2> HIDE DEF T
  <2> QED
    BY <1>1, <1>4, <1>5, UpTo
<1>7. Same(g[n], h[n]) /\ g[n] \in Cursors /\ h[n] \in Cursors
  <2>1. n \in 0..n
    BY <1>1
  <2> QED
    BY <1>2, <1>3, <1>6, <2>1
<1> QED
  BY <1>2, <1>3, <1>7, SameDecoded DEF none

-----------------------------------------------------------------------------
(* The fields a geometry is split into.                                    *)

\* Sequences laid end to end.
EndToEnd(c, seqs, n) == c[0] = <<>> /\ \A k \in 1..n : c[k] = c[k - 1] \o seqs[k]

EndToEndIs(c, seqs, n, whole) == EndToEnd(c, seqs, n) /\ whole = c[n]

LEMMA FlattenRuns ==
  ASSUME NEW S, NEW n \in Nat, NEW seqs \in [1..n -> Seq(S)]
  PROVE  \E c \in [0..n -> Seq(S)] : EndToEndIs(c, seqs, n, Seqs!FlattenSeq(seqs))
<1> DEFINE X == Seq(S)
           none == <<>>
           step == [q \in X \X (1..n) |-> q[1] \o seqs[q[2]]]
           Flattens(f) == f = [i \in 1..n |-> IF i = 1 THEN seqs[i] ELSE f[i - 1] \o seqs[i]]
           flatten == CHOOSE f : Flattens(f)
<1>1. Len(seqs) = n
  <2>1. seqs \in Seq(Seq(S))
    BY SeqDef
  <2> QED
    BY <2>1, LenProperties
<1>2. none \in X /\ step \in [X \X (1..n) -> X]
  <2>1. ASSUME NEW q \in X \X (1..n) PROVE q[1] \o seqs[q[2]] \in X
    <3>1. q[2] \in 1..n /\ q[1] \in Seq(S)
      OBVIOUS
    <3>2. seqs[q[2]] \in Seq(S)
      BY <3>1
    <3> QED
      BY <3>1, <3>2
  <2>2. step \in [X \X (1..n) -> X]
    <3> HIDE DEF X
    <3> QED
      BY <2>1
  <2> QED
    BY <2>2
<1>3. \A x \in X, i \in 1..n : step[<<x, i>>] = x \o seqs[i]
  OBVIOUS
<1>4. PICK g \in [0..n -> X] : Recursion(g, n, none, step)
  <2> HIDE DEF X, step, none
  <2> QED
    BY ONLY <1>2, RecursionExists, n \in Nat
<1>5. EndToEnd(g, seqs, n)
  <2>1. ASSUME NEW k \in 1..n PROVE g[k] = g[k - 1] \o seqs[k]
    <3>1. g[k] = step[<<g[k - 1], k>>] /\ k - 1 \in 0..n
      <4> HIDE DEF step
      <4> QED
        BY <1>4 DEF Recursion
    <3> HIDE DEF step, X
    <3> QED
      BY <1>3, <1>4, <3>1
  <2>2. g[0] = <<>>
    BY <1>4 DEF Recursion
  <2> QED
    BY <2>1, <2>2 DEF EndToEnd
<1>6. CASE n = 0
  <2>1. Seqs!FlattenSeq(seqs) = seqs
    BY <1>1, <1>6 DEF Seqs!FlattenSeq
  <2>2. seqs = <<>>
    BY <1>6
  <2>3. EndToEndIs(g, seqs, n, Seqs!FlattenSeq(seqs))
    BY <1>5, <1>6, <2>1, <2>2 DEF EndToEndIs, EndToEnd
  <2> QED
    BY <1>4, <2>3
<1>7. CASE n # 0
  <2>1. Seqs!FlattenSeq(seqs) = flatten[n]
    BY <1>1, <1>7 DEF Seqs!FlattenSeq
  <2>2. Flattens([i \in 1..n |-> g[i]])
    <3> DEFINE h == [i \in 1..n |-> g[i]]
    <3>1. ASSUME NEW i \in 1..n PROVE h[i] = IF i = 1 THEN seqs[i] ELSE h[i - 1] \o seqs[i]
      <4>1. g[i] = g[i - 1] \o seqs[i] /\ g[0] = <<>> /\ h[i] = g[i]
        BY <1>5 DEF EndToEnd
      <4>2. CASE i = 1
        <5>0. i - 1 = 0 /\ i = 1
          BY <4>2
        <5>1. g[1] = <<>> \o seqs[1] /\ seqs[1] \in Seq(S)
          <6> HIDE DEF h
          <6> QED
            BY <4>1, <5>0
        <5>2. <<>> \o seqs[1] = seqs[1]
          BY <5>1, ConcatEmptySeq
        <5> QED
          BY <4>1, <4>2, <5>1, <5>2
      <4>3. CASE i # 1
        <5>1. i - 1 \in 1..n
          BY <4>3
        <5>2. h[i - 1] = g[i - 1]
          BY <5>1
        <5> QED
          BY <4>1, <4>3, <5>2
      <4> QED
        BY <4>2, <4>3
    <3> QED
      BY <3>1
  <2>3. Flattens(flatten)
    <3> HIDE DEF Flattens
    <3> QED
      BY <2>2
  <2> HIDE DEF flatten
  <2> DEFINE T == {k \in 0..n : k = 0 \/ flatten[k] = g[k]}
  <2>4. 0 \in T
    OBVIOUS
  <2>5. ASSUME NEW k \in 0..n - 1, k \in T PROVE k + 1 \in T
    <3>1. k + 1 \in 1..n /\ (k + 1) - 1 = k
      OBVIOUS
    <3>2. g[k + 1] = g[k] \o seqs[k + 1] /\ g[0] = <<>>
      BY <1>5, <3>1 DEF EndToEnd
    <3>3. flatten[k + 1] = IF k + 1 = 1 THEN seqs[k + 1] ELSE flatten[k] \o seqs[k + 1]
      BY <2>3, <3>1
    <3>4. CASE k = 0
      <4>0. k + 1 = 1
        BY <3>4
      <4>1. seqs[1] \in Seq(S) /\ g[1] = <<>> \o seqs[1] /\ flatten[1] = seqs[1]
        <5>1. seqs[1] \in Seq(S)
          BY <3>1, <4>0
        <5>2. g[1] = <<>> \o seqs[1]
          BY <3>2, <3>4, <4>0
        <5>3. flatten[1] = seqs[1]
          BY <3>3, <4>0
        <5> QED
          BY <5>1, <5>2, <5>3
      <4>2. <<>> \o seqs[1] = seqs[1]
        BY <4>1, ConcatEmptySeq
      <4> QED
        BY <3>1, <3>4, <4>1, <4>2
    <3>5. CASE k # 0
      <4>1. k + 1 # 1 /\ k + 1 \in 0..n /\ flatten[k] = g[k]
        BY <2>5, <3>1, <3>5
      <4>2. flatten[k + 1] = g[k + 1]
        BY <3>2, <3>3, <4>1
      <4> QED
        BY <4>1, <4>2
    <3> QED
      BY <3>4, <3>5
  <2>6. \A k \in 0..n : k \in T
    <3> HIDE DEF T
    <3> QED
      BY <2>4, <2>5, UpTo
  <2>7. flatten[n] = g[n]
    <3>1. n \in 0..n
      OBVIOUS
    <3> QED
      BY <1>7, <2>6, <3>1
  <2>8. EndToEndIs(g, seqs, n, Seqs!FlattenSeq(seqs))
    BY <1>5, <2>1, <2>7 DEF EndToEndIs
  <2> QED
    BY <1>4, <2>8
<1> QED
  BY <1>6, <1>7

\* A cut field is a packed one.
GeometryFields ==
  {field \in [packed : BOOLEAN, words : Seq(Nat), cut : BOOLEAN] : field.cut => field.packed}

Collected == [run : GeometryFields, words : Seq(Nat), ok : BOOLEAN]

LEMMA FieldStays ==
  ASSUME NEW p \in Collected, NEW field \in GeometryFields
  PROVE  GeometryField(p, field) \in Collected
<1>1. /\ p.run \in GeometryFields /\ p.words \in Seq(Nat) /\ p.ok \in BOOLEAN
      /\ p.run.words \in Seq(Nat) /\ field.words \in Seq(Nat)
      /\ p.run.cut \in BOOLEAN /\ field.cut \in BOOLEAN
  BY DEF Collected, GeometryFields
<1> DEFINE all == p.words \o p.run.words \o field.words
           more == p.words \o field.words
<1>2. all \in Seq(Nat) /\ more \in Seq(Nat)
  BY <1>1, ConcatProperties
<1> HIDE DEF all, more
<1>3. NoRun \in GeometryFields
  BY DEF NoRun, GeometryFields
<1>4. [p EXCEPT !.run = field] \in Collected
  BY <1>1 DEF Collected
<1>5. [run |-> NoRun, words |-> all, ok |-> p.ok /\ ~p.run.cut /\ ~field.cut] \in Collected
  BY <1>1, <1>2, <1>3 DEF Collected
<1>6. [p EXCEPT !.words = more] \in Collected
  BY <1>1, <1>2 DEF Collected
<1> QED
  BY <1>4, <1>5, <1>6 DEF GeometryField, all, more

NothingYet == [run |-> NoRun, words |-> <<>>, ok |-> TRUE]

CollectedBy(r, fields) ==
  r[0] = NothingYet /\ \A k \in 1..Len(fields) : r[k] = GeometryField(r[k - 1], fields[k])

CollectionIs(r, f) ==
  /\ CollectedBy(r, f.geometry)
  /\ \A stale : FeatureGeometry(f, stale)
                 = Remembered(r[Len(f.geometry)], f.type, stale)

\* The fields are taken one by one.
LEMMA FieldsRun ==
  ASSUME NEW f, f.geometry \in Seq(GeometryFields)
  PROVE  \E r \in [0..Len(f.geometry) -> Collected] : CollectionIs(r, f)
<1> DEFINE fields == f.geometry
           n == Len(fields)
           X == Collected
           base == NothingYet
           last(s) == Seqs!Max(s)
           mx == [s \in SUBSET (1..n) |-> last(s)]
           step == [q \in X \X (1..n) |-> GeometryField(q[1], fields[q[2]])]
           Folds(h) == h = [s \in SUBSET (1..n) |->
                              IF s = {} THEN base
                              ELSE GeometryField(h[s \ {last(s)}], fields[last(s)])]
           fold == CHOOSE h : Folds(h)
<1>1. n \in Nat /\ DOMAIN fields = 1..n /\ \A i \in 1..n : fields[i] \in GeometryFields
  BY LenProperties
<1>2. \A stale : FeatureGeometry(f, stale) = Remembered(fold[1..n], f.type, stale)
  BY <1>1 DEF FeatureGeometry, Seqs!FoldLeft, Seqs!MapThenFoldSet, NothingYet
<1> HIDE DEF fold, n
<1>3. base \in X
  BY DEF NothingYet, Collected, GeometryFields, NoRun
<1>4. \A x \in X, i \in 1..n :
        step[<<x, i>>] = GeometryField(x, fields[i]) /\ step[<<x, i>>] \in X
  <2> HIDE DEF fields
  <2> QED
    BY <1>1, FieldStays
<1>5. step \in [X \X (1..n) -> X]
  <2>1. \A q \in X \X (1..n) : GeometryField(q[1], fields[q[2]]) \in X
    <3> HIDE DEF fields
    <3> QED
      BY <1>1, FieldStays
  <2> QED
    BY <2>1
<1>6. Lasts(mx, n) /\ \A s \in SUBSET (1..n) : mx[s] = last(s)
  BY <1>1, DecoderLasts
<1> HIDE DEF X, base, step, mx, fields
<1>7. PICK g \in [SUBSET (1..n) -> X] : Fold(g, n, mx, base, step)
  BY ONLY <1>1, <1>3, <1>5, <1>6, FoldExists
<1>8. Folds(fold)
  <2>1. ASSUME NEW s \in SUBSET (1..n), s # {}
        PROVE  g[s] = GeometryField(g[s \ {last(s)}], fields[last(s)])
    <3>1. g[s] = step[<<g[s \ {mx[s]}], mx[s]>>] /\ mx[s] \in 1..n /\ g[s \ {mx[s]}] \in X
      BY <1>6, <1>7, <2>1 DEF Fold, Lasts
    <3> HIDE DEF last
    <3> QED
      BY <1>4, <1>6, <3>1
  <2>2. g[{}] = base
    BY <1>7 DEF Fold
  <2>3. Folds(g)
    <3> HIDE DEF last
    <3> QED
      BY <1>7, <2>1, <2>2
  <2> HIDE DEF Folds
  <2> QED
    BY <2>3 DEF fold
<1>9. fold[{}] = base
  <2>1. {} \in SUBSET (1..n)
    OBVIOUS
  <2> HIDE DEF last
  <2> QED
    BY <1>8, <2>1
<1>10. \A s \in SUBSET (1..n) :
         s # {} /\ fold[s \ {mx[s]}] \in X => fold[s] = step[<<fold[s \ {mx[s]}], mx[s]>>]
  <2> SUFFICES ASSUME NEW s \in SUBSET (1..n), s # {}, fold[s \ {mx[s]}] \in X
               PROVE  fold[s] = step[<<fold[s \ {mx[s]}], mx[s]>>]
    OBVIOUS
  <2>1. fold[s] = GeometryField(fold[s \ {last(s)}], fields[last(s)])
    <3> HIDE DEF last
    <3> QED
      BY <1>8
  <2>2. mx[s] = last(s) /\ mx[s] \in 1..n
    BY <1>6 DEF Lasts
  <2> HIDE DEF last
  <2> QED
    BY <1>4, <2>1, <2>2
<1>11. \E r \in [0..n -> X] : RecursionTo(r, n, base, step, fold[1..n])
  <2>1. \A x \in X, i \in 1..n : step[<<x, i>>] \in X
    BY <1>4, Zenon
  <2>2. n \in Nat /\ base \in X /\ Lasts(mx, n) /\ fold[{}] = base
    BY <1>1, <1>3, <1>6, <1>9
  <2> HIDE DEF last, Folds
  <2> QED
    BY ONLY <1>10, <2>1, <2>2, FoldRuns
<1>12. PICK r \in [0..n -> X] : Recursion(r, n, base, step) /\ r[n] = fold[1..n]
  BY <1>11 DEF RecursionTo
<1>13. ASSUME NEW k \in 1..n PROVE r[k] = GeometryField(r[k - 1], fields[k])
  <2>1. r[k] = step[<<r[k - 1], k>>] /\ k - 1 \in 0..n
    BY <1>1, <1>12 DEF Recursion
  <2> QED
    BY <1>4, <1>12, <2>1
<1>14. CollectionIs(r, f)
  <2>1. CollectedBy(r, fields)
    BY <1>12, <1>13 DEF CollectedBy, Recursion, base, n
  <2> QED
    BY <1>2, <1>12, <2>1 DEF CollectionIs, n, fields
<1> QED
  BY <1>12, <1>14 DEF n, X, fields

\* While no unpacked field follows a packed one, what is collected and what is
\* remembered are the words so far, and a cut field has been noticed.
SoFar(p, words, fields, k) ==
  /\ p.words \o p.run.words = words
  /\ p.run.packed => p.words = <<>> /\ \E i \in 1..k : fields[i].packed
  /\ ~p.run.packed => p.run = NoRun
  /\ (p.ok /\ ~p.run.cut) <=> \A i \in 1..k : ~fields[i].cut

LEMMA OneMoreField ==
  ASSUME NEW fields \in Seq(GeometryFields), NEW p \in Collected, NEW words \in Seq(Nat),
         NEW k \in 0..Len(fields) - 1, SoFar(p, words, fields, k),
         \A i \in 1..k : fields[i].packed => fields[k + 1].packed
  PROVE  SoFar(GeometryField(p, fields[k + 1]), words \o fields[k + 1].words, fields, k + 1)
<1> DEFINE field == fields[k + 1]
           q == GeometryField(p, field)
           n == Len(fields)
<1> SUFFICES SoFar(q, words \o field.words, fields, k + 1)
  OBVIOUS
<1>1. n \in Nat /\ k \in Nat /\ k + 1 \in 1..n /\ \A i \in 1..k + 1 : fields[i] \in GeometryFields
  BY LenProperties
<1>2. /\ field \in GeometryFields /\ p.run \in GeometryFields
      /\ p.words \in Seq(Nat) /\ p.run.words \in Seq(Nat) /\ field.words \in Seq(Nat)
      /\ p.ok \in BOOLEAN /\ p.run.cut \in BOOLEAN /\ field.cut \in BOOLEAN
      /\ p.run.packed \in BOOLEAN /\ field.packed \in BOOLEAN
      /\ field.cut => field.packed
  BY <1>1 DEF Collected, GeometryFields
<1>3. \A i \in 1..k + 1 : i \in 1..k \/ i = k + 1
  BY <1>1
<1>4. 1..k \subseteq 1..k + 1 /\ k + 1 \in 1..k + 1
  BY <1>1
<1> DEFINE Uncut(j) == \A i \in 1..j : ~fields[i].cut
<1>5. Uncut(k + 1) <=> Uncut(k) /\ ~field.cut
  BY <1>3, <1>4
<1>6. (p.ok /\ ~p.run.cut) <=> Uncut(k)
  BY DEF SoFar
<1>7. p.words \o p.run.words = words
  BY DEF SoFar
<1> HIDE DEF Uncut, field
<1>8. NoRun.words = <<>> /\ NoRun.cut = FALSE /\ NoRun.packed = FALSE
  BY DEF NoRun
<1>9. p.words \o <<>> = p.words /\ <<>> \o field.words = field.words /\ <<>> \o p.run.words = p.run.words
  BY <1>2, ConcatEmptySeq
<1>10. CASE field.packed /\ ~p.run.packed /\ p.words = <<>>
  <2>1. q.run = field /\ q.words = <<>> /\ q.ok = p.ok
    BY <1>10 DEF GeometryField, Collected
  <2>2. p.run = NoRun
    BY <1>10 DEF SoFar
  <2>3. words = <<>>
    BY <1>7, <1>8, <1>9, <1>10, <2>2
  <2>4. q.words \o q.run.words = words \o field.words
    BY <2>1, <2>3
  <2>5. (q.ok /\ ~q.run.cut) <=> Uncut(k + 1)
    BY <1>5, <1>6, <1>8, <2>1, <2>2
  <2>6. \E i \in 1..k + 1 : fields[i].packed
    BY <1>4, <1>10 DEF field
  <2> HIDE DEF q
  <2> QED
    BY <1>10, <2>1, <2>4, <2>5, <2>6 DEF SoFar, Uncut, field
<1>11. CASE field.packed /\ ~(~p.run.packed /\ p.words = <<>>)
  <2>1. /\ q.run = NoRun /\ q.words = p.words \o p.run.words \o field.words
        /\ q.ok = (p.ok /\ ~p.run.cut /\ ~field.cut)
    BY <1>11 DEF GeometryField
  <2>2. q.words = words \o field.words
    BY <1>7, <2>1
  <2>3. words \o field.words \in Seq(Nat)
    BY <1>2, ConcatProperties
  <2>4. q.words \o q.run.words = words \o field.words
    BY <1>8, <2>1, <2>2, <2>3, ConcatEmptySeq
  <2>5. (q.ok /\ ~q.run.cut) <=> Uncut(k + 1)
    BY <1>2, <1>5, <1>6, <1>8, <2>1
  <2> HIDE DEF q
  <2> QED
    BY <1>8, <2>1, <2>4, <2>5 DEF SoFar, Uncut, field
<1>12. CASE ~field.packed
  <2>1. q.run = p.run /\ q.words = p.words \o field.words /\ q.ok = p.ok
    BY <1>12 DEF GeometryField, Collected
  <2>2. ~p.run.packed
    <3>1. p.run.packed => \E i \in 1..k : fields[i].packed
      BY DEF SoFar
    <3> QED
      BY <1>12, <3>1 DEF field
  <2>3. p.run = NoRun
    BY <2>2 DEF SoFar
  <2>4. words = p.words
    BY <1>7, <1>8, <1>9, <2>3
  <2>5. words \o field.words \in Seq(Nat)
    BY <1>2, ConcatProperties
  <2>6. q.words \o q.run.words = words \o field.words
    BY <1>8, <2>1, <2>3, <2>4, <2>5, ConcatEmptySeq
  <2>7. (q.ok /\ ~q.run.cut) <=> Uncut(k + 1)
    BY <1>2, <1>5, <1>6, <1>8, <1>12, <2>1, <2>3
  <2> HIDE DEF q
  <2> QED
    BY <1>8, <2>1, <2>2, <2>3, <2>6, <2>7 DEF SoFar, Uncut, field
<1> QED
  BY <1>2, <1>10, <1>11, <1>12

LEMMA StaleGeometry ==
  ASSUME NEW f, f.geometry \in Seq(GeometryFields), NEW stale \in Rings
  PROVE  FeatureGeometry(f, stale) = FeatureGeometry(f, <<>>)
<1> DEFINE n == Len(f.geometry)
<1>1. n \in Nat
  BY LenProperties
<1>2. PICK r \in [0..n -> Collected] : CollectionIs(r, f)
  BY FieldsRun
<1> DEFINE p == r[n]
<1>3. /\ FeatureGeometry(f, stale) = Remembered(p, f.type, stale)
      /\ FeatureGeometry(f, <<>>) = Remembered(p, f.type, <<>>)
  BY <1>2 DEF CollectionIs
<1>4. p \in Collected
  BY <1>1, <1>2
<1> HIDE DEF p
<1>5. p.words \in Seq(Nat) /\ p.run.words \in Seq(Nat)
  BY <1>4 DEF Collected, GeometryFields
<1>6. /\ DecodeGeometryInto(p.words, f.type, stale) = DecodeGeometryInto(p.words, f.type, <<>>)
      /\ DecodeGeometryInto(p.run.words, f.type, stale)
           = DecodeGeometryInto(p.run.words, f.type, <<>>)
  BY <1>5, StaleRingsDoNotShow
<1> QED
  BY <1>3, <1>6 DEF Remembered, DecodeGeometryFromPacked

\* Whatever rings an earlier feature left and whatever fields a geometry is
\* split into, packed or not, as long as no unpacked word follows a packed run,
\* it is the decoding of all its words in order, and refused when a run was cut
\* (mvt_decoder.cpp, ParseFeatureFields and DecodeGeometryFromPacked).
THEOREM GeometryIsOneDecoding ==
  ASSUME NEW f, f.geometry \in Seq(GeometryFields), NEW stale \in Rings
  PROVE  GeometryIsTheConcatenation(f, stale)
<1> DEFINE fields == f.geometry
           n == Len(fields)
           seqs == [i \in DOMAIN fields |-> fields[i].words]
           whole == Seqs!FlattenSeq(seqs)
<1>0. SUFFICES ASSUME \A i, j \in DOMAIN fields : i < j /\ fields[i].packed => fields[j].packed
               PROVE  FeatureGeometry(f, stale) =
                        IF \E i \in DOMAIN fields : fields[i].cut THEN Failed
                        ELSE DecodeGeometryInto(whole, f.type, <<>>)
  BY DEF GeometryIsTheConcatenation
<1>1. n \in Nat /\ DOMAIN fields = 1..n /\ \A i \in 1..n : fields[i] \in GeometryFields
  BY LenProperties
<1>2. PICK c \in [0..n -> Seq(Nat)] : EndToEnd(c, seqs, n) /\ whole = c[n]
  <2>1. seqs \in [1..n -> Seq(Nat)]
    <3>1. \A i \in 1..n : fields[i].words \in Seq(Nat)
      BY <1>1 DEF GeometryFields
    <3> QED
      BY <1>1, <3>1
  <2>2. whole = Seqs!FlattenSeq(seqs)
    OBVIOUS
  <2>3. \E c \in [0..n -> Seq(Nat)] : EndToEndIs(c, seqs, n, Seqs!FlattenSeq(seqs))
    <3> HIDE DEF seqs, n
    <3> QED
      BY <1>1, <2>1, FlattenRuns
  <2> HIDE DEF whole
  <2> QED
    BY <2>2, <2>3 DEF EndToEndIs
<1> HIDE DEF whole
<1>3. PICK r \in [0..n -> Collected] : CollectionIs(r, f)
  BY FieldsRun
<1> DEFINE T == {k \in 0..n : SoFar(r[k], c[k], fields, k)}
<1>4. 0 \in T
  <2>1. r[0] = NothingYet /\ c[0] = <<>>
    BY <1>2, <1>3 DEF CollectionIs, CollectedBy, EndToEnd
  <2>2. 1..0 = {}
    OBVIOUS
  <2>3. <<>> \o <<>> = <<>>
    OBVIOUS
  <2>4. SoFar(NothingYet, <<>>, fields, 0)
    BY <2>2, <2>3 DEF SoFar, NothingYet, NoRun
  <2> QED
    BY <1>1, <2>1, <2>4
<1>5. ASSUME NEW k \in 0..n - 1, k \in T PROVE k + 1 \in T
  <2>1. k + 1 \in 1..n /\ (k + 1) - 1 = k /\ k \in 0..n
    BY <1>1
  <2>2. r[k + 1] = GeometryField(r[k], fields[k + 1]) /\ c[k + 1] = c[k] \o fields[k + 1].words
    <3>1. r[k + 1] = GeometryField(r[k], fields[k + 1])
      BY <1>3, <2>1 DEF CollectionIs, CollectedBy
    <3>2. c[k + 1] = c[k] \o seqs[k + 1]
      BY <1>2, <2>1 DEF EndToEnd
    <3> QED
      BY <1>1, <2>1, <3>1, <3>2
  <2>3. \A i \in 1..k : fields[i].packed => fields[k + 1].packed
    <3>1. \A i \in 1..k : i \in 1..n /\ i < k + 1
      BY <1>1, <2>1
    <3> HIDE DEF n, fields
    <3> QED
      BY <1>0, <1>1, <2>1, <3>1
  <2>4. SoFar(r[k], c[k], fields, k) /\ r[k] \in Collected /\ c[k] \in Seq(Nat)
    BY <1>2, <1>3, <1>5, <2>1
  <2>5. SoFar(GeometryField(r[k], fields[k + 1]), c[k] \o fields[k + 1].words, fields, k + 1)
    <3>1. fields \in Seq(GeometryFields)
      OBVIOUS
    <3> HIDE DEF T, fields
    <3> QED
      BY <1>5, <2>3, <2>4, <3>1, OneMoreField DEF n
  <2>6. SoFar(r[k + 1], c[k + 1], fields, k + 1) /\ k + 1 \in 0..n
    <3> HIDE DEF T, fields, n
    <3> QED
      BY <1>1, <2>1, <2>2, <2>5
  <2> QED
    BY <2>6
<1>6. \A k \in 0..n : k \in T
  <2> HIDE DEF T, n
  <2> QED
    BY <1>1, <1>4, <1>5, UpTo
<1> DEFINE p == r[n]
<1>7. p \in Collected /\ SoFar(p, whole, fields, n)
  <2>1. n \in 0..n
    BY <1>1
  <2> QED
    BY <1>2, <1>3, <1>6, <2>1
<1>8. FeatureGeometry(f, stale) = Remembered(p, f.type, stale)
  BY <1>3 DEF CollectionIs
<1> HIDE DEF p, T
<1>9. p.words \in Seq(Nat) /\ p.run.words \in Seq(Nat) /\ p.ok \in BOOLEAN /\ p.run.packed \in BOOLEAN
  BY <1>7 DEF Collected, GeometryFields
<1> DEFINE cut == \E i \in DOMAIN fields : fields[i].cut
<1>10. (p.ok /\ ~p.run.cut) <=> ~cut
  BY <1>1, <1>7 DEF SoFar
<1> HIDE DEF cut
<1>11. CASE ~p.ok
  BY <1>8, <1>10, <1>11 DEF Remembered, cut
<1>12. CASE p.ok /\ p.run.packed
  <2>1. p.words = <<>> /\ whole = p.words \o p.run.words
    BY <1>7, <1>12 DEF SoFar
  <2>2. whole = p.run.words
    BY <1>9, <2>1, ConcatEmptySeq
  <2>3. DecodeGeometryInto(whole, f.type, stale) = DecodeGeometryInto(whole, f.type, <<>>)
    BY <1>9, <2>2, StaleRingsDoNotShow
  <2>4. FeatureGeometry(f, stale) = IF p.run.cut THEN Failed
                                            ELSE DecodeGeometryInto(whole, f.type, stale)
    BY <1>8, <1>12, <2>2 DEF Remembered, DecodeGeometryFromPacked
  <2> QED
    BY <1>10, <1>12, <2>3, <2>4 DEF cut
<1>13. CASE p.ok /\ ~p.run.packed
  <2>1. p.run.words = <<>> /\ p.run.cut = FALSE /\ whole = p.words \o p.run.words
    BY <1>7, <1>13 DEF SoFar, NoRun
  <2>2. whole = p.words
    BY <1>9, <2>1, ConcatEmptySeq
  <2>3. DecodeGeometryInto(whole, f.type, stale) = DecodeGeometryInto(whole, f.type, <<>>)
    BY <1>9, <2>2, StaleRingsDoNotShow
  <2>4. FeatureGeometry(f, stale) = DecodeGeometryInto(whole, f.type, stale)
    BY <1>8, <1>13, <2>2 DEF Remembered
  <2> QED
    BY <1>10, <1>13, <2>1, <2>3, <2>4 DEF cut
<1> QED
  BY <1>9, <1>11, <1>12, <1>13

-----------------------------------------------------------------------------
(* Layers and tiles.                                                       *)

ValuesOf(layer, k) ==
  {layer.fields[i].value : i \in {j \in DOMAIN layer.fields : layer.fields[j].kind = k}}

\* The fields of one kind are among the layer's.
LEMMA KindsAreValues ==
  ASSUME NEW F, NEW layer, layer.fields \in Seq(F), NEW kind
  PROVE  OfKind(layer, kind) \in Seq(ValuesOf(layer, kind))
<1> DEFINE fields == layer.fields
           n == Len(fields)
           X == Seq(ValuesOf(layer, kind))
           base == <<>>
           last(s) == Seqs!Max(s)
           mx == [s \in SUBSET (1..n) |-> last(s)]
           Taken(acc, i) == IF fields[i].kind = kind THEN Append(acc, fields[i].value) ELSE acc
           step == [q \in X \X (1..n) |-> Taken(q[1], q[2])]
           Folds(h) == h = [s \in SUBSET (1..n) |->
                              IF s = {} THEN base ELSE Taken(h[s \ {last(s)}], last(s))]
           fold == CHOOSE h : Folds(h)
<1>1. n \in Nat /\ DOMAIN fields = 1..n
  BY LenProperties
<1>2. OfKind(layer, kind) = fold[1..n]
  BY <1>1 DEF OfKind, Seqs!FoldLeft, Seqs!MapThenFoldSet
<1> HIDE DEF fold, n
<1>3. base \in X
  OBVIOUS
<1>4. \A x \in X, i \in 1..n : Taken(x, i) \in X
  <2> SUFFICES ASSUME NEW x \in X, NEW i \in 1..n PROVE Taken(x, i) \in X
    OBVIOUS
  <2>1. CASE fields[i].kind = kind
    <3>1. fields[i].value \in ValuesOf(layer, kind)
      BY <1>1, <2>1 DEF ValuesOf
    <3>2. Append(x, fields[i].value) \in X
      BY <3>1, AppendProperties
    <3> QED
      BY <2>1, <3>2
  <2>2. CASE fields[i].kind # kind
    BY <2>2
  <2> QED
    BY <2>1, <2>2
<1> HIDE DEF Taken, X
<1>5. step \in [X \X (1..n) -> X]
  BY <1>4
<1>6. \A x \in X, i \in 1..n : step[<<x, i>>] = Taken(x, i) /\ step[<<x, i>>] \in X
  BY <1>4
<1>7. Lasts(mx, n) /\ \A s \in SUBSET (1..n) : mx[s] = last(s)
  BY <1>1, DecoderLasts
<1> HIDE DEF base, step, mx, fields
<1>8. PICK g \in [SUBSET (1..n) -> X] : Fold(g, n, mx, base, step)
  BY ONLY <1>1, <1>3, <1>5, <1>7, FoldExists
<1>9. Folds(fold)
  <2>1. ASSUME NEW s \in SUBSET (1..n), s # {}
        PROVE  g[s] = Taken(g[s \ {last(s)}], last(s))
    <3>1. g[s] = step[<<g[s \ {mx[s]}], mx[s]>>] /\ mx[s] \in 1..n /\ g[s \ {mx[s]}] \in X
      BY <1>7, <1>8, <2>1 DEF Fold, Lasts
    <3> HIDE DEF last
    <3> QED
      BY <1>6, <1>7, <3>1
  <2>2. g[{}] = base
    BY <1>8 DEF Fold
  <2>3. Folds(g)
    <3> HIDE DEF last
    <3> QED
      BY <1>8, <2>1, <2>2
  <2> HIDE DEF Folds
  <2> QED
    BY <2>3 DEF fold
<1>10. fold[{}] = base
  <2>1. {} \in SUBSET (1..n)
    OBVIOUS
  <2> HIDE DEF last
  <2> QED
    BY <1>9, <2>1
<1>11. \A s \in SUBSET (1..n) :
         s # {} /\ fold[s \ {mx[s]}] \in X => fold[s] = step[<<fold[s \ {mx[s]}], mx[s]>>]
  <2> SUFFICES ASSUME NEW s \in SUBSET (1..n), s # {}, fold[s \ {mx[s]}] \in X
               PROVE  fold[s] = step[<<fold[s \ {mx[s]}], mx[s]>>]
    OBVIOUS
  <2>1. fold[s] = Taken(fold[s \ {last(s)}], last(s))
    <3> HIDE DEF last
    <3> QED
      BY <1>9
  <2>2. mx[s] = last(s) /\ mx[s] \in 1..n
    BY <1>7 DEF Lasts
  <2> HIDE DEF last
  <2> QED
    BY <1>6, <2>1, <2>2
<1>12. \E r \in [0..n -> X] : RecursionTo(r, n, base, step, fold[1..n])
  <2>1. \A x \in X, i \in 1..n : step[<<x, i>>] \in X
    BY <1>6, Zenon
  <2>2. n \in Nat /\ base \in X /\ Lasts(mx, n) /\ fold[{}] = base
    BY <1>1, <1>3, <1>7, <1>10
  <2> HIDE DEF last, Folds
  <2> QED
    BY ONLY <1>11, <2>1, <2>2, FoldRuns
<1>13. PICK r \in [0..n -> X] : Recursion(r, n, base, step) /\ r[n] = fold[1..n]
  BY <1>12 DEF RecursionTo
<1>14. r[n] \in X
  BY <1>1, <1>13
<1> QED
  BY <1>2, <1>13, <1>14 DEF X

\* A layer's features, each decoded into an empty feature.
FeaturesOf(layer) == OfKind(layer, "feature")

FeatureOf(layer, i) ==
  DecodeFeature(FeaturesOf(layer)[i], OfKind(layer, "key"),
                        OfKind(layer, "value"), NoFeature)

CopyOf(layer, i) == CopyFeatureInto(LayerHeader(layer), FeatureOf(layer, i).feature)

CopiesOf(layer) == {CopyOf(layer, i) : i \in DOMAIN FeaturesOf(layer)}

Translated(layer) ==
  [ok : BOOLEAN,
   scratch : {NoFeature} \cup {FeatureOf(layer, i).feature : i \in DOMAIN FeaturesOf(layer)},
   out : Seq(CopiesOf(layer))]

\* One feature more, whether or not there is a sink.
OneFeature(layer, acc, i) ==
  IF ~acc.ok THEN acc
  ELSE IF ~FeatureOf(layer, i).ok THEN [acc EXCEPT !.ok = FALSE]
  ELSE [ok |-> TRUE, scratch |-> FeatureOf(layer, i).feature,
        out |-> Append(acc.out, CopyOf(layer, i))]

NoneYet == [ok |-> TRUE, scratch |-> NoFeature, out |-> <<>>]

LayerRun(r, layer) ==
  r[0] = NoneYet /\ \A k \in 1..Len(FeaturesOf(layer)) : r[k] = OneFeature(layer, r[k - 1], k)

LayerOf(layer, end) ==
  IF ~LayerHeader(layer).ok THEN [ok |-> FALSE, out |-> <<>>] ELSE end

LayerIs(r, layer, sink) ==
  LayerRun(r, layer)
    /\ DecodeLayer(layer, sink) = LayerOf(layer, r[Len(FeaturesOf(layer))])

LEMMA LayerRuns ==
  ASSUME NEW V, NEW layer, FeaturesOf(layer) \in Seq(V), NEW sink \in BOOLEAN
  PROVE  \E r \in [0..Len(FeaturesOf(layer)) -> Translated(layer)] : LayerIs(r, layer, sink)
<1> DEFINE fs == FeaturesOf(layer)
           header == LayerHeader(layer)
           n == Len(fs)
           X == Translated(layer)
           base == NoneYet
           last(s) == Seqs!Max(s)
           mx == [s \in SUBSET (1..n) |-> last(s)]
           One(acc, i) == NextFeature(acc, fs[i], layer, header, sink)
           step == [q \in X \X (1..n) |-> One(q[1], q[2])]
           Folds(h) == h = [s \in SUBSET DOMAIN fs |->
                              IF s = {} THEN base ELSE One(h[s \ {last(s)}], last(s))]
           fold == CHOOSE h : Folds(h)
<1>1. n \in Nat /\ DOMAIN fs = 1..n
  BY LenProperties
<1>2. DecodeLayer(layer, sink) = IF ~header.ok THEN [ok |-> FALSE, out |-> <<>>] ELSE fold[DOMAIN fs]
  BY DEF DecodeLayer, Seqs!FoldLeft, Seqs!MapThenFoldSet,
              FeaturesOf, NoneYet
<1> HIDE DEF fold, n
<1>3. base \in X
  <2>1. <<>> \in Seq(CopiesOf(layer))
    OBVIOUS
  <2> QED
    BY <2>1 DEF NoneYet, Translated
<1>4. ASSUME NEW x, NEW i PROVE One(x, i) = OneFeature(layer, x, i)
  <2>1. (IF sink THEN ClearFeature(x.scratch) ELSE NoFeature) = NoFeature
    BY DEF ClearFeature
  <2> DEFINE one == FeatureOf(layer, i)
  <2>2. one = DecodeFeature(fs[i], OfKind(layer, "key"), OfKind(layer, "value"),
                                    IF sink THEN ClearFeature(x.scratch) ELSE NoFeature)
    BY <2>1 DEF FeatureOf
  <2> HIDE DEF one, fs
  <2>3. One(x, i) = IF ~x.ok THEN x
                    ELSE IF ~one.ok THEN [x EXCEPT !.ok = FALSE]
                    ELSE [ok |-> TRUE, scratch |-> one.feature,
                          out |-> Append(x.out, CopyFeatureInto(header, one.feature))]
    BY <2>2 DEF NextFeature
  <2> QED
    BY <2>3 DEF OneFeature, CopyOf, one
<1> HIDE DEF One
<1>5. \A x \in X, i \in 1..n : One(x, i) \in X
  <2> SUFFICES ASSUME NEW x \in X, NEW i \in 1..n PROVE OneFeature(layer, x, i) \in X
    BY <1>4
  <2>1. CopyOf(layer, i) \in CopiesOf(layer)
    BY <1>1 DEF CopiesOf
  <2>2. x.out \in Seq(CopiesOf(layer))
    BY DEF Translated
  <2>3. Append(x.out, CopyOf(layer, i)) \in Seq(CopiesOf(layer))
    BY <2>1, <2>2, AppendProperties
  <2>4. FeatureOf(layer, i).feature
          \in {NoFeature} \cup {FeatureOf(layer, j).feature : j \in DOMAIN FeaturesOf(layer)}
    BY <1>1
  <2>5. [x EXCEPT !.ok = FALSE] \in X
    BY DEF Translated
  <2>6. [ok |-> TRUE, scratch |-> FeatureOf(layer, i).feature, out |-> Append(x.out, CopyOf(layer, i))] \in X
    BY <2>3, <2>4 DEF Translated
  <2> QED
    BY <2>5, <2>6 DEF OneFeature
<1> HIDE DEF X
<1>6. step \in [X \X (1..n) -> X]
  BY <1>5
<1>7. \A x \in X, i \in 1..n : step[<<x, i>>] = One(x, i) /\ step[<<x, i>>] \in X
  BY <1>5
<1>8. Lasts(mx, n) /\ \A s \in SUBSET (1..n) : mx[s] = last(s)
  BY <1>1, DecoderLasts
<1> HIDE DEF base, step, mx, fs
<1>9. PICK g \in [SUBSET (1..n) -> X] : Fold(g, n, mx, base, step)
  BY ONLY <1>1, <1>3, <1>6, <1>8, FoldExists
<1>10. Folds(fold)
  <2>1. ASSUME NEW s \in SUBSET (1..n), s # {}
        PROVE  g[s] = One(g[s \ {last(s)}], last(s))
    <3>1. g[s] = step[<<g[s \ {mx[s]}], mx[s]>>] /\ mx[s] \in 1..n /\ g[s \ {mx[s]}] \in X
      BY <1>8, <1>9, <2>1 DEF Fold, Lasts
    <3> HIDE DEF last
    <3> QED
      BY <1>7, <1>8, <3>1
  <2>2. g[{}] = base
    BY <1>9 DEF Fold
  <2>3. Folds(g)
    <3> HIDE DEF last
    <3> QED
      BY <1>1, <1>9, <2>1, <2>2
  <2> HIDE DEF Folds
  <2> QED
    BY <2>3 DEF fold
<1>11. fold[{}] = base
  <2>1. {} \in SUBSET (1..n)
    OBVIOUS
  <2> HIDE DEF last
  <2> QED
    BY <1>10, <2>1
<1>12. \A s \in SUBSET (1..n) :
         s # {} /\ fold[s \ {mx[s]}] \in X => fold[s] = step[<<fold[s \ {mx[s]}], mx[s]>>]
  <2> SUFFICES ASSUME NEW s \in SUBSET (1..n), s # {}, fold[s \ {mx[s]}] \in X
               PROVE  fold[s] = step[<<fold[s \ {mx[s]}], mx[s]>>]
    OBVIOUS
  <2>1. fold[s] = One(fold[s \ {last(s)}], last(s))
    <3> HIDE DEF last
    <3> QED
      BY <1>1, <1>10
  <2>2. mx[s] = last(s) /\ mx[s] \in 1..n
    BY <1>8 DEF Lasts
  <2> HIDE DEF last
  <2> QED
    BY <1>7, <2>1, <2>2
<1>13. \E r \in [0..n -> X] : RecursionTo(r, n, base, step, fold[1..n])
  <2>1. \A x \in X, i \in 1..n : step[<<x, i>>] \in X
    BY <1>7, Zenon
  <2>2. n \in Nat /\ base \in X /\ Lasts(mx, n) /\ fold[{}] = base
    BY <1>1, <1>3, <1>8, <1>11
  <2> HIDE DEF last, Folds
  <2> QED
    BY ONLY <1>12, <2>1, <2>2, FoldRuns
<1>14. PICK r \in [0..n -> X] : Recursion(r, n, base, step) /\ r[n] = fold[1..n]
  BY <1>13 DEF RecursionTo
<1>15. ASSUME NEW k \in 1..n PROVE r[k] = One(r[k - 1], k)
  <2>1. r[k] = step[<<r[k - 1], k>>] /\ k - 1 \in 0..n
    BY <1>1, <1>14 DEF Recursion
  <2> QED
    BY <1>7, <1>14, <2>1
<1>16. LayerIs(r, layer, sink)
  <2>1. r[0] = base
    BY <1>14 DEF Recursion
  <2>2. LayerRun(r, layer)
    BY <1>4, <1>15, <2>1 DEF LayerRun, base, n, fs
  <2> QED
    BY <1>2, <1>14, <2>2 DEF LayerIs, LayerOf, n, fs
<1> QED
  BY <1>14, <1>16 DEF n, X, fs

\* Both ways a layer is the same.
LEMMA LayerIsTheSame ==
  ASSUME NEW V, NEW layer, FeaturesOf(layer) \in Seq(V)
  PROVE  DecodeLayer(layer, TRUE) = DecodeLayer(layer, FALSE)
<1> DEFINE n == Len(FeaturesOf(layer))
<1>1. n \in Nat
  BY LenProperties
<1>2. PICK r \in [0..n -> Translated(layer)] : LayerIs(r, layer, TRUE)
  BY LayerRuns
<1>3. PICK q \in [0..n -> Translated(layer)] : LayerIs(q, layer, FALSE)
  BY LayerRuns
<1> DEFINE T == {k \in 0..n : r[k] = q[k]}
<1>4. 0 \in T
  BY <1>1, <1>2, <1>3 DEF LayerIs, LayerRun
<1>5. ASSUME NEW k \in 0..n - 1, k \in T PROVE k + 1 \in T
  <2>1. k + 1 \in 1..n /\ k + 1 \in 0..n /\ (k + 1) - 1 = k
    BY <1>1
  <2>2. r[k + 1] = OneFeature(layer, r[k], k + 1) /\ q[k + 1] = OneFeature(layer, q[k], k + 1)
    BY <1>2, <1>3, <2>1 DEF LayerIs, LayerRun
  <2> QED
    BY <1>5, <2>1, <2>2
<1>6. \A k \in 0..n : k \in T
  <2> HIDE DEF T, n
  <2> QED
    BY <1>1, <1>4, <1>5, UpTo
<1>7. r[n] = q[n]
  BY <1>1, <1>6
<1> QED
  BY <1>2, <1>3, <1>7 DEF LayerIs

\* The layer's result is of the right type; when it is sound, every one of its
\* features decoded and is in it.
LEMMA LayerHolds ==
  ASSUME NEW V, NEW layer, FeaturesOf(layer) \in Seq(V)
  PROVE  LET d == DecodeLayer(layer, FALSE)
         IN  /\ d.ok \in BOOLEAN /\ d.out \in Seq(CopiesOf(layer))
             /\ d.ok => \A i \in 1..Len(FeaturesOf(layer)) :
                          FeatureOf(layer, i).ok /\ \E j \in 1..Len(d.out) : d.out[j] = CopyOf(layer, i)
<1> DEFINE n == Len(FeaturesOf(layer))
           d == DecodeLayer(layer, FALSE)
<1>1. n \in Nat
  BY LenProperties
<1>2. PICK r \in [0..n -> Translated(layer)] : LayerIs(r, layer, FALSE)
  BY LayerRuns
<1> DEFINE Holds(acc, i) == FeatureOf(layer, i).ok /\ \E j \in 1..Len(acc.out) : acc.out[j] = CopyOf(layer, i)
           T == {k \in 0..n : r[k].ok => \A i \in 1..k : Holds(r[k], i)}
<1>3. 0 \in T
  BY <1>1
<1>4. ASSUME NEW k \in 0..n - 1, k \in T PROVE k + 1 \in T
  <2>1. k + 1 \in 1..n /\ k + 1 \in 0..n /\ k \in 0..n /\ (k + 1) - 1 = k
    BY <1>1
  <2>2. r[k + 1] = OneFeature(layer, r[k], k + 1)
    BY <1>2, <2>1 DEF LayerIs, LayerRun
  <2>3. r[k] \in Translated(layer) /\ r[k].out \in Seq(CopiesOf(layer)) /\ Len(r[k].out) \in Nat
    BY <1>2, <2>1, LenProperties DEF Translated
  <2>4. ASSUME r[k + 1].ok PROVE \A i \in 1..k + 1 : Holds(r[k + 1], i)
    <3>1. /\ r[k].ok /\ FeatureOf(layer, k + 1).ok
          /\ r[k + 1].out = Append(r[k].out, CopyOf(layer, k + 1))
      <4>1. r[k].ok
        BY <2>2, <2>4 DEF OneFeature
      <4>2. FeatureOf(layer, k + 1).ok
        BY <2>2, <2>3, <2>4, <4>1 DEF OneFeature, Translated
      <4> QED
        BY <2>2, <4>1, <4>2 DEF OneFeature
    <3> DEFINE m == Len(r[k].out)
    <3>2. CopyOf(layer, k + 1) \in CopiesOf(layer)
      <4>1. k + 1 \in DOMAIN FeaturesOf(layer)
        BY <2>1, LenProperties
      <4> QED
        BY <4>1 DEF CopiesOf
    <3>3. /\ Len(r[k + 1].out) = m + 1
          /\ r[k + 1].out[m + 1] = CopyOf(layer, k + 1)
          /\ \A j \in 1..m : r[k + 1].out[j] = r[k].out[j]
      BY <2>3, <3>1, <3>2, AppendProperties
    <3>4. ASSUME NEW i \in 1..k PROVE Holds(r[k + 1], i)
      <4>1. Holds(r[k], i)
        BY <1>4, <3>1
      <4>2. PICK j \in 1..m : r[k].out[j] = CopyOf(layer, i)
        BY <4>1
      <4>3. j \in 1..m + 1 /\ r[k + 1].out[j] = CopyOf(layer, i)
        BY <2>3, <3>3, <4>2
      <4> QED
        BY <3>3, <4>1, <4>3
    <3>5. Holds(r[k + 1], k + 1)
      <4>1. m + 1 \in 1..m + 1
        BY <2>3
      <4> QED
        BY <3>1, <3>3, <4>1
    <3>6. \A i \in 1..k + 1 : i \in 1..k \/ i = k + 1
      BY <2>1
    <3> HIDE DEF Holds
    <3> QED
      BY <3>4, <3>5, <3>6
  <2> HIDE DEF Holds
  <2> QED
    BY <2>1, <2>4
<1>5. \A k \in 0..n : k \in T
  <2> HIDE DEF T, n
  <2> QED
    BY <1>1, <1>3, <1>4, UpTo
<1>6. r[n].ok => \A i \in 1..n : Holds(r[n], i)
  <2>1. n \in 0..n
    BY <1>1
  <2> HIDE DEF Holds
  <2> QED
    BY <1>5, <2>1
<1>7. r[n].ok \in BOOLEAN /\ r[n].out \in Seq(CopiesOf(layer))
  BY <1>1, <1>2 DEF Translated
<1>8. d = LayerOf(layer, r[n])
  BY <1>2 DEF LayerIs
<1>9. CASE LayerHeader(layer).ok
  <2>1. d = r[n]
    BY <1>8, <1>9 DEF LayerOf
  <2> QED
    BY <1>6, <1>7, <2>1
<1>10. CASE ~LayerHeader(layer).ok
  <2>1. d = [ok |-> FALSE, out |-> <<>>]
    BY <1>8, <1>10 DEF LayerOf
  <2> HIDE DEF d
  <2>2. d.ok = FALSE /\ d.out = <<>>
    BY <2>1
  <2>3. <<>> \in Seq(CopiesOf(layer))
    OBVIOUS
  <2> QED
    BY <1>10, <2>2, <2>3
<1> QED
  BY <1>9, <1>10

-----------------------------------------------------------------------------
(* Tiles.                                                                  *)

Layers(F) == [fields : Seq(F)]

CopiesIn(tile) == UNION {CopiesOf(tile[i]) : i \in DOMAIN tile}

Handed(tile) == [ok : BOOLEAN, out : Seq(CopiesIn(tile))]

TileRun(r, tile, include, sink) ==
  /\ r[0] = [ok |-> TRUE, out |-> <<>>]
  /\ \A k \in 1..Len(tile) : r[k] = NextLayer(r[k - 1], tile[k], include, sink)

TileIs(r, tile, include, sink) ==
  TileRun(r, tile, include, sink) /\ DecodeMvtTile(tile, include, sink) = r[Len(tile)]

LEMMA SeqMonotone ==
  ASSUME NEW S, NEW T, S \subseteq T, NEW s \in Seq(S) PROVE s \in Seq(T)
<1>1. Len(s) \in Nat /\ s = [i \in 1..Len(s) |-> s[i]]
  BY LenProperties
<1>2. \A i \in 1..Len(s) : s[i] \in T
  BY ElementOfSeq
<1> QED
  BY <1>1, <1>2, IsASeq

\* What a layer's fields are.
LEMMA LayersHaveFeatures ==
  ASSUME NEW F, NEW layer \in Layers(F)
  PROVE  FeaturesOf(layer) \in Seq(ValuesOf(layer, "feature"))
<1>1. layer.fields \in Seq(F)
  BY DEF Layers
<1> QED
  BY <1>1, KindsAreValues DEF FeaturesOf

\* A layer is handed over as it is decoded whole.
LEMMA LayersAreTheSame ==
  ASSUME NEW F, NEW layer \in Layers(F), NEW sink \in BOOLEAN
  PROVE  DecodeLayer(layer, sink) = DecodeLayer(layer, FALSE)
<1>1. FeaturesOf(layer) \in Seq(ValuesOf(layer, "feature"))
  BY LayersHaveFeatures
<1>2. DecodeLayer(layer, TRUE) = DecodeLayer(layer, FALSE)
  BY <1>1, LayerIsTheSame
<1> QED
  BY <1>2

LEMMA TileRuns ==
  ASSUME NEW F, NEW tile \in Seq(Layers(F)), NEW include, NEW sink \in BOOLEAN
  PROVE  \E r \in [0..Len(tile) -> Handed(tile)] : TileIs(r, tile, include, sink)
<1> DEFINE n == Len(tile)
           X == Handed(tile)
           base == [ok |-> TRUE, out |-> <<>>]
           last(s) == Seqs!Max(s)
           mx == [s \in SUBSET (1..n) |-> last(s)]
           One(acc, i) == NextLayer(acc, tile[i], include, sink)
           step == [q \in X \X (1..n) |-> One(q[1], q[2])]
           Folds(h) == h = [s \in SUBSET DOMAIN tile |->
                              IF s = {} THEN base ELSE One(h[s \ {last(s)}], last(s))]
           fold == CHOOSE h : Folds(h)
<1>1. n \in Nat /\ DOMAIN tile = 1..n
  BY LenProperties
<1>2. DecodeMvtTile(tile, include, sink) = fold[DOMAIN tile]
  BY DEF DecodeMvtTile, Seqs!FoldLeft, Seqs!MapThenFoldSet
<1> HIDE DEF fold, n
<1>3. base \in X
  <2>1. <<>> \in Seq(CopiesIn(tile))
    OBVIOUS
  <2> QED
    BY <2>1 DEF Handed
<1>4. \A x \in X, i \in 1..n : One(x, i) \in X
  <2> SUFFICES ASSUME NEW x \in X, NEW i \in 1..n PROVE One(x, i) \in X
    OBVIOUS
  <2> DEFINE layer == tile[i]
             d == DecodeLayer(layer, sink)
  <2>1. layer \in Layers(F) /\ i \in DOMAIN tile
    BY <1>1, ElementOfSeq DEF n
  <2>2. FeaturesOf(layer) \in Seq(ValuesOf(layer, "feature")) /\ d = DecodeLayer(layer, FALSE)
    BY <2>1, LayersHaveFeatures, LayersAreTheSame
  <2>3. d.ok \in BOOLEAN /\ d.out \in Seq(CopiesOf(layer))
    <3> HIDE DEF layer
    <3> QED
      BY <2>2, LayerHolds
  <2>4. CopiesOf(layer) \subseteq CopiesIn(tile)
    BY <2>1 DEF CopiesIn
  <2> HIDE DEF layer, d
  <2>5. x.out \in Seq(CopiesIn(tile)) /\ d.out \in Seq(CopiesIn(tile))
    <3>1. d.out \in Seq(CopiesIn(tile))
      BY <2>3, <2>4, SeqMonotone
    <3> QED
      BY <3>1 DEF Handed
  <2>6. x.out \o d.out \in Seq(CopiesIn(tile))
    BY <2>5, ConcatProperties
  <2>7. [ok |-> d.ok, out |-> x.out \o d.out] \in X
    BY <2>3, <2>6 DEF Handed
  <2>8. [x EXCEPT !.ok = FALSE] \in X
    BY DEF Handed
  <2>9. [ok |-> d.ok, out |-> x.out] \in X
    BY <2>3 DEF Handed
  <2>10. One(x, i) \in {[x EXCEPT !.ok = FALSE], x, [ok |-> d.ok, out |-> x.out \o d.out],
                        [ok |-> d.ok, out |-> x.out]}
    <3>1. One(x, i) = LET named == InspectLayerName(layer)
                      IN  IF ~x.ok \/ (include # {} /\ ~named.ok) THEN [x EXCEPT !.ok = FALSE]
                          ELSE IF include # {} /\ named.name \notin include THEN x
                          ELSE [ok |-> d.ok, out |-> IF d.ok \/ sink THEN x.out \o d.out ELSE x.out]
      BY DEF NextLayer, d, layer
    <3> HIDE DEF One
    <3> QED
      BY <3>1
  <2> HIDE DEF One, X
  <2> QED
    BY <2>7, <2>8, <2>9, <2>10
<1> HIDE DEF One, X
<1>5. step \in [X \X (1..n) -> X]
  BY <1>4
<1>6. \A x \in X, i \in 1..n : step[<<x, i>>] = One(x, i) /\ step[<<x, i>>] \in X
  BY <1>4
<1>7. Lasts(mx, n) /\ \A s \in SUBSET (1..n) : mx[s] = last(s)
  BY <1>1, DecoderLasts
<1> HIDE DEF base, step, mx
<1>8. PICK g \in [SUBSET (1..n) -> X] : Fold(g, n, mx, base, step)
  BY ONLY <1>1, <1>3, <1>5, <1>7, FoldExists
<1>9. Folds(fold)
  <2>1. ASSUME NEW s \in SUBSET (1..n), s # {}
        PROVE  g[s] = One(g[s \ {last(s)}], last(s))
    <3>1. g[s] = step[<<g[s \ {mx[s]}], mx[s]>>] /\ mx[s] \in 1..n /\ g[s \ {mx[s]}] \in X
      BY <1>7, <1>8, <2>1 DEF Fold, Lasts
    <3> HIDE DEF last
    <3> QED
      BY <1>6, <1>7, <3>1
  <2>2. g[{}] = base
    BY <1>8 DEF Fold
  <2>3. Folds(g)
    <3> HIDE DEF last
    <3> QED
      BY <1>1, <1>8, <2>1, <2>2
  <2> HIDE DEF Folds
  <2> QED
    BY <2>3 DEF fold
<1>10. fold[{}] = base
  <2>1. {} \in SUBSET (1..n)
    OBVIOUS
  <2> HIDE DEF last
  <2> QED
    BY <1>1, <1>9, <2>1
<1>11. \A s \in SUBSET (1..n) :
         s # {} /\ fold[s \ {mx[s]}] \in X => fold[s] = step[<<fold[s \ {mx[s]}], mx[s]>>]
  <2> SUFFICES ASSUME NEW s \in SUBSET (1..n), s # {}, fold[s \ {mx[s]}] \in X
               PROVE  fold[s] = step[<<fold[s \ {mx[s]}], mx[s]>>]
    OBVIOUS
  <2>1. fold[s] = One(fold[s \ {last(s)}], last(s))
    <3> HIDE DEF last
    <3> QED
      BY <1>1, <1>9
  <2>2. mx[s] = last(s) /\ mx[s] \in 1..n
    BY <1>7 DEF Lasts
  <2> HIDE DEF last
  <2> QED
    BY <1>6, <2>1, <2>2
<1>12. \E r \in [0..n -> X] : RecursionTo(r, n, base, step, fold[1..n])
  <2>1. \A x \in X, i \in 1..n : step[<<x, i>>] \in X
    BY <1>6, Zenon
  <2>2. n \in Nat /\ base \in X /\ Lasts(mx, n) /\ fold[{}] = base
    BY <1>1, <1>3, <1>7, <1>10
  <2> HIDE DEF last, Folds
  <2> QED
    BY ONLY <1>11, <2>1, <2>2, FoldRuns
<1>13. PICK r \in [0..n -> X] : Recursion(r, n, base, step) /\ r[n] = fold[1..n]
  BY <1>12 DEF RecursionTo
<1>14. ASSUME NEW k \in 1..n PROVE r[k] = One(r[k - 1], k)
  <2>1. r[k] = step[<<r[k - 1], k>>] /\ k - 1 \in 0..n
    BY <1>1, <1>13 DEF Recursion
  <2> QED
    BY <1>6, <1>13, <2>1
<1>15. TileIs(r, tile, include, sink)
  <2>1. r[0] = base
    BY <1>13 DEF Recursion
  <2>2. TileRun(r, tile, include, sink)
    BY <1>14, <2>1 DEF TileRun, base, One, n
  <2> QED
    BY <1>1, <1>2, <1>13, <2>2 DEF TileIs, n
<1> QED
  BY <1>13, <1>15 DEF n, X

\* What the two ways have of a tile after some of its layers.
Agreed(tile, k, whole, handed) ==
  /\ whole.ok = handed.ok
  /\ whole.ok => whole.out = handed.out
  /\ ~whole.ok => \E i \in 1..k : LET d == DecodeLayer(tile[i], TRUE)
                                  IN  ~d.ok /\ handed.out = whole.out \o d.out

\* A layer whose name cannot be read does not decode, and has no features.
LEMMA NamelessLayer ==
  ASSUME NEW layer, ~InspectLayerName(layer).ok
  PROVE  ~DecodeLayer(layer, TRUE).ok /\ DecodeLayer(layer, TRUE).out = <<>>
<1>1. OfKind(layer, "name") = <<>>
  BY DEF InspectLayerName, Failed
<1>2. ~LayerHeader(layer).ok
  BY <1>1 DEF LayerHeader, Failed
<1> DEFINE d == DecodeLayer(layer, TRUE)
<1>3. d = [ok |-> FALSE, out |-> <<>>]
  BY <1>2 DEF DecodeLayer
<1> HIDE DEF d
<1>4. d.ok = FALSE /\ d.out = <<>>
  BY <1>3
<1> QED
  BY <1>4 DEF d

\* One layer more leaves the two ways in agreement.
LEMMA LayerAgrees ==
  ASSUME NEW F, NEW tile \in Seq(Layers(F)), NEW include, NEW k \in 0..Len(tile) - 1,
         NEW whole \in Handed(tile), NEW handed \in Handed(tile), Agreed(tile, k, whole, handed)
  PROVE  Agreed(tile, k + 1, NextLayer(whole, tile[k + 1], include, FALSE),
                             NextLayer(handed, tile[k + 1], include, TRUE))
<1> DEFINE layer == tile[k + 1]
           named == InspectLayerName(layer)
           d == DecodeLayer(layer, TRUE)
           after == NextLayer(whole, layer, include, FALSE)
           told == NextLayer(handed, layer, include, TRUE)
           Y == CopiesIn(tile)
<1>1. Len(tile) \in Nat /\ k + 1 \in 1..Len(tile) /\ k + 1 \in 1..k + 1 /\ 1..k \subseteq 1..k + 1
  BY LenProperties
<1>2. layer \in Layers(F)
  BY <1>1, ElementOfSeq
<1>3. FeaturesOf(layer) \in Seq(ValuesOf(layer, "feature")) /\ DecodeLayer(layer, FALSE) = d
  BY <1>2, LayersHaveFeatures, LayersAreTheSame
<1>4. d.ok \in BOOLEAN
  <2> HIDE DEF layer
  <2> QED
    BY <1>3, LayerHolds
<1>5. /\ whole = [ok |-> whole.ok, out |-> whole.out] /\ whole.ok \in BOOLEAN /\ whole.out \in Seq(Y)
      /\ handed = [ok |-> handed.ok, out |-> handed.out] /\ handed.ok \in BOOLEAN
      /\ handed.out \in Seq(Y)
  BY DEF Handed
<1>6. /\ after = IF ~whole.ok \/ (include # {} /\ ~named.ok) THEN [whole EXCEPT !.ok = FALSE]
                 ELSE IF include # {} /\ named.name \notin include THEN whole
                 ELSE [ok |-> d.ok, out |-> IF d.ok THEN whole.out \o d.out ELSE whole.out]
      /\ told = IF ~handed.ok \/ (include # {} /\ ~named.ok) THEN [handed EXCEPT !.ok = FALSE]
                ELSE IF include # {} /\ named.name \notin include THEN handed
                ELSE [ok |-> d.ok, out |-> handed.out \o d.out]
  BY <1>3 DEF NextLayer
<1>7. ~named.ok => ~d.ok /\ d.out = <<>>
  BY NamelessLayer
<1> DEFINE Surplus(i, w, h) == ~DecodeLayer(tile[i], TRUE).ok
                                 /\ h.out = w.out \o DecodeLayer(tile[i], TRUE).out
<1>8. Agreed(tile, k + 1, after, told)
        <=> /\ after.ok = told.ok
            /\ after.ok => after.out = told.out
            /\ ~after.ok => \E i \in 1..k + 1 : Surplus(i, after, told)
  BY DEF Agreed
<1>9. /\ whole.ok = handed.ok
      /\ whole.ok => whole.out = handed.out
      /\ ~whole.ok => \E i \in 1..k : Surplus(i, whole, handed)
  BY DEF Agreed
<1>10. Surplus(k + 1, after, told) <=> (~d.ok /\ told.out = after.out \o d.out)
  OBVIOUS
<1>11. \A i, w, h, v, g : Surplus(i, w, h) /\ v.out = w.out /\ g.out = h.out => Surplus(i, v, g)
  OBVIOUS
<1> SUFFICES Agreed(tile, k + 1, after, told)
  OBVIOUS
<1> HIDE DEF after, told, d, named, Surplus
<1>12. CASE ~whole.ok
  <2>1. after = [ok |-> FALSE, out |-> whole.out] /\ told = [ok |-> FALSE, out |-> handed.out]
    BY <1>5, <1>6, <1>9, <1>12
  <2>2. PICK i \in 1..k : Surplus(i, whole, handed)
    BY <1>9, <1>12
  <2>3. i \in 1..k + 1 /\ Surplus(i, after, told)
    BY <1>1, <1>11, <2>1, <2>2
  <2> QED
    BY <1>8, <2>1, <2>3
<1>13. CASE whole.ok /\ include # {} /\ ~named.ok
  <2>1. after = [ok |-> FALSE, out |-> whole.out] /\ told = [ok |-> FALSE, out |-> whole.out]
    BY <1>5, <1>6, <1>9, <1>13
  <2>2. whole.out \o d.out = whole.out
    BY <1>5, <1>7, <1>13, ConcatEmptySeq
  <2>3. Surplus(k + 1, after, told)
    BY <1>7, <1>10, <1>13, <2>1, <2>2
  <2> QED
    BY <1>1, <1>8, <2>1, <2>3
<1>14. CASE whole.ok /\ include # {} /\ named.ok /\ named.name \notin include
  <2>1. after = whole /\ told = handed
    BY <1>6, <1>9, <1>14
  <2> QED
    BY <1>8, <1>9, <1>14, <2>1
<1>15. CASE whole.ok /\ ~(include # {} /\ (~named.ok \/ named.name \notin include))
  <2>1. /\ after = [ok |-> d.ok, out |-> IF d.ok THEN whole.out \o d.out ELSE whole.out]
        /\ told = [ok |-> d.ok, out |-> whole.out \o d.out]
    BY <1>6, <1>9, <1>15
  <2>2. CASE d.ok
    BY <1>4, <1>8, <2>1, <2>2
  <2>3. CASE ~d.ok
    <3>1. /\ after.ok = told.ok /\ ~after.ok /\ after.out = whole.out
          /\ told.out = whole.out \o d.out
      BY <1>4, <2>1, <2>3
    <3>2. Surplus(k + 1, after, told)
      BY <1>10, <2>3, <3>1
    <3> QED
      BY <1>1, <1>8, <3>1, <3>2
  <2> QED
    BY <2>2, <2>3
<1> QED
  BY <1>12, <1>13, <1>14, <1>15

\* Both ways agree on a tile, and on a bad one up to the layer at fault.
LEMMA TilesAgree ==
  ASSUME NEW F, NEW tile \in Seq(Layers(F)), NEW include
  PROVE  Agreed(tile, Len(tile), DecodeMvtTile(tile, include, FALSE), DecodeMvtTile(tile, include, TRUE))
<1> DEFINE n == Len(tile)
<1>1. n \in Nat
  BY LenProperties
<1>2. PICK r \in [0..n -> Handed(tile)] : TileIs(r, tile, include, FALSE)
  BY TileRuns
<1>3. PICK q \in [0..n -> Handed(tile)] : TileIs(q, tile, include, TRUE)
  BY TileRuns
<1> DEFINE T == {k \in 0..n : Agreed(tile, k, r[k], q[k])}
<1>4. 0 \in T
  <2>1. r[0] = [ok |-> TRUE, out |-> <<>>] /\ q[0] = r[0]
    BY <1>2, <1>3 DEF TileIs, TileRun
  <2>2. r[0].ok = TRUE /\ q[0].ok = TRUE /\ q[0].out = r[0].out
    BY <2>1
  <2>3. Agreed(tile, 0, r[0], q[0])
    BY <2>2 DEF Agreed
  <2> QED
    BY <1>1, <2>3
<1>5. ASSUME NEW k \in 0..n - 1, k \in T PROVE k + 1 \in T
  <2>1. k + 1 \in 1..n /\ k + 1 \in 0..n /\ k \in 0..n /\ (k + 1) - 1 = k
    BY <1>1
  <2>2. /\ r[k + 1] = NextLayer(r[k], tile[k + 1], include, FALSE)
        /\ q[k + 1] = NextLayer(q[k], tile[k + 1], include, TRUE)
    BY <1>2, <1>3, <2>1 DEF TileIs, TileRun
  <2>3. r[k] \in Handed(tile) /\ q[k] \in Handed(tile) /\ Agreed(tile, k, r[k], q[k])
    BY <1>5, <2>1
  <2>4. Agreed(tile, k + 1, r[k + 1], q[k + 1])
    BY <2>2, <2>3, LayerAgrees
  <2> QED
    BY <2>1, <2>4
<1>6. \A k \in 0..n : k \in T
  <2> HIDE DEF T, n
  <2> QED
    BY <1>1, <1>4, <1>5, UpTo
<1>7. Agreed(tile, n, r[n], q[n])
  BY <1>1, <1>6
<1> QED
  BY <1>2, <1>3, <1>7 DEF TileIs

\* Without a filter, every feature of a sound tile decoded and was handed over.
LEMMA TileHolds ==
  ASSUME NEW F, NEW tile \in Seq(Layers(F)),
         DecodeMvtTile(tile, {}, FALSE).ok,
         NEW i \in 1..Len(tile), NEW j \in 1..Len(FeaturesOf(tile[i]))
  PROVE  /\ FeatureOf(tile[i], j).ok
         /\ Seqs!Contains(DecodeMvtTile(tile, {}, FALSE).out, CopyOf(tile[i], j))
<1> DEFINE n == Len(tile)
           d(k) == DecodeLayer(tile[k], FALSE)
           Among(c, s) == \E m \in 1..Len(s) : s[m] = c
           Has(x, k) == d(k).ok /\ \A m \in 1..Len(d(k).out) : Among(d(k).out[m], x.out)
<1>1. n \in Nat
  BY LenProperties
<1>2. PICK r \in [0..n -> Handed(tile)] : TileIs(r, tile, {}, FALSE)
  BY TileRuns
<1>3. \A k \in 1..n : d(k).ok \in BOOLEAN /\ d(k).out \in Seq(CopiesOf(tile[k]))
  <2> SUFFICES ASSUME NEW k \in 1..n PROVE d(k).ok \in BOOLEAN /\ d(k).out \in Seq(CopiesOf(tile[k]))
    OBVIOUS
  <2>1. tile[k] \in Layers(F)
    BY ElementOfSeq
  <2>2. FeaturesOf(tile[k]) \in Seq(ValuesOf(tile[k], "feature"))
    BY <2>1, LayersHaveFeatures
  <2> QED
    BY <2>2, LayerHolds
<1> DEFINE T == {k \in 0..n : r[k].ok => \A l \in 1..k : Has(r[k], l)}
<1>4. 0 \in T
  <2> HIDE DEF Has
  <2> QED
    BY <1>1
<1>5. ASSUME NEW k \in 0..n - 1, k \in T PROVE k + 1 \in T
  <2>1. k + 1 \in 1..n /\ k + 1 \in 0..n /\ k \in 0..n /\ (k + 1) - 1 = k
    BY <1>1
  <2>2. r[k + 1] = NextLayer(r[k], tile[k + 1], {}, FALSE)
    BY <1>2, <2>1 DEF TileIs, TileRun
  <2> DEFINE Y == CopiesIn(tile)
             e == d(k + 1)
  <2>3. r[k] \in Handed(tile) /\ r[k].out \in Seq(Y) /\ r[k].ok \in BOOLEAN
    BY <2>1 DEF Handed
  <2>4. e.ok \in BOOLEAN /\ e.out \in Seq(Y)
    <3>1. CopiesOf(tile[k + 1]) \subseteq Y
      BY <2>1, LenProperties DEF CopiesIn
    <3>2. e.ok \in BOOLEAN /\ e.out \in Seq(CopiesOf(tile[k + 1]))
      BY <1>3, <2>1
    <3> HIDE DEF e, Y
    <3> QED
      BY <3>1, <3>2, SeqMonotone
  <2>5. ASSUME r[k + 1].ok PROVE \A l \in 1..k + 1 : Has(r[k + 1], l)
    <3>1. r[k].ok /\ r[k + 1] = [ok |-> e.ok, out |-> IF e.ok THEN r[k].out \o e.out ELSE r[k].out]
      <4>1. r[k + 1] = IF ~r[k].ok THEN [r[k] EXCEPT !.ok = FALSE]
                       ELSE [ok |-> e.ok, out |-> IF e.ok THEN r[k].out \o e.out ELSE r[k].out]
        BY <2>2 DEF NextLayer
      <4>2. r[k].ok
        <5>1. r[k] = [ok |-> r[k].ok, out |-> r[k].out]
          BY <2>3 DEF Handed
        <5> HIDE DEF e
        <5> QED
          BY <2>3, <2>5, <4>1 DEF Handed
      <4> HIDE DEF e
      <4> QED
        BY <4>1, <4>2
    <3> HIDE DEF e, Y
    <3>2. e.ok /\ r[k + 1].out = r[k].out \o e.out
      <4> DEFINE both == IF e.ok THEN r[k].out \o e.out ELSE r[k].out
      <4>1. r[k + 1] = [ok |-> e.ok, out |-> both]
        BY ONLY <3>1
      <4> HIDE DEF both
      <4>2. r[k + 1].ok = e.ok /\ r[k + 1].out = both
        BY ONLY <2>4, <4>1
      <4>3. e.ok
        BY ONLY <2>5, <4>2
      <4> QED
        BY ONLY <4>2, <4>3 DEF both
    <3> DEFINE a == Len(r[k].out)
               b == Len(e.out)
    <3>3. /\ a \in Nat /\ b \in Nat /\ Len(r[k + 1].out) = a + b
          /\ \A m \in 1..a + b : r[k + 1].out[m] = IF m <= a THEN r[k].out[m] ELSE e.out[m - a]
      <4> DEFINE p == r[k].out
                 q == e.out
      <4>1. p \in Seq(Y) /\ q \in Seq(Y) /\ r[k + 1].out = p \o q
        BY <2>3, <2>4, <3>2
      <4> HIDE DEF p, q
      <4>2. /\ Len(p) \in Nat /\ Len(q) \in Nat /\ Len(p \o q) = Len(p) + Len(q)
            /\ \A m \in 1..Len(p) + Len(q) : (p \o q)[m] = IF m <= Len(p) THEN p[m] ELSE q[m - Len(p)]
        BY <4>1, ConcatProperties, LenProperties
      <4> QED
        BY <4>1, <4>2 DEF p, q
    <3> HIDE DEF a, b
    <3>4. \A c : Among(c, r[k].out) => Among(c, r[k + 1].out)
      <4> SUFFICES ASSUME NEW c, NEW m \in 1..a, r[k].out[m] = c PROVE Among(c, r[k + 1].out)
        BY DEF a
      <4>1. m \in 1..a + b /\ r[k + 1].out[m] = c
        BY <3>3, SMTT(30)
      <4> QED
        BY <3>3, <4>1
    <3>5. \A m \in 1..b : Among(e.out[m], r[k + 1].out)
      <4> SUFFICES ASSUME NEW m \in 1..b PROVE Among(e.out[m], r[k + 1].out)
        BY DEF b
      <4>1. a + m \in 1..a + b /\ r[k + 1].out[a + m] = e.out[m]
        BY <3>3
      <4> QED
        BY <3>3, <4>1
    <3>6. \A l \in 1..k + 1 : l \in 1..k \/ l = k + 1
      BY <2>1
    <3>7. \A l \in 1..k : Has(r[k + 1], l)
      <4> HIDE DEF Among
      <4> QED
        BY <1>5, <3>1, <3>4
    <3>8. Has(r[k + 1], k + 1)
      <4> HIDE DEF Among, d
      <4> QED
        BY <3>2, <3>5 DEF b, e
    <3> HIDE DEF Has
    <3> QED
      BY <3>6, <3>7, <3>8
  <2> HIDE DEF Has
  <2> QED
    BY <2>1, <2>5
<1>6. \A k \in 0..n : k \in T
  <2> HIDE DEF T, n
  <2> QED
    BY <1>1, <1>4, <1>5, UpTo
<1>7. r[n] = DecodeMvtTile(tile, {}, FALSE) /\ n \in 0..n
  BY <1>1, <1>2 DEF TileIs
<1>8. Has(r[n], i)
  <2> HIDE DEF Has
  <2> QED
    BY <1>6, <1>7
<1>9. FeatureOf(tile[i], j).ok /\ Among(CopyOf(tile[i], j), d(i).out)
  <2>1. tile[i] \in Layers(F)
    BY ElementOfSeq
  <2>2. FeaturesOf(tile[i]) \in Seq(ValuesOf(tile[i], "feature"))
    BY <2>1, LayersHaveFeatures
  <2> QED
    BY <1>8, <2>2, LayerHolds
<1>10. Among(CopyOf(tile[i], j), r[n].out)
  BY <1>8, <1>9
<1> QED
  BY <1>7, <1>9, <1>10 DEF Seqs!Contains

\* A feature a caller keeps.
Earlier(A, B, C) == [id : A, type : B, geometry : Rings, attributes : C]

\* The streaming path's feature is a layer's, whatever it is decoded over.
LEMMA FeatureOverAnother ==
  ASSUME NEW f, f.geometry \in Seq(GeometryFields), NEW keys, NEW values,
         NEW A, NEW B, NEW C, NEW stale \in Earlier(A, B, C)
  PROVE  DecodeFeature(f, keys, values, [stale EXCEPT !.attributes = <<>>])
           = DecodeFeature(f, keys, values, NoFeature)
<1> DEFINE out == [stale EXCEPT !.attributes = <<>>]
<1>1. stale.geometry \in Rings /\ out.geometry = stale.geometry /\ out.attributes = <<>>
  BY DEF Earlier
<1>2. FeatureGeometry(f, stale.geometry) = FeatureGeometry(f, <<>>)
  BY <1>1, StaleGeometry
<1>3. NoFeature.geometry = <<>> /\ NoFeature.attributes = <<>>
  BY DEF NoFeature
<1> HIDE DEF out
<1>4. \A x, y, z, w : x.attributes = y.attributes
        => WithParts(f, z, w, x) = WithParts(f, z, w, y)
  BY DEF WithParts
<1>5. DecodeFeature(f, keys, values, out)
        = WithParts(f, Attributes(f, keys, values), FeatureGeometry(f, <<>>), out)
  BY <1>1, <1>2 DEF DecodeFeature
<1>6. DecodeFeature(f, keys, values, NoFeature)
        = WithParts(f, Attributes(f, keys, values), FeatureGeometry(f, <<>>),
                            NoFeature)
  BY <1>3 DEF DecodeFeature
<1>7. DecodeFeature(f, keys, values, out) = DecodeFeature(f, keys, values, NoFeature)
  BY <1>1, <1>3, <1>4, <1>5, <1>6
<1> QED
  BY <1>7 DEF out

\* A tile decoded whole and one handed over feature by feature agree on whether
\* it is sound and on its features, of a bad tile up to the layer at fault, and
\* each feature of a sound tile is what the streaming path makes of it over any
\* earlier one: for tiles of any size, with any tags, and any filter.
THEOREM DecodersAgreeOnEveryTile ==
  ASSUME NEW F, NEW tile \in Seq(Layers(F)),
         \A f \in F : f.kind = "feature" => f.value.geometry \in Seq(GeometryFields),
         NEW include, NEW A, NEW B, NEW C, NEW stale \in Earlier(A, B, C)
  PROVE  DecodersAgree(tile, include, stale)
<1>1. Agreed(tile, Len(tile), DecodeMvtTile(tile, include, FALSE), DecodeMvtTile(tile, include, TRUE))
        /\ DOMAIN tile = 1..Len(tile)
  BY TilesAgree, LenProperties
<1>2. ASSUME NEW i \in DOMAIN tile, include = {}, DecodeMvtTile(tile, include, FALSE).ok,
             NEW j \in DOMAIN FeaturesOf(tile[i])
      PROVE  LET d == DecodeFeatureAsFeature(
                        FeaturesOf(tile[i])[j], OfKind(tile[i], "key"),
                        OfKind(tile[i], "value"), LayerHeader(tile[i]), stale)
             IN  d.ok /\ Seqs!Contains(DecodeMvtTile(tile, include, FALSE).out, d.feature)
  <2> DEFINE layer == tile[i]
             f == FeaturesOf(layer)[j]
  <2>1. layer \in Layers(F) /\ i \in 1..Len(tile)
    BY <1>2, LenProperties
  <2>2. FeaturesOf(layer) \in Seq(ValuesOf(layer, "feature"))
    BY <2>1, LayersHaveFeatures
  <2>3. j \in 1..Len(FeaturesOf(layer)) /\ f \in ValuesOf(layer, "feature")
    <3> HIDE DEF layer
    <3> QED
      BY <1>2, <2>2, LenProperties DEF layer
  <2>4. f.geometry \in Seq(GeometryFields)
    <3>1. PICK l \in DOMAIN layer.fields : layer.fields[l].kind = "feature" /\ f = layer.fields[l].value
      <4> HIDE DEF f
      <4> QED
        BY <2>3 DEF ValuesOf
    <3>2. layer.fields[l] \in F
      BY <2>1, <3>1 DEF Layers
    <3> HIDE DEF f, layer
    <3> QED
      BY <3>1, <3>2
  <2>5. /\ FeatureOf(layer, j).ok
        /\ Seqs!Contains(DecodeMvtTile(tile, include, FALSE).out, CopyOf(layer, j))
    BY <1>2, <2>1, <2>3, TileHolds
  <2> DEFINE keys == OfKind(layer, "key")
             values == OfKind(layer, "value")
             h == LayerHeader(layer)
             one == DecodeFeature(f, keys, values, NoFeature)
  <2>6. one.ok /\ CopyOf(layer, j) = CopyFeatureInto(h, one.feature)
    BY <2>5 DEF FeatureOf, CopyOf
  <2>7. DecodeFeature(f, keys, values, [stale EXCEPT !.attributes = <<>>]) = one
    <3> HIDE DEF f, keys, values
    <3> QED
      BY <2>4, FeatureOverAnother
  <2> DEFINE d == DecodeFeatureAsFeature(f, keys, values, h, stale)
  <2>8. d = [ok |-> TRUE, feature |-> CopyFeatureInto(h, one.feature)]
    <3> HIDE DEF f, keys, values, h, one
    <3> QED
      BY <2>6, <2>7 DEF DecodeFeatureAsFeature
  <2>9. d.ok /\ d.feature = CopyOf(layer, j)
    <3> HIDE DEF d, f, keys, values, h, one
    <3> QED
      BY <2>6, <2>8
  <2>10. d.ok /\ Seqs!Contains(DecodeMvtTile(tile, include, FALSE).out, d.feature)
    <3> HIDE DEF d
    <3> QED
      BY <2>5, <2>9
  <2> QED
    BY <2>10
<1> QED
  BY <1>1, <1>2 DEF DecodersAgree, Agreed, FeaturesOf

-----------------------------------------------------------------------------
(* Strokes.                                                                *)

\* A line between pixels, how far it goes along each axis, and which way.
IsLine(line) == \A i \in 1..4 : line[i] \in Int

FarX(line) == Abs(line[3] - line[1])
FarY(line) == Abs(line[4] - line[2])
SideX(line) == IF line[1] < line[3] THEN 1 ELSE -1
SideY(line) == IF line[2] < line[4] THEN 1 ELSE -1

Ahead(from, side, n) == IF side = 1 THEN from + n ELSE from - n

LEMMA Distances ==
  ASSUME NEW line, IsLine(line)
  PROVE  /\ line[1] \in Int /\ line[2] \in Int /\ line[3] \in Int /\ line[4] \in Int
         /\ FarX(line) \in Nat /\ FarY(line) \in Nat
         /\ SideX(line) \in {-1, 1} /\ SideY(line) \in {-1, 1}
         /\ line[3] = Ahead(line[1], SideX(line), FarX(line))
         /\ line[4] = Ahead(line[2], SideY(line), FarY(line))
<1>1. line[1] \in Int /\ line[2] \in Int /\ line[3] \in Int /\ line[4] \in Int
  BY DEF IsLine
<1> QED
  BY <1>1 DEF FarX, FarY, SideX, SideY, Abs, Ahead

\* The walk exists and takes one step after the other.
LEMMA WalkSteps ==
  ASSUME NEW line, IsLine(line)
  PROVE  LET n == FarX(line) + FarY(line)
             s == Walk(line)
         IN  /\ s \in [0..n -> [at : Int \X Int, err : Int]]
             /\ s[0] = [at |-> <<line[1], line[2]>>, err |-> FarX(line) - FarY(line)]
             /\ \A k \in 1..n : s[k] = NextPixel(s[k - 1], FarX(line), -FarY(line), SideX(line), SideY(line))
<1> DEFINE dx == FarX(line)
           dy == -FarY(line)
           sx == SideX(line)
           sy == SideY(line)
           n == dx - dy
           X == [at : Int \X Int, err : Int]
           base == [at |-> <<line[1], line[2]>>, err |-> dx + dy]
           One(s) == NextPixel(s, dx, dy, sx, sy)
           step == [q \in X \X (1..n) |-> One(q[1])]
           Walks(h) == h = [k \in 0..n |-> IF k = 0 THEN base ELSE One(h[k - 1])]
           walk == CHOOSE h : Walks(h)
<1>1. /\ line[1] \in Int /\ line[2] \in Int /\ dx \in Nat /\ FarY(line) \in Nat
      /\ sx \in Int /\ sy \in Int
  BY Distances
<1>2. Walk(line) = walk
  BY DEF Walk, FarX, FarY, SideX, SideY
<1>3. dy \in Int /\ n \in Nat /\ dx + dy = dx - FarY(line) /\ n = dx + FarY(line)
  BY <1>1
<1> HIDE DEF walk, dx, dy, sx, sy, n
<1>4. base \in X
  BY <1>1, <1>3
<1>5. \A x \in X : One(x) \in X
  BY <1>1, <1>3 DEF NextPixel
<1> HIDE DEF One, X, base
<1>6. step \in [X \X (1..n) -> X]
  BY <1>5
<1>7. \A x \in X, i \in 1..n : step[<<x, i>>] = One(x)
  OBVIOUS
<1> HIDE DEF step
<1>8. PICK g \in [0..n -> X] : Recursion(g, n, base, step)
  BY ONLY <1>3, <1>4, <1>6, RecursionExists
<1>9. Walks(walk)
  <2>1. ASSUME NEW k \in 0..n, k # 0 PROVE g[k] = One(g[k - 1])
    <3>1. k \in 1..n /\ k - 1 \in 0..n
      BY <1>3, <2>1
    <3> QED
      BY <1>7, <1>8, <3>1 DEF Recursion
  <2>2. g[0] = base
    BY <1>8 DEF Recursion
  <2>3. Walks(g)
    BY <2>1, <2>2
  <2> HIDE DEF Walks
  <2> QED
    BY <2>3 DEF walk
<1>10. walk[0] = base /\ \A k \in 1..n : walk[k] = One(walk[k - 1])
  BY <1>3, <1>9
<1> DEFINE T == {k \in 0..n : walk[k] \in X}
<1>11. 0 \in T
  BY <1>3, <1>4, <1>10
<1>12. ASSUME NEW k \in 0..n - 1, k \in T PROVE k + 1 \in T
  <2>1. k + 1 \in 1..n /\ k + 1 \in 0..n /\ (k + 1) - 1 = k
    BY <1>3
  <2> QED
    BY <1>5, <1>10, <1>12, <2>1
<1>13. \A k \in 0..n : walk[k] \in X
  <2> HIDE DEF T
  <2>1. \A k \in 0..n : k \in T
    BY ONLY <1>3, <1>11, <1>12, UpTo
  <2> QED
    BY <2>1 DEF T
<1>14. walk \in [0..n -> X]
  BY <1>9, <1>13
<1> QED
  BY <1>2, <1>3, <1>10, <1>14 DEF X, base, One, dx, dy, sx, sy, n

\* Along the longer axis every step goes on; along the other the line is never
\* further from the true one than half a pixel.
Kept(line, s, k) ==
  \E b \in Int :
    IF FarX(line) >= FarY(line)
    THEN LET off == FarX(line) * b - FarY(line) * k
         IN  /\ s.at = <<Ahead(line[1], SideX(line), k), Ahead(line[2], SideY(line), b)>>
             /\ s.err = FarX(line) - FarY(line) + off
             /\ -FarX(line) <= 2 * off /\ 2 * off <= FarX(line)
    ELSE LET off == FarX(line) * k - FarY(line) * b
         IN  /\ s.at = <<Ahead(line[1], SideX(line), b), Ahead(line[2], SideY(line), k)>>
             /\ s.err = FarX(line) - FarY(line) + off
             /\ -FarY(line) <= 2 * off /\ 2 * off <= FarY(line)

Longer(line) == IF FarX(line) >= FarY(line) THEN FarX(line) ELSE FarY(line)

LEMMA WalkKeepsToTheLine ==
  ASSUME NEW line, IsLine(line), NEW k \in 0..Longer(line)
  PROVE  Kept(line, Walk(line)[k], k)
<1> DEFINE D == FarX(line)
           E == FarY(line)
           sx == SideX(line)
           sy == SideY(line)
           n == D + E
           s == Walk(line)
           T == {j \in 0..Longer(line) : Kept(line, s[j], j)}
<1>1. /\ line[1] \in Int /\ line[2] \in Int /\ D \in Nat /\ E \in Nat
      /\ sx \in {-1, 1} /\ sy \in {-1, 1}
  BY Distances
<1>2. /\ s \in [0..n -> [at : Int \X Int, err : Int]]
      /\ s[0] = [at |-> <<line[1], line[2]>>, err |-> D - E]
      /\ \A j \in 1..n : s[j] = NextPixel(s[j - 1], D, -E, sx, sy)
  BY WalkSteps
<1>3. Longer(line) \in 0..n /\ Longer(line) \in Nat
  BY <1>1 DEF Longer
<1> HIDE DEF s, D, E, sx, sy
<1>4. 0 \in T
  <2>1. D * 0 = 0 /\ E * 0 = 0 /\ D * 0 - E * 0 = 0
    BY <1>1
  <2>2. Ahead(line[1], sx, 0) = line[1] /\ Ahead(line[2], sy, 0) = line[2]
    BY <1>1 DEF Ahead
  <2>3. s[0].at = <<Ahead(line[1], sx, 0), Ahead(line[2], sy, 0)>> /\ s[0].err = D - E + (D * 0 - E * 0)
    BY <1>1, <1>2, <2>1, <2>2
  <2>4. -D <= 2 * (D * 0 - E * 0) /\ 2 * (D * 0 - E * 0) <= D /\ -E <= 2 * (D * 0 - E * 0) /\ 2 * (D * 0 - E * 0) <= E
    BY <1>1, <2>1
  <2>5. Kept(line, s[0], 0)
    BY <2>3, <2>4 DEF Kept, D, E, sx, sy
  <2> QED
    BY <1>3, <2>5
<1>5. ASSUME NEW j \in 0..Longer(line) - 1, j \in T PROVE j + 1 \in T
  <2>1. j + 1 \in 0..Longer(line) /\ j + 1 \in 1..n /\ (j + 1) - 1 = j /\ j \in Nat /\ j \in 0..n
    BY <1>1, <1>3
  <2>2. s[j + 1] = NextPixel(s[j], D, -E, sx, sy) /\ s[j] \in [at : Int \X Int, err : Int]
    BY <1>2, <2>1
  <2> DEFINE mx == 2 * s[j].err >= -E
             my == 2 * s[j].err <= D
  <2>3. /\ s[j + 1].at = <<s[j].at[1] + (IF mx THEN sx ELSE 0), s[j].at[2] + (IF my THEN sy ELSE 0)>>
        /\ s[j + 1].err = s[j].err + (IF mx THEN -E ELSE 0) + (IF my THEN D ELSE 0)
    BY <2>2 DEF NextPixel
  <2>4. \A from, m \in Int : /\ Ahead(from, sx, m) + sx = Ahead(from, sx, m + 1)
                             /\ Ahead(from, sy, m) + sy = Ahead(from, sy, m + 1)
                             /\ Ahead(from, sx, m) \in Int /\ Ahead(from, sy, m) \in Int
    BY <1>1 DEF Ahead
  <2>5. CASE D >= E
    <3> DEFINE Off(b, m) == D * b - E * m
    <3>1. PICK b \in Int : /\ s[j].at = <<Ahead(line[1], sx, j), Ahead(line[2], sy, b)>>
                           /\ s[j].err = D - E + Off(b, j)
                           /\ -D <= 2 * Off(b, j) /\ 2 * Off(b, j) <= D
      BY <1>5, <2>5 DEF Kept, D, E, sx, sy
    <3>2. Off(b, j) \in Int /\ Off(b, j + 1) = Off(b, j) - E /\ Off(b + 1, j + 1) = Off(b, j) - E + D
      BY <1>1, <2>1
    <3> HIDE DEF Off
    <3>3. mx
      BY <1>1, <2>5, <3>1, <3>2
    <3>6. s[j + 1].at = <<IF mx THEN Ahead(line[1], sx, j + 1) ELSE Ahead(line[1], sx, j),
                          IF my THEN Ahead(line[2], sy, b + 1) ELSE Ahead(line[2], sy, b)>>
      <4>1. s[j].at[1] = Ahead(line[1], sx, j) /\ s[j].at[2] = Ahead(line[2], sy, b)
        BY <3>1
      <4>2. /\ s[j].at[1] + (IF mx THEN sx ELSE 0)
                 = IF mx THEN Ahead(line[1], sx, j + 1) ELSE Ahead(line[1], sx, j)
            /\ s[j].at[2] + (IF my THEN sy ELSE 0)
                 = IF my THEN Ahead(line[2], sy, b + 1) ELSE Ahead(line[2], sy, b)
        <5>1. j \in Int /\ b \in Int
          BY <2>1
        <5>2. /\ Ahead(line[1], sx, j) + sx = Ahead(line[1], sx, j + 1) /\ Ahead(line[1], sx, j) \in Int
              /\ Ahead(line[2], sy, b) + sy = Ahead(line[2], sy, b + 1) /\ Ahead(line[2], sy, b) \in Int
          BY <1>1, <2>4, <5>1
        <5> HIDE DEF mx, my
        <5>3. \A i \in Int : i + 0 = i
          OBVIOUS
        <5> QED
          BY <4>1, <5>2, <5>3
      <4> HIDE DEF mx, my
      <4> QED
        BY <2>3, <4>2
    <3>7. s[j + 1].err = D - E + Off(b, j) + (IF mx THEN -E ELSE 0) + (IF my THEN D ELSE 0)
      <4> HIDE DEF mx, my
      <4> QED
        BY <2>3, <3>1
    <3>4. \E c \in Int : /\ s[j + 1].at = <<Ahead(line[1], sx, j + 1), Ahead(line[2], sy, c)>>
                         /\ s[j + 1].err = D - E + Off(c, j + 1)
                         /\ -D <= 2 * Off(c, j + 1) /\ 2 * Off(c, j + 1) <= D
      <4>1. CASE my
        <5>1. /\ s[j + 1].at = <<Ahead(line[1], sx, j + 1), Ahead(line[2], sy, b + 1)>>
              /\ s[j + 1].err = D - E + Off(b + 1, j + 1)
          BY <1>1, <3>2, <3>3, <3>6, <3>7, <4>1
        <5>2. -D <= 2 * Off(b + 1, j + 1) /\ 2 * Off(b + 1, j + 1) <= D
          BY <1>1, <2>5, <3>1, <3>2, <4>1
        <5> QED
          BY <5>1, <5>2
      <4>2. CASE ~my
        <5>1. /\ s[j + 1].at = <<Ahead(line[1], sx, j + 1), Ahead(line[2], sy, b)>>
              /\ s[j + 1].err = D - E + Off(b, j + 1)
          BY <1>1, <3>2, <3>3, <3>6, <3>7, <4>2
        <5>2. -D <= 2 * Off(b, j + 1) /\ 2 * Off(b, j + 1) <= D
          BY <1>1, <2>5, <3>1, <3>2, <4>2
        <5> QED
          BY <5>1, <5>2
      <4> QED
        BY <4>1, <4>2
    <3>5. Kept(line, s[j + 1], j + 1)
      BY <2>5, <3>4 DEF Kept, D, E, sx, sy, Off
    <3> QED
      BY <2>1, <3>5
  <2>6. CASE ~(D >= E)
    <3> DEFINE Off(b, m) == D * m - E * b
    <3>1. PICK b \in Int : /\ s[j].at = <<Ahead(line[1], sx, b), Ahead(line[2], sy, j)>>
                           /\ s[j].err = D - E + Off(b, j)
                           /\ -E <= 2 * Off(b, j) /\ 2 * Off(b, j) <= E
      BY <1>5, <2>6 DEF Kept, D, E, sx, sy
    <3>2. Off(b, j) \in Int /\ Off(b, j + 1) = Off(b, j) + D /\ Off(b + 1, j + 1) = Off(b, j) - E + D
      BY <1>1, <2>1
    <3> HIDE DEF Off
    <3>3. my
      BY <1>1, <2>6, <3>1, <3>2
    <3>6. s[j + 1].at = <<IF mx THEN Ahead(line[1], sx, b + 1) ELSE Ahead(line[1], sx, b),
                          IF my THEN Ahead(line[2], sy, j + 1) ELSE Ahead(line[2], sy, j)>>
      <4>1. s[j].at[1] = Ahead(line[1], sx, b) /\ s[j].at[2] = Ahead(line[2], sy, j)
        BY <3>1
      <4>2. /\ s[j].at[1] + (IF mx THEN sx ELSE 0)
                 = IF mx THEN Ahead(line[1], sx, b + 1) ELSE Ahead(line[1], sx, b)
            /\ s[j].at[2] + (IF my THEN sy ELSE 0)
                 = IF my THEN Ahead(line[2], sy, j + 1) ELSE Ahead(line[2], sy, j)
        <5>1. j \in Int /\ b \in Int
          BY <2>1
        <5>2. /\ Ahead(line[1], sx, b) + sx = Ahead(line[1], sx, b + 1) /\ Ahead(line[1], sx, b) \in Int
              /\ Ahead(line[2], sy, j) + sy = Ahead(line[2], sy, j + 1) /\ Ahead(line[2], sy, j) \in Int
          BY <1>1, <2>4, <5>1
        <5> HIDE DEF mx, my
        <5>3. \A i \in Int : i + 0 = i
          OBVIOUS
        <5> QED
          BY <4>1, <5>2, <5>3
      <4> HIDE DEF mx, my
      <4> QED
        BY <2>3, <4>2
    <3>7. s[j + 1].err = D - E + Off(b, j) + (IF mx THEN -E ELSE 0) + (IF my THEN D ELSE 0)
      <4> HIDE DEF mx, my
      <4> QED
        BY <2>3, <3>1
    <3>4. \E c \in Int : /\ s[j + 1].at = <<Ahead(line[1], sx, c), Ahead(line[2], sy, j + 1)>>
                         /\ s[j + 1].err = D - E + Off(c, j + 1)
                         /\ -E <= 2 * Off(c, j + 1) /\ 2 * Off(c, j + 1) <= E
      <4>1. CASE mx
        <5>1. /\ s[j + 1].at = <<Ahead(line[1], sx, b + 1), Ahead(line[2], sy, j + 1)>>
              /\ s[j + 1].err = D - E + Off(b + 1, j + 1)
          BY <1>1, <3>2, <3>3, <3>6, <3>7, <4>1
        <5>2. -E <= 2 * Off(b + 1, j + 1) /\ 2 * Off(b + 1, j + 1) <= E
          BY <1>1, <2>6, <3>1, <3>2, <4>1
        <5> QED
          BY <5>1, <5>2
      <4>2. CASE ~mx
        <5>1. /\ s[j + 1].at = <<Ahead(line[1], sx, b), Ahead(line[2], sy, j + 1)>>
              /\ s[j + 1].err = D - E + Off(b, j + 1)
          BY <1>1, <3>2, <3>3, <3>6, <3>7, <4>2
        <5>2. -E <= 2 * Off(b, j + 1) /\ 2 * Off(b, j + 1) <= E
          BY <1>1, <2>6, <3>1, <3>2, <4>2
        <5> QED
          BY <5>1, <5>2
      <4> QED
        BY <4>1, <4>2
    <3>5. Kept(line, s[j + 1], j + 1)
      BY <2>6, <3>4 DEF Kept, D, E, sx, sy, Off
    <3> QED
      BY <2>1, <3>5
  <2> QED
    BY <2>5, <2>6
<1>6. \A j \in 0..Longer(line) : j \in T
  <2> HIDE DEF T
  <2> QED
    BY <1>3, <1>4, <1>5, UpTo
<1> QED
  BY <1>6 DEF s

LEMMA LessThanHalf ==
  ASSUME NEW d \in Nat \ {0}, NEW m \in Int, -d <= 2 * (d * m), 2 * (d * m) <= d
  PROVE  m = 0
<1>1. ASSUME m >= 1 PROVE FALSE
  <2>1. d * (m - 1) >= 0 /\ d * (m - 1) = d * m - d
    BY <1>1
  <2> QED
    BY <2>1
<1>2. ASSUME m <= -1 PROVE FALSE
  <2>1. d * (-1 - m) >= 0 /\ d * (-1 - m) = -d - d * m
    BY <1>2
  <2> QED
    BY <2>1
<1> QED
  BY <1>1, <1>2

\* The end of the line is reached, after as many steps as it goes at most.
LEMMA WalkArrives ==
  ASSUME NEW line, IsLine(line)
  PROVE  Walk(line)[Longer(line)].at = <<line[3], line[4]>>
<1> DEFINE D == FarX(line)
           E == FarY(line)
           L == Longer(line)
           s == Walk(line)[L]
<1>1. /\ line[1] \in Int /\ line[2] \in Int /\ D \in Nat /\ E \in Nat
      /\ SideX(line) \in {-1, 1} /\ SideY(line) \in {-1, 1}
      /\ line[3] = Ahead(line[1], SideX(line), D) /\ line[4] = Ahead(line[2], SideY(line), E)
  BY Distances
<1>2. L \in Nat /\ L \in 0..L
  BY <1>1 DEF Longer
<1>3. CASE L = 0
  <2>1. D = 0 /\ E = 0
    BY <1>1, <1>3 DEF Longer
  <2>2. s.at = <<line[1], line[2]>>
    <3>1. Walk(line)[0].at = <<line[1], line[2]>>
      <4>1. Walk(line)[0] = [at |-> <<line[1], line[2]>>, err |-> FarX(line) - FarY(line)]
        BY WalkSteps
      <4> QED
        BY <4>1
    <3> QED
      BY <1>3, <3>1
  <2> QED
    BY <1>1, <2>1, <2>2 DEF Ahead
<1>4. CASE L # 0
  <2>1. Kept(line, s, L)
    BY <1>2, WalkKeepsToTheLine
  <2> HIDE DEF s, D, E
  <2>2. CASE D >= E
    <3>1. L = D /\ D # 0
      BY <1>4, <2>2 DEF Longer, D, E
    <3>2. PICK b \in Int : /\ s.at = <<Ahead(line[1], SideX(line), D), Ahead(line[2], SideY(line), b)>>
                           /\ -D <= 2 * (D * b - E * D) /\ 2 * (D * b - E * D) <= D
      BY <2>1, <2>2, <3>1 DEF Kept, D, E
    <3>3. D * b - E * D = D * (b - E) /\ b - E \in Int
      BY <1>1
    <3>4. b - E = 0
      BY <1>1, <3>1, <3>2, <3>3, LessThanHalf
    <3>5. b = E
      BY <1>1, <3>4
    <3> QED
      BY <1>1, <3>2, <3>5 DEF s
  <2>3. CASE ~(D >= E)
    <3>1. L = E /\ E # 0
      BY <1>4, <2>3 DEF Longer, D, E
    <3>2. PICK b \in Int : /\ s.at = <<Ahead(line[1], SideX(line), b), Ahead(line[2], SideY(line), E)>>
                           /\ -E <= 2 * (D * E - E * b) /\ 2 * (D * E - E * b) <= E
      BY <2>1, <2>3, <3>1 DEF Kept, D, E
    <3>3. D * E - E * b = E * (D - b) /\ D - b \in Int
      BY <1>1
    <3>4. D - b = 0
      BY <1>1, <3>1, <3>2, <3>3, LessThanHalf
    <3>5. b = D
      BY <1>1, <3>4
    <3> QED
      BY <1>1, <3>2, <3>5 DEF s
  <2> QED
    BY <2>2, <2>3
<1> QED
  BY <1>3, <1>4

\* The centreline is the walk up to its first arrival.
Arrives(line, m) ==
  /\ m \in 0..Longer(line)
  /\ Walk(line)[m].at = <<line[3], line[4]>>
  /\ \A k \in 0..m - 1 : Walk(line)[k].at # <<line[3], line[4]>>
  /\ Centreline(line) = [i \in 1..m + 1 |-> Walk(line)[i - 1].at]

THEOREM CentrelineArrives ==
  ASSUME NEW line, IsLine(line)
  PROVE  \E m \in Nat : Arrives(line, m)
<1> DEFINE s == Walk(line)
           end == <<line[3], line[4]>>
           L == Longer(line)
           n == FarX(line) + FarY(line)
           First(m) == s[m].at = end /\ \A k \in 0..m - 1 : s[k].at # end
           arrival == CHOOSE m \in DOMAIN s : First(m)
<1>1. FarX(line) \in Nat /\ FarY(line) \in Nat /\ L \in Nat /\ n \in Nat /\ L <= n
  BY Distances DEF Longer
<1>2. DOMAIN s = 0..n
  BY WalkSteps
<1>3. s[L].at = end
  BY WalkArrives
<1>4. Centreline(line) = [i \in 1..arrival + 1 |-> s[i - 1].at]
  BY DEF Centreline
<1> HIDE DEF s, end, n, L
<1> DEFINE B == {k \in 0..L : s[k].at = end}
<1>5. PICK m \in B : \A k \in B : m <= k
  <2>1. B \in SUBSET Nat /\ B # {}
    BY <1>1, <1>3
  <2> HIDE DEF B
  <2> QED
    BY <2>1, LeastNatural
<1>6. m \in DOMAIN s /\ First(m)
  BY <1>1, <1>2, <1>5
<1>7. arrival \in DOMAIN s /\ First(arrival)
  <2> HIDE DEF First
  <2> QED
    BY <1>6
<1> HIDE DEF arrival
<1>8. arrival <= L
  <2> SUFFICES ASSUME arrival > L PROVE FALSE
    BY <1>1, <1>2, <1>7
  <2>1. L \in 0..arrival - 1
    BY <1>1, <1>2, <1>7
  <2> QED
    BY <1>3, <1>7, <2>1
<1>9. arrival \in Nat /\ arrival \in 0..L
  BY <1>1, <1>2, <1>7, <1>8
<1>10. Arrives(line, arrival)
  BY <1>4, <1>7, <1>9 DEF Arrives, s, end, L
<1> QED
  BY <1>9, <1>10

\* On a line along an axis or a diagonal every step is the same.
Straight(line) == FarX(line) = 0 \/ FarY(line) = 0 \/ FarX(line) = FarY(line)

On(line, k) ==
  <<IF FarX(line) = 0 THEN line[1] ELSE Ahead(line[1], SideX(line), k),
    IF FarY(line) = 0 THEN line[2] ELSE Ahead(line[2], SideY(line), k)>>

LEMMA StraightWalk ==
  ASSUME NEW line, IsLine(line), Straight(line), NEW k \in 0..Longer(line)
  PROVE  Walk(line)[k].at = On(line, k)
<1> DEFINE D == FarX(line)
           E == FarY(line)
           s == Walk(line)[k]
<1>1. /\ line[1] \in Int /\ line[2] \in Int /\ D \in Nat /\ E \in Nat /\ k \in Nat
      /\ SideX(line) \in {-1, 1} /\ SideY(line) \in {-1, 1}
  BY Distances DEF Longer
<1>2. CASE k = 0
  <2>1. s.at = <<line[1], line[2]>>
    <3>1. Walk(line)[0].at = <<line[1], line[2]>>
      <4>1. Walk(line)[0] = [at |-> <<line[1], line[2]>>, err |-> FarX(line) - FarY(line)]
        BY WalkSteps
      <4> QED
        BY <4>1
    <3> QED
      BY <1>2, <3>1
  <2>2. Ahead(line[1], SideX(line), 0) = line[1] /\ Ahead(line[2], SideY(line), 0) = line[2]
    BY <1>1 DEF Ahead
  <2> QED
    BY <1>2, <2>1, <2>2 DEF On
<1>3. CASE k # 0
  <2>1. Kept(line, s, k)
    BY WalkKeepsToTheLine
  <2>2. Ahead(line[1], SideX(line), 0) = line[1] /\ Ahead(line[2], SideY(line), 0) = line[2]
    BY <1>1 DEF Ahead
  <2> HIDE DEF s, D, E
  <2>3. CASE D >= E
    <3>1. D # 0
      BY <1>1, <1>3, <2>3 DEF Longer, D, E
    <3>2. PICK b \in Int : /\ s.at = <<Ahead(line[1], SideX(line), k), Ahead(line[2], SideY(line), b)>>
                           /\ -D <= 2 * (D * b - E * k) /\ 2 * (D * b - E * k) <= D
      BY <2>1, <2>3 DEF Kept, D, E
    <3>3. CASE E = 0
      <4>1. D * b - E * k = D * b
        BY <1>1, <3>3
      <4>2. b = 0
        BY <1>1, <3>1, <3>2, <4>1, LessThanHalf
      <4> QED
        BY <2>2, <3>1, <3>2, <3>3, <4>2 DEF On, s, D, E
    <3>4. CASE E # 0
      <4>1. E = D
        BY <3>1, <3>4 DEF Straight, D, E
      <4>2. D * b - E * k = D * (b - k) /\ b - k \in Int
        BY <1>1, <4>1
      <4>3. b - k = 0
        BY <1>1, <3>1, <3>2, <4>2, LessThanHalf
      <4>4. b = k
        BY <1>1, <4>3
      <4> QED
        BY <3>1, <3>2, <3>4, <4>4 DEF On, s, D, E
    <3> QED
      BY <3>3, <3>4
  <2>4. CASE ~(D >= E)
    <3>1. E # 0 /\ D = 0
      BY <1>1, <2>4 DEF Straight, D, E
    <3>2. PICK b \in Int : /\ s.at = <<Ahead(line[1], SideX(line), b), Ahead(line[2], SideY(line), k)>>
                           /\ -E <= 2 * (D * k - E * b) /\ 2 * (D * k - E * b) <= E
      BY <2>1, <2>4 DEF Kept, D, E
    <3>3. D * k - E * b = E * (-b) /\ -b \in Int
      BY <1>1, <3>1
    <3>4. -b = 0
      BY <1>1, <3>1, <3>2, <3>3, LessThanHalf
    <3>5. b = 0
      BY <3>4
    <3> QED
      BY <2>2, <3>1, <3>2, <3>5 DEF On, s, D, E
  <2> QED
    BY <2>3, <2>4
<1> QED
  BY <1>2, <1>3

\* So its centreline is every point from the first to the last.
LEMMA StraightCentreline ==
  ASSUME NEW line, IsLine(line), Straight(line)
  PROVE  Centreline(line) = [i \in 1..Longer(line) + 1 |-> On(line, i - 1)]
<1> DEFINE L == Longer(line)
<1>1. /\ line[1] \in Int /\ line[2] \in Int /\ FarX(line) \in Nat /\ FarY(line) \in Nat /\ L \in Nat
      /\ SideX(line) \in {-1, 1} /\ SideY(line) \in {-1, 1}
  BY Distances DEF Longer
<1>2. PICK m \in Nat : Arrives(line, m)
  BY CentrelineArrives
<1>3. On(line, m) = On(line, L)
  <2>1. m \in 0..L /\ L \in 0..L /\ Walk(line)[m].at = <<line[3], line[4]>>
    BY <1>1, <1>2 DEF Arrives
  <2>2. Walk(line)[m].at = On(line, m) /\ Walk(line)[L].at = On(line, L)
    BY <2>1, StraightWalk
  <2>3. Walk(line)[L].at = <<line[3], line[4]>>
    BY WalkArrives
  <2> QED
    BY <2>1, <2>2, <2>3
<1>4. m = L
  <2>1. \A i \in Nat : i <= L /\ L # 0 /\ On(line, i) = On(line, L) => i = L
    BY <1>1 DEF On, Ahead, Longer
  <2> QED
    BY <1>1, <1>2, <1>3, <2>1 DEF Arrives
<1>5. \A i \in 1..m + 1 : i - 1 \in 0..L
  BY <1>1, <1>4
<1>6. \A i \in 1..m + 1 : Walk(line)[i - 1].at = On(line, i - 1)
  BY <1>5, StraightWalk
<1> QED
  BY <1>2, <1>4, <1>6 DEF Arrives

\* One pixel further on the line's way.
Beside(p, q, sx, sy) == q[1] \in {p[1], p[1] + sx} /\ q[2] \in {p[2], p[2] + sy}

LEMMA CentrelineSteps ==
  ASSUME NEW line, IsLine(line)
  PROVE  \E m \in Nat : /\ Centreline(line) \in [1..m + 1 -> Int \X Int]
                        /\ \A i \in 1..m : Beside(Centreline(line)[i], Centreline(line)[i + 1],
                                                  SideX(line), SideY(line))
<1> DEFINE s == Walk(line)
           n == FarX(line) + FarY(line)
           c == Centreline(line)
<1>1. PICK m \in Nat : Arrives(line, m)
  BY CentrelineArrives
<1>2. /\ FarX(line) \in Nat /\ FarY(line) \in Nat /\ Longer(line) \in Nat /\ m <= n /\ n \in Nat
      /\ SideX(line) \in {-1, 1} /\ SideY(line) \in {-1, 1}
  BY <1>1, Distances DEF Arrives, Longer
<1>3. /\ s \in [0..n -> [at : Int \X Int, err : Int]]
      /\ \A k \in 1..n : s[k] = NextPixel(s[k - 1], FarX(line), -FarY(line), SideX(line), SideY(line))
  BY WalkSteps
<1>4. c = [i \in 1..m + 1 |-> s[i - 1].at]
  BY <1>1 DEF Arrives
<1> HIDE DEF s, n, c
<1>5. \A i \in 1..m + 1 : c[i] = s[i - 1].at /\ s[i - 1] \in [at : Int \X Int, err : Int]
  BY <1>2, <1>3, <1>4, SMTT(30)
<1>6. c \in [1..m + 1 -> Int \X Int]
  BY <1>4, <1>5
<1>7. ASSUME NEW i \in 1..m PROVE Beside(c[i], c[i + 1], SideX(line), SideY(line))
  <2>1. i \in 1..n /\ i \in 1..m + 1 /\ i + 1 \in 1..m + 1 /\ (i + 1) - 1 = i
    BY <1>2
  <2>2. c[i + 1] = s[i].at /\ c[i] = s[i - 1].at /\ s[i - 1].at \in Int \X Int
    BY <1>5, <2>1
  <2>3. s[i] = NextPixel(s[i - 1], FarX(line), -FarY(line), SideX(line), SideY(line))
    BY <1>3, <2>1
  <2>4. \E bx, by \in BOOLEAN :
          c[i + 1] = <<c[i][1] + (IF bx THEN SideX(line) ELSE 0), c[i][2] + (IF by THEN SideY(line) ELSE 0)>>
    <3> DEFINE bx == 2 * s[i - 1].err >= -FarY(line)
               by == 2 * s[i - 1].err <= FarX(line)
    <3>1. c[i + 1] = <<c[i][1] + (IF bx THEN SideX(line) ELSE 0), c[i][2] + (IF by THEN SideY(line) ELSE 0)>>
      BY <2>2, <2>3 DEF NextPixel
    <3>2. bx \in BOOLEAN /\ by \in BOOLEAN
      OBVIOUS
    <3> HIDE DEF bx, by
    <3> QED
      BY <3>1, <3>2
  <2>5. c[i][1] \in Int /\ c[i][2] \in Int
    BY <2>2
  <2> QED
    BY <1>2, <2>4, <2>5 DEF Beside
<1> QED
  BY <1>6, <1>7 DEF c

\* Runs, by their first and last pixel, and what a run on its way looks like.
RunEnds == Int \X Int \X Int \X Int

Forward(run, sx, sy) ==
  /\ IF sx = 1 THEN run[1] <= run[3] ELSE run[3] <= run[1]
  /\ IF sy = 1 THEN run[2] <= run[4] ELSE run[4] <= run[2]
  /\ run[1] = run[3] \/ run[2] = run[4]

LEMMA Rectangle ==
  ASSUME NEW run \in RunEnds, NEW w \in Nat, NEW sx \in {-1, 1}, NEW sy \in {-1, 1},
         IF sx = 1 THEN run[1] <= run[3] ELSE run[3] <= run[1],
         IF sy = 1 THEN run[2] <= run[4] ELSE run[4] <= run[2]
  PROVE  LET h == w \div 2
         IN  RunRect(run, w) =
               (IF sx = 1 THEN run[1] - h..run[3] - h + w - 1 ELSE run[3] - h..run[1] - h + w - 1)
               \X (IF sy = 1 THEN run[2] - h..run[4] - h + w - 1 ELSE run[4] - h..run[2] - h + w - 1)
<1> DEFINE h == w \div 2
           left == (IF run[1] < run[3] THEN run[1] ELSE run[3]) - h
           top == (IF run[2] < run[4] THEN run[2] ELSE run[4]) - h
<1>1. run[1] \in Int /\ run[2] \in Int /\ run[3] \in Int /\ run[4] \in Int /\ h \in Int
  BY DEF RunEnds
<1>2. RunRect(run, w) = (left..left + Abs(run[3] - run[1]) + w - 1) \X (top..top + Abs(run[4] - run[2]) + w - 1)
  BY DEF RunRect
<1> HIDE DEF h
<1>3. (left..left + Abs(run[3] - run[1]) + w - 1)
        = IF sx = 1 THEN run[1] - h..run[3] - h + w - 1 ELSE run[3] - h..run[1] - h + w - 1
  <2>1. /\ left = IF sx = 1 THEN run[1] - h ELSE run[3] - h
        /\ left + Abs(run[3] - run[1]) + w - 1 = IF sx = 1 THEN run[3] - h + w - 1 ELSE run[1] - h + w - 1
    BY <1>1 DEF Abs
  <2> HIDE DEF left
  <2> QED
    BY <2>1
<1>4. (top..top + Abs(run[4] - run[2]) + w - 1)
        = IF sy = 1 THEN run[2] - h..run[4] - h + w - 1 ELSE run[4] - h..run[2] - h + w - 1
  <2>1. /\ top = IF sy = 1 THEN run[2] - h ELSE run[4] - h
        /\ top + Abs(run[4] - run[2]) + w - 1 = IF sy = 1 THEN run[4] - h + w - 1 ELSE run[2] - h + w - 1
    BY <1>1 DEF Abs
  <2> HIDE DEF top
  <2> QED
    BY <2>1
<1> QED
  BY <1>2, <1>3, <1>4 DEF h

\* What a step adds to a run that it extends is its brush.
ExtendedBy(run, p, w, sx, sy) ==
  /\ <<run[1], run[2], p[1], p[2]>> \in RunEnds
  /\ Forward(<<run[1], run[2], p[1], p[2]>>, sx, sy)
  /\ RunRect(<<run[1], run[2], p[1], p[2]>>, w)
       = RunRect(run, w) \cup RunRect(<<p[1], p[2], p[1], p[2]>>, w)

LEMMA ExtendedRun ==
  ASSUME NEW run \in RunEnds, NEW w \in Nat, NEW sx \in {-1, 1}, NEW sy \in {-1, 1}, Forward(run, sx, sy),
         NEW p \in Int \X Int, Beside(<<run[3], run[4]>>, p, sx, sy),
         Extends(run, p, <<run[3], run[4]>>)
  PROVE  ExtendedBy(run, p, w, sx, sy)
<1> DEFINE a == run[1]
           b == run[2]
           c == run[3]
           d == run[4]
           x == p[1]
           y == p[2]
           h == w \div 2
           longer == <<a, b, x, y>>
           dot == <<x, y, x, y>>
<1>1. a \in Int /\ b \in Int /\ c \in Int /\ d \in Int /\ x \in Int /\ y \in Int /\ h \in Int
  BY DEF RunEnds
<1>2. /\ IF sx = 1 THEN a <= c ELSE c <= a
      /\ IF sy = 1 THEN b <= d ELSE d <= b
      /\ a = c \/ b = d
  BY DEF Forward
<1>3. x \in {c, c + sx} /\ y \in {d, d + sy}
  BY DEF Beside
<1>4. (y = d /\ b = d) \/ (x = c /\ a = c)
  BY DEF Extends
<1>5. longer \in RunEnds /\ dot \in RunEnds
  BY <1>1 DEF RunEnds
<1> HIDE DEF a, b, c, d, x, y, h
<1>6. /\ IF sx = 1 THEN a <= x ELSE x <= a
      /\ IF sy = 1 THEN b <= y ELSE y <= b
      /\ a = x \/ b = y
  BY <1>1, <1>2, <1>3, <1>4
<1> DEFINE I(u, v) == IF sx = 1 THEN u - h..v - h + w - 1 ELSE v - h..u - h + w - 1
           J(u, v) == IF sy = 1 THEN u - h..v - h + w - 1 ELSE v - h..u - h + w - 1
<1>7. RunRect(run, w) = I(a, c) \X J(b, d)
  BY <1>2, Rectangle DEF a, b, c, d, h
<1>8. RunRect(longer, w) = I(a, x) \X J(b, y)
  <2>1. longer[1] = a /\ longer[2] = b /\ longer[3] = x /\ longer[4] = y
    OBVIOUS
  <2> HIDE DEF longer
  <2> QED
    BY <1>5, <1>6, <2>1, Rectangle DEF h
<1>9. RunRect(dot, w) = I(x, x) \X J(y, y)
  <2>1. dot[1] = x /\ dot[2] = y /\ dot[3] = x /\ dot[4] = y
    OBVIOUS
  <2>2. x <= x /\ y <= y
    BY <1>1
  <2> HIDE DEF dot
  <2> QED
    BY <1>5, <2>1, <2>2, Rectangle DEF h
<1>10. (I(a, x) \X J(b, y)) = (I(a, c) \X J(b, d)) \cup (I(x, x) \X J(y, y))
  <2>1. CASE w = 0
    <3>1. (y = d /\ b = d) => J(b, y) = {} /\ J(b, d) = {} /\ J(y, y) = {}
      BY <1>1, <2>1
    <3>2. (x = c /\ a = c) => I(a, x) = {} /\ I(a, c) = {} /\ I(x, x) = {}
      BY <1>1, <2>1
    <3> HIDE DEF I, J
    <3> QED
      BY <1>4, <3>1, <3>2
  <2>2. CASE w # 0
    <3>1. CASE y = d /\ b = d
      <4>1. I(a, x) = I(a, c) \cup I(x, x)
        BY <1>1, <1>2, <1>3, <2>2
      <4> HIDE DEF I, J
      <4> QED
        BY <3>1, <4>1
    <3>2. CASE x = c /\ a = c
      <4>1. J(b, y) = J(b, d) \cup J(y, y)
        BY <1>1, <1>2, <1>3, <2>2
      <4> HIDE DEF I, J
      <4> QED
        BY <3>2, <4>1
    <3> QED
      BY <1>4, <3>1, <3>2
  <2> QED
    BY <2>1, <2>2
<1> HIDE DEF I, J
<1>11. Forward(longer, sx, sy)
  BY <1>6 DEF Forward
<1> QED
  BY <1>5, <1>7, <1>8, <1>9, <1>10, <1>11 DEF ExtendedBy, a, b, c, d, x, y

\* Two pixels as the ends of a run.
LEMMA TwoPixels ==
  ASSUME NEW p \in Int \X Int, NEW q \in Int \X Int
  PROVE  /\ p[1] \in Int /\ p[2] \in Int /\ q[1] \in Int /\ q[2] \in Int
         /\ p \o q = <<p[1], p[2], q[1], q[2]>> /\ <<p[1], p[2], q[1], q[2]>> \in RunEnds
<1>1. p = <<p[1], p[2]>> /\ q = <<q[1], q[2]>> /\ p[1] \in Int /\ p[2] \in Int /\ q[1] \in Int /\ q[2] \in Int
  OBVIOUS
<1> DEFINE x == p[1]
           y == p[2]
           z == q[1]
           v == q[2]
           s == <<x, y>>
           u == <<z, v>>
           t == <<x, y, z, v>>
           both == s \o u
<1>2. s \in Seq(Int) /\ u \in Seq(Int) /\ t \in Seq(Int) /\ Len(s) = 2 /\ Len(u) = 2 /\ Len(t) = 4
  BY <1>1
<1>3. s[1] = x /\ s[2] = y /\ u[1] = z /\ u[2] = v /\ t[1] = x /\ t[2] = y /\ t[3] = z /\ t[4] = v
  OBVIOUS
<1> HIDE DEF x, y, z, v, s, u, t
<1>4. /\ both \in Seq(Int) /\ Len(both) = 4
      /\ \A i \in 1..4 : both[i] = IF i <= 2 THEN s[i] ELSE u[i - 2]
  <2>1. /\ both \in Seq(Int) /\ Len(both) = Len(s) + Len(u)
        /\ \A i \in 1..Len(s) + Len(u) : both[i] = IF i <= Len(s) THEN s[i] ELSE u[i - Len(s)]
    BY ONLY <1>2, ConcatProperties
  <2> HIDE DEF both
  <2> QED
    BY <1>2, <2>1
<1> HIDE DEF both
<1>5. \A i \in 1..Len(both) : both[i] = t[i]
  <2> SUFFICES ASSUME NEW i \in 1..4 PROVE both[i] = t[i]
    BY <1>4
  <2>1. i = 1 \/ i = 2 \/ i = 3 \/ i = 4
    OBVIOUS
  <2> QED
    BY <1>3, <1>4, <2>1
<1>6. both = t
  <2>1. Len(both) = Len(t)
    BY <1>2, <1>4
  <2> QED
    BY <1>2, <1>4, <1>5, <2>1, SeqEqual
<1> QED
  BY <1>1, <1>6 DEF both, s, u, t, x, y, z, v, RunEnds

\* A pixel as a run of its own.
LEMMA Twice ==
  ASSUME NEW p \in Int \X Int
  PROVE  /\ p = <<p[1], p[2]>> /\ p[1] \in Int /\ p[2] \in Int
         /\ p \o p = <<p[1], p[2], p[1], p[2]>> /\ <<p[1], p[2], p[1], p[2]>> \in RunEnds
<1>1. p \o p = <<p[1], p[2], p[1], p[2]>> /\ <<p[1], p[2], p[1], p[2]>> \in RunEnds
  BY TwoPixels
<1> QED
  BY <1>1

\* The pixels of the rectangles of some runs.
Swept(runs, w) == UNION {RunRect(runs[i], w) : i \in DOMAIN runs}
Brushed(points, w) == UNION {Brush(points[i], w) : i \in DOMAIN points}

LEMMA OneMoreRun ==
  ASSUME NEW runs \in Seq(RunEnds), NEW run \in RunEnds, NEW w
  PROVE  Swept(Append(runs, run), w) = Swept(runs, w) \cup RunRect(run, w)
<1> DEFINE n == Len(runs)
           more == Append(runs, run)
<1>1. /\ n \in Nat /\ DOMAIN runs = 1..n /\ DOMAIN more = 1..n + 1
      /\ more[n + 1] = run /\ \A i \in 1..n : more[i] = runs[i]
  BY AppendProperties, LenProperties
<1> HIDE DEF more, n
<1>2. 1..n + 1 = (1..n) \cup {n + 1}
  BY <1>1
<1>3. \A q : q \in UNION {RunRect(more[i], w) : i \in 1..n + 1}
               <=> q \in UNION {RunRect(runs[i], w) : i \in 1..n} \/ q \in RunRect(run, w)
  <2> SUFFICES ASSUME NEW q
               PROVE  (\E i \in 1..n + 1 : q \in RunRect(more[i], w))
                        <=> (\E i \in 1..n : q \in RunRect(runs[i], w)) \/ q \in RunRect(run, w)
    OBVIOUS
  <2> QED
    BY <1>1, <1>2
<1> QED
  BY <1>1, <1>3 DEF Swept, more

\* Whatever way a line goes, its runs paint what the brush does pixel by pixel.
LEMMA RunsCover ==
  ASSUME NEW m \in Nat, NEW points \in [1..m + 1 -> Int \X Int], NEW sx \in {-1, 1}, NEW sy \in {-1, 1},
         \A i \in 1..m : Beside(points[i], points[i + 1], sx, sy), NEW w \in Nat
  PROVE  Swept(Runs(points), w) = Brushed(points, w)
<1> DEFINE X == [done : Seq(RunEnds), run : RunEnds, prev : Int \X Int]
           base == [done |-> <<>>, run |-> points[1] \o points[1], prev |-> points[1]]
           step == [q \in X \X (1..m) |-> NextRun(q[1], points[q[2] + 1])]
           Scans(h) == h = [i \in 1..m + 1 |-> IF i = 1 THEN base ELSE NextRun(h[i - 1], points[i])]
           scan == CHOOSE h : Scans(h)
           end == scan[m + 1]
<1>1. /\ points \in Seq(Int \X Int) /\ Len(points) = m + 1 /\ DOMAIN points = 1..m + 1
      /\ \A i \in 1..m + 1 : points[i] \in Int \X Int
  <2>1. points = [i \in 1..m + 1 |-> points[i]] /\ m + 1 \in Nat /\ \A i \in 1..m + 1 : points[i] \in Int \X Int
    OBVIOUS
  <2>2. points \in Seq(Int \X Int)
    BY ONLY <2>1, IsASeq
  <2>3. DOMAIN points = 1..Len(points) /\ Len(points) \in Nat /\ DOMAIN points = 1..m + 1
    BY <2>1, <2>2, LenProperties
  <2>4. Len(points) = m + 1
    BY <2>3
  <2> QED
    BY <2>1, <2>2, <2>3, <2>4
<1>2. Runs(points) = Append(end.done, end.run)
  BY <1>1 DEF Runs
<1> HIDE DEF scan
<1>3. 1 \in 1..m + 1 /\ points[1] \in Int \X Int
  BY <1>1
<1>4. base \in X
  <2>1. points[1] \o points[1] \in RunEnds
    BY <1>3, Twice
  <2>2. <<>> \in Seq(RunEnds)
    OBVIOUS
  <2> QED
    BY <1>3, <2>1, <2>2
<1>5. \A x \in X, p \in Int \X Int : NextRun(x, p) \in X
  <2> SUFFICES ASSUME NEW x \in X, NEW p \in Int \X Int PROVE NextRun(x, p) \in X
    OBVIOUS
  <2>1. x.done \in Seq(RunEnds) /\ x.run \in RunEnds /\ x.prev \in Int \X Int
    OBVIOUS
  <2>2. CASE Extends(x.run, p, x.prev)
    <3> DEFINE longer == <<x.run[1], x.run[2], p[1], p[2]>>
    <3>1. longer \in RunEnds
      BY <2>1 DEF RunEnds
    <3>2. NextRun(x, p) = [x EXCEPT !.run = longer, !.prev = p]
      BY <2>2 DEF NextRun
    <3> HIDE DEF longer
    <3> QED
      BY <3>1, <3>2
  <2>3. CASE ~Extends(x.run, p, x.prev)
    <3> DEFINE more == Append(x.done, x.run)
               dot == p \o p
    <3>1. more \in Seq(RunEnds) /\ dot \in RunEnds
      BY <2>1, AppendProperties, Twice
    <3>2. NextRun(x, p) = [done |-> more, run |-> dot, prev |-> p]
      BY <2>3 DEF NextRun
    <3> HIDE DEF more, dot
    <3> QED
      BY <3>1, <3>2
  <2> QED
    BY <2>2, <2>3
<1> HIDE DEF X, base
<1>6. \A i \in 1..m : i + 1 \in 1..m + 1 /\ points[i + 1] \in Int \X Int
  BY <1>1
<1>7. step \in [X \X (1..m) -> X]
  BY <1>5, <1>6
<1>8. \A x \in X, i \in 1..m : step[<<x, i>>] = NextRun(x, points[i + 1])
  OBVIOUS
<1> HIDE DEF step
<1>9. PICK g \in [0..m -> X] : Recursion(g, m, base, step)
  BY ONLY m \in Nat, <1>4, <1>7, RecursionExists
<1>10. Scans(scan)
  <2> DEFINE h == [i \in 1..m + 1 |-> g[i - 1]]
  <2>1. g[0] = base
    BY <1>9 DEF Recursion
  <2>2. ASSUME NEW i \in 1..m + 1, i # 1 PROVE h[i] = NextRun(h[i - 1], points[i])
    <3>1. i - 1 \in 1..m /\ i - 1 \in 1..m + 1 /\ (i - 1) + 1 = i /\ (i - 1) - 1 \in 0..m
      BY <2>2
    <3>2. g[i - 1] = step[<<g[(i - 1) - 1], i - 1>>] /\ g[(i - 1) - 1] \in X
      BY <1>9, <3>1 DEF Recursion
    <3>3. g[i - 1] = NextRun(g[(i - 1) - 1], points[i])
      BY <1>8, <3>1, <3>2
    <3> QED
      BY <3>1, <3>3
  <2>3. h[1] = base
    BY <2>1
  <2>4. Scans(h)
    <3>1. h = [i \in 1..m + 1 |-> h[i]]
      OBVIOUS
    <3> HIDE DEF h
    <3> QED
      BY <2>2, <2>3, <3>1
  <2> HIDE DEF Scans
  <2> QED
    BY <2>4 DEF scan
<1>11. scan[1] = base /\ \A i \in 1..m : scan[i + 1] = NextRun(scan[i], points[i + 1])
  <2>1. scan[1] = base
    BY <1>3, <1>10
  <2>2. ASSUME NEW i \in 1..m PROVE scan[i + 1] = NextRun(scan[i], points[i + 1])
    <3>1. i + 1 \in 1..m + 1 /\ i + 1 # 1 /\ (i + 1) - 1 = i
      OBVIOUS
    <3> QED
      BY <1>10, <3>1
  <2> QED
    BY <2>1, <2>2
<1> HIDE DEF Scans
<1> DEFINE Painted(k) == UNION {Brush(points[i], w) : i \in 1..k}
           Good(s, k) == /\ s \in X
                         /\ s.prev = points[k] /\ points[k] = <<s.run[3], s.run[4]>>
                         /\ Forward(s.run, sx, sy)
                         /\ Swept(s.done, w) \cup RunRect(s.run, w) = Painted(k)
           T == {k \in 0..m : Good(scan[k + 1], k + 1)}
<1>12. \A k \in 1..m : Painted(k + 1) = Painted(k) \cup Brush(points[k + 1], w)
  <2> SUFFICES ASSUME NEW k \in 1..m PROVE Painted(k + 1) = Painted(k) \cup Brush(points[k + 1], w)
    OBVIOUS
  <2>1. k \in Nat
    OBVIOUS
  <2>2. \A j \in Nat : 1..j + 1 = (1..j) \cup {j + 1}
    OBVIOUS
  <2>3. 1..k + 1 = (1..k) \cup {k + 1}
    BY ONLY <2>1, <2>2
  <2> QED
    BY <2>3
<1>13. \A i \in 1..m + 1 : Brush(points[i], w) = RunRect(points[i] \o points[i], w)
  BY DEF Brush
<1>14. 0 \in T
  <2> DEFINE p == points[1]
             dot == p \o p
  <2>1. base.done = <<>> /\ base.run = dot /\ base.prev = p
    BY DEF base
  <2>2. dot = <<p[1], p[2], p[1], p[2]>> /\ p = <<p[1], p[2]>> /\ p[1] \in Int /\ p[2] \in Int
    BY <1>3, Twice
  <2>3. Forward(dot, sx, sy) /\ p = <<dot[3], dot[4]>>
    <3> HIDE DEF dot
    <3> QED
      BY <2>2 DEF Forward
  <2>4. Swept(<<>>, w) = {}
    BY DEF Swept
  <2>5. Painted(1) = RunRect(dot, w)
    <3>1. 1..1 = {1}
      OBVIOUS
    <3> HIDE DEF dot
    <3> QED
      BY <1>3, <1>13, <3>1 DEF dot
  <2> HIDE DEF dot, Painted
  <2>6. Good(scan[1], 1)
    BY <1>4, <1>11, <2>1, <2>3, <2>4, <2>5
  <2>7. 0 \in 0..m /\ 0 + 1 = 1
    OBVIOUS
  <2> HIDE DEF Good
  <2> QED
    BY <2>6, <2>7
<1>15. ASSUME NEW k \in 0..m - 1, k \in T PROVE k + 1 \in T
  <2> DEFINE s == scan[k + 1]
             p == points[k + 2]
             new == scan[k + 2]
             dot == p \o p
  <2>1. k + 1 \in 0..m /\ k + 1 \in 1..m /\ k + 2 \in 1..m + 1 /\ (k + 1) + 1 = k + 2
    OBVIOUS
  <2>2. new = NextRun(s, p) /\ p \in Int \X Int /\ Beside(points[k + 1], p, sx, sy)
    BY <1>1, <1>11, <2>1
  <2>3. /\ s \in X /\ s.prev = points[k + 1] /\ points[k + 1] = <<s.run[3], s.run[4]>>
        /\ Forward(s.run, sx, sy)
        /\ Swept(s.done, w) \cup RunRect(s.run, w) = Painted(k + 1)
    BY <1>15
  <2>4. Painted(k + 2) = Painted(k + 1) \cup RunRect(dot, w)
    BY <1>12, <1>13, <2>1
  <2>5. dot = <<p[1], p[2], p[1], p[2]>> /\ dot \in RunEnds /\ p = <<p[1], p[2]>> /\ p[1] \in Int /\ p[2] \in Int
    BY <2>2, Twice
  <2>6. s.done \in Seq(RunEnds) /\ s.run \in RunEnds
    BY <2>3 DEF X
  <2>7. new \in X
    BY <1>5, <2>2, <2>3
  <2> HIDE DEF Painted, new, s, p, dot
  <2>8. Good(new, k + 2)
    <3>1. CASE Extends(s.run, p, s.prev)
      <4> DEFINE longer == <<s.run[1], s.run[2], p[1], p[2]>>
      <4>1. Beside(<<s.run[3], s.run[4]>>, p, sx, sy) /\ Extends(s.run, p, <<s.run[3], s.run[4]>>)
        BY <2>2, <2>3, <3>1
      <4>2. Forward(longer, sx, sy) /\ RunRect(longer, w) = RunRect(s.run, w) \cup RunRect(dot, w)
        <5>1. /\ Forward(<<s.run[1], s.run[2], p[1], p[2]>>, sx, sy)
              /\ RunRect(<<s.run[1], s.run[2], p[1], p[2]>>, w)
                   = RunRect(s.run, w) \cup RunRect(<<p[1], p[2], p[1], p[2]>>, w)
          <6> DEFINE run == s.run
          <6>1. run \in RunEnds /\ p \in Int \X Int /\ Forward(run, sx, sy)
            BY <2>2, <2>3, <2>6
          <6>2. Beside(<<run[3], run[4]>>, p, sx, sy) /\ Extends(run, p, <<run[3], run[4]>>)
            BY <4>1
          <6>3. w \in Nat /\ sx \in {-1, 1} /\ sy \in {-1, 1}
            OBVIOUS
          <6> HIDE DEF run
          <6>4. ExtendedBy(run, p, w, sx, sy)
            BY ONLY <6>1, <6>2, <6>3, ExtendedRun
          <6> QED
            BY <6>4 DEF run, ExtendedBy
        <5> QED
          BY <2>5, <5>1
      <4>3. new = [s EXCEPT !.run = longer, !.prev = p]
        BY <2>2, <3>1 DEF NextRun
      <4>4. longer[3] = p[1] /\ longer[4] = p[2]
        OBVIOUS
      <4> HIDE DEF longer
      <4>5. new.run = longer /\ new.prev = p /\ new.done = s.done
        BY <2>3, <4>3 DEF X
      <4> QED
        BY <2>3, <2>4, <2>5, <2>7, <4>2, <4>4, <4>5 DEF p
    <3>2. CASE ~Extends(s.run, p, s.prev)
      <4> DEFINE more == Append(s.done, s.run)
      <4>1. new = [done |-> more, run |-> dot, prev |-> p]
        BY <2>2, <3>2 DEF NextRun, dot
      <4>2. Swept(more, w) = Swept(s.done, w) \cup RunRect(s.run, w)
        BY <2>6, OneMoreRun
      <4> HIDE DEF more
      <4>3. Forward(dot, sx, sy) /\ p = <<dot[3], dot[4]>>
        BY <2>5, SMTT(30) DEF Forward
      <4>4. new.run = dot /\ new.prev = p /\ new.done = more
        BY <4>1
      <4> QED
        BY <2>3, <2>4, <2>7, <4>2, <4>3, <4>4 DEF p
    <3> QED
      BY <3>1, <3>2
  <2> HIDE DEF Good
  <2> QED
    BY <2>1, <2>8 DEF new
<1>16. \A k \in 0..m : k \in T
  <2> HIDE DEF T
  <2> QED
    BY ONLY m \in Nat, <1>14, <1>15, UpTo
<1>17. Good(end, m + 1)
  <2>1. m \in 0..m
    OBVIOUS
  <2> HIDE DEF Good
  <2> QED
    BY <1>16, <2>1
<1>18. end.done \in Seq(RunEnds) /\ end.run \in RunEnds
  BY <1>17 DEF X
<1> HIDE DEF end
<1>19. Swept(Runs(points), w) = Swept(end.done, w) \cup RunRect(end.run, w)
  BY <1>2, <1>18, OneMoreRun
<1> QED
  BY <1>1, <1>17, <1>19 DEF Brushed

-----------------------------------------------------------------------------
\* Clipping leaves a part of a line, or nothing.
Fractions == [n : Int, d : Nat \ {0}]
Spans == [t0 : Fractions, t1 : Fractions, in : BOOLEAN]

LEMMA ClipStays ==
  ASSUME NEW p \in Int, NEW q \in Int, NEW t \in Spans
  PROVE  ClipT(p, q, t) \in Spans
<1> DEFINE r == Fraction(q, p)
<1>1. p # 0 => r \in Fractions
  BY DEF Fraction, Fractions
<1> HIDE DEF r
<1>2. t.in \in BOOLEAN /\ Outside(t) \in Spans
  BY DEF Spans, Outside
<1>3. p # 0 => [t EXCEPT !.t0 = r] \in Spans /\ [t EXCEPT !.t1 = r] \in Spans
  BY <1>1 DEF Spans
<1>4. p # 0 => Enters(r, t) \in Spans /\ Leaves(r, t) \in Spans
  BY <1>2, <1>3 DEF Enters, Leaves
<1> QED
  BY <1>2, <1>4 DEF ClipT, r

LEMMA PixelIsWhole ==
  ASSUME NEW a \in Int, NEW f \in Fractions, NEW d \in Int, NEW lo \in Int, NEW hi \in Int
  PROVE  ClampPixel(a, f, d, lo, hi) \in Int
<1> DEFINE m == 2 * (a * f.d + f.n * d) + f.d
           k == 2 * f.d
<1>1. m \in Int /\ k \in Nat \ {0}
  <2>1. f.d \in Nat \ {0} /\ f.n \in Int
    BY DEF Fractions
  <2>2. a * f.d \in Int /\ f.n * d \in Int
    BY <2>1
  <2> QED
    BY <2>1, <2>2
<1>2. ClampPixel(a, f, d, lo, hi) \in {lo, hi, m \div k}
  BY DEF ClampPixel
<1> HIDE DEF m, k
<1>3. m \div k \in Int
  BY <1>1, QuotientAndRest
<1> QED
  BY <1>2, <1>3

\* The four edges in their order, and the two ends.
ClippedSpan(line, rect) ==
  LET dx == line[3] - line[1]
      dy == line[4] - line[2]
      all == [t0 |-> Fraction(0, 1), t1 |-> Fraction(1, 1), in |-> TRUE]
  IN  ClipT(dy, rect[4] - line[2],
        ClipT(-dy, line[2] - rect[2],
          ClipT(dx, rect[3] - line[1], ClipT(-dx, line[1] - rect[1], all))))

ClippedEnd(line, rect, u) ==
  <<ClampPixel(line[1], u, line[3] - line[1], rect[1], rect[3]),
    ClampPixel(line[2], u, line[4] - line[2], rect[2], rect[4])>>

LEMMA ClippedLine ==
  ASSUME NEW line, IsLine(line), NEW rect, IsLine(rect)
  PROVE  LET t == ClippedSpan(line, rect)
             p == ClippedEnd(line, rect, t.t0)
             q == ClippedEnd(line, rect, t.t1)
         IN  /\ t \in Spans /\ p \in Int \X Int /\ q \in Int \X Int
             /\ ClipLineToPixelRect(line, rect) = IF t.in THEN <<p[1], p[2], q[1], q[2]>> ELSE <<>>
<1> DEFINE t == ClippedSpan(line, rect)
           p == ClippedEnd(line, rect, t.t0)
           q == ClippedEnd(line, rect, t.t1)
<1>1. /\ line[1] \in Int /\ line[2] \in Int /\ line[3] \in Int /\ line[4] \in Int
      /\ rect[1] \in Int /\ rect[2] \in Int /\ rect[3] \in Int /\ rect[4] \in Int
  BY DEF IsLine
<1> DEFINE dx == line[3] - line[1]
           dy == line[4] - line[2]
           all == [t0 |-> Fraction(0, 1), t1 |-> Fraction(1, 1), in |-> TRUE]
           A == ClipT(-dx, line[1] - rect[1], all)
           B == ClipT(dx, rect[3] - line[1], A)
           C == ClipT(-dy, line[2] - rect[2], B)
           D == ClipT(dy, rect[4] - line[2], C)
<1>2. all \in Spans
  BY DEF Spans, Fractions, Fraction
<1>3. dx \in Int /\ -dx \in Int /\ dy \in Int /\ -dy \in Int
      /\ line[1] - rect[1] \in Int /\ rect[3] - line[1] \in Int
      /\ line[2] - rect[2] \in Int /\ rect[4] - line[2] \in Int
  BY <1>1
<1>4. t = D
  BY DEF ClippedSpan
<1> HIDE DEF t, dx, dy, all
<1>5. A \in Spans
  BY <1>2, <1>3, ClipStays
<1> HIDE DEF A
<1>6. B \in Spans
  BY <1>3, <1>5, ClipStays
<1> HIDE DEF B
<1>7. C \in Spans
  BY <1>3, <1>6, ClipStays
<1> HIDE DEF C
<1>8. D \in Spans
  BY <1>3, <1>7, ClipStays
<1> HIDE DEF D
<1>9. t \in Spans /\ t.t0 \in Fractions /\ t.t1 \in Fractions
  BY <1>4, <1>8 DEF Spans
<1>10. \A u \in Fractions : ClippedEnd(line, rect, u) \in Int \X Int
  BY <1>1, <1>3, PixelIsWhole DEF ClippedEnd, dx, dy
<1>11. p \in Int \X Int /\ q \in Int \X Int
  BY <1>9, <1>10
<1>12. ClipLineToPixelRect(line, rect) = IF t.in THEN p \o q ELSE <<>>
  BY DEF ClipLineToPixelRect, ClippedSpan, ClippedEnd, t
<1> HIDE DEF p, q
<1>13. p \o q = <<p[1], p[2], q[1], q[2]>>
  BY <1>11, TwoPixels
<1>14. ClipLineToPixelRect(line, rect) = IF t.in THEN <<p[1], p[2], q[1], q[2]>> ELSE <<>>
  BY <1>12, <1>13
<1> QED
  BY <1>9, <1>11, <1>14 DEF p, q, t

\* f is the k-th of N steps along a line.
Stands(f, k, N) ==
  \/ k = 0 /\ f = [n |-> 0, d |-> 1]
  \/ k = N /\ f = [n |-> 1, d |-> 1]
  \/ N > 0 /\ f = [n |-> k, d |-> N]

LEMMA LessStands ==
  ASSUME NEW N \in Nat \ {0}, NEW k \in Int, NEW l \in Int, NEW f, Stands(f, k, N), NEW g, Stands(g, l, N)
  PROVE  Less(f, g) <=> k < l
<1>1. k * N < l * N <=> k < l
  <2>1. k < l => k * N < l * N
    <3>1. (l - k) * N = l * N - k * N
      OBVIOUS
    <3>2. k < l => (l - k) * N > 0
      OBVIOUS
    <3> QED
      BY <3>1, <3>2
  <2>2. l <= k => l * N <= k * N
    <3>1. (k - l) * N = k * N - l * N
      OBVIOUS
    <3>2. l <= k => (k - l) * N >= 0
      OBVIOUS
    <3> QED
      BY <3>1, <3>2
  <2> QED
    BY <2>1, <2>2
<1>2. CASE f = [n |-> k, d |-> N]
  BY <1>1, <1>2 DEF Stands, Less
<1>3. CASE f # [n |-> k, d |-> N]
  BY <1>3 DEF Stands, Less
<1> QED
  BY <1>2, <1>3

\* One edge takes off the points beyond it.
Cut(t, N, S) ==
  /\ t \in Spans
  /\ ~t.in => S = {}
  /\ t.in => \E a, b \in 0..N : a <= b /\ Stands(t.t0, a, N) /\ Stands(t.t1, b, N) /\ S = a..b

LEMMA EdgeCuts ==
  ASSUME NEW N \in Nat, NEW e \in {-1, 0, 1}, NEW p, p = e * N, NEW q \in Int, NEW t, NEW S, Cut(t, N, S)
  PROVE  Cut(ClipT(p, q, t), N, {k \in S : e * k <= q})
<1> DEFINE K == {k \in S : e * k <= q}
           c == ClipT(p, q, t)
           r == Fraction(q, p)
<1>1. t \in Spans /\ t.in \in BOOLEAN /\ p \in Int
  BY DEF Cut, Spans
<1>2. c \in Spans
  BY <1>1, ClipStays
<1>3. Outside(t) \in Spans => Cut(Outside(t), N, {})
  BY <1>1 DEF Cut, Outside, Spans
<1>4. CASE ~t.in
  <2>1. c = t /\ S = {} /\ K = {}
    BY <1>4 DEF ClipT, Cut
  <2> QED
    BY <1>1, <1>4, <2>1 DEF Cut
<1>5. CASE t.in
  <2>1. PICK a, b \in 0..N : a <= b /\ Stands(t.t0, a, N) /\ Stands(t.t1, b, N) /\ S = a..b
    BY <1>5 DEF Cut
  <2>2. CASE p = 0
    <3>1. \A k \in S : e * k = 0
      BY <2>1, <2>2
    <3>2. CASE q >= 0
      <4>1. c = t /\ K = S
        BY <1>5, <2>1, <2>2, <3>1, <3>2 DEF ClipT
      <4> QED
        BY <4>1
    <3>3. CASE ~(q >= 0)
      <4>1. c = Outside(t) /\ K = {}
        BY <1>5, <2>2, <3>1, <3>3 DEF ClipT
      <4> QED
        BY <1>2, <1>3, <4>1
    <3> QED
      BY <3>2, <3>3
  <2>3. CASE p < 0
    <3>1. e = -1 /\ N \in Nat \ {0}
      BY <2>3
    <3>2. r = [n |-> -q, d |-> N]
      BY <2>3, <3>1 DEF Fraction
    <3>3. Stands(r, -q, N) /\ -q \in Int
      BY <3>1, <3>2 DEF Stands
    <3>4. c = Enters(r, t)
      BY <1>5, <2>3 DEF ClipT
    <3> HIDE DEF r, c
    <3>5. (Less(t.t1, r) <=> b < -q) /\ (Less(t.t0, r) <=> a < -q)
      BY <2>1, <3>1, <3>3, LessStands
    <3>6. CASE b < -q
      <4>1. c = Outside(t)
        BY <3>4, <3>5, <3>6 DEF Enters
      <4>2. K = {}
        BY <2>1, <3>1, <3>6
      <4> QED
        BY <1>2, <1>3, <4>1, <4>2 DEF c
    <3>7. CASE ~(b < -q) /\ a < -q
      <4>1. c = [t EXCEPT !.t0 = r]
        BY <3>4, <3>5, <3>7 DEF Enters
      <4>2. c.in /\ c.t0 = r /\ c.t1 = t.t1
        BY <1>1, <1>5, <4>1 DEF Spans
      <4>3. K = (-q)..b /\ -q \in 0..N /\ -q <= b
        BY <2>1, <3>1, <3>7
      <4> HIDE DEF K
      <4> QED
        BY <1>2, <2>1, <3>3, <4>2, <4>3 DEF Cut, c, K
    <3>8. CASE ~(b < -q) /\ ~(a < -q)
      <4>1. c = t
        BY <3>4, <3>5, <3>8 DEF Enters
      <4>2. K = S
        BY <2>1, <3>1, <3>8
      <4> QED
        BY <4>1, <4>2 DEF c
    <3> QED
      BY <3>6, <3>7, <3>8
  <2>4. CASE p > 0
    <3>1. e = 1 /\ N \in Nat \ {0}
      BY <2>4
    <3>2. r = [n |-> q, d |-> N]
      BY <2>4, <3>1 DEF Fraction
    <3>3. Stands(r, q, N)
      BY <3>1, <3>2 DEF Stands
    <3>4. c = Leaves(r, t)
      BY <1>5, <2>4 DEF ClipT
    <3>5. (Less(r, t.t0) <=> q < a) /\ (Less(r, t.t1) <=> q < b)
      BY <2>1, <3>1, <3>3, LessStands
    <3> HIDE DEF r, c
    <3>6. CASE q < a
      <4>1. c = Outside(t)
        BY <3>4, <3>5, <3>6 DEF Leaves
      <4>2. K = {}
        BY <2>1, <3>1, <3>6
      <4> QED
        BY <1>2, <1>3, <4>1, <4>2 DEF c
    <3>7. CASE ~(q < a) /\ q < b
      <4>1. c = [t EXCEPT !.t1 = r]
        BY <3>4, <3>5, <3>7 DEF Leaves
      <4>2. c.in /\ c.t1 = r /\ c.t0 = t.t0
        BY <1>1, <1>5, <4>1 DEF Spans
      <4>3. K = a..q /\ q \in 0..N /\ a <= q
        BY <2>1, <3>1, <3>7
      <4> HIDE DEF K
      <4> QED
        BY <1>2, <2>1, <3>3, <4>2, <4>3 DEF Cut, c, K
    <3>8. CASE ~(q < a) /\ ~(q < b)
      <4>1. c = t
        BY <3>4, <3>5, <3>8 DEF Leaves
      <4>2. K = S
        BY <2>1, <3>1, <3>8
      <4> QED
        BY <4>1, <4>2 DEF c
    <3> QED
      BY <3>6, <3>7, <3>8
  <2> QED
    BY <1>1, <2>2, <2>3, <2>4
<1> QED
  BY <1>1, <1>4, <1>5 DEF K, c

\* Where a step ends no rounding is needed.
LEMMA HalfUp ==
  ASSUME NEW m \in Int, NEW n \in Nat \ {0}
  PROVE  (2 * (m * n) + n) \div (2 * n) = m
<1> DEFINE w == 2 * n
           t == 2 * (m * n) + n
           k == t \div w
           j == t % w
<1>1. w \in Nat \ {0} /\ t \in Int /\ m * n \in Int
  OBVIOUS
<1>2. j \in 0..w - 1 /\ k \in Int /\ t = w * k + j
  <2> HIDE DEF w, t
  <2> QED
    BY <1>1, QuotientAndRest
<1> HIDE DEF k, j
<1>3. w * k - w * m = n - j
  <2>1. w * m = 2 * (m * n)
    OBVIOUS
  <2> QED
    BY <1>1, <1>2, <2>1
<1>4. w * (k - m) = n - j
  BY <1>2, <1>3
<1> DEFINE x == k - m
<1>5. x \in Int /\ w * x = n - j /\ -w < n - j /\ n - j < w
  BY <1>2, <1>4
<1> HIDE DEF x, w
<1>6. x >= 1 => w * x >= w
  BY <1>1, <1>5
<1>7. x <= -1 => w * x <= -w
  BY <1>1, <1>5
<1>8. x = 0
  BY <1>1, <1>5, <1>6, <1>7, <1>2
<1>9. k = m
  BY <1>2, <1>8 DEF x
<1> QED
  BY <1>9 DEF k, t, w

LEMMA PixelAt ==
  ASSUME NEW N \in Nat, NEW k \in 0..N, NEW f, Stands(f, k, N), NEW a \in Int, NEW u \in {-1, 0, 1},
         NEW d, d = u * N, NEW lo \in Int, NEW hi \in Int, lo <= a + u * k, a + u * k <= hi
  PROVE  ClampPixel(a, f, d, lo, hi) = a + u * k
<1> DEFINE m == a + u * k
<1>1. m \in Int
  OBVIOUS
<1>2. f.d \in Nat \ {0} /\ a * f.d + f.n * d = m * f.d
  <2>1. CASE k = 0 /\ f = [n |-> 0, d |-> 1]
    BY <2>1
  <2>2. CASE k = N /\ f = [n |-> 1, d |-> 1]
    BY <2>2
  <2>3. CASE N > 0 /\ f = [n |-> k, d |-> N]
    <3>1. a * N + k * (u * N) = (a + u * k) * N
      OBVIOUS
    <3> QED
      BY <2>3, <3>1
  <2> QED
    BY <2>1, <2>2, <2>3 DEF Stands
<1>3. (2 * (m * f.d) + f.d) \div (2 * f.d) = m
  <2> HIDE DEF m
  <2> QED
    BY <1>1, <1>2, HalfUp
<1>4. (2 * (a * f.d + f.n * d) + f.d) \div (2 * f.d) = m
  BY <1>2, <1>3
<1> HIDE DEF m
<1>5. lo <= m /\ m <= hi
  BY DEF m
<1>6. ClampPixel(a, f, d, lo, hi) = m
  BY <1>1, <1>4, <1>5 DEF ClampPixel
<1> QED
  BY <1>6 DEF m

\* A straight line's points lie in one direction, all the same way apart.
Goes(line, u, v) ==
  /\ line[3] - line[1] = u * Longer(line) /\ line[4] - line[2] = v * Longer(line)
  /\ Longer(line) = 0 \/ u # 0 \/ v # 0
  /\ \A k \in 0..Longer(line) : On(line, k) = <<line[1] + u * k, line[2] + v * k>>

LEMMA StraightGoes ==
  ASSUME NEW line, IsLine(line), Straight(line)
  PROVE  \E u, v \in {-1, 0, 1} : Goes(line, u, v)
<1> DEFINE D == FarX(line)
           E == FarY(line)
           N == Longer(line)
           u == IF D = 0 THEN 0 ELSE SideX(line)
           v == IF E = 0 THEN 0 ELSE SideY(line)
<1>1. /\ line[1] \in Int /\ line[2] \in Int /\ line[3] \in Int /\ line[4] \in Int
      /\ D \in Nat /\ E \in Nat
      /\ SideX(line) \in {-1, 1} /\ SideY(line) \in {-1, 1}
      /\ line[3] = Ahead(line[1], SideX(line), D)
      /\ line[4] = Ahead(line[2], SideY(line), E)
  BY Distances
<1>2. N = (IF D >= E THEN D ELSE E) /\ N \in Nat
  BY <1>1 DEF Longer
<1>3. D = 0 \/ E = 0 \/ D = E
  BY DEF Straight
<1> HIDE DEF D, E, N
<1>4. u \in {-1, 0, 1} /\ v \in {-1, 0, 1}
  BY <1>1
<1>5. (D = 0 \/ D = N) /\ (E = 0 \/ E = N) /\ (N = 0 \/ D # 0 \/ E # 0)
  BY <1>1, <1>2, <1>3
<1>6. line[3] - line[1] = u * N
  BY <1>1, <1>2, <1>5 DEF Ahead
<1>7. line[4] - line[2] = v * N
  BY <1>1, <1>2, <1>5 DEF Ahead
<1>8. N = 0 \/ u # 0 \/ v # 0
  BY <1>1, <1>5
<1>9. ASSUME NEW k \in 0..N PROVE On(line, k) = <<line[1] + u * k, line[2] + v * k>>
  <2>1. (IF D = 0 THEN line[1] ELSE Ahead(line[1], SideX(line), k)) = line[1] + u * k
    BY <1>1, <1>2 DEF Ahead
  <2>2. (IF E = 0 THEN line[2] ELSE Ahead(line[2], SideY(line), k)) = line[2] + v * k
    BY <1>1, <1>2 DEF Ahead
  <2> QED
    BY <2>1, <2>2 DEF On, D, E
<1> HIDE DEF u, v
<1>10. Goes(line, u, v)
  BY <1>6, <1>7, <1>8, <1>9 DEF Goes, N
<1> QED
  BY <1>4, <1>10

\* The clip keeps the points inside the rectangle.
Within(rect, p) == rect[1] <= p[1] /\ p[1] <= rect[3] /\ rect[2] <= p[2] /\ p[2] <= rect[4]
Left(line, rect) == {k \in 0..Longer(line) : Within(rect, On(line, k))}

LEMMA ClippedStraight ==
  ASSUME NEW line, IsLine(line), Straight(line), NEW rect, IsLine(rect)
  PROVE  Cut(ClippedSpan(line, rect), Longer(line), Left(line, rect))
<1> DEFINE N == Longer(line)
           x == line[1]
           y == line[2]
           dx == line[3] - line[1]
           dy == line[4] - line[2]
           all == [t0 |-> Fraction(0, 1), t1 |-> Fraction(1, 1), in |-> TRUE]
           A == ClipT(-dx, line[1] - rect[1], all)
           B == ClipT(dx, rect[3] - line[1], A)
           C == ClipT(-dy, line[2] - rect[2], B)
           D == ClipT(dy, rect[4] - line[2], C)
<1>1. /\ x \in Int /\ y \in Int /\ dx \in Int /\ dy \in Int
      /\ rect[1] \in Int /\ rect[2] \in Int /\ rect[3] \in Int /\ rect[4] \in Int
  BY DEF IsLine
<1>2. N \in Nat
  BY Distances DEF Longer
<1>3. PICK u, v \in {-1, 0, 1} : Goes(line, u, v)
  BY StraightGoes
<1>4. dx = u * N /\ dy = v * N /\ \A k \in 0..N : On(line, k) = <<x + u * k, y + v * k>>
  BY <1>3 DEF Goes
<1>5. ClippedSpan(line, rect) = D
  BY DEF ClippedSpan
<1>6. Left(line, rect) = {k \in 0..N : Within(rect, On(line, k))}
  BY DEF Left
<1>7. /\ line[1] - rect[1] \in Int /\ rect[3] - line[1] \in Int
      /\ line[2] - rect[2] \in Int /\ rect[4] - line[2] \in Int
      /\ line[1] = x /\ line[2] = y
  BY <1>1
<1> HIDE DEF N, x, y, dx, dy
<1>8. Cut(all, N, 0..N)
  <2>1. all = [t0 |-> [n |-> 0, d |-> 1], t1 |-> [n |-> 1, d |-> 1], in |-> TRUE]
    BY DEF Fraction
  <2> HIDE DEF all
  <2>2. all \in Spans /\ all.in /\ Stands(all.t0, 0, N) /\ Stands(all.t1, N, N)
    BY <2>1 DEF Spans, Fractions, Stands
  <2>3. 0 \in 0..N /\ N \in 0..N /\ 0 <= N
    BY <1>2
  <2> QED
    BY <2>2, <2>3 DEF Cut
<1> HIDE DEF all
<1>9. -u \in {-1, 0, 1} /\ -v \in {-1, 0, 1} /\ -dx = (-u) * N /\ -dy = (-v) * N
  BY <1>2, <1>4
<1> DEFINE S1 == {k \in 0..N : (-u) * k <= line[1] - rect[1]}
           S2 == {k \in S1 : u * k <= rect[3] - line[1]}
           S3 == {k \in S2 : (-v) * k <= line[2] - rect[2]}
           S4 == {k \in S3 : v * k <= rect[4] - line[2]}
<1>10. Cut(A, N, S1)
  BY <1>2, <1>7, <1>8, <1>9, EdgeCuts, SMTT(30)
<1> HIDE DEF A
<1>11. Cut(B, N, S2)
  <2> HIDE DEF S1
  <2> QED
    BY <1>2, <1>4, <1>7, <1>10, EdgeCuts
<1> HIDE DEF B
<1>12. Cut(C, N, S3)
  <2> HIDE DEF S2
  <2> QED
    BY <1>2, <1>7, <1>9, <1>11, EdgeCuts
<1> HIDE DEF C
<1>13. Cut(D, N, S4)
  <2> HIDE DEF S3
  <2> QED
    BY <1>2, <1>4, <1>7, <1>12, EdgeCuts
<1> HIDE DEF D
<1>14. \A k \in 0..N : Within(rect, On(line, k))
         <=> /\ (-u) * k <= line[1] - rect[1] /\ u * k <= rect[3] - line[1]
             /\ (-v) * k <= line[2] - rect[2] /\ v * k <= rect[4] - line[2]
  <2> SUFFICES ASSUME NEW k \in 0..N
               PROVE  Within(rect, On(line, k))
                        <=> /\ (-u) * k <= line[1] - rect[1] /\ u * k <= rect[3] - line[1]
                            /\ (-v) * k <= line[2] - rect[2] /\ v * k <= rect[4] - line[2]
    OBVIOUS
  <2>1. On(line, k)[1] = x + u * k /\ On(line, k)[2] = y + v * k
    BY <1>4
  <2>2. u * k \in Int /\ v * k \in Int /\ (-u) * k = -(u * k) /\ (-v) * k = -(v * k)
    BY <1>2
  <2> QED
    BY <1>1, <1>7, <2>1, <2>2 DEF Within
<1>15. S4 = {k \in 0..N : Within(rect, On(line, k))}
  BY <1>14
<1> HIDE DEF S4
<1> QED
  BY <1>5, <1>6, <1>13, <1>15 DEF N

\* And its ends are the first and the last point kept.
LEMMA ClippedEnds ==
  ASSUME NEW line, IsLine(line), NEW rect, IsLine(rect), NEW u \in {-1, 0, 1}, NEW v \in {-1, 0, 1},
         Goes(line, u, v), NEW k \in Left(line, rect), NEW f, Stands(f, k, Longer(line))
  PROVE  ClippedEnd(line, rect, f) = On(line, k)
<1> DEFINE N == Longer(line)
           x == line[1]
           y == line[2]
           dx == line[3] - line[1]
           dy == line[4] - line[2]
<1>1. /\ x \in Int /\ y \in Int
      /\ rect[1] \in Int /\ rect[2] \in Int /\ rect[3] \in Int /\ rect[4] \in Int
  BY DEF IsLine
<1>2. N \in Nat
  BY Distances DEF Longer
<1>3. dx = u * N /\ dy = v * N /\ k \in 0..N /\ On(line, k) = <<x + u * k, y + v * k>>
  BY DEF Goes, Left
<1>4. /\ rect[1] <= x + u * k /\ x + u * k <= rect[3]
      /\ rect[2] <= y + v * k /\ y + v * k <= rect[4]
  <2>1. Within(rect, On(line, k))
    BY DEF Left
  <2>2. On(line, k)[1] = x + u * k /\ On(line, k)[2] = y + v * k
    BY <1>3
  <2> QED
    BY <2>1, <2>2 DEF Within
<1>5. ClippedEnd(line, rect, f) = <<ClampPixel(x, f, dx, rect[1], rect[3]), ClampPixel(y, f, dy, rect[2], rect[4])>>
  BY DEF ClippedEnd
<1>6. Stands(f, k, N)
  OBVIOUS
<1> HIDE DEF N, x, y, dx, dy
<1>7. ClampPixel(x, f, dx, rect[1], rect[3]) = x + u * k
  <2> DEFINE lo == rect[1]
             hi == rect[3]
  <2>1. N \in Nat /\ k \in 0..N /\ Stands(f, k, N) /\ x \in Int /\ u \in {-1, 0, 1}
    BY <1>1, <1>2, <1>3, <1>6
  <2>2. dx = u * N /\ lo \in Int /\ hi \in Int /\ lo <= x + u * k /\ x + u * k <= hi
    BY <1>1, <1>3, <1>4
  <2> HIDE DEF lo, hi
  <2>3. ClampPixel(x, f, dx, lo, hi) = x + u * k
    BY ONLY <2>1, <2>2, PixelAt
  <2> QED
    BY <2>3 DEF lo, hi
<1>8. ClampPixel(y, f, dy, rect[2], rect[4]) = y + v * k
  <2> DEFINE lo == rect[2]
             hi == rect[4]
  <2>1. N \in Nat /\ k \in 0..N /\ Stands(f, k, N) /\ y \in Int /\ v \in {-1, 0, 1}
    BY <1>1, <1>2, <1>3, <1>6
  <2>2. dy = v * N /\ lo \in Int /\ hi \in Int /\ lo <= y + v * k /\ y + v * k <= hi
    BY <1>1, <1>3, <1>4
  <2> HIDE DEF lo, hi
  <2>3. ClampPixel(y, f, dy, lo, hi) = y + v * k
    BY ONLY <2>1, <2>2, PixelAt
  <2> QED
    BY <2>3 DEF lo, hi
<1> QED
  BY <1>3, <1>5, <1>7, <1>8

Points(line) == {Centreline(line)[i] : i \in DOMAIN Centreline(line)}

LEMMA StraightPoints ==
  ASSUME NEW line, IsLine(line), Straight(line)
  PROVE  Points(line) = {On(line, k) : k \in 0..Longer(line)}
<1> DEFINE L == Longer(line)
<1>1. L \in Nat
  BY Distances DEF Longer
<1>2. Centreline(line) = [i \in 1..L + 1 |-> On(line, i - 1)]
  BY StraightCentreline
<1> HIDE DEF L
<1>3. Points(line) = {On(line, i - 1) : i \in 1..L + 1}
  BY <1>2 DEF Points
<1>4. \A k \in 0..L : k + 1 \in 1..L + 1 /\ (k + 1) - 1 = k
  BY <1>1
<1>5. \A i \in 1..L + 1 : i - 1 \in 0..L
  BY <1>1
<1>6. {On(line, i - 1) : i \in 1..L + 1} = {On(line, k) : k \in 0..L}
  BY <1>4, <1>5
<1> QED
  BY <1>3, <1>6 DEF L

\* A part of a straight line is straight, and its centreline is that part.
LEMMA PartOfStraight ==
  ASSUME NEW line, IsLine(line), Straight(line), NEW a \in 0..Longer(line), NEW b \in a..Longer(line), NEW part,
         part = <<On(line, a)[1], On(line, a)[2], On(line, b)[1], On(line, b)[2]>>
  PROVE  IsLine(part) /\ Points(part) = {On(line, k) : k \in a..b}
<1> DEFINE N == Longer(line)
           x == line[1]
           y == line[2]
           D == FarX(part)
           E == FarY(part)
           M == Longer(part)
<1>1. x \in Int /\ y \in Int
  BY DEF IsLine
<1>2. N \in Nat
  BY Distances DEF Longer
<1>3. PICK u, v \in {-1, 0, 1} : Goes(line, u, v)
  BY StraightGoes
<1>4. (N = 0 \/ u # 0 \/ v # 0) /\ \A k \in 0..N : On(line, k) = <<x + u * k, y + v * k>>
  BY <1>3 DEF Goes
<1>5. a \in 0..N /\ b \in 0..N /\ a <= b
  BY <1>2
<1> HIDE DEF N, x, y
<1>6. part = <<x + u * a, y + v * a, x + u * b, y + v * b>>
  BY <1>4, <1>5
<1>7. /\ part[1] = x + u * a /\ part[2] = y + v * a /\ part[3] = x + u * b /\ part[4] = y + v * b
      /\ part[1] \in Int /\ part[2] \in Int /\ part[3] \in Int /\ part[4] \in Int
  BY <1>1, <1>2, <1>5, <1>6
<1>8. IsLine(part)
  <2> SUFFICES ASSUME NEW i \in 1..4 PROVE part[i] \in Int
    BY DEF IsLine
  <2>1. i = 1 \/ i = 2 \/ i = 3 \/ i = 4
    OBVIOUS
  <2> QED
    BY <1>7, <2>1
<1>9. D = (IF u = 0 THEN 0 ELSE b - a) /\ E = (IF v = 0 THEN 0 ELSE b - a)
  <2>1. D = Abs(part[3] - part[1]) /\ E = Abs(part[4] - part[2])
    BY DEF FarX, FarY
  <2>2. part[3] - part[1] = u * (b - a) /\ part[4] - part[2] = v * (b - a)
    BY <1>1, <1>2, <1>5, <1>7
  <2> QED
    BY <1>2, <1>5, <2>1, <2>2 DEF Abs
<1>10. Straight(part)
  BY <1>2, <1>5, <1>9 DEF Straight
<1>11. M = b - a
  <2>1. M = IF D >= E THEN D ELSE E
    BY DEF Longer
  <2> HIDE DEF M, D, E
  <2> QED
    BY <1>2, <1>4, <1>5, <1>9, <2>1
<1>12. ASSUME NEW k \in 0..b - a PROVE On(part, k) = On(line, a + k)
  <2>1. a + k \in 0..N /\ k \in Nat
    BY <1>2, <1>5
  <2>2. On(line, a + k) = <<x + u * (a + k), y + v * (a + k)>>
    BY <1>4, <2>1
  <2>3. On(part, k) = <<IF D = 0 THEN part[1] ELSE Ahead(part[1], SideX(part), k),
                        IF E = 0 THEN part[2] ELSE Ahead(part[2], SideY(part), k)>>
    BY DEF On
  <2>4. SideX(part) = (IF part[1] < part[3] THEN 1 ELSE -1) /\ SideY(part) = (IF part[2] < part[4] THEN 1 ELSE -1)
    BY DEF SideX, SideY
  <2> HIDE DEF D, E
  <2>5. (IF D = 0 THEN part[1] ELSE Ahead(part[1], SideX(part), k)) = x + u * (a + k)
    BY <1>1, <1>2, <1>5, <1>7, <1>9, <2>1, <2>4 DEF Ahead
  <2>6. (IF E = 0 THEN part[2] ELSE Ahead(part[2], SideY(part), k)) = y + v * (a + k)
    BY <1>1, <1>2, <1>5, <1>7, <1>9, <2>1, <2>4 DEF Ahead
  <2> QED
    BY <2>2, <2>3, <2>5, <2>6
<1>13. Points(part) = {On(part, k) : k \in 0..b - a}
  <2>1. Points(part) = {On(part, k) : k \in 0..M}
    BY <1>8, <1>10, StraightPoints
  <2> QED
    BY <1>11, <2>1
<1>14. {On(part, k) : k \in 0..b - a} = {On(line, k) : k \in a..b}
  <2>1. \A k \in a..b : k - a \in 0..b - a /\ a + (k - a) = k
    BY <1>2, <1>5
  <2>2. \A k \in 0..b - a : a + k \in a..b
    BY <1>2, <1>5
  <2> QED
    BY <1>12, <2>1, <2>2
<1> QED
  BY <1>8, <1>13, <1>14

LEMMA WidthsAreSmall ==
  ASSUME NEW tenths \in Int
  PROVE  RasterStrokeWidthPx(tenths) \in Nat
<1> DEFINE w == (tenths + 5) \div 10
<1>1. w \in Int
  OBVIOUS
<1>2. RasterStrokeWidthPx(tenths) = IF tenths <= 0 THEN 0 ELSE IF tenths <= 10 THEN 1
                                    ELSE IF w < 2 THEN 2 ELSE IF w > 64 THEN 64 ELSE w
  BY DEF RasterStrokeWidthPx, MaxRasterStroke
<1> HIDE DEF w
<1> QED
  BY <1>1, <1>2

\* The runs of a line paint what its points' brushes do, none with no width.
LEMMA LineIsBrushed ==
  ASSUME NEW line, IsLine(line), NEW w \in Nat
  PROVE  /\ UNION {RunRect(Runs(Centreline(line))[i], w) : i \in DOMAIN Runs(Centreline(line))}
              = UNION {Brush(p, w) : p \in Points(line)}
         /\ UNION {Brush(Centreline(line)[i], w) : i \in DOMAIN Centreline(line)}
              = UNION {Brush(p, w) : p \in Points(line)}
         /\ w = 0 => UNION {Brush(p, w) : p \in Points(line)} = {}
<1> DEFINE c == Centreline(line)
<1>1. PICK m \in Nat : /\ c \in [1..m + 1 -> Int \X Int]
                       /\ \A i \in 1..m : Beside(c[i], c[i + 1], SideX(line), SideY(line))
  BY CentrelineSteps
<1>2. SideX(line) \in {-1, 1} /\ SideY(line) \in {-1, 1}
  BY Distances
<1>3. Points(line) = {c[i] : i \in DOMAIN c}
  BY DEF Points
<1> HIDE DEF c
<1>4. Swept(Runs(c), w) = Brushed(c, w)
  <2> DEFINE sx == SideX(line)
             sy == SideY(line)
  <2>1. m \in Nat /\ w \in Nat /\ sx \in {-1, 1} /\ sy \in {-1, 1}
    BY <1>2
  <2>2. c \in [1..m + 1 -> Int \X Int] /\ \A i \in 1..m : Beside(c[i], c[i + 1], sx, sy)
    BY <1>1
  <2> HIDE DEF sx, sy
  <2> QED
    BY ONLY <2>1, <2>2, RunsCover
<1>5. UNION {Brush(c[i], w) : i \in DOMAIN c} = UNION {Brush(p, w) : p \in Points(line)}
  BY <1>3
<1>6. ASSUME w = 0 PROVE UNION {Brush(p, w) : p \in Points(line)} = {}
  <2>1. \A p \in Points(line) : p \in Int \X Int
    BY <1>1, <1>3
  <2>2. ASSUME NEW p \in Int \X Int PROVE Brush(p, w) = {}
    <3> DEFINE run == <<p[1], p[2], p[1], p[2]>>
    <3>1. p \o p = run /\ p[1] \in Int
      BY Twice
    <3>2. Brush(p, w) = RunRect(run, w)
      BY <3>1 DEF Brush
    <3>3. run[1] = p[1] /\ run[3] = p[1]
      OBVIOUS
    <3> HIDE DEF run
    <3> DEFINE left == (IF run[1] < run[3] THEN run[1] ELSE run[3]) - w \div 2
    <3>4. left \in Int /\ left + Abs(run[3] - run[1]) + w - 1 < left
      BY <1>6, <3>1, <3>3 DEF Abs
    <3>5. left..left + Abs(run[3] - run[1]) + w - 1 = {}
      <4> HIDE DEF left
      <4> QED
        BY <3>1, <3>3, <3>4, <1>6 DEF Abs
    <3> QED
      BY <3>2, <3>5 DEF RunRect
  <2> QED
    BY <2>1, <2>2
<1> QED
  BY <1>4, <1>5, <1>6 DEF Swept, Brushed, c

\* A brush that misses the widened screen misses the screen.
ScreenOf(width, height) == (0..width - 1) \X (0..height - 1)

LEMMA BrushMisses ==
  ASSUME NEW p \in Int \X Int, NEW w \in Nat, NEW width \in Int, NEW height \in Int, NEW r, r = w \div 2,
         ~Within(<<-r, -r, width - 1 + r, height - 1 + r>>, p)
  PROVE  Brush(p, w) \cap ScreenOf(width, height) = {}
<1> DEFINE run == <<p[1], p[2], p[1], p[2]>>
<1>1. p \o p = run /\ p[1] \in Int /\ p[2] \in Int /\ run \in RunEnds
  BY Twice
<1>2. Brush(p, w) = RunRect(run, w)
  BY <1>1 DEF Brush
<1>3. run[1] = p[1] /\ run[2] = p[2] /\ run[3] = p[1] /\ run[4] = p[2]
  OBVIOUS
<1>4. r \in Int /\ w <= 2 * r + 1 /\ r >= 0
  OBVIOUS
<1>5. p[1] < -r \/ p[1] > width - 1 + r \/ p[2] < -r \/ p[2] > height - 1 + r
  BY <1>1, <1>4 DEF Within
<1> HIDE DEF run
<1> DEFINE x == p[1]
           y == p[2]
<1>6. Brush(p, w) = (x - r..x - r + w - 1) \X (y - r..y - r + w - 1)
  <2>1. (IF run[1] < run[3] THEN run[1] ELSE run[3]) - w \div 2 = x - r
    BY <1>3
  <2>2. (IF run[2] < run[4] THEN run[2] ELSE run[4]) - w \div 2 = y - r
    BY <1>3
  <2>3. x - r + Abs(run[3] - run[1]) + w - 1 = x - r + w - 1
        /\ y - r + Abs(run[4] - run[2]) + w - 1 = y - r + w - 1
    BY <1>1, <1>3, <1>4, SMTT(30) DEF Abs
  <2> QED
    BY <1>2, <2>1, <2>2, <2>3 DEF RunRect
<1>7. x \in Int /\ y \in Int
  BY <1>1
<1>8. x < -r \/ x > width - 1 + r \/ y < -r \/ y > height - 1 + r
  BY <1>5
<1> HIDE DEF x, y
<1>9. ASSUME NEW i \in x - r..x - r + w - 1, NEW j \in y - r..y - r + w - 1
      PROVE  ~(i \in 0..width - 1 /\ j \in 0..height - 1)
  BY <1>4, <1>7, <1>8
<1> QED
  BY <1>6, <1>9 DEF ScreenOf

\* The runs paint the brush, and where the line is straight the clipping
\* loses no pixel of the screen, for lines, widths and screens of any size.
THEOREM StrokesPaintTheBrush ==
  ASSUME NEW line, IsLine(line), NEW tenths \in Int, NEW width \in Nat \ {0}, NEW height \in Nat \ {0}
  PROVE  RunsPaintTheBrush(line, tenths, width, height)
<1> DEFINE w == RasterStrokeWidthPx(tenths)
           r == w \div 2
           rect == <<-r, -r, width - 1 + r, height - 1 + r>>
           clipped == ClipLineToPixelRect(line, rect)
           painted == RasterizeCenteredStroke(line, tenths, width, height)
           straight == line[1] = line[3] \/ line[2] = line[4]
                       \/ Abs(line[1] - line[3]) = Abs(line[2] - line[4])
           screen == ScreenOf(width, height)
           brushed(l) == UNION {Brush(Centreline(l)[i], w) : i \in DOMAIN Centreline(l)}
           spread(l) == UNION {Brush(p, w) : p \in Points(l)}
           runs(l) == UNION {RunRect(Runs(Centreline(l))[i], w) : i \in DOMAIN Runs(Centreline(l))}
<1>1. w \in Nat
  BY WidthsAreSmall
<1>2. painted = IF w = 0 \/ clipped = <<>> THEN {} ELSE runs(clipped)
  <2>1. painted = IF w = 0 \/ width <= 0 \/ height <= 0 \/ clipped = <<>> THEN {} ELSE runs(clipped)
    BY DEF RasterizeCenteredStroke
  <2>2. ~(width <= 0) /\ ~(height <= 0)
    OBVIOUS
  <2> HIDE DEF painted, clipped, runs, w
  <2> QED
    BY <2>1, <2>2
<1>3. RunsPaintTheBrush(line, tenths, width, height)
        <=> /\ clipped # <<>> => painted = brushed(clipped)
            /\ w > 0 /\ straight => painted \cap screen = brushed(line) \cap screen
  BY DEF RunsPaintTheBrush, ScreenOf
<1>4. \A l : IsLine(l) => runs(l) = spread(l) /\ brushed(l) = spread(l) /\ (w = 0 => spread(l) = {})
  <2> SUFFICES ASSUME NEW l, IsLine(l)
               PROVE  runs(l) = spread(l) /\ brushed(l) = spread(l) /\ (w = 0 => spread(l) = {})
    OBVIOUS
  <2> HIDE DEF w
  <2> QED
    BY <1>1, LineIsBrushed
<1> HIDE DEF w
<1>5. r \in Int
  BY <1>1
<1>6. IsLine(rect)
  <2> SUFFICES ASSUME NEW i \in 1..4 PROVE rect[i] \in Int
    BY DEF IsLine
  <2>1. i = 1 \/ i = 2 \/ i = 3 \/ i = 4
    OBVIOUS
  <2> HIDE DEF r
  <2> QED
    BY <1>5, <2>1
<1> DEFINE t == ClippedSpan(line, rect)
           p == ClippedEnd(line, rect, t.t0)
           q == ClippedEnd(line, rect, t.t1)
<1>7. /\ t \in Spans /\ p \in Int \X Int /\ q \in Int \X Int
      /\ clipped = IF t.in THEN <<p[1], p[2], q[1], q[2]>> ELSE <<>>
  <2> HIDE DEF rect
  <2> QED
    BY <1>6, ClippedLine
<1>8. t.in \in BOOLEAN
  BY <1>7 DEF Spans
<1>9. clipped # <<>> => IsLine(clipped)
  <2> SUFFICES ASSUME clipped # <<>> PROVE IsLine(clipped)
    OBVIOUS
  <2> DEFINE part == <<p[1], p[2], q[1], q[2]>>
  <2>1. clipped = part
    BY <1>7, <1>8
  <2>2. p[1] \in Int /\ p[2] \in Int /\ q[1] \in Int /\ q[2] \in Int
    BY <1>7
  <2> HIDE DEF p, q, clipped
  <2>3. ASSUME NEW i \in 1..4 PROVE part[i] \in Int
    <3>1. i = 1 \/ i = 2 \/ i = 3 \/ i = 4
      OBVIOUS
    <3> QED
      BY <2>2, <3>1
  <2> HIDE DEF part
  <2>4. IsLine(part)
    BY <2>3 DEF IsLine
  <2> QED
    BY <2>1, <2>4
<1> HIDE DEF clipped, painted, runs, brushed, spread, t
<1>10. clipped # <<>> => painted = brushed(clipped)
  BY <1>1, <1>2, <1>4, <1>9
<1>11. ASSUME w > 0, straight PROVE painted \cap screen = brushed(line) \cap screen
  <2> DEFINE N == Longer(line)
             S == Left(line, rect)
             reach(K) == UNION {Brush(On(line, k), w) : k \in K}
  <2>1. Straight(line)
    <3>1. line[1] \in Int /\ line[2] \in Int /\ line[3] \in Int /\ line[4] \in Int
      BY DEF IsLine
    <3> QED
      BY <1>11, <3>1 DEF Straight, FarX, FarY, Abs
  <2>2. Cut(t, N, S)
    <3> HIDE DEF rect
    <3> QED
      BY <1>6, <2>1, ClippedStraight DEF t
  <2>3. N \in Nat
    BY Distances DEF Longer
  <2>4. S = {k \in 0..N : Within(rect, On(line, k))}
    BY DEF Left
  <2>5. Points(line) = {On(line, k) : k \in 0..N}
    BY <2>1, StraightPoints
  <2>6. brushed(line) = reach(0..N)
    <3>1. spread(line) = reach(0..N)
      BY <2>5 DEF spread
    <3> QED
      BY <1>4, <3>1
  <2>7. \A k \in 0..N : On(line, k) \in Int \X Int
    <3>1. PICK u, v \in {-1, 0, 1} : Goes(line, u, v)
      BY <2>1, StraightGoes
    <3>2. line[1] \in Int /\ line[2] \in Int
      BY DEF IsLine
    <3> SUFFICES ASSUME NEW k \in 0..N PROVE On(line, k) \in Int \X Int
      OBVIOUS
    <3>3. On(line, k) = <<line[1] + u * k, line[2] + v * k>>
      BY <3>1 DEF Goes
    <3>4. u * k \in Int /\ v * k \in Int
      BY <2>3
    <3> QED
      BY <3>2, <3>3, <3>4
  <2>8. reach(0..N) \cap screen = reach(S) \cap screen
    <3>1. ASSUME NEW k \in 0..N, k \notin S PROVE Brush(On(line, k), w) \cap screen = {}
      <4>1. ~Within(rect, On(line, k))
        BY <2>4, <3>1
      <4>2. On(line, k) \in Int \X Int /\ width \in Int /\ height \in Int
        BY <2>7
      <4> DEFINE at == On(line, k)
      <4>3. at \in Int \X Int /\ ~Within(<<-r, -r, width - 1 + r, height - 1 + r>>, at)
        BY <4>1, <4>2
      <4> HIDE DEF at
      <4>4. Brush(at, w) \cap ScreenOf(width, height) = {}
        BY <1>1, <4>2, <4>3, BrushMisses
      <4> QED
        BY <4>4 DEF at
    <3>2. S \subseteq 0..N
      BY <2>4
    <3> HIDE DEF S, screen
    <3> QED
      BY <3>1, <3>2
  <2>9. painted = reach(S)
    <3>1. CASE ~t.in
      <4>1. clipped = <<>> /\ S = {}
        BY <1>7, <2>2, <3>1 DEF Cut
      <4>2. painted = {}
        BY <1>2, <4>1
      <4>3. reach({}) = {}
        OBVIOUS
      <4> HIDE DEF S, reach
      <4> QED
        BY <4>1, <4>2, <4>3
    <3>2. CASE t.in
      <4>1. PICK a, b \in 0..N : a <= b /\ Stands(t.t0, a, N) /\ Stands(t.t1, b, N) /\ S = a..b
        BY <2>2, <3>2 DEF Cut
      <4>2. a \in S /\ b \in S
        <5> HIDE DEF S
        <5> QED
          BY <2>3, <4>1
      <4>3. PICK u, v \in {-1, 0, 1} : Goes(line, u, v)
        BY <2>1, StraightGoes
      <4>4. p = On(line, a) /\ q = On(line, b)
        <5>1. a \in Left(line, rect) /\ b \in Left(line, rect)
          BY <4>2
        <5>2. Stands(t.t0, a, Longer(line)) /\ Stands(t.t1, b, Longer(line))
          BY <4>1
        <5>3. p = ClippedEnd(line, rect, t.t0) /\ q = ClippedEnd(line, rect, t.t1)
          OBVIOUS
        <5> HIDE DEF rect, p, q
        <5>4. ClippedEnd(line, rect, t.t0) = On(line, a)
          BY <1>6, <4>3, <5>1, <5>2, ClippedEnds
        <5>5. ClippedEnd(line, rect, t.t1) = On(line, b)
          BY <1>6, <4>3, <5>1, <5>2, ClippedEnds
        <5> QED
          BY <5>3, <5>4, <5>5
      <4>5. clipped = <<p[1], p[2], q[1], q[2]>>
        BY <1>7, <3>2
      <4> HIDE DEF p, q
      <4>6. clipped = <<On(line, a)[1], On(line, a)[2], On(line, b)[1], On(line, b)[2]>>
        BY <4>4, <4>5
      <4>7. b \in a..Longer(line) /\ a \in 0..Longer(line)
        BY <2>3, <4>1
      <4>8. IsLine(clipped) /\ Points(clipped) = {On(line, k) : k \in a..b}
        BY <2>1, <4>6, <4>7, PartOfStraight
      <4>9. clipped # <<>>
        BY <4>6
      <4>10. painted = spread(clipped)
        BY <1>2, <1>4, <1>11, <4>8, <4>9
      <4>11. spread(clipped) = reach(a..b)
        BY <4>8 DEF spread
      <4> HIDE DEF reach, S
      <4> QED
        BY <4>1, <4>10, <4>11
    <3> QED
      BY <1>8, <3>1, <3>2
  <2> HIDE DEF reach, screen, S
  <2> QED
    BY <2>6, <2>8, <2>9
<1> HIDE DEF screen, straight
<1> QED
  BY <1>3, <1>10, <1>11

-----------------------------------------------------------------------------
(* Tile ids.  A coordinate is its quadrant's bit, the rest below it, and   *)
(* the bits above, which a round does not look at.                         *)

\* A number is `high` whole sides, one half or none, and a rest.
LEMMA Halves ==
  ASSUME NEW s \in Nat \ {0}, NEW x \in Int
  PROVE  /\ Bit(x, s) \in {0, 1} /\ x % s \in 0..s - 1
         /\ \E high \in Int : x = 2 * s * high + s * Bit(x, s) + (x % s)
<1> DEFINE q == x \div s
           r == x % s
           high == q \div 2
           b == q % 2
<1>1. r \in 0..s - 1 /\ q \in Int /\ x = s * q + r
  BY QuotientAndRest
<1> HIDE DEF q, r
<1>2. b \in 0..1 /\ high \in Int /\ q = 2 * high + b
  <2>1. 2 \in Nat \ {0}
    OBVIOUS
  <2>2. b \in 0..2 - 1 /\ high \in Int /\ q = 2 * high + b
    BY <1>1, <2>1, QuotientAndRest
  <2> QED
    BY <2>2
<1>3. Bit(x, s) = b
  BY DEF Bit, q
<1> HIDE DEF b, high
<1>4. s * q = 2 * s * high + s * b
  <2>1. s * (2 * high + b) = 2 * s * high + s * b
    BY <1>2
  <2> QED
    BY <1>2, <2>1
<1>5. x = 2 * s * high + s * Bit(x, s) + r
  <2> DEFINE a == s * q
             c == s * b
             e == 2 * s * high
  <2>1. a \in Int /\ c \in Int /\ e \in Int
    BY <1>1, <1>2
  <2>2. x = a + r /\ a = e + c
    BY <1>1, <1>4
  <2> HIDE DEF a, c, e
  <2>3. x = e + c + r
    BY <1>1, <2>1, <2>2
  <2> QED
    BY <1>3, <2>3 DEF c, e
<1> QED
  BY <1>1, <1>2, <1>3, <1>5 DEF r

\* And is of no other bit and rest.
LEMMA HalvesAreUnique ==
  ASSUME NEW s \in Nat \ {0}, NEW high \in Int, NEW b \in {0, 1}, NEW u \in 0..s - 1
  PROVE  Bit(2 * s * high + s * b + u, s) = b /\ (2 * s * high + s * b + u) % s = u
<1> DEFINE x == 2 * s * high + s * b + u
           k == 2 * high + b
<1>0. x \in Int /\ k \in Int /\ s \in Nat \ {0}
  OBVIOUS
<1>1. x = s * k + u
  <2>1. s * (2 * high + b) = 2 * s * high + s * b
    OBVIOUS
  <2> QED
    BY <2>1
<1>2. k % 2 = b
  OBVIOUS
<1> HIDE DEF x, k
<1>3. x % s \in 0..s - 1 /\ x \div s \in Int /\ x = s * (x \div s) + (x % s)
  BY ONLY <1>0, QuotientAndRest
<1> DEFINE q == x \div s
           r == x % s
           d == q - k
<1> HIDE DEF q, r
<1>4. d \in Int /\ s * d = u - r
  <2>1. q \in Int /\ r \in Int /\ x = s * q + r
    BY <1>3 DEF q, r
  <2> DEFINE a == s * q
             c == s * k
  <2>2. s * (q - k) = a - c
    BY <1>0, <2>1
  <2>3. a \in Int /\ c \in Int
    BY <1>0, <2>1
  <2>4. x = a + r /\ x = c + u
    BY <1>1, <2>1
  <2> HIDE DEF a, c
  <2>5. a - c = u - r
    BY <1>0, <2>1, <2>3, <2>4
  <2> QED
    BY <1>0, <2>1, <2>2, <2>5
<1> HIDE DEF d
<1>5. d = 0
  <2>1. d >= 1 => s * d >= s
    BY <1>4
  <2>2. d <= -1 => s * d <= -s
    BY <1>4
  <2> QED
    BY <1>3, <1>4, <2>1, <2>2, SMTT(30) DEF r
<1>6. q = k /\ r = u
  BY <1>0, <1>3, <1>4, <1>5 DEF d, q, r
<1> QED
  BY <1>2, <1>6 DEF x, Bit, q, r

\* Mirroring wraps within the word, and its rest is the rest mirrored.
LEMMA Mirrored ==
  ASSUME NEW s \in Nat \ {0}, Word \in Nat \ {0}, NEW m \in Int, Word = s * m, NEW x \in Int
  PROVE  (s - 1 - x) % Word \in 0..Word - 1 /\ ((s - 1 - x) % Word) % s = s - 1 - (x % s)
<1> DEFINE y == s - 1 - x
           turns == y \div Word
           k == x \div s
           u == x % s
<1>1. y \in Int /\ Word \in Nat \ {0}
  OBVIOUS
<1> HIDE DEF y
<1>2. y % Word \in 0..Word - 1 /\ turns \in Int /\ y = Word * turns + (y % Word)
  BY ONLY <1>1, QuotientAndRest DEF turns
<1>3. u \in 0..s - 1 /\ k \in Int /\ x = s * k + u
  BY QuotientAndRest
<1> HIDE DEF turns, k, u
<1> DEFINE away == -k - m * turns
           v == s - 1 - u
<1>4. away \in Int /\ v \in Int
  BY <1>2, <1>3
<1>5. y % Word = v + s * away
  <2>1. s * (-k - m * turns) = -(s * k) - s * (m * turns)
    BY <1>2, <1>3
  <2>2. s * (m * turns) = Word * turns
    BY <1>2
  <2>3. y = s - 1 - u - s * k
    BY <1>3 DEF y
  <2> HIDE DEF y
  <2> DEFINE a == s * k
             c == Word * turns
             e == s * (-k - m * turns)
             f == y % Word
  <2>4. a \in Int /\ c \in Int /\ e \in Int /\ f \in Int
    BY <1>2, <1>3
  <2>5. e = -a - c /\ y = s - 1 - u - a /\ y = c + f
    BY <1>2, <2>1, <2>2, <2>3
  <2> HIDE DEF a, c, e, f
  <2>6. f = s - 1 - u + e
    BY <1>3, <2>4, <2>5
  <2> QED
    BY <2>6 DEF e, f
<1>6. (v + s * away) % s = v % s
  BY <1>4, TurnsDoNotCount
<1>7. v % s = v
  <2>1. v \in 0..s - 1
    BY <1>3
  <2> HIDE DEF v
  <2> QED
    BY <2>1
<1> HIDE DEF away, v
<1> QED
  BY <1>2, <1>5, <1>6, <1>7 DEF y, v, u

\* What a curve over a square of side s is: its ids are 0..a - 1, each once,
\* from one corner of the square to the next, from neighbour to neighbour.
Square(s) == (0..s - 1) \X (0..s - 1)

Numbers(d, s, a) ==
  /\ \A p \in Square(s) : d[p] \in 0..a - 1
  /\ \A i \in 0..a - 1 : \E p \in Square(s) : d[p] = i
  /\ \A p, q \in Square(s) : d[p] = d[q] => p = q

Winds(d, s, a) ==
  /\ d[<<0, 0>>] = 0 /\ d[<<s - 1, 0>>] = a - 1
  /\ \A p, q \in Square(s) : d[q] = d[p] + 1 => Adjacent(p, q)

\* The quarter of a square twice as wide that a tile is in, in the order they
\* are visited, and where the tile is in the quarter's own curve.
Quarter(s, p) == IF p[1] < s THEN IF p[2] < s THEN 0 ELSE 1 ELSE IF p[2] < s THEN 3 ELSE 2

Inner(s, p) ==
  IF p[2] >= s THEN <<IF p[1] < s THEN p[1] ELSE p[1] - s, p[2] - s>>
  ELSE IF p[1] < s THEN <<p[2], p[1]>> ELSE <<s - 1 - p[2], 2 * s - 1 - p[1]>>

FourFold(e, d, s, a) == \A p \in Square(2 * s) : e[p] = a * Quarter(s, p) + d[Inner(s, p)]

LEMMA InnerIsInside ==
  ASSUME NEW s \in Nat \ {0}, NEW p \in Square(2 * s)
  PROVE  Inner(s, p) \in Square(s) /\ Quarter(s, p) \in 0..3
<1>1. p = <<p[1], p[2]>> /\ p[1] \in 0..2 * s - 1 /\ p[2] \in 0..2 * s - 1
  BY DEF Square
<1> QED
  BY <1>1 DEF Inner, Quarter, Square

\* Where the tile of a quarter is.
Outer(s, k, w) ==
  IF k = 0 THEN <<w[2], w[1]>>
  ELSE IF k = 1 THEN <<w[1], s + w[2]>>
  ELSE IF k = 2 THEN <<s + w[1], s + w[2]>>
  ELSE <<2 * s - 1 - w[2], s - 1 - w[1]>>

LEMMA OuterIsThere ==
  ASSUME NEW s \in Nat \ {0}, NEW w \in Square(s), NEW k \in 0..3
  PROVE  /\ Outer(s, k, w) \in Square(2 * s)
         /\ Quarter(s, Outer(s, k, w)) = k /\ Inner(s, Outer(s, k, w)) = w
<1>1. w = <<w[1], w[2]>> /\ w[1] \in 0..s - 1 /\ w[2] \in 0..s - 1
  BY DEF Square
<1>2. CASE k = 0
  BY <1>1, <1>2 DEF Outer, Quarter, Inner, Square
<1>3. CASE k = 1
  BY <1>1, <1>3 DEF Outer, Quarter, Inner, Square
<1>4. CASE k = 2
  BY <1>1, <1>4 DEF Outer, Quarter, Inner, Square
<1>5. CASE k = 3
  BY <1>1, <1>5 DEF Outer, Quarter, Inner, Square
<1> QED
  BY <1>2, <1>3, <1>4, <1>5

LEMMA PlacesAreUnique ==
  ASSUME NEW s \in Nat \ {0}, NEW p \in Square(2 * s), NEW q \in Square(2 * s),
         Quarter(s, p) = Quarter(s, q), Inner(s, p) = Inner(s, q)
  PROVE  p = q
<1>1. /\ p = <<p[1], p[2]>> /\ p[1] \in 0..2 * s - 1 /\ p[2] \in 0..2 * s - 1
      /\ q = <<q[1], q[2]>> /\ q[1] \in 0..2 * s - 1 /\ q[2] \in 0..2 * s - 1
  BY DEF Square
<1>2. p[1] = q[1] /\ p[2] = q[2]
  BY <1>1 DEF Quarter, Inner
<1> QED
  BY <1>1, <1>2

\* Within the ids of a quarter no other's are.
LEMMA ParcelsAreApart ==
  ASSUME NEW a \in Nat \ {0}, NEW k \in 0..3, NEW l \in 0..3, NEW i \in 0..a - 1, NEW j \in 0..a - 1
  PROVE  /\ a * k + i \in 0..4 * a - 1
         /\ a * k + i = a * l + j => k = l /\ i = j
         /\ a * l + j = a * k + i + 1 => \/ l = k /\ j = i + 1
                                         \/ l = k + 1 /\ i = a - 1 /\ j = 0
<1>1. \A n \in 0..3 : \/ n = 0 /\ a * n = 0
                      \/ n = 1 /\ a * n = a
                      \/ n = 2 /\ a * n = a + a
                      \/ n = 3 /\ a * n = a + a + a
  OBVIOUS
<1> DEFINE x == a * k
           y == a * l
<1>2. /\ (x = 0 /\ k = 0) \/ (x = a /\ k = 1) \/ (x = a + a /\ k = 2) \/ (x = a + a + a /\ k = 3)
      /\ (y = 0 /\ l = 0) \/ (y = a /\ l = 1) \/ (y = a + a /\ l = 2) \/ (y = a + a + a /\ l = 3)
  BY <1>1
<1>3. 4 * a = a + a + a + a
  OBVIOUS
<1> HIDE DEF x, y
<1>4. x + i \in 0..4 * a - 1
  BY <1>2, <1>3
<1>5. x + i = y + j => k = l /\ i = j
  BY <1>2
<1>6. y + j = x + i + 1 => (l = k /\ j = i + 1) \/ (l = k + 1 /\ i = a - 1 /\ j = 0)
  BY <1>2
<1> QED
  BY <1>4, <1>5, <1>6 DEF x, y

LEMMA FourNumber ==
  ASSUME NEW s \in Nat \ {0}, NEW a \in Nat \ {0}, NEW d, NEW e,
         FourFold(e, d, s, a), Numbers(d, s, a)
  PROVE  Numbers(e, 2 * s, 4 * a)
<1>1. \A p \in Square(2 * s) : /\ e[p] = a * Quarter(s, p) + d[Inner(s, p)]
                               /\ Inner(s, p) \in Square(s) /\ Quarter(s, p) \in 0..3
                               /\ d[Inner(s, p)] \in 0..a - 1
  BY InnerIsInside DEF FourFold, Numbers
<1>2. ASSUME NEW p \in Square(2 * s) PROVE e[p] \in 0..4 * a - 1
  BY <1>1, ParcelsAreApart
<1>3. ASSUME NEW i \in 0..4 * a - 1 PROVE \E p \in Square(2 * s) : e[p] = i
  <2>1. \E k \in 0..3 : \E j \in 0..a - 1 : i = a * k + j
    <3>1. i - a * 0 = i /\ i - a * 1 = i - a /\ i - a * 2 = i - a - a /\ i - a * 3 = i - a - a - a
      OBVIOUS
    <3>2. CASE i < a
      BY <3>2
    <3>3. CASE i >= a /\ i < a + a
      <4>1. i - a \in 0..a - 1 /\ i = a * 1 + (i - a)
        BY <3>3
      <4> QED
        BY <4>1
    <3>4. CASE i >= a + a /\ i < a + a + a
      <4>1. i - a - a \in 0..a - 1 /\ i = a * 2 + (i - a - a)
        BY <3>4
      <4> QED
        BY <4>1
    <3>5. CASE i >= a + a + a
      <4>1. i - a - a - a \in 0..a - 1 /\ i = a * 3 + (i - a - a - a)
        BY <3>5
      <4> QED
        BY <4>1
    <3> QED
      BY <3>2, <3>3, <3>4, <3>5
  <2>2. PICK k \in 0..3, j \in 0..a - 1 : i = a * k + j
    BY <2>1
  <2>3. PICK w \in Square(s) : d[w] = j
    BY DEF Numbers
  <2>4. /\ Outer(s, k, w) \in Square(2 * s)
        /\ Quarter(s, Outer(s, k, w)) = k /\ Inner(s, Outer(s, k, w)) = w
    BY OuterIsThere
  <2> QED
    BY <1>1, <2>2, <2>3, <2>4
<1>4. ASSUME NEW p \in Square(2 * s), NEW q \in Square(2 * s), e[p] = e[q] PROVE p = q
  <2>1. Quarter(s, p) = Quarter(s, q) /\ d[Inner(s, p)] = d[Inner(s, q)]
    BY <1>1, <1>4, ParcelsAreApart
  <2>2. Inner(s, p) = Inner(s, q)
    BY <1>1, <2>1 DEF Numbers
  <2> QED
    BY <2>1, <2>2, PlacesAreUnique
<1> QED
  BY <1>2, <1>3, <1>4 DEF Numbers

\* Turning a quarter keeps neighbours neighbours.
LEMMA NeighboursStay ==
  ASSUME NEW s \in Nat \ {0}, NEW p \in Square(2 * s), NEW q \in Square(2 * s),
         Quarter(s, p) = Quarter(s, q), Adjacent(Inner(s, p), Inner(s, q))
  PROVE  Adjacent(p, q)
<1>1. /\ p[1] \in 0..2 * s - 1 /\ p[2] \in 0..2 * s - 1
      /\ q[1] \in 0..2 * s - 1 /\ q[2] \in 0..2 * s - 1
  BY DEF Square
<1>2. CASE Quarter(s, p) = 0
  BY <1>1, <1>2 DEF Quarter, Inner, Adjacent
<1>3. CASE Quarter(s, p) = 1
  BY <1>1, <1>3 DEF Quarter, Inner, Adjacent
<1>4. CASE Quarter(s, p) = 2
  BY <1>1, <1>4 DEF Quarter, Inner, Adjacent
<1>5. CASE Quarter(s, p) = 3
  BY <1>1, <1>5 DEF Quarter, Inner, Adjacent
<1> QED
  BY <1>2, <1>3, <1>4, <1>5, InnerIsInside

\* A quarter is left next to where the next one is entered.
LEMMA QuartersMeet ==
  ASSUME NEW s \in Nat \ {0}, NEW p \in Square(2 * s), NEW q \in Square(2 * s),
         Quarter(s, q) = Quarter(s, p) + 1, Inner(s, p) = <<s - 1, 0>>, Inner(s, q) = <<0, 0>>
  PROVE  Adjacent(p, q)
<1>1. /\ p[1] \in 0..2 * s - 1 /\ p[2] \in 0..2 * s - 1
      /\ q[1] \in 0..2 * s - 1 /\ q[2] \in 0..2 * s - 1
  BY DEF Square
<1>2. CASE Quarter(s, p) = 0
  <2>1. p[1] = 0 /\ p[2] = s - 1
    BY <1>1, <1>2 DEF Quarter, Inner
  <2>2. q[1] = 0 /\ q[2] = s
    BY <1>1, <1>2 DEF Quarter, Inner
  <2> QED
    BY <2>1, <2>2 DEF Adjacent
<1>3. CASE Quarter(s, p) = 1
  <2>1. p[1] = s - 1 /\ p[2] = s
    BY <1>1, <1>3 DEF Quarter, Inner
  <2>2. q[1] = s /\ q[2] = s
    BY <1>1, <1>3 DEF Quarter, Inner
  <2> QED
    BY <2>1, <2>2 DEF Adjacent
<1>4. CASE Quarter(s, p) = 2
  <2>1. p[1] = 2 * s - 1 /\ p[2] = s
    BY <1>1, <1>4 DEF Quarter, Inner
  <2>2. q[1] = 2 * s - 1 /\ q[2] = s - 1
    BY <1>1, <1>4 DEF Quarter, Inner
  <2> QED
    BY <2>1, <2>2 DEF Adjacent
<1>5. Quarter(s, p) # 3
  BY InnerIsInside
<1> QED
  BY <1>2, <1>3, <1>4, <1>5, InnerIsInside

LEMMA FourWind ==
  ASSUME NEW s \in Nat \ {0}, NEW a \in Nat \ {0}, NEW d, NEW e,
         FourFold(e, d, s, a), Numbers(d, s, a), Winds(d, s, a)
  PROVE  Winds(e, 2 * s, 4 * a)
<1>1. \A p \in Square(2 * s) : /\ e[p] = a * Quarter(s, p) + d[Inner(s, p)]
                               /\ Inner(s, p) \in Square(s) /\ Quarter(s, p) \in 0..3
                               /\ d[Inner(s, p)] \in 0..a - 1
  BY InnerIsInside DEF FourFold, Numbers
<1>2. <<0, 0>> \in Square(s) /\ <<s - 1, 0>> \in Square(s)
  BY DEF Square
<1>3. e[<<0, 0>>] = 0
  <2>1. /\ <<0, 0>> \in Square(2 * s)
        /\ Quarter(s, <<0, 0>>) = 0 /\ Inner(s, <<0, 0>>) = <<0, 0>>
    BY DEF Square, Quarter, Inner
  <2> QED
    BY <1>1, <2>1 DEF Winds
<1>4. e[<<2 * s - 1, 0>>] = 4 * a - 1
  <2>1. /\ <<2 * s - 1, 0>> \in Square(2 * s)
        /\ Quarter(s, <<2 * s - 1, 0>>) = 3 /\ Inner(s, <<2 * s - 1, 0>>) = <<s - 1, 0>>
    BY DEF Square, Quarter, Inner
  <2>2. e[<<2 * s - 1, 0>>] = a * 3 + (a - 1)
    BY <1>1, <2>1 DEF Winds
  <2> QED
    BY <2>2
<1>5. ASSUME NEW p \in Square(2 * s), NEW q \in Square(2 * s), e[q] = e[p] + 1
      PROVE  Adjacent(p, q)
  <2> DEFINE k == Quarter(s, p)
             l == Quarter(s, q)
             i == d[Inner(s, p)]
             j == d[Inner(s, q)]
  <2>1. k \in 0..3 /\ l \in 0..3 /\ i \in 0..a - 1 /\ j \in 0..a - 1
    BY <1>1
  <2>2. a * l + j = a * k + i + 1
    BY <1>1, <1>5
  <2>3. (l = k /\ j = i + 1) \/ (l = k + 1 /\ i = a - 1 /\ j = 0)
    <3> HIDE DEF k, l, i, j
    <3> QED
      BY <2>1, <2>2, ParcelsAreApart
  <2>4. CASE l = k /\ j = i + 1
    <3>1. Adjacent(Inner(s, p), Inner(s, q))
      BY <1>1, <2>4 DEF Winds
    <3> QED
      BY <2>4, <3>1, NeighboursStay
  <2>5. CASE l = k + 1 /\ i = a - 1 /\ j = 0
    <3>1. Inner(s, p) = <<s - 1, 0>> /\ Inner(s, q) = <<0, 0>>
      BY <1>1, <1>2, <2>5 DEF Numbers, Winds
    <3> QED
      BY <2>5, <3>1, QuartersMeet
  <2> QED
    BY <2>3, <2>4, <2>5
<1> QED
  BY <1>3, <1>4, <1>5 DEF Winds

\* A round looks at a coordinate's rest within the square twice as wide.
LEMMA RestOfTwo ==
  ASSUME NEW s \in Nat \ {0}, NEW x \in Int
  PROVE  LET r == x % (2 * s)
         IN  /\ r \in 0..2 * s - 1
             /\ Bit(x, s) = IF r < s THEN 0 ELSE 1
             /\ x % s = IF r < s THEN r ELSE r - s
<1> DEFINE b == Bit(x, s)
           u == x % s
           c == s * b + u
           w == 2 * s
<1>1. b \in {0, 1} /\ u \in 0..s - 1
  BY Halves
<1>2. PICK high \in Int : x = 2 * s * high + s * b + u
  BY Halves
<1> HIDE DEF b, u
<1>3. c \in 0..w - 1 /\ (b = 0 => c = u) /\ (b = 1 => c = s + u) /\ w \in Nat \ {0}
  BY <1>1
<1>4. x = c + w * high
  <2> DEFINE f == 2 * s * high
             g == s * b
  <2>1. f \in Int /\ g \in Int /\ x = f + g + u /\ w * high = f /\ c = g + u
    BY <1>1, <1>2
  <2> HIDE DEF f, g, c, w
  <2>2. c = g + u /\ w * high = f
    BY <2>1
  <2> QED
    BY <1>1, <2>1, <2>2
<1> HIDE DEF c, w
<1>5. x % w = c
  <2>1. (c + w * high) % w = c % w
    <3>1. w \in Nat \ {0} /\ c \in Int /\ high \in Int
      BY <1>3
    <3> QED
      BY ONLY <3>1, TurnsDoNotCount
  <2>2. c % w = c
    BY <1>3
  <2> QED
    BY <1>4, <2>1, <2>2
<1>6. w = 2 * s
  BY DEF w
<1>7. /\ c \in 0..2 * s - 1
      /\ b = IF c < s THEN 0 ELSE 1
      /\ u = IF c < s THEN c ELSE c - s
  BY <1>1, <1>3, <1>6
<1> QED
  BY <1>5, <1>6, <1>7 DEF b, u

Rest(p, s) == <<p[1] % s, p[2] % s>>

Periodic(d, s) == \A p \in Coordinates : d[p] = d[Rest(p, s)]

LEMMA OneRound ==
  ASSUME Word \in Nat \ {0}, NEW s \in Nat \ {0}, NEW m \in Int, Word = s * m,
         NEW d, Periodic(d, s), NEW p \in Coordinates
  PROVE  LET r == Rest(p, 2 * s)
         IN  /\ r \in Square(2 * s)
             /\ Round(s, d)[p] = s * s * Quarter(s, r) + d[Inner(s, r)]
<1> DEFINE x == p[1]
           y == p[2]
           i == x % (2 * s)
           j == y % (2 * s)
           turned == Rotate(s, x, y)
           r == <<i, j>>
<1>1. x \in 0..Word - 1 /\ y \in 0..Word - 1 /\ p = <<x, y>>
  BY DEF Coordinates
<1>2. Round(s, d)[p] = s * s * Quadrant(s, x, y) + d[turned]
  BY DEF Round
<1> HIDE DEF x, y
<1>3. i \in 0..2 * s - 1 /\ Bit(x, s) = (IF i < s THEN 0 ELSE 1) /\ x % s = (IF i < s THEN i ELSE i - s)
  BY <1>1, RestOfTwo
<1>4. j \in 0..2 * s - 1 /\ Bit(y, s) = (IF j < s THEN 0 ELSE 1) /\ y % s = (IF j < s THEN j ELSE j - s)
  BY <1>1, RestOfTwo
<1>5. /\ (s - 1 - x) % Word \in 0..Word - 1 /\ ((s - 1 - x) % Word) % s = s - 1 - (x % s)
      /\ (s - 1 - y) % Word \in 0..Word - 1 /\ ((s - 1 - y) % Word) % s = s - 1 - (y % s)
  BY <1>1, Mirrored
<1> DEFINE mx == (s - 1 - x) % Word
           my == (s - 1 - y) % Word
<1> HIDE DEF i, j, mx, my
<1>6. Quadrant(s, x, y) = Quarter(s, r)
  BY <1>3, <1>4 DEF Quadrant, Quarter
<1>7. turned \in Coordinates /\ Rest(turned, s) = Inner(s, r)
  <2>1. CASE j >= s
    <3>1. turned = <<x, y>>
      BY <1>4, <2>1 DEF Rotate
    <3>2. Rest(turned, s) = <<x % s, y % s>>
      BY <3>1 DEF Rest
    <3>3. Inner(s, r) = <<IF i < s THEN i ELSE i - s, j - s>>
      BY <2>1 DEF Inner
    <3> QED
      BY <1>1, <1>3, <1>4, <2>1, <3>1, <3>2, <3>3 DEF Coordinates
  <2>2. CASE j < s /\ i < s
    <3>1. turned = <<y, x>>
      BY <1>3, <1>4, <2>2 DEF Rotate
    <3>2. Rest(turned, s) = <<y % s, x % s>>
      BY <3>1 DEF Rest
    <3>3. Inner(s, r) = <<j, i>>
      BY <1>3, <1>4, <2>2 DEF Inner
    <3> QED
      BY <1>1, <1>3, <1>4, <2>2, <3>1, <3>2, <3>3 DEF Coordinates
  <2>3. CASE j < s /\ i >= s
    <3>1. turned = <<my, mx>>
      BY <1>3, <1>4, <2>3 DEF Rotate, mx, my
    <3>2. Rest(turned, s) = <<my % s, mx % s>>
      BY <3>1 DEF Rest
    <3>3. Inner(s, r) = <<s - 1 - j, 2 * s - 1 - i>>
      BY <1>3, <1>4, <2>3 DEF Inner
    <3>4. my \in 0..Word - 1 /\ mx \in 0..Word - 1
      BY <1>5 DEF mx, my
    <3>5. my % s = s - 1 - j /\ mx % s = s - 1 - (i - s)
      BY <1>3, <1>4, <1>5, <2>3 DEF mx, my
    <3> HIDE DEF turned
    <3>6. s - 1 - (i - s) = 2 * s - 1 - i
      BY <1>3
    <3> QED
      BY <3>1, <3>2, <3>3, <3>4, <3>5, <3>6 DEF Coordinates
  <2> QED
    BY <1>3, <1>4, <2>1, <2>2, <2>3
<1> HIDE DEF turned
<1>8. d[turned] = d[Inner(s, r)]
  BY <1>7 DEF Periodic
<1>9. Rest(p, 2 * s) = r /\ r \in Square(2 * s)
  BY <1>1, <1>3, <1>4 DEF Rest, Square, i, j, x, y
<1> HIDE DEF r
<1> QED
  BY <1>2, <1>6, <1>8, <1>9

LEMMA RoundsFold ==
  ASSUME Word \in Nat \ {0}, NEW s \in Nat \ {0}, NEW m \in Nat \ {0}, Word = 2 * s * m,
         NEW d, Periodic(d, s)
  PROVE  FourFold(Round(s, d), d, s, s * s) /\ Periodic(Round(s, d), 2 * s)
<1> DEFINE e == Round(s, d)
           w == 2 * s
<1>1. Word = s * (2 * m) /\ 2 * m \in Int
  OBVIOUS
<1>2. ASSUME NEW p \in Coordinates
      PROVE  /\ Rest(p, w) \in Square(w)
             /\ e[p] = s * s * Quarter(s, Rest(p, w)) + d[Inner(s, Rest(p, w))]
  BY <1>1, OneRound
<1>3. w \in Nat \ {0} /\ w <= Word
  <2>1. w * m >= w
    OBVIOUS
  <2> QED
    BY <2>1
<1> HIDE DEF e
<1>4. ASSUME NEW p \in Square(w) PROVE p \in Coordinates /\ Rest(p, w) = p
  <2>1. p = <<p[1], p[2]>> /\ p[1] \in 0..w - 1 /\ p[2] \in 0..w - 1
    BY DEF Square
  <2>2. p \in Coordinates
    BY <1>3, <2>1 DEF Coordinates
  <2>3. p[1] % w = p[1] /\ p[2] % w = p[2]
    <3> HIDE DEF w
    <3> QED
      BY <1>3, <2>1
  <2> QED
    BY <2>1, <2>2, <2>3 DEF Rest
<1>5. FourFold(e, d, s, s * s)
  BY <1>2, <1>4 DEF FourFold
<1>6. Periodic(e, w)
  <2> SUFFICES ASSUME NEW p \in Coordinates PROVE e[p] = e[Rest(p, w)]
    BY DEF Periodic
  <2> DEFINE q == Rest(p, w)
  <2>1. q \in Square(w)
    BY <1>2
  <2>2. q \in Coordinates /\ Rest(q, w) = q
    BY <1>4, <2>1
  <2> HIDE DEF w, q
  <2>3. e[q] = s * s * Quarter(s, Rest(q, w)) + d[Inner(s, Rest(q, w))]
    BY <1>2, <2>2
  <2>4. e[p] = s * s * Quarter(s, q) + d[Inner(s, q)]
    BY <1>2 DEF q
  <2> QED
    BY <2>2, <2>3, <2>4 DEF q
<1> QED
  BY <1>5, <1>6 DEF e

\* The sides of the levels.
LEMMA SidesDouble ==
  ASSUME MaxLevel \in Nat
  PROVE  /\ Side[0] = 1
         /\ \A k \in 1..MaxLevel : Side[k] = 2 * Side[k - 1]
         /\ \A k \in 0..MaxLevel : Side[k] \in Nat \ {0}
<1>1. Side = CHOOSE h : h = [k \in 0..MaxLevel |-> IF k = 0 THEN 1 ELSE 2 * h[k - 1]]
  BY DEF Side
<1> QED
  BY <1>1, Doubling

\* The tiles of a level, and those before the next one.
LEMMA LevelsAreSquares ==
  ASSUME MaxLevel \in Nat
  PROVE  /\ TilesBeforeLevel(0) = 0 /\ \A k \in 0..MaxLevel : TilesBeforeLevel(k) \in Nat
         /\ \A k \in 0..MaxLevel : TilesBeforeLevel(k + 1) = TilesBeforeLevel(k) + Side[k] * Side[k]
<1> DEFINE N == MaxLevel + 1
           X == [sum : Nat, level : Nat]
           base == [sum |-> 0, level |-> 1]
           One(x) == [sum |-> x.sum + x.level, level |-> 4 * x.level]
           step == [q \in X \X (1..N) |-> One(q[1])]
           Adds(h) == h = [i \in 0..N |-> IF i = 0 THEN base ELSE One(h[i - 1])]
           sizes == CHOOSE h : Adds(h)
<1>1. Sizes = sizes
  BY DEF Sizes
<1>2. /\ \A x \in X : One(x) \in X
      /\ base \in X /\ N \in Nat
  OBVIOUS
<1>3. step \in [X \X (1..N) -> X]
  BY <1>2
<1> HIDE DEF sizes, N
<1>4. PICK g \in [0..N -> X] : Recursion(g, N, base, step)
  <2> HIDE DEF step, X, base, One
  <2> QED
    BY ONLY <1>2, <1>3, RecursionExists
<1>5. Adds(g)
  <2>1. ASSUME NEW k \in 0..N, k # 0 PROVE g[k] = One(g[k - 1])
    <3>1. k \in 1..N /\ k - 1 \in 0..N /\ g[k - 1] \in X
      BY <1>2, <2>1
    <3> HIDE DEF X, One
    <3> QED
      BY <1>4, <3>1 DEF Recursion
  <2> HIDE DEF One, base
  <2> QED
    BY <1>4, <2>1 DEF Recursion
<1>6. Adds(sizes)
  <2> HIDE DEF Adds
  <2> QED
    BY <1>5 DEF sizes
<1>7. sizes[0] = base /\ \A k \in 1..N : sizes[k] = One(sizes[k - 1])
  <2> HIDE DEF One, base
  <2> QED
    BY <1>2, <1>6
<1> DEFINE sum(k) == sizes[k].sum
           size(k) == sizes[k].level
<1>0. /\ sum(0) = 0 /\ size(0) = 1
      /\ \A k \in 1..N : sum(k) = sum(k - 1) + size(k - 1) /\ size(k) = 4 * size(k - 1)
  <2>1. sum(0) = 0 /\ size(0) = 1
    BY <1>7
  <2>2. ASSUME NEW k \in 1..N PROVE sum(k) = sum(k - 1) + size(k - 1) /\ size(k) = 4 * size(k - 1)
    <3>1. sizes[k] = One(sizes[k - 1])
      BY <1>7
    <3> QED
      BY ONLY <3>1
  <2> QED
    BY <2>1, <2>2
<1> HIDE DEF sum, size
<1>8. /\ Side[0] = 1
      /\ \A k \in 1..MaxLevel : Side[k] = 2 * Side[k - 1]
      /\ \A k \in 0..MaxLevel : Side[k] \in Nat \ {0}
  BY SidesDouble
<1> DEFINE T == {k \in 0..MaxLevel : sum(k) \in Nat /\ size(k) = Side[k] * Side[k]}
<1>9. 0 \in T
  BY <1>0, <1>8
<1>10. ASSUME NEW k \in 0..MaxLevel - 1, k \in T PROVE k + 1 \in T
  <2>1. k + 1 \in 1..MaxLevel /\ k + 1 \in 0..MaxLevel /\ (k + 1) - 1 = k /\ k \in 0..MaxLevel /\ k + 1 \in 1..N
    BY DEF N
  <2> DEFINE s == Side[k]
             a == size(k)
  <2>2. s \in Nat \ {0} /\ Side[k + 1] = 2 * s /\ a = s * s /\ sum(k) \in Nat
    BY <1>8, <1>10, <2>1
  <2>3. size(k + 1) = 4 * a /\ sum(k + 1) = sum(k) + a
    BY <1>0, <2>1
  <2> HIDE DEF s, a
  <2>4. 4 * (s * s) = (2 * s) * (2 * s) /\ s * s \in Nat
    BY <2>2
  <2> QED
    BY <2>1, <2>2, <2>3, <2>4
<1>11. \A k \in 0..MaxLevel : k \in T
  <2> HIDE DEF T
  <2> QED
    BY <1>9, <1>10, UpTo
<1>12. \A k \in 0..MaxLevel : sum(k + 1) = sum(k) + size(k)
  <2> SUFFICES ASSUME NEW k \in 0..MaxLevel PROVE sum(k + 1) = sum(k) + size(k)
    OBVIOUS
  <2>1. k + 1 \in 1..N /\ (k + 1) - 1 = k
    BY DEF N
  <2> QED
    BY <1>0, <2>1
<1> QED
  BY <1>1, <1>0, <1>11, <1>12 DEF TilesBeforeLevel, sum, size

\* What the rounds give, from the last one back to the first.
LEMMA RoundsRun ==
  ASSUME MaxLevel \in Nat, NEW level \in 0..MaxLevel,
         Word \in Nat \ {0}, \A k \in 0..level : Word % Side[k] = 0
  PROVE  \E d \in [0..level -> [Coordinates -> Int]] :
           /\ \A x, y : HilbertXyToIndex(level, x, y) = d[level][<<x, y>>]
           /\ d[0] = [p \in Coordinates |-> 0]
           /\ \A k \in 1..level : d[k] = Round(Side[k - 1], d[k - 1])
<1> DEFINE X == [Coordinates -> Int]
           base == [p \in Coordinates |-> 0]
           step == [q \in X \X (1..level) |-> Round(Side[q[2] - 1], q[1])]
           Loops(h) == h = [k \in 0..level |-> IF k = 0 THEN base ELSE Round(Side[k - 1], h[k - 1])]
           d == CHOOSE h : Loops(h)
<1>1. \A x, y : HilbertXyToIndex(level, x, y) = d[level][<<x, y>>]
  BY DEF HilbertXyToIndex
<1> HIDE DEF d
<1>2. base \in X
  OBVIOUS
<1>3. ASSUME NEW x \in X, NEW k \in 1..level PROVE Round(Side[k - 1], x) \in X
  <2> DEFINE s == Side[k - 1]
  <2>1. s \in Nat \ {0} /\ Word % s = 0
    <3>1. k - 1 \in 0..level /\ k - 1 \in 0..MaxLevel
      OBVIOUS
    <3> QED
      BY <3>1, SidesDouble
  <2> HIDE DEF s
  <2> SUFFICES ASSUME NEW p \in Coordinates
               PROVE  s * s * Quadrant(s, p[1], p[2]) + x[Rotate(s, p[1], p[2])] \in Int
    BY DEF Round, s
  <2>2. p[1] \in 0..Word - 1 /\ p[2] \in 0..Word - 1
    BY DEF Coordinates
  <2>3. Quadrant(s, p[1], p[2]) \in Int
    <3>1. p[1] \in Int /\ p[2] \in Int /\ s \in Nat \ {0}
      BY <2>1, <2>2
    <3>2. Bit(p[1], s) \in {0, 1} /\ Bit(p[2], s) \in {0, 1}
      BY ONLY <3>1, Halves
    <3> QED
      BY <3>2 DEF Quadrant
  <2>4. Rotate(s, p[1], p[2]) \in Coordinates
    <3>1. (s - 1 - p[1]) % Word \in 0..Word - 1 /\ (s - 1 - p[2]) % Word \in 0..Word - 1
      BY <2>1, <2>2
    <3> QED
      BY <2>2, <3>1 DEF Rotate, Coordinates
  <2>5. s * s * Quadrant(s, p[1], p[2]) \in Int
    BY <2>1, <2>3
  <2>6. x[Rotate(s, p[1], p[2])] \in Int
    BY <2>4
  <2> QED
    BY <2>5, <2>6
<1>4. step \in [X \X (1..level) -> X]
  <2> HIDE DEF X
  <2> QED
    BY <1>3
<1>5. \A x \in X, k \in 1..level : step[<<x, k>>] = Round(Side[k - 1], x)
  <2> HIDE DEF X
  <2> QED
    OBVIOUS
<1> HIDE DEF X, base, step
<1>6. level \in Nat
  OBVIOUS
<1>7. PICK g \in [0..level -> X] : Recursion(g, level, base, step)
  BY ONLY <1>2, <1>4, <1>6, RecursionExists
<1>8. \A k \in 1..level : k - 1 \in 0..level /\ g[k - 1] \in X /\ g[k] = Round(Side[k - 1], g[k - 1])
  <2> SUFFICES ASSUME NEW k \in 1..level
               PROVE  k - 1 \in 0..level /\ g[k - 1] \in X /\ g[k] = Round(Side[k - 1], g[k - 1])
    OBVIOUS
  <2>1. k - 1 \in 0..level
    OBVIOUS
  <2>2. g[k - 1] \in X
    BY <2>1
  <2>3. g[k] = step[<<g[k - 1], k>>]
    BY <1>7 DEF Recursion
  <2> QED
    BY <1>5, <2>1, <2>2, <2>3
<1>9. Loops(g)
  <2>1. ASSUME NEW k \in 0..level, k # 0 PROVE g[k] = Round(Side[k - 1], g[k - 1])
    BY <1>8, <2>1
  <2>2. g[0] = base
    BY <1>7 DEF Recursion
  <2> QED
    BY <2>1, <2>2
<1>10. Loops(d)
  <2> HIDE DEF Loops
  <2> QED
    BY <1>9 DEF d
<1>11. d[0] = base /\ \A k \in 1..level : d[k] = Round(Side[k - 1], d[k - 1])
  BY <1>10
<1> DEFINE T == {k \in 0..level : d[k] \in X}
<1>12. 0 \in T
  BY <1>2, <1>11
<1>13. ASSUME NEW k \in 0..level - 1, k \in T PROVE k + 1 \in T
  <2>1. k + 1 \in 1..level /\ k + 1 \in 0..level /\ (k + 1) - 1 = k
    OBVIOUS
  <2> QED
    BY <1>3, <1>11, <1>13, <2>1
<1>14. \A k \in 0..level : k \in T
  <2> HIDE DEF T
  <2> QED
    BY <1>6, <1>12, <1>13, UpTo
<1>15. d \in [0..level -> X]
  BY <1>10, <1>14
<1> QED
  BY <1>1, <1>11, <1>15 DEF X, base

\* The rounds so far, the last ones of the loop first, are such a curve.
CurveSoFar(d, s) ==
  Periodic(d, s) /\ Numbers(d, s, s * s) /\ Winds(d, s, s * s)

LEMMA OneTileIsACurve ==
  ASSUME Word \in Nat \ {0} PROVE CurveSoFar([p \in Coordinates |-> 0], 1)
<1> DEFINE d == [p \in Coordinates |-> 0]
<1>1. \A p \in Coordinates : Rest(p, 1) = <<0, 0>>
  <2> SUFFICES ASSUME NEW p \in Coordinates PROVE p[1] % 1 = 0 /\ p[2] % 1 = 0
    BY DEF Rest
  <2>1. p[1] \in Int /\ p[2] \in Int
    BY DEF Coordinates
  <2> QED
    BY <2>1
<1>2. <<0, 0>> \in Coordinates
  BY DEF Coordinates
<1>3. \A p \in Coordinates : d[p] = 0
  OBVIOUS
<1> HIDE DEF d
<1>4. \A p : p \in Square(1) <=> p = <<0, 0>>
  BY DEF Square
<1>5. Periodic(d, 1)
  BY <1>1, <1>2, <1>3 DEF Periodic
<1>6. Numbers(d, 1, 1 * 1)
  <2>1. 0..1 * 1 - 1 = {0}
    OBVIOUS
  <2> QED
    BY <1>2, <1>3, <1>4, <2>1 DEF Numbers
<1>7. Winds(d, 1, 1 * 1)
  <2>1. d[<<0, 0>>] = 0 /\ 1 - 1 = 0 /\ 1 * 1 - 1 = 0
    BY <1>2, <1>3
  <2>2. 0 # 0 + 1
    OBVIOUS
  <2> QED
    BY <1>4, <2>1, <2>2 DEF Winds
<1> QED
  BY <1>5, <1>6, <1>7 DEF CurveSoFar, d

LEMMA RoundKeepsCurve ==
  ASSUME Word \in Nat \ {0}, NEW s \in Nat \ {0}, Word % (2 * s) = 0, NEW d, CurveSoFar(d, s)
  PROVE  CurveSoFar(Round(s, d), 2 * s)
<1> DEFINE w == 2 * s
           m == Word \div w
           e == Round(s, d)
<1>1. w \in Nat \ {0} /\ Word \in Int
  OBVIOUS
<1>2. Word % w = 0
  OBVIOUS
<1> HIDE DEF w
<1>3. m \in Int /\ Word = w * m
  <2>1. m \in Int /\ Word = w * m + (Word % w)
    BY ONLY <1>1, QuotientAndRest
  <2> DEFINE k == w * m
  <2>2. k \in Int /\ Word = k + (Word % w)
    BY <1>1, <2>1
  <2> HIDE DEF k, m
  <2>3. Word = k
    BY <1>2, <2>2
  <2> QED
    BY <2>1, <2>3 DEF k
<1> HIDE DEF m
<1>4. m \in Nat \ {0} /\ Word = 2 * s * m
  <2>1. m <= 0 => w * m <= 0
    BY <1>1, <1>3
  <2> QED
    BY <1>3, <2>1 DEF w
<1>5. FourFold(e, d, s, s * s) /\ Periodic(e, 2 * s)
  BY <1>4, RoundsFold DEF CurveSoFar
<1>6. s * s \in Nat \ {0} /\ 4 * (s * s) = (2 * s) * (2 * s)
  OBVIOUS
<1> HIDE DEF e
<1>7. Numbers(e, 2 * s, 4 * (s * s)) /\ Winds(e, 2 * s, 4 * (s * s))
  BY <1>5, <1>6, FourNumber, FourWind DEF CurveSoFar
<1> QED
  BY <1>5, <1>6, <1>7 DEF CurveSoFar, e

LEMMA RestOfLess == ASSUME NEW s \in Nat \ {0}, NEW x \in 0..s - 1 PROVE x % s = x
  OBVIOUS

\* The ids of a level are those between the levels around it, each once, and
\* follow a curve from neighbour to neighbour, for every level whose sides
\* divide the word that holds the coordinates (pmtiles_reader.cpp,
\* HilbertXyToIndex and ZxyToTileId).
THEOREM EveryLevelIsACurve ==
  ASSUME MaxLevel \in Nat, NEW z \in 0..MaxLevel,
         Word \in Nat \ {0}, \A k \in 0..z : Word % Side[k] = 0
  PROVE  LevelIsACurve(z)
<1>1. PICK d \in [0..z -> [Coordinates -> Int]] :
        /\ \A x, y : HilbertXyToIndex(z, x, y) = d[z][<<x, y>>]
        /\ d[0] = [p \in Coordinates |-> 0]
        /\ \A k \in 1..z : d[k] = Round(Side[k - 1], d[k - 1])
  BY RoundsRun
<1>2. /\ Side[0] = 1
      /\ \A k \in 1..MaxLevel : Side[k] = 2 * Side[k - 1]
      /\ \A k \in 0..MaxLevel : Side[k] \in Nat \ {0}
  BY SidesDouble
<1> DEFINE T == {k \in 0..z : CurveSoFar(d[k], Side[k])}
<1>3. 0 \in T
  <2>1. 0 \in 0..z /\ Side[0] = 1
    BY <1>2
  <2>2. d[0] = [p \in Coordinates |-> 0]
    BY <1>1
  <2>3. CurveSoFar(d[0], Side[0])
    BY <2>1, <2>2, OneTileIsACurve
  <2> QED
    BY <2>1, <2>3
<1>4. ASSUME NEW k \in 0..z - 1, k \in T PROVE k + 1 \in T
  <2>1. k + 1 \in 1..z /\ k + 1 \in 0..z /\ k + 1 \in 1..MaxLevel /\ (k + 1) - 1 = k /\ k \in 0..MaxLevel
    OBVIOUS
  <2>2. Side[k + 1] = 2 * Side[k] /\ d[k + 1] = Round(Side[k], d[k]) /\ Side[k] \in Nat \ {0}
    BY <1>1, <1>2, <2>1
  <2>3. Word % (2 * Side[k]) = 0
    BY <2>1, <2>2
  <2>4. CurveSoFar(Round(Side[k], d[k]), 2 * Side[k])
    BY <1>4, <2>2, <2>3, RoundKeepsCurve
  <2> QED
    BY <2>1, <2>2, <2>4
<1>5. z \in T
  <2>1. z \in Nat /\ z \in 0..z
    OBVIOUS
  <2>2. \A k \in 0..z : k \in T
    <3> HIDE DEF T
    <3> QED
      BY ONLY <2>1, <1>3, <1>4, UpTo
  <2> QED
    BY <2>1, <2>2
<1> DEFINE s == Side[z]
           a == s * s
           c == d[z]
           first == TilesBeforeLevel(z)
           id == [t \in Tiles(z) |-> ZxyToTileId(z, t[1], t[2])]
<1>6. s \in Nat \ {0} /\ a \in Nat \ {0} /\ first \in Nat /\ TilesBeforeLevel(z + 1) = first + a
  <2>1. s \in Nat \ {0}
    BY <1>2
  <2>2. first \in Nat /\ TilesBeforeLevel(z + 1) = first + s * s
    BY LevelsAreSquares
  <2> HIDE DEF s
  <2>3. s * s \in Nat \ {0}
    BY <2>1
  <2> QED
    BY <2>1, <2>2, <2>3
<1>7. Numbers(c, s, a) /\ Winds(c, s, a)
  BY <1>5 DEF CurveSoFar
<1>8. Tiles(z) = Square(s)
  BY DEF Tiles, Square
<1>9. s <= Word
  <2>1. Word % s = 0
    BY <1>2
  <2> HIDE DEF s
  <2>2. ASSUME Word < s PROVE FALSE
    <3>1. s \in Nat \ {0} /\ Word \in 0..s - 1
      BY <1>6, <2>2
    <3>2. Word % s = Word
      BY ONLY <3>1, RestOfLess
    <3> QED
      BY <2>1, <3>1, <3>2
  <2> QED
    BY <1>6, <2>2
<1> HIDE DEF s
<1>10. ASSUME NEW t \in Square(s) PROVE id[t] = first + c[t] /\ c[t] \in 0..a - 1
  <2>1. t = <<t[1], t[2]>> /\ t \in Coordinates
    BY <1>6, <1>9 DEF Square, Coordinates
  <2>2. c[t] \in 0..a - 1
    BY <1>7 DEF Numbers
  <2>3. id[t] = ZxyToTileId(z, t[1], t[2])
    BY <1>8
  <2>4. CASE z = 0
    <3>1. c[t] = 0 /\ first = 0
      BY <1>1, <2>1, <2>4, LevelsAreSquares
    <3> QED
      BY <2>2, <2>3, <2>4, <3>1 DEF ZxyToTileId
  <2>5. CASE z # 0
    BY <1>1, <2>1, <2>2, <2>3, <2>5 DEF ZxyToTileId
  <2> QED
    BY <2>2, <2>4, <2>5
<1> HIDE DEF a, c, first, id
<1>11. {id[t] : t \in Tiles(z)} = first..first + a - 1
  <2>1. ASSUME NEW t \in Square(s) PROVE id[t] \in first..first + a - 1
    <3>1. id[t] = first + c[t] /\ c[t] \in 0..a - 1 /\ first \in Nat /\ a \in Nat
      BY <1>6, <1>10
    <3> QED
      BY ONLY <3>1
  <2>2. ASSUME NEW i \in first..first + a - 1 PROVE \E t \in Square(s) : id[t] = i
    <3>1. i - first \in 0..a - 1
      BY <1>6
    <3>2. PICK t \in Square(s) : c[t] = i - first
      BY <1>7, <3>1 DEF Numbers
    <3>3. id[t] = first + (i - first)
      BY <1>10, <3>2
    <3> QED
      BY <1>6, <3>3
  <2> QED
    BY <1>8, <2>1, <2>2
<1>12. ASSUME NEW t \in Square(s), NEW u \in Square(s)
       PROVE  /\ id[t] = id[u] => t = u
              /\ id[u] = id[t] + 1 => Adjacent(t, u)
  <2>1. /\ id[t] = first + c[t] /\ c[t] \in 0..a - 1
        /\ id[u] = first + c[u] /\ c[u] \in 0..a - 1
    BY <1>10
  <2>2. (id[t] = id[u] => c[t] = c[u]) /\ (id[u] = id[t] + 1 => c[u] = c[t] + 1)
    <3>1. first \in Nat /\ a \in Nat
      BY <1>6
    <3> QED
      BY ONLY <2>1, <3>1, SMTT(30)
  <2> QED
    BY <1>7, <2>2 DEF Numbers, Winds
<1> DEFINE last == TilesBeforeLevel(z + 1) - 1
<1>13. {id[t] : t \in Tiles(z)} = first..last
  BY <1>6, <1>11
<1>14. \A t, u \in Tiles(z) : /\ id[t] = id[u] => t = u
                              /\ id[u] = id[t] + 1 => Adjacent(t, u)
  BY <1>8, <1>12
<1> QED
  BY <1>13, <1>14, Zenon DEF LevelIsACurve, id, first
=============================================================================
