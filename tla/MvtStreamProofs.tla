-------------------------- MODULE MvtStreamProofs --------------------------
(***************************************************************************)
(* The two passes over a tile agree on its layers, for every payload,      *)
(* wherever reads fail and however often the program throws; and the       *)
(* scratch is given up on every way out.                                   *)
(***************************************************************************)
EXTENDS MvtStream, CommonLemmas, SequenceTheorems

LayerRecord == [at : Nat, named : BOOLEAN, included : BOOLEAN, tables : Nat]
SinkRecord == [at : Nat, layer : Nat, tables : Nat]
Running == pc \in {"tables", "layer_tables", "features", "layer_features"}

\* While a tile is read, its payload is one that was asked for, and the
\* position lies within it.
Reading == Running => tile \in Payloads /\ consumed <= Len(tile)

-----------------------------------------------------------------------------
(* What the tables of pass 1 say of the layers of the payload.             *)

\* The layers listed are those that start up to n, in order.
Listed(n) ==
  /\ \A i \in DOMAIN layers : layers[i].at \in LayerStarts(tile) /\ layers[i].at <= n
  /\ \A i, j \in DOMAIN layers : i < j => layers[i].at < layers[j].at
  /\ \A l \in LayerStarts(tile) : l <= n => \E i \in DOMAIN layers : layers[i].at = l

\* The tables among the tokens of a layer, up to one of them.
TablesUpTo(l, n) == {j \in l + 1..n : tile[j].k = "table"}

\* A wanted layer has all its tables.
Whole(i) ==
  layers[i].included =>
    layers[i].tables = Cardinality(TablesUpTo(layers[i].at, layers[i].at + tile[layers[i].at].len))

\* The position lies in the layer that is listed at i.
InLayer(i) ==
  /\ layers[i].at <= consumed /\ consumed <= end
  /\ end = layers[i].at + tile[layers[i].at].len

\* Of the layers listed, n start before the position.
Passed(n) == \A i \in DOMAIN layers : layers[i].at <= consumed <=> i <= n

Pass1 ==
  /\ pc \in {"tables", "layer_tables"} => Listed(consumed) /\ layer_index = 0
  /\ pc = "tables" => \A i \in DOMAIN layers : Whole(i)
  /\ pc = "layer_tables" =>
       /\ layers # <<>> /\ InLayer(Len(layers))
       /\ \A i \in 1..Len(layers) - 1 : Whole(i)
       /\ layers[Len(layers)].tables =
            Cardinality(TablesUpTo(layers[Len(layers)].at, consumed))

Pass2 ==
  /\ pc \in {"features", "layer_features"} =>
       (\E n \in 0..Len(tile) : Listed(n)) /\ \A i \in DOMAIN layers : Whole(i)
  /\ pc = "features" => Passed(layer_index) /\ layer_index <= Len(layers)
  /\ pc = "layer_features" =>
       layer_index < Len(layers) /\ Passed(layer_index + 1) /\ InLayer(layer_index + 1)

IInv == TypeOK /\ Reading /\ Pass1 /\ Pass2 /\ OwnLayerTables /\ RetainedGeometryBounded

-----------------------------------------------------------------------------
\* Nothing sums up to nothing.
LEMMA NoCaps == SumCaps(<<>>) = 0
<1> DEFINE Is(g) == g = [s \in SUBSET {} |-> IF s = {} THEN 0 ELSE g[s \ {Max(s)}] + <<>>[Max(s)]]
<1>1. SumCaps(<<>>) = (CHOOSE g : Is(g))[{}]
  BY DEF SumCaps, FoldLeft, MapThenFoldSet
<1>2. Is([s \in SUBSET {} |-> 0])
  OBVIOUS
<1>3. Is(CHOOSE g : Is(g))
  BY <1>2, Zenon
<1> QED
  BY <1>1, <1>3

\* What a payload is made of.
LEMMA Tokens ==
  ASSUME TypeOK, Reading, Running
  PROVE  /\ Len(tile) \in Nat /\ DOMAIN tile = 1..Len(tile)
         /\ consumed \in 0..Len(tile)
         /\ \A l \in LayerStarts(tile) :
              /\ l \in 1..Len(tile) /\ tile[l].len \in Nat
              /\ \A m \in LayerStarts(tile) : m \notin l + 1..l + tile[l].len
         /\ ~AtEnd =>
              /\ consumed + 1 \in 1..Len(tile)
              /\ consumed + 1 \in LayerStarts(tile) <=> Token.k = "layer"
              /\ Token.k = "name" => Token.included \in BOOLEAN
              /\ Token.k = "feature" => Token.bytes \in Nat /\ Token.rings \in Seq(Nat)
<1>1. tile \in Payloads /\ consumed \in Nat /\ consumed <= Len(tile)
  BY DEF Reading, TypeOK
<1>2. Len(tile) \in Nat /\ DOMAIN tile = 1..Len(tile)
  BY <1>1, PayloadAssumption
<1>3. \A l \in LayerStarts(tile) :
        /\ l \in 1..Len(tile) /\ tile[l].len \in Nat
        /\ \A j \in l + 1..l + tile[l].len : j <= Len(tile) => tile[j].k # "layer"
  BY <1>1, PayloadAssumption DEF LayerStarts
<1>4. \A l, m \in LayerStarts(tile) : m \notin l + 1..l + tile[l].len
  BY <1>2, <1>3 DEF LayerStarts
<1> DEFINE n == Len(tile)
<1>5. ~AtEnd => consumed + 1 \in 1..Len(tile)
  <2>1. n \in Nat /\ consumed \in Nat /\ consumed <= n
    BY <1>1, <1>2
  <2>2. ~AtEnd => consumed # n
    BY DEF AtEnd
  <2> HIDE DEF n
  <2>3. consumed # n => consumed + 1 \in 1..n
    BY <2>1
  <2> QED
    BY <2>2, <2>3 DEF n
<1>6. ~AtEnd =>
        /\ Token.k = "name" => Token.included \in BOOLEAN
        /\ Token.k = "feature" => Token.bytes \in Nat /\ Token.rings \in Seq(Nat)
  BY <1>1, <1>5, PayloadAssumption DEF Token
<1>7. ~AtEnd => (consumed + 1 \in LayerStarts(tile) <=> Token.k = "layer")
  BY <1>5 DEF LayerStarts, Token
<1> QED
  BY <1>1, <1>2, <1>3, <1>4, <1>5, <1>6, <1>7

\* Tables are counted one by one.
LEMMA CountTable ==
  ASSUME NEW l \in Nat, NEW n \in Nat, l <= n
  PROVE  /\ Cardinality(TablesUpTo(l, l)) = 0
         /\ Cardinality(TablesUpTo(l, n)) \in Nat
         /\ Cardinality(TablesUpTo(l, n + 1)) =
              Cardinality(TablesUpTo(l, n)) + (IF tile[n + 1].k = "table" THEN 1 ELSE 0)
<1>1. TablesUpTo(l, l) = {}
  BY DEF TablesUpTo
<1>2. IsFiniteSet(TablesUpTo(l, n))
  <2>1. IsFiniteSet(l + 1..n)
    BY FS_Interval
  <2> QED
    BY <2>1, FS_Subset DEF TablesUpTo
<1>3. CASE tile[n + 1].k = "table"
  <2>1. TablesUpTo(l, n + 1) = TablesUpTo(l, n) \cup {n + 1} /\ n + 1 \notin TablesUpTo(l, n)
    BY <1>3 DEF TablesUpTo
  <2> QED
    BY <1>1, <1>2, <1>3, <2>1, FS_AddElement, FS_CardinalityType, FS_EmptySet
<1>4. CASE tile[n + 1].k # "table"
  <2>1. TablesUpTo(l, n + 1) = TablesUpTo(l, n)
    BY <1>4 DEF TablesUpTo
  <2> QED
    BY <1>1, <1>2, <1>4, <2>1, FS_CardinalityType, FS_EmptySet
<1> QED
  BY <1>3, <1>4

-----------------------------------------------------------------------------
LEMMA InitEstablishes == Init => IInv
<1> SUFFICES ASSUME Init PROVE IInv
  OBVIOUS
<1>1. TypeOK
  BY StreamAssumption DEF Init, TypeOK
<1>2. OwnLayerTables
  BY DEF Init, OwnLayerTables
<1>3. RetainedGeometryBounded
  BY NoCaps, StreamAssumption DEF Init, RetainedGeometryBounded
<1> QED
  BY <1>1, <1>2, <1>3 DEF Init, IInv, Reading, Running, Pass1, Pass2

\* On the way out nothing matters but what stays behind.
LEMMA ExitKeeps ==
  ASSUME IInv, NEW outcome \in {"true", "false", "threw"}, NEW caps \in Seq(Nat),
         NEW cap \in Nat, NEW len \in 0..cap, Exit(outcome, caps, len, cap),
         tile' \in Payloads \cup {NoTile}, consumed' \in Nat, end' \in Nat, layer_index' \in Nat,
         emitted' \in Seq(SinkRecord), OwnLayerTables'
  PROVE  IInv'
<1>1. pc' \in {"idle", "terminated"} /\ result' \in {"none", "true", "false", "threw"}
  BY DEF Exit
<1>2. layers' = <<>> /\ ring_caps' \in {<<>>, caps} /\ bytes_len' = len /\ bytes_cap' \in {len, cap}
  BY DEF Exit
<1>3. TypeOK'
  <2>1. layers' \in Seq(LayerRecord) /\ ring_caps' \in Seq(Nat)
    <3>1. \A S : <<>> \in Seq(S)
      OBVIOUS
    <3> HIDE DEF LayerRecord
    <3> QED
      BY <1>2, <3>1
  <2>2. bytes_cap' \in Nat /\ bytes_len' \in 0..bytes_cap'
    BY <1>2
  <2> QED
    BY <1>1, <2>1, <2>2 DEF TypeOK, SinkRecord, LayerRecord
<1>4. RetainedGeometryBounded'
  <2>1. SumCaps(ring_caps') <= RetainedGeometryPoints
    BY NoCaps, StreamAssumption DEF Exit
  <2> QED
    BY <1>2, <2>1 DEF RetainedGeometryBounded
<1> QED
  BY <1>1, <1>3, <1>4 DEF IInv, Reading, Running, Pass1, Pass2

LEMMA LeavesKeeps ==
  ASSUME IInv, NEW outcome \in {"true", "false", "threw"}, Leaves(outcome)
  PROVE  IInv'
<1>1. Exit(outcome, ring_caps, bytes_len, bytes_cap) /\ UNCHANGED <<stream, layer_index, emitted>>
  BY DEF Leaves
<1>2. /\ ring_caps \in Seq(Nat) /\ bytes_cap \in Nat /\ bytes_len \in 0..bytes_cap
      /\ tile' \in Payloads \cup {NoTile} /\ consumed' \in Nat /\ end' \in Nat
      /\ layer_index' \in Nat /\ emitted' \in Seq(SinkRecord)
  BY <1>1 DEF IInv, TypeOK, stream, SinkRecord
<1>3. OwnLayerTables'
  BY <1>1 DEF IInv, OwnLayerTables, Body, stream
<1> QED
  BY <1>1, <1>2, <1>3, ExitKeeps

\* While a tile is read and nothing reaches the sink, the two last conjuncts
\* have nothing new to say.
LEMMA RunKeeps ==
  ASSUME IInv, UNCHANGED <<tile, emitted>>, Running',
         TypeOK', Reading', Pass1', Pass2'
  PROVE  IInv'
BY DEF IInv, Running, OwnLayerTables, Body, RetainedGeometryBounded

\* The tables that were collected, one record for each layer.
LEMMA LayersTyped ==
  ASSUME TypeOK
  PROVE  /\ Len(layers) \in Nat /\ DOMAIN layers = 1..Len(layers)
         /\ \A i \in DOMAIN layers :
              /\ layers[i] \in LayerRecord
              /\ layers[i].at \in Nat /\ layers[i].tables \in Nat
              /\ layers[i].named \in BOOLEAN /\ layers[i].included \in BOOLEAN
<1>1. layers \in Seq(LayerRecord)
  BY DEF TypeOK, LayerRecord
<1>2. \A r \in LayerRecord : /\ r.at \in Nat /\ r.tables \in Nat
                             /\ r.named \in BOOLEAN /\ r.included \in BOOLEAN
  BY DEF LayerRecord
<1> HIDE DEF LayerRecord
<1> QED
  BY <1>1, <1>2

-----------------------------------------------------------------------------
(* A tile begins, and pass 1.                                              *)

LEMMA StreamTileKeeps ==
  ASSUME IInv, NEW p \in Payloads, StreamTile(p)
  PROVE  IInv'
<1>1. tile' = p /\ consumed' = 0 /\ emitted' = <<>> /\ layer_index' = 0
  BY DEF StreamTile
<1>2. OwnLayerTables'
  BY <1>1 DEF OwnLayerTables
<1>3. <<>> \in Seq(LayerRecord) /\ emitted' \in Seq(SinkRecord)
  BY <1>1
<1>4. CASE pc' = "tables"
  <2>1. layers' = <<>> /\ result' = "none" /\ UNCHANGED <<end, ring_caps, bytes_len, bytes_cap>>
    BY <1>4 DEF StreamTile, Exit
  <2>2. TypeOK'
    BY <1>1, <1>3, <1>4, <2>1 DEF IInv, TypeOK, LayerRecord, SinkRecord
  <2>3. Reading'
    BY <1>1, PayloadAssumption DEF Reading
  <2>4. Pass1' /\ Pass2'
    BY <1>1, <1>4, <2>1 DEF Pass1, Pass2, Listed, LayerStarts
  <2> QED
    BY <1>2, <1>4, <2>2, <2>3, <2>4 DEF IInv, RetainedGeometryBounded
<1>5. CASE pc' # "tables"
  <2>1. PICK outcome \in {"false", "threw"} :
          Exit(outcome, ring_caps, bytes_len, bytes_cap) /\ UNCHANGED end
    BY <1>5 DEF StreamTile
  <2> QED
    BY <1>1, <1>2, <1>3, <2>1, ExitKeeps DEF IInv, TypeOK
<1> QED
  BY <1>4, <1>5

LEMMA EnterLayerKeeps ==
  ASSUME IInv, EnterLayer
  PROVE  IInv'
<1> DEFINE c == consumed + 1
           n == Len(layers)
           new == [at |-> c, named |-> FALSE, included |-> FALSE, tables |-> 0]
<1>1. /\ pc = "tables" /\ Running /\ ~AtEnd
      /\ consumed' = c
      /\ UNCHANGED <<tile, layer_index, emitted, result, ring_caps, bytes_len, bytes_cap>>
  BY DEF EnterLayer, Next1, Running
<1>2. TypeOK /\ Reading /\ Listed(consumed) /\ layer_index = 0 /\ \A i \in DOMAIN layers : Whole(i)
  BY <1>1 DEF IInv, Pass1
<1>3. /\ c \in 1..Len(tile) /\ Len(tile) \in Nat
      /\ c \in LayerStarts(tile) <=> Token.k = "layer"
      /\ \A l \in LayerStarts(tile) : l \in 1..Len(tile) /\ tile[l].len \in Nat
  BY <1>1, <1>2, Tokens
<1>4. consumed \in Nat /\ c \in Nat
  BY <1>2 DEF TypeOK
<1>5. Reading'
  BY <1>1, <1>2, <1>3 DEF Reading
<1>6. CASE Token.k = "layer"
  <2>1. pc' = "layer_tables" /\ layers' = Append(layers, new) /\ end' = c + tile[c].len
    BY <1>6 DEF EnterLayer, Token
  <2>2. /\ n \in Nat /\ DOMAIN layers = 1..n
        /\ DOMAIN layers' = 1..n + 1 /\ Len(layers') = n + 1
        /\ \A i \in 1..n : layers'[i] = layers[i]
        /\ layers'[n + 1] = new
        /\ layers' \in Seq(LayerRecord)
    <3>1. layers \in Seq(LayerRecord) /\ new \in LayerRecord
      BY <1>2, <1>4 DEF TypeOK, LayerRecord
    <3> HIDE DEF LayerRecord, new
    <3> QED
      BY <2>1, <3>1
  <2>3. TypeOK'
    BY <1>1, <1>2, <1>3, <1>4, <1>6, <2>1, <2>2 DEF TypeOK, LayerRecord, SinkRecord
  <2>4. Listed(consumed)'
    <3>1. \A i \in 1..n : layers'[i].at \in LayerStarts(tile) /\ layers'[i].at <= consumed
      BY <1>2, <2>2 DEF Listed
    <3>2. \A i \in DOMAIN layers' : layers'[i].at \in LayerStarts(tile) /\ layers'[i].at <= c
      BY <1>3, <1>4, <1>6, <2>2, <3>1
    <3>3. \A i, j \in 1..n : i < j => layers'[i].at < layers'[j].at
      BY <1>2, <2>2 DEF Listed
    <3>4. \A i, j \in DOMAIN layers' : i < j => layers'[i].at < layers'[j].at
      BY <1>3, <1>4, <2>2, <3>1, <3>3
    <3>5. \A l \in LayerStarts(tile) : l <= c => \E i \in DOMAIN layers' : layers'[i].at = l
      <4> SUFFICES ASSUME NEW l \in LayerStarts(tile), l <= c
                   PROVE  \E i \in DOMAIN layers' : layers'[i].at = l
        OBVIOUS
      <4>1. CASE l = c
        BY <2>2, <4>1
      <4>2. CASE l # c
        BY <1>2, <1>3, <1>4, <2>2, <4>2 DEF Listed
      <4> QED
        BY <4>1, <4>2
    <3> QED
      BY <1>1, <3>2, <3>4, <3>5 DEF Listed, LayerStarts
  <2>5. \A i \in 1..n : Whole(i)'
    BY <1>1, <1>2, <2>2 DEF Whole, TablesUpTo
  <2>6. layers'[n + 1].tables = Cardinality(TablesUpTo(c, c))
    <3>1. c \in Nat /\ c <= c
      BY <1>4
    <3> HIDE DEF c
    <3>2. Cardinality(TablesUpTo(c, c)) = 0
      BY <3>1, CountTable
    <3>3. layers'[n + 1].tables = 0
      BY <2>2
    <3> QED
      BY <3>2, <3>3
  <2>7. Pass1'
    <3>1. layers' # <<>>
      BY <2>2
    <3>2. InLayer(Len(layers))'
      BY <1>1, <1>3, <1>4, <1>6, <2>1, <2>2 DEF InLayer
    <3>3. \A i \in 1..Len(layers') - 1 : Whole(i)'
      BY <2>2, <2>5
    <3>4. layers'[Len(layers')].tables = Cardinality(TablesUpTo(layers[Len(layers)].at, consumed)')
      <4>1. layers'[Len(layers')].at = c
        BY <2>2
      <4>2. TablesUpTo(layers[Len(layers)].at, consumed)' = TablesUpTo(c, c)
        BY <1>1, <4>1 DEF TablesUpTo
      <4> QED
        BY <2>2, <2>6, <4>2
    <3> QED
      BY <1>1, <1>2, <2>1, <2>4, <3>1, <3>2, <3>3, <3>4 DEF Pass1
  <2>8. Pass2' /\ Running'
    BY <2>1 DEF Pass2, Running
  <2> QED
    BY <1>1, <1>5, <2>3, <2>7, <2>8, RunKeeps
<1>7. CASE Token.k # "layer"
  <2>1. pc' = pc /\ UNCHANGED <<layers, end>>
    BY <1>7 DEF EnterLayer
  <2>2. TypeOK'
    BY <1>1, <1>2, <1>4, <2>1 DEF TypeOK
  <2>3. Listed(consumed)'
    <3>1. \A l \in LayerStarts(tile) : l <= c => l <= consumed
      BY <1>3, <1>4, <1>7
    <3>2. \A i \in DOMAIN layers : layers[i].at \in LayerStarts(tile) /\ layers[i].at <= c
      BY <1>2, <1>3, <1>4 DEF Listed
    <3> QED
      BY <1>1, <1>2, <2>1, <3>1, <3>2 DEF Listed, LayerStarts
  <2>4. Pass1' /\ Pass2' /\ Running'
    BY <1>1, <1>2, <2>1, <2>3 DEF Pass1, Pass2, Running, Whole, TablesUpTo
  <2> QED
    BY <1>1, <1>5, <2>2, <2>4, RunKeeps
<1> QED
  BY <1>6, <1>7

LEMMA ReadTableFieldKeeps ==
  ASSUME IInv, ReadTableField
  PROVE  IInv'
<1> DEFINE c == consumed + 1
           n == Len(layers)
           at == layers[n].at
<1>1. /\ pc = "layer_tables" /\ Running /\ Running' /\ ~AtEnd /\ consumed < end
      /\ consumed' = c
      /\ UNCHANGED <<pc, tile, end, layer_index, emitted, result, ring_caps, bytes_len, bytes_cap>>
  BY DEF ReadTableField, Next1, Running
<1>2. /\ TypeOK /\ Reading /\ Listed(consumed) /\ layer_index = 0
      /\ layers # <<>> /\ InLayer(n)
      /\ \A i \in 1..n - 1 : Whole(i)
      /\ layers[n].tables = Cardinality(TablesUpTo(at, consumed))
  BY <1>1 DEF IInv, Pass1
<1>3. /\ c \in 1..Len(tile) /\ Len(tile) \in Nat
      /\ Token.k = "name" => Token.included \in BOOLEAN
      /\ \A l, m \in LayerStarts(tile) : m \notin l + 1..l + tile[l].len
      /\ \A l \in LayerStarts(tile) : l \in 1..Len(tile) /\ tile[l].len \in Nat
  BY <1>1, <1>2, Tokens
<1>4. consumed \in Nat /\ c \in Nat /\ end \in Nat
  BY <1>2 DEF TypeOK
<1>5. /\ n \in Nat \ {0} /\ DOMAIN layers = 1..n /\ n \in DOMAIN layers
      /\ \A i \in DOMAIN layers : layers[i] \in LayerRecord
      /\ layers \in Seq(LayerRecord)
  <2>1. layers \in Seq(LayerRecord)
    BY <1>2 DEF TypeOK, LayerRecord
  <2> HIDE DEF LayerRecord
  <2> QED
    BY <1>2, <2>1, LayersTyped
<1>6. at \in LayerStarts(tile) /\ at <= consumed /\ at \in Nat
  BY <1>2, <1>3, <1>5 DEF Listed, InLayer
<1>7. c \notin LayerStarts(tile)
  <2>1. c \in at + 1..at + tile[at].len
    BY <1>1, <1>2, <1>3, <1>4, <1>6 DEF InLayer
  <2> QED
    BY <1>3, <1>6, <2>1
<1>8. /\ layers' \in Seq(LayerRecord) /\ DOMAIN layers' = 1..n /\ Len(layers') = n
      /\ \A i \in 1..n - 1 : layers'[i] = layers[i]
      /\ layers'[n].at = at
      /\ layers'[n].tables = layers[n].tables + (IF Token.k = "table" THEN 1 ELSE 0)
  <2>1. layers[n] \in LayerRecord
    BY <1>5
  <2>2. PICK r \in LayerRecord :
          /\ layers' = [layers EXCEPT ![n] = r]
          /\ r.at = at
          /\ r.tables = layers[n].tables + (IF Token.k = "table" THEN 1 ELSE 0)
    <3>1. CASE Token.k = "name"
      <4> DEFINE r == [layers[n] EXCEPT !.named = TRUE, !.included = Token.included]
      <4>1. r \in LayerRecord /\ r.at = at /\ r.tables = layers[n].tables
        BY <1>3, <2>1, <3>1 DEF LayerRecord
      <4>2. layers' = [layers EXCEPT ![n] = r]
        BY <1>5, <2>1, <3>1 DEF ReadTableField, LayerRecord
      <4>3. layers[n].tables \in Nat
        BY <2>1 DEF LayerRecord
      <4>4. r.tables = layers[n].tables + (IF Token.k = "table" THEN 1 ELSE 0)
        BY <3>1, <4>1, <4>3
      <4> HIDE DEF r, LayerRecord
      <4> QED
        BY <4>1, <4>2, <4>4
    <3>2. CASE Token.k = "table"
      <4> DEFINE r == [layers[n] EXCEPT !.tables = layers[n].tables + 1]
      <4>1. r \in LayerRecord /\ r.at = at /\ r.tables = layers[n].tables + 1
        BY <2>1 DEF LayerRecord
      <4>2. layers' = [layers EXCEPT ![n] = r]
        BY <1>5, <3>2 DEF ReadTableField
      <4> QED
        BY <3>2, <4>1, <4>2
    <3>3. CASE Token.k \notin {"name", "table"}
      <4>1. layers' = layers
        BY <3>3 DEF ReadTableField
      <4>2. layers = [layers EXCEPT ![n] = layers[n]]
        BY <1>5
      <4>3. layers[n].tables \in Nat
        BY <2>1 DEF LayerRecord
      <4> QED
        BY <2>1, <3>3, <4>1, <4>2, <4>3
    <3> QED
      BY <3>1, <3>2, <3>3
  <2> HIDE DEF LayerRecord
  <2>3. /\ layers' \in Seq(LayerRecord) /\ DOMAIN layers' = 1..n /\ Len(layers') = n
        /\ \A i \in 1..n - 1 : layers'[i] = layers[i]
        /\ layers'[n] = r
    <3> HIDE DEF n, LayerRecord
    <3>1. layers' \in Seq(LayerRecord) /\ DOMAIN layers' = 1..n
      BY <1>5, <2>2
    <3>2. Len(layers') = n
      BY <1>5, <3>1, LenProperties
    <3>3. layers'[n] = r /\ \A i \in 1..n - 1 : layers'[i] = layers[i]
      BY <1>5, <2>2
    <3> QED
      BY <3>1, <3>2, <3>3
  <2> QED
    BY <2>2, <2>3
<1>9. TypeOK'
  BY <1>1, <1>2, <1>4, <1>8 DEF TypeOK, LayerRecord
<1>10. Reading'
  BY <1>1, <1>2, <1>3 DEF Reading
<1>11. \A i \in 1..n : layers'[i].at = layers[i].at
  BY <1>5, <1>8
<1>12. Listed(consumed)'
  <2>1. \A l \in LayerStarts(tile) : l <= c => l <= consumed
    BY <1>3, <1>4, <1>7
  <2>2. \A i \in 1..n : layers[i].at \in LayerStarts(tile) /\ layers[i].at <= c
    BY <1>2, <1>3, <1>4, <1>5 DEF Listed
  <2> QED
    BY <1>1, <1>2, <1>5, <1>8, <1>11, <2>1, <2>2 DEF Listed, LayerStarts
<1>13. layers'[n].tables = Cardinality(TablesUpTo(at, c))
  BY <1>2, <1>4, <1>6, <1>8, CountTable DEF Token
<1>14. TablesUpTo(layers[Len(layers)].at, consumed)' = TablesUpTo(at, c)
  BY <1>1, <1>8 DEF TablesUpTo
<1>15. InLayer(Len(layers))'
  BY <1>1, <1>2, <1>4, <1>6, <1>8 DEF InLayer
<1>16. \A i \in 1..n - 1 : Whole(i)'
  BY <1>1, <1>2, <1>8 DEF Whole, TablesUpTo
<1>17. Pass1' /\ Pass2'
  <2>1. layers' # <<>>
    BY <1>5, <1>8
  <2> QED
    BY <1>1, <1>2, <1>8, <1>12, <1>13, <1>14, <1>15, <1>16, <2>1 DEF Pass1, Pass2
<1> QED
  BY <1>1, <1>9, <1>10, <1>17, RunKeeps

LEMMA LeaveTablesKeeps ==
  ASSUME IInv, LeaveTables
  PROVE  IInv'
<1> DEFINE n == Len(layers)
           at == layers[n].at
<1>1. /\ pc = "layer_tables" /\ pc' = "tables" /\ Running /\ Running' /\ consumed = end
      /\ UNCHANGED <<tile, consumed, end, layer_index, emitted, result, ring_caps, bytes_len, bytes_cap>>
  BY DEF LeaveTables, Running, stream
<1>2. /\ TypeOK /\ Reading /\ Listed(consumed) /\ layer_index = 0
      /\ layers # <<>> /\ InLayer(n)
      /\ \A i \in 1..n - 1 : Whole(i)
      /\ layers[n].tables = Cardinality(TablesUpTo(at, consumed))
  BY <1>1 DEF IInv, Pass1
<1>3. /\ n \in Nat \ {0} /\ DOMAIN layers = 1..n /\ n \in DOMAIN layers
      /\ layers[n] \in LayerRecord /\ layers \in Seq(LayerRecord)
  <2>1. layers \in Seq(LayerRecord)
    BY <1>2 DEF TypeOK, LayerRecord
  <2> HIDE DEF LayerRecord
  <2> QED
    BY <1>2, <2>1, LayersTyped
<1>4. /\ layers' \in Seq(LayerRecord) /\ DOMAIN layers' = 1..n /\ Len(layers') = n
      /\ \A i \in 1..n - 1 : layers'[i] = layers[i]
      /\ layers'[n].at = at /\ layers'[n].included = layers[n].included
      /\ layers[n].included => layers'[n].tables = layers[n].tables
  <2>1. PICK r \in LayerRecord :
          /\ layers' = [layers EXCEPT ![n] = r]
          /\ r.at = at /\ r.included = layers[n].included
          /\ layers[n].included => r.tables = layers[n].tables
    <3>1. CASE layers[n].included
      <4>1. layers' = [layers EXCEPT ![n] = layers[n]]
        BY <1>3, <3>1 DEF LeaveTables
      <4> QED
        BY <1>3, <3>1, <4>1
    <3>2. CASE ~layers[n].included
      <4> DEFINE r == [layers[n] EXCEPT !.tables = 0]
      <4>1. r \in LayerRecord /\ r.at = at /\ r.included = layers[n].included
        BY <1>3 DEF LayerRecord
      <4>2. layers' = [layers EXCEPT ![n] = r]
        BY <1>3, <3>2 DEF LeaveTables
      <4> QED
        BY <3>2, <4>1, <4>2
    <3> QED
      BY <3>1, <3>2
  <2> HIDE DEF LayerRecord
  <2>2. /\ layers' \in Seq(LayerRecord) /\ DOMAIN layers' = 1..n /\ Len(layers') = n
        /\ \A i \in 1..n - 1 : layers'[i] = layers[i]
        /\ layers'[n] = r
    <3> HIDE DEF n, LayerRecord
    <3>1. layers' \in Seq(LayerRecord) /\ DOMAIN layers' = 1..n
      BY <1>3, <2>1
    <3>2. Len(layers') = n
      BY <1>3, <3>1, LenProperties
    <3>3. layers'[n] = r /\ \A i \in 1..n - 1 : layers'[i] = layers[i]
      BY <1>3, <2>1
    <3> QED
      BY <3>1, <3>2, <3>3
  <2> QED
    BY <2>1, <2>2
<1>5. TypeOK' /\ Reading'
  BY <1>1, <1>2, <1>4 DEF TypeOK, LayerRecord, Reading
<1>6. \A i \in 1..n : layers'[i].at = layers[i].at
  BY <1>3, <1>4
<1>7. Listed(consumed)'
  BY <1>1, <1>2, <1>3, <1>4, <1>6 DEF Listed, LayerStarts
<1>8. \A i \in 1..n : Whole(i)'
  <2>1. \A i \in 1..n - 1 : Whole(i)'
    BY <1>1, <1>2, <1>4 DEF Whole, TablesUpTo
  <2>2. ASSUME NEW i \in 1..n, i = n PROVE Whole(i)'
    <3> SUFFICES ASSUME layers'[n].included
                 PROVE  layers'[n].tables = Cardinality(TablesUpTo(at, at + tile[at].len))
      BY <1>1, <1>4, <2>2 DEF Whole, TablesUpTo
    <3>1. consumed = at + tile[at].len
      BY <1>1, <1>2 DEF InLayer
    <3> QED
      BY <1>2, <1>4, <3>1
  <2>3. \A i \in 1..n : i = n \/ i \in 1..n - 1
    <3> HIDE DEF n
    <3> QED
      BY <1>3
  <2> QED
    BY <2>1, <2>2, <2>3
<1>9. Pass1' /\ Pass2'
  BY <1>1, <1>2, <1>4, <1>7, <1>8 DEF Pass1, Pass2
<1> QED
  BY <1>1, <1>5, <1>9, RunKeeps

\* Pass 1 may have stopped early; what it listed, it listed completely.
LEMMA BeginFeaturesKeeps ==
  ASSUME IInv, BeginFeatures
  PROVE  IInv'
<1>1. /\ pc = "tables" /\ pc' = "features" /\ Running /\ Running' /\ consumed' = 0
      /\ UNCHANGED <<tile, end, layers, layer_index, emitted, result, ring_caps, bytes_len, bytes_cap>>
  BY DEF BeginFeatures, Running, scratch
<1>2. /\ TypeOK /\ Reading /\ Listed(consumed) /\ layer_index = 0
      /\ \A i \in DOMAIN layers : Whole(i)
  BY <1>1 DEF IInv, Pass1
<1>3. consumed \in 0..Len(tile) /\ \A l \in LayerStarts(tile) : l \in 1..Len(tile)
  BY <1>1, <1>2, Tokens
<1>4. Len(layers) \in Nat /\ DOMAIN layers = 1..Len(layers) /\ Len(tile) \in Nat
  BY <1>1, <1>2, LayersTyped, Tokens
<1>5. TypeOK' /\ Reading'
  BY <1>1, <1>2, <1>4 DEF TypeOK, Reading
<1>6. \E m \in 0..Len(tile) : Listed(m)'
  BY <1>1, <1>2, <1>3 DEF Listed, LayerStarts
<1>7. Passed(0)'
  <2>1. \A i \in DOMAIN layers : layers[i].at \in 1..Len(tile)
    BY <1>2, <1>3 DEF Listed
  <2> QED
    BY <1>1, <1>4, <2>1 DEF Passed
<1>8. \A i \in DOMAIN layers : Whole(i)'
  BY <1>1, <1>2 DEF Whole, TablesUpTo
<1>9. Pass1' /\ Pass2'
  BY <1>1, <1>2, <1>4, <1>6, <1>7, <1>8 DEF Pass1, Pass2
<1> QED
  BY <1>1, <1>5, <1>9, RunKeeps

-----------------------------------------------------------------------------
(* Pass 2.                                                                 *)

\* What every step of pass 2 starts from.
LEMMA SecondPass ==
  ASSUME IInv, pc \in {"features", "layer_features"}
  PROVE  /\ TypeOK /\ Reading /\ Running
         /\ Len(layers) \in Nat /\ DOMAIN layers = 1..Len(layers)
         /\ \A i \in DOMAIN layers : /\ layers[i].at \in LayerStarts(tile) /\ layers[i].at \in Nat
                                     /\ tile[layers[i].at].len \in Nat
                                     /\ layers[i].tables \in Nat
         /\ \A i, j \in DOMAIN layers : i < j => layers[i].at < layers[j].at
         /\ layer_index \in Nat /\ consumed \in Nat /\ end \in Nat
<1>1. TypeOK /\ Reading /\ Running
  BY DEF IInv, Running
<1>2. PICK n \in 0..Len(tile) : Listed(n)
  BY DEF IInv, Pass2
<1>3. \A i \in DOMAIN layers : layers[i].at \in LayerStarts(tile)
  BY <1>2 DEF Listed
<1>4. \A i, j \in DOMAIN layers : i < j => layers[i].at < layers[j].at
  BY <1>2 DEF Listed
<1> QED
  BY <1>1, <1>3, <1>4, LayersTyped, Tokens DEF TypeOK

\* Of pass 1 only the tables are left, and they stay as they are.
LEMMA TablesStay ==
  ASSUME IInv, pc \in {"features", "layer_features"}, UNCHANGED <<tile, layers>>
  PROVE  (\E n \in 0..Len(tile') : Listed(n)') /\ \A i \in DOMAIN layers' : Whole(i)'
BY DEF IInv, Pass2, Listed, LayerStarts, Whole, TablesUpTo

\* A layer found by pass 2 is the one pass 1 listed at that index.
LEMMA SameLayer ==
  ASSUME IInv, pc = "features", ~AtEnd, Token.k = "layer", layer_index < Len(layers)
  PROVE  layers[layer_index + 1].at = consumed + 1
<1> DEFINE c == consumed + 1
           k == layer_index + 1
           n == Len(layers)
<1>1. /\ TypeOK /\ Reading /\ Running /\ n \in Nat /\ DOMAIN layers = 1..n
      /\ \A i \in DOMAIN layers : layers[i].at \in Nat
      /\ \A i, j \in DOMAIN layers : i < j => layers[i].at < layers[j].at
      /\ layer_index \in Nat /\ consumed \in Nat
  BY SecondPass
<1>2. c \in LayerStarts(tile)
  BY <1>1, Tokens
<1>3. PICK m \in 0..Len(tile) : Listed(m)
  BY DEF IInv, Pass2
<1>4. Passed(layer_index)
  BY DEF IInv, Pass2
<1>5. k \in 1..n
  <2> HIDE DEF n
  <2>1. layer_index < n
    BY DEF n
  <2> QED
    BY <1>1, <2>1
<1>6. layers[k].at > consumed
  BY <1>1, <1>4, <1>5 DEF Passed
<1>7. c <= m
  BY <1>1, <1>3, <1>5, <1>6 DEF Listed
<1>8. PICK i \in DOMAIN layers : layers[i].at = c
  BY <1>2, <1>3, <1>7 DEF Listed
<1>9. i >= k
  <2>1. ~(i <= layer_index)
    BY <1>1, <1>4, <1>8 DEF Passed
  <2> QED
    BY <1>1, <1>8, <2>1
<1>10. i = k
  <2>1. ~(k < i)
    <3>1. k < i => layers[k].at < c
      BY <1>1, <1>5, <1>8
    <3> QED
      BY <1>1, <1>5, <1>6, <3>1
  <2> QED
    BY <1>1, <1>5, <1>8, <1>9, <2>1
<1> QED
  BY <1>8, <1>10

LEMMA EnterFeaturesKeeps ==
  ASSUME IInv, EnterFeatures
  PROVE  IInv'
<1> DEFINE c == consumed + 1
           k == layer_index + 1
           n == Len(layers)
<1>1. /\ pc = "features" /\ ~AtEnd /\ consumed' = c
      /\ UNCHANGED <<tile, layers, ring_caps, bytes_len, bytes_cap, layer_index, emitted, result>>
  BY DEF EnterFeatures, Next1, scratch
<1>2. /\ TypeOK /\ Reading /\ Running /\ n \in Nat /\ DOMAIN layers = 1..n
      /\ \A i \in DOMAIN layers : /\ layers[i].at \in Nat /\ layers[i].at \in LayerStarts(tile)
                                  /\ tile[layers[i].at].len \in Nat
      /\ \A i, j \in DOMAIN layers : i < j => layers[i].at < layers[j].at
      /\ layer_index \in Nat /\ consumed \in Nat /\ c \in Nat
  BY <1>1, SecondPass
<1>3. Passed(layer_index) /\ layer_index <= n
  BY <1>1 DEF IInv, Pass2
<1>4. c \in 1..Len(tile) /\ Len(tile) \in Nat /\ (c \in LayerStarts(tile) <=> Token.k = "layer")
  BY <1>1, <1>2, Tokens
<1>5. Reading'
  BY <1>1, <1>2, <1>4 DEF Reading
<1>6. (\E m \in 0..Len(tile') : Listed(m)') /\ \A i \in DOMAIN layers' : Whole(i)'
  BY <1>1, TablesStay
<1>7. CASE Token.k = "layer"
  <2>1. pc' = "layer_features" /\ end' = c + tile[c].len /\ layer_index < n
    BY <1>7 DEF EnterFeatures, Token
  <2>2. layers[k].at = c
    BY <1>1, <1>7, <2>1, SameLayer
  <2>3. k \in DOMAIN layers
    <3> HIDE DEF n
    <3> QED
      BY <1>2, <2>1
  <2>4. end' \in Nat /\ c <= end'
    BY <1>2, <2>1, <2>2, <2>3
  <2>5. TypeOK'
    BY <1>1, <1>2, <2>1, <2>4 DEF TypeOK
  <2>6. \A i \in DOMAIN layers : layers[i].at <= c <=> i <= k
    <3> SUFFICES ASSUME NEW i \in DOMAIN layers PROVE layers[i].at <= c <=> i <= k
      OBVIOUS
    <3>1. i \in Nat /\ k \in Nat
      BY <1>2
    <3>2. CASE i < k
      BY <1>2, <2>2, <2>3, <3>1, <3>2
    <3>3. CASE i = k
      BY <1>2, <2>2, <3>1, <3>3
    <3>4. CASE i > k
      BY <1>2, <2>2, <2>3, <3>1, <3>4
    <3> QED
      BY <3>1, <3>2, <3>3, <3>4
  <2>7. Passed(layer_index + 1)' /\ InLayer(layer_index + 1)'
    BY <1>1, <1>2, <2>1, <2>2, <2>4, <2>6 DEF Passed, InLayer
  <2>8. Pass1' /\ Pass2' /\ Running'
    BY <1>1, <1>6, <2>1, <2>7 DEF Pass1, Pass2, Running
  <2> QED
    BY <1>1, <1>5, <2>5, <2>8, RunKeeps
<1>8. CASE Token.k # "layer"
  <2>1. pc' = pc /\ end' = end
    BY <1>8 DEF EnterFeatures
  <2>2. TypeOK'
    BY <1>1, <1>2, <2>1 DEF TypeOK
  <2>3. Passed(layer_index)'
    <3>1. \A i \in DOMAIN layers : layers[i].at <= c <=> layers[i].at <= consumed
      BY <1>2, <1>4, <1>8
    <3> QED
      BY <1>1, <1>3, <3>1 DEF Passed
  <2>4. Pass1' /\ Pass2' /\ Running'
    BY <1>1, <1>3, <1>6, <2>1, <2>3 DEF Pass1, Pass2, Running
  <2> QED
    BY <1>1, <1>5, <2>2, <2>4, RunKeeps
<1> QED
  BY <1>7, <1>8

\* What a step inside a layer starts from.
LEMMA Inside ==
  ASSUME IInv, pc = "layer_features"
  PROVE  LET k == layer_index + 1
             at == Tables.at
         IN  /\ k \in DOMAIN layers /\ Tables = layers[k]
             /\ at \in LayerStarts(tile) /\ at \in Nat /\ tile[at].len \in Nat
             /\ at <= consumed /\ consumed <= end /\ end = at + tile[at].len
             /\ \A n \in Nat : at <= n /\ n <= end =>
                  \A i \in DOMAIN layers : layers[i].at <= n <=> i <= k
             /\ Whole(k)
<1> DEFINE k == layer_index + 1
           n == Len(layers)
<1>1. /\ n \in Nat /\ DOMAIN layers = 1..n /\ layer_index \in Nat
      /\ consumed \in Nat /\ end \in Nat /\ TypeOK /\ Reading /\ Running
      /\ \A i \in DOMAIN layers : /\ layers[i].at \in Nat /\ layers[i].at \in LayerStarts(tile)
                                  /\ tile[layers[i].at].len \in Nat
  BY SecondPass
<1>2. layer_index < n /\ Passed(k) /\ InLayer(k) /\ \A i \in DOMAIN layers : Whole(i)
  BY DEF IInv, Pass2
<1>3. k \in DOMAIN layers
  <2> HIDE DEF n
  <2> QED
    BY <1>1, <1>2
<1> DEFINE at == layers[k].at
<1>4. at \in LayerStarts(tile) /\ at \in Nat /\ tile[at].len \in Nat
  BY <1>1, <1>3
<1>5. at <= consumed /\ consumed <= end /\ end = at + tile[at].len
  BY <1>2 DEF InLayer
<1>6. \A l \in LayerStarts(tile) : l \notin at + 1..end
  BY <1>1, <1>4, <1>5, Tokens
<1>7. ASSUME NEW m \in Nat, at <= m, m <= end, NEW i \in DOMAIN layers
      PROVE  layers[i].at <= m <=> i <= k
  <2>1. layers[i].at <= consumed <=> i <= k
    BY <1>2 DEF Passed
  <2>2. layers[i].at \in Nat /\ layers[i].at \notin at + 1..end
    BY <1>1, <1>6
  <2> QED
    BY <1>1, <1>4, <1>5, <1>7, <2>1, <2>2
<1> QED
  BY <1>2, <1>3, <1>4, <1>5, <1>7 DEF Tables

\* A step within a layer passes no other layer's start.
LEMMA WithinLayer ==
  ASSUME IInv, pc = "layer_features", pc' = pc, consumed < end, ~AtEnd,
         consumed' = consumed + 1, UNCHANGED <<tile, end, layers, layer_index, result>>
  PROVE  /\ Reading' /\ Pass1' /\ Pass2' /\ Running'
<1>1. TypeOK /\ Reading /\ Running /\ consumed \in Nat /\ end \in Nat
  BY SecondPass
<1>2. consumed + 1 \in 1..Len(tile) /\ Len(tile) \in Nat
  BY <1>1, Tokens
<1>3. Reading' /\ Running'
  BY <1>1, <1>2 DEF Reading, Running
<1> DEFINE c == consumed + 1
           at == layers[layer_index + 1].at
<1>4. c \in Nat /\ at <= c /\ c <= end /\ at \in Nat /\ end = at + tile[at].len
  BY <1>1, Inside DEF Tables
<1>5. \A i \in DOMAIN layers : layers[i].at <= c <=> i <= layer_index + 1
  <2>1. Tables.at = at
    BY DEF Tables
  <2> QED
    BY <1>4, <2>1, Inside
<1>6. Passed(layer_index + 1)' /\ InLayer(layer_index + 1)'
  BY <1>4, <1>5 DEF Passed, InLayer
<1>7. (\E n \in 0..Len(tile') : Listed(n)') /\ \A i \in DOMAIN layers' : Whole(i)'
  BY TablesStay
<1>8. Pass1' /\ Pass2'
  BY <1>6, <1>7 DEF IInv, Pass1, Pass2
<1> QED
  BY <1>3, <1>8

LEMMA SkipFieldKeeps ==
  ASSUME IInv, SkipField
  PROVE  IInv'
<1>1. /\ pc = "layer_features" /\ pc' = pc /\ consumed < end /\ ~AtEnd /\ consumed' = consumed + 1
      /\ UNCHANGED <<tile, end, layers, layer_index, emitted, result, ring_caps, bytes_len, bytes_cap>>
  BY DEF SkipField, Next1, scratch
<1>2. TypeOK'
  BY <1>1 DEF IInv, TypeOK
<1> QED
  BY <1>1, <1>2, WithinLayer, RunKeeps

\* From one layer to the next.
LEMMA PastLayerKeeps ==
  ASSUME IInv, SkipLayer \/ LeaveFeatures
  PROVE  IInv'
<1>1. /\ pc = "layer_features" /\ pc' = "features" /\ layer_index' = layer_index + 1
      /\ consumed' = end
      /\ UNCHANGED <<tile, end, layers, emitted, result, ring_caps, bytes_len, bytes_cap>>
  BY DEF SkipLayer, LeaveFeatures, scratch, stream
<1>2. /\ TypeOK /\ Reading /\ Running /\ consumed \in Nat /\ end \in Nat /\ layer_index \in Nat
      /\ Len(layers) \in Nat
  BY <1>1, SecondPass
<1>3. Reading'
  <2>1. CASE SkipLayer
    BY <1>2, <2>1 DEF SkipLayer, Reading
  <2>2. CASE LeaveFeatures
    BY <1>1, <1>2, <2>2 DEF LeaveFeatures, Reading, stream
  <2> QED
    BY <2>1, <2>2
<1>4. TypeOK'
  BY <1>1, <1>2 DEF TypeOK
<1>5. Passed(layer_index)'
  <2>1. Tables.at <= end
    BY <1>1, <1>2, Inside
  <2>2. \A i \in DOMAIN layers : layers[i].at <= end <=> i <= layer_index + 1
    BY <1>1, <1>2, <2>1, Inside
  <2> QED
    BY <1>1, <2>2 DEF Passed
<1>6. layer_index + 1 <= Len(layers)
  <2>1. layer_index < Len(layers)
    BY <1>1 DEF IInv, Pass2
  <2> DEFINE n == Len(layers)
  <2>2. n \in Nat /\ layer_index < n
    BY <1>2, <2>1
  <2> HIDE DEF n
  <2>3. layer_index + 1 <= n
    BY <1>2, <2>2
  <2> QED
    BY <2>3 DEF n
<1>7. (\E n \in 0..Len(tile') : Listed(n)') /\ \A i \in DOMAIN layers' : Whole(i)'
  BY <1>1, TablesStay
<1>8. Pass1' /\ Pass2' /\ Running'
  BY <1>1, <1>5, <1>6, <1>7 DEF Pass1, Pass2, Running
<1> QED
  BY <1>1, <1>3, <1>4, <1>8, RunKeeps

\* A feature goes to the sink, or the tile ends with it.
LEMMA StreamFeatureKeeps ==
  ASSUME IInv, StreamFeature
  PROVE  IInv'
<1> DEFINE caps == Reused(ring_caps, Token.rings)
           cap == IF Token.bytes > bytes_cap THEN Token.bytes ELSE bytes_cap
           entry == [at |-> consumed + 1, layer |-> Tables.at, tables |-> Tables.tables]
           received == Append(emitted, entry)
<1>1. /\ pc = "layer_features" /\ Tables.included /\ consumed < end /\ ~AtEnd
      /\ Token.k = "feature"
  BY DEF StreamFeature
<1>2. TypeOK /\ Reading /\ Running /\ consumed \in Nat /\ end \in Nat
  BY <1>1, SecondPass
<1>3. Token.bytes \in Nat /\ Token.rings \in Seq(Nat)
  BY <1>1, <1>2, Tokens
<1>4. caps \in Seq(Nat)
  <2> DEFINE rings == Token.rings
  <2>1. ring_caps \in Seq(Nat) /\ rings \in Seq(Nat)
    BY <1>2, <1>3 DEF TypeOK
  <2>2. Reused(ring_caps, rings) \in [1..Len(rings) -> Nat]
    <3> HIDE DEF rings
    <3> QED
      BY <2>1 DEF Reused
  <2>3. Len(rings) \in Nat
    BY <2>1, LenProperties
  <2> HIDE DEF rings
  <2>4. Reused(ring_caps, rings) \in Seq(Nat)
    BY <2>2, <2>3
  <2> QED
    BY <2>4 DEF rings
<1>5. cap \in Nat /\ Token.bytes \in 0..cap /\ bytes_cap \in Nat
  BY <1>2, <1>3 DEF TypeOK
<1>6. /\ consumed + 1 \in Body(tile, Tables.at)
      /\ Tables.tables = Cardinality({j \in Body(tile, Tables.at) : tile[j].k = "table"})
      /\ entry \in SinkRecord
  <2> DEFINE k == layer_index + 1
             at == layers[k].at
  <2>1. /\ Tables = layers[k] /\ k \in DOMAIN layers
        /\ at <= consumed /\ end = at + tile[at].len /\ Whole(k) /\ at \in Nat
    BY <1>1, Inside DEF Tables
  <2>2. consumed + 1 \in Body(tile, at)
    BY <1>1, <1>2, <2>1 DEF Body
  <2>3. layers[k].tables = Cardinality(TablesUpTo(at, at + tile[at].len))
    BY <1>1, <2>1 DEF Whole
  <2>4. TablesUpTo(at, at + tile[at].len) = {j \in Body(tile, at) : tile[j].k = "table"}
    BY DEF TablesUpTo, Body
  <2>5. layers[k].tables \in Nat
    BY <1>1, <2>1, SecondPass
  <2> QED
    BY <1>2, <2>1, <2>2, <2>3, <2>4, <2>5 DEF SinkRecord
<1>7. /\ Len(emitted) \in Nat /\ received \in Seq(SinkRecord) /\ emitted \in Seq(SinkRecord)
      /\ Len(received) = Len(emitted) + 1
      /\ \A i \in 1..Len(emitted) : received[i] = emitted[i]
      /\ received[Len(emitted) + 1] = entry
  <2>1. emitted \in Seq(SinkRecord) /\ entry \in SinkRecord
    BY <1>2, <1>6 DEF TypeOK, SinkRecord
  <2> HIDE DEF SinkRecord, entry
  <2> QED
    BY <2>1
<1>8. ASSUME UNCHANGED tile, emitted' \in {emitted, received} PROVE OwnLayerTables'
  <2> DEFINE n == Len(emitted)
             Owns(e) == /\ e.at \in Body(tile, e.layer)
                        /\ e.tables = Cardinality({j \in Body(tile, e.layer) : tile[j].k = "table"})
  <2>1. \A i \in 1..n : Owns(emitted[i])
    BY DEF IInv, OwnLayerTables
  <2>2. Owns(entry)
    BY <1>6
  <2>3. \A i \in 1..Len(emitted') : Owns(emitted'[i])
    <3> HIDE DEF Owns, entry, n
    <3>1. n \in Nat /\ n = Len(emitted) /\ Len(received) = n + 1
          /\ (\A i \in 1..n : received[i] = emitted[i]) /\ received[n + 1] = entry
      BY <1>7 DEF n
    <3>2. CASE emitted' = emitted
      BY <2>1, <3>1, <3>2
    <3>3. CASE emitted' = received
      <4> HIDE DEF received
      <4>1. \A i \in 1..n + 1 : i \in 1..n \/ i = n + 1
        BY <3>1
      <4> QED
        BY <2>1, <2>2, <3>1, <3>3, <4>1
    <3> QED
      BY <1>8, <3>2, <3>3
  <2> QED
    BY <1>8, <2>3 DEF OwnLayerTables, Body
<1>9. CASE /\ ring_caps' = caps /\ bytes_len' = Token.bytes /\ bytes_cap' = cap
           /\ emitted' = received
           /\ Next1
           /\ UNCHANGED <<pc, tile, end, layers, layer_index, result>>
  <2>1. /\ ring_caps' \in Seq(Nat) /\ bytes_cap' \in Nat /\ bytes_len' \in 0..bytes_cap'
        /\ emitted' \in Seq(SinkRecord) /\ consumed' = consumed + 1 /\ consumed' \in Nat
        /\ UNCHANGED <<pc, tile, end, layers, layer_index, result>>
    BY <1>2, <1>4, <1>5, <1>7, <1>9 DEF Next1
  <2>2. TypeOK'
    BY <1>2, <2>1 DEF TypeOK, SinkRecord
  <2>3. Reading' /\ Pass1' /\ Pass2'
    BY <1>1, <2>1, WithinLayer
  <2>4. OwnLayerTables'
    BY <1>8, <1>9
  <2> QED
    BY <1>1, <2>1, <2>2, <2>3, <2>4 DEF IInv, RetainedGeometryBounded
<1>10. CASE /\ \E outcome \in {"false", "threw"}, grown \in {ring_caps, caps} :
                 Exit(outcome, grown, Token.bytes, cap)
            /\ emitted' \in {emitted, received}
            /\ UNCHANGED <<stream, layer_index>>
  <2>1. PICK outcome \in {"false", "threw"}, grown \in {ring_caps, caps} :
          Exit(outcome, grown, Token.bytes, cap)
    BY <1>10
  <2>2. grown \in Seq(Nat)
    BY <1>2, <1>4 DEF TypeOK
  <2>3. /\ tile' \in Payloads \cup {NoTile} /\ consumed' \in Nat /\ end' \in Nat
        /\ layer_index' \in Nat /\ emitted' \in Seq(SinkRecord) /\ UNCHANGED tile
    BY <1>2, <1>7, <1>10 DEF TypeOK, stream
  <2>4. OwnLayerTables'
    BY <1>8, <1>10, <2>3
  <2> HIDE DEF cap, caps, received
  <2> QED
    BY <1>5, <2>1, <2>2, <2>3, <2>4, ExitKeeps
<1> QED
  BY <1>9, <1>10 DEF StreamFeature

-----------------------------------------------------------------------------
LEMMA StutterKeeps ==
  ASSUME IInv, UNCHANGED vars
  PROVE  IInv'
<1>1. /\ UNCHANGED <<pc, tile, consumed, end, layers, ring_caps, bytes_len, bytes_cap>>
      /\ UNCHANGED <<layer_index, emitted, result>>
  BY DEF vars, stream, scratch
<1>2. TypeOK' /\ Reading'
  BY <1>1 DEF IInv, TypeOK, Reading, Running
<1>3. Pass1'
  BY <1>1 DEF IInv, Pass1, Listed, LayerStarts, Whole, TablesUpTo, InLayer
<1>4. Pass2'
  BY <1>1 DEF IInv, Pass2, Listed, LayerStarts, Whole, TablesUpTo, InLayer, Passed
<1>5. OwnLayerTables'
  BY <1>1 DEF IInv, OwnLayerTables, Body
<1>6. RetainedGeometryBounded'
  BY <1>1 DEF IInv, RetainedGeometryBounded
<1> QED
  BY <1>2, <1>3, <1>4, <1>5, <1>6 DEF IInv

LEMMA NextKeeps == IInv /\ [Next]_vars => IInv'
<1> SUFFICES ASSUME IInv, [Next]_vars PROVE IInv'
  OBVIOUS
<1>1. CASE EnterLayer \/ ReadTableField \/ LeaveTables \/ BeginFeatures
  BY <1>1, EnterLayerKeeps, ReadTableFieldKeeps, LeaveTablesKeeps, BeginFeaturesKeeps
<1>2. CASE EnterFeatures \/ SkipLayer \/ LeaveFeatures
  BY <1>2, EnterFeaturesKeeps, PastLayerKeeps
<1>3. CASE StreamFeature \/ SkipField
  BY <1>3, StreamFeatureKeeps, SkipFieldKeeps
<1>4. CASE Finish \/ Refuse \/ Abort
  <2>1. \E outcome \in {"true", "false", "threw"} : Leaves(outcome)
    BY <1>4 DEF Finish, Refuse, Abort, Fails
  <2> QED
    BY <2>1, LeavesKeeps
<1>5. CASE \E p \in Payloads : StreamTile(p)
  BY <1>5, StreamTileKeeps
<1>6. CASE UNCHANGED vars
  BY <1>6, StutterKeeps
<1> QED
  BY <1>1, <1>2, <1>3, <1>4, <1>5, <1>6 DEF Next, Step

LEMMA Invariance == Spec => []IInv
BY InitEstablishes, NextKeeps, PTL DEF Spec

-----------------------------------------------------------------------------
(* What the sink has seen, on top of IInv.                                 *)

\* Of the names up to n in the layer at l, the last one asks for it.
Wanted(l, n) ==
  \E i \in l + 1..n : /\ tile[i].k = "name" /\ tile[i].included
                      /\ \A j \in l + 1..n : tile[j].k = "name" => j <= i

\* The layer listed at i is kept exactly when it is wanted.
Chosen(i) == layers[i].included <=> layers[i].at \in IncludedLayers(tile)

FeaturesUpTo(n) == {i \in Features(tile) : i <= n}

\* The sink has the wanted features up to n, each once, in payload order.
EmittedUpTo(n) ==
  /\ \A i, j \in 1..Len(emitted) : i < j => emitted[i].at < emitted[j].at
  /\ {emitted[i].at : i \in 1..Len(emitted)} = FeaturesUpTo(n)

\* The layers that start up to n end by n.
Closed(n) == \A l \in LayerStarts(tile) : l <= n => l + tile[l].len <= n

SinkPass1 ==
  /\ pc \in {"tables", "layer_tables"} => emitted = <<>>
  /\ pc = "tables" => \A i \in DOMAIN layers : Chosen(i)
  /\ pc = "layer_tables" =>
       /\ \A i \in 1..Len(layers) - 1 : Chosen(i)
       /\ layers[Len(layers)].included <=> Wanted(layers[Len(layers)].at, consumed)

SinkPass2 ==
  /\ pc \in {"features", "layer_features"} =>
       EmittedUpTo(consumed) /\ \A i \in DOMAIN layers : Chosen(i)
  /\ pc = "features" => Closed(consumed)
  /\ pc = "layer_features" => Closed(Tables.at - 1)

\* Also of a tile that failed.
SinkSoFar == tile # NoTile => \E n \in Nat : EmittedUpTo(n)

Accepted ==
  /\ Running => result = "none"
  /\ result = "true" =>
       pc = "idle" /\ tile # NoTile /\ (AtEnd \/ FillFails) /\ EmittedUpTo(consumed)

Sink == SinkPass1 /\ SinkPass2 /\ SinkSoFar /\ Accepted

\* No token lies in two layers.
LEMMA LayersApart ==
  ASSUME TypeOK, tile # NoTile,
         NEW l \in LayerStarts(tile), NEW m \in LayerStarts(tile), NEW i \in 1..Len(tile),
         i \in Body(tile, l), i \in Body(tile, m)
  PROVE  l = m
<1>1. tile \in Payloads
  BY DEF TypeOK
<1>2. Len(tile) \in Nat /\ l \in 1..Len(tile) /\ m \in 1..Len(tile)
  BY <1>1, PayloadAssumption DEF LayerStarts
<1>3. /\ tile[l].len \in Nat /\ tile[m].len \in Nat
      /\ tile[l].k = "layer" /\ tile[m].k = "layer"
      /\ \A j \in l + 1..l + tile[l].len : j <= Len(tile) => tile[j].k # "layer"
      /\ \A j \in m + 1..m + tile[m].len : j <= Len(tile) => tile[j].k # "layer"
  BY <1>1, <1>2, PayloadAssumption DEF LayerStarts
<1> DEFINE n == Len(tile)
           a == tile[l].len
           b == tile[m].len
<1>4. /\ n \in Nat /\ l \in 1..n /\ m \in 1..n /\ i \in 1..n /\ a \in Nat /\ b \in Nat
      /\ i \in l + 1..l + a /\ i \in m + 1..m + b
  BY <1>2, <1>3 DEF Body
<1>5. m \notin l + 1..l + a /\ l \notin m + 1..m + b
  BY <1>2, <1>3
<1> HIDE DEF n, a, b
<1> QED
  BY <1>4, <1>5

\* A feature inside a layer is wanted exactly when its layer is.
LEMMA FeatureOfLayer ==
  ASSUME TypeOK, tile # NoTile, NEW l \in LayerStarts(tile), NEW i \in 1..Len(tile),
         i \in Body(tile, l)
  PROVE  i \in Features(tile) <=> tile[i].k = "feature" /\ l \in IncludedLayers(tile)
<1>1. \A m \in IncludedLayers(tile) : m \in LayerStarts(tile)
  BY DEF IncludedLayers
<1>2. \A m \in IncludedLayers(tile) : i \in Body(tile, m) => m = l
  BY <1>1, LayersApart
<1> QED
  BY <1>2 DEF Features

\* No feature is wanted that lies between the layers.
LEMMA NoFeatureBetween ==
  ASSUME TypeOK, tile # NoTile, NEW c \in Nat, Closed(c)
  PROVE  c + 1 \notin Features(tile)
<1> SUFFICES ASSUME c + 1 \in Features(tile) PROVE FALSE
  OBVIOUS
<1>1. PICK l \in IncludedLayers(tile) : c + 1 \in Body(tile, l)
  BY DEF Features
<1>2. l \in LayerStarts(tile) /\ l \in Nat /\ tile[l].len \in Nat
  <2>1. tile \in Payloads /\ l \in LayerStarts(tile)
    BY DEF TypeOK, IncludedLayers
  <2>2. Len(tile) \in Nat /\ l \in 1..Len(tile)
    BY <2>1, PayloadAssumption DEF LayerStarts
  <2> QED
    BY <2>1, <2>2, PayloadAssumption DEF LayerStarts
<1>3. l <= c /\ c + 1 <= l + tile[l].len
  BY <1>1, <1>2 DEF Body
<1> QED
  BY <1>2, <1>3 DEF Closed

\* A position that brings no wanted feature leaves the sink up to date.
LEMMA NothingMissed ==
  ASSUME NEW c \in Nat, NEW d \in Nat, c <= d, EmittedUpTo(c), Features(tile) \in SUBSET Nat,
         \A i \in c + 1..d : i \notin Features(tile)
  PROVE  EmittedUpTo(d)
<1>1. FeaturesUpTo(d) = FeaturesUpTo(c)
  BY DEF FeaturesUpTo
<1> QED
  BY <1>1 DEF EmittedUpTo

LEMMA FeaturesAreNumbers ==
  ASSUME TypeOK, tile # NoTile
  PROVE  /\ Features(tile) \in SUBSET Nat /\ Features(tile) \subseteq 1..Len(tile)
         /\ Len(tile) \in Nat
<1>1. Len(tile) \in Nat
  BY PayloadAssumption DEF TypeOK
<1> QED
  BY <1>1 DEF Features

-----------------------------------------------------------------------------
LEMMA SinkInit == Init => Sink
BY DEF Init, Sink, SinkPass1, SinkPass2, SinkSoFar, Accepted, Running

\* A tile that ends leaves the sink with what it has.
LEMMA ExitKeepsSink ==
  ASSUME NEW outcome \in {"true", "false", "threw"}, NEW caps, NEW len, NEW cap,
         Exit(outcome, caps, len, cap), SinkSoFar',
         outcome = "true" => tile' # NoTile /\ (AtEnd \/ FillFails)' /\ EmittedUpTo(consumed)'
  PROVE  Sink'
<1>1. pc' \in {"idle", "terminated"}
  BY DEF Exit
<1>2. result' = "true" => pc' = "idle" /\ outcome = "true"
  BY DEF Exit
<1>3. SinkPass1' /\ SinkPass2'
  BY <1>1 DEF SinkPass1, SinkPass2
<1>4. Accepted'
  BY <1>1, <1>2 DEF Accepted, Running
<1> QED
  BY <1>3, <1>4 DEF Sink

\* Nothing reaches the sink: what it has stays what it was.
LEMMA SameSink ==
  ASSUME UNCHANGED <<tile, emitted>>
  PROVE  /\ \A n : EmittedUpTo(n) => EmittedUpTo(n)'
         /\ SinkSoFar => SinkSoFar'
         /\ \A n : Closed(n) => Closed(n)'
         /\ Features(tile)' = Features(tile) /\ IncludedLayers(tile)' = IncludedLayers(tile)
<1>1. Features(tile)' = Features(tile) /\ IncludedLayers(tile)' = IncludedLayers(tile)
  OBVIOUS
<1>2. \A n : EmittedUpTo(n) => EmittedUpTo(n)'
  BY <1>1 DEF EmittedUpTo, FeaturesUpTo
<1>3. \A n : Closed(n) => Closed(n)'
  BY DEF Closed
<1>4. SinkSoFar => SinkSoFar'
  BY <1>2 DEF SinkSoFar
<1> QED
  BY <1>1, <1>2, <1>3, <1>4

LEMMA LeavesKeepsSink ==
  ASSUME Sink, NEW outcome \in {"true", "false", "threw"}, Leaves(outcome),
         outcome = "true" => tile # NoTile /\ (AtEnd \/ FillFails) /\ EmittedUpTo(consumed)
  PROVE  Sink'
<1>1. Exit(outcome, ring_caps, bytes_len, bytes_cap) /\ UNCHANGED <<tile, consumed, emitted>>
  BY DEF Leaves, stream
<1>2. SinkSoFar'
  BY <1>1, SameSink DEF Sink
<1>3. ASSUME outcome = "true"
      PROVE  tile' # NoTile /\ (AtEnd \/ FillFails)' /\ EmittedUpTo(consumed)'
  <2>1. (AtEnd \/ FillFails)'
    BY <1>1, <1>3 DEF AtEnd, FillFails
  <2>2. EmittedUpTo(consumed)'
    BY <1>1, <1>3 DEF EmittedUpTo, FeaturesUpTo
  <2> QED
    BY <1>1, <1>3, <2>1, <2>2
<1> QED
  BY <1>1, <1>2, <1>3, ExitKeepsSink

\* At the start of a pass the sink has everything up to there.
LEMMA NothingYet ==
  ASSUME TypeOK, tile # NoTile, emitted = <<>>
  PROVE  EmittedUpTo(0) /\ Closed(0)
<1>1. FeaturesUpTo(0) = {}
  BY FeaturesAreNumbers DEF FeaturesUpTo
<1>2. \A l \in LayerStarts(tile) : ~(l <= 0)
  BY FeaturesAreNumbers DEF LayerStarts
<1>3. Len(emitted) = 0
  OBVIOUS
<1> QED
  BY <1>1, <1>2, <1>3 DEF EmittedUpTo, Closed

LEMMA NothingYetImplied == TypeOK /\ tile # NoTile /\ emitted = <<>> => EmittedUpTo(0) /\ Closed(0)
BY NothingYet

LEMMA StreamTileKeepsSink ==
  ASSUME IInv, IInv', Sink, NEW p \in Payloads, StreamTile(p)
  PROVE  Sink'
<1>1. tile' = p /\ consumed' = 0 /\ emitted' = <<>>
  BY DEF StreamTile
<1>2. TypeOK' /\ tile' # NoTile
  BY <1>1, StreamAssumption DEF IInv
<1>3. EmittedUpTo(0)'
  <2>1. (TypeOK /\ tile # NoTile /\ emitted = <<>>)'
    BY <1>1, <1>2
  <2> QED
    BY <2>1, NothingYetImplied, PTL
<1>4. SinkSoFar'
  BY <1>3 DEF SinkSoFar
<1>5. CASE pc' = "tables"
  <2>1. layers' = <<>> /\ result' = "none"
    BY <1>5 DEF StreamTile, Exit
  <2>2. SinkPass1' /\ SinkPass2' /\ Accepted'
    BY <1>1, <1>5, <2>1 DEF SinkPass1, SinkPass2, Accepted
  <2> QED
    BY <1>4, <2>2 DEF Sink
<1>6. CASE pc' # "tables"
  <2>1. PICK outcome \in {"false", "threw"} :
          Exit(outcome, ring_caps, bytes_len, bytes_cap) /\ UNCHANGED end
    BY <1>6 DEF StreamTile
  <2> QED
    BY <1>4, <2>1, ExitKeepsSink
<1> QED
  BY <1>5, <1>6

LEMMA EnterLayerKeepsSink ==
  ASSUME IInv, Sink, EnterLayer
  PROVE  Sink'
<1> DEFINE c == consumed + 1
           n == Len(layers)
           new == [at |-> c, named |-> FALSE, included |-> FALSE, tables |-> 0]
<1>1. pc = "tables" /\ consumed' = c /\ UNCHANGED <<tile, emitted, result>>
  BY DEF EnterLayer, Next1
<1>2. SinkSoFar'
  BY <1>1, SameSink DEF Sink
<1>3. emitted = <<>> /\ result = "none" /\ \A i \in DOMAIN layers : Chosen(i)
  BY <1>1 DEF Sink, SinkPass1, Accepted, Running
<1>4. CASE Token.k = "layer"
  <2>1. pc' = "layer_tables" /\ layers' = Append(layers, new)
    BY <1>4 DEF EnterLayer
  <2>2. /\ n \in Nat /\ DOMAIN layers = 1..n /\ Len(layers') = n + 1
        /\ \A i \in 1..n : layers'[i] = layers[i]
        /\ layers'[n + 1] = new /\ c \in Nat
    <3>1. layers \in Seq(LayerRecord) /\ new \in LayerRecord /\ c \in Nat
      BY DEF IInv, TypeOK, LayerRecord
    <3> HIDE DEF LayerRecord, new
    <3> QED
      BY <2>1, <3>1
  <2>3. \A i \in 1..Len(layers') - 1 : Chosen(i)'
    <3>1. \A i \in 1..n : Chosen(i)'
      BY <1>1, <1>3, <2>2, SameSink DEF Chosen
    <3> QED
      BY <2>2, <3>1
  <2>4. ~layers'[Len(layers')].included /\ layers'[Len(layers')].at = c
    BY <2>2
  <2>5. ~Wanted(layers[Len(layers)].at, consumed)'
    <3>1. layers'[Len(layers')].at = c /\ consumed' = c /\ c \in Nat
      BY <1>1, <2>2, <2>4
    <3> HIDE DEF c
    <3>2. \A i : i \notin c + 1..c
      BY <3>1
    <3> QED
      BY <3>1, <3>2 DEF Wanted
  <2>6. layers'[Len(layers')].included <=> Wanted(layers[Len(layers)].at, consumed)'
    BY <2>4, <2>5
  <2>7. SinkPass1'
    BY <1>1, <1>3, <2>1, <2>3, <2>6 DEF SinkPass1
  <2> QED
    BY <1>1, <1>2, <1>3, <2>1, <2>7 DEF Sink, SinkPass2, Accepted
<1>5. CASE Token.k # "layer"
  <2>1. pc' = pc /\ UNCHANGED layers
    BY <1>5 DEF EnterLayer
  <2>2. \A i \in DOMAIN layers' : Chosen(i)'
    BY <1>1, <1>3, <2>1, SameSink DEF Chosen
  <2> QED
    BY <1>1, <1>2, <1>3, <2>1, <2>2 DEF Sink, SinkPass1, SinkPass2, Accepted
<1> QED
  BY <1>4, <1>5

\* Of the names in a layer the last counts, in the tables as in the payload.
LEMMA ReadTableFieldKeepsSink ==
  ASSUME IInv, Sink, ReadTableField
  PROVE  Sink'
<1> DEFINE c == consumed + 1
           n == Len(layers)
           at == layers[n].at
<1>1. pc = "layer_tables" /\ pc' = pc /\ consumed' = c /\ UNCHANGED <<tile, emitted, result>>
  BY DEF ReadTableField, Next1
<1>2. SinkSoFar'
  BY <1>1, SameSink DEF Sink
<1>3. /\ emitted = <<>> /\ result = "none"
      /\ \A i \in 1..n - 1 : Chosen(i)
      /\ layers[n].included <=> Wanted(at, consumed)
  BY <1>1 DEF Sink, SinkPass1, Accepted, Running
<1>4. /\ n \in Nat \ {0} /\ DOMAIN layers = 1..n /\ n \in DOMAIN layers
      /\ layers[n] \in LayerRecord /\ layers \in Seq(LayerRecord)
  <2>1. layers \in Seq(LayerRecord) /\ layers # <<>>
    BY <1>1 DEF IInv, TypeOK, LayerRecord, Pass1
  <2> HIDE DEF LayerRecord
  <2> QED
    BY <2>1
<1>5. /\ DOMAIN layers' = 1..n /\ \A i \in 1..n - 1 : layers'[i] = layers[i]
      /\ layers'[n].at = at
      /\ Token.k = "name" => layers'[n].included = Token.included
      /\ Token.k # "name" => layers'[n].included = layers[n].included
  <2>1. CASE Token.k = "name"
    <3>1. layers' = [layers EXCEPT ![n] = [layers[n] EXCEPT !.named = TRUE, !.included = Token.included]]
      BY <1>4, <2>1 DEF ReadTableField, LayerRecord
    <3> QED
      BY <1>4, <2>1, <3>1 DEF LayerRecord
  <2>2. CASE Token.k = "table"
    <3>1. layers' = [layers EXCEPT ![n] = [layers[n] EXCEPT !.tables = layers[n].tables + 1]]
      BY <1>4, <2>2 DEF ReadTableField
    <3> QED
      BY <1>4, <2>2, <3>1 DEF LayerRecord
  <2>3. CASE Token.k \notin {"name", "table"}
    <3>1. layers' = layers
      BY <2>3 DEF ReadTableField
    <3> QED
      BY <1>4, <2>3, <3>1
  <2> QED
    BY <2>1, <2>2, <2>3
<1>6. Len(layers') = n
  <2>1. layers' \in Seq(LayerRecord)
    BY ReadTableFieldKeeps DEF IInv, TypeOK, LayerRecord
  <2> HIDE DEF n, LayerRecord
  <2> QED
    BY <1>4, <1>5, <2>1, LenProperties
<1>7. at \in Nat /\ at <= consumed /\ consumed \in Nat
  <2>1. consumed \in Nat /\ InLayer(n) /\ layers[n].at \in Nat
    BY <1>1, <1>4 DEF IInv, TypeOK, Pass1, LayerRecord
  <2> QED
    BY <2>1 DEF InLayer
<1>8. Wanted(at, c) <=> IF Token.k = "name" THEN Token.included ELSE Wanted(at, consumed)
  <2>1. (at + 1..c) = (at + 1..consumed) \cup {c} /\ \A j \in at + 1..consumed : j <= c /\ ~(c <= j)
    BY <1>7
  <2>2. c <= c
    BY <1>7
  <2>3. Token = tile[c]
    BY DEF Token
  <2> HIDE DEF c
  <2>4. CASE Token.k = "name"
    BY <2>1, <2>2, <2>3, <2>4 DEF Wanted
  <2>5. CASE Token.k # "name"
    BY <2>1, <2>3, <2>5 DEF Wanted
  <2> QED
    BY <2>4, <2>5
<1>9. layers'[Len(layers')].included <=> Wanted(at, c)
  BY <1>3, <1>5, <1>6, <1>8
<1>10. Wanted(layers[Len(layers)].at, consumed)' <=> Wanted(at, c)
  BY <1>1, <1>5, <1>6 DEF Wanted
<1>11. \A i \in 1..Len(layers') - 1 : Chosen(i)'
  <2>1. \A i \in 1..n - 1 : Chosen(i)'
    BY <1>1, <1>3, <1>5, SameSink DEF Chosen
  <2> QED
    BY <1>6, <2>1
<1>12. SinkPass1'
  BY <1>1, <1>3, <1>9, <1>10, <1>11 DEF SinkPass1
<1> QED
  BY <1>1, <1>2, <1>3, <1>12 DEF Sink, SinkPass2, Accepted

\* A layer that pass 1 left has been read to its end, so its last name is known.
LEMMA LeaveTablesKeepsSink ==
  ASSUME IInv, Sink, LeaveTables
  PROVE  Sink'
<1> DEFINE n == Len(layers)
           at == layers[n].at
<1>1. /\ pc = "layer_tables" /\ pc' = "tables" /\ consumed = end
      /\ UNCHANGED <<tile, consumed, emitted, result>>
  BY DEF LeaveTables, stream
<1>2. SinkSoFar'
  BY <1>1, SameSink DEF Sink
<1>3. /\ emitted = <<>> /\ result = "none"
      /\ \A i \in 1..n - 1 : Chosen(i)
      /\ layers[n].included <=> Wanted(at, consumed)
  BY <1>1 DEF Sink, SinkPass1, Accepted, Running
<1>4. /\ n \in Nat \ {0} /\ DOMAIN layers = 1..n /\ n \in DOMAIN layers
      /\ layers[n] \in LayerRecord
  <2>1. layers \in Seq(LayerRecord) /\ layers # <<>>
    BY <1>1 DEF IInv, TypeOK, LayerRecord, Pass1
  <2> HIDE DEF LayerRecord
  <2> QED
    BY <2>1
<1>5. /\ DOMAIN layers' = 1..n
      /\ \A i \in 1..n : layers'[i].at = layers[i].at /\ layers'[i].included = layers[i].included
  <2>1. CASE layers[n].included
    BY <1>4, <2>1 DEF LeaveTables
  <2>2. CASE ~layers[n].included
    <3>1. layers' = [layers EXCEPT ![n] = [layers[n] EXCEPT !.tables = 0]]
      BY <1>4, <2>2 DEF LeaveTables
    <3> QED
      BY <1>4, <3>1 DEF LayerRecord
  <2> QED
    BY <2>1, <2>2
<1>6. /\ consumed \in Nat /\ consumed <= Len(tile) /\ Len(tile) \in Nat
      /\ DOMAIN tile = 1..Len(tile)
      /\ at \in Nat /\ at \in LayerStarts(tile) /\ consumed = at + tile[at].len
  <2>1. Running /\ TypeOK /\ Reading /\ InLayer(n) /\ Listed(consumed)
    BY <1>1 DEF IInv, Running, Pass1
  <2>2. at \in LayerStarts(tile) /\ at \in Nat
    BY <1>4, <2>1 DEF Listed, LayerRecord
  <2>3. consumed \in Nat /\ consumed <= Len(tile) /\ Len(tile) \in Nat /\ DOMAIN tile = 1..Len(tile)
    BY <2>1, Tokens DEF Reading, TypeOK
  <2> QED
    BY <1>1, <2>1, <2>2, <2>3 DEF InLayer
<1>7. Wanted(at, consumed) <=> at \in IncludedLayers(tile)
  <2>1. Body(tile, at) = at + 1..consumed
    BY <1>6 DEF Body
  <2>2. Body(tile, at) \cap DOMAIN tile = at + 1..consumed
    BY <1>6, <2>1
  <2> QED
    BY <1>6, <2>2 DEF Wanted, IncludedLayers, LastName
<1>8. \A i \in DOMAIN layers' : Chosen(i)'
  <2>1. \A i \in 1..n : Chosen(i)
    <3>1. Chosen(n)
      BY <1>3, <1>7 DEF Chosen
    <3>2. n \in Nat
      BY <1>4
    <3> HIDE DEF n
    <3>3. \A i \in 1..n : i = n \/ i \in 1..n - 1
      BY <3>2
    <3> QED
      BY <1>3, <3>1, <3>3
  <2> QED
    BY <1>1, <1>5, <2>1, SameSink DEF Chosen
<1> QED
  BY <1>1, <1>2, <1>3, <1>8 DEF Sink, SinkPass1, SinkPass2, Accepted

LEMMA BeginFeaturesKeepsSink ==
  ASSUME IInv, Sink, BeginFeatures
  PROVE  Sink'
<1>1. /\ pc = "tables" /\ pc' = "features" /\ consumed' = 0
      /\ UNCHANGED <<tile, layers, emitted, result>>
  BY DEF BeginFeatures, scratch
<1>2. emitted = <<>> /\ result = "none" /\ \A i \in DOMAIN layers : Chosen(i)
  BY <1>1 DEF Sink, SinkPass1, Accepted, Running
<1>3. TypeOK /\ tile # NoTile
  BY <1>1, StreamAssumption DEF IInv, Reading, Running
<1>4. EmittedUpTo(0)' /\ Closed(0)' /\ SinkSoFar'
  BY <1>1, <1>2, <1>3, NothingYet, SameSink DEF Sink
<1>5. \A i \in DOMAIN layers' : Chosen(i)'
  BY <1>1, <1>2, SameSink DEF Chosen
<1>6. EmittedUpTo(consumed)' /\ Closed(consumed)'
  BY <1>1, <1>4 DEF EmittedUpTo, FeaturesUpTo, Closed
<1> QED
  BY <1>1, <1>2, <1>4, <1>5, <1>6 DEF Sink, SinkPass1, SinkPass2, Accepted

\* What a step of pass 2 starts from.
LEMMA SinkInPass2 ==
  ASSUME IInv, Sink, pc \in {"features", "layer_features"}
  PROVE  /\ TypeOK /\ tile # NoTile /\ consumed \in Nat /\ Len(tile) \in Nat
         /\ EmittedUpTo(consumed) /\ (\A i \in DOMAIN layers : Chosen(i)) /\ result = "none"
         /\ Features(tile) \in SUBSET Nat
         /\ pc = "features" => Closed(consumed)
         /\ pc = "layer_features" =>
              /\ Tables.at \in LayerStarts(tile) /\ Tables.at \in Nat
              /\ Tables.at <= consumed /\ consumed <= end
              /\ end \in Nat /\ end = Tables.at + tile[Tables.at].len
              /\ Closed(Tables.at - 1)
              /\ Tables.included <=> Tables.at \in IncludedLayers(tile)
<1>1. TypeOK /\ Running /\ tile # NoTile /\ consumed \in Nat /\ end \in Nat
  BY StreamAssumption DEF IInv, TypeOK, Reading, Running
<1>2. EmittedUpTo(consumed) /\ (\A i \in DOMAIN layers : Chosen(i)) /\ result = "none"
  BY <1>1 DEF Sink, SinkPass2, Accepted
<1>3. ASSUME pc = "layer_features"
      PROVE  /\ Tables.at \in LayerStarts(tile) /\ Tables.at \in Nat
             /\ Tables.at <= consumed /\ consumed <= end
             /\ end = Tables.at + tile[Tables.at].len
             /\ Closed(Tables.at - 1)
             /\ Tables.included <=> Tables.at \in IncludedLayers(tile)
  <2>1. /\ layer_index + 1 \in DOMAIN layers /\ Tables = layers[layer_index + 1]
        /\ Tables.at \in LayerStarts(tile) /\ Tables.at \in Nat
        /\ Tables.at <= consumed /\ consumed <= end
        /\ end = Tables.at + tile[Tables.at].len
    BY <1>3, Inside
  <2>2. Tables.included <=> Tables.at \in IncludedLayers(tile)
    BY <1>2, <2>1 DEF Chosen
  <2> QED
    BY <1>3, <2>1, <2>2 DEF Sink, SinkPass2
<1>4. pc = "features" => Closed(consumed)
  BY DEF Sink, SinkPass2
<1> QED
  BY <1>1, <1>2, <1>3, <1>4, FeaturesAreNumbers

\* A step of pass 2 that keeps the sink up to date at the new position.
LEMMA Pass2KeepsSink ==
  ASSUME IInv, Sink, pc \in {"features", "layer_features"},
         pc' \in {"features", "layer_features"}, UNCHANGED <<tile, layers, result>>,
         consumed' \in Nat, EmittedUpTo(consumed)',
         pc' = "features" => Closed(consumed)',
         pc' = "layer_features" => Closed(Tables.at - 1)'
  PROVE  Sink'
<1>1. (\A i \in DOMAIN layers : Chosen(i)) /\ result = "none"
  BY SinkInPass2
<1>2. \A i \in DOMAIN layers' : Chosen(i)'
  BY <1>1 DEF Chosen
<1>3. SinkSoFar'
  BY DEF SinkSoFar
<1> QED
  BY <1>1, <1>2, <1>3 DEF Sink, SinkPass1, SinkPass2, Accepted

LEMMA EnterFeaturesKeepsSink ==
  ASSUME IInv, Sink, EnterFeatures
  PROVE  Sink'
<1> DEFINE c == consumed + 1
<1>1. /\ pc = "features" /\ ~AtEnd /\ consumed' = c
      /\ UNCHANGED <<tile, layers, layer_index, emitted, result>>
  BY DEF EnterFeatures, Next1, scratch
<1>2. /\ TypeOK /\ tile # NoTile /\ consumed \in Nat /\ c \in Nat
      /\ EmittedUpTo(consumed) /\ Closed(consumed) /\ Features(tile) \in SUBSET Nat
  BY <1>1, SinkInPass2
<1>3. c \notin Features(tile)
  BY <1>2, NoFeatureBetween
<1>4. EmittedUpTo(c)
  <2>1. \A i \in consumed + 1..c : i = c
    BY <1>2
  <2>2. \A i \in consumed + 1..c : i \notin Features(tile)
    BY <1>3, <2>1
  <2>3. consumed <= c
    BY <1>2
  <2> HIDE DEF c
  <2> QED
    BY <1>2, <2>2, <2>3, NothingMissed
<1>5. EmittedUpTo(consumed)'
  BY <1>1, <1>4 DEF EmittedUpTo, FeaturesUpTo
<1>6. /\ c \in 1..Len(tile) /\ (c \in LayerStarts(tile) <=> Token.k = "layer")
      /\ \A l \in LayerStarts(tile) : l \in Nat /\ tile[l].len \in Nat
  <2>1. Reading /\ Running
    BY <1>1, SecondPass
  <2>2. Len(tile) \in Nat
    BY <1>2, FeaturesAreNumbers
  <2> QED
    BY <1>1, <1>2, <2>1, <2>2, Tokens
<1>7. CASE Token.k = "layer"
  <2>1. pc' = "layer_features" /\ layer_index < Len(layers)
    BY <1>7 DEF EnterFeatures
  <2>2. Tables'.at = c
    <3>1. layers[layer_index + 1].at = c
      BY <1>1, <1>7, <2>1, SameLayer
    <3> QED
      BY <1>1, <3>1 DEF Tables
  <2>3. Tables'.at - 1 = consumed
    BY <1>2, <2>2
  <2>4. Closed(Tables.at - 1)'
    BY <1>1, <1>2, <2>3 DEF Closed
  <2> QED
    BY <1>1, <1>2, <1>5, <2>1, <2>4, Pass2KeepsSink
<1>8. CASE Token.k # "layer"
  <2>1. pc' = pc
    BY <1>8 DEF EnterFeatures
  <2>2. Closed(c)
    <3> SUFFICES ASSUME NEW l \in LayerStarts(tile), l <= c PROVE l + tile[l].len <= c
      BY DEF Closed
    <3>1. l # c /\ l \in Nat /\ tile[l].len \in Nat
      BY <1>6, <1>8
    <3>2. l <= consumed
      BY <1>2, <3>1
    <3>3. l + tile[l].len <= consumed
      BY <1>2, <3>2 DEF Closed
    <3> QED
      BY <1>2, <3>1, <3>3
  <2>3. Closed(consumed)'
    BY <1>1, <2>2 DEF Closed
  <2> QED
    BY <1>1, <1>2, <1>5, <2>1, <2>3, Pass2KeepsSink
<1> QED
  BY <1>7, <1>8

\* The end of a layer closes it, and with it all before it.
LEMMA LayerCloses ==
  ASSUME IInv, Sink, pc = "layer_features"
  PROVE  Closed(end)
<1>1. /\ TypeOK /\ tile # NoTile /\ Tables.at \in LayerStarts(tile) /\ Tables.at \in Nat
      /\ end \in Nat /\ end = Tables.at + tile[Tables.at].len /\ Closed(Tables.at - 1)
  BY SinkInPass2
<1>2. /\ \A l \in LayerStarts(tile) : l \in Nat /\ tile[l].len \in Nat
      /\ \A l \in LayerStarts(tile) : l \notin Tables.at + 1..end
  <2>1. Reading /\ Running /\ TypeOK
    BY SecondPass
  <2>2. Len(tile) \in Nat
    BY <1>1, FeaturesAreNumbers
  <2> QED
    BY <1>1, <2>1, <2>2, Tokens
<1> SUFFICES ASSUME NEW l \in LayerStarts(tile), l <= end PROVE l + tile[l].len <= end
  BY DEF Closed
<1>3. l \in Nat /\ tile[l].len \in Nat /\ l <= Tables.at
  BY <1>1, <1>2
<1>4. CASE l = Tables.at
  BY <1>1, <1>4
<1>5. CASE l # Tables.at
  <2>1. l <= Tables.at - 1
    BY <1>1, <1>3, <1>5
  <2>2. l + tile[l].len <= Tables.at - 1
    BY <1>1, <2>1 DEF Closed
  <2>3. Tables.at <= end
    BY <1>1, <1>2
  <2> QED
    BY <1>1, <1>3, <2>2, <2>3
<1> QED
  BY <1>4, <1>5

LEMMA PastLayerKeepsSink ==
  ASSUME IInv, Sink, SkipLayer \/ LeaveFeatures
  PROVE  Sink'
<1>1. /\ pc = "layer_features" /\ pc' = "features" /\ consumed' = end
      /\ UNCHANGED <<tile, layers, emitted, result>>
  BY DEF SkipLayer, LeaveFeatures, scratch, stream
<1>2. /\ TypeOK /\ tile # NoTile /\ consumed \in Nat /\ Len(tile) \in Nat
      /\ EmittedUpTo(consumed) /\ Features(tile) \in SUBSET Nat
      /\ Tables.at \in LayerStarts(tile) /\ Tables.at \in Nat
      /\ Tables.at <= consumed /\ consumed <= end
      /\ end \in Nat /\ end = Tables.at + tile[Tables.at].len
      /\ Tables.included <=> Tables.at \in IncludedLayers(tile)
  BY <1>1, SinkInPass2
<1>3. EmittedUpTo(end)
  <2>1. CASE SkipLayer
    <3>1. ~Tables.included /\ end <= Len(tile)
      BY <2>1 DEF SkipLayer
    <3>2. ASSUME NEW i \in consumed + 1..end PROVE i \notin Features(tile)
      <4>1. i \in 1..Len(tile) /\ i \in Body(tile, Tables.at)
        BY <1>2, <3>1 DEF Body
      <4> QED
        BY <1>2, <3>1, <4>1, FeatureOfLayer
    <3> QED
      BY <1>2, <3>2, NothingMissed
  <2>2. CASE LeaveFeatures
    BY <1>2, <2>2 DEF LeaveFeatures
  <2> QED
    BY <2>1, <2>2
<1>4. Closed(end)
  BY <1>1, LayerCloses
<1>5. EmittedUpTo(consumed)' /\ Closed(consumed)'
  BY <1>1, <1>3, <1>4 DEF EmittedUpTo, FeaturesUpTo, Closed
<1> QED
  BY <1>1, <1>2, <1>5, Pass2KeepsSink

\* Inside a layer that is kept, every feature is a wanted one.
LEMMA FeatureHere ==
  ASSUME IInv, Sink, pc = "layer_features", Tables.included, consumed < end, ~AtEnd
  PROVE  /\ consumed + 1 \in Nat /\ consumed \in Nat
         /\ consumed + 1 \in Features(tile) <=> Token.k = "feature"
<1>1. /\ TypeOK /\ tile # NoTile /\ consumed \in Nat
      /\ Tables.at \in LayerStarts(tile) /\ Tables.at \in Nat
      /\ Tables.at <= consumed
      /\ end \in Nat /\ end = Tables.at + tile[Tables.at].len
      /\ Tables.at \in IncludedLayers(tile)
  BY SinkInPass2
<1>2. consumed + 1 \in 1..Len(tile)
  BY <1>1, SecondPass, Tokens
<1>3. consumed + 1 \in Body(tile, Tables.at)
  BY <1>1 DEF Body
<1>4. consumed + 1 \in Features(tile) <=> tile[consumed + 1].k = "feature"
  BY <1>1, <1>2, <1>3, FeatureOfLayer
<1> QED
  BY <1>1, <1>4 DEF Token

LEMMA SkipFieldKeepsSink ==
  ASSUME IInv, Sink, SkipField
  PROVE  Sink'
<1> DEFINE c == consumed + 1
<1>1. /\ pc = "layer_features" /\ pc' = pc /\ consumed' = c
      /\ Tables.included /\ consumed < end /\ ~AtEnd /\ Token.k # "feature"
      /\ UNCHANGED <<tile, layers, layer_index, emitted, result>>
  BY DEF SkipField, Next1, scratch
<1>2. consumed \in Nat /\ c \in Nat /\ c \notin Features(tile)
  BY <1>1, FeatureHere
<1>3. EmittedUpTo(consumed) /\ Features(tile) \in SUBSET Nat /\ Closed(Tables.at - 1)
  BY <1>1, SinkInPass2
<1>4. EmittedUpTo(c)
  <2>1. consumed <= c /\ \A i \in consumed + 1..c : i = c
    BY <1>2
  <2> HIDE DEF c
  <2> QED
    BY <1>2, <1>3, <2>1, NothingMissed
<1>5. EmittedUpTo(consumed)' /\ Closed(Tables.at - 1)'
  BY <1>1, <1>3, <1>4 DEF EmittedUpTo, FeaturesUpTo, Closed, Tables
<1> QED
  BY <1>1, <1>2, <1>5, Pass2KeepsSink

LEMMA StreamFeatureKeepsSink ==
  ASSUME IInv, Sink, StreamFeature
  PROVE  Sink'
<1> DEFINE c == consumed + 1
           n == Len(emitted)
           entry == [at |-> c, layer |-> Tables.at, tables |-> Tables.tables]
           received == Append(emitted, entry)
           At(s) == {s[i].at : i \in 1..Len(s)}
<1>1. /\ pc = "layer_features" /\ Tables.included /\ consumed < end /\ ~AtEnd
      /\ Token.k = "feature"
  BY DEF StreamFeature
<1>2. consumed \in Nat /\ c \in Nat /\ c \in Features(tile)
  BY <1>1, FeatureHere
<1>3. /\ EmittedUpTo(consumed) /\ Features(tile) \in SUBSET Nat /\ Closed(Tables.at - 1)
      /\ result = "none"
  BY <1>1, SinkInPass2
<1>4. /\ n \in Nat /\ Len(received) = n + 1
      /\ \A i \in 1..n : received[i] = emitted[i] /\ emitted[i].at \in Nat
      /\ received[n + 1].at = c
  <2>1. emitted \in Seq(SinkRecord) /\ \A r \in SinkRecord : r.at \in Nat
    BY DEF IInv, TypeOK, SinkRecord
  <2>2. n \in Nat /\ \A i \in 1..n : emitted[i] \in SinkRecord
    <3> HIDE DEF SinkRecord
    <3> QED
      BY <2>1
  <2>3. /\ Len(received) = n + 1 /\ received[n + 1] = entry
        /\ \A i \in 1..n : received[i] = emitted[i]
    <3> HIDE DEF SinkRecord, entry
    <3> QED
      BY <2>1, <2>2
  <2> QED
    BY <2>1, <2>2, <2>3
<1>5. ASSUME emitted' = received, UNCHANGED tile, NEW m \in Nat, m = c PROVE EmittedUpTo(m)'
  <2>1. \A i \in 1..n : emitted[i].at <= consumed
    BY <1>3 DEF EmittedUpTo, FeaturesUpTo
  <2>2. \A i, j \in 1..n + 1 : i < j => received[i].at < received[j].at
    <3>1. \A i, j \in 1..n : i < j => received[i].at < received[j].at
      BY <1>3, <1>4 DEF EmittedUpTo
    <3>2. \A i \in 1..n : received[i].at < received[n + 1].at
      BY <1>2, <1>4, <2>1
    <3>3. n \in Nat
      BY <1>4
    <3> HIDE DEF n, received
    <3>4. \A i, j \in 1..n + 1 : i < j => i \in 1..n /\ (j \in 1..n \/ j = n + 1)
      BY <3>3
    <3> QED
      BY <3>1, <3>2, <3>4
  <2>3. {received[i].at : i \in 1..n + 1} = FeaturesUpTo(consumed) \cup {c}
    <3>1. {emitted[i].at : i \in 1..n} = FeaturesUpTo(consumed)
      BY <1>3 DEF EmittedUpTo
    <3>2. n \in Nat
      BY <1>4
    <3> HIDE DEF received, n
    <3>3. 1..n + 1 = (1..n) \cup {n + 1}
      BY <3>2
    <3> QED
      BY <1>4, <3>1, <3>3
  <2>4. FeaturesUpTo(consumed) \cup {c} = FeaturesUpTo(c)
    BY <1>2, <1>3 DEF FeaturesUpTo
  <2>5. FeaturesUpTo(m)' = FeaturesUpTo(c)
    BY <1>5 DEF FeaturesUpTo
  <2>6. Len(emitted') = n + 1
    BY <1>4, <1>5
  <2> QED
    BY <1>5, <2>2, <2>3, <2>4, <2>5, <2>6 DEF EmittedUpTo
<1>6. CASE /\ emitted' = received /\ Next1
           /\ UNCHANGED <<pc, tile, end, layers, layer_index, result>>
  <2>1. PICK m \in Nat : m = c
    BY <1>2
  <2>2. EmittedUpTo(m)' /\ consumed' = m
    BY <1>5, <1>6, <2>1 DEF Next1
  <2>3. EmittedUpTo(consumed)'
    BY <2>2 DEF EmittedUpTo, FeaturesUpTo
  <2>4. Closed(Tables.at - 1)'
    BY <1>3, <1>6 DEF Closed, Tables
  <2> QED
    BY <1>1, <1>6, <2>2, <2>3, <2>4, Pass2KeepsSink
<1>7. CASE /\ \E outcome \in {"false", "threw"}, grown \in {ring_caps, Reused(ring_caps, Token.rings)} :
                 Exit(outcome, grown, Token.bytes,
                      IF Token.bytes > bytes_cap THEN Token.bytes ELSE bytes_cap)
           /\ emitted' \in {emitted, received}
           /\ UNCHANGED <<stream, layer_index>>
  <2>1. UNCHANGED tile
    BY <1>7 DEF stream
  <2>2. SinkSoFar'
    <3>1. CASE emitted' = emitted
      BY <2>1, <3>1, SameSink DEF Sink
    <3>2. CASE emitted' = received
      <4>1. PICK m \in Nat : m = c
        BY <1>2
      <4>2. EmittedUpTo(m)'
        BY <1>5, <2>1, <3>2, <4>1
      <4> QED
        BY <4>2 DEF SinkSoFar
    <3> QED
      BY <1>7, <3>1, <3>2
  <2>3. PICK outcome \in {"false", "threw"}, grown \in {ring_caps, Reused(ring_caps, Token.rings)} :
          Exit(outcome, grown, Token.bytes,
               IF Token.bytes > bytes_cap THEN Token.bytes ELSE bytes_cap)
    BY <1>7
  <2> QED
    BY <2>2, <2>3, ExitKeepsSink
<1> QED
  BY <1>6, <1>7 DEF StreamFeature

LEMMA SinkNext == IInv /\ IInv' /\ Sink /\ [Next]_vars => Sink'
<1> SUFFICES ASSUME IInv, IInv', Sink, [Next]_vars PROVE Sink'
  OBVIOUS
<1>1. CASE EnterLayer \/ ReadTableField \/ LeaveTables \/ BeginFeatures
  BY <1>1, EnterLayerKeepsSink, ReadTableFieldKeepsSink, LeaveTablesKeepsSink, BeginFeaturesKeepsSink
<1>2. CASE EnterFeatures \/ SkipLayer \/ LeaveFeatures
  BY <1>2, EnterFeaturesKeepsSink, PastLayerKeepsSink
<1>3. CASE StreamFeature \/ SkipField
  BY <1>3, StreamFeatureKeepsSink, SkipFieldKeepsSink
<1>4. CASE Finish
  <2>1. /\ pc = "features" /\ (AtEnd \/ FillFails)
        /\ \E outcome \in {"true", "false"} : Leaves(outcome)
    BY <1>4 DEF Finish
  <2>2. EmittedUpTo(consumed) /\ tile # NoTile
    BY <2>1, SinkInPass2
  <2> QED
    BY <2>1, <2>2, LeavesKeepsSink
<1>5. CASE Refuse \/ Abort
  <2>1. \E outcome \in {"false", "threw"} : Leaves(outcome)
    BY <1>5 DEF Refuse, Abort, Fails
  <2> QED
    BY <2>1, LeavesKeepsSink
<1>6. CASE \E p \in Payloads : StreamTile(p)
  BY <1>6, StreamTileKeepsSink
<1>7. CASE UNCHANGED vars
  <2>1. /\ UNCHANGED <<pc, tile, consumed, end, layers, layer_index, emitted, result>>
    BY <1>7 DEF vars, stream, scratch
  <2>2. SinkPass1'
    BY <2>1 DEF Sink, SinkPass1, Chosen, Wanted
  <2>3. SinkPass2'
    BY <2>1 DEF Sink, SinkPass2, Chosen, EmittedUpTo, FeaturesUpTo, Closed, Tables
  <2>4. SinkSoFar' /\ Accepted'
    BY <2>1 DEF Sink, SinkSoFar, Accepted, Running, AtEnd, FillFails, EmittedUpTo, FeaturesUpTo
  <2> QED
    BY <2>2, <2>3, <2>4 DEF Sink
<1> QED
  BY <1>1, <1>2, <1>3, <1>4, <1>5, <1>6, <1>7 DEF Next, Step

LEMMA SinkInvariance == Spec => [](IInv /\ Sink)
<1>1. IInv /\ Sink /\ [Next]_vars => IInv' /\ Sink'
  BY NextKeeps, SinkNext
<1> QED
  BY <1>1, InitEstablishes, SinkInit, PTL DEF Spec

-----------------------------------------------------------------------------
(* The sink's positions, as the properties put them.                       *)

LEMMA SinkInOrder ==
  ASSUME TypeOK, tile # NoTile, NEW n \in Nat, EmittedUpTo(n)
  PROVE  /\ Positions = InOrder(FeaturesUpTo(n))
         /\ IsPrefix(Positions, InOrder(Features(tile)))
<1> DEFINE m == Len(emitted)
           s == Positions
           G == FeaturesUpTo(n)
           F == Features(tile)
<1>1. F \in SUBSET Nat /\ IsFiniteSet(F) /\ Len(tile) \in Nat
  <2>1. F \in SUBSET Nat /\ F \subseteq 1..Len(tile) /\ Len(tile) \in Nat
    BY FeaturesAreNumbers
  <2>2. IsFiniteSet(1..Len(tile))
    BY <2>1, FS_Interval
  <2> QED
    BY <2>1, <2>2, FS_Subset
<1>2. G \in SUBSET Nat /\ IsFiniteSet(G) /\ G \subseteq F
  <2>1. G \subseteq F
    BY DEF FeaturesUpTo
  <2> HIDE DEF G, F
  <2> QED
    BY <1>1, <2>1, FS_Subset
<1>3. m \in Nat /\ s \in [1..m -> Nat] /\ \A i \in 1..m : s[i] = emitted[i].at
  <2>1. emitted \in Seq(SinkRecord) /\ \A r \in SinkRecord : r.at \in Nat
    BY DEF TypeOK, SinkRecord
  <2>2. m \in Nat /\ \A i \in 1..m : emitted[i] \in SinkRecord
    <3> HIDE DEF SinkRecord
    <3> QED
      BY <2>1
  <2>3. \A i \in 1..m : emitted[i].at \in Nat
    BY <2>1, <2>2
  <2> QED
    BY <2>2, <2>3 DEF Positions
<1>4. \A i, j \in 1..m : i < j => s[i] < s[j]
  BY <1>3 DEF EmittedUpTo
<1>5. {s[i] : i \in 1..m} = G
  BY <1>3 DEF EmittedUpTo
<1>6. /\ \A i \in 1..m : s[i] \in G /\ s[i] \in F /\ s[i] <= n
      /\ \A x \in G : \E j \in 1..m : x = s[j]
  <2>1. \A x \in G : x <= n
    BY DEF FeaturesUpTo
  <2> HIDE DEF G, s
  <2> QED
    BY <1>2, <1>5, <2>1
<1>7. \A i \in 1..m : \A x \in F : x <= s[i] => \E j \in 1..m : x = s[j]
  <2>1. \A i \in 1..m : \A x \in F : x <= s[i] => x \in G
    <3>1. \A x \in F : x <= n => x \in G
      BY DEF FeaturesUpTo
    <3>2. \A i \in 1..m : s[i] \in Nat
      BY <1>3
    <3> HIDE DEF G, s, F, m
    <3> QED
      BY <1>1, <1>6, <3>1, <3>2
  <2> HIDE DEF G, s, F, m
  <2> QED
    BY <1>6, <2>1
<1> HIDE DEF s, G, F, m
<1>8. /\ m = Cardinality(G)
      /\ \A k \in 1..m : s[k] = CHOOSE x \in G : Cardinality({y \in G : y < x}) = k - 1
  <2>1. \A i \in 1..m : \A x \in G : x <= s[i] => \E j \in 1..m : x = s[j]
    BY <1>6
  <2>2. \A i \in 1..m : s[i] \in G
    BY <1>6
  <2> QED
    BY <1>2, <1>3, <1>4, <1>6, <2>1, <2>2, PlaceIsRank
<1>9. /\ m <= Cardinality(F)
      /\ \A k \in 1..m : s[k] = CHOOSE x \in F : Cardinality({y \in F : y < x}) = k - 1
  <2>1. \A i \in 1..m : s[i] \in F
    BY <1>6
  <2> QED
    BY <1>1, <1>3, <1>4, <1>7, <2>1, PlaceIsRank
<1>10. s = InOrder(G)
  BY <1>3, <1>8 DEF InOrder
<1>11. IsPrefix(s, InOrder(F))
  <2> DEFINE t == InOrder(F)
             c == Cardinality(F)
  <2>1. c \in Nat
    BY <1>1, FS_CardinalityType
  <2>2. Len(t) = c /\ DOMAIN t = 1..c /\ \A k \in 1..m : t[k] = s[k]
    <3>1. DOMAIN t = 1..c /\ t = [k \in 1..c |-> t[k]]
      BY DEF InOrder
    <3>2. \A k \in 1..m : k \in 1..c
      BY <1>3, <1>9, <2>1
    <3>3. \A k \in 1..m : t[k] = s[k]
      BY <1>9, <3>2 DEF InOrder
    <3> HIDE DEF t, c
    <3>4. Len(t) = c
      BY <2>1, <3>1
    <3> QED
      BY <3>1, <3>3, <3>4
  <2>3. Len(s) = m
    BY <1>3
  <2>4. SubSeq(s, 1, m) = SubSeq(t, 1, m)
    <3> HIDE DEF t, c
    <3>1. SubSeq(s, 1, m) = [i \in 1..m |-> s[i]] /\ SubSeq(t, 1, m) = [i \in 1..m |-> t[i]]
      BY <1>3, <1>9, <2>1, <2>2, <2>3
    <3> QED
      BY <2>2, <3>1
  <2> QED
    BY <1>9, <2>2, <2>3, <2>4 DEF IsPrefix
<1> QED
  BY <1>10, <1>11 DEF s, G, F

\* SinkSeesAPrefix: whatever fails, throws or ends early, and in any tile that
\* follows, StreamMvtTile hands the sink the wanted features of the payload from
\* the first on, in order, none twice and none left out.
THEOREM SinkGetsAPrefix == Spec => []SinkSeesAPrefix
<1>1. IInv /\ Sink => SinkSeesAPrefix
  <2> SUFFICES ASSUME IInv, Sink, tile # NoTile
               PROVE  IsPrefix(Positions, InOrder(Features(tile)))
    BY DEF SinkSeesAPrefix
  <2>1. PICK n \in Nat : EmittedUpTo(n)
    BY DEF Sink, SinkSoFar
  <2> QED
    BY <2>1, SinkInOrder DEF IInv
<1> QED
  BY <1>1, SinkInvariance, PTL

\* AcceptedUpToTheEnd: when StreamMvtTile returns true, the sink has every wanted
\* feature up to the place where AtEnd() ended the second pass: nothing that
\* was read on the way was passed over, for any payload and any run ends.
THEOREM AcceptedHasAll == Spec => []AcceptedUpToTheEnd
<1>1. IInv /\ Sink => AcceptedUpToTheEnd
  <2> SUFFICES ASSUME IInv, Sink, result = "true"
               PROVE  /\ AtEnd \/ FillFails
                      /\ Positions = InOrder({i \in Features(tile) : i <= consumed})
    BY DEF AcceptedUpToTheEnd
  <2>1. tile # NoTile /\ (AtEnd \/ FillFails) /\ EmittedUpTo(consumed)
    BY DEF Sink, Accepted
  <2>2. TypeOK /\ consumed \in Nat
    BY DEF IInv, TypeOK
  <2> QED
    BY <2>1, <2>2, SinkInOrder DEF FeaturesUpTo
<1> QED
  BY <1>1, SinkInvariance, PTL

\* TypeOK: also that the scratch's bytes never outgrow their buffer, however
\* StreamMvtTile came to its end.
THEOREM StreamTyped == Spec => []TypeOK
<1>1. IInv => TypeOK
  BY DEF IInv
<1> QED
  BY <1>1, Invariance, PTL

\* OwnLayerTables: the two passes of StreamMvtTile agree on the layers of every
\* payload, so each feature meets the complete tables of its own layer, whatever
\* is excluded, and wherever reads fail and runs of inflated bytes end.
THEOREM TablesMatch == Spec => []OwnLayerTables
<1>1. IInv => OwnLayerTables
  BY DEF IInv
<1> QED
  BY <1>1, Invariance, PTL

\* RetainedGeometryBounded: TrimOnExit gives up a dense tile's rings and every
\* table on each way out of StreamMvtTile, for any limit and any payload.
THEOREM TrimmedOnExit == Spec => []RetainedGeometryBounded
<1>1. IInv => RetainedGeometryBounded
  BY DEF IInv
<1> QED
  BY <1>1, Invariance, PTL
=============================================================================
