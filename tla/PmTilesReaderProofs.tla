------------------------ MODULE PmTilesReaderProofs ------------------------
(***************************************************************************)
(* What PmTilesReader guarantees for every archive, cache size and hop     *)
(* limit.  The two directory searches stay opaque: all that is used of     *)
(* them is ArchiveSound, that each directory accounts for the ids it       *)
(* serves.                                                                 *)
(***************************************************************************)
EXTENDS PmTilesReader, TLAPS

Places == [offset : Nat, length : Nat]

\* The inductive invariant.  LeafCacheCoherent is what makes a hit as good as
\* a read, OpenHasRoot what makes the first search right, CallOnTrack carries
\* both from hop to hop.
IInv == TypeOK /\ LeafCacheCoherent /\ OpenHasRoot /\ CallOnTrack

USE ReaderAssumption

-----------------------------------------------------------------------------
(* Facts about single steps, used for each part of the invariant.          *)

\* A call moved one leaf on is a call.
LEMMA AdvancedCall ==
  ASSUME NEW c \in CallType, NEW h \in 0..MaxLeafHops, NEW f \in Answer
  PROVE  [c EXCEPT !.hops = h, !.found = f] \in CallType
  BY DEF CallType

\* The test of the count, for a call.
LEMMA HopsLeft ==
  ASSUME call \in CallType
  PROVE  HopsSpent <=> ~(call.hops < MaxLeafHops)
  BY ArchiveSound DEF HopsSpent, CallType

\* A leaf that a call on track asks for exists and serves the id asked.
LEMMA WantedServes ==
  ASSUME IInv, AtLeaf, ~HopsSpent
  PROVE  /\ Wanted \in Keys
         /\ <<Wanted, call.tile_id>> \in Serves[call.hops + 1]
         /\ call.hops + 1 \in 1..MaxLeafHops
<1>1. call \in CallType
  BY DEF IInv, TypeOK, AtLeaf
<1>2. <<Wanted, call.tile_id>> \in Serves[call.hops + 1]
  BY <1>1, HopsLeft DEF IInv, CallOnTrack, Accounts, AtLeaf, Wanted
<1>3. call.hops + 1 \in 1..MaxLeafHops
  BY <1>1, HopsLeft DEF CallType
<1>4. Serves[call.hops + 1] \subseteq Keys \X TileIds
  BY <1>3, ArchiveSound
<1>5. QED
  BY <1>2, <1>3, <1>4

\* Searching the right bytes keeps the call on track.
LEMMA SearchOnTrack ==
  ASSUME IInv, AtLeaf, ~HopsSpent, SearchLeaf(Leaves[Wanted])
  PROVE  /\ call' \in CallType
         /\ Accounts(call'.found, call'.tile_id, call'.hops)
         /\ call'.op = call.op /\ call'.tile_id = call.tile_id
<1> DEFINE found == FindEntryInSerialized(Leaves[Wanted], call.tile_id)
<1>1. call \in CallType
  BY DEF IInv, TypeOK, AtLeaf
<1>2. found \in Answer /\ Accounts(found, call.tile_id, call.hops + 1)
  <2>1. PICK pair \in Serves[call.hops + 1] : pair = <<Wanted, call.tile_id>>
    BY WantedServes
  <2>2. LET f == FindEntryInSerialized(Leaves[pair[1]], pair[2])
        IN  f \in Answer /\ Accounts(f, pair[2], call.hops + 1)
    BY WantedServes, ArchiveSound
  <2>3. pair[1] = Wanted /\ pair[2] = call.tile_id
    BY <2>1
  <2>4. QED
    BY <2>2, <2>3
<1>3. call' = [call EXCEPT !.hops = call.hops + 1, !.found = found]
  BY DEF SearchLeaf
<1>4. /\ call'.op = call.op /\ call'.tile_id = call.tile_id
      /\ call'.hops = call.hops + 1 /\ call'.found = found
  BY <1>1, <1>3 DEF CallType
<1>5. call' \in CallType
  <2>1. call.hops + 1 \in 0..MaxLeafHops
    BY WantedServes
  <2> HIDE DEF found
  <2>2. [call EXCEPT !.hops = call.hops + 1, !.found = found] \in CallType
    BY <1>1, <1>2, <2>1, AdvancedCall
  <2>3. QED
    BY <1>3, <2>2
<1>6. QED
  BY <1>2, <1>4, <1>5

\* What a hit returns is what a read would have returned.
LEMMA HitIsTheLeaf ==
  ASSUME IInv, NEW s \in Hits
  PROVE  leaf_cache[s].bytes = Leaves[Wanted]
  BY DEF IInv, LeafCacheCoherent, Hits

-----------------------------------------------------------------------------
(* The invariant is inductive.                                             *)

LEMMA InitInv == Init => IInv
  BY DEF Init, IInv, TypeOK, LeafCacheCoherent, OpenHasRoot, CallOnTrack, Slots

\* A call that ends leaves everything but reply, faulted and call alone.
LEMMA ReturnInv ==
  ASSUME IInv, NEW op \in Ops, NEW tile_id \in TileIds, NEW ok \in BOOLEAN,
         NEW at \in Places \cup {Absent}, NEW fault \in BOOLEAN,
         Returns(op, tile_id, ok, at, fault)
  PROVE  /\ call' = Nothing
         /\ reply' \in ReplyType
         /\ faulted' \in BOOLEAN
  BY DEF Returns, ReplyType, Places

LEMMA OpenInv == IInv /\ Open => IInv'
<1> SUFFICES ASSUME IInv, Open PROVE IInv'
  OBVIOUS
<1>1. TypeOK' /\ OpenHasRoot'
  BY DEF IInv, TypeOK, OpenHasRoot, Open
<1>2. LeafCacheCoherent' /\ CallOnTrack'
  BY DEF IInv, LeafCacheCoherent, CallOnTrack, Open
<1>3. QED
  BY <1>1, <1>2 DEF IInv

LEMMA LocateInv ==
  ASSUME IInv, NEW op \in Ops, NEW tile_id \in TileIds, Locate(op, tile_id)
  PROVE  IInv'
<1>1. LeafCacheCoherent' /\ UNCHANGED <<open, root_dir, leaf_cache, leaf_cache_next>>
  BY DEF IInv, LeafCacheCoherent, Locate
<1>2. CASE open
  <2> DEFINE found == FindEntry(ReadDirectory(Root), tile_id)
             c == [op |-> op, tile_id |-> tile_id, hops |-> 0, found |-> found]
  <2>1. found \in Answer /\ Accounts(found, tile_id, 0)
    BY ArchiveSound
  <2>2. call' = c /\ reply' = NoReply /\ faulted' = FALSE
    BY <1>2 DEF Locate, IInv, OpenHasRoot
  <2> HIDE DEF found
  <2>3. c \in CallType
    BY <2>1 DEF CallType
  <2>4. c.found = found /\ c.tile_id = tile_id /\ c.hops = 0
    OBVIOUS
  <2>5. TypeOK'
    BY <1>1, <2>2, <2>3 DEF IInv, TypeOK
  <2>6. CallOnTrack'
    BY <2>1, <2>2, <2>4 DEF CallOnTrack
  <2>7. OpenHasRoot'
    BY <1>1, <1>2 DEF IInv, OpenHasRoot
  <2>8. QED
    BY <1>1, <2>5, <2>6, <2>7 DEF IInv
<1>3. CASE ~open
  <2>1. Returns(op, tile_id, FALSE, Absent, FALSE)
    BY <1>3 DEF Locate
  <2>2. call' = Nothing /\ reply' \in ReplyType /\ faulted' \in BOOLEAN
    BY <2>1, ReturnInv
  <2>3. QED
    BY <1>1, <2>2 DEF IInv, TypeOK, OpenHasRoot, CallOnTrack
<1>4. QED
  BY <1>2, <1>3

\* A call that ends without touching the cache.
LEMMA EndInv ==
  ASSUME IInv, UNCHANGED <<open, root_dir, leaf_cache, leaf_cache_next>>,
         call' = Nothing, reply' \in ReplyType, faulted' \in BOOLEAN
  PROVE  IInv'
  BY DEF IInv, TypeOK, LeafCacheCoherent, OpenHasRoot, CallOnTrack

LEMMA LeafHitInv == IInv /\ LeafHit => IInv'
<1> SUFFICES ASSUME IInv, LeafHit PROVE IInv'
  OBVIOUS
<1>1. AtLeaf /\ ~HopsSpent
  BY DEF LeafHit
<1>2. SearchLeaf(Leaves[Wanted])
  BY HitIsTheLeaf DEF LeafHit
<1>3. /\ call' \in CallType
      /\ Accounts(call'.found, call'.tile_id, call'.hops)
  BY <1>1, <1>2, SearchOnTrack
<1>4. UNCHANGED <<open, root_dir, leaf_cache, leaf_cache_next, reply, faulted>>
  BY <1>2 DEF LeafHit, SearchLeaf
<1>5. open
  BY <1>1 DEF IInv, OpenHasRoot, AtLeaf
<1>6. QED
  BY <1>3, <1>4, <1>5
     DEF IInv, TypeOK, LeafCacheCoherent, OpenHasRoot, CallOnTrack

\* Whatever a miss does to its victim, the cache stays typed and coherent.
LEMMA MissKeepsCache ==
  ASSUME IInv, LeafMiss
  PROVE  /\ leaf_cache' \in [Slots -> [valid : BOOLEAN, key : Keys \cup {<<0, 0>>},
                               bytes : {Leaves[k] : k \in Keys} \cup {NoBytes}]]
         /\ leaf_cache_next' \in Slots
         /\ LeafCacheCoherent'
<1> DEFINE Slot == [valid : BOOLEAN, key : Keys \cup {<<0, 0>>},
                    bytes : {Leaves[k] : k \in Keys} \cup {NoBytes}]
<1>1. Wanted \in Keys
  BY WantedServes DEF LeafMiss
<1>2. leaf_cache_next \in Slots /\ leaf_cache \in [Slots -> Slot]
  BY DEF IInv, TypeOK
<1>3. leaf_cache_next' \in Slots
  BY <1>2 DEF LeafMiss, Slots
<1>4. PICK new \in Slot :
        /\ leaf_cache' = [leaf_cache EXCEPT ![leaf_cache_next] = new]
        /\ new.valid => new.key \in Keys /\ new.bytes = Leaves[new.key]
  <2>1. CASE leaf_cache' = [leaf_cache EXCEPT ![leaf_cache_next] =
               [valid |-> TRUE, key |-> Wanted, bytes |-> Leaves[Wanted]]]
    <3> DEFINE new == [valid |-> TRUE, key |-> Wanted, bytes |-> Leaves[Wanted]]
    <3>1. new \in Slot /\ new.key \in Keys /\ new.bytes = Leaves[new.key]
      BY <1>1
    <3>2. QED
      BY <2>1, <3>1
  <2>2. CASE leaf_cache' = [leaf_cache EXCEPT ![leaf_cache_next].valid = FALSE,
                                              ![leaf_cache_next].bytes = NoBytes]
    <3> DEFINE new == [leaf_cache[leaf_cache_next] EXCEPT !.valid = FALSE,
                                                          !.bytes = NoBytes]
    <3>1. new \in Slot /\ ~new.valid
      BY <1>2
    <3>2. leaf_cache' = [leaf_cache EXCEPT ![leaf_cache_next] = new]
      BY <1>2, <2>2
    <3>3. QED
      BY <3>1, <3>2
  <2>3. QED
    BY <2>1, <2>2 DEF LeafMiss
<1>5. leaf_cache' \in [Slots -> Slot]
  BY <1>2, <1>4
<1>6. LeafCacheCoherent'
  BY <1>2, <1>4 DEF IInv, LeafCacheCoherent
<1>7. QED
  BY <1>3, <1>5, <1>6

LEMMA LeafMissInv == IInv /\ LeafMiss => IInv'
<1> SUFFICES ASSUME IInv, LeafMiss PROVE IInv'
  OBVIOUS
<1>1. AtLeaf /\ ~HopsSpent /\ call \in CallType
  BY DEF LeafMiss, AtLeaf, IInv, TypeOK
<1>2. open /\ UNCHANGED <<open, root_dir>>
  BY <1>1 DEF LeafMiss, IInv, OpenHasRoot, AtLeaf
<1>3. CASE SearchLeaf(Leaves[Wanted])
  <2>1. /\ call' \in CallType
        /\ Accounts(call'.found, call'.tile_id, call'.hops)
    BY <1>1, <1>3, SearchOnTrack
  <2>2. UNCHANGED <<reply, faulted>>
    BY <1>3 DEF SearchLeaf
  <2>3. QED
    BY <1>2, <2>1, <2>2, MissKeepsCache DEF IInv, TypeOK, OpenHasRoot, CallOnTrack
<1>4. CASE ReturnsFalse(TRUE)
  <2>1. call' = Nothing /\ reply' \in ReplyType /\ faulted' \in BOOLEAN
    BY <1>1, <1>4, ReturnInv DEF ReturnsFalse, CallType
  <2>2. QED
    BY <1>2, <2>1, MissKeepsCache DEF IInv, TypeOK, OpenHasRoot, CallOnTrack
<1>5. QED
  BY <1>3, <1>4 DEF LeafMiss

\* The three ways out of LocateTile, and Deliver's place.
LEMMA ExitInv == IInv /\ (TooManyHops \/ NotFound \/ Deliver) => IInv'
<1> SUFFICES ASSUME IInv, TooManyHops \/ NotFound \/ Deliver PROVE IInv'
  OBVIOUS
<1>1. call \in CallType
  BY DEF IInv, TypeOK, TooManyHops, NotFound, Deliver, AtLeaf
<1>2. UNCHANGED <<open, root_dir, leaf_cache, leaf_cache_next>>
  BY DEF TooManyHops, NotFound, Deliver
<1>3. CASE \E fault \in BOOLEAN : ReturnsFalse(fault)
  <2>1. PICK fault \in BOOLEAN :
          Returns(call.op, call.tile_id, FALSE, Absent, fault)
    BY <1>3 DEF ReturnsFalse
  <2>2. call.op \in Ops /\ call.tile_id \in TileIds
    BY <1>1 DEF CallType
  <2>3. call' = Nothing /\ reply' \in ReplyType /\ faulted' \in BOOLEAN
    BY <2>1, <2>2, ReturnInv
  <2>4. QED
    BY <1>2, <2>3, EndInv
<1>4. CASE Deliver /\ Returns(call.op, call.tile_id, TRUE,
                              Place(call.found.entry), FALSE)
  <2>1. Place(call.found.entry) \in Places \cup {Absent}
    <3>1. Archive[call.tile_id] = Place(call.found.entry)
      BY <1>4 DEF IInv, CallOnTrack, Accounts, Deliver
    <3>2. QED
      BY <1>1, <3>1 DEF CallType, Places
  <2>2. call.op \in Ops /\ call.tile_id \in TileIds
    BY <1>1 DEF CallType
  <2>3. call' = Nothing /\ reply' \in ReplyType /\ faulted' \in BOOLEAN
    BY <1>4, <2>1, <2>2, ReturnInv
  <2>4. QED
    BY <1>2, <2>3, EndInv
<1>5. QED
  BY <1>3, <1>4 DEF TooManyHops, NotFound, Deliver

LEMMA StepInv == IInv /\ [Next]_vars => IInv'
<1> SUFFICES ASSUME IInv, [Next]_vars PROVE IInv'
  OBVIOUS
<1>1. CASE UNCHANGED vars
  BY <1>1 DEF IInv, TypeOK, LeafCacheCoherent, OpenHasRoot, CallOnTrack, vars
<1>2. CASE Next
  BY <1>2, OpenInv, LocateInv, LeafHitInv, LeafMissInv, ExitInv DEF Next, Step
<1>3. QED
  BY <1>1, <1>2

-----------------------------------------------------------------------------
(* The theorems.                                                           *)

LEMMA Invariance == Spec => []IInv
  BY InitInv, StepInv, PTL DEF Spec

\* Every state of every execution is well typed: in particular a stored place
\* is only ever replied for an id the archive knows.
THEOREM TypeCorrect == Spec => []TypeOK
  BY Invariance, PTL DEF IInv

\* A valid cache slot always holds the leaf its key names, for every archive,
\* both cache sizes and every placement of failed or throwing reads.
THEOREM CacheNeverLies == Spec => []LeafCacheCoherent
  BY Invariance, PTL DEF IInv

\* Every lookup in progress is a correct account of the id it was asked for.
THEOREM LookupsStayOnTrack == Spec => []CallOnTrack
  BY Invariance, PTL DEF IInv

\* An open reader searches the whole root of its archive, and a call is only
\* ever in progress on an open reader.
THEOREM OpenReaderHasRoot == Spec => []OpenHasRoot
  BY Invariance, PTL DEF IInv

\* A slot is filled only after every slot was looked at in vain, so the leaf
\* that goes into it is in no other.
LEMMA NoLeafTwiceInv == IInv /\ NoLeafHeldTwice /\ [Next]_vars => NoLeafHeldTwice'
<1> SUFFICES ASSUME IInv, NoLeafHeldTwice, [Next]_vars PROVE NoLeafHeldTwice'
  OBVIOUS
<1>1. CASE UNCHANGED leaf_cache
  BY <1>1 DEF NoLeafHeldTwice
<1>2. CASE LeafMiss
  <2>1. leaf_cache_next \in Slots /\ DOMAIN leaf_cache = Slots
    BY DEF IInv, TypeOK
  <2>2. \A s \in Slots : leaf_cache[s].valid => leaf_cache[s].key # Wanted
    BY <1>2 DEF LeafMiss, Hits
  <2>3. CASE leaf_cache' = [leaf_cache EXCEPT ![leaf_cache_next] =
               [valid |-> TRUE, key |-> Wanted, bytes |-> Leaves[Wanted]]]
    <3>1. \A s \in Slots \ {leaf_cache_next} : leaf_cache'[s] = leaf_cache[s]
      BY <2>1, <2>3
    <3>2. leaf_cache'[leaf_cache_next].key = Wanted
      BY <2>1, <2>3
    <3>3. QED
      BY <2>2, <3>1, <3>2 DEF NoLeafHeldTwice
  <2>4. CASE leaf_cache' = [leaf_cache EXCEPT ![leaf_cache_next].valid = FALSE,
                                              ![leaf_cache_next].bytes = NoBytes]
    <3>1. \A s \in Slots \ {leaf_cache_next} : leaf_cache'[s] = leaf_cache[s]
      BY <2>1, <2>4
    <3>2. ~leaf_cache'[leaf_cache_next].valid
      BY <2>1, <2>4 DEF IInv, TypeOK
    <3>3. QED
      BY <3>1, <3>2 DEF NoLeafHeldTwice
  <2>5. QED
    BY <1>2, <2>3, <2>4 DEF LeafMiss
<1>3. QED
  BY <1>1, <1>2 DEF vars, Next, Open, Locate, Step, TooManyHops, LeafHit, NotFound, Deliver

\* No leaf is ever cached twice, for both cache sizes and every failed fill.
THEOREM NoLeafCachedTwice == Spec => []NoLeafHeldTwice
<1>1. Init => NoLeafHeldTwice
  BY DEF Init, NoLeafHeldTwice
<1>2. QED
  BY <1>1, Invariance, NoLeafTwiceInv, PTL DEF Spec

-----------------------------------------------------------------------------
(* The reader implements the index.                                        *)

\* The question a call stands for.
Question == [op |-> call.op, tile_id |-> call.tile_id]

\* A call that returns an allowed reply is an answer of the index.
LEMMA ReturnAnswers ==
  ASSUME IInv, call # Nothing, UNCHANGED open, NEW fault \in BOOLEAN,
         \/ /\ Returns(call.op, call.tile_id, TRUE, Archive[call.tile_id], fault)
            /\ Archive[call.tile_id] # Absent
            /\ ~RefusesEmpty(call.op, Archive[call.tile_id])
         \/ /\ ReturnsFalse(fault)
            /\ \/ fault \/ Archive[call.tile_id] = Absent
               \/ RefusesEmpty(call.op, Archive[call.tile_id])
  PROVE  Index!Answer
<1>1. call \in CallType /\ Question # Nothing
  BY DistinctConstants DEF IInv, TypeOK, CallType, Question
<1>2. call' = Nothing /\ faulted' = fault
  BY DEF Returns, ReturnsFalse
<1>3. Question.op = call.op /\ Question.tile_id = call.tile_id
  BY DEF Question
<1>4. reply' \in Index!Allowed(Question, fault)
  BY <1>3 DEF Index!Allowed, Index!Exact, Index!Refusal, Returns, ReturnsFalse
<1>5. QED
  BY <1>1, <1>2, <1>4 DEF Index!Answer, Question

LEMMA LocateAsks ==
  ASSUME IInv, NEW op \in Ops, NEW tile_id \in TileIds, Locate(op, tile_id)
  PROVE  Index!Ask \/ Index!AskClosed
<1>1. CASE open
  <2> DEFINE q == [op |-> op, tile_id |-> tile_id]
             found == FindEntry(root_dir, tile_id)
             c == [op |-> op, tile_id |-> tile_id, hops |-> 0, found |-> found]
  <2>1. call' = c /\ reply' = NoReply /\ faulted' = FALSE /\ open' = open
    BY <1>1 DEF Locate
  <2>2. found \in Answer
    BY <1>1, ArchiveSound DEF IInv, OpenHasRoot
  <2> HIDE DEF found
  <2>3. c \in CallType /\ c.op = op /\ c.tile_id = tile_id
    BY <2>2 DEF CallType
  <2>4. c # Nothing
    BY <2>3, DistinctConstants
  <2>5. q \in Index!Question
    BY DEF Index!Question
  <2>6. QED
    BY <1>1, <2>1, <2>3, <2>4, <2>5 DEF Index!Ask, Locate
<1>2. CASE ~open
  <2> DEFINE q == [op |-> op, tile_id |-> tile_id]
  <2>1. q \in Index!Question /\ q.op = op /\ q.tile_id = tile_id
    BY DEF Index!Question
  <2>2. reply' = Index!Refusal(q)
    BY <1>2, <2>1 DEF Locate, Returns, Index!Refusal
  <2>3. QED
    BY <1>2, <2>1, <2>2 DEF Locate, Returns, Index!AskClosed
<1>3. QED
  BY <1>1, <1>2

\* Going one leaf on is invisible to the caller.
LEMMA HopStutters ==
  ASSUME IInv, AtLeaf, ~HopsSpent, SearchLeaf(Leaves[Wanted]),
         UNCHANGED open
  PROVE  UNCHANGED Index!indexVars
<1>1. call' \in CallType /\ call'.op = call.op /\ call'.tile_id = call.tile_id
  BY SearchOnTrack
<1>2. call # Nothing /\ call' # Nothing
  BY <1>1, DistinctConstants DEF AtLeaf
<1>3. QED
  BY <1>1, <1>2 DEF SearchLeaf, Index!indexVars

LEMMA StepRefines == IInv /\ [Next]_vars => [Index!IndexNext]_(Index!indexVars)
<1> SUFFICES ASSUME IInv, [Next]_vars
             PROVE  Index!IndexNext \/ UNCHANGED Index!indexVars
  OBVIOUS
<1>1. CASE UNCHANGED vars
  BY <1>1 DEF vars, Index!indexVars
<1>2. CASE Open
  BY <1>2 DEF Open, Index!IndexNext, Index!OpenOrNot
<1>3. CASE \E op \in Ops, tile_id \in TileIds : Locate(op, tile_id)
  BY <1>3, LocateAsks DEF Index!IndexNext
<1>4. CASE TooManyHops
  <2>1. Archive[call.tile_id] = Absent
    <3>1. call \in CallType
      BY <1>4 DEF TooManyHops, AtLeaf, IInv, TypeOK
    <3> QED
      BY <1>4, <3>1, HopsLeft DEF TooManyHops, AtLeaf, IInv, CallOnTrack, Accounts
  <2>2. QED
    BY <1>4, <2>1, ReturnAnswers DEF TooManyHops, AtLeaf, Index!IndexNext
<1>5. CASE LeafHit
  BY <1>5, HitIsTheLeaf, HopStutters DEF LeafHit
<1>6. CASE LeafMiss
  <2>1. CASE SearchLeaf(Leaves[Wanted])
    BY <1>6, <2>1, HopStutters DEF LeafMiss
  <2>2. CASE ReturnsFalse(TRUE)
    BY <1>6, <2>2, ReturnAnswers DEF LeafMiss, AtLeaf, Index!IndexNext
  <2>3. QED
    BY <1>6, <2>1, <2>2 DEF LeafMiss
<1>7. CASE NotFound
  <2>1. Archive[call.tile_id] = Absent
    BY <1>7 DEF NotFound, IInv, CallOnTrack, Accounts
  <2>2. QED
    BY <1>7, <2>1, ReturnAnswers DEF NotFound, Index!IndexNext
<1>8. CASE Deliver
  <2>1. call \in CallType /\ Archive[call.tile_id] = Place(call.found.entry)
    BY <1>8 DEF Deliver, IInv, TypeOK, CallOnTrack, Accounts
  <2>2. Archive[call.tile_id] # Absent
    <3>1. call.found \in Answer /\ call.found.kind = "tile"
      BY <1>8, <2>1 DEF CallType, Deliver
    <3>2. call.found.entry \in DirEntry
      BY <3>1 DEF Answer, NoEntry
    <3>3. Place(call.found.entry) \in [offset : Nat, length : Nat]
      BY <3>2 DEF DirEntry, Place
    <3>4. QED
      BY <2>1, <3>3
  <2>3. QED
    BY <1>8, <2>1, <2>2, ReturnAnswers DEF Deliver, Index!IndexNext
<1>9. QED
  BY <1>1, <1>2, <1>3, <1>4, <1>5, <1>6, <1>7, <1>8 DEF Next, Step

\* The reader is an index with no directories and no cache: for every archive
\* a delivered tile is exact, and a refusal is exact unless the medium failed
\* during that very call.
THEOREM ReaderIsAnIndex == Spec => ImplementsIndex
<1>1. Init => Index!IndexInit
  BY DEF Init, Index!IndexInit
<1>2. QED
  BY <1>1, Invariance, StepRefines, PTL DEF Spec, ImplementsIndex, Index!IndexSpec
=============================================================================
