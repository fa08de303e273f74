--------------------------- MODULE ChannelProofs ---------------------------
(***************************************************************************)
(* The invariants of Channel, proved for every number of clones and of     *)
(* messages.                                                               *)
(*                                                                         *)
(* The argument is about where a message is: an index is in one place at a *)
(* time, with the clone that sends it, in the run loop's queue, among the  *)
(* scripts of the page, fetched, answered or buffered, and none of these   *)
(* is behind the page's counter.                                           *)
(***************************************************************************)
EXTENDS Channel, SequenceTheorems, FiniteSetTheorems, WellFoundedInduction, TLAPS

\* The operations a channel posts, and the index a script brings to the page.
Ops == {Small(i) : i \in Indices} \union {Large(i) : i \in Indices} \union {End}
Msg(op) == IF op.script[1] = "end" THEN {} ELSE {op.script[2]}
Msgs(s) == UNION {Msg(op) : op \in Entries(s)}
Once(s) == \A j, k \in DOMAIN s : j # k => Msg(s[j]) \intersect Msg(s[k]) = {}

\* The index a clone is sending.
Held(c) == IF pc[c] = "took" THEN {index[c]} ELSE UNION {Msg(op) : op \in work[c]}

\* What a clone is doing: an operation in its hands, an index it took.
ClonesInv ==
    /\ work \in [Clones -> SUBSET Ops]
    /\ \A c \in Clones :
        /\ pc[c] \in {"check", "send"} => \E op \in Ops : work[c] = {op}
        /\ pc[c] \notin {"check", "send"} => work[c] = {}
        /\ pc[c] = "ending" => ends[c] # 0
        /\ pc[c] = "took" \/ (pc[c] \in {"check", "send"} /\ ends[c] = 0) => index[c] \in Indices

\* TypeOK, with the operations that there are.
Shape ==
    /\ alive \subseteq Views
    /\ up \in BOOLEAN
    /\ queue \in Seq(Ops)
    /\ scripts \in [Views -> Seq(Ops)]
    /\ store \subseteq Indices
    /\ abandoned \subseteq Indices
    /\ pc \in [Clones -> {"unused", "idle", "took", "check", "send", "ending", "dropped"}]
    /\ index \in [Clones -> 0 .. MaxSends]
    /\ ends \in [Clones -> 0 .. 2]
    /\ currentIndex \in 0 .. MaxSends
    /\ holes \subseteq Indices
    /\ registered \in BOOLEAN
    /\ next \in 0 .. currentIndex
    /\ pending \subseteq next + 1 .. currentIndex - 1
    /\ fetching \subseteq Indices
    /\ arrived \subseteq Indices
    /\ delivered \in Seq(Nat)

\* A message is in one place.
OnePlace ==
    /\ \A c, d \in Clones : c # d => Held(c) \intersect Held(d) = {}
    /\ \A c \in Clones :
          Held(c) \intersect (Msgs(queue) \union Msgs(scripts[View]) \union fetching
                              \union arrived \union pending) = {}
    /\ Msgs(queue) \intersect (Msgs(scripts[View]) \union fetching \union arrived \union pending) = {}
    /\ Msgs(scripts[View]) \intersect (fetching \union arrived \union pending) = {}
    /\ fetching \intersect (arrived \union pending) = {}
    /\ arrived \intersect pending = {}
    /\ Once(queue)
    /\ Once(scripts[View])

\* A message that is under way has an index that was given and was not delivered.
UnderWay == next .. currentIndex - 1
PlacesInv ==
    /\ \A c \in Clones : Held(c) \subseteq UnderWay
    /\ Msgs(queue) \subseteq UnderWay
    /\ Msgs(scripts[View]) \subseteq UnderWay
    /\ fetching \subseteq UnderWay
    /\ arrived \subseteq UnderWay

\* Large data is in the store as long as its operation may still lead to a fetch.
DataInv ==
    /\ View \in alive =>
        /\ \A c \in Clones : DataOf(work[c]) \subseteq store
        /\ DataOf(Entries(queue)) \subseteq store
        /\ DataOf(Entries(scripts[View])) \subseteq store
        /\ fetching \subseteq store
    /\ View \notin alive => scripts[View] = <<>> /\ fetching = {}

IInv ==
    /\ Shape /\ ClonesInv /\ OnePlace /\ PlacesInv
    /\ DeliveredInOrder /\ StoredDataIsOwned /\ DataInv

-----------------------------------------------------------------------------
(* Operators. *)

\* A set of naturals that is not empty has a least element: the smallest of the intervals from 0
\* to one of its elements, which exists because strict inclusion is well-founded on finite sets.
LEMMA LeastElement ==
    ASSUME NEW S \in SUBSET Nat, S # {}
    PROVE  \E m \in S : \A n \in S : m <= n
<1> DEFINE T == {0 .. n : n \in S}
<1>1. T # {}
  OBVIOUS
<1>2. T \subseteq FiniteSubsetsOf(Nat)
  <2>1. ASSUME NEW n \in S PROVE 0 .. n \in SUBSET Nat /\ IsFiniteSet(0 .. n)
    <3>1. n \in Int /\ 0 \in Int
      OBVIOUS
    <3> QED BY <3>1, FS_Interval
  <2> QED BY <2>1 DEF FiniteSubsetsOf
<1>3. IsWellFoundedOn(StrictSubsetOrdering(Nat), FiniteSubsetsOf(Nat))
  BY FS_StrictSubsetOrderingWellFounded
<1>4. \E x \in T : \A y \in T : ~ (<<y, x>> \in StrictSubsetOrdering(Nat))
  <2> HIDE DEF T
  <2> QED BY <1>1, <1>2, <1>3, WFMin
<1>5. PICK m \in S : \A n \in S : ~ (<<0 .. n, 0 .. m>> \in StrictSubsetOrdering(Nat))
  BY <1>4
<1>6. ASSUME NEW n \in S, n < m PROVE FALSE
  <2>1. n \in Nat /\ m \in Nat
    BY <1>5
  <2>2. 0 .. n \subseteq 0 .. m /\ m \in 0 .. m /\ m \notin 0 .. n
    BY <2>1, <1>6
  <2>3. 0 .. n \in SUBSET Nat /\ 0 .. m \in SUBSET Nat
    BY <2>1
  <2>4. <<0 .. n, 0 .. m>> \in StrictSubsetOrdering(Nat)
    BY <2>2, <2>3 DEF StrictSubsetOrdering
  <2> QED BY <1>5, <2>4
<1>7. \A n \in S : m <= n
  BY <1>5, <1>6
<1> QED BY <1>5, <1>7

LEMMA MinIsLeast ==
    ASSUME NEW S \in SUBSET Nat, S # {}
    PROVE  Min(S) \in S /\ \A n \in S : Min(S) <= n
<1>1. \E m \in S : \A n \in S : m <= n
  BY LeastElement
<1> QED BY <1>1, Zenon DEF Min

\* What an operation carries: at most one index, and data only for that index.
LEMMA OpParts ==
    /\ \A i \in Indices : /\ Small(i) \in Ops /\ Msg(Small(i)) = {i} /\ Small(i).data = {}
                          /\ Large(i) \in Ops /\ Msg(Large(i)) = {i} /\ Large(i).data = {i}
    /\ End \in Ops /\ Msg(End) = {} /\ End.data = {}
    /\ \A op \in Ops : /\ op.view = View
                       /\ Msg(op) \subseteq Indices /\ op.data \subseteq Msg(op)
    /\ \A op \in Ops : op.script[1] # "end" => Msg(op) = {op.script[2]}
    /\ \A op \in Ops : op.script[1] = "message" => op.script[2] \in Indices /\ op.data = {}
    /\ \A op \in Ops : op.script[1] = "fetch" => op.data = {op.script[2]}
    /\ \A op \in Ops : op.script[1] # "fetch" => op.data = {}
<1>1. ASSUME NEW i \in Indices
      PROVE  /\ Small(i) \in Ops /\ Msg(Small(i)) = {i} /\ Small(i).data = {}
             /\ Small(i).view = View /\ Small(i).script[1] = "message" /\ Small(i).script[2] = i
  BY DEF Small, Op, Msg, Ops
<1>2. ASSUME NEW i \in Indices
      PROVE  /\ Large(i) \in Ops /\ Msg(Large(i)) = {i} /\ Large(i).data = {i}
             /\ Large(i).view = View /\ Large(i).script[1] = "fetch" /\ Large(i).script[2] = i
  BY DEF Large, Op, Msg, Ops
<1>3. /\ End \in Ops /\ Msg(End) = {} /\ End.data = {}
      /\ End.view = View /\ End.script[1] = "end"
  BY DEF End, Op, Msg, Ops
<1>4. ASSUME NEW op \in Ops
      PROVE  \/ \E i \in Indices : op = Small(i)
             \/ \E i \in Indices : op = Large(i)
             \/ op = End
  BY DEF Ops
<1>5. "message" # "end" /\ "fetch" # "end" /\ "fetch" # "message"
  OBVIOUS
<1> QED BY <1>1, <1>2, <1>3, <1>4, <1>5

LEMMA AppendOp ==
    ASSUME NEW s \in Seq(Ops), NEW op \in Ops
    PROVE  /\ Append(s, op) \in Seq(Ops)
           /\ Msgs(Append(s, op)) = Msgs(s) \union Msg(op)
           /\ DataOf(Entries(Append(s, op))) = DataOf(Entries(s)) \union op.data
           /\ Once(s) /\ Msg(op) \intersect Msgs(s) = {} => Once(Append(s, op))
<1>1. /\ Append(s, op) \in Seq(Ops)
      /\ DOMAIN s = 1 .. Len(s) /\ DOMAIN Append(s, op) = 1 .. Len(s) + 1
      /\ Append(s, op)[Len(s) + 1] = op
      /\ \A k \in 1 .. Len(s) : Append(s, op)[k] = s[k]
      /\ Len(s) \in Nat
  OBVIOUS
<1>2. Entries(Append(s, op)) = Entries(s) \union {op}
  BY <1>1 DEF Entries
<1>3. Msgs(Append(s, op)) = Msgs(s) \union Msg(op)
  BY <1>2 DEF Msgs
<1>4. DataOf(Entries(Append(s, op))) = DataOf(Entries(s)) \union op.data
  BY <1>2 DEF DataOf
<1>5. ASSUME Once(s), Msg(op) \intersect Msgs(s) = {} PROVE Once(Append(s, op))
  <2> SUFFICES ASSUME NEW j \in 1 .. Len(s) + 1, NEW k \in 1 .. Len(s) + 1, j # k
               PROVE  Msg(Append(s, op)[j]) \intersect Msg(Append(s, op)[k]) = {}
    BY <1>1 DEF Once
  <2>1. \A n \in 1 .. Len(s) : Msg(s[n]) \subseteq Msgs(s)
    BY <1>1 DEF Msgs, Entries
  <2>2. CASE j \in 1 .. Len(s) /\ k \in 1 .. Len(s)
    BY <1>1, <1>5, <2>2 DEF Once
  <2>3. CASE j \in 1 .. Len(s) /\ k = Len(s) + 1
    BY <1>1, <1>5, <2>1, <2>3
  <2>4. CASE k \in 1 .. Len(s) /\ j = Len(s) + 1
    BY <1>1, <1>5, <2>1, <2>4
  <2>5. /\ j \in 1 .. Len(s) \/ j = Len(s) + 1
        /\ k \in 1 .. Len(s) \/ k = Len(s) + 1
    OBVIOUS
  <2> QED BY <2>2, <2>3, <2>4, <2>5
<1> QED BY <1>1, <1>3, <1>4, <1>5

LEMMA TailOp ==
    ASSUME NEW s \in Seq(Ops), s # <<>>
    PROVE  /\ Head(s) \in Ops
           /\ Tail(s) \in Seq(Ops)
           /\ Msgs(s) = Msg(Head(s)) \union Msgs(Tail(s))
           /\ DataOf(Entries(s)) = Head(s).data \union DataOf(Entries(Tail(s)))
           /\ Once(s) => Once(Tail(s)) /\ Msg(Head(s)) \intersect Msgs(Tail(s)) = {}
<1>1. /\ Head(s) \in Ops /\ Head(s) = s[1]
      /\ Tail(s) \in Seq(Ops)
      /\ Len(s) \in Nat /\ Len(s) > 0
      /\ DOMAIN s = 1 .. Len(s) /\ DOMAIN Tail(s) = 1 .. Len(s) - 1
      /\ \A k \in 1 .. Len(s) - 1 : Tail(s)[k] = s[k + 1]
  OBVIOUS
<1>2. Entries(s) = {Head(s)} \union Entries(Tail(s))
  <2>1. ASSUME NEW k \in 1 .. Len(s) PROVE s[k] \in {Head(s)} \union Entries(Tail(s))
    <3>1. CASE k = 1
      BY <1>1, <3>1
    <3>2. CASE k # 1
      <4>1. k - 1 \in 1 .. Len(s) - 1 /\ Tail(s)[k - 1] = s[k]
        BY <1>1, <3>2
      <4> QED BY <1>1, <4>1 DEF Entries
    <3> QED BY <3>1, <3>2
  <2>2. ASSUME NEW k \in 1 .. Len(s) - 1 PROVE Tail(s)[k] \in Entries(s)
    BY <1>1 DEF Entries
  <2>3. Head(s) \in Entries(s)
    BY <1>1 DEF Entries
  <2> QED BY <1>1, <2>1, <2>2, <2>3 DEF Entries
<1>3. Msgs(s) = Msg(Head(s)) \union Msgs(Tail(s))
  BY <1>2 DEF Msgs
<1>4. DataOf(Entries(s)) = Head(s).data \union DataOf(Entries(Tail(s)))
  BY <1>2 DEF DataOf
<1>5. ASSUME Once(s) PROVE Once(Tail(s)) /\ Msg(Head(s)) \intersect Msgs(Tail(s)) = {}
  <2>1. ASSUME NEW j \in 1 .. Len(s) - 1, NEW k \in 1 .. Len(s) - 1, j # k
        PROVE  Msg(Tail(s)[j]) \intersect Msg(Tail(s)[k]) = {}
    <3>1. j + 1 \in 1 .. Len(s) /\ k + 1 \in 1 .. Len(s) /\ j + 1 # k + 1
      BY <1>1, <2>1
    <3> QED BY <1>1, <1>5, <3>1 DEF Once
  <2>2. ASSUME NEW k \in 1 .. Len(s) - 1 PROVE Msg(Head(s)) \intersect Msg(Tail(s)[k]) = {}
    <3>1. 1 \in 1 .. Len(s) /\ k + 1 \in 1 .. Len(s) /\ 1 # k + 1
      BY <1>1
    <3> QED BY <1>1, <1>5, <3>1 DEF Once
  <2>3. Once(Tail(s))
    BY <1>1, <2>1 DEF Once
  <2>4. Msg(Head(s)) \intersect Msgs(Tail(s)) = {}
    BY <1>1, <2>2 DEF Msgs, Entries
  <2> QED BY <2>3, <2>4
<1> QED BY <1>1, <1>3, <1>4, <1>5

LEMMA NoOps == /\ <<>> \in Seq(Ops) /\ Msgs(<<>>) = {} /\ Once(<<>>)
               /\ DataOf(Entries(<<>>)) = {}
<1>1. Entries(<<>>) = {}
  BY DEF Entries
<1> QED BY <1>1 DEF Msgs, Once, DataOf

-----------------------------------------------------------------------------
(* The page. *)

\* The channel's callback: a message that is under way and not buffered goes to the buffer or,
\* if it is next, to the handler with those that waited for it.
LEMMA ReceiveEffect ==
    ASSUME Shape, DeliveredInOrder, NEW i \in UnderWay, i \notin pending, Receive(i)
    PROVE  /\ next' \in next .. currentIndex
           /\ pending' \subseteq pending \union {i}
           /\ pending' \subseteq next' + 1 .. currentIndex - 1
           /\ \A j \in UnderWay : j # i /\ j \notin pending => j \in next' .. currentIndex - 1
           /\ delivered' \in Seq(Nat)
           /\ DeliveredInOrder'
<1>1. /\ next \in Nat /\ currentIndex \in Nat /\ MaxSends \in Nat /\ i \in Nat
      /\ next <= i /\ i < currentIndex /\ currentIndex <= MaxSends
      /\ pending \subseteq next + 1 .. currentIndex - 1
      /\ delivered \in Seq(Nat)
  BY ChannelAssumption DEF Shape, UnderWay
<1>2. CASE ~registered
  <2>1. next' = next /\ delivered' = delivered /\ pending' = pending
    BY <1>2 DEF Receive
  <2> QED BY <1>1, <2>1 DEF DeliveredInOrder, UnderWay
<1>3. CASE registered /\ i # next
  <2>1. next' = next /\ delivered' = delivered /\ pending' = pending \union {i}
    BY <1>3 DEF Receive
  <2>2. i \in next + 1 .. currentIndex - 1
    BY <1>1, <1>3
  <2> QED BY <1>1, <2>1, <2>2 DEF DeliveredInOrder, UnderWay
<1>4. CASE registered /\ i = next
  <2> DEFINE free == {j \in i + 1 .. MaxSends : j \notin pending}
             upTo == Min(free)
             more == [k \in 1 .. upTo - i |-> i + k - 1]
  <2>1. /\ delivered' = delivered \o more
        /\ next' = upTo
        /\ pending' = pending \ (i .. upTo)
    BY <1>4 DEF Receive
  <2>2. currentIndex \in free
    BY <1>1
  <2>3. free \in SUBSET Nat
    BY <1>1
  <2>4. upTo \in free /\ \A j \in free : upTo <= j
    <3> HIDE DEF free
    <3> QED BY <2>2, <2>3, MinIsLeast
  <2>5. upTo \in i + 1 .. currentIndex /\ upTo \notin pending
    BY <1>1, <2>2, <2>4
  <2>6. \A j \in i + 1 .. upTo - 1 : j \in pending
    <3> SUFFICES ASSUME NEW j \in i + 1 .. upTo - 1, j \notin pending PROVE FALSE
      OBVIOUS
    <3> HIDE DEF upTo
    <3>1. j \in free
      BY <1>1, <2>5
    <3> HIDE DEF free
    <3>2. upTo <= j
      BY <2>4, <3>1
    <3> QED BY <1>1, <2>5, <3>2
  <2> HIDE DEF free, upTo
  <2>7. upTo \in Nat /\ upTo > i /\ upTo <= currentIndex
    BY <1>1, <2>5
  <2>8. pending' \subseteq next' + 1 .. currentIndex - 1
    <3> SUFFICES ASSUME NEW j \in pending, j \notin i .. upTo PROVE j \in upTo + 1 .. currentIndex - 1
      BY <2>1
    <3> QED BY <1>1, <1>4, <2>7
  <2>9. ASSUME NEW j \in UnderWay, j # i, j \notin pending PROVE j \in next' .. currentIndex - 1
    <3>1. j \in Nat /\ j > i /\ j < currentIndex
      BY <1>1, <1>4, <2>9 DEF UnderWay
    <3>2. j \notin i + 1 .. upTo - 1
      BY <2>6, <2>9
    <3> QED BY <1>1, <2>1, <2>7, <3>1, <3>2
  <2>10. /\ more \in Seq(Nat) /\ Len(more) = upTo - i
         /\ \A k \in 1 .. upTo - i : more[k] = i + k - 1
    <3>1. upTo - i \in Nat
      BY <1>1, <2>7
    <3>2. \A k \in 1 .. upTo - i : i + k - 1 \in Nat
      BY <1>1, <2>7
    <3> QED BY <3>1, <3>2
  <2> HIDE DEF more
  <2>11. /\ delivered' \in Seq(Nat)
         /\ Len(delivered') = Len(delivered) + (upTo - i)
         /\ \A k \in 1 .. Len(delivered) + (upTo - i) :
               delivered'[k] = IF k <= Len(delivered) THEN delivered[k] ELSE more[k - Len(delivered)]
    <3>1. delivered \in Seq(Nat) /\ more \in Seq(Nat) /\ Len(more) = upTo - i
      BY <1>1, <2>10
    <3>2. delivered' = delivered \o more
      BY <2>1
    <3>3. /\ delivered \o more \in Seq(Nat)
          /\ Len(delivered \o more) = Len(delivered) + Len(more)
          /\ \A k \in 1 .. Len(delivered) + Len(more) : (delivered \o more)[k] =
                 IF k <= Len(delivered) THEN delivered[k] ELSE more[k - Len(delivered)]
      BY <3>1, ConcatProperties, Zenon
    <3> QED BY <3>1, <3>2, <3>3
  <2>12. Len(delivered) = i /\ \A k \in 1 .. i : delivered[k] = k - 1
    BY <1>1, <1>4 DEF DeliveredInOrder
  <2>13. DeliveredInOrder'
    <3>1. Len(delivered') = next'
      BY <1>1, <2>1, <2>7, <2>11, <2>12
    <3>2. ASSUME NEW k \in 1 .. upTo PROVE delivered'[k] = k - 1
      <4>1. CASE k <= i
        BY <1>1, <2>7, <2>11, <2>12, <4>1
      <4>2. CASE k > i
        <5>1. k - i \in 1 .. upTo - i /\ k \in 1 .. Len(delivered) + (upTo - i)
          BY <1>1, <2>7, <2>12, <4>2
        <5>2. delivered'[k] = more[k - i]
          BY <1>1, <2>11, <2>12, <4>2, <5>1
        <5> QED BY <1>1, <2>10, <5>1, <5>2
      <4> QED BY <1>1, <4>1, <4>2
    <3>3. DOMAIN delivered' = 1 .. upTo
      BY <2>1, <2>11, <3>1
    <3> QED BY <3>1, <3>2, <3>3 DEF DeliveredInOrder
  <2>14. next' \in next .. currentIndex /\ pending' \subseteq pending \union {i}
    BY <1>1, <1>4, <2>1, <2>7
  <2> QED BY <2>8, <2>9, <2>11, <2>13, <2>14
<1> QED BY <1>2, <1>3, <1>4

-----------------------------------------------------------------------------
(* The clones. *)

\* A clone moves within its operation, or takes an index that nobody has.
LEMMA CloneFrame ==
    ASSUME IInv, NEW c \in Clones, UNCHANGED <<dispatch, page>>, Shape', ClonesInv',
           \/ currentIndex' = currentIndex /\ Held(c)' \subseteq Held(c)
           \/ currentIndex' = currentIndex + 1 /\ Held(c)' = {currentIndex},
           \A d \in Clones : d # c => Held(d)' = Held(d),
           \A d \in Clones : DataOf(work[d])' = DataOf(work[d])
    PROVE  IInv'
<1> USE DEF IInv
<1>1. /\ UNCHANGED <<alive, queue, scripts, store, abandoned, fetching, arrived, pending, next,
                     delivered>>
      /\ Msgs(queue)' = Msgs(queue) /\ Msgs(scripts[View])' = Msgs(scripts[View])
      /\ Once(queue)' = Once(queue) /\ Once(scripts[View])' = Once(scripts[View])
  BY DEF dispatch, page
<1>2. /\ next \in Nat /\ currentIndex \in Nat /\ next <= currentIndex
      /\ pending \subseteq next + 1 .. currentIndex - 1
  BY ChannelAssumption DEF Shape
<1>3. currentIndex \notin UnderWay /\ pending \subseteq UnderWay
  BY <1>2 DEF UnderWay
<1>4. /\ UnderWay \subseteq UnderWay'
      /\ currentIndex' = currentIndex + 1 => currentIndex \in UnderWay'
  BY <1>1, <1>2 DEF UnderWay
<1>5. PlacesInv'
  BY <1>1, <1>4 DEF PlacesInv
<1>6. OnePlace'
  <2>1. \A d, e \in Clones : d # e => Held(d)' \intersect Held(e)' = {}
    BY <1>3 DEF OnePlace, PlacesInv
  <2>2. \A d \in Clones :
          Held(d)' \intersect (Msgs(queue) \union Msgs(scripts[View]) \union fetching
                               \union arrived \union pending) = {}
    BY <1>3 DEF OnePlace, PlacesInv
  <2> QED BY <1>1, <2>1, <2>2 DEF OnePlace
<1>7. DeliveredInOrder'
  BY <1>1 DEF DeliveredInOrder
<1>8. StoredDataIsOwned' /\ DataInv'
  BY <1>1 DEF StoredDataIsOwned, DataInv
<1> QED BY <1>5, <1>6, <1>7, <1>8

\* What the clones other than c do and hold is untouched by a step of c.
LEMMA OthersHold ==
    ASSUME NEW d \in Clones, pc'[d] = pc[d], index'[d] = index[d], work'[d] = work[d]
    PROVE  Held(d)' = Held(d)
BY DEF Held

LEMMA CloneIsMade ==
    ASSUME IInv, NEW c \in Clones, NEW d \in Clones, Clone(c, d)
    PROVE  IInv'
<1> USE DEF IInv
<1>1. /\ pc[d] = "unused"
      /\ pc' = [pc EXCEPT ![d] = "idle"]
      /\ UNCHANGED <<dispatch, page, index, work, ends, currentIndex, holes>>
  BY DEF Clone, Goto
<1>2. Shape'
  BY <1>1 DEF Shape, dispatch, page
<1>3. ClonesInv'
  BY <1>1 DEF ClonesInv, Shape
<1>4. \A e \in Clones : Held(e)' = Held(e)
  BY <1>1 DEF Held, Shape
<1>5. Held(d)' \subseteq Held(d)
  BY <1>4
<1> QED BY <1>1, <1>2, <1>3, <1>4, <1>5, CloneFrame DEF Shape

LEMMA TakeStep ==
    ASSUME IInv, NEW c \in Clones, Take(c)
    PROVE  IInv'
<1> USE DEF IInv
<1>1. /\ pc[c] = "idle" /\ currentIndex < MaxSends
      /\ pc' = [pc EXCEPT ![c] = "took"]
      /\ index' = [index EXCEPT ![c] = currentIndex]
      /\ currentIndex' = currentIndex + 1
      /\ UNCHANGED <<dispatch, page, work, ends, holes>>
  BY DEF Take, Turn, Goto
<1>2. /\ currentIndex \in Nat /\ MaxSends \in Nat /\ next \in Nat /\ next <= currentIndex
      /\ pending \subseteq next + 1 .. currentIndex - 1
  BY ChannelAssumption DEF Shape
<1>3. /\ currentIndex' \in 0 .. MaxSends /\ currentIndex \in Indices
      /\ next \in 0 .. currentIndex' /\ pending \subseteq next + 1 .. currentIndex' - 1
      /\ currentIndex \in 0 .. MaxSends
  BY <1>1, <1>2 DEF Indices
<1>4. Shape'
  BY <1>1, <1>3 DEF Shape, dispatch, page
<1>5. ClonesInv'
  BY <1>1, <1>3 DEF ClonesInv, Shape
<1>6. Held(c)' = {currentIndex}
  BY <1>1 DEF Held, Shape
<1>7. \A d \in Clones : d # c => Held(d)' = Held(d)
  BY <1>1 DEF Held, Shape
<1> QED BY <1>1, <1>3, <1>4, <1>5, <1>6, <1>7, CloneFrame

LEMMA SerializeFailsStep ==
    ASSUME IInv, NEW c \in Clones, SerializeFails(c)
    PROVE  IInv'
<1> USE DEF IInv
<1>1. /\ pc[c] = "took"
      /\ pc' = [pc EXCEPT ![c] = "idle"]
      /\ index' = [index EXCEPT ![c] = 0]
      /\ holes' = holes \union {index[c]}
      /\ UNCHANGED <<dispatch, page, work, ends, currentIndex>>
  BY DEF SerializeFails, Turn, Goto
<1>2. 0 \in 0 .. MaxSends /\ index[c] \in Indices
  BY <1>1, ChannelAssumption DEF ClonesInv
<1>3. Shape'
  BY <1>1, <1>2 DEF Shape, dispatch, page
<1>4. ClonesInv'
  BY <1>1 DEF ClonesInv, Shape
<1>5. Held(c)' = {}
  BY <1>1 DEF Held, Shape, ClonesInv
<1>6. \A d \in Clones : d # c => Held(d)' = Held(d)
  BY <1>1 DEF Held, Shape
<1> QED BY <1>1, <1>3, <1>4, <1>5, <1>6, CloneFrame DEF Shape

LEMMA SendSmallStep ==
    ASSUME IInv, NEW c \in Clones, SendSmall(c)
    PROVE  IInv'
<1> USE DEF IInv
<1>1. /\ pc[c] = "took"
      /\ pc' = [pc EXCEPT ![c] = "check"]
      /\ work' = [work EXCEPT ![c] = {Small(index[c])}]
      /\ UNCHANGED <<dispatch, page, index, ends, currentIndex, holes>>
  BY DEF SendSmall, Turn, Goto
<1>2. /\ index[c] \in Indices /\ work[c] = {}
      /\ Small(index[c]) \in Ops /\ Msg(Small(index[c])) = {index[c]} /\ Small(index[c]).data = {}
  BY <1>1, OpParts DEF ClonesInv
<1>3. Shape'
  BY <1>1 DEF Shape, dispatch, page
<1>4. ClonesInv'
  BY <1>1, <1>2 DEF ClonesInv, Shape
<1>5. Held(c)' \subseteq Held(c)
  BY <1>1, <1>2 DEF Held, Shape, ClonesInv
<1>6. \A d \in Clones : d # c => Held(d)' = Held(d)
  BY <1>1 DEF Held, Shape, ClonesInv
<1>7. \A d \in Clones : DataOf(work[d])' = DataOf(work[d])
  BY <1>1, <1>2 DEF DataOf, ClonesInv
<1> QED BY <1>1, <1>3, <1>4, <1>5, <1>6, <1>7, CloneFrame DEF Shape

LEMMA SendLargeStep ==
    ASSUME IInv, NEW c \in Clones, SendLarge(c)
    PROVE  IInv'
<1> USE DEF IInv
<1>1. /\ pc[c] = "took"
      /\ pc' = [pc EXCEPT ![c] = "check"]
      /\ store' = store \union {index[c]}
      /\ work' = [work EXCEPT ![c] = {Large(index[c])}]
      /\ UNCHANGED <<alive, up, queue, scripts, abandoned, page, index, ends, currentIndex, holes>>
  BY DEF SendLarge, Turn, Goto
<1>2. /\ index[c] \in Indices /\ work[c] = {}
      /\ Large(index[c]) \in Ops /\ Msg(Large(index[c])) = {index[c]}
      /\ Large(index[c]).data = {index[c]}
  BY <1>1, OpParts DEF ClonesInv
<1>3. UNCHANGED <<registered, next, pending, fetching, arrived, delivered>>
  BY <1>1 DEF page
<1>4. Shape'
  BY <1>1, <1>2, <1>3 DEF Shape
<1>5. ClonesInv'
  BY <1>1, <1>2 DEF ClonesInv, Shape
<1>6. Held(c)' = Held(c)
  BY <1>1, <1>2 DEF Held, Shape, ClonesInv
<1>7. \A d \in Clones : d # c => Held(d)' = Held(d)
  BY <1>1 DEF Held, Shape, ClonesInv
<1>8. OnePlace' /\ PlacesInv' /\ DeliveredInOrder'
  BY <1>1, <1>3, <1>6, <1>7 DEF OnePlace, PlacesInv, DeliveredInOrder, UnderWay
<1>9. /\ DataOf(work[c])' = {index[c]}
      /\ \A d \in Clones : d # c => DataOf(work[d])' = DataOf(work[d])
      /\ DataOf(work[c]) = {}
  BY <1>1, <1>2 DEF DataOf, ClonesInv
<1>10. StoredDataIsOwned' /\ DataInv'
  BY <1>1, <1>3, <1>9 DEF StoredDataIsOwned, DataInv
<1> QED BY <1>4, <1>5, <1>8, <1>10

LEMMA DropCloneStep ==
    ASSUME IInv, NEW c \in Clones, NEW n \in {1, 2}, DropClone(c, n)
    PROVE  IInv'
<1> USE DEF IInv
<1>1. /\ pc[c] = "idle"
      /\ pc' = [pc EXCEPT ![c] = "ending"]
      /\ ends' = [ends EXCEPT ![c] = n]
      /\ UNCHANGED <<dispatch, page, index, work, currentIndex, holes>>
  BY DEF DropClone, Turn, Goto
<1>2. Shape'
  BY <1>1 DEF Shape, dispatch, page
<1>3. ClonesInv'
  BY <1>1 DEF ClonesInv, Shape
<1>4. \A d \in Clones : Held(d)' = Held(d)
  BY <1>1 DEF Held, Shape
<1>5. Held(c)' \subseteq Held(c)
  BY <1>4
<1> QED BY <1>1, <1>2, <1>3, <1>4, <1>5, CloneFrame DEF Shape

LEMMA LoadEndStep ==
    ASSUME IInv, NEW c \in Clones, LoadEnd(c)
    PROVE  IInv'
<1> USE DEF IInv
<1>1. /\ pc[c] = "ending"
      /\ pc' = [pc EXCEPT ![c] = "check"]
      /\ work' = [work EXCEPT ![c] = {End}]
      /\ UNCHANGED <<dispatch, page, index, ends, currentIndex, holes>>
  BY DEF LoadEnd, Turn, Goto
<1>2. work[c] = {} /\ End \in Ops /\ Msg(End) = {} /\ End.data = {}
  BY <1>1, OpParts DEF ClonesInv
<1>3. Shape'
  BY <1>1 DEF Shape, dispatch, page
<1>4. ClonesInv'
  BY <1>1, <1>2 DEF ClonesInv, Shape
<1>5. Held(c)' = {}
  BY <1>1, <1>2 DEF Held, Shape, ClonesInv
<1>6. \A d \in Clones : d # c => Held(d)' = Held(d)
  BY <1>1 DEF Held, Shape, ClonesInv
<1>7. \A d \in Clones : DataOf(work[d])' = DataOf(work[d])
  BY <1>1, <1>2 DEF DataOf, ClonesInv
<1> QED BY <1>1, <1>3, <1>4, <1>5, <1>6, <1>7, CloneFrame DEF Shape

\* A clone has done with its operation.
LEMMA PostedEffect ==
    ASSUME Shape, ClonesInv, NEW c \in Clones, pc[c] \in {"check", "send"}, Posted(c)
    PROVE  /\ pc' \in [Clones -> {"unused", "idle", "took", "check", "send", "ending", "dropped"}]
           /\ index' \in [Clones -> 0 .. MaxSends]
           /\ ends' \in [Clones -> 0 .. 2]
           /\ ClonesInv'
           /\ Held(c)' = {} /\ work'[c] = {}
           /\ \A d \in Clones : d # c => Held(d)' = Held(d) /\ work'[d] = work[d]
           /\ UNCHANGED <<page, currentIndex>>
<1>1. /\ work' = [work EXCEPT ![c] = {}]
      /\ index' = [index EXCEPT ![c] = 0]
      /\ UNCHANGED <<page, currentIndex>>
      /\ 0 \in 0 .. MaxSends
  BY ChannelAssumption DEF Posted
<1>2. \/ ends[c] = 0 /\ pc' = [pc EXCEPT ![c] = "idle"] /\ ends' = ends
      \/ ends[c] = 1 /\ pc' = [pc EXCEPT ![c] = "dropped"] /\ ends' = [ends EXCEPT ![c] = 0]
      \/ ends[c] = 2 /\ pc' = [pc EXCEPT ![c] = "ending"] /\ ends' = [ends EXCEPT ![c] = 1]
  BY DEF Posted, Goto, Shape
<1>3. /\ pc' \in [Clones -> {"unused", "idle", "took", "check", "send", "ending", "dropped"}]
      /\ ends' \in [Clones -> 0 .. 2]
      /\ pc'[c] \in {"idle", "dropped", "ending"}
      /\ pc'[c] = "ending" => ends'[c] # 0
      /\ \A d \in Clones : d # c => pc'[d] = pc[d] /\ ends'[d] = ends[d]
  <2>1. pc' \in [Clones -> {"unused", "idle", "took", "check", "send", "ending", "dropped"}]
    BY <1>2 DEF Shape
  <2>2. ends' \in [Clones -> 0 .. 2]
    BY <1>2 DEF Shape
  <2>3. pc'[c] \in {"idle", "dropped", "ending"}
    BY <1>2 DEF Shape
  <2>4. pc'[c] = "ending" => ends'[c] # 0
    BY <1>2 DEF Shape
  <2>5. \A d \in Clones : d # c => pc'[d] = pc[d] /\ ends'[d] = ends[d]
    BY <1>2 DEF Shape
  <2> QED BY <2>1, <2>2, <2>3, <2>4, <2>5
<1>4. index' \in [Clones -> 0 .. MaxSends]
  BY <1>1 DEF Shape
<1>5. /\ work' \in [Clones -> SUBSET Ops]
      /\ work'[c] = {}
      /\ \A d \in Clones : d # c => work'[d] = work[d] /\ index'[d] = index[d]
  BY <1>1 DEF Shape, ClonesInv
<1>6. ClonesInv'
  BY <1>3, <1>5 DEF ClonesInv
<1>7. Held(c)' = {}
  BY <1>3, <1>5 DEF Held
<1>8. \A d \in Clones : d # c => Held(d)' = Held(d)
  BY <1>3, <1>5, OthersHold
<1> QED BY <1>1, <1>3, <1>4, <1>5, <1>6, <1>7, <1>8

LEMMA HoleEffect ==
    ASSUME Shape, ClonesInv, NEW c \in Clones, pc[c] \in {"check", "send"},
           NEW lost, Hole(c, lost)
    PROVE  holes' \subseteq Indices
<1>1. ends[c] = 0 => index[c] \in Indices
  BY DEF ClonesInv
<1> QED BY <1>1 DEF Hole, Shape

\* An operation leaves its clone: for the queue, for the page, or for good.
LEMMA Released ==
    ASSUME IInv, NEW c \in Clones, NEW op \in work[c],
           pc[c] \in {"check", "send"}, Posted(c), holes' \subseteq Indices, UNCHANGED <<alive, up>>,
           \/ View \notin alive /\ store' = store \ op.data /\ UNCHANGED <<queue, scripts, abandoned>>
           \/ abandoned' = abandoned \union op.data /\ UNCHANGED <<queue, scripts, store>>
           \/ queue' = Append(queue, op) /\ UNCHANGED <<scripts, store, abandoned>>
           \/ /\ View \in alive
              /\ scripts' = [scripts EXCEPT ![View] = Append(@, op)]
              /\ UNCHANGED <<queue, store, abandoned>>
    PROVE  IInv'
<1> USE DEF IInv
<1>1. op \in Ops /\ work[c] = {op} /\ Held(c) = Msg(op) /\ DataOf(work[c]) = op.data
  BY DEF ClonesInv, Held, DataOf
<1>2. op.data \subseteq Msg(op) /\ Msg(op) \subseteq Indices
  BY <1>1, OpParts
<1>3. /\ ClonesInv' /\ Held(c)' = {} /\ DataOf(work[c])' = {}
      /\ \A d \in Clones : d # c => Held(d)' = Held(d) /\ DataOf(work[d])' = DataOf(work[d])
      /\ pc' \in [Clones -> {"unused", "idle", "took", "check", "send", "ending", "dropped"}]
      /\ index' \in [Clones -> 0 .. MaxSends]
      /\ ends' \in [Clones -> 0 .. 2]
      /\ UNCHANGED <<registered, next, pending, fetching, arrived, delivered, currentIndex>>
  BY PostedEffect DEF DataOf, page
<1>4. View \in Views /\ queue \in Seq(Ops) /\ scripts[View] \in Seq(Ops)
  BY ChannelAssumption DEF Shape
<1>5. Msg(op) \intersect (Msgs(queue) \union Msgs(scripts[View]) \union fetching
                          \union arrived \union pending) = {}
  BY <1>1 DEF OnePlace
<1>6. \A d \in Clones : d # c => Held(d) \intersect Msg(op) = {}
  BY <1>1 DEF OnePlace
<1>7. Msg(op) \subseteq UnderWay
  BY <1>1 DEF PlacesInv
<1>8. DeliveredInOrder' /\ UnderWay' = UnderWay
  BY <1>3 DEF DeliveredInOrder, UnderWay
<1>9. CASE /\ UNCHANGED <<queue, scripts>>
           /\ \/ View \notin alive /\ store' = store \ op.data /\ abandoned' = abandoned
              \/ abandoned' = abandoned \union op.data /\ store' = store
  <2>1. Shape'
    BY <1>2, <1>3, <1>9 DEF Shape
  <2>2. OnePlace'
    BY <1>3, <1>9 DEF OnePlace
  <2>3. PlacesInv'
    BY <1>3, <1>8, <1>9 DEF PlacesInv
  <2>4. StoredDataIsOwned'
    <3> SUFFICES ASSUME NEW i \in store', i \notin abandoned'
                 PROVE  \/ \E d \in Clones : i \in DataOf(work[d])'
                        \/ i \in DataOf(Entries(queue))'
                        \/ i \in DataOf(Entries(scripts[View]))'
                        \/ i \in fetching'
      BY DEF StoredDataIsOwned
    <3>1. i \in store /\ i \notin abandoned /\ i \notin op.data
      BY <1>9
    <3>2. \A d \in Clones : i \in DataOf(work[d]) => i \in DataOf(work[d])'
      BY <1>1, <1>3, <3>1
    <3> QED BY <1>3, <1>9, <3>1, <3>2 DEF StoredDataIsOwned
  <2>5. DataInv'
    BY <1>3, <1>9 DEF DataInv
  <2> QED BY <1>3, <1>8, <2>1, <2>2, <2>3, <2>4, <2>5
<1>10. CASE queue' = Append(queue, op) /\ UNCHANGED <<scripts, store, abandoned>>
  <2>1. /\ queue' \in Seq(Ops)
        /\ Msgs(queue)' = Msgs(queue) \union Msg(op)
        /\ DataOf(Entries(queue))' = DataOf(Entries(queue)) \union op.data
        /\ Once(queue)'
    BY <1>1, <1>4, <1>5, <1>10, AppendOp DEF OnePlace
  <2>2. Shape'
    BY <1>3, <1>10, <2>1 DEF Shape
  <2>3. OnePlace'
    BY <1>3, <1>5, <1>6, <1>10, <2>1, SMTT(30) DEF OnePlace
  <2>4. PlacesInv'
    BY <1>3, <1>7, <1>8, <1>10, <2>1 DEF PlacesInv
  <2>5. StoredDataIsOwned'
    <3> SUFFICES ASSUME NEW i \in store', i \notin abandoned'
                 PROVE  \/ \E d \in Clones : i \in DataOf(work[d])'
                        \/ i \in DataOf(Entries(queue))'
                        \/ i \in DataOf(Entries(scripts[View]))'
                        \/ i \in fetching'
      BY DEF StoredDataIsOwned
    <3>1. \A d \in Clones : i \in DataOf(work[d]) =>
            i \in DataOf(work[d])' \/ i \in DataOf(Entries(queue))'
      BY <1>1, <1>3, <2>1
    <3>2. i \in DataOf(Entries(queue)) => i \in DataOf(Entries(queue))'
      BY <2>1
    <3> QED BY <1>3, <1>10, <3>1, <3>2 DEF StoredDataIsOwned
  <2>6. DataInv'
    BY <1>1, <1>3, <1>10, <2>1 DEF DataInv
  <2> QED BY <1>3, <1>8, <2>2, <2>3, <2>4, <2>5, <2>6
<1>11. CASE /\ View \in alive
            /\ scripts' = [scripts EXCEPT ![View] = Append(@, op)]
            /\ UNCHANGED <<queue, store, abandoned>>
  <2>1. scripts'[View] = Append(scripts[View], op)
    BY <1>4, <1>11 DEF Shape
  <2>2. /\ Append(scripts[View], op) \in Seq(Ops)
        /\ Msgs(scripts[View])' = Msgs(scripts[View]) \union Msg(op)
        /\ DataOf(Entries(scripts[View]))' = DataOf(Entries(scripts[View])) \union op.data
        /\ Once(scripts[View])'
    BY <1>1, <1>4, <1>5, <2>1, AppendOp DEF OnePlace
  <2>3. scripts' \in [Views -> Seq(Ops)]
    BY <1>4, <1>11, <2>2 DEF Shape
  <2>4. Shape'
    BY <1>3, <1>11, <2>3 DEF Shape
  <2>5. OnePlace'
    <3>1. Once(queue)' /\ Msgs(queue)' = Msgs(queue)
      BY <1>11 DEF OnePlace
    <3> QED BY <1>3, <1>5, <1>6, <2>2, <3>1, SMTT(30) DEF OnePlace
  <2>6. PlacesInv'
    BY <1>3, <1>7, <1>8, <1>11, <2>2 DEF PlacesInv
  <2>7. StoredDataIsOwned'
    <3> SUFFICES ASSUME NEW i \in store', i \notin abandoned'
                 PROVE  \/ \E d \in Clones : i \in DataOf(work[d])'
                        \/ i \in DataOf(Entries(queue))'
                        \/ i \in DataOf(Entries(scripts[View]))'
                        \/ i \in fetching'
      BY DEF StoredDataIsOwned
    <3>1. \A d \in Clones : i \in DataOf(work[d]) =>
            i \in DataOf(work[d])' \/ i \in DataOf(Entries(scripts[View]))'
      BY <1>1, <1>3, <2>2
    <3>2. i \in DataOf(Entries(scripts[View])) => i \in DataOf(Entries(scripts[View]))'
      BY <2>2
    <3> QED BY <1>3, <1>11, <3>1, <3>2 DEF StoredDataIsOwned
  <2>8. DataInv'
    BY <1>1, <1>3, <1>11, <2>2 DEF DataInv
  <2> QED BY <1>3, <1>8, <2>4, <2>5, <2>6, <2>7, <2>8
<1> QED BY <1>9, <1>10, <1>11

LEMMA CheckAliveStep ==
    ASSUME IInv, NEW c \in Clones, CheckAlive(c)
    PROVE  IInv'
<1> USE DEF IInv
<1>1. PICK op \in work[c] :
         /\ pc[c] = "check"
         /\ \/ /\ pc' = [pc EXCEPT ![c] = "send"]
               /\ UNCHANGED <<dispatch, page, index, work, ends, currentIndex, holes>>
            \/ op.view \notin alive /\ Refuse(op) /\ Posted(c) /\ Hole(c, TRUE)
  BY DEF CheckAlive, Turn, Goto
<1>2. op \in Ops /\ op.view = View
  BY <1>1, OpParts DEF ClonesInv
<1>3. CASE /\ pc' = [pc EXCEPT ![c] = "send"]
           /\ UNCHANGED <<dispatch, page, index, work, ends, currentIndex, holes>>
  <2>1. Shape'
    BY <1>3 DEF Shape, dispatch, page
  <2>2. ClonesInv'
    BY <1>1, <1>3 DEF ClonesInv, Shape
  <2>3. \A d \in Clones : Held(d)' = Held(d)
    BY <1>1, <1>3 DEF Held, Shape
  <2>4. Held(c)' \subseteq Held(c)
    BY <2>3
  <2> QED BY <1>3, <2>1, <2>2, <2>3, <2>4, CloneFrame DEF Shape
<1>4. CASE op.view \notin alive /\ Refuse(op) /\ Posted(c) /\ Hole(c, TRUE)
  <2>1. holes' \subseteq Indices
    BY <1>1, <1>4, HoleEffect
  <2>2. View \notin alive /\ store' = store \ op.data /\ UNCHANGED <<alive, up, queue, scripts, abandoned>>
    BY <1>2, <1>4 DEF Refuse
  <2> QED BY <1>1, <1>4, <2>1, <2>2, Released
<1> QED BY <1>1, <1>3, <1>4

\* What running an operation does.
LEMMA RunEffect ==
    ASSUME NEW op, op.view = View, NEW fails, Run(op, fails)
    PROVE  \/ View \notin alive /\ store' = store \ op.data /\ UNCHANGED <<scripts, abandoned>>
           \/ abandoned' = abandoned \union op.data /\ UNCHANGED <<scripts, store>>
           \/ /\ View \in alive
              /\ scripts' = [scripts EXCEPT ![View] = Append(@, op)]
              /\ UNCHANGED <<store, abandoned>>
BY DEF Run

LEMMA PostOpStep ==
    ASSUME IInv, NEW c \in Clones, NEW fails \in EvalFails, PostOp(c, fails)
    PROVE  IInv'
<1> USE DEF IInv
<1>1. PICK op \in work[c] :
         /\ pc[c] = "send"
         /\ \/ PostInline(op, fails) /\ Posted(c) /\ Hole(c, fails)
            \/ PostRemote(op) /\ Posted(c) /\ Hole(c, ~up)
  BY DEF PostOp, Turn
<1>2. op \in Ops /\ op.view = View
  BY <1>1, OpParts DEF ClonesInv
<1>3. holes' \subseteq Indices /\ Posted(c) /\ pc[c] \in {"check", "send"}
  BY <1>1, HoleEffect
<1>4. CASE PostInline(op, fails)
  <2>1. UNCHANGED <<alive, up, queue>> /\ Run(op, fails)
    BY <1>4 DEF PostInline
  <2> QED BY <1>2, <1>3, <2>1, RunEffect, Released
<1>5. CASE PostRemote(op)
  <2>1. /\ UNCHANGED <<alive, up, scripts, store>>
        /\ \/ queue' = Append(queue, op) /\ abandoned' = abandoned
           \/ queue' = queue /\ abandoned' = abandoned \union op.data
    BY <1>5 DEF PostRemote
  <2> QED BY <1>3, <2>1, Released
<1> QED BY <1>1, <1>4, <1>5

-----------------------------------------------------------------------------
(* The run loop thread. *)

LEMMA LoopRunsStep ==
    ASSUME IInv, NEW fails \in EvalFails, LoopRuns(fails)
    PROVE  IInv'
<1> USE DEF IInv
<1> DEFINE op == Head(queue)
<1>1. /\ queue # <<>> /\ queue' = Tail(queue) /\ Run(op, fails)
      /\ UNCHANGED <<alive, up, page, pc, index, work, ends, currentIndex>>
      /\ holes' = IF fails /\ op.script[1] # "end" THEN holes \union {op.script[2]} ELSE holes
  BY DEF LoopRuns, RunPosted
<1>2. queue \in Seq(Ops) /\ View \in Views /\ scripts[View] \in Seq(Ops)
  BY ChannelAssumption DEF Shape
<1>3. /\ op \in Ops /\ queue' \in Seq(Ops)
      /\ Msgs(queue) = Msg(op) \union Msgs(queue)'
      /\ DataOf(Entries(queue)) = op.data \union DataOf(Entries(queue))'
      /\ Once(queue)' /\ Msg(op) \intersect Msgs(queue)' = {}
  BY <1>1, <1>2, TailOp DEF OnePlace
<1> HIDE DEF op
<1>4. /\ op.view = View /\ op.data \subseteq Msg(op) /\ Msg(op) \subseteq Indices
      /\ op.script[1] # "end" => Msg(op) = {op.script[2]}
  BY <1>3, OpParts
<1>5. /\ UNCHANGED <<registered, next, pending, fetching, arrived, delivered, currentIndex>>
      /\ UNCHANGED <<alive, up, pc, index, work, ends>>
      /\ \A c \in Clones : Held(c)' = Held(c)
  BY <1>1 DEF page, Held
<1>6. holes' \subseteq Indices
  BY <1>1, <1>4 DEF Shape
<1>7. ClonesInv' /\ DeliveredInOrder' /\ UnderWay' = UnderWay
  BY <1>5 DEF ClonesInv, DeliveredInOrder, UnderWay
<1>8. Msg(op) \intersect (Msgs(scripts[View]) \union fetching \union arrived \union pending) = {}
  BY <1>3 DEF OnePlace
<1>9. CASE /\ scripts' = scripts
           /\ \/ View \notin alive /\ store' = store \ op.data /\ abandoned' = abandoned
              \/ abandoned' = abandoned \union op.data /\ store' = store
  <2>1. Shape'
    BY <1>3, <1>4, <1>5, <1>6, <1>9 DEF Shape
  <2>2. OnePlace'
    BY <1>3, <1>5, <1>9 DEF OnePlace
  <2>3. PlacesInv'
    BY <1>3, <1>5, <1>7, <1>9 DEF PlacesInv
  <2>4. StoredDataIsOwned'
    BY <1>3, <1>5, <1>9 DEF StoredDataIsOwned
  <2>5. DataInv'
    BY <1>3, <1>5, <1>9 DEF DataInv
  <2> QED BY <1>7, <2>1, <2>2, <2>3, <2>4, <2>5
<1>10. CASE /\ View \in alive
            /\ scripts' = [scripts EXCEPT ![View] = Append(@, op)]
            /\ UNCHANGED <<store, abandoned>>
  <2>1. scripts'[View] = Append(scripts[View], op)
    BY <1>2, <1>10 DEF Shape
  <2>2. /\ Append(scripts[View], op) \in Seq(Ops)
        /\ Msgs(scripts[View])' = Msgs(scripts[View]) \union Msg(op)
        /\ DataOf(Entries(scripts[View]))' = DataOf(Entries(scripts[View])) \union op.data
        /\ Once(scripts[View])'
    BY <1>2, <1>3, <1>8, <2>1, AppendOp DEF OnePlace
  <2>3. scripts' \in [Views -> Seq(Ops)]
    BY <1>2, <1>10, <2>2 DEF Shape
  <2>4. Shape'
    BY <1>3, <1>5, <1>6, <1>10, <2>3 DEF Shape
  <2>5. OnePlace'
    BY <1>3, <1>5, <1>8, <2>2 DEF OnePlace
  <2>6. PlacesInv'
    BY <1>3, <1>5, <1>7, <2>2 DEF PlacesInv
  <2>7. StoredDataIsOwned'
    BY <1>3, <1>5, <1>10, <2>2 DEF StoredDataIsOwned
  <2>8. DataInv'
    BY <1>3, <1>5, <1>10, <2>2 DEF DataInv
  <2> QED BY <1>7, <2>4, <2>5, <2>6, <2>7, <2>8
<1> QED BY <1>1, <1>4, <1>9, <1>10, RunEffect

LEMMA CloseViewStep ==
    ASSUME IInv, CloseView
    PROVE  IInv'
<1> USE DEF IInv
<1>1. /\ alive' = alive \ {View}
      /\ scripts' = [scripts EXCEPT ![View] = <<>>]
      /\ abandoned' = abandoned \union DataOf(Entries(scripts[View])) \union fetching
      /\ registered' = FALSE /\ next' = 0
      /\ pending' = {} /\ fetching' = {} /\ arrived' = {} /\ delivered' = <<>>
      /\ UNCHANGED <<up, queue, store, pc, index, work, ends, currentIndex, holes>>
  BY DEF CloseView, DropOwner, sending
<1>2. View \in Views /\ scripts[View] \in Seq(Ops) /\ scripts'[View] = <<>>
  BY <1>1, ChannelAssumption DEF Shape
<1>3. /\ Msgs(scripts[View])' = {} /\ Once(scripts[View])'
      /\ DataOf(Entries(scripts[View]))' = {}
      /\ \A c \in Clones : Held(c)' = Held(c)
      /\ Msgs(queue)' = Msgs(queue) /\ Once(queue)' = Once(queue)
  BY <1>1, <1>2, NoOps DEF Held
<1>4. next \in Nat /\ currentIndex \in Nat
  BY ChannelAssumption DEF Shape
<1>5. UnderWay \subseteq UnderWay' /\ 0 \in 0 .. currentIndex
  BY <1>1, <1>4 DEF UnderWay
<1>6. DataOf(Entries(scripts[View])) \subseteq Indices
  <2>1. \A op \in Entries(scripts[View]) : op \in Ops
    BY <1>2 DEF Entries
  <2>2. \A op \in Ops : op.data \subseteq Indices
    BY OpParts
  <2> QED BY <2>1, <2>2 DEF DataOf
<1>7. scripts' \in [Views -> Seq(Ops)]
  BY <1>1, NoOps DEF Shape
<1>8. Shape'
  BY <1>1, <1>5, <1>6, <1>7, EmptySeq DEF Shape
<1>9. ClonesInv'
  BY <1>1 DEF ClonesInv
<1>10. OnePlace'
  BY <1>1, <1>3 DEF OnePlace
<1>11. PlacesInv'
  BY <1>1, <1>3, <1>5 DEF PlacesInv
<1>12. DeliveredInOrder'
  BY <1>1 DEF DeliveredInOrder
<1>13. StoredDataIsOwned' /\ DataInv'
  BY <1>1, <1>2 DEF StoredDataIsOwned, DataInv
<1> QED BY <1>8, <1>9, <1>10, <1>11, <1>12, <1>13

LEMMA StopRunLoopStep ==
    ASSUME IInv, StopRunLoop
    PROVE  IInv'
<1> USE DEF IInv
<1>1. /\ up' = FALSE
      /\ \/ UNCHANGED <<queue, abandoned>>
         \/ queue' = <<>> /\ abandoned' = abandoned \union DataOf(Entries(queue))
      /\ UNCHANGED <<alive, scripts, store, registered, next, pending, fetching, arrived,
                     delivered, pc, index, work, ends, currentIndex, holes>>
  BY DEF StopRunLoop, StopLoop, sending, page
<1>2. /\ queue' \in Seq(Ops) /\ Msgs(queue)' \subseteq Msgs(queue) /\ Once(queue)'
      /\ DataOf(Entries(queue))' \subseteq DataOf(Entries(queue))
      /\ DataOf(Entries(queue)) \subseteq DataOf(Entries(queue))' \union abandoned'
      /\ \A c \in Clones : Held(c)' = Held(c)
  BY <1>1, NoOps DEF Shape, OnePlace, Held
<1>3. abandoned' \subseteq Indices
  <2>1. \A op \in Entries(queue) : op \in Ops
    BY DEF Entries, Shape
  <2>2. \A op \in Ops : op.data \subseteq Indices
    BY OpParts
  <2>3. DataOf(Entries(queue)) \subseteq Indices
    BY <2>1, <2>2 DEF DataOf
  <2> QED BY <1>1, <2>3 DEF Shape
<1>4. Shape'
  BY <1>1, <1>2, <1>3 DEF Shape
<1>5. ClonesInv' /\ DeliveredInOrder'
  BY <1>1 DEF ClonesInv, DeliveredInOrder
<1>6. OnePlace'
  BY <1>1, <1>2 DEF OnePlace
<1>7. PlacesInv'
  BY <1>1, <1>2 DEF PlacesInv, UnderWay
<1>8. StoredDataIsOwned'
  BY <1>1, <1>2 DEF StoredDataIsOwned
<1>9. DataInv'
  BY <1>1, <1>2 DEF DataInv
<1> QED BY <1>4, <1>5, <1>6, <1>7, <1>8, <1>9

\* The page gets a message that was among the scripts or the answers.
LEMMA ReceivedAtPage ==
    ASSUME IInv, NEW i \in UnderWay, Receive(i),
           i \notin pending, i \notin Msgs(queue), \A c \in Clones : i \notin Held(c),
           i \notin fetching, fetching' = fetching,
           \/ arrived' = arrived \ {i} /\ i \notin Msgs(scripts[View]) /\ scripts' = scripts
           \/ /\ arrived' = arrived /\ i \notin arrived
              /\ scripts' \in [Views -> Seq(Ops)] /\ Once(scripts'[View])
              /\ Msgs(scripts[View]) = {i} \union Msgs(scripts'[View]) /\ i \notin Msgs(scripts'[View])
              /\ DataOf(Entries(scripts[View])) = DataOf(Entries(scripts'[View]))
              /\ View \notin alive => scripts'[View] = <<>>,
           UNCHANGED <<alive, up, queue, store, abandoned, sending, registered>>
    PROVE  IInv'
<1> USE DEF IInv
<1>1. /\ next' \in next .. currentIndex
      /\ pending' \subseteq pending \union {i}
      /\ pending' \subseteq next' + 1 .. currentIndex - 1
      /\ \A j \in UnderWay : j # i /\ j \notin pending => j \in next' .. currentIndex - 1
      /\ delivered' \in Seq(Nat)
      /\ DeliveredInOrder'
  BY ReceiveEffect
<1>2. /\ UNCHANGED <<alive, up, queue, store, abandoned, pc, index, work, ends, currentIndex,
                     holes, registered, fetching>>
      /\ \A c \in Clones : Held(c)' = Held(c)
      /\ UnderWay' = next' .. currentIndex - 1
  BY DEF sending, Held, UnderWay
<1>3. next' \in 0 .. currentIndex
  <2>1. next \in Nat /\ currentIndex \in Nat
    BY ChannelAssumption DEF Shape
  <2> QED BY <1>1, <2>1
<1>4. /\ scripts' \in [Views -> Seq(Ops)] /\ arrived' \subseteq arrived /\ i \notin arrived'
      /\ Msgs(scripts[View])' \subseteq Msgs(scripts[View]) /\ i \notin Msgs(scripts[View])'
      /\ Once(scripts[View])'
  BY DEF Shape, OnePlace
<1>5. Shape'
  BY <1>1, <1>2, <1>3, <1>4 DEF Shape
<1>6. ClonesInv'
  BY <1>2 DEF ClonesInv
<1>7. OnePlace'
  <2>1. Msgs(queue)' = Msgs(queue) /\ Once(queue)'
    BY <1>2 DEF OnePlace
  <2>2. \A c, d \in Clones : c # d => Held(c)' \intersect Held(d)' = {}
    BY <1>2 DEF OnePlace
  <2>3. /\ pending' \subseteq pending \union {i} /\ arrived' \subseteq arrived \ {i}
        /\ Msgs(scripts[View])' \subseteq Msgs(scripts[View]) \ {i}
    BY <1>1, <1>4
  <2>4. \A c \in Clones :
          Held(c)' \intersect (Msgs(queue) \union Msgs(scripts[View])' \union fetching
                               \union arrived' \union pending') = {}
    BY <1>2, <2>3 DEF OnePlace
  <2>5. Msgs(queue) \intersect (Msgs(scripts[View])' \union fetching \union arrived'
                                \union pending') = {}
    BY <2>3 DEF OnePlace
  <2>6. /\ Msgs(scripts[View])' \intersect (fetching \union arrived' \union pending') = {}
        /\ fetching \intersect (arrived' \union pending') = {}
        /\ arrived' \intersect pending' = {}
    BY <2>3 DEF OnePlace
  <2> QED BY <1>4, <2>1, <2>2, <2>4, <2>5, <2>6 DEF OnePlace
<1>8. PlacesInv'
  <2>1. ASSUME NEW S \in SUBSET UnderWay, i \notin S, S \intersect pending = {}
        PROVE  S \subseteq UnderWay'
    BY <1>1, <1>2, <2>1
  <2>2. \A c \in Clones : Held(c)' \subseteq UnderWay'
    BY <1>2, <2>1 DEF PlacesInv, OnePlace
  <2>3. Msgs(queue)' \subseteq UnderWay' /\ fetching' \subseteq UnderWay'
    BY <1>2, <2>1 DEF PlacesInv, OnePlace
  <2>4. Msgs(scripts[View])' \subseteq UnderWay' /\ arrived' \subseteq UnderWay'
    <3>1. Msgs(scripts[View])' \in SUBSET UnderWay /\ arrived' \in SUBSET UnderWay
      BY <1>4 DEF PlacesInv
    <3>2. Msgs(scripts[View])' \intersect pending = {} /\ arrived' \intersect pending = {}
      BY <1>4 DEF OnePlace
    <3> QED BY <1>4, <2>1, <3>1, <3>2
  <2> QED BY <2>2, <2>3, <2>4 DEF PlacesInv
<1>9. DataOf(Entries(scripts[View]))' = DataOf(Entries(scripts[View]))
  OBVIOUS
<1>10. StoredDataIsOwned'
  BY <1>2, <1>9 DEF StoredDataIsOwned
<1>11. DataInv'
  BY <1>2, <1>9 DEF DataInv
<1> QED BY <1>1, <1>5, <1>6, <1>7, <1>8, <1>10, <1>11

LEMMA EvalScriptStep ==
    ASSUME IInv, EvalScript
    PROVE  IInv'
<1> USE DEF IInv
<1> DEFINE op == Head(scripts[View])
<1>1. /\ scripts[View] # <<>>
      /\ scripts' = [scripts EXCEPT ![View] = Tail(@)]
      /\ IF op.script[1] = "message" THEN Receive(op.script[2])
         ELSE UNCHANGED <<next, pending, delivered>>
      /\ fetching' = IF op.script[1] = "fetch" THEN fetching \union {op.script[2]} ELSE fetching
      /\ UNCHANGED <<alive, up, queue, store, abandoned, sending, registered, arrived>>
  BY DEF EvalScript
<1>2. View \in Views /\ scripts[View] \in Seq(Ops) /\ scripts'[View] = Tail(scripts[View])
  BY <1>1, ChannelAssumption DEF Shape
<1>3. /\ op \in Ops /\ Tail(scripts[View]) \in Seq(Ops)
      /\ Msgs(scripts[View]) = Msg(op) \union Msgs(scripts'[View])
      /\ DataOf(Entries(scripts[View])) = op.data \union DataOf(Entries(scripts'[View]))
      /\ Once(scripts'[View]) /\ Msg(op) \intersect Msgs(scripts'[View]) = {}
  BY <1>1, <1>2, TailOp DEF OnePlace
<1>4. scripts' \in [Views -> Seq(Ops)]
  BY <1>1, <1>2, <1>3 DEF Shape
<1>5. View \in alive
  BY <1>1 DEF DataInv
<1> HIDE DEF op
<1>6. CASE op.script[1] = "message"
  <2> DEFINE i == op.script[2]
  <2>1. Msg(op) = {i} /\ op.data = {}
    BY <1>3, <1>6, OpParts
  <2>2. Receive(i) /\ fetching' = fetching
    BY <1>1, <1>6
  <2> HIDE DEF i
  <2>3. /\ i \in UnderWay /\ i \notin pending /\ i \notin Msgs(queue)
        /\ i \notin fetching /\ i \notin arrived
        /\ \A c \in Clones : i \notin Held(c)
    BY <1>3, <2>1 DEF OnePlace, PlacesInv
  <2> QED BY <1>1, <1>3, <1>4, <1>5, <2>1, <2>2, <2>3, ReceivedAtPage
<1>7. CASE op.script[1] # "message"
  <2> DEFINE new == IF op.script[1] = "fetch" THEN {op.script[2]} ELSE {}
  <2>1. /\ new = op.data /\ new \subseteq Msg(op) /\ new \subseteq Indices
        /\ fetching' = fetching \union new
    BY <1>1, <1>3, <1>7, OpParts
  <2> HIDE DEF new
  <2>2. /\ UNCHANGED <<alive, up, queue, store, abandoned, pc, index, work, ends, currentIndex,
                       holes, registered, arrived, next, pending, delivered>>
        /\ \A c \in Clones : Held(c)' = Held(c)
        /\ UnderWay' = UnderWay
    BY <1>1, <1>7 DEF sending, Held, UnderWay
  <2>3. Shape'
    BY <1>4, <2>1, <2>2 DEF Shape
  <2>4. ClonesInv' /\ DeliveredInOrder'
    BY <2>2 DEF ClonesInv, DeliveredInOrder
  <2>5. OnePlace'
    <3>1. Msgs(queue)' = Msgs(queue) /\ Once(queue)'
      BY <2>2 DEF OnePlace
    <3> QED BY <1>3, <2>1, <2>2, <3>1 DEF OnePlace
  <2>6. PlacesInv'
    BY <1>3, <2>1, <2>2 DEF PlacesInv
  <2>7. StoredDataIsOwned'
    BY <1>3, <2>1, <2>2 DEF StoredDataIsOwned
  <2>8. DataInv'
    BY <1>3, <1>5, <2>1, <2>2 DEF DataInv
  <2> QED BY <2>3, <2>4, <2>5, <2>6, <2>7, <2>8
<1> QED BY <1>6, <1>7

LEMMA ServeFetchStep ==
    ASSUME IInv, NEW i \in Indices, ServeFetch(i)
    PROVE  IInv'
<1> USE DEF IInv
<1>1. /\ i \in fetching
      /\ fetching' = fetching \ {i}
      /\ store' = store \ {i}
      /\ arrived' = IF i \in store THEN arrived \union {i} ELSE arrived
      /\ UNCHANGED <<alive, up, queue, scripts, abandoned, pc, index, work, ends, currentIndex,
                     holes, registered, next, pending, delivered>>
  BY DEF ServeFetch, sending
<1>2. /\ \A c \in Clones : Held(c)' = Held(c)
      /\ UnderWay' = UnderWay
      /\ Msgs(queue)' = Msgs(queue) /\ Msgs(scripts[View])' = Msgs(scripts[View])
      /\ Once(queue)' /\ Once(scripts[View])'
  BY <1>1 DEF Held, UnderWay, OnePlace
<1>3. Shape'
  BY <1>1 DEF Shape
<1>4. ClonesInv' /\ DeliveredInOrder'
  BY <1>1 DEF ClonesInv, DeliveredInOrder
<1>5. OnePlace'
  BY <1>1, <1>2 DEF OnePlace
<1>6. PlacesInv'
  BY <1>1, <1>2 DEF PlacesInv
<1>7. StoredDataIsOwned'
  BY <1>1 DEF StoredDataIsOwned
<1>8. /\ \A c \in Clones : i \notin DataOf(work[c])
      /\ i \notin DataOf(Entries(queue)) /\ i \notin DataOf(Entries(scripts[View]))
  <2>1. \A op \in Ops : op.data \subseteq Msg(op)
    BY OpParts
  <2>2. queue \in Seq(Ops) /\ scripts[View] \in Seq(Ops)
    BY ChannelAssumption DEF Shape
  <2>3. \A s \in Seq(Ops) : DataOf(Entries(s)) \subseteq Msgs(s)
    BY <2>1 DEF DataOf, Entries, Msgs
  <2>4. i \notin Msgs(queue) /\ i \notin Msgs(scripts[View]) /\ \A c \in Clones : i \notin Held(c)
    BY <1>1 DEF OnePlace
  <2>5. \A c \in Clones : DataOf(work[c]) \subseteq Held(c)
    BY <2>1 DEF DataOf, Held, ClonesInv
  <2> QED BY <2>2, <2>3, <2>4, <2>5
<1>9. DataInv'
  BY <1>1, <1>8 DEF DataInv
<1> QED BY <1>3, <1>4, <1>5, <1>6, <1>7, <1>9

LEMMA FetchResolvesStep ==
    ASSUME IInv, NEW i \in Indices, FetchResolves(i)
    PROVE  IInv'
<1> USE DEF IInv
<1>1. /\ i \in arrived /\ arrived' = arrived \ {i} /\ Receive(i)
      /\ UNCHANGED <<alive, up, queue, scripts, store, abandoned, sending, registered, fetching>>
  BY DEF FetchResolves, dispatch
<1>2. /\ i \in UnderWay /\ i \notin pending /\ i \notin Msgs(queue) /\ i \notin fetching
      /\ i \notin Msgs(scripts[View]) /\ \A c \in Clones : i \notin Held(c)
  BY <1>1 DEF OnePlace, PlacesInv
<1> QED BY <1>1, <1>2, ReceivedAtPage

LEMMA PageClosesStep ==
    ASSUME IInv, PageCloses
    PROVE  IInv'
<1> USE DEF IInv
<1>1. /\ registered' = FALSE
      /\ UNCHANGED <<alive, up, queue, scripts, store, abandoned, pc, index, work, ends,
                     currentIndex, holes, next, pending, fetching, arrived, delivered>>
  BY DEF PageCloses, dispatch, sending
<1>2. \A c \in Clones : Held(c)' = Held(c)
  BY <1>1 DEF Held
<1>3. Shape' /\ ClonesInv' /\ DeliveredInOrder'
  BY <1>1 DEF Shape, ClonesInv, DeliveredInOrder
<1>4. OnePlace' /\ PlacesInv'
  BY <1>1, <1>2 DEF OnePlace, PlacesInv, UnderWay
<1>5. StoredDataIsOwned' /\ DataInv'
  BY <1>1 DEF StoredDataIsOwned, DataInv
<1> QED BY <1>3, <1>4, <1>5

-----------------------------------------------------------------------------
(* The theorems. *)

LEMMA InitIInv == Init => IInv
<1> SUFFICES ASSUME Init PROVE IInv
  OBVIOUS
<1> USE ChannelAssumption DEF Init, DispatchInit
<1>1. Shape
  BY EmptySeq, NoOps DEF Shape
<1>2. ClonesInv
  BY DEF ClonesInv
<1>3. scripts[View] = <<>> /\ \A c \in Clones : Held(c) = {}
  BY DEF Held
<1>4. OnePlace
  BY <1>3, NoOps DEF OnePlace
<1>5. PlacesInv
  BY <1>3, NoOps DEF PlacesInv
<1>6. DeliveredInOrder
  BY DEF DeliveredInOrder
<1>7. \A c \in Clones : DataOf(work[c]) = {}
  BY DEF DataOf
<1>8. StoredDataIsOwned /\ DataInv
  BY <1>3, <1>7, NoOps DEF StoredDataIsOwned, DataInv
<1> QED BY <1>1, <1>2, <1>4, <1>5, <1>6, <1>8 DEF IInv

LEMMA NextIInv == IInv /\ [Next]_vars => IInv'
<1> SUFFICES ASSUME IInv, [Next]_vars PROVE IInv'
  OBVIOUS
<1>1. ASSUME NEW c \in Clones, NEW d \in Clones, Clone(c, d) PROVE IInv'
  BY <1>1, CloneIsMade
<1>2. ASSUME NEW c \in Clones, Take(c) PROVE IInv'
  BY <1>2, TakeStep
<1>3. ASSUME NEW c \in Clones, NEW n \in {1, 2}, DropClone(c, n) PROVE IInv'
  BY <1>3, DropCloneStep
<1>4. ASSUME NEW c \in Clones, CloneStep(c) PROVE IInv'
  BY <1>4, SerializeFailsStep, SendSmallStep, SendLargeStep, LoadEndStep, CheckAliveStep,
     PostOpStep DEF CloneStep
<1>5. CASE LoopStep
  BY <1>5, LoopRunsStep DEF LoopStep
<1>6. CASE PageStep
  BY <1>6, EvalScriptStep, ServeFetchStep, FetchResolvesStep DEF PageStep
<1>7. CASE CloseView
  BY <1>7, CloseViewStep
<1>8. CASE StopRunLoop
  BY <1>8, StopRunLoopStep
<1>9. CASE PageCloses
  BY <1>9, PageClosesStep
<1>10. CASE UNCHANGED vars
  <2>1. UNCHANGED <<dispatch, page, pc, index, work, ends, currentIndex, holes>>
    BY <1>10 DEF vars, sending
  <2>2. /\ Shape' /\ ClonesInv' /\ OnePlace' /\ PlacesInv' /\ DeliveredInOrder'
        /\ StoredDataIsOwned' /\ DataInv'
    BY <2>1, ZenonT(40) DEF IInv, Shape, ClonesInv, OnePlace, PlacesInv, UnderWay, Held, DeliveredInOrder,
       StoredDataIsOwned, DataInv, dispatch, page
  <2> QED BY <2>2 DEF IInv
<1> QED BY <1>1, <1>2, <1>3, <1>4, <1>5, <1>6, <1>7, <1>8, <1>9, <1>10 DEF Next

\* In every reachable state each message is in one place and the parts of IInv hold.
THEOREM Inductive == Spec => []IInv
BY InitIInv, NextIInv, PTL DEF Spec

\* The handler of the page's Channel class gets the messages in the order of the indices that
\* send took from current_index, none twice and none left out, whatever threads sent them and
\* whether they came as a script or through the custom protocol.
THEOREM MessagesInOrder == Spec => []DeliveredInOrder
<1>1. IInv => DeliveredInOrder
  BY DEF IInv
<1> QED BY <1>1, Inductive, PTL

\* Large data is in CHANNEL_DATA_STORE as long as its operation may still lead to a fetch, and
\* not without an operation that takes it out (AbandonedPostCleanup, fetch_channel_data).
THEOREM StoredForItsFetch == Spec => []StoreInv
<1>1. IInv => TypeOK
  <2> SUFFICES ASSUME Shape, ClonesInv PROVE TypeOK
    BY DEF IInv
  <2> DEFINE AllOps == [view : Views, script : {"message", "fetch", "end"} \X (0 .. MaxSends),
                        data : SUBSET Indices]
  <2>1. Ops \subseteq AllOps
    <3>1. View \in Views /\ MaxSends \in Nat /\ 0 \in 0 .. MaxSends
          /\ \A i \in Indices : i \in 0 .. MaxSends
      BY ChannelAssumption DEF Indices
    <3> QED BY <3>1 DEF Ops, Small, Large, End, Op
  <2>2. queue \in Seq(AllOps) /\ scripts \in [Views -> Seq(AllOps)]
    <3> HIDE DEF AllOps
    <3>1. \A s \in Seq(Ops) : s \in Seq(AllOps)
      BY <2>1, SeqMonotonic
    <3> QED BY <3>1 DEF Shape
  <2>3. DispatchTypeOK({"message", "fetch", "end"} \X (0 .. MaxSends), Indices)
    BY <2>2 DEF Shape, DispatchTypeOK
  <2>4. ASSUME NEW c \in Clones
        PROVE  Cardinality(work[c]) = IF pc[c] \in {"check", "send"} THEN 1 ELSE 0
    <3>1. \A op : Cardinality({op}) = 1
      BY FS_Singleton
    <3>2. Cardinality({}) = 0
      BY FS_EmptySet
    <3>3. CASE pc[c] \in {"check", "send"}
      <4>1. PICK op \in Ops : work[c] = {op}
        BY <3>3 DEF ClonesInv
      <4> QED BY <3>1, <3>3, <4>1
    <3>4. CASE pc[c] \notin {"check", "send"}
      <4>1. work[c] = {}
        BY <3>4 DEF ClonesInv
      <4> QED BY <3>2, <3>4, <4>1
    <3> QED BY <3>3, <3>4
  <2>5. next \in 0 .. MaxSends /\ pending \subseteq next + 1 .. MaxSends - 1
    <3>1. /\ MaxSends \in Nat /\ currentIndex \in 0 .. MaxSends /\ next \in 0 .. currentIndex
          /\ pending \subseteq next + 1 .. currentIndex - 1
      BY ChannelAssumption DEF Shape
    <3> QED BY <3>1
  <2> QED BY <2>3, <2>4, <2>5 DEF Shape, TypeOK
<1>2. IInv => FetchFindsData
  BY NoOps DEF IInv, DataInv, FetchFindsData
<1>3. IInv => StoreInv
  BY <1>1, <1>2 DEF IInv, StoreInv
<1> QED BY <1>3, Inductive, PTL
=============================================================================
