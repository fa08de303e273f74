--------------------------- MODULE CommandProofs ---------------------------
(***************************************************************************)
(* The invariants of Command, proved for every number of views, pages and  *)
(* invokes.                                                                *)
(*                                                                         *)
(* An invoke is followed through the page's queue, the messages to the     *)
(* native side and the run loop's queue: it is in one of them as long as   *)
(* its command has not begun, and the invokes of one page that took the    *)
(* same way into them keep their order in each.                            *)
(***************************************************************************)
EXTENDS Command, SequenceTheorems, TLAPS

Answers == [view : Views, script : {"settle"} \X Invokes, data : SUBSET {}]
Jobs == {"post", "task"} \X Invokes
Stages == {"unused", "sent", "queued", "running", "over", "lost"}

\* The shape of the state; nothing is ever sent to the run loop by the dispatch handle itself.
Shape ==
    /\ alive \subseteq built /\ built \subseteq Views
    /\ up \in BOOLEAN
    /\ queue = <<>> /\ store = {} /\ abandoned = {}
    /\ scripts \in [Views -> Seq(Answers)]
    /\ bound \in Views \union {NoView}
    /\ page \in [Views -> 1 .. MaxPages]
    /\ bridge \subseteq Views
    /\ counter \in [Views -> 0 .. MaxInvokes]
    /\ ipcQueue \in [Views -> Seq(Invokes)]
    /\ ipc \in [Views -> Seq(Invokes)]
    /\ jobs \in Seq(Jobs)
    /\ stage \in [Invokes -> Stages]
    /\ home \in [Invokes -> (Views \union {NoView}) \X (0 .. MaxPages)]
    /\ id \in [Invokes -> 0 .. MaxInvokes]
    /\ waited \subseteq Invokes
    /\ context \in [Invokes -> Views \union {NoView}]
    /\ settledBy \in [Invokes -> 0 .. MaxInvokes]
    /\ mute \subseteq Invokes

\* The invokes that were made are the first ones, each has a page and an id of that page, and
\* only they answer or are answered.
UsedInv ==
    /\ \A r \in Invokes : stage[r] = "unused" <=> home[r][1] = NoView
    /\ \A q, r \in Invokes : q < r /\ stage[r] # "unused" => stage[q] # "unused"
    /\ \A r \in Invokes, w \in Views : stage[r] = "unused" => counter[w] < r
    /\ \A r \in Invokes : stage[r] # "unused" =>
          home[r][1] \in built /\ home[r][2] <= page[home[r][1]]
    /\ \A r \in Invokes, w \in alive : home[r] = Entry(w) => id[r] < counter[w]
    /\ \A q, r \in Invokes :
          q # r /\ home[q] = home[r] /\ stage[q] # "unused" => id[q] # id[r]
    /\ \A q \in Invokes : settledBy[q] # 0 =>
          stage[q] # "unused" /\ stage[settledBy[q]] # "unused"
    /\ \A w \in Views : \A op \in Entries(scripts[w]) : stage[op.script[2]] # "unused"
    /\ \A r \in waited : stage[r] # "unused"

\* Where an invoke is whose command has not begun.
PlaceInv ==
    /\ \A w \in Views : \A r \in Entries(ipcQueue[w]) :
          stage[r] = "sent" /\ home[r] = Entry(w) /\ r \in waited
    /\ \A w \in Views : \A r \in Entries(ipc[w]) : stage[r] = "sent" /\ home[r][1] = w
    /\ \A w \in Views : Entries(ipcQueue[w]) \intersect Entries(ipc[w]) = {}
    /\ \A r \in Invokes : stage[r] = "sent" =>
          \E w \in Views : home[r][1] = w /\ r \in Entries(ipcQueue[w]) \union Entries(ipc[w])
    /\ \A r \in Invokes : stage[r] = "queued" <=> \E j \in Entries(jobs) : j[2] = r

\* Invokes of one page that both waited for window.ipc, or both did not.
Mates(q, r) == q < r /\ home[q] = home[r] /\ (q \in waited <=> r \in waited)

\* No element of s comes after one that it should precede.
InOrder(s, R) == \A j, k \in DOMAIN s : j < k => <<s[k], s[j]>> \notin R

Before == {p \in Invokes \X Invokes : p[1] = p[2] \/ Mates(p[1], p[2])}
JobsBefore ==
    {p \in Jobs \X Jobs : p[1][2] = p[2][2] \/ (p[1][1] = p[2][1] /\ Mates(p[1][2], p[2][2]))}

\* Invokes keep their order in each queue and from one to the next.
OrderInv ==
    /\ \A w \in Views : InOrder(ipcQueue[w], Before) /\ InOrder(ipc[w], Before)
    /\ \A w \in Views : \A q \in Entries(ipcQueue[w]), r \in Entries(ipc[w]) : ~Mates(q, r)
    /\ InOrder(jobs, JobsBefore)
    /\ \A i, j \in Entries(jobs) : i[1] = "post" /\ j[1] = "task" => ~Mates(i[2], j[2])
    /\ \A q, r \in Invokes : Mates(q, r) =>
          /\ stage[r] = "queued" => stage[q] # "sent"
          /\ stage[r] \in {"running", "over"} => stage[q] \notin {"sent", "queued"}

IInv == Shape /\ UsedInv /\ PlaceInv /\ OrderInv

-----------------------------------------------------------------------------
(* Sequences in order. *)

LEMMA EmptyInOrder == ASSUME NEW R PROVE InOrder(<<>>, R) /\ Entries(<<>>) = {}
BY DEF InOrder, Entries

LEMMA AppendEntries ==
    ASSUME NEW S, NEW s \in Seq(S), NEW x \in S
    PROVE  /\ Append(s, x) \in Seq(S)
           /\ Entries(Append(s, x)) = Entries(s) \union {x}
<1>1. /\ Append(s, x) \in Seq(S)
      /\ DOMAIN s = 1 .. Len(s) /\ DOMAIN Append(s, x) = 1 .. Len(s) + 1
      /\ Append(s, x)[Len(s) + 1] = x
      /\ \A k \in 1 .. Len(s) : Append(s, x)[k] = s[k]
      /\ Len(s) \in Nat
  OBVIOUS
<1> QED BY <1>1 DEF Entries

LEMMA AppendInOrder ==
    ASSUME NEW S, NEW R, NEW s \in Seq(S), NEW x \in S
    PROVE  /\ Append(s, x) \in Seq(S)
           /\ Entries(Append(s, x)) = Entries(s) \union {x}
           /\ InOrder(s, R) /\ (\A a \in Entries(s) : <<x, a>> \notin R) => InOrder(Append(s, x), R)
<1>1. /\ Append(s, x) \in Seq(S)
      /\ DOMAIN s = 1 .. Len(s) /\ DOMAIN Append(s, x) = 1 .. Len(s) + 1
      /\ Append(s, x)[Len(s) + 1] = x
      /\ \A k \in 1 .. Len(s) : Append(s, x)[k] = s[k]
      /\ Len(s) \in Nat
  OBVIOUS
<1>2. Entries(Append(s, x)) = Entries(s) \union {x}
  BY AppendEntries
<1>3. ASSUME InOrder(s, R), \A a \in Entries(s) : <<x, a>> \notin R
      PROVE  InOrder(Append(s, x), R)
  <2> SUFFICES ASSUME NEW j \in 1 .. Len(s) + 1, NEW k \in 1 .. Len(s) + 1, j < k
               PROVE  <<Append(s, x)[k], Append(s, x)[j]>> \notin R
    BY <1>1 DEF InOrder
  <2>1. j \in 1 .. Len(s) /\ (k \in 1 .. Len(s) \/ k = Len(s) + 1)
    BY <1>1
  <2>2. s[j] \in Entries(s)
    BY <1>1, <2>1 DEF Entries
  <2>3. CASE k \in 1 .. Len(s)
    BY <1>1, <1>3, <2>1, <2>3 DEF InOrder
  <2>4. CASE k = Len(s) + 1
    BY <1>1, <1>3, <2>1, <2>2, <2>4
  <2> QED BY <2>1, <2>3, <2>4
<1> QED BY <1>1, <1>2, <1>3

LEMMA TailInOrder ==
    ASSUME NEW S, NEW R, NEW s \in Seq(S), s # <<>>
    PROVE  /\ Head(s) \in S /\ Tail(s) \in Seq(S)
           /\ Entries(s) = {Head(s)} \union Entries(Tail(s))
           /\ InOrder(s, R) => /\ InOrder(Tail(s), R)
                               /\ \A a \in Entries(Tail(s)) : <<a, Head(s)>> \notin R
<1>1. /\ Head(s) \in S /\ Head(s) = s[1]
      /\ Tail(s) \in Seq(S)
      /\ Len(s) \in Nat /\ Len(s) > 0
      /\ DOMAIN s = 1 .. Len(s) /\ DOMAIN Tail(s) = 1 .. Len(s) - 1
      /\ \A k \in 1 .. Len(s) - 1 : Tail(s)[k] = s[k + 1]
  OBVIOUS
<1>2. Entries(s) = {Head(s)} \union Entries(Tail(s))
  <2>1. ASSUME NEW k \in 1 .. Len(s) PROVE s[k] \in {Head(s)} \union Entries(Tail(s))
    <3>1. CASE k = 1
      BY <1>1, <3>1
    <3>2. CASE k # 1
      <4>1. k - 1 \in 1 .. Len(s) - 1 /\ Tail(s)[k - 1] = s[k]
        BY <1>1, <3>2
      <4> QED BY <1>1, <4>1 DEF Entries
    <3> QED BY <3>1, <3>2
  <2>2. ASSUME NEW k \in 1 .. Len(s) - 1 PROVE Tail(s)[k] \in Entries(s)
    BY <1>1 DEF Entries
  <2>3. Head(s) \in Entries(s)
    BY <1>1 DEF Entries
  <2> QED BY <1>1, <2>1, <2>2, <2>3 DEF Entries
<1>3. ASSUME InOrder(s, R) PROVE InOrder(Tail(s), R)
  <2> SUFFICES ASSUME NEW j \in 1 .. Len(s) - 1, NEW k \in 1 .. Len(s) - 1, j < k
               PROVE  <<s[k + 1], s[j + 1]>> \notin R
    BY <1>1 DEF InOrder
  <2>1. j + 1 \in 1 .. Len(s) /\ k + 1 \in 1 .. Len(s) /\ j + 1 < k + 1
    BY <1>1
  <2> QED BY <1>1, <1>3, <2>1 DEF InOrder
<1>4. ASSUME InOrder(s, R), NEW k \in 1 .. Len(s) - 1 PROVE <<Tail(s)[k], Head(s)>> \notin R
  <2>1. 1 \in 1 .. Len(s) /\ k + 1 \in 1 .. Len(s) /\ 1 < k + 1
    BY <1>1
  <2> QED BY <1>1, <1>4, <2>1 DEF InOrder
<1> QED BY <1>1, <1>2, <1>3, <1>4 DEF Entries

LEMMA ConcatInOrder ==
    ASSUME NEW S, NEW R, NEW s \in Seq(S), NEW t \in Seq(S)
    PROVE  /\ s \o t \in Seq(S)
           /\ Entries(s \o t) = Entries(s) \union Entries(t)
           /\ /\ InOrder(s, R) /\ InOrder(t, R)
              /\ \A a \in Entries(s), b \in Entries(t) : <<b, a>> \notin R
              => InOrder(s \o t, R)
<1>1. /\ Len(s) \in Nat /\ Len(t) \in Nat
      /\ DOMAIN s = 1 .. Len(s) /\ DOMAIN t = 1 .. Len(t)
  OBVIOUS
<1>2. /\ s \o t \in Seq(S)
      /\ DOMAIN (s \o t) = 1 .. Len(s) + Len(t)
      /\ \A k \in 1 .. Len(s) + Len(t) :
            (s \o t)[k] = IF k <= Len(s) THEN s[k] ELSE t[k - Len(s)]
  <2>1. /\ s \o t \in Seq(S)
        /\ Len(s \o t) = Len(s) + Len(t)
        /\ \A k \in 1 .. Len(s) + Len(t) :
              (s \o t)[k] = IF k <= Len(s) THEN s[k] ELSE t[k - Len(s)]
    BY ConcatProperties
  <2>2. DOMAIN (s \o t) = 1 .. Len(s \o t)
    BY <2>1, LenProperties
  <2> QED BY <2>1, <2>2
<1>3. ASSUME NEW k \in 1 .. Len(s) + Len(t)
      PROVE  \/ k \in 1 .. Len(s) /\ (s \o t)[k] = s[k]
             \/ k - Len(s) \in 1 .. Len(t) /\ k > Len(s) /\ (s \o t)[k] = t[k - Len(s)]
  BY <1>1, <1>2
<1>4. Entries(s \o t) = Entries(s) \union Entries(t)
  <2>1. Entries(s \o t) \subseteq Entries(s) \union Entries(t)
    BY <1>1, <1>2, <1>3 DEF Entries
  <2>2. ASSUME NEW k \in 1 .. Len(s) PROVE s[k] \in Entries(s \o t)
    <3>1. k \in 1 .. Len(s) + Len(t) /\ (s \o t)[k] = s[k]
      BY <1>1, <1>2
    <3> QED BY <1>2, <3>1 DEF Entries
  <2>3. ASSUME NEW k \in 1 .. Len(t) PROVE t[k] \in Entries(s \o t)
    <3>1. k + Len(s) \in 1 .. Len(s) + Len(t) /\ (s \o t)[k + Len(s)] = t[k]
      BY <1>1, <1>2
    <3> QED BY <1>2, <3>1 DEF Entries
  <2> QED BY <1>1, <2>1, <2>2, <2>3 DEF Entries
<1>5. ASSUME InOrder(s, R), InOrder(t, R),
             \A a \in Entries(s), b \in Entries(t) : <<b, a>> \notin R,
             NEW j \in 1 .. Len(s) + Len(t), NEW k \in 1 .. Len(s) + Len(t), j < k
      PROVE  <<(s \o t)[k], (s \o t)[j]>> \notin R
  <2>1. CASE k \in 1 .. Len(s)
    <3>1. j \in 1 .. Len(s) /\ (s \o t)[j] = s[j] /\ (s \o t)[k] = s[k]
      BY <1>1, <1>2, <1>5, <2>1
    <3> QED BY <1>1, <1>5, <2>1, <3>1 DEF InOrder
  <2>2. CASE j > Len(s)
    <3>1. /\ j - Len(s) \in 1 .. Len(t) /\ k - Len(s) \in 1 .. Len(t) /\ j - Len(s) < k - Len(s)
          /\ (s \o t)[j] = t[j - Len(s)] /\ (s \o t)[k] = t[k - Len(s)]
      BY <1>1, <1>2, <1>5, <2>2
    <3> QED BY <1>1, <1>5, <3>1 DEF InOrder
  <2>3. CASE k > Len(s) /\ j <= Len(s)
    <3>1. /\ j \in 1 .. Len(s) /\ k - Len(s) \in 1 .. Len(t)
          /\ (s \o t)[j] = s[j] /\ (s \o t)[k] = t[k - Len(s)]
      BY <1>1, <1>2, <1>5, <2>3
    <3>2. s[j] \in Entries(s) /\ t[k - Len(s)] \in Entries(t)
      BY <1>1, <3>1 DEF Entries
    <3> QED BY <1>5, <3>1, <3>2
  <2>4. k \in 1 .. Len(s) \/ j > Len(s) \/ (k > Len(s) /\ j <= Len(s))
    BY <1>1
  <2> QED BY <2>1, <2>2, <2>3, <2>4
<1> QED BY <1>2, <1>4, <1>5 DEF InOrder

\* A sequence stays in order under a relation that relates no more of its elements.
LEMMA SameInOrder ==
    ASSUME NEW R, NEW T, NEW s, InOrder(s, R),
           \A a, b \in Entries(s) : <<a, b>> \in T => <<a, b>> \in R
    PROVE  InOrder(s, T)
BY DEF InOrder, Entries

-----------------------------------------------------------------------------
(* Frames: what a part of the invariant rests on. *)

LEMMA Constants == /\ NoView \notin Views /\ Views \subseteq Nat
                   /\ MaxInvokes \in Nat /\ MaxPages \in Nat \ {0}
                   /\ Invokes \subseteq Nat /\ 0 \notin Invokes
<1>1. NoView \notin Views /\ Views \subseteq Nat
  BY CommandAssumption DEF NoView
<1>2. MaxInvokes \in Nat /\ MaxPages \in Nat \ {0}
  BY CommandAssumption
<1>3. Invokes \subseteq Nat /\ 0 \notin Invokes
  BY <1>2 DEF Invokes
<1> QED BY <1>1, <1>2, <1>3

LEMMA UsedFrame ==
    ASSUME UsedInv, Shape,
           \A r \in Invokes : stage'[r] = "unused" <=> stage[r] = "unused",
           UNCHANGED <<home, built, page, id, waited, settledBy>>,
           alive' \subseteq alive,
           \A w \in Views : counter'[w] = counter[w] \/ (counter'[w] = 0 /\ w \notin alive'),
           \A w \in Views : \A op \in Entries(scripts'[w]) :
              op.script[2] \in Invokes /\ stage[op.script[2]] # "unused"
    PROVE  UsedInv'
<1>1. \A q \in Invokes : settledBy[q] # 0 => settledBy[q] \in Invokes
  BY Constants DEF Invokes, Shape
<1>2. \A r \in Invokes, w \in Views : stage'[r] = "unused" => counter'[w] < r
  <2> SUFFICES ASSUME NEW r \in Invokes, NEW w \in Views, stage'[r] = "unused"
               PROVE  counter'[w] < r
    OBVIOUS
  <2>1. counter[w] < r /\ 0 < r
    BY Constants DEF UsedInv
  <2> QED BY <2>1
<1>3. \A r \in Invokes, w \in alive' : home[r] = <<w, page[w]>> => id[r] < counter'[w]
  BY DEF UsedInv, Entry, Shape
<1>4. /\ \A r \in Invokes : stage'[r] = "unused" <=> home[r][1] = NoView
      /\ \A q, r \in Invokes : q < r /\ stage'[r] # "unused" => stage'[q] # "unused"
      /\ \A r \in Invokes : stage'[r] # "unused" =>
            home[r][1] \in built /\ home[r][2] <= page[home[r][1]]
  BY DEF UsedInv
<1>5. /\ \A q, r \in Invokes :
            q # r /\ home[q] = home[r] /\ stage'[q] # "unused" => id[q] # id[r]
      /\ \A q \in Invokes : settledBy[q] # 0 =>
            stage'[q] # "unused" /\ stage'[settledBy[q]] # "unused"
  BY <1>1 DEF UsedInv
<1>6. /\ \A w \in Views : \A op \in Entries(scripts'[w]) : stage'[op.script[2]] # "unused"
      /\ \A r \in waited : stage'[r] # "unused"
  BY DEF UsedInv, Shape
<1> QED BY <1>2, <1>3, <1>4, <1>5, <1>6 DEF UsedInv, Entry

LEMMA MatesFrame ==
    ASSUME UNCHANGED <<home, waited>>
    PROVE  /\ \A q, r \in Invokes : Mates(q, r)' = Mates(q, r)
           /\ Before' = Before /\ JobsBefore' = JobsBefore
BY DEF Mates, Before, JobsBefore

\* Scripts name invokes that were made.
LEMMA ScriptsNameInvokes ==
    ASSUME Shape
    PROVE  \A w \in Views : \A op \in Entries(scripts[w]) :
              op \in Answers /\ op.script[2] \in Invokes
<1>1. ASSUME NEW w \in Views, NEW op \in Entries(scripts[w]) PROVE op \in Answers
  BY DEF Shape, Entries
<1> QED BY <1>1 DEF Answers

LEMMA EntriesTyped ==
    ASSUME Shape
    PROVE  /\ \A w \in Views : Entries(ipcQueue[w]) \subseteq Invokes
           /\ \A w \in Views : Entries(ipc[w]) \subseteq Invokes
           /\ Entries(jobs) \subseteq Jobs
           /\ \A j \in Entries(jobs) : j[1] \in {"post", "task"} /\ j[2] \in Invokes
<1>1. ASSUME NEW w \in Views PROVE Entries(ipcQueue[w]) \subseteq Invokes
  <2>1. ipcQueue[w] \in Seq(Invokes)
    BY DEF Shape
  <2> QED BY <2>1 DEF Entries
<1>2. ASSUME NEW w \in Views PROVE Entries(ipc[w]) \subseteq Invokes
  <2>1. ipc[w] \in Seq(Invokes)
    BY DEF Shape
  <2> QED BY <2>1 DEF Entries
<1>3. Entries(jobs) \subseteq Jobs
  <2>1. jobs \in Seq(Jobs)
    BY DEF Shape
  <2> QED BY <2>1 DEF Entries
<1> QED BY <1>1, <1>2, <1>3 DEF Jobs

\* Queues that are kept, emptied or shortened keep the order; what is left is about stages.
LEMMA OrderFrame ==
    ASSUME Shape, OrderInv,
           UNCHANGED <<home, waited>>,
           \A w \in Views : ipcQueue'[w] = ipcQueue[w] \/ ipcQueue'[w] = <<>>,
           \A w \in Views : ipc'[w] = ipc[w] \/ ipc'[w] = <<>>,
           InOrder(jobs', JobsBefore),
           Entries(jobs') \subseteq Entries(jobs),
           \A q, r \in Invokes : Mates(q, r) =>
              /\ stage'[r] = "queued" => stage'[q] # "sent"
              /\ stage'[r] \in {"running", "over"} => stage'[q] \notin {"sent", "queued"}
    PROVE  OrderInv'
<1>1. /\ \A q, r \in Invokes : Mates(q, r)' = Mates(q, r)
      /\ Before' = Before /\ JobsBefore' = JobsBefore
  BY MatesFrame
<1>2. \A w \in Views : InOrder(ipcQueue'[w], Before) /\ InOrder(ipc'[w], Before)
  BY EmptyInOrder DEF OrderInv
<1>3. \A w \in Views : /\ Entries(ipcQueue'[w]) \subseteq Entries(ipcQueue[w])
                       /\ Entries(ipc'[w]) \subseteq Entries(ipc[w])
  BY EmptyInOrder
<1>4. \A w \in Views : \A q \in Entries(ipcQueue'[w]), r \in Entries(ipc'[w]) : ~Mates(q, r)
  BY <1>3 DEF OrderInv
<1>5. \A w \in Views : \A q \in Entries(ipcQueue'[w]), r \in Entries(ipc'[w]) : ~Mates(q, r)'
  BY <1>1, <1>3, <1>4, EntriesTyped
<1>6. \A i, j \in Entries(jobs') : i[1] = "post" /\ j[1] = "task" => ~Mates(i[2], j[2])'
  <2>1. \A i, j \in Entries(jobs') : i[1] = "post" /\ j[1] = "task" => ~Mates(i[2], j[2])
    BY DEF OrderInv
  <2>2. \A i \in Entries(jobs') : i[2] \in Invokes
    BY EntriesTyped
  <2> QED BY <1>1, <2>1, <2>2
<1>7. \A q, r \in Invokes : Mates(q, r)' =>
          /\ stage'[r] = "queued" => stage'[q] # "sent"
          /\ stage'[r] \in {"running", "over"} => stage'[q] \notin {"sent", "queued"}
  BY <1>1
<1> QED BY <1>1, <1>2, <1>5, <1>6, <1>7 DEF OrderInv

\* Invokes leave the page and the native queue; none of those that stay is touched.
LEMMA PlaceFrame ==
    ASSUME Shape, PlaceInv,
           UNCHANGED <<home, waited, jobs>>,
           \A w \in Views : /\ ipcQueue'[w] = ipcQueue[w] /\ page'[w] = page[w]
                            \/ ipcQueue'[w] = <<>>,
           \A w \in Views : ipc'[w] = ipc[w] \/ ipc'[w] = <<>>,
           \A w \in Views : \A r \in Entries(ipcQueue'[w]) \union Entries(ipc'[w]) :
              stage'[r] = stage[r],
           \A r \in Invokes : stage'[r] \notin {"lost", "over", "running"} =>
              /\ stage'[r] = stage[r]
              /\ \A w \in Views : r \in Entries(ipcQueue[w]) \union Entries(ipc[w]) =>
                    r \in Entries(ipcQueue'[w]) \union Entries(ipc'[w]),
           \A r \in Invokes : stage[r] = "queued" => stage'[r] = stage[r]
    PROVE  PlaceInv'
<1>1. \A w \in Views : /\ Entries(ipcQueue'[w]) \subseteq Entries(ipcQueue[w])
                       /\ Entries(ipc'[w]) \subseteq Entries(ipc[w])
  BY EmptyInOrder
<1>2. \A w \in Views : \A r \in Entries(ipcQueue'[w]) :
        stage'[r] = "sent" /\ home[r] = <<w, page'[w]>> /\ r \in waited
  <2> SUFFICES ASSUME NEW w \in Views, NEW r \in Entries(ipcQueue'[w])
               PROVE  stage'[r] = "sent" /\ home[r] = <<w, page'[w]>> /\ r \in waited
    OBVIOUS
  <2>1. ipcQueue'[w] = ipcQueue[w] /\ page'[w] = page[w]
    BY EmptyInOrder
  <2>2. stage[r] = "sent" /\ home[r] = <<w, page[w]>> /\ r \in waited
    BY <2>1 DEF PlaceInv, Entry
  <2> QED BY <2>1, <2>2
<1>3. \A w \in Views : \A r \in Entries(ipc'[w]) : stage'[r] = "sent" /\ home[r][1] = w
  BY <1>1 DEF PlaceInv
<1>4. \A w \in Views : Entries(ipcQueue'[w]) \intersect Entries(ipc'[w]) = {}
  BY <1>1 DEF PlaceInv
<1>5. \A r \in Invokes : stage'[r] = "sent" =>
        \E w \in Views : home[r][1] = w /\ r \in Entries(ipcQueue'[w]) \union Entries(ipc'[w])
  <2> SUFFICES ASSUME NEW r \in Invokes, stage'[r] = "sent"
               PROVE  \E w \in Views :
                         home[r][1] = w /\ r \in Entries(ipcQueue'[w]) \union Entries(ipc'[w])
    OBVIOUS
  <2>1. stage[r] = "sent"
    OBVIOUS
  <2>2. PICK w \in Views : home[r][1] = w /\ r \in Entries(ipcQueue[w]) \union Entries(ipc[w])
    BY <2>1 DEF PlaceInv
  <2> QED BY <2>2
<1>6. \A r \in Invokes : stage'[r] = "queued" <=> \E j \in Entries(jobs) : j[2] = r
  BY DEF PlaceInv
<1> QED BY <1>2, <1>3, <1>4, <1>5, <1>6 DEF PlaceInv, Entry

\* Invokes leave their place without having begun: they are lost with their page or the loop.
LEMMA LostFrame ==
    ASSUME Shape, UsedInv, NEW lost \in SUBSET Invokes,
           \A r \in lost : stage[r] # "unused",
           Becomes(lost, "lost")
    PROVE  /\ stage' \in [Invokes -> Stages]
           /\ \A r \in Invokes : stage'[r] = "unused" <=> stage[r] = "unused"
           /\ \A r \in Invokes : stage'[r] # "lost" => stage'[r] = stage[r]
           /\ \A r \in Invokes : r \notin lost => stage'[r] = stage[r]
           /\ \A r \in lost : stage'[r] = "lost"
BY DEF Becomes, Shape, Stages

-----------------------------------------------------------------------------
(* Views and pages. *)

LEMMA BuildStep ==
    ASSUME IInv, NEW w \in Views, Build(w)
    PROVE  IInv'
<1> USE DEF IInv
<1>1. /\ w \notin built /\ built' = built \union {w} /\ alive' = alive \union {w} /\ bound' = w
      /\ UNCHANGED <<up, queue, scripts, store, abandoned, page, bridge, counter, ipcQueue, ipc,
                     jobs, stage, home, id, waited, context, mute, settledBy>>
  BY DEF Build, pages, requests
<1>2. Shape'
  BY <1>1 DEF Shape
<1>3. \A r \in Invokes : home[r] # Entry(w)
  <2>1. \A r \in Invokes : home[r][1] # w
    BY <1>1, Constants DEF UsedInv
  <2> QED BY <2>1 DEF Entry
<1>4. UsedInv'
  BY <1>1, <1>3 DEF UsedInv, Entry
<1>5. PlaceInv'
  BY <1>1 DEF PlaceInv, Entry
<1>6. OrderInv'
  <2>1. InOrder(jobs', JobsBefore)
    BY <1>1 DEF OrderInv
  <2>2. \A q, r \in Invokes : Mates(q, r) =>
          /\ stage'[r] = "queued" => stage'[q] # "sent"
          /\ stage'[r] \in {"running", "over"} => stage'[q] \notin {"sent", "queued"}
    BY <1>1 DEF OrderInv
  <2> QED BY <1>1, <2>1, <2>2, OrderFrame
<1> QED BY <1>1, <1>2, <1>4, <1>5, <1>6

LEMMA NavigateStep ==
    ASSUME IInv, NEW w \in Views, Navigate(w)
    PROVE  IInv'
<1> USE DEF IInv
<1> DEFINE lost == Entries(ipcQueue[w])
<1>1. /\ w \in alive /\ page[w] < MaxPages
      /\ page' = [page EXCEPT ![w] = @ + 1]
      /\ bridge' = bridge \ {w}
      /\ counter' = [counter EXCEPT ![w] = 0]
      /\ ipcQueue' = [ipcQueue EXCEPT ![w] = <<>>]
      /\ Becomes(lost, "lost")
      /\ UNCHANGED <<alive, up, queue, scripts, store, abandoned, built, bound, ipc, jobs, home, id,
                     waited, context, settledBy, mute>>
  BY DEF Navigate, dispatch
<1>2. lost \subseteq Invokes /\ \A r \in lost : stage[r] = "sent" /\ home[r] = Entry(w)
  BY DEF Shape, Entries, PlaceInv
<1> HIDE DEF lost
<1>3. /\ stage' \in [Invokes -> Stages]
      /\ \A r \in Invokes : stage'[r] = "unused" <=> stage[r] = "unused"
      /\ \A r \in Invokes : stage'[r] # "lost" => stage'[r] = stage[r]
      /\ \A r \in Invokes : r \notin lost => stage'[r] = stage[r]
      /\ \A r \in lost : stage'[r] = "lost"
  BY <1>1, <1>2, LostFrame
<1>4. /\ page[w] \in Nat /\ page'[w] = page[w] + 1 /\ page'[w] \in 1 .. MaxPages
      /\ \A v \in Views : v # w => page'[v] = page[v]
      /\ page' \in [Views -> 1 .. MaxPages]
  <2>1. page[w] \in 1 .. MaxPages /\ MaxPages \in Nat
    BY Constants DEF Shape
  <2>2. page[w] \in Nat /\ page[w] + 1 \in 1 .. MaxPages
    BY <1>1, <2>1
  <2> QED BY <1>1, <2>2 DEF Shape
<1>5. /\ ipcQueue' \in [Views -> Seq(Invokes)] /\ ipcQueue'[w] = <<>> /\ Entries(ipcQueue'[w]) = {}
      /\ \A v \in Views : v # w => ipcQueue'[v] = ipcQueue[v]
  BY <1>1, EmptySeq, EmptyInOrder DEF Shape
<1>6. /\ counter' \in [Views -> 0 .. MaxInvokes] /\ counter'[w] = 0
      /\ \A v \in Views : v # w => counter'[v] = counter[v]
  BY <1>1, Constants DEF Shape
<1>7. Shape'
  BY <1>1, <1>3, <1>4, <1>5, <1>6 DEF Shape
<1>8. UsedInv'
  <2>1. \A r \in Invokes, v \in Views : stage'[r] = "unused" => counter'[v] < r
    <3>1. \A r \in Invokes : 0 < r
      BY Constants
    <3>2. \A r \in Invokes, v \in Views : stage'[r] = "unused" => counter[v] < r
      BY <1>3 DEF UsedInv
    <3> QED BY <1>6, <3>1, <3>2
  <2>2. \A r \in Invokes : stage'[r] # "unused" =>
          home[r][1] \in built /\ home[r][2] <= page'[home[r][1]]
    <3> SUFFICES ASSUME NEW r \in Invokes, stage'[r] # "unused"
                 PROVE  home[r][1] \in built /\ home[r][2] <= page'[home[r][1]]
      OBVIOUS
    <3>1. home[r][1] \in built /\ home[r][2] <= page[home[r][1]] /\ home[r][2] \in Nat
      BY <1>3 DEF UsedInv, Shape
    <3>2. home[r][1] \in Views
      BY <3>1 DEF Shape
    <3> QED BY <1>4, <3>1, <3>2
  <2>3. \A r \in Invokes, v \in alive : home[r] = <<v, page'[v]>> => id[r] < counter'[v]
    <3> SUFFICES ASSUME NEW r \in Invokes, NEW v \in alive, home[r] = <<v, page'[v]>>
                 PROVE  id[r] < counter'[v]
      OBVIOUS
    <3>1. v \in Views /\ v # NoView
      BY Constants DEF Shape
    <3>2. stage[r] # "unused"
      BY <3>1 DEF UsedInv
    <3>3. v # w
      BY <1>4, <3>2 DEF UsedInv
    <3> QED BY <1>4, <1>6, <3>1, <3>3 DEF UsedInv, Entry
  <2>4. \A q, r \in Invokes :
          q # r /\ home[q] = home[r] /\ stage'[q] # "unused" => id[q] # id[r]
    BY <1>3 DEF UsedInv
  <2>5. \A q \in Invokes : settledBy[q] # 0 =>
          stage'[q] # "unused" /\ stage'[settledBy[q]] # "unused"
    <3>1. \A q \in Invokes : settledBy[q] # 0 => settledBy[q] \in Invokes
      BY Constants DEF Invokes, Shape
    <3> QED BY <1>3, <3>1 DEF UsedInv
  <2>6. \A v \in Views : \A op \in Entries(scripts[v]) : stage'[op.script[2]] # "unused"
    BY <1>3, ScriptsNameInvokes DEF UsedInv
  <2>7. /\ \A r \in Invokes : stage'[r] = "unused" <=> home[r][1] = NoView
        /\ \A q, r \in Invokes : q < r /\ stage'[r] # "unused" => stage'[q] # "unused"
        /\ \A r \in waited : stage'[r] # "unused"
    BY <1>3 DEF UsedInv, Shape
  <2> QED BY <1>1, <2>1, <2>2, <2>3, <2>4, <2>5, <2>6, <2>7 DEF UsedInv, Entry
<1>9. PlaceInv'
  <2>1. ASSUME NEW v \in Views, NEW r \in Entries(ipcQueue'[v]) \union Entries(ipc'[v])
        PROVE  stage'[r] = stage[r]
    <3>1. r \in Invokes
      BY <1>1, <1>5, <2>1, EntriesTyped
    <3>2. v # w => home[r][1] = v
      BY <1>1, <1>5, <2>1 DEF PlaceInv, Entry
    <3>3. v = w => r \in Entries(ipc[w])
      BY <1>1, <1>5, <2>1
    <3>4. r \notin lost
      BY <1>2, <3>2, <3>3 DEF Entry, PlaceInv, lost
    <3> QED BY <1>3, <3>1, <3>4
  <2>2. ASSUME NEW r \in Invokes, stage'[r] \notin {"lost", "over", "running"}
        PROVE  /\ stage'[r] = stage[r]
               /\ \A v \in Views : r \in Entries(ipcQueue[v]) \union Entries(ipc[v]) =>
                     r \in Entries(ipcQueue'[v]) \union Entries(ipc'[v])
    BY <1>1, <1>3, <1>5, <2>2 DEF lost
  <2>3. \A r \in Invokes : stage[r] = "queued" => stage'[r] = stage[r]
    BY <1>2, <1>3
  <2> QED BY <1>1, <1>4, <1>5, <2>1, <2>2, <2>3, PlaceFrame
<1>10. OrderInv'
  <2>1. InOrder(jobs', JobsBefore)
    BY <1>1 DEF OrderInv
  <2>2. \A q, r \in Invokes : Mates(q, r) =>
          /\ stage'[r] = "queued" => stage'[q] # "sent"
          /\ stage'[r] \in {"running", "over"} => stage'[q] \notin {"sent", "queued"}
    BY <1>3 DEF OrderInv
  <2> QED BY <1>1, <1>5, <2>1, <2>2, OrderFrame
<1> QED BY <1>1, <1>7, <1>8, <1>9, <1>10

LEMMA CloseViewStep ==
    ASSUME IInv, NEW w \in Views, CloseView(w)
    PROVE  IInv'
<1> USE DEF IInv
<1> DEFINE lost == Entries(ipcQueue[w]) \union Entries(ipc[w])
<1>1. /\ w \in alive /\ alive' = alive \ {w}
      /\ scripts' = [scripts EXCEPT ![w] = <<>>]
      /\ bridge' = bridge \ {w}
      /\ counter' = [counter EXCEPT ![w] = 0]
      /\ ipcQueue' = [ipcQueue EXCEPT ![w] = <<>>]
      /\ ipc' = [ipc EXCEPT ![w] = <<>>]
      /\ Becomes(lost, "lost")
      /\ UNCHANGED <<up, queue, store, abandoned, built, bound, page, jobs, home, id, waited,
                     context, settledBy, mute>>
  BY DEF CloseView, DropOwner
<1>2. /\ lost \subseteq Invokes
      /\ \A r \in lost : stage[r] = "sent" /\ home[r][1] = w
  BY EntriesTyped DEF PlaceInv, Entry
<1> HIDE DEF lost
<1>3. /\ stage' \in [Invokes -> Stages]
      /\ \A r \in Invokes : stage'[r] = "unused" <=> stage[r] = "unused"
      /\ \A r \in Invokes : stage'[r] # "lost" => stage'[r] = stage[r]
      /\ \A r \in Invokes : r \notin lost => stage'[r] = stage[r]
      /\ \A r \in lost : stage'[r] = "lost"
  BY <1>1, <1>2, LostFrame
<1>4. /\ ipcQueue' \in [Views -> Seq(Invokes)] /\ ipcQueue'[w] = <<>>
      /\ \A v \in Views : v # w => ipcQueue'[v] = ipcQueue[v]
  BY <1>1, EmptySeq DEF Shape
<1>5. /\ ipc' \in [Views -> Seq(Invokes)] /\ ipc'[w] = <<>>
      /\ \A v \in Views : v # w => ipc'[v] = ipc[v]
  BY <1>1, EmptySeq DEF Shape
<1>6. /\ scripts' \in [Views -> Seq(Answers)]
      /\ \A v \in Views : Entries(scripts'[v]) \subseteq Entries(scripts[v])
  BY <1>1, EmptySeq, EmptyInOrder DEF Shape
<1>7. /\ counter' \in [Views -> 0 .. MaxInvokes] /\ counter'[w] = 0
      /\ \A v \in Views : v # w => counter'[v] = counter[v]
  BY <1>1, Constants DEF Shape
<1>8. Shape'
  BY <1>1, <1>3, <1>4, <1>5, <1>6, <1>7 DEF Shape
<1>9. UsedInv'
  <2>1. \A v \in Views : \A op \in Entries(scripts'[v]) :
           op.script[2] \in Invokes /\ stage[op.script[2]] # "unused"
    BY <1>6, ScriptsNameInvokes DEF UsedInv
  <2> QED BY <1>1, <1>3, <1>7, <2>1, UsedFrame
<1>10. PlaceInv'
  <2>1. ASSUME NEW v \in Views, NEW r \in Entries(ipcQueue'[v]) \union Entries(ipc'[v])
        PROVE  stage'[r] = stage[r]
    <3>1. v # w
      BY <1>4, <1>5, <2>1, EmptyInOrder
    <3>2. r \in Entries(ipcQueue[v]) \union Entries(ipc[v])
      BY <1>4, <1>5, <2>1, <3>1
    <3>3. r \in Invokes
      BY <3>2, EntriesTyped
    <3>4. home[r][1] = v
      BY <3>2 DEF PlaceInv, Entry
    <3> QED BY <1>2, <1>3, <3>1, <3>3, <3>4
  <2>2. ASSUME NEW r \in Invokes, stage'[r] \notin {"lost", "over", "running"}
        PROVE  /\ stage'[r] = stage[r]
               /\ \A v \in Views : r \in Entries(ipcQueue[v]) \union Entries(ipc[v]) =>
                     r \in Entries(ipcQueue'[v]) \union Entries(ipc'[v])
    BY <1>3, <1>4, <1>5, <2>2 DEF lost
  <2>3. \A r \in Invokes : stage[r] = "queued" => stage'[r] = stage[r]
    BY <1>2, <1>3
  <2> QED BY <1>1, <1>4, <1>5, <2>1, <2>2, <2>3, PlaceFrame
<1>11. OrderInv'
  <2>1. InOrder(jobs', JobsBefore)
    BY <1>1 DEF OrderInv
  <2>2. \A q, r \in Invokes : Mates(q, r) =>
          /\ stage'[r] = "queued" => stage'[q] # "sent"
          /\ stage'[r] \in {"running", "over"} => stage'[q] \notin {"sent", "queued"}
    BY <1>3 DEF OrderInv
  <2> QED BY <1>1, <1>4, <1>5, <2>1, <2>2, OrderFrame
<1> QED BY <1>1, <1>8, <1>9, <1>10, <1>11

LEMMA BridgeAppearsStep ==
    ASSUME IInv, NEW w \in Views, BridgeAppears(w)
    PROVE  IInv'
<1> USE DEF IInv
<1>1. /\ bridge' = bridge \union {w}
      /\ UNCHANGED <<alive, up, queue, scripts, store, abandoned, built, bound, page, counter,
                     ipcQueue, ipc, jobs, stage, home, id, waited, context, mute, settledBy>>
  BY DEF BridgeAppears, dispatch, requests
<1>2. Shape'
  BY <1>1 DEF Shape
<1>3. UsedInv'
  BY <1>1, UsedFrame, ScriptsNameInvokes DEF UsedInv
<1>4. PlaceInv'
  BY <1>1 DEF PlaceInv, Entry
<1>5. OrderInv'
  <2>1. InOrder(jobs', JobsBefore)
    BY <1>1 DEF OrderInv
  <2>2. \A q, r \in Invokes : Mates(q, r) =>
          /\ stage'[r] = "queued" => stage'[q] # "sent"
          /\ stage'[r] \in {"running", "over"} => stage'[q] \notin {"sent", "queued"}
    BY <1>1 DEF OrderInv
  <2> QED BY <1>1, <2>1, <2>2, OrderFrame
<1> QED BY <1>1, <1>2, <1>3, <1>4, <1>5

LEMMA FlushStep ==
    ASSUME IInv, NEW w \in Views, Flush(w)
    PROVE  IInv'
<1> USE DEF IInv
<1>1. /\ ipc' = [ipc EXCEPT ![w] = @ \o ipcQueue[w]]
      /\ ipcQueue' = [ipcQueue EXCEPT ![w] = <<>>]
      /\ UNCHANGED <<alive, up, queue, scripts, store, abandoned, built, bound, page, bridge,
                     counter, jobs, stage, home, id, waited, context, mute, settledBy>>
  BY DEF Flush, dispatch, requests
<1>2. /\ ipcQueue' \in [Views -> Seq(Invokes)] /\ ipcQueue'[w] = <<>>
      /\ \A v \in Views : v # w => ipcQueue'[v] = ipcQueue[v]
      /\ Entries(ipcQueue'[w]) = {}
  BY <1>1, EmptySeq, EmptyInOrder DEF Shape
<1>3. ipc[w] \in Seq(Invokes) /\ ipcQueue[w] \in Seq(Invokes)
  BY DEF Shape
<1>4. /\ ipc[w] \o ipcQueue[w] \in Seq(Invokes)
      /\ Entries(ipc[w] \o ipcQueue[w]) = Entries(ipc[w]) \union Entries(ipcQueue[w])
      /\ /\ InOrder(ipc[w], Before) /\ InOrder(ipcQueue[w], Before)
         /\ \A a \in Entries(ipc[w]), b \in Entries(ipcQueue[w]) : <<b, a>> \notin Before
         => InOrder(ipc[w] \o ipcQueue[w], Before)
  BY <1>3, ConcatInOrder
<1>5. /\ ipc' \in [Views -> Seq(Invokes)] /\ ipc'[w] = ipc[w] \o ipcQueue[w]
      /\ \A v \in Views : v # w => ipc'[v] = ipc[v]
      /\ Entries(ipc'[w]) = Entries(ipc[w]) \union Entries(ipcQueue[w])
  BY <1>1, <1>4 DEF Shape
<1>6. Shape'
  BY <1>1, <1>2, <1>5 DEF Shape
<1>7. UsedInv'
  BY <1>1, UsedFrame, ScriptsNameInvokes DEF UsedInv
<1>8. PlaceInv'
  <2>1. \A v \in Views : \A r \in Entries(ipcQueue'[v]) :
          stage[r] = "sent" /\ home[r] = Entry(v) /\ r \in waited
    BY <1>2 DEF PlaceInv
  <2>2. ASSUME NEW v \in Views, NEW r \in Entries(ipc'[v])
        PROVE  stage[r] = "sent" /\ home[r][1] = v
    <3>1. r \in Entries(ipc[v]) \/ r \in Entries(ipcQueue[v])
      BY <1>5
    <3> QED BY <3>1 DEF PlaceInv, Entry
  <2>3. \A v \in Views : Entries(ipcQueue'[v]) \intersect Entries(ipc'[v]) = {}
    BY <1>2, <1>5, ZenonT(40) DEF PlaceInv
  <2>4. \A r \in Invokes : stage[r] = "sent" =>
          \E v \in Views : home[r][1] = v /\ r \in Entries(ipcQueue'[v]) \union Entries(ipc'[v])
    <3> SUFFICES ASSUME NEW r \in Invokes, stage[r] = "sent"
                 PROVE  \E v \in Views :
                           home[r][1] = v /\ r \in Entries(ipcQueue'[v]) \union Entries(ipc'[v])
      OBVIOUS
    <3>1. PICK v \in Views : home[r][1] = v /\ r \in Entries(ipcQueue[v]) \union Entries(ipc[v])
      BY DEF PlaceInv
    <3> QED BY <1>2, <1>5, <3>1
  <2> QED BY <1>1, <2>1, <2>2, <2>3, <2>4 DEF PlaceInv, Entry
<1>9. OrderInv'
  <2>1. ASSUME NEW a \in Entries(ipc[w]), NEW b \in Entries(ipcQueue[w])
        PROVE  <<b, a>> \notin Before
    BY DEF OrderInv, PlaceInv, Before
  <2>2. \A v \in Views : InOrder(ipcQueue'[v], Before) /\ InOrder(ipc'[v], Before)
    BY <1>2, <1>4, <1>5, <2>1, EmptyInOrder DEF OrderInv
  <2>3. \A v \in Views : \A q \in Entries(ipcQueue'[v]), r \in Entries(ipc'[v]) : ~Mates(q, r)
    BY <1>2, <1>5 DEF OrderInv
  <2>4. Mates(0, 0)' = Mates(0, 0) /\ Before' = Before /\ JobsBefore' = JobsBefore
    BY <1>1, MatesFrame DEF Mates
  <2> QED BY <1>1, <2>2, <2>3, <2>4 DEF OrderInv, Mates
<1> QED BY <1>1, <1>6, <1>7, <1>8, <1>9

LEMMA EvalScriptStep ==
    ASSUME IInv, NEW w \in Views, EvalScript(w)
    PROVE  IInv'
<1> USE DEF IInv
<1> DEFINE r == Head(scripts[w]).script[2]
           target == {q \in Invokes : home[q] = Entry(w) /\ id[q] = id[r] /\ settledBy[q] = 0}
<1>1. /\ scripts[w] # <<>>
      /\ scripts' = [scripts EXCEPT ![w] = Tail(@)]
      /\ settledBy' = [q \in Invokes |-> IF q \in target THEN r ELSE settledBy[q]]
      /\ UNCHANGED <<alive, up, queue, store, abandoned, built, bound, page, bridge, counter,
                     ipcQueue, ipc, jobs, stage, home, id, waited, context, mute>>
  BY DEF EvalScript, pages, requests
<1>2. /\ Head(scripts[w]) \in Answers /\ Tail(scripts[w]) \in Seq(Answers)
      /\ Entries(scripts[w]) = {Head(scripts[w])} \union Entries(Tail(scripts[w]))
  <2>1. scripts[w] \in Seq(Answers)
    BY DEF Shape
  <2> QED BY <1>1, <2>1, TailInOrder
<1>3. /\ scripts' \in [Views -> Seq(Answers)]
      /\ \A v \in Views : Entries(scripts'[v]) \subseteq Entries(scripts[v])
  BY <1>1, <1>2 DEF Shape
<1>4. r \in Invokes /\ stage[r] # "unused"
  BY <1>2, ScriptsNameInvokes DEF UsedInv
<1>5. /\ target \subseteq Invokes
      /\ \A q \in target : stage[q] # "unused" /\ home[q] = Entry(w) /\ id[q] = id[r]
  <2>1. \A q \in Invokes : home[q] = Entry(w) => stage[q] # "unused"
    BY Constants DEF UsedInv, Entry
  <2> QED BY <2>1
<1> HIDE DEF r, target
<1>6. /\ \A q \in target : settledBy'[q] = r
      /\ \A q \in Invokes : q \notin target => settledBy'[q] = settledBy[q]
      /\ settledBy' \in [Invokes -> 0 .. MaxInvokes]
  <2>1. r \in 0 .. MaxInvokes
    BY <1>4, Constants DEF Invokes
  <2> QED BY <1>1, <1>5, <2>1 DEF Shape
<1>7. Shape'
  BY <1>1, <1>3, <1>6 DEF Shape
<1>8. UsedInv'
  <2>1. \A q \in Invokes : settledBy'[q] # 0 =>
           stage[q] # "unused" /\ stage[settledBy'[q]] # "unused"
    BY <1>4, <1>5, <1>6 DEF UsedInv
  <2>2. \A v \in Views : \A op \in Entries(scripts'[v]) : stage[op.script[2]] # "unused"
    BY <1>3 DEF UsedInv
  <2> QED BY <1>1, <2>1, <2>2 DEF UsedInv, Entry
<1>9. PlaceInv'
  BY <1>1 DEF PlaceInv, Entry
<1>10. OrderInv'
  <2>1. InOrder(jobs', JobsBefore)
    BY <1>1 DEF OrderInv
  <2>2. \A p, q \in Invokes : Mates(p, q) =>
          /\ stage'[q] = "queued" => stage'[p] # "sent"
          /\ stage'[q] \in {"running", "over"} => stage'[p] \notin {"sent", "queued"}
    BY <1>1 DEF OrderInv
  <2> QED BY <1>1, <2>1, <2>2, OrderFrame
<1> QED BY <1>7, <1>8, <1>9, <1>10

LEMMA InvokeStep ==
    ASSUME IInv, NEW w \in Views, NEW r \in Invokes, Invoke(w, r)
    PROVE  IInv'
<1> USE DEF IInv
<1>1. /\ w \in alive /\ stage[r] = "unused"
      /\ \A q \in 1 .. r - 1 : stage[q] # "unused"
      /\ home' = [home EXCEPT ![r] = Entry(w)]
      /\ id' = [id EXCEPT ![r] = counter[w]]
      /\ counter' = [counter EXCEPT ![w] = @ + 1]
      /\ Becomes({r}, "sent")
      /\ UNCHANGED <<alive, up, queue, scripts, store, abandoned, built, bound, page, bridge,
                     jobs, context, settledBy, mute>>
  BY DEF Invoke, dispatch
<1>2. \/ /\ ipc' = [ipc EXCEPT ![w] = Append(@, r)] /\ UNCHANGED <<ipcQueue, waited>>
      \/ /\ ipcQueue' = [ipcQueue EXCEPT ![w] = Append(@, r)]
         /\ waited' = waited \union {r} /\ UNCHANGED ipc
  BY DEF Invoke
<1>3. /\ r \in Nat /\ r <= MaxInvokes /\ counter[w] \in Nat /\ counter[w] < r
      /\ page[w] \in 1 .. MaxPages /\ page[w] \in Nat
  <2>1. counter[w] \in 0 .. MaxInvokes /\ page[w] \in 1 .. MaxPages
    BY DEF Shape
  <2>2. r \in 1 .. MaxInvokes
    BY DEF Invokes
  <2> QED BY <1>1, <2>1, <2>2, Constants DEF UsedInv
<1>4. /\ \A q \in Invokes : q # r => home'[q] = home[q] /\ id'[q] = id[q]
      /\ home'[r] = Entry(w) /\ id'[r] = counter[w]
      /\ home' \in [Invokes -> (Views \union {NoView}) \X (0 .. MaxPages)]
      /\ id' \in [Invokes -> 0 .. MaxInvokes]
  <2>1. Entry(w) \in (Views \union {NoView}) \X (0 .. MaxPages)
    BY <1>3, Constants DEF Entry
  <2>2. counter[w] \in 0 .. MaxInvokes
    BY DEF Shape
  <2>3. /\ home \in [Invokes -> (Views \union {NoView}) \X (0 .. MaxPages)]
        /\ id \in [Invokes -> 0 .. MaxInvokes]
    BY DEF Shape
  <2>4. /\ \A q \in Invokes : q # r => home'[q] = home[q] /\ id'[q] = id[q]
        /\ home'[r] = Entry(w) /\ id'[r] = counter[w]
    BY <1>1, <2>3
  <2>5. home' \in [Invokes -> (Views \union {NoView}) \X (0 .. MaxPages)]
    BY <1>1, <2>1, <2>3
  <2>6. id' \in [Invokes -> 0 .. MaxInvokes]
    BY <1>1, <2>2, <2>3
  <2> QED BY <2>4, <2>5, <2>6
<1>5. /\ counter' \in [Views -> 0 .. MaxInvokes] /\ counter'[w] = counter[w] + 1
      /\ \A v \in Views : v # w => counter'[v] = counter[v]
      /\ \A v \in Views : counter[v] \in Nat /\ counter'[v] >= counter[v]
  <2>1. counter[w] + 1 \in 0 .. MaxInvokes
    BY <1>3, Constants
  <2>2. counter \in [Views -> 0 .. MaxInvokes]
    BY DEF Shape
  <2>3. \A v \in Views : counter[v] \in Nat
    BY <2>2, Constants
  <2>4. /\ counter'[w] = counter[w] + 1
        /\ \A v \in Views : v # w => counter'[v] = counter[v]
    BY <1>1, <2>2
  <2>5. counter' \in [Views -> 0 .. MaxInvokes]
    BY <1>1, <2>1, <2>2
  <2>6. \A v \in Views : counter'[v] >= counter[v]
    BY <2>3, <2>4
  <2> QED BY <2>3, <2>4, <2>5, <2>6
<1>6. /\ stage' \in [Invokes -> Stages] /\ stage'[r] = "sent"
      /\ \A q \in Invokes : q # r => stage'[q] = stage[q]
  BY <1>1 DEF Becomes, Shape, Stages
<1>7. /\ \A q \in Invokes : q < r => stage[q] # "unused"
      /\ \A q \in Invokes : q > r => stage[q] = "unused" /\ home[q][1] = NoView
  <2>1. ASSUME NEW q \in Invokes, q < r PROVE stage[q] # "unused"
    <3>1. q \in 1 .. r - 1
      BY <1>3, <2>1, Constants DEF Invokes
    <3> QED BY <1>1, <3>1
  <2>2. ASSUME NEW q \in Invokes, q > r PROVE stage[q] = "unused"
    BY <1>1, <1>3, <2>2, Constants DEF UsedInv
  <2> QED BY <2>1, <2>2 DEF UsedInv
<1>8. /\ w # NoView /\ Entry(w)[1] = w /\ Entry(w)[2] = page[w]
      /\ Entry(w)' = Entry(w) /\ \A v \in Views : Entry(v)' = <<v, page[v]>>
  BY <1>1, Constants DEF Entry
<1>9. /\ ipcQueue' \in [Views -> Seq(Invokes)] /\ ipc' \in [Views -> Seq(Invokes)]
      /\ waited' \subseteq Invokes
      /\ \A v \in Views : v # w => ipcQueue'[v] = ipcQueue[v] /\ ipc'[v] = ipc[v]
  <2>1. /\ ipc \in [Views -> Seq(Invokes)] /\ ipcQueue \in [Views -> Seq(Invokes)]
        /\ waited \subseteq Invokes
    BY DEF Shape
  <2>2. Append(ipc[w], r) \in Seq(Invokes) /\ Append(ipcQueue[w], r) \in Seq(Invokes)
    BY <2>1
  <2> QED BY <1>2, <2>1, <2>2
<1>10. Shape'
  BY <1>1, <1>4, <1>5, <1>6, <1>9 DEF Shape
<1>11. waited' \subseteq waited \union {r} /\ \A q \in Invokes \ {r} : q \in waited' <=> q \in waited
  BY <1>2
<1>12. r \notin waited
  BY <1>1 DEF UsedInv
<1>13. UsedInv'
  <2>1. \A q \in Invokes : stage'[q] = "unused" <=> home'[q][1] = NoView
    BY <1>4, <1>6, <1>8 DEF UsedInv
  <2>2. \A q, p \in Invokes : q < p /\ stage'[p] # "unused" => stage'[q] # "unused"
    BY <1>6, <1>7 DEF UsedInv
  <2>3. \A q \in Invokes, v \in Views : stage'[q] = "unused" => counter'[v] < q
    <3> SUFFICES ASSUME NEW q \in Invokes, NEW v \in Views, stage'[q] = "unused"
                 PROVE  counter'[v] < q
      OBVIOUS
    <3>1. q # r /\ stage[q] = "unused" /\ q \in Nat
      BY <1>6, Constants
    <3>2. q > r
      BY <1>3, <1>7, <3>1
    <3> QED BY <1>3, <1>5, <3>1, <3>2 DEF UsedInv
  <2>4. \A q \in Invokes : stage'[q] # "unused" =>
          home'[q][1] \in built /\ home'[q][2] <= page[home'[q][1]]
    <3> SUFFICES ASSUME NEW q \in Invokes, stage'[q] # "unused"
                 PROVE  home'[q][1] \in built /\ home'[q][2] <= page[home'[q][1]]
      OBVIOUS
    <3>1. CASE q = r
      <4>1. home'[q][1] = w /\ home'[q][2] = page[w]
        BY <1>4, <1>8, <3>1
      <4>2. w \in built
        BY <1>1 DEF Shape
      <4> QED BY <1>3, <4>1, <4>2
    <3>2. CASE q # r
      BY <1>4, <1>6, <3>2 DEF UsedInv
    <3> QED BY <3>1, <3>2
  <2>5. \A q \in Invokes, v \in alive : home'[q] = <<v, page[v]>> => id'[q] < counter'[v]
    <3> SUFFICES ASSUME NEW q \in Invokes, NEW v \in alive, home'[q] = <<v, page[v]>>
                 PROVE  id'[q] < counter'[v]
      OBVIOUS
    <3>1. v \in Views
      BY DEF Shape
    <3>2. CASE q = r
      <4>1. v = w
        BY <1>4, <1>8, <3>2
      <4> QED BY <1>3, <1>4, <1>5, <3>2, <4>1
    <3>3. CASE q # r
      <4>1. id'[q] < counter[v] /\ id'[q] \in Nat
        <5>1. home[q] = Entry(v) /\ id'[q] = id[q]
          BY <1>4, <3>3 DEF Entry
        <5>2. id[q] < counter[v]
          BY <5>1 DEF UsedInv
        <5>3. id[q] \in Nat
          BY Constants DEF Shape
        <5> QED BY <5>1, <5>2, <5>3
      <4>2. counter[v] \in Nat /\ counter'[v] \in Nat /\ counter'[v] >= counter[v]
        <5>1. counter[v] \in 0 .. MaxInvokes /\ counter'[v] \in 0 .. MaxInvokes
          BY <1>5, <3>1 DEF Shape
        <5>2. 0 .. MaxInvokes \subseteq Nat
          BY Constants
        <5> QED BY <1>5, <3>1, <5>1, <5>2
      <4> QED BY <4>1, <4>2
    <3> QED BY <3>2, <3>3
  <2>6. \A q, p \in Invokes :
          q # p /\ home'[q] = home'[p] /\ stage'[q] # "unused" => id'[q] # id'[p]
    <3>1. \A q \in Invokes : q # r /\ home[q] = Entry(w) => id[q] < counter[w] /\ id[q] \in Nat
      BY <1>1, Constants DEF UsedInv, Shape
    <3>2. ASSUME NEW q \in Invokes, q # r, home[q] = Entry(w) PROVE id[q] # counter[w]
      <4>1. id[q] < counter[w] /\ id[q] \in Nat /\ counter[w] \in Nat
        BY <1>3, <3>1, <3>2
      <4> QED BY <4>1
    <3> QED BY <1>4, <1>6, <3>2 DEF UsedInv
  <2>7. \A q \in Invokes : settledBy[q] # 0 => stage'[q] # "unused" /\ stage'[settledBy[q]] # "unused"
    <3>1. \A q \in Invokes : settledBy[q] # 0 => settledBy[q] \in Invokes
      BY Constants, SMTT(30) DEF Invokes, Shape
    <3> QED BY <1>6, <3>1 DEF UsedInv
  <2>8. \A v \in Views : \A op \in Entries(scripts[v]) : stage'[op.script[2]] # "unused"
    BY <1>6, ScriptsNameInvokes DEF UsedInv
  <2>9. \A q \in waited' : stage'[q] # "unused"
    BY <1>6, <1>11 DEF UsedInv, Shape
  <2>10. \A q \in Invokes, v \in alive : home'[q] = Entry(v)' => id'[q] < counter'[v]
    BY <1>1, <2>5 DEF Entry
  <2> QED BY <1>1, <2>1, <2>2, <2>3, <2>4, <2>6, <2>7, <2>8, <2>9, <2>10 DEF UsedInv
<1>15. /\ \A q, p \in Invokes : q # r /\ p # r => Mates(q, p)' = Mates(q, p)
       /\ \A p \in Invokes : ~Mates(r, p)'
  <2>1. ASSUME NEW q \in Invokes, NEW p \in Invokes, q # r, p # r PROVE Mates(q, p)' = Mates(q, p)
    BY <1>4, <1>11, <2>1 DEF Mates
  <2>2. ASSUME NEW p \in Invokes, p > r PROVE home'[p] # home'[r]
    <3>1. p # r
      BY <1>3, <2>2
    <3>2. home'[p][1] = NoView /\ home'[r][1] = w
      BY <1>4, <1>7, <1>8, <2>2, <3>1
    <3> QED BY <1>8, <3>2
  <2>3. ASSUME NEW p \in Invokes PROVE ~Mates(r, p)'
    <3>1. r < p => p > r
      BY <1>3, Constants
    <3> QED BY <2>2, <3>1 DEF Mates
  <2> QED BY <2>1, <2>3
<1>16. /\ \A a, b \in Invokes : a # r /\ b # r /\ <<a, b>> \in Before' => <<a, b>> \in Before
       /\ \A a \in Invokes : a # r => <<r, a>> \notin Before'
       /\ \A a, b \in Jobs : a[2] # r /\ b[2] # r /\ <<a, b>> \in JobsBefore'
             => <<a, b>> \in JobsBefore
  BY <1>15 DEF Before, JobsBefore, Jobs
<1>17. /\ \A v \in Views : \A q \in Entries(ipcQueue[v]) \union Entries(ipc[v]) :
             q # r /\ q \in Invokes
       /\ \A j \in Entries(jobs) : j[2] # r /\ j \in Jobs /\ j[2] \in Invokes
  BY <1>1, EntriesTyped DEF PlaceInv
<1>18. /\ \A v \in Views : InOrder(ipcQueue[v], Before') /\ InOrder(ipc[v], Before')
       /\ InOrder(jobs, JobsBefore')
  BY <1>16, <1>17, SameInOrder DEF OrderInv
<1>19. \A i, j \in Entries(jobs) : i[1] = "post" /\ j[1] = "task" => ~Mates(i[2], j[2])'
  BY <1>15, <1>17 DEF OrderInv
<1>20. \A q, p \in Invokes : Mates(q, p)' =>
          /\ stage'[p] = "queued" => stage'[q] # "sent"
          /\ stage'[p] \in {"running", "over"} => stage'[q] \notin {"sent", "queued"}
  BY <1>6, <1>15 DEF OrderInv
<1>21. \A q \in Invokes : stage'[q] = "queued" <=> \E j \in Entries(jobs) : j[2] = q
  BY <1>1, <1>6 DEF PlaceInv
<1>22. CASE ipc' = [ipc EXCEPT ![w] = Append(@, r)] /\ UNCHANGED <<ipcQueue, waited>>
  <2>1. /\ Entries(Append(ipc[w], r)) = Entries(ipc[w]) \union {r}
        /\ InOrder(Append(ipc[w], r), Before')
    <3>1. ipc[w] \in Seq(Invokes)
      BY DEF Shape
    <3> QED BY <1>16, <1>17, <1>18, <3>1, AppendInOrder
  <2>2. ipc'[w] = Append(ipc[w], r)
    BY <1>22 DEF Shape
  <2>3. \A v \in Views : InOrder(ipcQueue'[v], Before') /\ InOrder(ipc'[v], Before')
    BY <1>9, <1>18, <1>22, <2>1, <2>2
  <2>4. \A v \in Views : \A q \in Entries(ipcQueue'[v]), p \in Entries(ipc'[v]) : ~Mates(q, p)'
    <3> SUFFICES ASSUME NEW v \in Views, NEW q \in Entries(ipcQueue[v]), NEW p \in Entries(ipc'[v])
                 PROVE  ~Mates(q, p)'
      BY <1>22
    <3>1. CASE p = r
      <4>1. q \in waited
        BY DEF PlaceInv
      <4> QED BY <1>12, <1>22, <3>1, <4>1 DEF Mates
    <3>2. CASE p # r
      <4>1. p \in Entries(ipc[v])
        BY <1>9, <2>1, <2>2, <3>2
      <4> QED BY <1>15, <1>17, <4>1 DEF OrderInv
    <3> QED BY <3>1, <3>2
  <2>5. OrderInv'
    BY <1>1, <1>18, <1>19, <1>20, <2>3, <2>4 DEF OrderInv
  <2>6. \A v \in Views : \A q \in Entries(ipcQueue[v]) :
          stage'[q] = "sent" /\ home'[q] = <<v, page[v]>> /\ q \in waited
    BY <1>4, <1>6, <1>17 DEF PlaceInv, Entry
  <2>7. ASSUME NEW v \in Views, NEW q \in Entries(ipc'[v])
        PROVE  stage'[q] = "sent" /\ home'[q][1] = v
    <3>1. (v = w /\ q = r) \/ q \in Entries(ipc[v])
      BY <1>9, <2>1, <2>2
    <3> QED BY <1>4, <1>6, <1>8, <1>17, <3>1 DEF PlaceInv
  <2>8. ASSUME NEW v \in Views PROVE Entries(ipcQueue[v]) \intersect Entries(ipc'[v]) = {}
    <3>1. CASE v = w
      <4>1. Entries(ipcQueue[w]) \intersect Entries(ipc[w]) = {}
        BY DEF PlaceInv
      <4>2. r \notin Entries(ipcQueue[w]) /\ r \notin Entries(ipc[w])
        BY <1>17
      <4> QED BY <1>22, <2>1, <2>2, <3>1, <4>1, <4>2
    <3>2. CASE v # w
      BY <1>9, <3>2 DEF PlaceInv
    <3> QED BY <3>1, <3>2
  <2>9. \A q \in Invokes : stage'[q] = "sent" =>
          \E v \in Views : home'[q][1] = v /\ q \in Entries(ipcQueue[v]) \union Entries(ipc'[v])
    <3>1. home'[r][1] = w /\ r \in Entries(ipcQueue[w]) \union Entries(ipc'[w])
      BY <1>4, <1>8, <2>1, <2>2
    <3>2. ASSUME NEW q \in Invokes, q # r, stage'[q] = "sent"
          PROVE  \E v \in Views :
                    home'[q][1] = v /\ q \in Entries(ipcQueue[v]) \union Entries(ipc'[v])
      <4>1. stage[q] = "sent" /\ home'[q] = home[q]
        BY <1>4, <1>6, <3>2
      <4>2. PICK v \in Views : home[q][1] = v /\ q \in Entries(ipcQueue[v]) \union Entries(ipc[v])
        BY <4>1 DEF PlaceInv
      <4> QED BY <1>9, <2>1, <2>2, <4>1, <4>2
    <3> QED BY <3>1, <3>2
  <2>10. PlaceInv'
    <3>1. \A v \in Views : \A q \in Entries(ipcQueue'[v]) :
            stage'[q] = "sent" /\ home'[q] = Entry(v)' /\ q \in waited'
      BY <1>1, <1>22, <2>6 DEF Entry
    <3>2. \A v \in Views : \A q \in Entries(ipc'[v]) : stage'[q] = "sent" /\ home'[q][1] = v
      BY <1>22, <2>7
    <3>3. \A v \in Views : Entries(ipcQueue'[v]) \intersect Entries(ipc'[v]) = {}
      BY <1>22, <2>8
    <3>4. \A q \in Invokes : stage'[q] = "sent" =>
            \E v \in Views : home'[q][1] = v /\ q \in Entries(ipcQueue'[v]) \union Entries(ipc'[v])
      BY <1>22, <2>9
    <3> QED BY <1>1, <1>21, <3>1, <3>2, <3>3, <3>4 DEF PlaceInv
  <2> QED BY <1>10, <1>13, <2>5, <2>10
<1>23. CASE /\ ipcQueue' = [ipcQueue EXCEPT ![w] = Append(@, r)]
            /\ waited' = waited \union {r} /\ UNCHANGED ipc
  <2>1. /\ Entries(Append(ipcQueue[w], r)) = Entries(ipcQueue[w]) \union {r}
        /\ InOrder(Append(ipcQueue[w], r), Before')
    <3>1. ipcQueue[w] \in Seq(Invokes)
      BY DEF Shape
    <3> QED BY <1>16, <1>17, <1>18, <3>1, AppendInOrder
  <2>2. ipcQueue'[w] = Append(ipcQueue[w], r)
    BY <1>23 DEF Shape
  <2>3. \A v \in Views : InOrder(ipcQueue'[v], Before') /\ InOrder(ipc'[v], Before')
    BY <1>9, <1>18, <1>23, <2>1, <2>2
  <2>4. \A v \in Views : \A q \in Entries(ipcQueue'[v]), p \in Entries(ipc'[v]) : ~Mates(q, p)'
    <3> SUFFICES ASSUME NEW v \in Views, NEW q \in Entries(ipcQueue'[v]), NEW p \in Entries(ipc[v])
                 PROVE  ~Mates(q, p)'
      BY <1>23
    <3>1. CASE q = r
      BY <1>15, <1>17, <3>1
    <3>2. CASE q # r
      <4>1. q \in Entries(ipcQueue[v])
        BY <1>9, <2>1, <2>2, <3>2
      <4> QED BY <1>15, <1>17, <4>1 DEF OrderInv
    <3> QED BY <3>1, <3>2
  <2>5. OrderInv'
    BY <1>1, <1>18, <1>19, <1>20, <2>3, <2>4 DEF OrderInv
  <2>6. ASSUME NEW v \in Views, NEW q \in Entries(ipcQueue'[v])
        PROVE  stage'[q] = "sent" /\ home'[q] = <<v, page[v]>> /\ q \in waited'
    <3>1. (v = w /\ q = r) \/ q \in Entries(ipcQueue[v])
      BY <1>9, <2>1, <2>2
    <3>2. CASE v = w /\ q = r
      BY <1>4, <1>6, <1>23, <3>2 DEF Entry
    <3>3. CASE q \in Entries(ipcQueue[v])
      <4>1. stage[q] = "sent" /\ home[q] = <<v, page[v]>> /\ q \in waited
        BY <3>3 DEF PlaceInv, Entry
      <4> QED BY <1>4, <1>6, <1>17, <1>23, <3>3, <4>1
    <3> QED BY <3>1, <3>2, <3>3
  <2>7. \A v \in Views : \A q \in Entries(ipc[v]) : stage'[q] = "sent" /\ home'[q][1] = v
    BY <1>4, <1>6, <1>17 DEF PlaceInv
  <2>8. ASSUME NEW v \in Views PROVE Entries(ipcQueue'[v]) \intersect Entries(ipc[v]) = {}
    <3>1. CASE v = w
      <4>1. Entries(ipcQueue[w]) \intersect Entries(ipc[w]) = {}
        BY DEF PlaceInv
      <4>2. r \notin Entries(ipcQueue[w]) /\ r \notin Entries(ipc[w])
        BY <1>17
      <4> QED BY <1>23, <2>1, <2>2, <3>1, <4>1, <4>2
    <3>2. CASE v # w
      BY <1>9, <3>2 DEF PlaceInv
    <3> QED BY <3>1, <3>2
  <2>9. \A q \in Invokes : stage'[q] = "sent" =>
          \E v \in Views : home'[q][1] = v /\ q \in Entries(ipcQueue'[v]) \union Entries(ipc[v])
    <3>1. home'[r][1] = w /\ r \in Entries(ipcQueue'[w]) \union Entries(ipc[w])
      BY <1>4, <1>8, <2>1, <2>2
    <3>2. ASSUME NEW q \in Invokes, q # r, stage'[q] = "sent"
          PROVE  \E v \in Views :
                    home'[q][1] = v /\ q \in Entries(ipcQueue'[v]) \union Entries(ipc[v])
      <4>1. stage[q] = "sent" /\ home'[q] = home[q]
        BY <1>4, <1>6, <3>2
      <4>2. PICK v \in Views : home[q][1] = v /\ q \in Entries(ipcQueue[v]) \union Entries(ipc[v])
        BY <4>1 DEF PlaceInv
      <4> QED BY <1>9, <2>1, <2>2, <4>1, <4>2
    <3> QED BY <3>1, <3>2
  <2>10. PlaceInv'
    <3>1. \A v \in Views : \A q \in Entries(ipcQueue'[v]) :
            stage'[q] = "sent" /\ home'[q] = Entry(v)' /\ q \in waited'
      BY <1>1, <1>23, <2>6 DEF Entry
    <3>2. \A v \in Views : \A q \in Entries(ipc'[v]) : stage'[q] = "sent" /\ home'[q][1] = v
      BY <1>23, <2>7
    <3>3. \A v \in Views : Entries(ipcQueue'[v]) \intersect Entries(ipc'[v]) = {}
      BY <1>23, <2>8
    <3>4. \A q \in Invokes : stage'[q] = "sent" =>
            \E v \in Views : home'[q][1] = v /\ q \in Entries(ipcQueue'[v]) \union Entries(ipc'[v])
      BY <1>23, <2>9
    <3> QED BY <1>1, <1>21, <3>1, <3>2, <3>3, <3>4 DEF PlaceInv
  <2> QED BY <1>10, <1>13, <2>5, <2>10
<1> QED BY <1>2, <1>22, <1>23

-----------------------------------------------------------------------------
(* The run loop thread. *)

LEMMA IpcArrivesStep ==
    ASSUME IInv, NEW w \in Views, IpcArrives(w)
    PROVE  IInv'
<1> USE DEF IInv
<1> DEFINE x == Head(ipc[w])
<1>1. /\ ipc[w] # <<>>
      /\ ipc' = [ipc EXCEPT ![w] = Tail(@)]
      /\ \/ jobs' = Append(jobs, <<"post", x>>) /\ Becomes({x}, "queued")
         \/ Becomes({x}, "lost") /\ UNCHANGED jobs
      /\ UNCHANGED <<alive, up, queue, scripts, store, abandoned, built, bound, page, bridge,
                     counter, ipcQueue, home, id, waited, context, settledBy, mute>>
  BY DEF IpcArrives, dispatch
<1>2. /\ x \in Invokes /\ Tail(ipc[w]) \in Seq(Invokes)
      /\ Entries(ipc[w]) = {x} \union Entries(Tail(ipc[w]))
      /\ InOrder(Tail(ipc[w]), Before)
      /\ \A a \in Entries(Tail(ipc[w])) : <<a, x>> \notin Before
  <2>1. ipc[w] \in Seq(Invokes) /\ InOrder(ipc[w], Before)
    BY DEF Shape, OrderInv
  <2> QED BY <1>1, <2>1, TailInOrder
<1> HIDE DEF x
<1>3. Entries(Tail(ipc[w])) \subseteq Invokes
  BY <1>2, EntriesTyped
<1>4. \A a \in Entries(Tail(ipc[w])) : a # x /\ ~Mates(a, x)
  BY <1>2, <1>3 DEF Before
<1>5. stage[x] = "sent" /\ home[x][1] = w
  BY <1>2 DEF PlaceInv
<1>6. /\ ipc' \in [Views -> Seq(Invokes)] /\ ipc'[w] = Tail(ipc[w])
      /\ \A v \in Views : v # w => ipc'[v] = ipc[v]
  BY <1>1, <1>2 DEF Shape
<1>7. /\ stage' \in [Invokes -> Stages] /\ stage'[x] \in {"queued", "lost"}
      /\ \A q \in Invokes : q # x => stage'[q] = stage[q]
      /\ \A q \in Invokes : stage'[q] = "unused" <=> stage[q] = "unused"
  <2>1. PICK label \in {"queued", "lost"} :
           stage' = [q \in Invokes |-> IF q = x THEN label ELSE stage[q]]
    BY <1>1 DEF Becomes
  <2>2. label \in Stages /\ label # "unused"
    BY DEF Stages
  <2>3. stage \in [Invokes -> Stages]
    BY DEF Shape
  <2> QED BY <1>2, <1>5, <2>1, <2>2, <2>3
<1>8. <<"post", x>> \in Jobs /\ jobs \in Seq(Jobs)
  BY <1>2 DEF Jobs, Shape
<1>9. \A j \in Entries(jobs) : stage[j[2]] = "queued" /\ j[2] # x /\ j[2] \in Invokes /\ j \in Jobs
  BY <1>5, EntriesTyped DEF PlaceInv
<1>10. \A q \in Invokes : stage[q] = "queued" => ~Mates(x, q)
  BY <1>2, <1>5 DEF OrderInv
<1>11. /\ jobs' \in Seq(Jobs)
       /\ \A j \in Entries(jobs') :
             j \in Entries(jobs) \/ (j = <<"post", x>> /\ stage'[x] = "queued")
       /\ InOrder(jobs', JobsBefore)
       /\ Entries(jobs) \subseteq Entries(jobs')
       /\ stage'[x] = "queued" => <<"post", x>> \in Entries(jobs')
  <2>1. \A a \in Entries(jobs) : <<<<"post", x>>, a>> \notin JobsBefore
    BY <1>9, <1>10 DEF JobsBefore
  <2>2. InOrder(jobs, JobsBefore)
    BY DEF OrderInv
  <2>3. CASE jobs' = Append(jobs, <<"post", x>>) /\ Becomes({x}, "queued")
    <3>1. stage'[x] = "queued"
      BY <1>2, <2>3 DEF Becomes
    <3>2. /\ jobs' \in Seq(Jobs) /\ Entries(jobs') = Entries(jobs) \union {<<"post", x>>}
          /\ InOrder(jobs', JobsBefore)
      BY <1>8, <2>1, <2>2, <2>3, AppendInOrder
    <3> QED BY <3>1, <3>2
  <2>4. CASE Becomes({x}, "lost") /\ UNCHANGED jobs
    <3>1. stage'[x] = "lost"
      BY <1>2, <2>4 DEF Becomes
    <3> QED BY <1>8, <2>2, <2>4, <3>1
  <2> QED BY <1>1, <2>3, <2>4
<1>12. Shape'
  BY <1>1, <1>6, <1>7, <1>11 DEF Shape
<1>13. UsedInv'
  BY <1>1, <1>7, UsedFrame, ScriptsNameInvokes DEF UsedInv
<1>14. \A v \in Views : Entries(ipc'[v]) \subseteq Entries(ipc[v]) /\ x \notin Entries(ipc'[v])
  <2> SUFFICES ASSUME NEW v \in Views
               PROVE  Entries(ipc'[v]) \subseteq Entries(ipc[v]) /\ x \notin Entries(ipc'[v])
    OBVIOUS
  <2>1. CASE v = w
    BY <1>2, <1>4, <1>6, <2>1
  <2>2. CASE v # w
    BY <1>5, <1>6, <2>2 DEF PlaceInv
  <2> QED BY <2>1, <2>2
<1>15. \A v \in Views : x \notin Entries(ipcQueue[v])
  <2> SUFFICES ASSUME NEW v \in Views, x \in Entries(ipcQueue[v]) PROVE FALSE
    OBVIOUS
  <2>1. v = w
    BY <1>5 DEF PlaceInv, Entry
  <2> QED BY <1>2, <2>1 DEF PlaceInv
<1>16. PlaceInv'
  <2>1. \A v \in Views : \A r \in Entries(ipcQueue[v]) :
          stage'[r] = "sent" /\ home[r] = Entry(v)' /\ r \in waited
    <3> SUFFICES ASSUME NEW v \in Views, NEW r \in Entries(ipcQueue[v])
                 PROVE  stage'[r] = "sent" /\ home[r] = Entry(v)' /\ r \in waited
      OBVIOUS
    <3>1. r \in Invokes /\ r # x
      BY <1>15, EntriesTyped
    <3>2. stage[r] = "sent" /\ home[r] = <<v, page[v]>> /\ r \in waited
      BY DEF PlaceInv, Entry
    <3> QED BY <1>1, <1>7, <3>1, <3>2 DEF Entry
  <2>2. \A v \in Views : \A r \in Entries(ipc'[v]) : stage'[r] = "sent" /\ home[r][1] = v
    <3> SUFFICES ASSUME NEW v \in Views, NEW r \in Entries(ipc'[v])
                 PROVE  stage'[r] = "sent" /\ home[r][1] = v
      OBVIOUS
    <3>1. r \in Entries(ipc[v]) /\ r # x
      BY <1>14
    <3>2. r \in Invokes
      BY <3>1, EntriesTyped
    <3> QED BY <1>7, <3>1, <3>2 DEF PlaceInv
  <2>3. \A v \in Views : Entries(ipcQueue[v]) \intersect Entries(ipc'[v]) = {}
    BY <1>14 DEF PlaceInv
  <2>4. \A r \in Invokes : stage'[r] = "sent" =>
          \E v \in Views : home[r][1] = v /\ r \in Entries(ipcQueue[v]) \union Entries(ipc'[v])
    <3> SUFFICES ASSUME NEW r \in Invokes, stage'[r] = "sent"
                 PROVE  \E v \in Views :
                           home[r][1] = v /\ r \in Entries(ipcQueue[v]) \union Entries(ipc'[v])
      OBVIOUS
    <3>1. r # x /\ stage[r] = "sent"
      BY <1>7
    <3>2. PICK v \in Views : home[r][1] = v /\ r \in Entries(ipcQueue[v]) \union Entries(ipc[v])
      BY <3>1 DEF PlaceInv
    <3> QED BY <1>2, <1>6, <3>1, <3>2
  <2>5. \A r \in Invokes : stage'[r] = "queued" <=> \E j \in Entries(jobs') : j[2] = r
    <3> SUFFICES ASSUME NEW r \in Invokes
                 PROVE  stage'[r] = "queued" <=> \E j \in Entries(jobs') : j[2] = r
      OBVIOUS
    <3>1. CASE r = x
      BY <1>9, <1>11, <3>1
    <3>2. CASE r # x
      <4>1. stage'[r] = "queued" <=> \E j \in Entries(jobs) : j[2] = r
        BY <1>7, <3>2 DEF PlaceInv
      <4> QED BY <1>11, <3>2, <4>1
    <3> QED BY <3>1, <3>2
  <2>6. home' = home /\ waited' = waited /\ ipcQueue' = ipcQueue
    BY <1>1
  <2> QED BY <2>1, <2>2, <2>3, <2>4, <2>5, <2>6, SMTT(30) DEF PlaceInv
<1>17. OrderInv'
  <2>1. \A v \in Views : InOrder(ipcQueue[v], Before) /\ InOrder(ipc'[v], Before)
    BY <1>2, <1>6 DEF OrderInv
  <2>2. \A v \in Views : \A q \in Entries(ipcQueue[v]), r \in Entries(ipc'[v]) : ~Mates(q, r)
    BY <1>14 DEF OrderInv
  <2>3. \A i, j \in Entries(jobs') : i[1] = "post" /\ j[1] = "task" => ~Mates(i[2], j[2])
    <3> SUFFICES ASSUME NEW i \in Entries(jobs'), NEW j \in Entries(jobs'),
                        i[1] = "post", j[1] = "task"
                 PROVE  ~Mates(i[2], j[2])
      OBVIOUS
    <3>1. j \in Entries(jobs)
      BY <1>11
    <3>2. i \in Entries(jobs) \/ i = <<"post", x>>
      BY <1>11
    <3> QED BY <1>9, <1>10, <3>1, <3>2 DEF OrderInv
  <2>4. ASSUME NEW q \in Invokes, Mates(q, x) PROVE stage[q] # "sent"
    <3>1. home[q][1] = w /\ q # x
      BY <1>2, <1>5, <2>4, Constants DEF Mates
    <3>2. q \notin Entries(ipc[w])
      BY <1>2, <1>4, <2>4, <3>1
    <3>3. q \notin Entries(ipcQueue[w])
      BY <1>2, <2>4 DEF OrderInv
    <3> QED BY <3>1, <3>2, <3>3 DEF PlaceInv
  <2>5. \A q, r \in Invokes : Mates(q, r) =>
          /\ stage'[r] = "queued" => stage'[q] # "sent"
          /\ stage'[r] \in {"running", "over"} => stage'[q] \notin {"sent", "queued"}
    <3> SUFFICES ASSUME NEW q \in Invokes, NEW r \in Invokes, Mates(q, r)
                 PROVE  /\ stage'[r] = "queued" => stage'[q] # "sent"
                        /\ stage'[r] \in {"running", "over"} => stage'[q] \notin {"sent", "queued"}
      OBVIOUS
    <3>1. CASE r = x
      BY <1>7, <2>4, <3>1
    <3>2. CASE r # x
      BY <1>5, <1>7, <3>2 DEF OrderInv
    <3> QED BY <3>1, <3>2
  <2>6. /\ \A q, r \in Invokes : Mates(q, r)' = Mates(q, r)
        /\ Before' = Before /\ JobsBefore' = JobsBefore
    BY <1>1, MatesFrame
  <2>7. \A v \in Views : \A q \in Entries(ipcQueue[v]), r \in Entries(ipc'[v]) : ~Mates(q, r)'
    BY <1>14, <2>2, <2>6, EntriesTyped
  <2>8. \A i, j \in Entries(jobs') : i[1] = "post" /\ j[1] = "task" => ~Mates(i[2], j[2])'
    <3>1. \A i \in Entries(jobs') : i[2] \in Invokes
      BY <1>2, <1>9, <1>11
    <3> QED BY <2>3, <2>6, <3>1
  <2> QED BY <1>1, <1>11, <2>1, <2>5, <2>6, <2>7, <2>8 DEF OrderInv
<1> QED BY <1>1, <1>12, <1>13, <1>16, <1>17

LEMMA SpawnTaskStep == ASSUME IInv, SpawnTask PROVE IInv'
<1> USE DEF IInv
<1> DEFINE x == Head(jobs)[2]
           t == <<"task", x>>
<1>1. /\ jobs # <<>> /\ Head(jobs)[1] = "post"
      /\ jobs' = Append(Tail(jobs), t)
      /\ UNCHANGED <<alive, up, queue, scripts, store, abandoned, built, bound, page, bridge,
                     counter, ipcQueue, ipc, stage, home, id, waited, context, mute, settledBy>>
  BY DEF SpawnTask, dispatch, pages, requests
<1>2. /\ Head(jobs) \in Jobs /\ Tail(jobs) \in Seq(Jobs)
      /\ Entries(jobs) = {Head(jobs)} \union Entries(Tail(jobs))
      /\ InOrder(Tail(jobs), JobsBefore)
      /\ \A a \in Entries(Tail(jobs)) : <<a, Head(jobs)>> \notin JobsBefore
  <2>1. jobs \in Seq(Jobs) /\ InOrder(jobs, JobsBefore)
    BY DEF Shape, OrderInv
  <2> QED BY <1>1, <2>1, TailInOrder
<1>3. x \in Invokes /\ t \in Jobs /\ t[1] = "task" /\ t[2] = x
  BY <1>2 DEF Jobs
<1>4. \A a \in Entries(Tail(jobs)) : /\ a \in Jobs /\ a[2] \in Invokes /\ a[2] # x
                                     /\ a[1] = "post" => ~Mates(a[2], x)
                                     /\ a[1] = "task" => ~Mates(x, a[2])
  <2>1. \A a \in Entries(Tail(jobs)) : a \in Entries(jobs) /\ a \in Jobs /\ a[2] \in Invokes
    BY <1>2, EntriesTyped
  <2>2. \A a \in Entries(Tail(jobs)) : a[2] # x /\ (a[1] = "post" => ~Mates(a[2], x))
    BY <1>1, <1>2, <2>1 DEF JobsBefore
  <2>3. \A a \in Entries(Tail(jobs)) : a[1] = "task" => ~Mates(x, a[2])
    BY <1>1, <1>2, <2>1 DEF OrderInv
  <2> QED BY <2>1, <2>2, <2>3
<1> HIDE DEF x, t
<1>5. /\ jobs' \in Seq(Jobs)
      /\ Entries(jobs') = Entries(Tail(jobs)) \union {t}
      /\ InOrder(jobs', JobsBefore)
  <2>1. \A a \in Entries(Tail(jobs)) : <<t, a>> \notin JobsBefore
    BY <1>3, <1>4 DEF JobsBefore
  <2>2. /\ Append(Tail(jobs), t) \in Seq(Jobs)
        /\ Entries(Append(Tail(jobs), t)) = Entries(Tail(jobs)) \union {t}
        /\ InOrder(Append(Tail(jobs), t), JobsBefore)
    <3>1. Tail(jobs) \in Seq(Jobs) /\ t \in Jobs /\ InOrder(Tail(jobs), JobsBefore)
      BY <1>2, <1>3
    <3> DEFINE rest == Tail(jobs)
    <3>2. /\ rest \in Seq(Jobs) /\ InOrder(rest, JobsBefore)
          /\ \A a \in Entries(rest) : <<t, a>> \notin JobsBefore
      BY <2>1, <3>1
    <3> HIDE DEF rest
    <3>3. /\ Append(rest, t) \in Seq(Jobs)
          /\ Entries(Append(rest, t)) = Entries(rest) \union {t}
          /\ InOrder(Append(rest, t), JobsBefore)
      BY <3>1, <3>2, AppendInOrder
    <3> QED BY <3>3 DEF rest
  <2> QED BY <1>1, <2>2
<1>6. Shape'
  BY <1>1, <1>5 DEF Shape
<1>7. UsedInv'
  BY <1>1, UsedFrame, ScriptsNameInvokes DEF UsedInv
<1>8. PlaceInv'
  <2>1. \A r \in Invokes : (\E j \in Entries(jobs) : j[2] = r) <=> \E j \in Entries(jobs') : j[2] = r
    <3>1. Head(jobs)[2] = x
      BY DEF x
    <3> QED BY <1>2, <1>3, <1>5, <3>1
  <2>2. \A r \in Invokes : stage[r] = "queued" <=> \E j \in Entries(jobs') : j[2] = r
    BY <2>1 DEF PlaceInv
  <2>3. UNCHANGED <<home, waited, ipcQueue, ipc, stage, page>>
    BY <1>1
  <2> QED BY <2>2, <2>3 DEF PlaceInv, Entry
<1>9. OrderInv'
  <2>1. ASSUME NEW i \in Entries(jobs'), NEW j \in Entries(jobs'), i[1] = "post", j[1] = "task"
        PROVE  ~Mates(i[2], j[2])
    <3>1. i \in Entries(Tail(jobs))
      BY <1>3, <1>5, <2>1
    <3>2. CASE j \in Entries(Tail(jobs))
      BY <1>2, <2>1, <3>1, <3>2 DEF OrderInv
    <3>3. CASE j = t
      BY <1>3, <1>4, <2>1, <3>1, <3>3
    <3> QED BY <1>5, <3>2, <3>3
  <2>2. /\ \A q, r \in Invokes : Mates(q, r)' = Mates(q, r)
        /\ Before' = Before /\ JobsBefore' = JobsBefore
    BY <1>1, MatesFrame
  <2>3. \A i, j \in Entries(jobs') : i[1] = "post" /\ j[1] = "task" => ~Mates(i[2], j[2])'
    <3>1. \A i \in Entries(jobs') : i[2] \in Invokes
      BY <1>3, <1>4, <1>5
    <3> QED BY <2>1, <2>2, <3>1
  <2>4. \A v \in Views : \A q \in Entries(ipcQueue[v]), r \in Entries(ipc[v]) : ~Mates(q, r)'
    BY <2>2, EntriesTyped DEF OrderInv
  <2>5. /\ UNCHANGED <<ipcQueue, ipc, stage>>
        /\ \A v \in Views : InOrder(ipcQueue[v], Before) /\ InOrder(ipc[v], Before)
    BY <1>1 DEF OrderInv
  <2>6. \A q, r \in Invokes : Mates(q, r)' =>
          /\ stage[r] = "queued" => stage[q] # "sent"
          /\ stage[r] \in {"running", "over"} => stage[q] \notin {"sent", "queued"}
    BY <2>2 DEF OrderInv
  <2> QED BY <1>5, <2>2, <2>3, <2>4, <2>5, <2>6 DEF OrderInv
<1> QED BY <1>1, <1>6, <1>7, <1>8, <1>9

\* The first job is the task of r, which begins its command or ends without one: those that
\* should start before it are not behind it in the queue.
LEMMA TaskBegins ==
    ASSUME IInv, NEW r \in Invokes, NEW label \in {"running", "over"},
           NextTask(r), Becomes({r}, label),
           UNCHANGED <<page, ipcQueue, ipc, home, waited>>
    PROVE  /\ stage[r] = "queued"
           /\ jobs' \in Seq(Jobs) /\ stage' \in [Invokes -> Stages]
           /\ \A q \in Invokes : stage'[q] = "unused" <=> stage[q] = "unused"
           /\ PlaceInv' /\ OrderInv'
<1> USE DEF IInv
<1>1. jobs # <<>> /\ Head(jobs) = <<"task", r>> /\ jobs' = Tail(jobs)
  BY DEF NextTask
<1>2. /\ jobs' \in Seq(Jobs)
      /\ Entries(jobs) = {<<"task", r>>} \union Entries(jobs')
      /\ InOrder(jobs', JobsBefore)
      /\ \A a \in Entries(jobs') : <<a, <<"task", r>>>> \notin JobsBefore
  <2>1. jobs \in Seq(Jobs) /\ InOrder(jobs, JobsBefore)
    BY DEF Shape, OrderInv
  <2> QED BY <1>1, <2>1, TailInOrder
<1>3. stage[r] = "queued"
  <2>1. <<"task", r>> \in Entries(jobs)
    BY <1>2
  <2>2. <<"task", r>>[2] = r
    OBVIOUS
  <2> QED BY <2>1, <2>2 DEF PlaceInv
<1>4. /\ stage' \in [Invokes -> Stages] /\ stage'[r] = label
      /\ \A q \in Invokes : q # r => stage'[q] = stage[q]
      /\ \A q \in Invokes : stage'[q] = "unused" <=> stage[q] = "unused"
  <2>1. label \in Stages /\ label # "unused"
    BY DEF Stages
  <2> QED BY <1>3, <2>1 DEF Becomes, Shape
<1>5. <<"task", r>> \in Jobs
  BY DEF Jobs
<1>6. \A a \in Entries(jobs') : a[2] \in Invokes /\ a[2] # r /\ ~Mates(a[2], r)
  <2> SUFFICES ASSUME NEW a \in Entries(jobs')
               PROVE  a[2] \in Invokes /\ a[2] # r /\ ~Mates(a[2], r)
    OBVIOUS
  <2>1. a \in Entries(jobs) /\ a \in Jobs /\ a[1] \in {"post", "task"} /\ a[2] \in Invokes
    BY <1>2, EntriesTyped
  <2>2. a[2] # r /\ (a[1] = "task" => ~Mates(a[2], r))
    BY <1>2, <1>5, <2>1 DEF JobsBefore
  <2>3. a[1] = "post" => ~Mates(a[2], r)
    BY <1>2, <2>1, ZenonT(40) DEF OrderInv
  <2> QED BY <2>1, <2>2, <2>3
<1>7. PlaceInv'
  <2>1. \A v \in Views : \A q \in Entries(ipcQueue[v]) \union Entries(ipc[v]) : stage'[q] = stage[q]
    <3>1. \A v \in Views : \A q \in Entries(ipcQueue[v]) \union Entries(ipc[v]) : stage[q] = "sent"
      BY DEF PlaceInv
    <3>2. \A v \in Views : Entries(ipcQueue[v]) \union Entries(ipc[v]) \subseteq Invokes
      BY EntriesTyped
    <3> QED BY <1>3, <1>4, <3>1, <3>2
  <2>2. \A q \in Invokes : stage'[q] = "queued" <=> \E j \in Entries(jobs') : j[2] = q
    <3> SUFFICES ASSUME NEW q \in Invokes
                 PROVE  stage'[q] = "queued" <=> \E j \in Entries(jobs') : j[2] = q
      OBVIOUS
    <3>1. CASE q = r
      BY <1>4, <1>6, <3>1
    <3>2. CASE q # r
      BY <1>2, <1>4, <3>2 DEF PlaceInv
    <3> QED BY <3>1, <3>2
  <2>3. \A q \in Invokes : stage'[q] = "sent" => stage[q] = "sent"
    BY <1>4
  <2>4. /\ \A v \in Views : \A q \in Entries(ipcQueue[v]) :
             stage'[q] = "sent" /\ home[q] = Entry(v) /\ q \in waited
        /\ \A v \in Views : \A q \in Entries(ipc[v]) : stage'[q] = "sent" /\ home[q][1] = v
        /\ \A q \in Invokes : stage'[q] = "sent" =>
             \E v \in Views : home[q][1] = v /\ q \in Entries(ipcQueue[v]) \union Entries(ipc[v])
    BY <2>1, <2>3 DEF PlaceInv
  <2>5. Entry(0)' = Entry(0) /\ \A v \in Views : Entry(v)' = Entry(v)
    BY DEF Entry
  <2> QED BY <2>2, <2>4, <2>5 DEF PlaceInv
<1>8. OrderInv'
  <2>1. ASSUME NEW p \in Invokes, Mates(p, r) PROVE p # r /\ stage[p] \notin {"sent", "queued"}
    <3>1. p # r
      BY <2>1, Constants DEF Mates
    <3>2. stage[p] # "sent"
      BY <1>3, <2>1 DEF OrderInv
    <3>3. stage[p] # "queued"
      BY <1>2, <1>6, <2>1, <3>1 DEF PlaceInv
    <3> QED BY <3>1, <3>2, <3>3
  <2>2. \A p, q \in Invokes : Mates(p, q) =>
          /\ stage'[q] = "queued" => stage'[p] # "sent"
          /\ stage'[q] \in {"running", "over"} => stage'[p] \notin {"sent", "queued"}
    <3> SUFFICES ASSUME NEW p \in Invokes, NEW q \in Invokes, Mates(p, q)
                 PROVE  /\ stage'[q] = "queued" => stage'[p] # "sent"
                        /\ stage'[q] \in {"running", "over"} => stage'[p] \notin {"sent", "queued"}
      OBVIOUS
    <3>1. CASE q = r
      BY <1>4, <2>1, <3>1
    <3>2. CASE q # r
      BY <1>4, <3>2 DEF OrderInv
    <3> QED BY <3>1, <3>2
  <2> QED BY <1>2, <2>2, OrderFrame
<1> QED BY <1>2, <1>3, <1>4, <1>7, <1>8

\* A command that runs comes to its end.
LEMMA CommandEnds ==
    ASSUME IInv, NEW r \in Invokes, stage[r] = "running", Becomes({r}, "over"),
           UNCHANGED <<page, ipcQueue, ipc, jobs, home, waited>>
    PROVE  /\ stage' \in [Invokes -> Stages]
           /\ \A q \in Invokes : stage'[q] = "unused" <=> stage[q] = "unused"
           /\ PlaceInv' /\ OrderInv'
<1> USE DEF IInv
<1>1. /\ stage' \in [Invokes -> Stages] /\ stage'[r] = "over"
      /\ \A q \in Invokes : q # r => stage'[q] = stage[q]
      /\ \A q \in Invokes : stage'[q] = "unused" <=> stage[q] = "unused"
  BY DEF Becomes, Shape, Stages
<1>2. PlaceInv'
  <2>1. \A v \in Views : \A q \in Entries(ipcQueue[v]) \union Entries(ipc[v]) : stage'[q] = stage[q]
    <3>1. \A v \in Views : \A q \in Entries(ipcQueue[v]) \union Entries(ipc[v]) : stage[q] = "sent"
      BY DEF PlaceInv
    <3>2. \A v \in Views : Entries(ipcQueue[v]) \union Entries(ipc[v]) \subseteq Invokes
      BY EntriesTyped
    <3> QED BY <1>1, <3>1, <3>2
  <2>2. \A q \in Invokes : stage[q] = "queued" => stage'[q] = stage[q]
    BY <1>1
  <2>3. \A q \in Invokes : stage'[q] \notin {"lost", "over", "running"} => stage'[q] = stage[q]
    BY <1>1
  <2> QED BY <2>1, <2>2, <2>3, PlaceFrame
<1>3. OrderInv'
  <2>1. \A p, q \in Invokes : Mates(p, q) =>
          /\ stage'[q] = "queued" => stage'[p] # "sent"
          /\ stage'[q] \in {"running", "over"} => stage'[p] \notin {"sent", "queued"}
    BY <1>1 DEF OrderInv
  <2>2. InOrder(jobs', JobsBefore)
    BY DEF OrderInv
  <2> QED BY <2>1, <2>2, OrderFrame
<1> QED BY <1>1, <1>2, <1>3

\* What handing over a response does to the dispatch handle's state.
LEMMA RespondEffect ==
    ASSUME IInv, NEW r \in Invokes, stage[r] # "unused", NEW fails, Respond(r, fails)
    PROVE  /\ scripts' \in [Views -> Seq(Answers)]
           /\ \A v \in Views : \A op \in Entries(scripts'[v]) :
                 op.script[2] \in Invokes /\ stage[op.script[2]] # "unused"
           /\ mute' \subseteq Invokes
           /\ Becomes({r}, "over")
           /\ UNCHANGED <<alive, up, queue, store, abandoned>>
<1> USE DEF IInv
<1> DEFINE op == Settle(r)
<1>1. op.view = bound /\ op.script = <<"settle", r>> /\ op.data = {}
  BY DEF Settle, Op
<1>2. bound \in alive => bound \in Views /\ op \in Answers
  <2>1. bound \in alive => bound \in Views
    BY DEF Shape
  <2>2. <<"settle", r>> \in {"settle"} \X Invokes /\ {} \in SUBSET {}
    OBVIOUS
  <2> QED BY <2>1, <2>2 DEF Settle, Op, Answers
<1> HIDE DEF op
<1>3. Becomes({r}, "over") /\ mute' \subseteq Invokes
  BY DEF Respond, Shape
<1>4. scripts \in [Views -> Seq(Answers)] /\ store = {} /\ abandoned = {}
  BY DEF Shape
<1>5. \A v \in Views : \A a \in Entries(scripts[v]) :
         a.script[2] \in Invokes /\ stage[a.script[2]] # "unused"
  BY ScriptsNameInvokes DEF UsedInv
<1>6. \/ /\ bound \in alive
         /\ scripts' = [scripts EXCEPT ![bound] = Append(@, op)]
         /\ UNCHANGED <<alive, up, queue, store, abandoned>>
      \/ UNCHANGED <<scripts, alive, up, queue, store, abandoned>>
  BY <1>1, <1>4 DEF Respond, PostInline, Refuse, Run, op
<1>7. CASE UNCHANGED <<scripts, alive, up, queue, store, abandoned>>
  BY <1>3, <1>4, <1>5, <1>7
<1>8. CASE /\ bound \in alive
           /\ scripts' = [scripts EXCEPT ![bound] = Append(@, op)]
           /\ UNCHANGED <<alive, up, queue, store, abandoned>>
  <2>1. /\ Append(scripts[bound], op) \in Seq(Answers)
        /\ Entries(Append(scripts[bound], op)) = Entries(scripts[bound]) \union {op}
    <3>1. scripts[bound] \in Seq(Answers) /\ op \in Answers
      BY <1>2, <1>4, <1>8
    <3> DEFINE s == scripts[bound]
    <3>2. s \in Seq(Answers)
      BY <3>1
    <3> HIDE DEF s
    <3>3. /\ Append(s, op) \in Seq(Answers)
          /\ Entries(Append(s, op)) = Entries(s) \union {op}
      BY <3>1, <3>2, AppendEntries
    <3> QED BY <3>3 DEF s
  <2>2. op.script[2] = r
    BY <1>1
  <2>3. scripts' \in [Views -> Seq(Answers)]
    BY <1>4, <1>8, <2>1
  <2>4. /\ scripts'[bound] = Append(scripts[bound], op)
        /\ \A v \in Views : v # bound => scripts'[v] = scripts[v]
    BY <1>2, <1>4, <1>8
  <2>5. ASSUME NEW v \in Views, NEW a \in Entries(scripts'[v])
        PROVE  a.script[2] \in Invokes /\ stage[a.script[2]] # "unused"
    <3>1. a = op \/ a \in Entries(scripts[v])
      BY <2>1, <2>4
    <3> QED BY <1>5, <2>2, <3>1
  <2> QED BY <1>3, <1>8, <2>3, <2>5
<1> QED BY <1>6, <1>7, <1>8

LEMMA RejectBodyStep == ASSUME IInv, NEW r \in Invokes, RejectBody(r) PROVE IInv'
<1> USE DEF IInv
<1>1. /\ NextTask(r) /\ Becomes({r}, "over") /\ mute' = mute \union {r}
      /\ UNCHANGED <<alive, up, queue, scripts, store, abandoned, built, bound, page, bridge,
                     counter, ipcQueue, ipc, home, id, waited, context, settledBy>>
  BY DEF RejectBody, dispatch, pages
<1>2. /\ jobs' \in Seq(Jobs) /\ stage' \in [Invokes -> Stages]
      /\ \A q \in Invokes : stage'[q] = "unused" <=> stage[q] = "unused"
      /\ PlaceInv' /\ OrderInv'
  BY <1>1, TaskBegins
<1>3. Shape'
  BY <1>1, <1>2 DEF Shape
<1>4. UsedInv'
  BY <1>1, <1>2, UsedFrame, ScriptsNameInvokes DEF UsedInv
<1> QED BY <1>1, <1>2, <1>3, <1>4

LEMMA StartFailsStep == ASSUME IInv, NEW r \in Invokes, NEW fails, StartFails(r, fails) PROVE IInv'
<1> USE DEF IInv
<1>1. /\ NextTask(r) /\ Respond(r, fails)
      /\ UNCHANGED <<built, bound, page, bridge, counter, ipcQueue, ipc, home, id, waited,
                     context, settledBy>>
  BY DEF StartFails, pages
<1>2. Becomes({r}, "over")
  BY <1>1 DEF Respond
<1>3. /\ stage[r] = "queued"
      /\ jobs' \in Seq(Jobs) /\ stage' \in [Invokes -> Stages]
      /\ \A q \in Invokes : stage'[q] = "unused" <=> stage[q] = "unused"
      /\ PlaceInv' /\ OrderInv'
  BY <1>1, <1>2, TaskBegins
<1>4. /\ scripts' \in [Views -> Seq(Answers)]
      /\ \A v \in Views : \A op \in Entries(scripts'[v]) :
            op.script[2] \in Invokes /\ stage[op.script[2]] # "unused"
      /\ mute' \subseteq Invokes
      /\ UNCHANGED <<alive, up, queue, store, abandoned>>
  BY <1>1, <1>3, RespondEffect
<1>5. Shape'
  BY <1>1, <1>3, <1>4 DEF Shape
<1>6. UsedInv'
  BY <1>1, <1>3, <1>4, UsedFrame
<1> QED BY <1>1, <1>3, <1>5, <1>6

LEMMA StartCommandStep == ASSUME IInv, NEW r \in Invokes, StartCommand(r) PROVE IInv'
<1> USE DEF IInv
<1>1. /\ NextTask(r) /\ Becomes({r}, "running") /\ bound \in alive
      /\ context' = [context EXCEPT ![r] = bound]
      /\ UNCHANGED <<alive, up, queue, scripts, store, abandoned, built, bound, page, bridge,
                     counter, ipcQueue, ipc, home, id, waited, mute, settledBy>>
  BY DEF StartCommand, dispatch, pages
<1>2. /\ jobs' \in Seq(Jobs) /\ stage' \in [Invokes -> Stages]
      /\ \A q \in Invokes : stage'[q] = "unused" <=> stage[q] = "unused"
      /\ PlaceInv' /\ OrderInv'
  BY <1>1, TaskBegins
<1>3. context' \in [Invokes -> Views \union {NoView}]
  <2>1. bound \in Views \union {NoView} /\ context \in [Invokes -> Views \union {NoView}]
    BY DEF Shape
  <2> QED BY <1>1, <2>1
<1>4. Shape'
  BY <1>1, <1>2, <1>3 DEF Shape
<1>5. UsedInv'
  BY <1>1, <1>2, UsedFrame, ScriptsNameInvokes DEF UsedInv
<1> QED BY <1>1, <1>2, <1>4, <1>5

LEMMA FinishStep == ASSUME IInv, NEW r \in Invokes, NEW fails, Finish(r, fails) PROVE IInv'
<1> USE DEF IInv
<1>1. /\ stage[r] = "running" /\ Respond(r, fails)
      /\ UNCHANGED <<built, bound, page, bridge, counter, ipcQueue, ipc, jobs, home, id, waited,
                     context, settledBy>>
  BY DEF Finish, pages
<1>2. /\ scripts' \in [Views -> Seq(Answers)]
      /\ \A v \in Views : \A op \in Entries(scripts'[v]) :
            op.script[2] \in Invokes /\ stage[op.script[2]] # "unused"
      /\ mute' \subseteq Invokes
      /\ Becomes({r}, "over")
      /\ UNCHANGED <<alive, up, queue, store, abandoned>>
  BY <1>1, RespondEffect
<1>3. /\ stage' \in [Invokes -> Stages]
      /\ \A q \in Invokes : stage'[q] = "unused" <=> stage[q] = "unused"
      /\ PlaceInv' /\ OrderInv'
  BY <1>1, <1>2, CommandEnds
<1>4. Shape'
  BY <1>1, <1>2, <1>3 DEF Shape
<1>5. UsedInv'
  BY <1>1, <1>2, <1>3, UsedFrame
<1> QED BY <1>1, <1>3, <1>4, <1>5

LEMMA PanicStep == ASSUME IInv, NEW r \in Invokes, Panic(r) PROVE IInv'
<1> USE DEF IInv
<1>1. /\ stage[r] = "running" /\ Becomes({r}, "over") /\ mute' = mute \union {r}
      /\ UNCHANGED <<alive, up, queue, scripts, store, abandoned, built, bound, page, bridge,
                     counter, ipcQueue, ipc, jobs, home, id, waited, context, settledBy>>
  BY DEF Panic, dispatch, pages
<1>2. /\ stage' \in [Invokes -> Stages]
      /\ \A q \in Invokes : stage'[q] = "unused" <=> stage[q] = "unused"
      /\ PlaceInv' /\ OrderInv'
  BY <1>1, CommandEnds
<1>3. Shape'
  BY <1>1, <1>2 DEF Shape
<1>4. UsedInv'
  BY <1>1, <1>2, UsedFrame, ScriptsNameInvokes DEF UsedInv
<1> QED BY <1>1, <1>2, <1>3, <1>4

LEMMA StopRunLoopStep == ASSUME IInv, StopRunLoop PROVE IInv'
<1> USE DEF IInv
<1> DEFINE lost == {r \in Invokes : stage[r] \in {"queued", "running"}}
<1>1. /\ up' = FALSE /\ jobs' = <<>> /\ Becomes(lost, "lost")
      /\ queue' = <<>> /\ abandoned' = {}
      /\ UNCHANGED <<alive, scripts, store, built, bound, page, bridge, counter, ipcQueue, ipc,
                     home, id, waited, context, settledBy, mute>>
  <2>1. queue = <<>> /\ abandoned = {} /\ DataOf(Entries(<<>>)) = {}
    BY EmptyInOrder DEF Shape, DataOf
  <2> QED BY <2>1 DEF StopRunLoop, StopLoop, pages
<1>2. /\ stage' \in [Invokes -> Stages]
      /\ \A r \in Invokes : stage'[r] = "unused" <=> stage[r] = "unused"
      /\ \A r \in Invokes : stage'[r] # "lost" => stage'[r] = stage[r]
      /\ \A r \in Invokes : r \notin lost => stage'[r] = stage[r]
      /\ \A r \in lost : stage'[r] = "lost"
  BY <1>1, LostFrame
<1>3. Shape'
  BY <1>1, <1>2, EmptySeq DEF Shape
<1>4. UsedInv'
  BY <1>1, <1>2, UsedFrame, ScriptsNameInvokes DEF UsedInv
<1>5. PlaceInv'
  <2>1. \A v \in Views : \A q \in Entries(ipcQueue[v]) \union Entries(ipc[v]) :
           stage[q] = "sent" /\ q \in Invokes
    BY EntriesTyped DEF PlaceInv
  <2>2. \A v \in Views : \A q \in Entries(ipcQueue[v]) \union Entries(ipc[v]) : stage'[q] = stage[q]
    BY <1>2, <2>1
  <2>3. \A q \in Invokes : stage'[q] = "sent" => stage[q] = "sent"
    BY <1>2
  <2>4. /\ \A v \in Views : \A q \in Entries(ipcQueue[v]) :
             stage'[q] = "sent" /\ home[q] = Entry(v) /\ q \in waited
        /\ \A v \in Views : \A q \in Entries(ipc[v]) : stage'[q] = "sent" /\ home[q][1] = v
        /\ \A q \in Invokes : stage'[q] = "sent" =>
             \E v \in Views : home[q][1] = v /\ q \in Entries(ipcQueue[v]) \union Entries(ipc[v])
    BY <2>2, <2>3 DEF PlaceInv
  <2>5. \A v \in Views : Entry(v)' = Entry(v)
    BY <1>1 DEF Entry
  <2>6. \A q \in Invokes : stage'[q] # "queued"
    BY <1>2
  <2>7. Entries(jobs') = {}
    BY <1>1, EmptyInOrder
  <2> QED BY <1>1, <2>4, <2>5, <2>6, <2>7, SMTT(30) DEF PlaceInv
<1>6. OrderInv'
  <2>1. InOrder(jobs', JobsBefore) /\ Entries(jobs') \subseteq Entries(jobs)
    BY <1>1, EmptyInOrder
  <2>2. \A p, q \in Invokes : Mates(p, q) =>
          /\ stage'[q] = "queued" => stage'[p] # "sent"
          /\ stage'[q] \in {"running", "over"} => stage'[p] \notin {"sent", "queued"}
    BY <1>2 DEF OrderInv
  <2> QED BY <1>1, <2>1, <2>2, OrderFrame
<1> QED BY <1>1, <1>3, <1>4, <1>5, <1>6

-----------------------------------------------------------------------------
(* The invariant. *)

LEMMA InitIInv == Init => IInv
<1> SUFFICES ASSUME Init PROVE IInv
  OBVIOUS
<1>1. /\ alive = {} /\ up = TRUE /\ queue = <<>> /\ store = {} /\ abandoned = {}
      /\ scripts = [w \in Views |-> <<>>]
  BY DEF Init, DispatchInit
<1>2. Shape
  BY <1>1, EmptySeq, Constants DEF Init, Shape, Stages
<1>3. Entries(<<>>) = {}
  BY EmptyInOrder
<1>4. UsedInv
  <2>1. \A r \in Invokes : 0 < r
    BY Constants
  <2> QED BY <1>1, <1>3, <2>1 DEF Init, UsedInv, Entry
<1>5. PlaceInv
  BY <1>3 DEF Init, PlaceInv
<1>6. OrderInv
  BY <1>3, EmptyInOrder DEF Init, OrderInv
<1> QED BY <1>2, <1>4, <1>5, <1>6 DEF IInv

LEMMA NextIInv == IInv /\ [Next]_vars => IInv'
<1> SUFFICES ASSUME IInv, [Next]_vars PROVE IInv'
  OBVIOUS
<1>1. CASE \E w \in Views :
              \/ Build(w) \/ Navigate(w) \/ CloseView(w) \/ BridgeAppears(w)
              \/ \E r \in Invokes : Invoke(w, r)
              \/ Flush(w) \/ EvalScript(w) \/ IpcArrives(w)
  BY <1>1, BuildStep, NavigateStep, CloseViewStep, BridgeAppearsStep, InvokeStep, FlushStep,
     EvalScriptStep, IpcArrivesStep
<1>2. CASE RunJob
  BY <1>2, SpawnTaskStep, RejectBodyStep, StartCommandStep, StartFailsStep DEF RunJob
<1>3. CASE \E r \in Invokes : EndCommand(r)
  BY <1>3, PanicStep, FinishStep DEF EndCommand
<1>4. CASE StopRunLoop
  BY <1>4, StopRunLoopStep
<1>5. CASE UNCHANGED vars
  <2>1. UNCHANGED <<alive, up, queue, scripts, store, abandoned, built, bound, page, bridge,
                    counter, ipcQueue, ipc, jobs, stage, home, id, waited, context, mute, settledBy>>
    BY <1>5 DEF vars, dispatch, pages, requests
  <2>2. Shape' /\ UsedInv' /\ PlaceInv'
    BY <2>1 DEF IInv, Shape, UsedInv, PlaceInv, Entry
  <2>3. OrderInv'
    BY <2>1, MatesFrame DEF IInv, OrderInv, Mates
  <2> QED BY <2>2, <2>3 DEF IInv
<1> QED BY <1>1, <1>2, <1>3, <1>4, <1>5 DEF Next

\* The inductive invariant holds in every reachable state.
THEOREM Inductive == Spec => []IInv
<1>1. Init => IInv
  BY InitIInv
<1>2. IInv /\ [Next]_vars => IInv'
  BY NextIInv
<1> QED BY <1>1, <1>2, PTL DEF Spec

LEMMA InvariantGivesStartOrder == IInv => CommandsStartInOrder
<1> SUFFICES ASSUME IInv, NEW q \in Invokes, NEW r \in Invokes,
                    q < r, home[q] = home[r], q \in waited <=> r \in waited,
                    stage[r] \in {"running", "over"}
             PROVE  stage[q] \in {"running", "over", "lost"}
  BY DEF CommandsStartInOrder
<1>1. Mates(q, r)
  BY DEF Mates
<1>2. stage[q] \notin {"sent", "queued"}
  BY <1>1 DEF IInv, OrderInv
<1>3. stage[q] # "unused"
  BY DEF IInv, UsedInv
<1>4. stage[q] \in Stages
  BY DEF IInv, Shape
<1> QED BY <1>2, <1>3, <1>4 DEF Stages

\* Commands of one page start in the order of its invokes, except that one that finds
\* window.ipc may get past those that waited for it.
THEOREM StartOrder == Spec => []CommandsStartInOrder
BY Inductive, InvariantGivesStartOrder, PTL

-----------------------------------------------------------------------------
(* Whose promise a response settles.                                       *)
(*                                                                         *)
(* A response is one script, on its way to a view that was built no        *)
(* earlier than the view it answers, and it has settled nothing yet.       *)

SameAnswer == {p \in Answers \X Answers : p[1].script[2] = p[2].script[2]}

AnswersInv ==
    /\ AnswersAreNotMixed
    /\ \A w \in Views : \A op \in Entries(scripts[w]) :
          /\ stage[op.script[2]] = "over"
          /\ home[op.script[2]][1] <= w
          /\ \A q \in Invokes : settledBy[q] # op.script[2]
    /\ \A w \in Views : InOrder(scripts[w], SameAnswer)
    /\ \A v, w \in Views : v # w =>
          \A a \in Entries(scripts[v]) : \A b \in Entries(scripts[w]) : a.script[2] # b.script[2]
    /\ \A v \in built : v <= bound
    /\ \A v \in built : \A w \in Views : w < v => w \in built

\* A command that has ended does not begin anew.
KeepsOver == \A r \in Invokes : stage[r] = "over" => stage'[r] = "over"

LEMMA BecomesKeepsOver ==
    ASSUME Shape, NEW rs, NEW label, Becomes(rs, label),
           \A r \in Invokes : r \in rs => stage[r] # "over"
    PROVE  KeepsOver
BY DEF Becomes, KeepsOver

LEMMA NextTaskIsQueued ==
    ASSUME IInv, NEW r \in Invokes, NextTask(r)
    PROVE  stage[r] = "queued"
<1>1. jobs \in Seq(Jobs) /\ jobs # <<>> /\ Head(jobs) = <<"task", r>>
  BY DEF IInv, Shape, NextTask
<1>2. <<"task", r>> \in Entries(jobs)
  BY <1>1, TailInOrder
<1> QED BY <1>2 DEF IInv, PlaceInv

\* Steps that make no promise and no response.
LEMMA AnswersFrame ==
    ASSUME AnswersInv, Shape, KeepsOver,
           UNCHANGED <<home, id, settledBy, built, bound>>,
           \A w \in Views : scripts'[w] = scripts[w] \/ scripts'[w] = <<>>
    PROVE  AnswersInv'
<1>1. AnswersAreNotMixed'
  <2>1. \A q, r \in Invokes : settledBy[q] = r => stage'[r] = "over"
    BY DEF AnswersInv, AnswersAreNotMixed, KeepsOver
  <2> QED BY <2>1 DEF AnswersInv, AnswersAreNotMixed
<1>2. \A w \in Views : Entries(scripts'[w]) \subseteq Entries(scripts[w])
  BY EmptyInOrder
<1>3. \A w \in Views : InOrder(scripts'[w], SameAnswer)
  BY EmptyInOrder DEF AnswersInv
<1>4. \A w \in Views : \A op \in Entries(scripts'[w]) :
         /\ stage'[op.script[2]] = "over"
         /\ home[op.script[2]][1] <= w
         /\ \A q \in Invokes : settledBy[q] # op.script[2]
  BY <1>2, ScriptsNameInvokes DEF AnswersInv, KeepsOver
<1>5. \A v, w \in Views : v # w =>
         \A a \in Entries(scripts'[v]) : \A b \in Entries(scripts'[w]) : a.script[2] # b.script[2]
  <2>1. ASSUME NEW v \in Views, NEW w \in Views, v # w,
               NEW a \in Entries(scripts'[v]), NEW b \in Entries(scripts'[w])
        PROVE  a.script[2] # b.script[2]
    <3>1. a \in Entries(scripts[v]) /\ b \in Entries(scripts[w])
      BY <1>2
    <3> QED BY <2>1, <3>1 DEF AnswersInv
  <2> QED BY <2>1
<1> QED BY <1>1, <1>3, <1>4, <1>5 DEF AnswersInv

LEMMA BuildAnswers ==
    ASSUME IInv, AnswersInv, NEW w \in Views, Build(w)
    PROVE  AnswersInv'
<1>1. /\ w \notin built /\ built' = built \union {w} /\ bound' = w
      /\ \A v \in Views : v < w => v \in built
      /\ UNCHANGED <<scripts, stage, home, id, settledBy>>
  BY DEF Build, requests
<1>2. built \subseteq Views /\ Views \subseteq Nat
  BY Constants DEF IInv, Shape
<1>3. \A v \in built : v <= w
  <2> SUFFICES ASSUME NEW v \in built, w < v PROVE FALSE
    BY <1>2
  <2> QED BY <1>1, <1>2 DEF AnswersInv
<1>4. \A v \in built' : v <= bound'
  BY <1>1, <1>2, <1>3
<1>5. \A v \in built' : \A u \in Views : u < v => u \in built'
  BY <1>1 DEF AnswersInv
<1>6. AnswersAreNotMixed'
  BY <1>1 DEF AnswersInv, AnswersAreNotMixed
<1> QED BY <1>1, <1>4, <1>5, <1>6 DEF AnswersInv

\* A new promise has not been settled and is no response.
LEMMA InvokeAnswers ==
    ASSUME IInv, AnswersInv, NEW w \in Views, NEW r \in Invokes, Invoke(w, r)
    PROVE  AnswersInv'
<1>1. /\ stage[r] = "unused"
      /\ home' = [home EXCEPT ![r] = Entry(w)]
      /\ id' = [id EXCEPT ![r] = counter[w]]
      /\ Becomes({r}, "sent")
      /\ UNCHANGED <<scripts, settledBy, built, bound>>
  BY DEF Invoke, dispatch
<1>2. \A q \in Invokes : q # r => home'[q] = home[q] /\ id'[q] = id[q]
  BY <1>1 DEF IInv, Shape
<1>3. \A q \in Invokes : q # r => stage'[q] = stage[q]
  BY <1>1 DEF Becomes
<1>4. \A q, p \in Invokes : settledBy[q] = p => q # r /\ p # r
  BY <1>1, Constants DEF IInv, UsedInv
<1>5. AnswersAreNotMixed'
  <2>1. \A q, p \in Invokes : settledBy[q] = p =>
           /\ stage'[p] = "over" /\ id'[q] = id'[p]
           /\ p # q => \/ home'[p][1] < home'[q][1]
                       \/ home'[p][1] = home'[q][1] /\ home'[p][2] < home'[q][2]
    <3> SUFFICES ASSUME NEW q \in Invokes, NEW p \in Invokes, settledBy[q] = p
                 PROVE  /\ stage'[p] = "over" /\ id'[q] = id'[p]
                        /\ p # q => \/ home'[p][1] < home'[q][1]
                                    \/ home'[p][1] = home'[q][1] /\ home'[p][2] < home'[q][2]
      OBVIOUS
    <3>1. q # r /\ p # r
      BY <1>4
    <3>2. /\ stage'[p] = stage[p] /\ id'[q] = id[q] /\ id'[p] = id[p]
          /\ home'[q] = home[q] /\ home'[p] = home[p]
      BY <1>2, <1>3, <3>1
    <3> QED BY <3>2 DEF AnswersInv, AnswersAreNotMixed
  <2>2. \A q, p, t \in Invokes : settledBy[q] = p /\ settledBy[t] = p => t = q
    BY DEF AnswersInv, AnswersAreNotMixed
  <2> QED BY <1>1, <2>1, <2>2 DEF AnswersAreNotMixed
<1>6. \A v \in Views : \A op \in Entries(scripts[v]) :
         /\ stage'[op.script[2]] = "over"
         /\ home'[op.script[2]][1] <= v
  <2> SUFFICES ASSUME NEW v \in Views, NEW op \in Entries(scripts[v])
               PROVE  stage'[op.script[2]] = "over" /\ home'[op.script[2]][1] <= v
    OBVIOUS
  <2>1. /\ op.script[2] \in Invokes /\ stage[op.script[2]] = "over"
        /\ home[op.script[2]][1] <= v
    BY ScriptsNameInvokes DEF IInv, AnswersInv
  <2>2. op.script[2] # r
    BY <1>1, <2>1
  <2> QED BY <1>2, <1>3, <2>1, <2>2
<1> QED BY <1>1, <1>5, <1>6 DEF AnswersInv

\* A response settles the promise with its id in the page it reaches, if that is pending.
LEMMA EvalScriptAnswers ==
    ASSUME IInv, AnswersInv, NEW w \in Views, EvalScript(w)
    PROVE  AnswersInv'
<1> DEFINE r == Head(scripts[w]).script[2]
           target == {q \in Invokes : home[q] = Entry(w) /\ id[q] = id[r] /\ settledBy[q] = 0}
<1>1. /\ scripts[w] # <<>>
      /\ scripts' = [scripts EXCEPT ![w] = Tail(@)]
      /\ settledBy' = [q \in Invokes |-> IF q \in target THEN r ELSE settledBy[q]]
      /\ UNCHANGED <<built, bound, page, stage, home, id>>
  BY DEF EvalScript, pages, requests
<1>2. scripts \in [Views -> Seq(Answers)] /\ scripts[w] \in Seq(Answers)
  BY DEF IInv, Shape
<1>3. /\ Head(scripts[w]) \in Answers /\ Tail(scripts[w]) \in Seq(Answers)
      /\ Entries(scripts[w]) = {Head(scripts[w])} \union Entries(Tail(scripts[w]))
      /\ InOrder(Tail(scripts[w]), SameAnswer)
      /\ \A a \in Entries(Tail(scripts[w])) : <<a, Head(scripts[w])>> \notin SameAnswer
  BY <1>1, <1>2, TailInOrder DEF AnswersInv
<1>4. /\ r \in Invokes /\ stage[r] = "over" /\ home[r][1] <= w
      /\ \A q \in Invokes : settledBy[q] # r
  BY <1>3, ScriptsNameInvokes DEF IInv, AnswersInv
<1>5. \A a \in Entries(Tail(scripts[w])) : a \in Answers /\ a.script[2] # r
  <2> SUFFICES ASSUME NEW a \in Entries(Tail(scripts[w])) PROVE a \in Answers /\ a.script[2] # r
    OBVIOUS
  <2>1. a \in Answers
    BY <1>3, ScriptsNameInvokes DEF IInv
  <2>2. <<a, Head(scripts[w])>> \in Answers \X Answers
    BY <1>3, <2>1
  <2> QED BY <1>3, <2>1, <2>2 DEF SameAnswer
<1>6. /\ target \subseteq Invokes
      /\ \A q \in target : home[q] = Entry(w) /\ id[q] = id[r] /\ stage[q] # "unused"
  <2>1. \A q \in Invokes : home[q] = Entry(w) => stage[q] # "unused"
    BY Constants DEF IInv, UsedInv, Entry
  <2> QED BY <2>1
<1> HIDE DEF r, target
<1>7. /\ \A q \in target : settledBy'[q] = r
      /\ \A q \in Invokes : q \notin target => settledBy'[q] = settledBy[q]
  BY <1>1, <1>6
<1>8. /\ scripts'[w] = Tail(scripts[w])
      /\ \A v \in Views : v # w => scripts'[v] = scripts[v]
      /\ \A v \in Views : Entries(scripts'[v]) \subseteq Entries(scripts[v])
  BY <1>1, <1>2, <1>3
<1>9. \A q \in target : q # r =>
         home[r][1] < home[q][1] \/ (home[r][1] = home[q][1] /\ home[r][2] < home[q][2])
  <2> SUFFICES ASSUME NEW q \in target, q # r, ~(home[r][1] < home[q][1])
               PROVE  home[r][1] = home[q][1] /\ home[r][2] < home[q][2]
    OBVIOUS
  <2>1. home[q] = Entry(w) /\ id[q] = id[r] /\ stage[q] # "unused" /\ q \in Invokes
    BY <1>6
  <2>2. home[q][1] = w /\ home[q][2] = page[w]
    BY <2>1 DEF Entry
  <2>3. /\ home[r] = <<home[r][1], home[r][2]>> /\ home[r][1] \in Nat /\ home[r][2] \in Nat
        /\ w \in Nat /\ page[w] \in Nat
    <3>1. home[r] \in (Views \union {NoView}) \X (0 .. MaxPages) /\ page[w] \in 1 .. MaxPages
      BY <1>4 DEF IInv, Shape
    <3>2. Views \union {NoView} \subseteq Nat /\ 0 .. MaxPages \subseteq Nat
      BY Constants DEF NoView
    <3> QED BY <3>1, <3>2, Constants
  <2>4. home[r][1] = w
    BY <1>4, <2>2, <2>3
  <2>5. home[r][2] <= page[w]
    BY <1>4, <2>4 DEF IInv, UsedInv
  <2>6. home[r] # home[q]
    BY <1>4, <2>1 DEF IInv, UsedInv
  <2>7. home[r][2] # page[w]
    BY <2>1, <2>3, <2>4, <2>6 DEF Entry
  <2> QED BY <2>2, <2>3, <2>4, <2>5, <2>7
<1>10. \A q, p \in target : q = p
  BY <1>6 DEF IInv, UsedInv
<1>11. AnswersAreNotMixed'
  <2> SUFFICES ASSUME NEW q \in Invokes, NEW p \in Invokes, settledBy'[q] = p
               PROVE  /\ stage[p] = "over" /\ id[q] = id[p]
                      /\ \A t \in Invokes : settledBy'[t] = p => t = q
                      /\ p # q => \/ home[p][1] < home[q][1]
                                  \/ home[p][1] = home[q][1] /\ home[p][2] < home[q][2]
    BY <1>1 DEF AnswersAreNotMixed
  <2>1. ASSUME q \in target
        PROVE  /\ stage[p] = "over" /\ id[q] = id[p]
               /\ \A t \in Invokes : settledBy'[t] = p => t = q
               /\ p # q => \/ home[p][1] < home[q][1]
                           \/ home[p][1] = home[q][1] /\ home[p][2] < home[q][2]
    <3>1. p = r
      BY <1>7, <2>1
    <3>2. \A t \in Invokes : settledBy'[t] = p => t = q
      BY <1>4, <1>7, <1>10, <2>1, <3>1
    <3> QED BY <1>4, <1>6, <1>9, <2>1, <3>1, <3>2
  <2>2. ASSUME q \notin target
        PROVE  /\ stage[p] = "over" /\ id[q] = id[p]
               /\ \A t \in Invokes : settledBy'[t] = p => t = q
               /\ p # q => \/ home[p][1] < home[q][1]
                           \/ home[p][1] = home[q][1] /\ home[p][2] < home[q][2]
    <3>1. settledBy[q] = p
      BY <1>7, <2>2
    <3>2. p # r
      BY <1>4, <3>1
    <3>3. \A t \in Invokes : settledBy'[t] = p => settledBy[t] = p
      BY <1>7, <3>2
    <3> QED BY <3>1, <3>3 DEF AnswersInv, AnswersAreNotMixed
  <2> QED BY <2>1, <2>2
<1>12. \A v \in Views : \A a \in Entries(scripts'[v]) : a.script[2] # r
  <2> SUFFICES ASSUME NEW v \in Views, NEW a \in Entries(scripts'[v]) PROVE a.script[2] # r
    OBVIOUS
  <2>1. CASE v = w
    BY <1>5, <1>8, <2>1
  <2>2. CASE v # w
    BY <1>3, <1>8, <2>2 DEF AnswersInv, r
  <2> QED BY <2>1, <2>2
<1>13. \A v \in Views : \A a \in Entries(scripts'[v]) :
          /\ stage[a.script[2]] = "over"
          /\ home[a.script[2]][1] <= v
          /\ \A q \in Invokes : settledBy'[q] # a.script[2]
  BY <1>7, <1>8, <1>12 DEF AnswersInv
<1>14. \A v \in Views : InOrder(scripts'[v], SameAnswer)
  BY <1>3, <1>8 DEF AnswersInv
<1>15. \A u, v \in Views : u # v =>
          \A a \in Entries(scripts'[u]) : \A b \in Entries(scripts'[v]) : a.script[2] # b.script[2]
  BY <1>8 DEF AnswersInv
<1> QED BY <1>1, <1>11, <1>13, <1>14, <1>15 DEF AnswersInv

\* The response of a command that ends is new.
LEMMA RespondAnswers ==
    ASSUME IInv, AnswersInv, NEW r \in Invokes, stage[r] \in {"queued", "running"},
           NEW fails, Respond(r, fails), UNCHANGED <<built, bound, home, id, settledBy>>
    PROVE  AnswersInv'
<1> DEFINE op == Settle(r)
<1>1. op.view = bound /\ op.script = <<"settle", r>> /\ op.data = {}
  BY DEF Settle, Op
<1>2. bound \in alive => bound \in Views /\ op \in Answers
  <2>1. bound \in alive => bound \in Views
    BY DEF IInv, Shape
  <2>2. <<"settle", r>> \in {"settle"} \X Invokes /\ {} \in SUBSET {}
    OBVIOUS
  <2> QED BY <2>1, <2>2 DEF Settle, Op, Answers
<1> HIDE DEF op
<1>3. KeepsOver /\ stage'[r] = "over"
  BY DEF Respond, Becomes, KeepsOver
<1>4. scripts \in [Views -> Seq(Answers)]
  BY DEF IInv, Shape
<1>5. \/ bound \in alive /\ scripts' = [scripts EXCEPT ![bound] = Append(@, op)]
      \/ UNCHANGED scripts
  BY <1>1 DEF Respond, PostInline, Refuse, Run, op
<1>6. ASSUME UNCHANGED scripts PROVE AnswersInv'
  BY <1>3, <1>6, AnswersFrame DEF IInv
<1>7. ASSUME bound \in alive, scripts' = [scripts EXCEPT ![bound] = Append(@, op)]
      PROVE  AnswersInv'
  <2>1. \A v \in Views : \A a \in Entries(scripts[v]) :
           a \in Answers /\ a.script[2] \in Invokes /\ a.script[2] # r
    BY ScriptsNameInvokes DEF IInv, AnswersInv
  <2>2. \A q \in Invokes : settledBy[q] # r
    BY DEF AnswersInv, AnswersAreNotMixed
  <2>3. home[r][1] \in built /\ home[r][1] <= bound
    BY DEF IInv, UsedInv, AnswersInv
  <2>4. /\ Entries(Append(scripts[bound], op)) = Entries(scripts[bound]) \union {op}
        /\ InOrder(Append(scripts[bound], op), SameAnswer)
    <3>1. scripts[bound] \in Seq(Answers) /\ op \in Answers
      BY <1>2, <1>4, <1>7
    <3>2. \A a \in Entries(scripts[bound]) : <<op, a>> \notin SameAnswer
      <4>1. \A a \in Entries(scripts[bound]) : a.script[2] # op.script[2]
        BY <1>1, <1>2, <1>7, <2>1
      <4> QED BY <4>1 DEF SameAnswer
    <3>3. InOrder(scripts[bound], SameAnswer)
      BY <1>2, <1>7 DEF AnswersInv
    <3> DEFINE s == scripts[bound]
    <3>4. /\ s \in Seq(Answers) /\ op \in Answers /\ InOrder(s, SameAnswer)
          /\ \A a \in Entries(s) : <<op, a>> \notin SameAnswer
      BY <3>1, <3>2, <3>3
    <3> HIDE DEF s
    <3>5. Entries(Append(s, op)) = Entries(s) \union {op} /\ InOrder(Append(s, op), SameAnswer)
      BY <3>4, AppendInOrder
    <3> QED BY <3>5 DEF s
  <2>5. /\ scripts'[bound] = Append(scripts[bound], op)
        /\ \A v \in Views : v # bound => scripts'[v] = scripts[v]
    BY <1>2, <1>4, <1>7
  <2>6. \A v \in Views : \A a \in Entries(scripts'[v]) :
           a \in Entries(scripts[v]) \/ (v = bound /\ a.script[2] = r)
    <3>1. op.script[2] = r
      BY <1>1
    <3>2. \A v \in Views : v # bound => Entries(scripts'[v]) = Entries(scripts[v])
      BY <2>5
    <3>3. Entries(scripts'[bound]) = Entries(scripts[bound]) \union {op}
      BY <2>4, <2>5
    <3> QED BY <3>1, <3>2, <3>3
  <2>7. AnswersAreNotMixed'
    <3>1. \A q, p \in Invokes : settledBy[q] = p => stage'[p] = "over"
      BY <1>3 DEF AnswersInv, AnswersAreNotMixed, KeepsOver
    <3> QED BY <3>1 DEF AnswersInv, AnswersAreNotMixed
  <2>8. ASSUME NEW v \in Views, NEW a \in Entries(scripts'[v])
        PROVE  /\ stage'[a.script[2]] = "over"
               /\ home[a.script[2]][1] <= v
               /\ \A q \in Invokes : settledBy[q] # a.script[2]
    <3>1. CASE a \in Entries(scripts[v])
      BY <1>3, <2>1, <3>1 DEF AnswersInv, KeepsOver
    <3>2. CASE v = bound /\ a.script[2] = r
      BY <1>3, <2>2, <2>3, <3>2
    <3> QED BY <2>6, <3>1, <3>2
  <2>9. \A v \in Views : InOrder(scripts'[v], SameAnswer)
    BY <2>4, <2>5 DEF AnswersInv
  <2>10. ASSUME NEW u \in Views, NEW v \in Views, u # v,
                NEW a \in Entries(scripts'[u]), NEW b \in Entries(scripts'[v])
         PROVE  a.script[2] # b.script[2]
    <3>1. a \in Entries(scripts[u]) /\ b \in Entries(scripts[v]) => a.script[2] # b.script[2]
      BY <2>10 DEF AnswersInv
    <3> QED BY <2>1, <2>6, <2>10, <3>1
  <2> QED BY <2>7, <2>8, <2>9, <2>10 DEF AnswersInv
<1> QED BY <1>5, <1>6, <1>7

LEMMA InitAnswers == Init => AnswersInv
<1> SUFFICES ASSUME Init PROVE AnswersInv
  OBVIOUS
<1>1. \A w \in Views : scripts[w] = <<>>
  BY DEF Init, DispatchInit
<1>2. \A w \in Views : Entries(scripts[w]) = {} /\ InOrder(scripts[w], SameAnswer)
  BY <1>1, EmptyInOrder
<1>3. AnswersAreNotMixed
  BY Constants DEF Init, AnswersAreNotMixed
<1> QED BY <1>2, <1>3 DEF Init, AnswersInv

\* What ends a wait for a command, or a command, concerns none that had ended.
LEMMA PagesAnswers ==
    ASSUME IInv, AnswersInv, NEW w \in Views,
           \/ Navigate(w) \/ CloseView(w) \/ BridgeAppears(w) \/ Flush(w) \/ IpcArrives(w)
    PROVE  AnswersInv'
<1> USE DEF IInv
<1>1. UNCHANGED <<home, id, settledBy, built, bound>>
  BY DEF Navigate, CloseView, BridgeAppears, Flush, IpcArrives, requests
<1>2. \A v \in Views : scripts'[v] = scripts[v] \/ scripts'[v] = <<>>
  <2>1. scripts' = scripts \/ scripts' = [scripts EXCEPT ![w] = <<>>]
    BY DEF Navigate, CloseView, BridgeAppears, Flush, IpcArrives, dispatch, DropOwner
  <2> QED BY <2>1 DEF Shape
<1>3. KeepsOver
  <2>1. \A r \in Entries(ipcQueue[w]) \union Entries(ipc[w]) : stage[r] # "over"
    BY DEF PlaceInv
  <2>2. ASSUME Navigate(w) PROVE KeepsOver
    <3>1. Becomes(Entries(ipcQueue[w]), "lost")
      BY <2>2 DEF Navigate
    <3> QED BY <2>1, <3>1, BecomesKeepsOver
  <2>3. ASSUME CloseView(w) PROVE KeepsOver
    <3>1. Becomes(Entries(ipcQueue[w]) \union Entries(ipc[w]), "lost")
      BY <2>3 DEF CloseView
    <3> QED BY <2>1, <3>1, BecomesKeepsOver
  <2>4. ASSUME BridgeAppears(w) \/ Flush(w) PROVE KeepsOver
    BY <2>4 DEF BridgeAppears, Flush, requests, KeepsOver
  <2>5. ASSUME IpcArrives(w) PROVE KeepsOver
    <3>1. ipc[w] \in Seq(Invokes) /\ ipc[w] # <<>>
      BY <2>5 DEF IpcArrives, Shape
    <3> DEFINE s == ipc[w]
    <3>2. s \in Seq(Invokes) /\ s # <<>>
      BY <3>1
    <3> HIDE DEF s
    <3>3. Head(s) \in Entries(s)
      <4>1. Head(s) = s[1] /\ 1 \in DOMAIN s
        BY <3>2
      <4> QED BY <4>1 DEF Entries
    <3>4. Head(ipc[w]) \in Entries(ipc[w])
      BY <3>3 DEF s
    <3>5. Becomes({Head(ipc[w])}, "queued") \/ Becomes({Head(ipc[w])}, "lost")
      BY <2>5 DEF IpcArrives
    <3> QED BY <2>1, <3>4, <3>5, BecomesKeepsOver
  <2> QED BY <2>2, <2>3, <2>4, <2>5
<1> QED BY <1>1, <1>2, <1>3, AnswersFrame

LEMMA CommandsAnswers ==
    ASSUME IInv, AnswersInv,
           RunJob \/ (\E r \in Invokes : EndCommand(r)) \/ StopRunLoop
    PROVE  AnswersInv'
<1> USE DEF IInv
<1>1. ASSUME SpawnTask PROVE AnswersInv'
  <2>1. UNCHANGED <<home, id, settledBy, built, bound, scripts, stage>>
    BY <1>1 DEF SpawnTask, dispatch, requests
  <2> QED BY <2>1, AnswersFrame DEF KeepsOver
<1>2. ASSUME NEW r \in Invokes, RejectBody(r) \/ StartCommand(r) PROVE AnswersInv'
  <2>1. /\ UNCHANGED <<home, id, settledBy, built, bound, scripts>>
        /\ NextTask(r)
        /\ Becomes({r}, "over") \/ Becomes({r}, "running")
    BY <1>2 DEF RejectBody, StartCommand, dispatch
  <2>2. KeepsOver
    BY <2>1, NextTaskIsQueued, BecomesKeepsOver
  <2> QED BY <2>1, <2>2, AnswersFrame
<1>3. ASSUME NEW r \in Invokes, NEW fails \in EvalFails, StartFails(r, fails) PROVE AnswersInv'
  BY <1>3, NextTaskIsQueued, RespondAnswers DEF StartFails
<1>4. ASSUME NEW r \in Invokes, Panic(r) PROVE AnswersInv'
  <2>1. /\ UNCHANGED <<home, id, settledBy, built, bound, scripts>>
        /\ Becomes({r}, "over") /\ stage[r] = "running"
    BY <1>4 DEF Panic, dispatch
  <2> QED BY <2>1, BecomesKeepsOver, AnswersFrame
<1>5. ASSUME NEW r \in Invokes, NEW fails \in EvalFails, Finish(r, fails) PROVE AnswersInv'
  BY <1>5, RespondAnswers DEF Finish
<1>6. ASSUME StopRunLoop PROVE AnswersInv'
  <2>1. /\ UNCHANGED <<home, id, settledBy, built, bound, scripts>>
        /\ Becomes({r \in Invokes : stage[r] \in {"queued", "running"}}, "lost")
    BY <1>6 DEF StopRunLoop, StopLoop
  <2>2. KeepsOver
    BY <2>1 DEF Becomes, KeepsOver
  <2> QED BY <2>1, <2>2, AnswersFrame
<1> QED BY <1>1, <1>2, <1>3, <1>4, <1>5, <1>6 DEF RunJob, EndCommand

LEMMA NextAnswers == IInv /\ AnswersInv /\ [Next]_vars => AnswersInv'
<1> SUFFICES ASSUME IInv, AnswersInv, [Next]_vars PROVE AnswersInv'
  OBVIOUS
<1>1. ASSUME UNCHANGED vars PROVE AnswersInv'
  <2>1. UNCHANGED <<home, id, settledBy, built, bound, scripts, stage>>
    BY <1>1 DEF vars, dispatch, requests
  <2> QED BY <2>1, AnswersFrame DEF IInv, KeepsOver
<1> QED BY <1>1, BuildAnswers, InvokeAnswers, EvalScriptAnswers, PagesAnswers, CommandsAnswers
        DEF Next

LEMMA InvariantGivesCommandInv == IInv /\ AnswersInv => CommandInv
<1> SUFFICES ASSUME IInv, AnswersInv PROVE CommandInv
  OBVIOUS
<1> USE DEF IInv
<1>1. DispatchTypeOK({"settle"} \X Invokes, {})
  <2>1. scripts \in [Views -> Seq(Answers)] /\ alive \subseteq Views
    BY DEF Shape
  <2>2. /\ up \in BOOLEAN /\ queue = <<>> /\ store = {} /\ abandoned = {}
    BY DEF Shape
  <2>3. <<>> \in Seq(Answers)
    BY EmptySeq
  <2> QED BY <2>1, <2>2, <2>3 DEF DispatchTypeOK, Answers
<1>2. \A j \in Entries(jobs) : stage[j[2]] = "queued"
  BY EntriesTyped DEF PlaceInv
<1>3. \A r \in Invokes, w \in alive : home[r] = Entry(w) => id[r] < counter[w]
  BY DEF UsedInv
<1> QED BY <1>1, <1>2, <1>3 DEF CommandInv, TypeOK, Shape, Jobs, Stages, AnswersInv

\* A response settles one promise at most, after its command has ended, and one with its own
\* callback id: that of its invoke or, if it comes late, one of a later page or of a view that
\* was built later and took the handler over; never that of another invoke of its page
\* (initialization.rs numbers the callbacks of a page from 0 and never twice; handler.rs sends
\* each result once, to the view that the handler holds by then).
THEOREM ResponsesGoAstrayOnlyForward == Spec => []CommandInv
<1>1. Init => IInv /\ AnswersInv
  BY InitIInv, InitAnswers
<1>2. IInv /\ AnswersInv /\ [Next]_vars => (IInv /\ AnswersInv)'
  BY NextIInv, NextAnswers
<1>3. IInv /\ AnswersInv => CommandInv
  BY InvariantGivesCommandInv
<1> QED BY <1>1, <1>2, <1>3, PTL DEF Spec
=============================================================================
