----------------------------- MODULE TimersProofs -----------------------------
(***************************************************************************)
(* The safety properties of Timers and RepeatingTimer, proved for every    *)
(* set of timers, ticks and delays, every interval, all four backends and  *)
(* every number of posted callbacks.                                       *)
(*                                                                         *)
(* The induction (IInv) says where the tick of a repeating timer can be:   *)
(* in the map it is the one of the current handle, and a running timer has *)
(* one there, in a drain of Darwin's, or on the stack.  The native timer   *)
(* is early enough in every state and not only back in the host's loop,    *)
(* but for Darwin while it has callbacks or a drain still to run.          *)
(***************************************************************************)
EXTENDS RepeatingTimer, FiniteSetTheorems, SequenceTheorems, WellFoundedInduction, TLAPS

Activations ==
    [kind : {"drain"}, cbs : 0 .. MaxPosts, ts : SUBSET Timers, timed : BOOLEAN]
    \union [kind : {"user"}, of : {{}} \union {{t} : t \in Timers}]
    \union [kind : {"block"}, on : Timers]

Shape ==
    /\ backend \in Backends
    /\ left \in [Timers -> 0 .. Never]
    /\ native \in 0 .. Never
    /\ posted \in 0 .. MaxPosts
    /\ posts \in 0 .. posted
    /\ stack \in Seq(Activations)
    /\ life \in [Timers -> {"unused", "pending", "cancelled", "fired"}]
    /\ held \subseteq Timers
    /\ exists \in BOOLEAN
    /\ isRunning \in BOOLEAN
    /\ current \subseteq Ticks
    /\ executing \subseteq Ticks

\* block_on is not nested.
OneBlock(s) ==
    \A i, j \in DOMAIN s : s[i].kind = "block" /\ s[j].kind = "block" => i = j

\* Darwin's drains all look at the timers.
DrainsTimers ==
    backend = "darwin" => \A f \in Range(stack) : f.kind = "drain" => f.timed

PendingInMap == \A t \in Timers : left[t] # Never => life[t] = "pending"

\* The timer expires by the time the first of `timers` is due, unless Darwin's source does.
EarlyEnough(expiry, timers, callbacks) ==
    backend \in {"darwin", "win32"} =>
        (\A t \in Timers : expiry <= timers[t]) \/ (backend = "darwin" /\ callbacks > 0)

Armed ==
    \/ EarlyEnough(native, left, posts)
    \/ backend = "darwin" /\ \E f \in Range(stack) : f.kind = "drain"

\* Where the next tick of a running timer can be.
InMap == \E t \in current : left[t] # Never
Taken == backend = "darwin" /\ \E f \in Range(stack) : f.kind = "drain" /\ f.ts \intersect Ticks # {}
Entered == \E f \in Range(stack) : f.kind = "user" /\ f.of \intersect Ticks # {}

TickInv ==
    /\ \A t, u \in current : t = u
    /\ \A t \in Ticks : left[t] # Never => t \in current
    /\ isRunning => exists
    /\ isRunning => InMap \/ Taken \/ Entered
    /\ DroppedTimerIsGone

IInv == Shape /\ OneBlock(stack) /\ DrainsTimers /\ PendingInMap /\ Armed /\ TickInv

-----------------------------------------------------------------------------
(* Numbers. *)

\* Strict inclusion is well-founded on finite sets: a set of naturals that is not empty has a
\* least element, which ends the smallest of the intervals from 0 ...
LEMMA LeastElement ==
    ASSUME NEW S \in SUBSET Nat, S # {}
    PROVE  \E m \in S : \A n \in S : m <= n
<1> DEFINE T == {0 .. n : n \in S}
<1>1. T # {}
  OBVIOUS
<1>2. T \subseteq FiniteSubsetsOf(Nat)
  <2>1. ASSUME NEW n \in S PROVE 0 .. n \in SUBSET Nat /\ IsFiniteSet(0 .. n)
    <3>1. n \in Int /\ 0 \in Int
      OBVIOUS
    <3> QED BY <3>1, FS_Interval
  <2> QED BY <2>1 DEF FiniteSubsetsOf
<1>3. IsWellFoundedOn(StrictSubsetOrdering(Nat), FiniteSubsetsOf(Nat))
  BY FS_StrictSubsetOrderingWellFounded
<1>4. \E x \in T : \A y \in T : ~ (<<y, x>> \in StrictSubsetOrdering(Nat))
  <2> HIDE DEF T
  <2> QED BY <1>1, <1>2, <1>3, WFMin
<1>5. PICK m \in S : \A n \in S : ~ (<<0 .. n, 0 .. m>> \in StrictSubsetOrdering(Nat))
  BY <1>4
<1>6. ASSUME NEW n \in S, n < m PROVE FALSE
  <2>1. n \in Nat /\ m \in Nat
    BY <1>5
  <2>2. 0 .. n \subseteq 0 .. m /\ m \in 0 .. m /\ m \notin 0 .. n
    BY <2>1, <1>6
  <2>3. <<0 .. n, 0 .. m>> \in StrictSubsetOrdering(Nat)
    BY <2>1, <2>2 DEF StrictSubsetOrdering
  <2> QED BY <1>5, <2>3
<1> QED BY <1>5, <1>6

\* ... and if it is finite a greatest one, with the fewest elements above it.
LEMMA GreatestElement ==
    ASSUME NEW S \in SUBSET Nat, S # {}, IsFiniteSet(S)
    PROVE  \E m \in S : \A n \in S : m >= n
<1> DEFINE Above(n) == {k \in S : k > n}
           T == {Above(n) : n \in S}
<1>1. T # {}
  OBVIOUS
<1>2. T \subseteq FiniteSubsetsOf(S)
  <2>1. ASSUME NEW n \in S PROVE Above(n) \in SUBSET S /\ IsFiniteSet(Above(n))
    <3>1. Above(n) \in SUBSET S
      OBVIOUS
    <3> QED BY <3>1, FS_Subset
  <2> QED BY <2>1 DEF FiniteSubsetsOf
<1>3. IsWellFoundedOn(StrictSubsetOrdering(S), FiniteSubsetsOf(S))
  BY FS_StrictSubsetOrderingWellFounded
<1>4. \E x \in T : \A y \in T : ~ (<<y, x>> \in StrictSubsetOrdering(S))
  <2> HIDE DEF T
  <2> QED BY <1>1, <1>2, <1>3, WFMin
<1>5. PICK m \in S : \A n \in S : ~ (<<Above(n), Above(m)>> \in StrictSubsetOrdering(S))
  BY <1>4
<1>6. ASSUME NEW n \in S, ~(m >= n) PROVE FALSE
  <2>1. n \in Nat /\ m \in Nat
    BY <1>5
  <2>2. \A k \in S : k > n => k > m
    BY <2>1, <1>6
  <2>3. n > m /\ ~(n > n)
    BY <2>1, <1>6
  <2>4. Above(n) \subseteq Above(m) /\ n \in Above(m) /\ n \notin Above(n)
    BY <2>2, <2>3
  <2>5. Above(n) \in SUBSET S /\ Above(m) \in SUBSET S
    OBVIOUS
  <2> HIDE DEF Above
  <2>6. <<Above(n), Above(m)>> \in StrictSubsetOrdering(S)
    BY <2>4, <2>5 DEF StrictSubsetOrdering
  <2> QED BY <1>5, <2>6
<1> QED BY <1>5, <1>6

\* Never comes after every delay.
LEMMA NeverIsLate ==
    /\ Never \in Nat /\ Never > 0
    /\ \A d \in Delays : d \in 0 .. Never /\ d # Never
<1> DEFINE S == Delays \union {0}
<1>1. S \in SUBSET Nat /\ S # {} /\ IsFiniteSet(S)
  BY TimersAssumption, FS_AddElement
<1>2. \E m \in S : \A n \in S : m >= n
  BY <1>1, GreatestElement
<1>3. Max(S) \in S /\ \A n \in S : Max(S) >= n
  BY <1>2, Zenon DEF Max
<1>4. Never = Max(S) + 1
  BY DEF Never
<1>5. Max(S) \in Nat
  BY <1>1, <1>3
<1>6. \A d \in Delays : d \in Nat /\ d \in S
  BY TimersAssumption
<1> HIDE DEF S
<1> QED BY <1>3, <1>4, <1>5, <1>6

LEMMA EarliestIsLeast ==
    ASSUME NEW timers \in [Timers -> 0 .. Never]
    PROVE  /\ Earliest(timers) \in 0 .. Never
           /\ \A t \in Timers : Earliest(timers) <= timers[t]
           /\ Earliest(timers) \in {timers[t] : t \in Timers} \union {Never}
<1> DEFINE S == {timers[t] : t \in Timers} \union {Never}
<1>1. Never \in Nat
  BY NeverIsLate
<1>2. S \in SUBSET Nat /\ S # {} /\ S \subseteq 0 .. Never
  BY <1>1
<1>3. \E m \in S : \A n \in S : m <= n
  BY <1>2, LeastElement
<1>4. Min(S) \in S /\ \A n \in S : Min(S) <= n
  BY <1>3, Zenon DEF Min
<1>5. Earliest(timers) = Min(S)
  BY DEF Earliest
<1>6. \A t \in Timers : timers[t] \in S
  OBVIOUS
<1>7. Earliest(timers) \in S
  BY <1>4, <1>5
<1>8. Earliest(timers) \in 0 .. Never /\ \A t \in Timers : Earliest(timers) <= timers[t]
  <2> HIDE DEF S
  <2> QED BY <1>2, <1>4, <1>5, <1>6
<1> QED BY <1>7, <1>8

\* Arming the native timer anew makes it early enough.
LEMMA RearmEffect ==
    ASSUME Shape, NEW timers \in [Timers -> 0 .. Never], NEW callbacks \in Nat
    PROVE  /\ Rearm(timers, callbacks) \in 0 .. Never
           /\ EarlyEnough(Rearm(timers, callbacks), timers, callbacks)
<1>1. /\ Earliest(timers) \in 0 .. Never
      /\ \A t \in Timers : Earliest(timers) <= timers[t]
  BY EarliestIsLeast
<1>2. Never \in 0 .. Never
  BY NeverIsLate
<1>3. CASE backend = "darwin"
  <2>1. Rearm(timers, callbacks) = IF callbacks > 0 THEN Never ELSE Earliest(timers)
    BY <1>3 DEF Rearm
  <2> QED BY <1>1, <1>2, <1>3, <2>1 DEF EarlyEnough
<1>4. CASE backend = "win32"
  <2>1. Rearm(timers, callbacks) = Earliest(timers)
    BY <1>4 DEF Rearm
  <2> QED BY <1>1, <2>1 DEF EarlyEnough
<1>5. CASE backend = "android"
  <2>1. Rearm(timers, callbacks) = IF Earliest(timers) = 0 THEN Never ELSE Earliest(timers)
    BY <1>5 DEF Rearm
  <2> QED BY <1>1, <1>2, <1>5, <2>1 DEF EarlyEnough
<1>6. CASE backend = "linux"
  <2>1. Rearm(timers, callbacks) = Never
    BY <1>6 DEF Rearm
  <2> QED BY <1>2, <1>6, <2>1 DEF EarlyEnough
<1> QED BY <1>3, <1>4, <1>5, <1>6, TimersAssumption DEF Shape

-----------------------------------------------------------------------------
(* The stack. *)

LEMMA Kinds ==
    ASSUME NEW f \in Activations
    PROVE  /\ f.kind \in {"drain", "user", "block"}
           /\ f.kind = "drain" => /\ f.cbs \in 0 .. MaxPosts /\ f.ts \subseteq Timers
                                  /\ f.timed \in BOOLEAN
           /\ f.kind = "user" => f.of = {} \/ \E t \in Timers : f.of = {t}
           /\ f.kind = "block" => f.on \in Timers
BY DEF Activations

LEMMA FrameKinds ==
    /\ \A n \in 0 .. MaxPosts, ts \in SUBSET Timers, timed \in BOOLEAN :
          /\ Drain(n, ts, timed) \in Activations /\ Drain(n, ts, timed).kind = "drain"
          /\ Drain(n, ts, timed).ts = ts /\ Drain(n, ts, timed).timed = timed
    /\ \A t \in Timers : User(t) \in Activations /\ User(t).kind = "user" /\ User(t).of = {t}
    /\ PostedUser \in Activations /\ PostedUser.kind = "user"
    /\ \A t \in Timers : Block(t) \in Activations /\ Block(t).kind = "block"
BY DEF Activations, Drain, User, PostedUser, Block

\* What one more activation on top adds to the stack.
LEMMA RangeOfCons ==
    ASSUME NEW f \in Activations, NEW s \in Seq(Activations)
    PROVE  Range(<<f>> \o s) = {f} \union Range(s)
<1>1. <<f>> \in Seq(Activations) /\ DOMAIN <<f>> = {1} /\ <<f>>[1] = f
  OBVIOUS
<1>2. Range(<<f>>) = {f}
  BY <1>1 DEF Range
<1>3. Range(<<f>> \o s) = Range(<<f>>) \union Range(s)
  BY <1>1, RangeConcatenation, ZenonT(40)
<1> QED BY <1>2, <1>3

LEMMA Pushed ==
    ASSUME NEW s \in Seq(Activations), NEW f \in Activations, OneBlock(s),
           f.kind = "block" => \A g \in Range(s) : g.kind # "block"
    PROVE  /\ <<f>> \o s \in Seq(Activations) /\ OneBlock(<<f>> \o s)
           /\ Range(<<f>> \o s) = {f} \union Range(s)
           /\ <<f>> \o s # <<>>
<1> PICK r : r = <<f>> \o s
  OBVIOUS
<1>1. /\ <<f>> \in Seq(Activations) /\ r \in Seq(Activations) /\ r # <<>>
      /\ Len(s) \in Nat /\ DOMAIN s = 1 .. Len(s) /\ DOMAIN r = 1 .. Len(s) + 1
      /\ r[1] = f /\ \A i \in 1 .. Len(s) : r[i + 1] = s[i]
  OBVIOUS
<1>2. Range(r) = {f} \union Range(s)
  BY RangeOfCons
<1>3. \A i \in DOMAIN r : i # 1 => i - 1 \in DOMAIN s /\ r[i] = s[i - 1] /\ i \in Nat
  <2> TAKE i \in DOMAIN r
  <2> HAVE i # 1
  <2>1. i - 1 \in 1 .. Len(s) /\ (i - 1) + 1 = i /\ i \in Nat
    BY <1>1
  <2> QED BY <1>1, <2>1
<1>4. OneBlock(r)
  <2> SUFFICES ASSUME NEW i \in DOMAIN r, NEW j \in DOMAIN r,
                      r[i].kind = "block", r[j].kind = "block", i # j
               PROVE  FALSE
    BY DEF OneBlock
  <2>1. ASSUME NEW k \in DOMAIN r, k # 1, r[k].kind = "block", f.kind = "block" PROVE FALSE
    <3>1. r[k] \in Range(s)
      BY <1>3, <2>1 DEF Range
    <3> QED BY <2>1, <3>1
  <2>2. i # 1 /\ j # 1
    BY <1>1, <2>1
  <2>3. i - 1 = j - 1
    BY <1>3, <2>2 DEF OneBlock
  <2> QED BY <1>3, <2>2, <2>3
<1> QED BY <1>1, <1>2, <1>4

LEMMA PushedTwo ==
    ASSUME NEW s \in Seq(Activations), NEW f \in Activations, NEW g \in Activations
    PROVE  <<f, g>> \o s = <<f>> \o (<<g>> \o s)
<1> DEFINE a == <<f, g>>
           b == <<f>> \o <<g>>
<1>1. <<f>> \in Seq(Activations) /\ <<g>> \in Seq(Activations)
  OBVIOUS
<1>2. a = b
  <2>1. a \in Seq(Activations) /\ Len(a) = 2 /\ a[1] = f /\ a[2] = g
    OBVIOUS
  <2>2. b \in Seq(Activations) /\ Len(b) = 2 /\ b[1] = f /\ b[2] = g
    OBVIOUS
  <2> HIDE DEF a, b
  <2>3. \A i \in 1 .. Len(a) : a[i] = b[i]
    BY <2>1, <2>2
  <2> QED BY <2>1, <2>2, <2>3, SeqEqual
<1> QED BY <1>1, <1>2, ConcatAssociative

LEMMA Popped ==
    ASSUME NEW s \in Seq(Activations), s # <<>>, OneBlock(s)
    PROVE  /\ Head(s) \in Activations
           /\ Tail(s) \in Seq(Activations) /\ OneBlock(Tail(s))
           /\ Range(s) = {Head(s)} \union Range(Tail(s))
<1> PICK r : r = Tail(s)
  OBVIOUS
<1>1. /\ r \in Seq(Activations) /\ Head(s) \in Activations
      /\ s = <<Head(s)>> \o r /\ <<Head(s)>> \in Seq(Activations)
      /\ Len(s) \in Nat /\ Len(s) > 0 /\ DOMAIN s = 1 .. Len(s) /\ DOMAIN r = 1 .. Len(s) - 1
      /\ \A i \in 1 .. Len(s) - 1 : r[i] = s[i + 1]
  OBVIOUS
<1>2. Range(s) = {Head(s)} \union Range(r)
  BY <1>1, RangeOfCons
<1>3. \A i \in DOMAIN r : i + 1 \in DOMAIN s /\ r[i] = s[i + 1] /\ i \in Nat
  BY <1>1
<1>4. OneBlock(r)
  <2> SUFFICES ASSUME NEW i \in DOMAIN r, NEW j \in DOMAIN r,
                      r[i].kind = "block", r[j].kind = "block"
               PROVE  i = j
    BY DEF OneBlock
  <2>1. i + 1 = j + 1
    BY <1>3 DEF OneBlock
  <2> QED BY <1>3, <2>1
<1> QED BY <1>1, <1>2, <1>4

\* What a pop and a push do, in the terms of the invariant.
LEMMA PushEffect ==
    ASSUME IInv, NEW f \in Activations, stack' = <<f>> \o stack,
           f.kind = "block" => Frames("block") = {}
    PROVE  /\ stack' \in Seq(Activations) /\ OneBlock(stack)'
           /\ Range(stack') = {f} \union Range(stack)
<1>1. stack \in Seq(Activations) /\ OneBlock(stack)
  BY DEF IInv, Shape
<1>2. f.kind = "block" => \A g \in Range(stack) : g.kind # "block"
  BY DEF Frames, Range
<1>3. OneBlock(<<f>> \o stack)
  BY <1>1, <1>2, Pushed
<1>4. OneBlock(stack)'
  BY <1>3 DEF OneBlock
<1> QED BY <1>1, <1>2, <1>4, Pushed

LEMMA PopEffect ==
    ASSUME IInv, stack # <<>>, stack' = Tail(stack)
    PROVE  /\ stack' \in Seq(Activations) /\ OneBlock(stack)'
           /\ Range(stack) = {Head(stack)} \union Range(stack')
<1>1. stack \in Seq(Activations) /\ OneBlock(stack)
  BY DEF IInv, Shape
<1>2. OneBlock(Tail(stack))
  BY <1>1, Popped
<1>3. OneBlock(stack)'
  BY <1>2 DEF OneBlock
<1> QED BY <1>1, <1>3, Popped

\* The top is replaced by another drain.
LEMMA SwapEffect ==
    ASSUME IInv, stack # <<>>, NEW g \in Activations, g.kind = "drain",
           stack' = <<g>> \o Tail(stack)
    PROVE  /\ stack' \in Seq(Activations) /\ OneBlock(stack)'
           /\ Range(stack) = {Head(stack)} \union Range(Tail(stack))
           /\ Range(stack') = {g} \union Range(Tail(stack))
<1>1. stack \in Seq(Activations) /\ OneBlock(stack)
  BY DEF IInv, Shape
<1>2. /\ Tail(stack) \in Seq(Activations) /\ OneBlock(Tail(stack))
      /\ Range(stack) = {Head(stack)} \union Range(Tail(stack))
  BY <1>1, Popped
<1>3. /\ <<g>> \o Tail(stack) \in Seq(Activations) /\ OneBlock(<<g>> \o Tail(stack))
      /\ Range(<<g>> \o Tail(stack)) = {g} \union Range(Tail(stack))
  BY <1>2, Pushed
<1>4. OneBlock(stack)'
  BY <1>3 DEF OneBlock
<1> QED BY <1>2, <1>3, <1>4

\* The drain on top runs a callback and keeps the rest of its work.
LEMMA RunEffect ==
    ASSUME IInv, stack # <<>>, NEW g \in Activations, g.kind = "drain",
           NEW f \in Activations, f.kind = "user", stack' = <<f, g>> \o Tail(stack)
    PROVE  /\ stack' \in Seq(Activations) /\ OneBlock(stack)'
           /\ Range(stack) = {Head(stack)} \union Range(Tail(stack))
           /\ Range(stack') = {f, g} \union Range(Tail(stack))
<1>1. stack \in Seq(Activations) /\ OneBlock(stack)
  BY DEF IInv, Shape
<1>2. /\ Tail(stack) \in Seq(Activations) /\ OneBlock(Tail(stack))
      /\ Range(stack) = {Head(stack)} \union Range(Tail(stack))
  BY <1>1, Popped
<1>3. PICK s : s = <<g>> \o Tail(stack)
  OBVIOUS
<1>4. s \in Seq(Activations) /\ OneBlock(s) /\ Range(s) = {g} \union Range(Tail(stack))
  BY <1>2, <1>3, Pushed
<1>5. stack' = <<f>> \o s
  BY <1>2, <1>3, PushedTwo
<1>6. /\ <<f>> \o s \in Seq(Activations) /\ OneBlock(<<f>> \o s)
      /\ Range(<<f>> \o s) = {f} \union Range(s)
  BY <1>4, Pushed
<1>7. OneBlock(stack)'
  BY <1>5, <1>6 DEF OneBlock
<1> QED BY <1>2, <1>4, <1>5, <1>6, <1>7

-----------------------------------------------------------------------------
(* What the platform does. *)

LEMMA TickKept ==
    ASSUME IInv, UNCHANGED timer,
           \A t \in Ticks : left[t] = Never => left'[t] = Never,
           InMap \/ Taken \/ Entered => (InMap \/ Taken \/ Entered)'
    PROVE  TickInv'
BY DEF IInv, TickInv, timer, DroppedTimerIsGone

LEMMA StepDarwinDrain ==
    ASSUME IInv, UNCHANGED timer, DarwinDrain
    PROVE  IInv'
<1> DEFINE f == Drain(posts, Due, TRUE)
<1>1. /\ backend = "darwin" /\ stack' = <<f>> \o stack /\ native' = Never /\ posts' = 0
      /\ UNCHANGED <<backend, posted, life, held>>
      /\ Due \subseteq Timers
  BY DEF DarwinDrain, Due
<1>2. f \in Activations /\ f.kind = "drain" /\ f.ts = Due /\ f.timed
  <2>1. posts \in 0 .. MaxPosts
    BY TimersAssumption DEF IInv, Shape
  <2> QED BY <1>1, <2>1, FrameKinds, ZenonT(40)
<1> HIDE DEF f
<1>3. /\ stack' \in Seq(Activations) /\ OneBlock(stack)'
      /\ Range(stack') = {f} \union Range(stack)
  BY <1>1, <1>2, PushEffect
<1>4. /\ left' \in [Timers -> 0 .. Never]
      /\ \A t \in Timers : left'[t] = IF left[t] = 0 THEN Never ELSE left[t]
  BY NeverIsLate DEF DarwinDrain, Due, IInv, Shape
<1>5. Shape'
  BY <1>1, <1>3, <1>4, NeverIsLate, TimersAssumption DEF IInv, Shape, timer
<1>6. PendingInMap'
  BY <1>1, <1>4 DEF IInv, PendingInMap
<1>7. Armed'
  BY <1>1, <1>2, <1>3 DEF Armed
<1>8. ASSUME InMap \/ Taken \/ Entered PROVE (InMap \/ Taken \/ Entered)'
  <2>1. Taken => Taken'
    BY <1>1, <1>3 DEF Taken
  <2>2. Entered => Entered'
    BY <1>3 DEF Entered
  <2>3. ASSUME InMap PROVE InMap' \/ Taken'
    <3>1. PICK t \in current : left[t] # Never
      BY <2>3 DEF InMap
    <3>2. t \in Ticks /\ t \in Timers
      BY RepeatingTimerAssumption DEF IInv, Shape
    <3>3. CASE left[t] = 0
      <4>1. t \in f.ts
        BY <1>2, <3>2, <3>3 DEF Due
      <4> QED BY <1>1, <1>2, <1>3, <3>2, <4>1 DEF Taken
    <3>4. CASE left[t] # 0
      BY <1>4, <3>1, <3>2, <3>4 DEF InMap, timer
    <3> QED BY <3>3, <3>4
  <2> QED BY <1>8, <2>1, <2>2, <2>3
<1>9. TickInv'
  <2>1. \A t \in Ticks : left[t] = Never => left'[t] = Never
    BY <1>4, RepeatingTimerAssumption
  <2> QED BY <1>8, <2>1, TickKept
<1>10. DrainsTimers'
  BY <1>1, <1>2, <1>3 DEF IInv, DrainsTimers
<1> QED BY <1>10, <1>3, <1>5, <1>6, <1>7, <1>9 DEF IInv

\* A step that only pushes f: the map stays.
LEMMA OnlyPushes ==
    ASSUME IInv, UNCHANGED <<backend, left, posted, life, held, timer>>,
           NEW f \in Activations, stack' = <<f>> \o stack,
           f.kind = "block" => Frames("block") = {},
           backend = "darwin" /\ f.kind = "drain" => f.timed,
           native' = native \/ (backend = "android" /\ native' = Never),
           posts' \in 0 .. posts, backend = "darwin" => posts' = posts
    PROVE  IInv'
<1>1. /\ stack' \in Seq(Activations) /\ OneBlock(stack)'
      /\ Range(stack') = {f} \union Range(stack)
  BY PushEffect
<1>2. Shape'
  <2>1. posts' \in 0 .. posted' /\ native' \in 0 .. Never
    BY NeverIsLate, TimersAssumption DEF IInv, Shape
  <2> QED BY <1>1, <2>1 DEF IInv, Shape, timer
<1>3. PendingInMap'
  BY DEF IInv, PendingInMap
<1>4. Armed'
  BY <1>1 DEF IInv, Armed, EarlyEnough
<1>5. InMap \/ Taken \/ Entered => (InMap \/ Taken \/ Entered)'
  BY <1>1 DEF InMap, Taken, Entered, timer
<1>6. TickInv'
  BY <1>5, TickKept
<1>7. DrainsTimers'
  BY <1>1 DEF IInv, DrainsTimers
<1> QED BY <1>7, <1>1, <1>2, <1>3, <1>4, <1>6 DEF IInv

LEMMA StepNativeTimer ==
    ASSUME IInv, UNCHANGED timer, NativeTimer
    PROVE  IInv'
<1>1. Due \subseteq Timers /\ 0 \in 0 .. MaxPosts /\ posts' \in 0 .. posts /\ posts' = posts
  BY TimersAssumption DEF NativeTimer, Due, IInv, Shape
<1>2. Drain(0, Due, TRUE) \in Activations /\ Drain(0, Due, TRUE).kind = "drain"
  BY <1>1, FrameKinds, ZenonT(40)
<1>3. native' = native \/ (backend = "android" /\ native' = Never)
  BY DEF NativeTimer
<1> QED BY <1>1, <1>2, <1>3, OnlyPushes DEF NativeTimer, timer

LEMMA StepPostedCallbacks ==
    ASSUME IInv, UNCHANGED timer, PostedCallbacks
    PROVE  IInv'
<1> DEFINE n == IF backend = "linux" THEN 1 ELSE posts
<1>1. n \in 1 .. posts /\ posts' = posts - n /\ stack' = <<Drain(n, {}, FALSE)>> \o stack
  <2>1. posts \in Nat /\ posts > 0
    BY TimersAssumption DEF PostedCallbacks, IInv, Shape
  <2> QED BY <2>1 DEF PostedCallbacks
<1> HIDE DEF n
<1>2. n \in 0 .. MaxPosts /\ posts' \in 0 .. posts
  BY <1>1, TimersAssumption DEF IInv, Shape
<1>3. Drain(n, {}, FALSE) \in Activations /\ Drain(n, {}, FALSE).kind = "drain"
  BY <1>2, FrameKinds
<1> QED BY <1>1, <1>2, <1>3, OnlyPushes DEF PostedCallbacks, timer

LEMMA StepLinuxTimer ==
    ASSUME IInv, UNCHANGED timer, NEW t \in Timers, LinuxTimer(t)
    PROVE  IInv'
<1>1. /\ backend = "linux" /\ stack' = <<User(t)>> \o stack
      /\ UNCHANGED <<backend, native, posts, posted, held>>
  BY DEF LinuxTimer
<1>2. User(t) \in Activations /\ User(t).kind = "user" /\ User(t).of = {t}
  BY FrameKinds
<1>3. /\ stack' \in Seq(Activations) /\ OneBlock(stack)'
      /\ Range(stack') = {User(t)} \union Range(stack)
  BY <1>1, <1>2, PushEffect
<1>4. /\ left' \in [Timers -> 0 .. Never]
      /\ life' \in [Timers -> {"unused", "pending", "cancelled", "fired"}]
      /\ \A u \in Timers : /\ left'[u] = IF u = t THEN Never ELSE left[u]
                           /\ life'[u] = IF u = t THEN "fired" ELSE life[u]
  BY NeverIsLate DEF LinuxTimer, IInv, Shape
<1>5. Shape'
  BY <1>1, <1>3, <1>4 DEF IInv, Shape, timer
<1>6. PendingInMap'
  BY <1>4 DEF IInv, PendingInMap
<1>7. Armed'
  BY <1>1 DEF Armed, EarlyEnough
<1>8. ASSUME InMap \/ Taken \/ Entered PROVE (InMap \/ Taken \/ Entered)'
  <2>1. Entered => Entered'
    BY <1>3 DEF Entered
  <2>2. ASSUME InMap PROVE InMap' \/ Entered'
    <3>1. PICK u \in current : left[u] # Never
      BY <2>2 DEF InMap
    <3>2. u \in Ticks /\ u \in Timers
      BY RepeatingTimerAssumption DEF IInv, Shape
    <3>3. CASE u = t
      BY <1>2, <1>3, <3>2, <3>3 DEF Entered
    <3>4. CASE u # t
      BY <1>4, <3>1, <3>2, <3>4 DEF InMap, timer
    <3> QED BY <3>3, <3>4
  <2> QED BY <1>1, <1>8, <2>1, <2>2 DEF Taken
<1>9. TickInv'
  <2>1. \A u \in Ticks : left[u] = Never => left'[u] = Never
    BY <1>4, RepeatingTimerAssumption
  <2> QED BY <1>8, <2>1, TickKept
<1>10. DrainsTimers'
  BY <1>1 DEF IInv, DrainsTimers
<1> QED BY <1>10, <1>3, <1>5, <1>6, <1>7, <1>9 DEF IInv

\* What is left of the drain on top when it has run a callback or a timer.
LEMMA RestOfDrain ==
    ASSUME IInv, Top("drain")
    PROVE  /\ stack # <<>> /\ Head(stack) \in Activations /\ Head(stack).kind = "drain"
           /\ Head(stack).cbs > 0 =>
                 /\ [Head(stack) EXCEPT !.cbs = @ - 1] \in Activations
                 /\ [Head(stack) EXCEPT !.cbs = @ - 1].kind = "drain"
                 /\ [Head(stack) EXCEPT !.cbs = @ - 1].ts = Head(stack).ts
                 /\ [Head(stack) EXCEPT !.cbs = @ - 1].timed = Head(stack).timed
           /\ \A t \in Timers :
                 /\ [Head(stack) EXCEPT !.ts = @ \ {t}] \in Activations
                 /\ [Head(stack) EXCEPT !.ts = @ \ {t}].kind = "drain"
                 /\ [Head(stack) EXCEPT !.ts = @ \ {t}].ts = Head(stack).ts \ {t}
                 /\ [Head(stack) EXCEPT !.ts = @ \ {t}].timed = Head(stack).timed
<1>1. stack # <<>> /\ Head(stack) \in Activations /\ Head(stack).kind = "drain"
  BY Popped DEF IInv, Shape, Top
<1>2. PICK f : f = Head(stack)
  OBVIOUS
<1>3. f \in [kind : {"drain"}, cbs : 0 .. MaxPosts, ts : SUBSET Timers, timed : BOOLEAN]
  BY <1>1, <1>2 DEF Activations
<1>4. f.cbs > 0 =>
         /\ [f EXCEPT !.cbs = @ - 1] \in Activations
         /\ [f EXCEPT !.cbs = @ - 1].kind = "drain"
         /\ [f EXCEPT !.cbs = @ - 1].ts = f.ts /\ [f EXCEPT !.cbs = @ - 1].timed = f.timed
  BY <1>3, TimersAssumption DEF Activations
<1>5. \A t \in Timers :
         /\ [f EXCEPT !.ts = @ \ {t}] \in Activations
         /\ [f EXCEPT !.ts = @ \ {t}].kind = "drain"
         /\ [f EXCEPT !.ts = @ \ {t}].ts = f.ts \ {t}
         /\ [f EXCEPT !.ts = @ \ {t}].timed = f.timed
  BY <1>3 DEF Activations
<1> QED BY <1>1, <1>2, <1>4, <1>5

LEMMA StepRunCallback ==
    ASSUME IInv, UNCHANGED timer, RunCallback
    PROVE  IInv'
<1> DEFINE g == [Head(stack) EXCEPT !.cbs = @ - 1]
<1>1. /\ stack # <<>> /\ Head(stack).kind = "drain" /\ Head(stack).cbs > 0
      /\ stack' = <<PostedUser, g>> \o Tail(stack)
      /\ UNCHANGED <<backend, left, native, posts, posted, life, held>>
  BY DEF RunCallback, Top
<1>2. g \in Activations /\ g.kind = "drain" /\ g.ts = Head(stack).ts /\ g.timed = Head(stack).timed
  BY <1>1, RestOfDrain DEF RunCallback
<1> HIDE DEF g
<1>3. /\ stack' \in Seq(Activations) /\ OneBlock(stack)'
      /\ Range(stack) = {Head(stack)} \union Range(Tail(stack))
      /\ Range(stack') = {PostedUser, g} \union Range(Tail(stack))
  BY <1>1, <1>2, FrameKinds, RunEffect
<1>4. Shape'
  BY <1>1, <1>3 DEF IInv, Shape, timer
<1>5. PendingInMap'
  BY <1>1 DEF IInv, PendingInMap
<1>6. Armed'
  BY <1>1, <1>2, <1>3 DEF IInv, Armed, EarlyEnough
<1>7. InMap \/ Taken \/ Entered => (InMap \/ Taken \/ Entered)'
  <2>1. (InMap => InMap') /\ (Taken => Taken')
    BY <1>1, <1>2, <1>3 DEF InMap, Taken, timer
  <2>2. Entered => Entered'
    BY <1>1, <1>3 DEF Entered
  <2> QED BY <2>1, <2>2
<1>8. TickInv'
  BY <1>1, <1>7, TickKept
<1>9. DrainsTimers'
  BY <1>1, <1>2, <1>3, FrameKinds DEF IInv, DrainsTimers
<1> QED BY <1>9, <1>3, <1>4, <1>5, <1>6, <1>8 DEF IInv

LEMMA StepRunTimer ==
    ASSUME IInv, UNCHANGED timer, NEW t \in Timers, RunTimer(t)
    PROVE  IInv'
<1> DEFINE g == [Head(stack) EXCEPT !.ts = @ \ {t}]
<1>1. /\ stack # <<>> /\ Head(stack).kind = "drain" /\ t \in Head(stack).ts
      /\ UNCHANGED <<backend, native, posts, posted, held>>
  BY DEF RunTimer, Top
<1>2. /\ g \in Activations /\ g.kind = "drain" /\ g.ts = Head(stack).ts \ {t}
      /\ g.timed = Head(stack).timed
  BY <1>1, RestOfDrain DEF RunTimer
<1>3. CASE backend = "darwin" \/ left[t] # Never
  <2>1. /\ stack' = <<User(t), g>> \o Tail(stack)
        /\ left' = [left EXCEPT ![t] = Never]
        /\ life' = [life EXCEPT ![t] = "fired"]
    BY <1>3 DEF RunTimer
  <2> HIDE DEF g
  <2>2. User(t) \in Activations /\ User(t).kind = "user" /\ User(t).of = {t}
    BY FrameKinds
  <2>3. /\ stack' \in Seq(Activations) /\ OneBlock(stack)'
        /\ Range(stack) = {Head(stack)} \union Range(Tail(stack))
        /\ Range(stack') = {User(t), g} \union Range(Tail(stack))
    BY <1>1, <1>2, <2>1, <2>2, RunEffect
  <2>4. /\ left' \in [Timers -> 0 .. Never]
        /\ life' \in [Timers -> {"unused", "pending", "cancelled", "fired"}]
        /\ \A u \in Timers : /\ left'[u] = IF u = t THEN Never ELSE left[u]
                             /\ life'[u] = IF u = t THEN "fired" ELSE life[u]
    BY <2>1, NeverIsLate DEF IInv, Shape
  <2>5. Shape'
    BY <1>1, <2>3, <2>4 DEF IInv, Shape, timer
  <2>6. PendingInMap'
    BY <2>4 DEF IInv, PendingInMap
  <2>7. Armed'
    <3>1. EarlyEnough(native, left, posts) => EarlyEnough(native, left, posts)'
      <4>1. native <= Never
        BY NeverIsLate DEF IInv, Shape
      <4> QED BY <1>1, <2>4, <4>1 DEF EarlyEnough
    <3> QED BY <1>1, <1>2, <2>3, <3>1 DEF IInv, Armed
  <2>8. ASSUME InMap \/ Taken \/ Entered PROVE (InMap \/ Taken \/ Entered)'
    <3>1. t \in Ticks => Entered'
      BY <2>2, <2>3 DEF Entered
    <3>2. t \notin Ticks /\ InMap => InMap'
      BY <2>4, RepeatingTimerAssumption DEF InMap, timer, IInv, Shape
    <3>3. t \notin Ticks /\ Taken => Taken'
      BY <1>1, <1>2, <2>3 DEF Taken
    <3>4. Entered => Entered'
      BY <1>1, <2>3 DEF Entered
    <3> QED BY <2>8, <3>1, <3>2, <3>3, <3>4
  <2>9. TickInv'
    <3>1. \A u \in Ticks : left[u] = Never => left'[u] = Never
      BY <2>4, RepeatingTimerAssumption
    <3> QED BY <2>8, <3>1, TickKept
  <2>10. DrainsTimers'
    BY <1>1, <1>2, <2>2, <2>3 DEF IInv, DrainsTimers
  <2> QED BY <2>10, <2>3, <2>5, <2>6, <2>7, <2>9 DEF IInv
<1>4. CASE ~(backend = "darwin" \/ left[t] # Never)
  <2>1. stack' = <<g>> \o Tail(stack) /\ UNCHANGED <<left, life>>
    BY <1>4 DEF RunTimer
  <2> HIDE DEF g
  <2>2. /\ stack' \in Seq(Activations) /\ OneBlock(stack)'
        /\ Range(stack) = {Head(stack)} \union Range(Tail(stack))
        /\ Range(stack') = {g} \union Range(Tail(stack))
    BY <1>1, <1>2, <2>1, SwapEffect
  <2>3. Shape'
    BY <1>1, <2>1, <2>2 DEF IInv, Shape, timer
  <2>4. PendingInMap'
    BY <2>1 DEF IInv, PendingInMap
  <2>5. Armed'
    BY <1>1, <1>4, <2>1 DEF IInv, Armed, EarlyEnough
  <2>6. InMap \/ Taken \/ Entered => (InMap \/ Taken \/ Entered)'
    <3>1. ~Taken
      BY <1>4 DEF Taken
    <3>2. InMap => InMap'
      BY <2>1 DEF InMap, timer
    <3>3. Entered => Entered'
      BY <1>1, <2>2 DEF Entered
    <3> QED BY <3>1, <3>2, <3>3
  <2>7. TickInv'
    BY <2>1, <2>6, TickKept
  <2>8. DrainsTimers'
    BY <1>1, <1>4 DEF IInv, DrainsTimers
  <2> QED BY <2>8, <2>2, <2>3, <2>4, <2>5, <2>7 DEF IInv
<1> QED BY <1>3, <1>4

LEMMA StepEndDrain ==
    ASSUME IInv, UNCHANGED timer, EndDrain
    PROVE  IInv'
<1> DEFINE again == Head(stack).timed /\ backend # "darwin" /\ Due # {}
           f == Drain(0, Due, TRUE)
<1>1. /\ stack # <<>> /\ Head(stack).kind = "drain" /\ Head(stack).ts = {}
      /\ stack' = IF again THEN <<f>> \o Tail(stack) ELSE Tail(stack)
      /\ native' = IF Head(stack).timed /\ (backend = "darwin" => Earliest(left) # Never)
                   THEN Rearm(left, posts) ELSE native
      /\ UNCHANGED <<backend, left, posts, posted, life, held>>
  BY DEF EndDrain, Top
<1>2. f \in Activations /\ f.kind = "drain"
  <2>1. Due \subseteq Timers /\ 0 \in 0 .. MaxPosts
    BY TimersAssumption DEF Due
  <2>2. Drain(0, Due, TRUE) \in Activations /\ Drain(0, Due, TRUE).kind = "drain"
    BY <2>1, FrameKinds, ZenonT(40)
  <2> QED BY <2>2
<1> HIDE DEF f, again
<1>3. /\ stack' \in Seq(Activations) /\ OneBlock(stack)'
      /\ \A g \in Range(stack) : g = Head(stack) \/ g \in Range(stack')
  <2>1. CASE again
    <3>1. stack' = <<f>> \o Tail(stack)
      BY <1>1, <2>1
    <3> QED BY <1>1, <1>2, <3>1, SwapEffect
  <2>2. CASE ~again
    <3>1. stack' = Tail(stack)
      BY <1>1, <2>2
    <3> QED BY <1>1, <3>1, PopEffect
  <2> QED BY <2>1, <2>2
<1>4. /\ left \in [Timers -> 0 .. Never] /\ native \in 0 .. Never /\ posts \in Nat
  BY TimersAssumption DEF IInv, Shape
<1>5. /\ Rearm(left, posts) \in 0 .. Never
      /\ EarlyEnough(Rearm(left, posts), left, posts)
  BY <1>4, RearmEffect DEF IInv
<1>6. Shape'
  BY <1>1, <1>3, <1>4, <1>5 DEF IInv, Shape, timer
<1>7. PendingInMap'
  BY <1>1 DEF IInv, PendingInMap
<1>8. EarlyEnough(native', left, posts)
  <2>1. CASE native' = Rearm(left, posts)
    BY <1>5, <2>1
  <2>2. CASE backend = "darwin" /\ Earliest(left) = Never /\ native' = native
    <3>1. \A t \in Timers : Never <= left[t]
      BY <1>4, <2>2, EarliestIsLeast
    <3>2. \A t \in Timers : left[t] \in Nat
      BY <1>4, NeverIsLate
    <3>3. \A t \in Timers : native <= left[t]
      BY <1>4, <3>1, <3>2, NeverIsLate
    <3> QED BY <2>2, <3>3 DEF EarlyEnough
  <2>3. CASE ~Head(stack).timed /\ native' = native
    <3>1. backend # "darwin"
      <4>1. Head(stack) \in Range(stack)
        BY <1>1, Popped DEF IInv, Shape
      <4> QED BY <1>1, <2>3, <4>1 DEF IInv, DrainsTimers
    <3> QED BY <2>3, <3>1 DEF IInv, Armed
  <2> QED BY <1>1, <2>1, <2>2, <2>3
<1>9. Armed'
  BY <1>1, <1>8 DEF Armed, EarlyEnough
<1>10. InMap \/ Taken \/ Entered => (InMap \/ Taken \/ Entered)'
  BY <1>1, <1>3 DEF InMap, Taken, Entered, timer
<1>11. TickInv'
  BY <1>1, <1>10, TickKept
<1>12. DrainsTimers'
  <2>1. backend = "darwin" => stack' = Tail(stack)
    BY <1>1 DEF again
  <2>2. backend = "darwin" => \A g \in Range(stack') : g \in Range(stack)
    BY <1>1, <2>1, PopEffect
  <2> QED BY <1>1, <2>2 DEF IInv, DrainsTimers
<1> QED BY <1>12, <1>3, <1>6, <1>7, <1>9, <1>11 DEF IInv

\* A step that only pops an activation that is no drain and no tick.
LEMMA OnlyPops ==
    ASSUME IInv, UNCHANGED <<backend, left, native, posts, posted, life, held, timer>>,
           stack # <<>>, stack' = Tail(stack),
           Head(stack).kind = "block" \/ (Head(stack).kind = "user" /\ Head(stack).of \intersect Ticks = {})
    PROVE  IInv'
<1>1. /\ stack' \in Seq(Activations) /\ OneBlock(stack)'
      /\ Range(stack) = {Head(stack)} \union Range(stack')
  BY PopEffect
<1>2. Shape'
  BY <1>1 DEF IInv, Shape, timer
<1>3. PendingInMap'
  BY DEF IInv, PendingInMap
<1>4. DrainsTimers'
  BY <1>1 DEF IInv, DrainsTimers
<1>5. Armed'
  BY <1>1 DEF IInv, Armed, EarlyEnough
<1>6. InMap \/ Taken \/ Entered => (InMap \/ Taken \/ Entered)'
  BY <1>1 DEF InMap, Taken, Entered, timer
<1>7. TickInv'
  BY <1>6, TickKept
<1> QED BY <1>1, <1>2, <1>3, <1>4, <1>5, <1>7 DEF IInv

LEMMA StepBlockReturn ==
    ASSUME IInv, UNCHANGED timer, BlockReturn
    PROVE  IInv'
BY OnlyPops DEF BlockReturn, Top, timer

LEMMA StepFinishUser ==
    ASSUME IInv, UNCHANGED timer, ~Entering, ~Executing, FinishUser
    PROVE  IInv'
<1>1. stack # <<>> /\ Head(stack).kind = "user"
  BY DEF FinishUser, Top
<1>2. Head(stack).of \intersect Ticks = {}
  BY <1>1 DEF Entering, Executing, Top
<1> QED BY <1>1, <1>2, OnlyPops DEF FinishUser, timer

-----------------------------------------------------------------------------
(* User code, other threads and the clock. *)

\* A step that leaves the stack alone and arms the native timer anew.
LEMMA MapChanges ==
    ASSUME IInv, UNCHANGED <<backend, stack, timer>>,
           left' \in [Timers -> 0 .. Never], native' \in 0 .. Never,
           posted' \in 0 .. MaxPosts, posts' \in 0 .. posted',
           life' \in [Timers -> {"unused", "pending", "cancelled", "fired"}], held' \subseteq Timers,
           \A t \in Timers : left'[t] # Never => life'[t] = "pending",
           \A t \in Ticks : left[t] = Never <=> left'[t] = Never,
           Armed'
    PROVE  IInv'
<1>1. Shape'
  BY DEF IInv, Shape, timer
<1>2. PendingInMap' /\ DrainsTimers' /\ OneBlock(stack)'
  BY DEF IInv, PendingInMap, DrainsTimers, OneBlock
<1>3. InMap \/ Taken \/ Entered => (InMap \/ Taken \/ Entered)'
  BY DEF IInv, Shape, InMap, Taken, Entered, timer
<1>4. TickInv'
  BY <1>3, TickKept
<1> QED BY <1>1, <1>2, <1>4 DEF IInv

LEMMA StepSchedule ==
    ASSUME IInv, UNCHANGED timer, NEW t \in Timers \ Ticks, NEW delay \in Delays,
           NEW keep \in BOOLEAN, Schedule(t, delay, keep)
    PROVE  IInv'
<1>1. UNCHANGED <<backend, posts, posted, stack>> /\ native' = Rearm(left', posts)
  BY DEF Schedule
<1>2. /\ left' \in [Timers -> 0 .. Never]
      /\ life' \in [Timers -> {"unused", "pending", "cancelled", "fired"}]
      /\ \A u \in Timers : /\ left'[u] = IF u = t THEN delay ELSE left[u]
                           /\ life'[u] = IF u = t THEN "pending" ELSE life[u]
      /\ held' \subseteq Timers
  BY NeverIsLate DEF Schedule, IInv, Shape
<1>3. posts \in Nat /\ posted \in 0 .. MaxPosts /\ posts \in 0 .. posted
  BY TimersAssumption DEF IInv, Shape
<1>4. native' \in 0 .. Never /\ EarlyEnough(native', left', posts)
  BY <1>1, <1>2, <1>3, RearmEffect DEF IInv
<1>5. Armed'
  BY <1>1, <1>4 DEF Armed, EarlyEnough
<1>6. \A u \in Timers : left'[u] # Never => life'[u] = "pending"
  BY <1>2 DEF IInv, PendingInMap
<1>7. \A u \in Ticks : left[u] = Never <=> left'[u] = Never
  BY <1>2, RepeatingTimerAssumption
<1> QED BY <1>1, <1>2, <1>3, <1>4, <1>5, <1>6, <1>7, MapChanges

LEMMA StepCancel ==
    ASSUME IInv, UNCHANGED timer, NEW t \in Timers \ Ticks, Cancel(t)
    PROVE  IInv'
<1>1. UNCHANGED <<backend, posts, posted, stack>> /\ native' = Rearm(left', posts)
  BY DEF Cancel
<1>2. /\ left' \in [Timers -> 0 .. Never]
      /\ life' \in [Timers -> {"unused", "pending", "cancelled", "fired"}]
      /\ \A u \in Timers : /\ left'[u] = IF u = t THEN Never ELSE left[u]
                           /\ u # t => life'[u] = life[u]
      /\ held' \subseteq Timers
  BY NeverIsLate DEF Cancel, IInv, Shape
<1>3. posts \in Nat /\ posted \in 0 .. MaxPosts /\ posts \in 0 .. posted
  BY TimersAssumption DEF IInv, Shape
<1>4. native' \in 0 .. Never /\ EarlyEnough(native', left', posts)
  BY <1>1, <1>2, <1>3, RearmEffect DEF IInv
<1>5. Armed'
  BY <1>1, <1>4 DEF Armed, EarlyEnough
<1>6. \A u \in Timers : left'[u] # Never => life'[u] = "pending"
  BY <1>2 DEF IInv, PendingInMap
<1>7. \A u \in Ticks : left[u] = Never <=> left'[u] = Never
  BY <1>2, RepeatingTimerAssumption
<1> QED BY <1>1, <1>2, <1>3, <1>4, <1>5, <1>6, <1>7, MapChanges

LEMMA StepStartBlockOn ==
    ASSUME IInv, UNCHANGED timer, NEW t \in Timers, StartBlockOn(t)
    PROVE  IInv'
<1>1. Block(t) \in Activations /\ Block(t).kind = "block"
  BY FrameKinds
<1>2. posts \in 0 .. posts
  BY TimersAssumption DEF IInv, Shape
<1> QED BY <1>1, <1>2, OnlyPushes DEF StartBlockOn, timer

LEMMA StepPost ==
    ASSUME IInv, UNCHANGED timer, Post
    PROVE  IInv'
<1>1. /\ UNCHANGED <<backend, left, stack, life, held>>
      /\ native' = IF backend = "darwin" THEN Rearm(left, posts') ELSE native
  BY DEF Post
<1>2. posted' \in 0 .. MaxPosts /\ posts' \in 0 .. posted' /\ posts' \in Nat /\ posts' > 0
  BY TimersAssumption DEF Post, IInv, Shape
<1>3. /\ left \in [Timers -> 0 .. Never] /\ native \in 0 .. Never
      /\ life \in [Timers -> {"unused", "pending", "cancelled", "fired"}] /\ held \subseteq Timers
  BY DEF IInv, Shape
<1>4. native' \in 0 .. Never
  <2>1. Rearm(left, posts') \in 0 .. Never
    BY <1>2, <1>3, RearmEffect DEF IInv
  <2> QED BY <1>1, <1>3, <2>1
<1>5. Armed'
  BY <1>1, <1>2 DEF IInv, Armed, EarlyEnough
<1>6. \A u \in Timers : left'[u] # Never => life'[u] = "pending"
  BY <1>1 DEF IInv, PendingInMap
<1> QED BY <1>1, <1>2, <1>3, <1>4, <1>5, <1>6, MapChanges

LEMMA StepTick ==
    ASSUME IInv, UNCHANGED timer, Tick
    PROVE  IInv'
<1>1. UNCHANGED <<backend, posts, posted, stack, life, held>> /\ native' = Elapse(native)
  BY DEF Tick
<1>2. /\ left \in [Timers -> 0 .. Never] /\ native \in 0 .. Never
      /\ life \in [Timers -> {"unused", "pending", "cancelled", "fired"}] /\ held \subseteq Timers
      /\ posted \in 0 .. MaxPosts /\ posts \in 0 .. posted
  BY DEF IInv, Shape
<1>3. \A n \in 0 .. Never : /\ Elapse(n) \in 0 .. Never
                            /\ Elapse(n) = Never <=> n = Never
                            /\ \A m \in 0 .. Never : n <= m => Elapse(n) <= Elapse(m)
  BY NeverIsLate DEF Elapse
<1>4. \A u \in Timers : left'[u] = Elapse(left[u])
  BY DEF Tick
<1>5. left' \in [Timers -> 0 .. Never]
  <2>1. left' = [t \in Timers |-> Elapse(left[t])]
    BY DEF Tick
  <2> QED BY <1>2, <1>3, <2>1
<1>6. native' \in 0 .. Never
  BY <1>1, <1>2, <1>3
<1>7. Armed'
  <2>1. (\A t \in Timers : native <= left[t]) => \A t \in Timers : native' <= left'[t]
    BY <1>1, <1>2, <1>3, <1>4
  <2> QED BY <1>1, <2>1 DEF IInv, Armed, EarlyEnough
<1>8. \A u \in Timers : left[u] = Never <=> left'[u] = Never
  BY <1>2, <1>3, <1>4
<1>9. \A u \in Timers : left'[u] # Never => life'[u] = "pending"
  BY <1>1, <1>8 DEF IInv, PendingInMap
<1> QED BY <1>1, <1>2, <1>5, <1>6, <1>7, <1>8, <1>9, RepeatingTimerAssumption, MapChanges

-----------------------------------------------------------------------------
(* The repeating timer. *)

LEMMA FreshIsOneTick ==
    /\ Fresh \subseteq Ticks
    /\ \A t, u \in Fresh : t = u
<1>1. CASE \E t \in Ticks : Idle(t)
  BY <1>1 DEF Fresh
<1>2. CASE ~ \E t \in Ticks : Idle(t)
  BY <1>2 DEF Fresh
<1> QED BY <1>1, <1>2

\* Replacing the current handle leaves no tick in the map but the one scheduled.
LEMMA ReplaceEffect ==
    ASSUME IInv, NEW scheduled \in SUBSET Ticks, NEW kept, ReplaceHandle(scheduled, kept),
           UNCHANGED <<backend, posts>>,
           \A f \in Range(stack) : f.kind = "drain" => f \in Range(stack')
    PROVE  /\ left' \in [Timers -> 0 .. Never] /\ native' \in 0 .. Never
           /\ life' \in [Timers -> {"unused", "pending", "cancelled", "fired"}]
           /\ PendingInMap'
           /\ \A t \in scheduled : left'[t] # Never
           /\ \A t \in Ticks : t \notin scheduled => left'[t] = Never
           /\ Armed'
<1>1. Interval \in 0 .. Never /\ Interval # Never /\ Never \in 0 .. Never
  BY NeverIsLate, RepeatingTimerAssumption
<1>2. /\ left' \in [Timers -> 0 .. Never]
      /\ life' \in [Timers -> {"unused", "pending", "cancelled", "fired"}]
  BY <1>1 DEF ReplaceHandle, IInv, Shape
<1>3. \A t \in Timers :
         /\ left'[t] = IF t \in scheduled THEN Interval
                       ELSE IF t \in current THEN Never ELSE left[t]
         /\ life'[t] = IF t \in scheduled THEN "pending"
                       ELSE IF t \in current /\ life[t] = "pending" THEN "cancelled" ELSE life[t]
  BY DEF ReplaceHandle
<1>4. PendingInMap'
  BY <1>3 DEF IInv, PendingInMap
<1>5. \A t \in Ticks : t \in Timers /\ (left[t] # Never => t \in current)
  BY RepeatingTimerAssumption DEF IInv, TickInv
<1>6. /\ \A t \in scheduled : left'[t] # Never
      /\ \A t \in Ticks : t \notin scheduled => left'[t] = Never
  BY <1>1, <1>3, <1>5
<1>7. posts \in Nat /\ native \in 0 .. Never
  BY TimersAssumption DEF IInv, Shape
<1>8. /\ Rearm(left', posts) \in 0 .. Never
      /\ EarlyEnough(Rearm(left', posts), left', posts)
  BY <1>2, <1>7, RearmEffect DEF IInv
<1>9. native' = IF scheduled \union current = {} THEN native ELSE Rearm(left', posts)
  BY DEF ReplaceHandle
<1>10. native' \in 0 .. Never
  BY <1>7, <1>8, <1>9
<1>11. Armed'
  <2>1. CASE scheduled \union current = {}
    <3>1. \A t \in Timers : left'[t] = left[t]
      BY <1>3, <2>1
    <3> QED BY <1>9, <2>1, <3>1 DEF IInv, Armed, EarlyEnough
  <2>2. CASE scheduled \union current # {}
    BY <1>8, <1>9, <2>2 DEF Armed, EarlyEnough
  <2> QED BY <2>1, <2>2
<1> QED BY <1>2, <1>4, <1>6, <1>10, <1>11

LEMMA StepStart ==
    ASSUME IInv, Start
    PROVE  IInv'
<1>1. /\ exists /\ Fresh # {} /\ isRunning' = TRUE /\ ReplaceHandle(Fresh, Fresh)
      /\ UNCHANGED <<backend, posts, posted, stack, held, exists, executing>>
  BY DEF Start
<1>2. Fresh \subseteq Ticks /\ (\A t, u \in Fresh : t = u) /\ current' = Fresh
  BY <1>1, FreshIsOneTick DEF ReplaceHandle
<1> HIDE DEF Fresh
<1>3. /\ left' \in [Timers -> 0 .. Never] /\ native' \in 0 .. Never
      /\ life' \in [Timers -> {"unused", "pending", "cancelled", "fired"}]
      /\ PendingInMap'
      /\ \A t \in Fresh : left'[t] # Never
      /\ \A t \in Ticks : t \notin Fresh => left'[t] = Never
      /\ Armed'
  BY <1>1, <1>2, ReplaceEffect
<1>4. Shape'
  BY <1>1, <1>2, <1>3 DEF IInv, Shape
<1>5. OneBlock(stack)' /\ DrainsTimers'
  BY <1>1 DEF IInv, OneBlock, DrainsTimers
<1>6. TickInv'
  <2>1. InMap'
    BY <1>1, <1>2, <1>3 DEF InMap
  <2> QED BY <1>1, <1>2, <1>3, <2>1 DEF TickInv, DroppedTimerIsGone
<1> QED BY <1>3, <1>4, <1>5, <1>6 DEF IInv

LEMMA StepStop ==
    ASSUME IInv, NEW remains \in BOOLEAN, Stop(remains)
    PROVE  IInv'
<1>1. /\ exists' = remains /\ isRunning' = FALSE /\ ReplaceHandle({}, {})
      /\ UNCHANGED <<backend, posts, posted, stack, held, executing>>
  BY DEF Stop
<1>2. current' = {}
  BY <1>1 DEF ReplaceHandle
<1>3. /\ left' \in [Timers -> 0 .. Never] /\ native' \in 0 .. Never
      /\ life' \in [Timers -> {"unused", "pending", "cancelled", "fired"}]
      /\ PendingInMap'
      /\ \A t \in Ticks : left'[t] = Never
      /\ Armed'
  BY <1>1, ReplaceEffect
<1>4. Shape'
  BY <1>1, <1>2, <1>3 DEF IInv, Shape
<1>5. OneBlock(stack)' /\ DrainsTimers'
  BY <1>1 DEF IInv, OneBlock, DrainsTimers
<1>6. TickInv'
  BY <1>1, <1>2, <1>3 DEF TickInv, DroppedTimerIsGone
<1> QED BY <1>3, <1>4, <1>5, <1>6 DEF IInv

LEMMA StepTickDiscarded ==
    ASSUME IInv, TickDiscarded
    PROVE  IInv'
<1>1. /\ stack # <<>> /\ Head(stack).kind = "user" /\ stack' = Tail(stack) /\ ~isRunning
      /\ UNCHANGED <<backend, left, native, posts, posted, life, held, timer>>
  BY DEF TickDiscarded, Entering, Top
<1>2. /\ stack' \in Seq(Activations) /\ OneBlock(stack)'
      /\ Range(stack) = {Head(stack)} \union Range(stack')
  BY <1>1, PopEffect
<1>3. Shape'
  BY <1>1, <1>2 DEF IInv, Shape, timer
<1>4. PendingInMap' /\ DrainsTimers'
  BY <1>1, <1>2 DEF IInv, PendingInMap, DrainsTimers
<1>5. Armed'
  BY <1>1, <1>2 DEF IInv, Armed, EarlyEnough
<1>6. TickInv'
  BY <1>1 DEF IInv, TickInv, DroppedTimerIsGone, timer
<1> QED BY <1>2, <1>3, <1>4, <1>5, <1>6 DEF IInv

LEMMA StepTickExecutes ==
    ASSUME IInv, TickExecutes
    PROVE  IInv'
<1>1. /\ stack # <<>> /\ Head(stack).kind = "user" /\ Head(stack).of \intersect (Ticks \ executing) # {}
      /\ isRunning /\ executing' = executing \union Head(stack).of
      /\ UNCHANGED <<backend, left, native, posts, posted, stack, life, held, exists, isRunning,
                     current>>
  BY DEF TickExecutes, Entering, Top, vars
<1>2. Head(stack).of \subseteq Ticks
  <2>1. Head(stack) \in Activations
    BY <1>1, Popped DEF IInv, Shape
  <2>2. Head(stack).of = {} \/ \E t \in Timers : Head(stack).of = {t}
    BY <1>1, <2>1, Kinds
  <2> QED BY <1>1, <2>2
<1>3. Shape'
  BY <1>1, <1>2 DEF IInv, Shape
<1>4. PendingInMap' /\ DrainsTimers' /\ OneBlock(stack)'
  BY <1>1 DEF IInv, PendingInMap, DrainsTimers, OneBlock
<1>5. Armed'
  BY <1>1 DEF IInv, Armed, EarlyEnough
<1>6. TickInv'
  BY <1>1 DEF IInv, TickInv, DroppedTimerIsGone, InMap, Taken, Entered
<1> QED BY <1>3, <1>4, <1>5, <1>6 DEF IInv

LEMMA StepTickFinishes ==
    ASSUME IInv, TickFinishes
    PROVE  IInv'
<1> DEFINE gone == ~exists /\ executing = Head(stack).of
           next == IF gone THEN {} ELSE Fresh
<1>1. /\ stack # <<>> /\ Head(stack).kind = "user" /\ Head(stack).of \intersect executing # {}
      /\ Fresh # {} /\ ReplaceHandle(next, next)
      /\ stack' = Tail(stack) /\ executing' = executing \ Head(stack).of
      /\ UNCHANGED <<backend, posts, posted, held, exists, isRunning>>
  BY DEF TickFinishes, Executing, Top
<1>2. next \subseteq Ticks /\ (\A t, u \in next : t = u) /\ current' = next
  BY <1>1, FreshIsOneTick DEF ReplaceHandle
<1>3. ~gone => next # {}
  BY <1>1
<1>4. /\ Head(stack).of # {} /\ Head(stack).of \subseteq executing
  <2>1. Head(stack) \in Activations
    BY <1>1, Popped DEF IInv, Shape
  <2>2. Head(stack).of = {} \/ \E t \in Timers : Head(stack).of = {t}
    BY <1>1, <2>1, Kinds
  <2> QED BY <1>1, <2>2
<1>5. ~exists /\ ~gone => executing' # {}
  BY <1>1, <1>4
<1>6. gone => ~exists /\ next = {}
  OBVIOUS
<1> HIDE DEF gone, next
<1>7. /\ stack' \in Seq(Activations) /\ OneBlock(stack)'
      /\ Range(stack) = {Head(stack)} \union Range(stack')
  BY <1>1, PopEffect
<1>8. \A f \in Range(stack) : f.kind = "drain" => f \in Range(stack')
  BY <1>1, <1>7
<1>9. /\ left' \in [Timers -> 0 .. Never] /\ native' \in 0 .. Never
      /\ life' \in [Timers -> {"unused", "pending", "cancelled", "fired"}]
      /\ PendingInMap'
      /\ \A t \in next : left'[t] # Never
      /\ \A t \in Ticks : t \notin next => left'[t] = Never
      /\ Armed'
  BY <1>1, <1>2, <1>8, ReplaceEffect
<1>10. Shape'
  BY <1>1, <1>2, <1>7, <1>9 DEF IInv, Shape
<1>11. DrainsTimers'
  BY <1>1, <1>7 DEF IInv, DrainsTimers
<1>12. TickInv'
  <2>1. ~gone => InMap'
    BY <1>2, <1>3, <1>9 DEF InMap
  <2>2. isRunning => exists
    BY DEF IInv, TickInv
  <2>3. DroppedTimerIsGone'
    BY <1>1, <1>5, <1>6, <1>9 DEF DroppedTimerIsGone
  <2> QED BY <1>1, <1>2, <1>6, <1>9, <2>1, <2>2, <2>3 DEF TickInv
<1> QED BY <1>7, <1>9, <1>10, <1>11, <1>12 DEF IInv

-----------------------------------------------------------------------------
(* The theorems. *)

LEMMA Initial ==
    ASSUME RTInit
    PROVE  IInv
<1>1. Range(stack) = {}
  BY DEF RTInit, Init, Range
<1>2. Never \in 0 .. Never
  BY NeverIsLate
<1>3. Shape
  <2>1. left \in [Timers -> 0 .. Never] /\ native \in 0 .. Never
    BY <1>2 DEF RTInit, Init
  <2>2. posted \in 0 .. MaxPosts /\ posts \in 0 .. posted
    BY TimersAssumption DEF RTInit, Init
  <2>3. /\ stack \in Seq(Activations) /\ backend \in Backends /\ held \subseteq Timers
        /\ life \in [Timers -> {"unused", "pending", "cancelled", "fired"}]
    BY DEF RTInit, Init
  <2>4. exists \in BOOLEAN /\ isRunning \in BOOLEAN /\ current \subseteq Ticks /\ executing \subseteq Ticks
    BY DEF RTInit
  <2> QED BY <2>1, <2>2, <2>3, <2>4 DEF Shape
<1>4. OneBlock(stack) /\ DrainsTimers
  BY <1>1 DEF RTInit, Init, OneBlock, DrainsTimers
<1>5. \A t \in Timers : left[t] = Never
  BY DEF RTInit, Init
<1>6. PendingInMap
  BY <1>5 DEF PendingInMap
<1>7. Armed
  <2>1. \A t \in Timers : native <= left[t]
    BY <1>2, <1>5 DEF RTInit, Init
  <2> QED BY <2>1 DEF Armed, EarlyEnough
<1>8. TickInv
  BY <1>5, RepeatingTimerAssumption DEF RTInit, TickInv, DroppedTimerIsGone
<1> QED BY <1>3, <1>4, <1>6, <1>7, <1>8 DEF IInv

LEMMA Stutter ==
    ASSUME IInv, UNCHANGED all
    PROVE  IInv'
<1>1. UNCHANGED <<backend, left, native, posts, posted, stack, life, held, timer>>
  BY DEF all, vars
<1>2. /\ left' \in [Timers -> 0 .. Never] /\ native' \in 0 .. Never
      /\ posted' \in 0 .. MaxPosts /\ posts' \in 0 .. posted'
      /\ life' \in [Timers -> {"unused", "pending", "cancelled", "fired"}] /\ held' \subseteq Timers
  BY <1>1 DEF IInv, Shape
<1>3. Armed'
  BY <1>1 DEF IInv, Armed, EarlyEnough
<1>4. \A t \in Timers : left'[t] # Never => life'[t] = "pending"
  BY <1>1 DEF IInv, PendingInMap
<1> QED BY <1>1, <1>2, <1>3, <1>4, MapChanges

LEMMA Step ==
    ASSUME IInv, RTNext
    PROVE  IInv'
<1>1. CASE Others
  <2>1. UNCHANGED timer
    BY <1>1 DEF Others
  <2>2. CASE Dispatch
    BY <2>1, <2>2, StepDarwinDrain, StepNativeTimer, StepPostedCallbacks, StepLinuxTimer,
       StepRunTimer, StepRunCallback, StepEndDrain, StepBlockReturn DEF Dispatch
  <2>3. CASE UserStep(Timers \ Ticks)
    BY <2>1, <2>3, StepSchedule, StepCancel, StepStartBlockOn DEF UserStep
  <2>4. CASE ~Entering /\ ~Executing /\ FinishUser
    BY <2>1, <2>4, StepFinishUser
  <2> QED BY <1>1, <2>1, <2>2, <2>3, <2>4, StepPost, StepTick DEF Others
<1>2. CASE TimerStep
  BY <1>2, StepTickDiscarded, StepTickExecutes, StepTickFinishes DEF TimerStep
<1>3. CASE Start \/ Stop(TRUE) \/ Stop(FALSE)
  BY <1>3, StepStart, StepStop
<1> QED BY <1>1, <1>2, <1>3 DEF RTNext

\* The map of timers, the native timer, the stack and the repeating timer stay consistent
\* (the backends of run_loop and run_loop_timer): the induction all else here follows from.
THEOREM Inductive == RTSpec => []IInv
<1>1. RTInit => IInv
  BY Initial
<1>2. IInv /\ [RTNext]_all => IInv'
  BY Step, Stutter
<1> QED BY <1>1, <1>2, PTL DEF RTSpec

\* When the thread is back in the host's loop, the native timer expires no later than the
\* earliest timer is due, or Darwin's source will get to it, whatever was scheduled, cancelled
\* and drained before and in whatever nesting (State::schedule, wake_up_at).
THEOREM NativeTimerIsInTime == RTSpec => []EarliestTimerArmed
<1>1. IInv => EarliestTimerArmed
  <2> SUFFICES ASSUME IInv, stack = <<>>, backend \in {"darwin", "win32"}
               PROVE  native <= Earliest(left) \/ (backend = "darwin" /\ posts > 0)
    BY DEF EarliestTimerArmed
  <2>1. Range(stack) = {}
    BY DEF Range
  <2>2. (\A t \in Timers : native <= left[t]) \/ (backend = "darwin" /\ posts > 0)
    BY <2>1 DEF IInv, Armed, EarlyEnough
  <2>3. ASSUME \A t \in Timers : native <= left[t] PROVE native <= Earliest(left)
    <3>1. native \in 0 .. Never /\ left \in [Timers -> 0 .. Never]
      BY DEF IInv, Shape
    <3>2. Earliest(left) \in {left[t] : t \in Timers} \union {Never}
      BY <3>1, EarliestIsLeast
    <3> QED BY <2>3, <3>1, <3>2, NeverIsLate
  <2> QED BY <2>2, <2>3
<1> QED BY <1>1, Inductive, PTL

LEMMA AtMostOne ==
    ASSUME NEW S, \A x, y \in S : x = y
    PROVE  Cardinality(S) <= 1
<1>1. CASE S = {}
  BY <1>1, FS_EmptySet
<1>2. CASE S # {}
  <2>1. PICK x \in S : S = {x}
    BY <1>2
  <2>2. Cardinality({x}) = 1
    BY FS_Singleton
  <2> QED BY <2>1, <2>2
<1> QED BY <1>1, <1>2

LEMMA ImpliesTicksInv ==
    ASSUME IInv
    PROVE  TicksInv
<1>1. \A i \in DOMAIN stack : stack[i] \in Activations /\ stack[i] \in Range(stack)
  BY DEF IInv, Shape, Range
<1>2. \A f \in Range(stack) : \E i \in DOMAIN stack : f = stack[i]
  BY DEF Range
<1>3. \A i \in DOMAIN stack :
         \/ /\ stack[i].kind = "drain"
            /\ stack[i].cbs \in 0 .. MaxPosts
            /\ stack[i].ts \subseteq Timers
         \/ stack[i].kind = "user" /\ stack[i].of \subseteq Timers
         \/ stack[i].kind = "block" /\ stack[i].on \in Timers
  <2> TAKE i \in DOMAIN stack
  <2>1. /\ stack[i].kind \in {"drain", "user", "block"}
        /\ stack[i].kind = "drain" => stack[i].cbs \in 0 .. MaxPosts /\ stack[i].ts \subseteq Timers
        /\ stack[i].kind = "user" => stack[i].of = {} \/ \E t \in Timers : stack[i].of = {t}
        /\ stack[i].kind = "block" => stack[i].on \in Timers
    BY <1>1, Kinds
  <2> QED BY <2>1
<1>4. Cardinality(Frames("block")) <= 1
  <2>1. \A i, j \in Frames("block") : i = j
    BY DEF IInv, OneBlock, Frames
  <2> QED BY <2>1, AtMostOne
<1>5. RTTypeOK
  <2>1. TypeOK
    BY <1>3, <1>4 DEF TypeOK, IInv, Shape, PendingInMap
  <2>2. Cardinality(current) <= 1
    BY AtMostOne DEF IInv, TickInv
  <2> QED BY <2>1, <2>2 DEF RTTypeOK, IInv, Shape
<1>6. OneTickScheduled
  <2>1. \A t, u \in {x \in Ticks : left[x] # Never} : t = u
    BY DEF IInv, TickInv
  <2> QED BY <2>1, AtMostOne DEF OneTickScheduled
<1>7. RunningTimerHasTick
  <2>1. Taken => \E i \in Frames("drain") : stack[i].ts \intersect Ticks # {}
    BY <1>2 DEF Taken, Frames
  <2>2. Entered => \E i \in Frames("user") : stack[i].of \intersect Ticks # {}
    BY <1>2 DEF Entered, Frames
  <2>3. isRunning => InMap \/ Taken \/ Entered
    BY DEF IInv, TickInv
  <2> QED BY <2>1, <2>2, <2>3 DEF RunningTimerHasTick, InMap
<1> QED BY <1>5, <1>6, <1>7 DEF TicksInv, IInv, TickInv

\* A running timer has exactly one tick to come, and a dropped one none once its last callback
\* has returned, whatever the callback of a tick stops, restarts, drops or blocks on (start,
\* stop, drop and run_timer_tick of run_loop_timer).
THEOREM OneTickAtATime == RTSpec => []TicksInv
BY Inductive, ImpliesTicksInv, PTL

\* A cancelled timer fires in no other case than this: a drain of Darwin's had already taken it
\* when it was cancelled (drain takes what is due out of the state before it runs the first).
THEOREM CancelledStaysCancelled == RTSpec => CancelIsFinal
<1> DEFINE Final ==
      \A t \in Timers :
          life[t] = "cancelled" /\ life'[t] = "fired" =>
              backend = "darwin" /\ Top("drain") /\ t \in Head(stack).ts
<1>1. IInv /\ [RTNext]_all => [Final]_vars
  <2> SUFFICES ASSUME IInv, RTNext, NEW t \in Timers, life[t] = "cancelled", life'[t] = "fired"
               PROVE  backend = "darwin" /\ Top("drain") /\ t \in Head(stack).ts
    BY DEF all, vars
  <2>1. life \in [Timers -> {"unused", "pending", "cancelled", "fired"}] /\ left[t] = Never
    BY DEF IInv, Shape, PendingInMap
  <2>2. ASSUME NEW u \in Timers, LinuxTimer(u) PROVE FALSE
    <3>1. u = t
      BY <2>1, <2>2 DEF LinuxTimer
    <3> QED BY <2>1, <2>2, <3>1, NeverIsLate DEF LinuxTimer
  <2>3. ASSUME NEW u \in Timers, RunTimer(u)
        PROVE  backend = "darwin" /\ Top("drain") /\ t \in Head(stack).ts
    <3>1. u = t
      BY <2>1, <2>3 DEF RunTimer
    <3> QED BY <2>1, <2>3, <3>1 DEF RunTimer
  <2>4. ASSUME NEW s, NEW k, ReplaceHandle(s, k) PROVE FALSE
    BY <2>4 DEF ReplaceHandle
  <2>5. ASSUME UserStep(Timers \ Ticks) PROVE FALSE
    <3>1. ASSUME NEW u \in Timers, NEW delay, NEW keep, Schedule(u, delay, keep) PROVE FALSE
      BY <2>1, <3>1 DEF Schedule
    <3>2. ASSUME NEW u \in Timers, Cancel(u) PROVE FALSE
      BY <2>1, <3>2 DEF Cancel
    <3>3. ASSUME NEW u \in Timers, StartBlockOn(u) PROVE FALSE
      BY <3>3 DEF StartBlockOn
    <3> QED BY <2>5, <3>1, <3>2, <3>3 DEF UserStep
  <2>6. CASE UNCHANGED life
    BY <2>6
  <2>7. CASE Others
    BY <2>2, <2>3, <2>5, <2>6, <2>7
       DEF Others, Dispatch, DarwinDrain, NativeTimer, PostedCallbacks, RunCallback, EndDrain,
           BlockReturn, FinishUser, Post, Tick
  <2>8. CASE TimerStep
    <3>1. CASE TickFinishes
      BY <2>4, <3>1 DEF TickFinishes
    <3> QED BY <2>6, <2>8, <3>1 DEF TimerStep, TickDiscarded, TickExecutes, vars
  <2>9. CASE Start \/ Stop(TRUE) \/ Stop(FALSE)
    BY <2>4, <2>9 DEF Start, Stop
  <2> QED BY <2>7, <2>8, <2>9 DEF RTNext
<1> QED BY <1>1, Inductive, PTL DEF RTSpec, CancelIsFinal
===============================================================================
