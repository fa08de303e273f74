--------------------------- MODULE ExecutorProofs ---------------------------
(***************************************************************************)
(* The safety properties of Executor, proved for every set of tasks, both  *)
(* kinds of backend, with and without waits that are given up, and every   *)
(* number of callbacks, block_ons and redundant wakes.                     *)
(*                                                                         *)
(* Three things make the induction: which activation may be above which    *)
(* (StackOK), what a task, its handle and its joiner know of each other    *)
(* (TaskInv), and what block_on's flag stands for in each phase (BlockInv). *)
(* Queue and stack are mostly looked at as sets, through Entries.          *)
(***************************************************************************)
EXTENDS Executor, SequenceTheorems, TLAPS

Activations ==
    [kind : {"batch"}, left : Seq(Closures)] \union [kind : {"poll"}, task : Tasks]
    \union [kind : {"callback"}] \union [kind : {"block"}]

Shape ==
    /\ batch \in BOOLEAN
    /\ queue \in Seq(Closures)
    /\ stack \in Seq(Activations)
    /\ fut \in [Tasks -> {"unspawned", "live", "done", "dropped"}]
    /\ value \in [Tasks -> {"none", "ok", "panic"}]
    /\ aborted \in [Tasks -> BOOLEAN]
    /\ joinWaker \in [Tasks -> Tasks \union {Main, Stale, NoOne}]
    /\ handle \in [Tasks -> Tasks \union {Main, NoOne}]
    /\ waits \in [Tasks -> Tasks \union {Ext, NoOne}]
    /\ blockPhase \in {"none", "check", "poll", "pump"}
    /\ blockOn \in Tasks \union {Ext, NoOne}
    /\ blockTimed \in BOOLEAN
    /\ blockQueued \in BOOLEAN
    /\ blockExt \in {"idle", "armed", "fired"}
    /\ sending \in Nat
    /\ down \in BOOLEAN
    /\ posted \in 0 .. MaxCallbacks
    /\ blocks \in 0 .. MaxBlocks
    /\ rewakes \in 0 .. MaxRewakes

\* Which activation may be above which: a poll or a callback is run by a drain, a drain by
\* block_on or by the host, block_on by a callback or the host; and nothing is above a poll.
StackOK(s) ==
    /\ \A i \in DOMAIN s : s[i].kind = "poll" => i = 1
    /\ \A i \in DOMAIN s : s[i].kind \in {"poll", "callback"} =>
          i + 1 \in DOMAIN s /\ s[i + 1].kind = "batch"
    /\ \A i \in DOMAIN s : s[i].kind = "batch" =>
          i + 1 \notin DOMAIN s \/ s[i + 1].kind = "block"
    /\ \A i \in DOMAIN s : s[i].kind = "block" =>
          i + 1 \notin DOMAIN s \/ s[i + 1].kind = "callback"
    /\ \A i, j \in DOMAIN s : s[i].kind = "block" /\ s[j].kind = "block" => i = j

Fits(f, s) ==
    \/ f.kind \in {"poll", "callback"} /\ s # <<>> /\ Head(s).kind = "batch"
    \/ f.kind = "batch" /\ (s = <<>> \/ Head(s).kind = "block")
    \/ /\ f.kind = "block" /\ (s = <<>> \/ Head(s).kind = "callback")
       /\ \A g \in Entries(s) : g.kind # "block"

\* A poll of t is on the stack; a wake of t is in some queue.
OnStack(t) == \E f \in Entries(stack) : f.kind = "poll" /\ f.task = t
InBatch(c, s) == \E f \in Entries(s) : f.kind = "batch" /\ c \in Entries(f.left)
Woken(t) == Wake(t) \in Entries(queue) \/ InBatch(Wake(t), stack)
Blocking == \E f \in Entries(stack) : f.kind = "block"

TaskInv(t) ==
    /\ fut[t] \in {"unspawned", "live"} => value[t] = "none" /\ ~aborted[t]
    /\ fut[t] = "unspawned" =>
          joinWaker[t] = NoOne /\ handle[t] = NoOne /\ waits[t] = NoOne /\ ~Woken(t)
    /\ joinWaker[t] \in Tasks => fut[joinWaker[t]] # "unspawned"
    /\ handle[t] \in Tasks => joinWaker[t] \in {NoOne, handle[t]}
    \* whoever awaits a handle holds it, and is the one that will be woken
    /\ fut[t] = "live" /\ waits[t] \in Tasks =>
          /\ handle[waits[t]] = t
          /\ ~Resolved(waits[t]) => joinWaker[waits[t]] = t
    /\ OnStack(t) => waits[t] = NoOne
    /\ down /\ fut[t] # "unspawned" => aborted[t]
    /\ /\ fut[t] = "live" /\ ~down
       /\ waits[t] = NoOne \/ (waits[t] \in Tasks /\ Resolved(waits[t]))
       => Woken(t) \/ OnStack(t)

BlockInv ==
    /\ blockPhase # "none" <=> Blocking
    /\ blockPhase \in {"check", "poll"} => Top("block")
    /\ blockOn \in Tasks => handle[blockOn] = Main
    /\ blockPhase = "poll" /\ blockQueued => blockExt = "fired"
    /\ NudgeArrives

IInv ==
    /\ Shape
    /\ StackOK(stack)
    /\ \A t \in Tasks : TaskInv(t)
    /\ BlockInv
    /\ down => \A t \in Tasks : ~OnStack(t)

-----------------------------------------------------------------------------
(* Sequences as sets, and the stack. *)

LEMMA Pushed ==
    ASSUME NEW S, NEW s \in Seq(S), NEW f \in S
    PROVE  /\ <<f>> \o s \in Seq(S) /\ <<f>> \o s # <<>> /\ Head(<<f>> \o s) = f
           /\ Len(s) \in Nat /\ DOMAIN s = 1 .. Len(s) /\ DOMAIN (<<f>> \o s) = 1 .. Len(s) + 1
           /\ (<<f>> \o s)[1] = f
           /\ \A i \in 1 .. Len(s) : (<<f>> \o s)[i + 1] = s[i]
OBVIOUS

LEMMA Popped ==
    ASSUME NEW S, NEW s \in Seq(S), s # <<>>
    PROVE  /\ Tail(s) \in Seq(S) /\ Head(s) \in S /\ Head(s) = s[1]
           /\ Len(s) \in Nat /\ Len(s) > 0
           /\ DOMAIN s = 1 .. Len(s) /\ DOMAIN Tail(s) = 1 .. Len(s) - 1
           /\ \A i \in 1 .. Len(s) - 1 : Tail(s)[i] = s[i + 1]
OBVIOUS

LEMMA EntriesPushed ==
    ASSUME NEW S, NEW s \in Seq(S), NEW f \in S
    PROVE  Entries(<<f>> \o s) = {f} \union Entries(s)
<1> DEFINE r == <<f>> \o s
<1>1. /\ Len(s) \in Nat /\ DOMAIN s = 1 .. Len(s) /\ DOMAIN r = 1 .. Len(s) + 1
      /\ r[1] = f /\ \A i \in 1 .. Len(s) : r[i + 1] = s[i]
  BY Pushed
<1> HIDE DEF r
<1>2. ASSUME NEW x \in Entries(r) PROVE x \in {f} \union Entries(s)
  <2>1. PICK i \in DOMAIN r : x = r[i]
    BY <1>2 DEF Entries
  <2>2. CASE i = 1
    BY <1>1, <2>1, <2>2
  <2>3. CASE i # 1
    <3>1. i - 1 \in 1 .. Len(s) /\ (i - 1) + 1 = i
      BY <1>1, <2>1, <2>3
    <3>2. s[i - 1] = x
      BY <1>1, <2>1, <3>1
    <3> QED BY <1>1, <3>1, <3>2 DEF Entries
  <2> QED BY <2>2, <2>3
<1>3. f \in Entries(r)
  <2>1. 1 \in DOMAIN r
    BY <1>1
  <2> QED BY <1>1, <2>1 DEF Entries
<1>4. ASSUME NEW x \in Entries(s) PROVE x \in Entries(r)
  <2>1. PICK i \in DOMAIN s : x = s[i]
    BY <1>4 DEF Entries
  <2>2. i + 1 \in DOMAIN r /\ r[i + 1] = x
    BY <1>1, <2>1
  <2> QED BY <2>2 DEF Entries
<1>5. Entries(r) = {f} \union Entries(s)
  BY <1>2, <1>3, <1>4
<1> QED BY <1>5 DEF r

LEMMA EntriesPopped ==
    ASSUME NEW S, NEW s \in Seq(S), s # <<>>
    PROVE  Entries(s) = {Head(s)} \union Entries(Tail(s))
<1>1. s = <<Head(s)>> \o Tail(s) /\ Head(s) \in S /\ Tail(s) \in Seq(S)
  OBVIOUS
<1>2. Entries(<<Head(s)>> \o Tail(s)) = {Head(s)} \union Entries(Tail(s))
  BY <1>1, EntriesPushed
<1> QED BY <1>1, <1>2

LEMMA EntriesEmpty == Entries(<<>>) = {}
BY DEF Entries

LEMMA EntriesJoined ==
    ASSUME NEW S, NEW s \in Seq(S), NEW r \in Seq(S)
    PROVE  s \o r \in Seq(S) /\ Entries(s \o r) = Entries(s) \union Entries(r)
<1>1. /\ s \o r \in Seq(S) /\ Len(s \o r) = Len(s) + Len(r) /\ Len(s) \in Nat /\ Len(r) \in Nat
      /\ DOMAIN s = 1 .. Len(s) /\ DOMAIN r = 1 .. Len(r)
      /\ DOMAIN (s \o r) = 1 .. Len(s) + Len(r)
      /\ \A i \in 1 .. Len(s) + Len(r) : (s \o r)[i] = IF i <= Len(s) THEN s[i] ELSE r[i - Len(s)]
  OBVIOUS
<1>2. ASSUME NEW x \in Entries(s \o r) PROVE x \in Entries(s) \union Entries(r)
  <2>1. PICK i \in DOMAIN (s \o r) : x = (s \o r)[i]
    BY <1>2 DEF Entries
  <2>2. CASE i <= Len(s)
    <3>1. i \in DOMAIN s /\ x = s[i]
      BY <1>1, <2>1, <2>2
    <3> QED BY <3>1 DEF Entries
  <2>3. CASE ~(i <= Len(s))
    <3>1. i - Len(s) \in DOMAIN r /\ x = r[i - Len(s)]
      BY <1>1, <2>1, <2>3
    <3> QED BY <3>1 DEF Entries
  <2> QED BY <2>2, <2>3
<1>3. ASSUME NEW x \in Entries(s) PROVE x \in Entries(s \o r)
  <2>1. PICK i \in DOMAIN s : x = s[i]
    BY <1>3 DEF Entries
  <2>2. i \in DOMAIN (s \o r) /\ (s \o r)[i] = x
    BY <1>1, <2>1
  <2> QED BY <2>2 DEF Entries
<1>4. ASSUME NEW x \in Entries(r) PROVE x \in Entries(s \o r)
  <2>1. PICK i \in DOMAIN r : x = r[i]
    BY <1>4 DEF Entries
  <2>2. i + Len(s) \in DOMAIN (s \o r) /\ ~(i + Len(s) <= Len(s)) /\ (i + Len(s)) - Len(s) = i
    BY <1>1, <2>1
  <2>3. (s \o r)[i + Len(s)] = x
    BY <1>1, <2>1, <2>2
  <2> QED BY <2>2, <2>3 DEF Entries
<1> QED BY <1>1, <1>2, <1>3, <1>4

LEMMA StackPushed ==
    ASSUME NEW s \in Seq(Activations), NEW f \in Activations, StackOK(s), Fits(f, s)
    PROVE  StackOK(<<f>> \o s)
<1> PICK r : r = <<f>> \o s
  OBVIOUS
<1>1. /\ Len(s) \in Nat /\ DOMAIN s = 1 .. Len(s) /\ DOMAIN r = 1 .. Len(s) + 1
      /\ r[1] = f /\ \A i \in 1 .. Len(s) : r[i + 1] = s[i]
  BY Pushed
<1>2. s # <<>> => 1 \in DOMAIN s /\ Head(s) = s[1]
  BY Popped
<1>3. s = <<>> => Len(s) = 0
  OBVIOUS
<1>4. \A i \in DOMAIN r : i # 1 => i - 1 \in DOMAIN s /\ r[i] = s[i - 1] /\ i \in Nat
  <2> TAKE i \in DOMAIN r
  <2> HAVE i # 1
  <2>1. i - 1 \in 1 .. Len(s) /\ (i - 1) + 1 = i /\ i \in Nat
    BY <1>1
  <2> QED BY <1>1, <2>1
<1>5. \A i \in DOMAIN r : i # 1 => (i + 1 \in DOMAIN r <=> (i - 1) + 1 \in DOMAIN s)
                                    /\ (i + 1 \in DOMAIN r => r[i + 1] = s[(i - 1) + 1])
  <2> TAKE i \in DOMAIN r
  <2> HAVE i # 1
  <2>1. i + 1 \in DOMAIN r <=> i \in DOMAIN s
    BY <1>1
  <2>2. (i - 1) + 1 = i
    BY <1>1
  <2>3. i \in DOMAIN s => r[i + 1] = s[i]
    BY <1>1
  <2> QED BY <2>1, <2>2, <2>3
<1>6. \A i \in DOMAIN s : s[i].kind # "poll"
  <2> SUFFICES ASSUME NEW i \in DOMAIN s, s[i].kind = "poll" PROVE FALSE
    OBVIOUS
  <2>1. i = 1
    BY DEF StackOK
  <2>2. s # <<>>
    BY <1>1, <1>3
  <2> QED BY <1>2, <2>1, <2>2 DEF Fits
<1>7. \A i \in DOMAIN r : r[i].kind = "poll" => i = 1
  BY <1>4, <1>6
<1>8. s # <<>> => 1 + 1 \in DOMAIN r /\ r[1 + 1] = Head(s)
  BY <1>1, <1>2
<1>9. s = <<>> => 1 + 1 \notin DOMAIN r
  BY <1>1, <1>3
<1>10. \A i \in DOMAIN r : r[i].kind \in {"poll", "callback"} =>
          i + 1 \in DOMAIN r /\ r[i + 1].kind = "batch"
  <2> SUFFICES ASSUME NEW i \in DOMAIN r, r[i].kind \in {"poll", "callback"}
               PROVE  i + 1 \in DOMAIN r /\ r[i + 1].kind = "batch"
    OBVIOUS
  <2>1. CASE i = 1
    BY <1>1, <1>8, <2>1 DEF Fits
  <2>2. CASE i # 1
    <3>1. i - 1 \in DOMAIN s /\ s[i - 1].kind \in {"poll", "callback"}
      BY <1>4, <2>2
    <3>2. (i - 1) + 1 \in DOMAIN s /\ s[(i - 1) + 1].kind = "batch"
      BY <3>1 DEF StackOK
    <3> QED BY <1>5, <2>2, <3>2
  <2> QED BY <2>1, <2>2
<1>11. \A i \in DOMAIN r : r[i].kind = "batch" => i + 1 \notin DOMAIN r \/ r[i + 1].kind = "block"
  <2> SUFFICES ASSUME NEW i \in DOMAIN r, r[i].kind = "batch"
               PROVE  i + 1 \notin DOMAIN r \/ r[i + 1].kind = "block"
    OBVIOUS
  <2>1. CASE i = 1
    BY <1>1, <1>8, <1>9, <2>1 DEF Fits
  <2>2. CASE i # 1
    <3>1. i - 1 \in DOMAIN s /\ s[i - 1].kind = "batch"
      BY <1>4, <2>2
    <3>2. (i - 1) + 1 \notin DOMAIN s \/ s[(i - 1) + 1].kind = "block"
      BY <3>1 DEF StackOK
    <3> QED BY <1>5, <2>2, <3>2
  <2> QED BY <2>1, <2>2
<1>12. \A i \in DOMAIN r : r[i].kind = "block" => i + 1 \notin DOMAIN r \/ r[i + 1].kind = "callback"
  <2> SUFFICES ASSUME NEW i \in DOMAIN r, r[i].kind = "block"
               PROVE  i + 1 \notin DOMAIN r \/ r[i + 1].kind = "callback"
    OBVIOUS
  <2>1. CASE i = 1
    BY <1>1, <1>8, <1>9, <2>1 DEF Fits
  <2>2. CASE i # 1
    <3>1. i - 1 \in DOMAIN s /\ s[i - 1].kind = "block"
      BY <1>4, <2>2
    <3>2. (i - 1) + 1 \notin DOMAIN s \/ s[(i - 1) + 1].kind = "callback"
      BY <3>1 DEF StackOK
    <3> QED BY <1>5, <2>2, <3>2
  <2> QED BY <2>1, <2>2
<1>13. \A i, j \in DOMAIN r : r[i].kind = "block" /\ r[j].kind = "block" => i = j
  <2> SUFFICES ASSUME NEW i \in DOMAIN r, NEW j \in DOMAIN r,
                      r[i].kind = "block", r[j].kind = "block", i # j
               PROVE  FALSE
    OBVIOUS
  <2>1. i # 1 /\ j # 1
    <3>1. ASSUME f.kind = "block", NEW k \in DOMAIN r, k # 1, r[k].kind = "block" PROVE FALSE
      <4>1. k - 1 \in DOMAIN s /\ r[k] = s[k - 1]
        BY <1>4, <3>1
      <4>2. r[k] \in Entries(s)
        BY <4>1 DEF Entries
      <4> QED BY <3>1, <4>2 DEF Fits
    <3> QED BY <1>1, <3>1
  <2>2. i - 1 \in DOMAIN s /\ s[i - 1].kind = "block" /\ j - 1 \in DOMAIN s /\ s[j - 1].kind = "block"
    BY <1>4, <2>1
  <2>3. i - 1 = j - 1
    BY <2>2 DEF StackOK
  <2>4. i \in Nat /\ j \in Nat
    BY <1>4, <2>1
  <2> QED BY <2>3, <2>4
<1>14. StackOK(r)
  BY <1>7, <1>10, <1>11, <1>12, <1>13 DEF StackOK
<1> QED BY <1>14

\* Without its top the stack is still well formed, and shows what ran the top.
LEMMA StackPopped ==
    ASSUME NEW s \in Seq(Activations), s # <<>>, StackOK(s)
    PROVE  /\ StackOK(Tail(s))
           /\ \A g \in Entries(Tail(s)) : g.kind # "poll"
           /\ Head(s).kind \in {"poll", "callback"} =>
                 Tail(s) # <<>> /\ Head(Tail(s)).kind = "batch"
           /\ Head(s).kind = "batch" => Tail(s) = <<>> \/ Head(Tail(s)).kind = "block"
           /\ Head(s).kind = "block" =>
                 /\ Tail(s) = <<>> \/ Head(Tail(s)).kind = "callback"
                 /\ \A g \in Entries(Tail(s)) : g.kind # "block"
<1> PICK r : r = Tail(s)
  OBVIOUS
<1>1. /\ r \in Seq(Activations) /\ Head(s) = s[1]
      /\ Len(s) \in Nat /\ Len(s) > 0
      /\ DOMAIN s = 1 .. Len(s) /\ DOMAIN r = 1 .. Len(s) - 1
      /\ \A i \in 1 .. Len(s) - 1 : r[i] = s[i + 1]
  BY Popped
<1>2. \A i \in DOMAIN r : i + 1 \in DOMAIN s /\ r[i] = s[i + 1] /\ i \in Nat /\ i + 1 # 1
  BY <1>1
<1>3. \A i \in DOMAIN r : (i + 1) + 1 \in DOMAIN s <=> i + 1 \in DOMAIN r
  BY <1>1
<1>4. \A i \in DOMAIN r : r[i].kind # "poll"
  BY <1>2 DEF StackOK
<1>5. r # <<>> => 1 \in DOMAIN r /\ Head(r) = r[1] /\ r[1] = s[1 + 1]
  <2> HAVE r # <<>>
  <2>1. 1 \in DOMAIN r /\ Head(r) = r[1]
    BY <1>1, Popped
  <2> QED BY <1>2, <2>1
<1>6. 1 \in DOMAIN s /\ (1 + 1 \in DOMAIN s <=> r # <<>>)
  <2>1. r = <<>> <=> Len(s) - 1 = 0
    BY <1>1, SMTT(30)
  <2> QED BY <1>1, <2>1
<1>7. StackOK(r)
  <2>1. \A i \in DOMAIN r : r[i].kind \in {"poll", "callback"} =>
           i + 1 \in DOMAIN r /\ r[i + 1].kind = "batch"
    BY <1>2, <1>3 DEF StackOK
  <2>2. \A i \in DOMAIN r : r[i].kind = "batch" => i + 1 \notin DOMAIN r \/ r[i + 1].kind = "block"
    BY <1>2, <1>3 DEF StackOK
  <2>3. \A i \in DOMAIN r : r[i].kind = "block" => i + 1 \notin DOMAIN r \/ r[i + 1].kind = "callback"
    BY <1>2, <1>3 DEF StackOK
  <2>4. \A i, j \in DOMAIN r : r[i].kind = "block" /\ r[j].kind = "block" => i = j
    <3> SUFFICES ASSUME NEW i \in DOMAIN r, NEW j \in DOMAIN r,
                        r[i].kind = "block", r[j].kind = "block"
                 PROVE  i = j
      OBVIOUS
    <3>1. i + 1 = j + 1
      BY <1>2 DEF StackOK
    <3> QED BY <1>2, <3>1
  <2> QED BY <1>4, <2>1, <2>2, <2>3, <2>4 DEF StackOK
<1>8. \A g \in Entries(r) : g.kind # "poll"
  BY <1>4 DEF Entries
<1>9. Head(s).kind \in {"poll", "callback"} => r # <<>> /\ Head(r).kind = "batch"
  BY <1>1, <1>5, <1>6, ZenonT(40) DEF StackOK
<1>10. Head(s).kind = "batch" => r = <<>> \/ Head(r).kind = "block"
  BY <1>1, <1>5, <1>6 DEF StackOK
<1>11. Head(s).kind = "block" => r = <<>> \/ Head(r).kind = "callback"
  BY <1>1, <1>5, <1>6, SMTT(30) DEF StackOK
<1>12. Head(s).kind = "block" => \A g \in Entries(r) : g.kind # "block"
  <2> SUFFICES ASSUME Head(s).kind = "block", NEW g \in Entries(r), g.kind = "block" PROVE FALSE
    OBVIOUS
  <2>1. PICK i \in DOMAIN r : g = r[i]
    BY DEF Entries
  <2>2. i + 1 \in DOMAIN s /\ s[i + 1].kind = "block" /\ i + 1 # 1
    BY <1>2, <2>1
  <2> QED BY <1>1, <1>6, <2>2 DEF StackOK
<1> QED BY <1>7, <1>8, <1>9, <1>10, <1>11, <1>12

LEMMA EntriesOne ==
    ASSUME NEW S, NEW c \in S
    PROVE  <<c>> \in Seq(S) /\ Entries(<<c>>) = {c}
<1>1. <<c>> \in Seq(S) /\ DOMAIN <<c>> = {1} /\ <<c>>[1] = c
  OBVIOUS
<1> QED BY <1>1 DEF Entries

LEMMA Kinds ==
    ASSUME NEW f \in Activations
    PROVE  /\ f.kind \in {"batch", "poll", "callback", "block"}
           /\ f.kind = "batch" => f.left \in Seq(Closures)
           /\ f.kind = "poll" => f.task \in Tasks
BY DEF Activations

LEMMA FrameKinds ==
    /\ \A cs \in Seq(Closures) :
          BatchFrame(cs) \in Activations /\ BatchFrame(cs).kind = "batch" /\ BatchFrame(cs).left = cs
    /\ \A t \in Tasks :
          PollFrame(t) \in Activations /\ PollFrame(t).kind = "poll" /\ PollFrame(t).task = t
    /\ CallbackFrame \in Activations /\ CallbackFrame.kind = "callback"
    /\ BlockFrame \in Activations /\ BlockFrame.kind = "block"
BY DEF Activations, BatchFrame, PollFrame, CallbackFrame, BlockFrame

LEMMA EntriesIn ==
    ASSUME NEW S, NEW s \in Seq(S)
    PROVE  \A x \in Entries(s) : x \in S
BY DEF Entries

LEMMA TopIsEntry ==
    ASSUME NEW S, NEW s \in Seq(S), s # <<>>
    PROVE  Head(s) \in Entries(s)
BY EntriesPopped

\* A closure of its own is told from the others by its name.
LEMMA ClosureNames ==
    /\ \A t \in Tasks : Wake(t) \in Closures /\ Wake(t) # Callback /\ Wake(t) # Nudge
    /\ \A t, u \in Tasks : Wake(t) = Wake(u) => t = u
    /\ Callback \in Closures /\ Nudge \in Closures /\ Callback # Nudge
BY DEF Wake, Callback, Nudge, Closures

-----------------------------------------------------------------------------
(* What a step does to the queue and to the stack. *)

\* What is sent is added to the queue unless the loop is down.
LEMMA SendEffect ==
    ASSUME Shape, NEW cs \in Seq(Closures), Send(cs)
    PROVE  /\ queue' \in Seq(Closures)
           /\ Entries(queue') = Entries(queue) \union (IF down THEN {} ELSE Entries(cs))
BY EntriesJoined DEF Shape, Send

LEMMA PushEffect ==
    ASSUME NEW s \in Seq(Activations), NEW f \in Activations, StackOK(s), Fits(f, s),
           stack' = <<f>> \o s
    PROVE  /\ stack' \in Seq(Activations) /\ StackOK(stack)'
           /\ stack' # <<>> /\ Head(stack') = f
           /\ Entries(stack') = {f} \union Entries(s)
<1>1. StackOK(<<f>> \o s)
  BY StackPushed
<1>2. StackOK(stack)'
  BY <1>1 DEF StackOK
<1>3. stack' \in Seq(Activations) /\ stack' # <<>> /\ Head(stack') = f
  BY Pushed
<1> QED BY <1>2, <1>3, EntriesPushed

LEMMA PopEffect ==
    ASSUME Shape, StackOK(stack), stack # <<>>, stack' = Tail(stack)
    PROVE  /\ stack' \in Seq(Activations) /\ StackOK(stack)'
           /\ \A t \in Tasks : ~OnStack(t)'
           /\ Head(stack).kind # "batch" \/ Head(stack).left = <<>> =>
                 \A c : InBatch(c, stack)' <=> InBatch(c, stack)
           /\ Head(stack).kind # "block" => (Blocking' <=> Blocking)
           /\ Head(stack).kind = "block" => ~Blocking'
           /\ Head(stack).kind \in {"poll", "callback"} => Top("batch")'
           /\ Head(stack).kind = "batch" /\ Blocking => Top("block")'
<1>1. stack \in Seq(Activations)
  BY DEF Shape
<1>2. Entries(stack) = {Head(stack)} \union Entries(Tail(stack)) /\ Tail(stack) \in Seq(Activations)
  BY <1>1, EntriesPopped, Popped
<1>3. /\ StackOK(Tail(stack))
      /\ \A g \in Entries(Tail(stack)) : g.kind # "poll"
      /\ Head(stack).kind \in {"poll", "callback"} =>
            Tail(stack) # <<>> /\ Head(Tail(stack)).kind = "batch"
      /\ Head(stack).kind = "batch" => Tail(stack) = <<>> \/ Head(Tail(stack)).kind = "block"
      /\ Head(stack).kind = "block" =>
            \A g \in Entries(Tail(stack)) : g.kind # "block"
  BY <1>1, StackPopped
<1>4. StackOK(stack)'
  BY <1>3 DEF StackOK
<1>5. \A t \in Tasks : ~OnStack(t)'
  BY <1>3 DEF OnStack
<1>6. ASSUME Head(stack).kind # "batch" \/ Head(stack).left = <<>>
      PROVE  \A c : InBatch(c, stack)' <=> InBatch(c, stack)
  BY <1>2, <1>6, EntriesEmpty DEF InBatch
<1>7. Head(stack).kind # "block" => (Blocking' <=> Blocking)
  BY <1>2 DEF Blocking
<1>8. Head(stack).kind = "block" => ~Blocking'
  BY <1>3 DEF Blocking
<1>9. Head(stack).kind \in {"poll", "callback"} => Top("batch")'
  BY <1>3 DEF Top
<1>10. Head(stack).kind = "batch" /\ Blocking => Top("block")'
  <2> SUFFICES ASSUME Head(stack).kind = "batch", Blocking PROVE Top("block")'
    OBVIOUS
  <2>1. Tail(stack) # <<>>
    BY <1>2, EntriesEmpty DEF Blocking
  <2> QED BY <1>3, <2>1 DEF Top
<1> QED BY <1>1, <1>2, <1>4, <1>5, <1>6, <1>7, <1>8, <1>9, <1>10

\* The rest of a drain once a closure is taken from it.
LEMMA RestEffect ==
    ASSUME Shape, StackOK(stack), NextClosure
    PROVE  /\ Rest \in Seq(Activations) /\ StackOK(Rest)
           /\ Rest # <<>> /\ Head(Rest).kind = "batch"
           /\ \A g \in Entries(Rest) : g.kind # "poll"
           /\ \A t \in Tasks : ~OnStack(t)
           /\ (\E g \in Entries(Rest) : g.kind = "block") <=> Blocking
           /\ Closure \in Closures /\ InBatch(Closure, stack)
           /\ \A c : InBatch(c, Rest) => InBatch(c, stack)
           /\ \A c : InBatch(c, stack) /\ c # Closure => InBatch(c, Rest)
<1> DEFINE f == Head(stack)
           r == Tail(stack)
           g == BatchFrame(Tail(f.left))
<1>1. stack \in Seq(Activations) /\ stack # <<>> /\ f.kind = "batch" /\ f.left # <<>>
  BY DEF Shape, NextClosure, Top
<1>2. f \in Activations /\ r \in Seq(Activations) /\ Entries(stack) = {f} \union Entries(r)
  BY <1>1, EntriesPopped, Popped
<1>3. f.left \in Seq(Closures)
  BY <1>1, <1>2, Kinds
<1>4. /\ Tail(f.left) \in Seq(Closures) /\ Closure \in Closures
      /\ Entries(f.left) = {Closure} \union Entries(Tail(f.left))
  BY <1>1, <1>3, EntriesPopped, Popped DEF Closure
<1>5. g \in Activations /\ g.kind = "batch" /\ g.left = Tail(f.left)
  BY <1>4, FrameKinds
<1>6. /\ StackOK(r)
      /\ \A h \in Entries(r) : h.kind # "poll"
      /\ r = <<>> \/ Head(r).kind = "block"
  BY <1>1, StackPopped
<1>7. Fits(g, r)
  BY <1>5, <1>6 DEF Fits
<1>8. Rest = <<g>> \o r
  BY DEF Rest
<1> HIDE DEF f, r, g
<1>9. /\ Rest \in Seq(Activations) /\ StackOK(Rest)
      /\ Rest # <<>> /\ Head(Rest) = g /\ Entries(Rest) = {g} \union Entries(r)
  BY <1>2, <1>5, <1>6, <1>7, <1>8, StackPushed, Pushed, EntriesPushed
<1>10. \A t \in Tasks : ~OnStack(t)
  BY <1>1, <1>2, <1>6 DEF OnStack
<1>11. (\E h \in Entries(Rest) : h.kind = "block") <=> Blocking
  BY <1>1, <1>2, <1>5, <1>9 DEF Blocking
<1>12. InBatch(Closure, stack)
  BY <1>1, <1>2, <1>4 DEF InBatch
<1>13. \A c : InBatch(c, Rest) => InBatch(c, stack)
  BY <1>1, <1>2, <1>4, <1>5, <1>9 DEF InBatch
<1>14. \A c : InBatch(c, stack) /\ c # Closure => InBatch(c, Rest)
  BY <1>1, <1>2, <1>4, <1>5, <1>9 DEF InBatch
<1>15. \A h \in Entries(Rest) : h.kind # "poll"
  BY <1>5, <1>6, <1>9
<1> QED BY <1>4, <1>5, <1>9, <1>10, <1>11, <1>12, <1>13, <1>14, <1>15

-----------------------------------------------------------------------------
(* What a step has to show when it leaves tasks, or block_on, alone. *)

LEMMA TasksKept ==
    ASSUME \A t \in Tasks : TaskInv(t), UNCHANGED <<tasks, down>>, Shape,
           \A t \in Tasks : Woken(t)' => Woken(t) \/ fut[t] # "unspawned",
           \A t \in Tasks : OnStack(t)' => OnStack(t),
           \A t \in Tasks : (Woken(t) \/ OnStack(t)) /\ ~down => Woken(t)' \/ OnStack(t)'
    PROVE  \A t \in Tasks : TaskInv(t)'
BY DEF TaskInv, Resolved, tasks, Shape

LEMMA BlockKept ==
    ASSUME BlockInv, Shape, UNCHANGED <<blockPhase, blockOn, blockExt>>,
           blockPhase \notin {"check", "poll"}, Blocking' <=> Blocking, ~Top("block")',
           \A u \in Tasks : u = blockOn /\ handle[u] = Main => handle'[u] = Main
    PROVE  BlockInv'
<1>1. (blockPhase # "none" <=> Blocking)'
  BY DEF BlockInv
<1>2. (blockOn \in Tasks => handle[blockOn] = Main)'
  BY DEF BlockInv
<1>3. NudgeArrives'
  BY DEF NudgeArrives
<1> QED BY <1>1, <1>2, <1>3 DEF BlockInv

LEMMA BlockQueueGrows ==
    ASSUME BlockInv, UNCHANGED <<stack, block, handle, down, sending>>,
           Nudge \in Entries(queue) => Nudge \in Entries(queue')
    PROVE  BlockInv'
<1>1. (Blocking' <=> Blocking) /\ (Top("block")' <=> Top("block"))
  BY DEF Blocking, Top
<1>2. NudgeArrives'
  BY <1>1 DEF BlockInv, NudgeArrives, block
<1> QED BY <1>1, <1>2 DEF BlockInv, block

\* While a drain, a poll or a callback is on top, block_on is pumping or there is none.
LEMMA NotBlockOnTop ==
    ASSUME BlockInv, Shape, ~Top("block")
    PROVE  blockPhase \in {"none", "pump"}
BY DEF BlockInv, Shape

LEMMA TopsDiffer ==
    /\ \A k \in {"batch", "poll", "callback"} : Top(k) => ~Top("block")
    /\ \A k \in {"batch", "poll", "callback"} : Top(k)' => ~Top("block")'
BY DEF Top

LEMMA StepDrain ==
    ASSUME IInv, Drain
    PROVE  IInv'
<1> DEFINE cs == IF batch THEN queue ELSE <<Head(queue)>>
           f == BatchFrame(cs)
<1>1. queue \in Seq(Closures) /\ queue # <<>> /\ stack \in Seq(Activations)
  BY DEF IInv, Shape, Drain
<1>2. /\ cs \in Seq(Closures) /\ queue' \in Seq(Closures)
      /\ Entries(queue) = Entries(cs) \union Entries(queue')
  <2>1. CASE batch
    BY <1>1, <2>1, EntriesEmpty DEF Drain
  <2>2. CASE ~batch
    <3>1. Head(queue) \in Closures /\ Tail(queue) \in Seq(Closures)
      BY <1>1, Popped
    <3> QED BY <1>1, <2>2, <3>1, EntriesPopped, EntriesOne DEF Drain
  <2> QED BY <2>1, <2>2
<1>3. f \in Activations /\ f.kind = "batch" /\ f.left = cs
  BY <1>2, FrameKinds
<1>4. stack = <<>> \/ Head(stack).kind = "block"
  BY DEF Drain, Top
<1>5. Fits(f, stack)
  BY <1>3, <1>4 DEF Fits
<1>6. stack' = <<f>> \o stack /\ UNCHANGED <<tasks, block, outside>>
  BY DEF Drain
<1> HIDE DEF cs, f
<1>7. /\ stack' \in Seq(Activations) /\ StackOK(stack)' /\ stack' # <<>> /\ Head(stack') = f
      /\ Entries(stack') = {f} \union Entries(stack)
  BY <1>1, <1>3, <1>5, <1>6, PushEffect DEF IInv
<1>8. \A t \in Tasks : Woken(t)' <=> Woken(t)
  BY <1>2, <1>3, <1>7 DEF Woken, InBatch
<1>9. \A t \in Tasks : OnStack(t)' <=> OnStack(t)
  BY <1>3, <1>7 DEF OnStack
<1>10. (Blocking' <=> Blocking) /\ ~Top("block")'
  BY <1>3, <1>7 DEF Blocking, Top
<1>11. blockPhase \in {"none", "pump"}
  <2>1. CASE stack = <<>>
    BY <2>1, NotBlockOnTop DEF IInv, Top
  <2> QED BY <2>1 DEF Drain
<1>12. Shape'
  BY <1>2, <1>6, <1>7 DEF IInv, Shape, tasks, block, outside
<1>13. \A t \in Tasks : TaskInv(t)'
  BY <1>6, <1>8, <1>9, TasksKept DEF IInv, outside
<1>14. BlockInv'
  BY <1>6, <1>10, <1>11, BlockKept DEF IInv, tasks, block
<1> QED BY <1>6, <1>7, <1>9, <1>12, <1>13, <1>14 DEF IInv, outside

LEMMA StepEndBatch ==
    ASSUME IInv, EndBatch
    PROVE  IInv'
<1>1. /\ stack # <<>> /\ Head(stack).kind = "batch" /\ Head(stack).left = <<>>
      /\ stack' = Tail(stack) /\ Top("batch")
      /\ UNCHANGED <<queue, tasks, blockOn, blockTimed, blockQueued, blockExt, outside>>
  BY DEF EndBatch, Top
<1>2. /\ stack' \in Seq(Activations) /\ StackOK(stack)'
      /\ \A t \in Tasks : ~OnStack(t)'
      /\ \A c : InBatch(c, stack)' <=> InBatch(c, stack)
      /\ Blocking' <=> Blocking
      /\ Blocking => Top("block")'
  BY <1>1, PopEffect DEF IInv
<1>3. \A t \in Tasks : Woken(t)' <=> Woken(t)
  BY <1>1, <1>2 DEF Woken
<1>4. \A t \in Tasks : ~OnStack(t)
  <2>1. \A g \in Entries(Tail(stack)) : g.kind # "poll"
    BY <1>1, StackPopped DEF IInv, Shape
  <2>2. Entries(stack) = {Head(stack)} \union Entries(Tail(stack))
    BY <1>1, EntriesPopped DEF IInv, Shape
  <2> QED BY <1>1, <2>1, <2>2 DEF OnStack
<1>5. blockPhase \in {"none", "pump"} /\ blockPhase' = (IF blockPhase = "pump" THEN "check" ELSE blockPhase)
  BY <1>1, NotBlockOnTop, TopsDiffer DEF IInv, EndBatch
<1>6. Shape'
  BY <1>1, <1>2, <1>5 DEF IInv, Shape, tasks, outside
<1>7. \A t \in Tasks : TaskInv(t)'
  BY <1>1, <1>2, <1>3, <1>4, TasksKept DEF IInv, outside
<1>8. BlockInv'
  <2>1. (blockPhase # "none" <=> Blocking)' /\ (blockPhase \in {"check", "poll"} => Top("block"))'
    BY <1>2, <1>5 DEF IInv, BlockInv
  <2>2. (blockOn \in Tasks => handle[blockOn] = Main)'
    BY <1>1 DEF IInv, BlockInv, tasks
  <2>3. blockPhase' # "poll" /\ blockPhase' # "pump"
    BY <1>5
  <2> QED BY <2>1, <2>2, <2>3 DEF BlockInv, NudgeArrives
<1> QED BY <1>2, <1>6, <1>7, <1>8 DEF IInv

-----------------------------------------------------------------------------
(* The steps that leave every task as it is. *)

\* The stack once a closure has been taken from the drain on top.
LEMMA ClosureTaken ==
    ASSUME IInv, NextClosure, stack' = Rest
    PROVE  /\ stack' \in Seq(Activations) /\ StackOK(stack)'
           /\ \A t \in Tasks : ~OnStack(t) /\ ~OnStack(t)'
           /\ Blocking' <=> Blocking
           /\ ~Top("block")' /\ blockPhase \in {"none", "pump"}
           /\ \A c : InBatch(c, stack)' => InBatch(c, stack)
           /\ \A c : InBatch(c, stack) /\ c # Closure => InBatch(c, stack)'
           /\ Closure \in Closures /\ InBatch(Closure, stack)
<1>1. Shape /\ StackOK(stack) /\ BlockInv /\ ~Top("block")
  BY TopsDiffer DEF IInv, NextClosure
<1>2. /\ Rest \in Seq(Activations) /\ StackOK(Rest)
      /\ Rest # <<>> /\ Head(Rest).kind = "batch"
      /\ \A g \in Entries(Rest) : g.kind # "poll"
      /\ \A t \in Tasks : ~OnStack(t)
      /\ (\E g \in Entries(Rest) : g.kind = "block") <=> Blocking
      /\ Closure \in Closures /\ InBatch(Closure, stack)
      /\ \A c : InBatch(c, Rest) => InBatch(c, stack)
      /\ \A c : InBatch(c, stack) /\ c # Closure => InBatch(c, Rest)
  BY <1>1, RestEffect
<1> HIDE DEF Rest, Closure
<1>3. StackOK(stack)' /\ Top("batch")'
  BY <1>2 DEF StackOK, Top
<1>4. \A c : InBatch(c, stack)' <=> InBatch(c, Rest)
  BY DEF InBatch
<1>5. (\A t \in Tasks : ~OnStack(t)') /\ (Blocking' <=> Blocking)
  BY <1>2 DEF OnStack, Blocking
<1> QED BY <1>1, <1>2, <1>3, <1>4, <1>5, NotBlockOnTop, TopsDiffer

\* The same with f, a callback or a poll, run by the closure.
LEMMA ClosureRuns ==
    ASSUME IInv, NextClosure, NEW f \in Activations, f.kind \in {"callback", "poll"},
           stack' = <<f>> \o Rest
    PROVE  /\ stack' \in Seq(Activations) /\ StackOK(stack)'
           /\ \A t \in Tasks : ~OnStack(t)
           /\ \A t \in Tasks : OnStack(t)' <=> f.kind = "poll" /\ f.task = t
           /\ Blocking' <=> Blocking
           /\ ~Top("block")' /\ blockPhase \in {"none", "pump"}
           /\ \A c : InBatch(c, stack)' => InBatch(c, stack)
           /\ \A c : InBatch(c, stack) /\ c # Closure => InBatch(c, stack)'
           /\ Closure \in Closures /\ InBatch(Closure, stack)
<1>1. Shape /\ StackOK(stack) /\ BlockInv /\ ~Top("block")
  BY TopsDiffer DEF IInv, NextClosure
<1>2. /\ Rest \in Seq(Activations) /\ StackOK(Rest)
      /\ Rest # <<>> /\ Head(Rest).kind = "batch"
      /\ \A g \in Entries(Rest) : g.kind # "poll"
      /\ \A t \in Tasks : ~OnStack(t)
      /\ (\E g \in Entries(Rest) : g.kind = "block") <=> Blocking
      /\ Closure \in Closures /\ InBatch(Closure, stack)
      /\ \A c : InBatch(c, Rest) => InBatch(c, stack)
      /\ \A c : InBatch(c, stack) /\ c # Closure => InBatch(c, Rest)
  BY <1>1, RestEffect
<1>3. Fits(f, Rest)
  BY <1>2 DEF Fits
<1> HIDE DEF Rest, Closure
<1>4. /\ stack' \in Seq(Activations) /\ StackOK(stack)' /\ stack' # <<>> /\ Head(stack') = f
      /\ Entries(stack') = {f} \union Entries(Rest)
  BY <1>2, <1>3, PushEffect
<1>5. \A c : InBatch(c, stack)' <=> InBatch(c, Rest)
  BY <1>4 DEF InBatch
<1>6. Blocking' <=> Blocking
  BY <1>2, <1>4 DEF Blocking
<1>7. \A t \in Tasks : OnStack(t)' <=> f.kind = "poll" /\ f.task = t
  BY <1>2, <1>4 DEF OnStack
<1>8. ~Top("block")'
  BY <1>4 DEF Top
<1> QED BY <1>1, <1>2, <1>4, <1>5, <1>6, <1>7, <1>8, NotBlockOnTop

LEMMA StepRunCallback ==
    ASSUME IInv, RunCallback
    PROVE  IInv'
<1>1. NextClosure /\ Closure = Callback /\ UNCHANGED <<queue, tasks, block, outside>>
  BY DEF RunCallback
<1>2. /\ stack' \in Seq(Activations) /\ StackOK(stack)'
      /\ \A t \in Tasks : ~OnStack(t) /\ ~OnStack(t)'
      /\ Blocking' <=> Blocking
      /\ ~Top("block")' /\ blockPhase \in {"none", "pump"}
      /\ \A c : InBatch(c, stack)' => InBatch(c, stack)
      /\ \A c : InBatch(c, stack) /\ c # Closure => InBatch(c, stack)'
  <2>1. CASE down
    <3>1. Rest \in Seq(Activations)
      BY <1>1, RestEffect DEF IInv
    <3>2. stack' = Rest
      BY <2>1, <3>1 DEF RunCallback
    <3> QED BY <1>1, <3>2, ClosureTaken
  <2>2. CASE ~down
    <3>1. CallbackFrame \in Activations /\ CallbackFrame.kind = "callback"
      BY FrameKinds
    <3>2. stack' = <<CallbackFrame>> \o Rest
      BY <2>2 DEF RunCallback
    <3> QED BY <1>1, <3>1, <3>2, ClosureRuns
  <2> QED BY <2>1, <2>2
<1>3. \A t \in Tasks : Woken(t)' <=> Woken(t)
  BY <1>1, <1>2, ClosureNames DEF Woken
<1>4. Shape'
  BY <1>1, <1>2 DEF IInv, Shape, tasks, block, outside
<1>5. \A t \in Tasks : TaskInv(t)'
  BY <1>1, <1>2, <1>3, TasksKept DEF IInv, outside
<1>6. BlockInv'
  BY <1>1, <1>2, BlockKept DEF IInv, tasks, block
<1> QED BY <1>2, <1>4, <1>5, <1>6 DEF IInv

LEMMA StepRunNudge ==
    ASSUME IInv, RunNudge
    PROVE  IInv'
<1>1. /\ NextClosure /\ Closure = Nudge /\ stack' = Rest
      /\ UNCHANGED <<queue, tasks, block, outside>>
  BY DEF RunNudge
<1>2. /\ stack' \in Seq(Activations) /\ StackOK(stack)'
      /\ \A t \in Tasks : ~OnStack(t) /\ ~OnStack(t)'
      /\ Blocking' <=> Blocking
      /\ ~Top("block")' /\ blockPhase \in {"none", "pump"}
      /\ \A c : InBatch(c, stack)' => InBatch(c, stack)
      /\ \A c : InBatch(c, stack) /\ c # Closure => InBatch(c, stack)'
  BY <1>1, ClosureTaken
<1>3. \A t \in Tasks : Woken(t)' <=> Woken(t)
  BY <1>1, <1>2, ClosureNames DEF Woken
<1>4. Shape'
  BY <1>1, <1>2 DEF IInv, Shape, tasks, block, outside
<1>5. \A t \in Tasks : TaskInv(t)'
  BY <1>1, <1>2, <1>3, TasksKept DEF IInv, outside
<1>6. BlockInv'
  BY <1>1, <1>2, BlockKept DEF IInv, tasks, block
<1> QED BY <1>2, <1>4, <1>5, <1>6 DEF IInv

LEMMA StepFinishCallback ==
    ASSUME IInv, FinishCallback
    PROVE  IInv'
<1>1. /\ stack # <<>> /\ Head(stack).kind = "callback" /\ stack' = Tail(stack) /\ ~Top("block")
      /\ UNCHANGED <<queue, tasks, block, outside>>
  BY DEF FinishCallback, Top
<1>2. /\ stack' \in Seq(Activations) /\ StackOK(stack)'
      /\ \A t \in Tasks : ~OnStack(t)'
      /\ \A c : InBatch(c, stack)' <=> InBatch(c, stack)
      /\ Blocking' <=> Blocking
      /\ Top("batch")'
  BY <1>1, PopEffect DEF IInv
<1>3. \A t \in Tasks : Woken(t)' <=> Woken(t)
  BY <1>1, <1>2 DEF Woken
<1>4. \A t \in Tasks : ~OnStack(t)
  <2>1. \A g \in Entries(Tail(stack)) : g.kind # "poll"
    BY <1>1, StackPopped DEF IInv, Shape
  <2>2. Entries(stack) = {Head(stack)} \union Entries(Tail(stack))
    BY <1>1, EntriesPopped DEF IInv, Shape
  <2> QED BY <1>1, <2>1, <2>2 DEF OnStack
<1>5. blockPhase \in {"none", "pump"} /\ ~Top("block")'
  BY <1>1, <1>2, NotBlockOnTop, TopsDiffer DEF IInv
<1>6. Shape'
  BY <1>1, <1>2 DEF IInv, Shape, tasks, block, outside
<1>7. \A t \in Tasks : TaskInv(t)'
  BY <1>1, <1>2, <1>3, <1>4, TasksKept DEF IInv, outside
<1>8. BlockInv'
  BY <1>1, <1>2, <1>5, BlockKept DEF IInv, tasks, block
<1> QED BY <1>2, <1>6, <1>7, <1>8 DEF IInv

\* Sends from outside the thread: the queue gains a callback, a nudge, or a wake of a task
\* that has been spawned.
LEMMA QueueOnly ==
    ASSUME IInv, NEW c \in Closures, Send(<<c>>),
           UNCHANGED <<stack, tasks, block, batch, down>>,
           sending' \in Nat, posted' \in 0 .. MaxCallbacks, blocks' = blocks,
           rewakes' \in 0 .. MaxRewakes,
           \A t \in Tasks : c = Wake(t) => fut[t] # "unspawned",
           sending' = sending \/ c = Nudge
    PROVE  IInv'
<1>1. /\ queue' \in Seq(Closures)
      /\ Entries(queue') = Entries(queue) \union (IF down THEN {} ELSE {c})
  BY SendEffect, EntriesOne DEF IInv
<1>2. Shape'
  BY <1>1 DEF IInv, Shape, tasks, block
<1>3. (\A t \in Tasks : OnStack(t)' <=> OnStack(t)) /\ StackOK(stack)'
  BY DEF OnStack, IInv, StackOK
<1>4. \A t \in Tasks : (Woken(t)' => Woken(t) \/ fut[t] # "unspawned") /\ (Woken(t) => Woken(t)')
  BY <1>1 DEF Woken, InBatch
<1>5. \A t \in Tasks : TaskInv(t)'
  BY <1>3, <1>4, TasksKept DEF IInv
<1>6. BlockInv'
  <2>1. (Blocking' <=> Blocking) /\ (Top("block")' <=> Top("block"))
    BY DEF Blocking, Top
  <2>2. NudgeArrives'
    BY <1>1, <2>1 DEF IInv, BlockInv, NudgeArrives, block
  <2> QED BY <2>1, <2>2 DEF IInv, BlockInv, block, tasks
<1> QED BY <1>2, <1>3, <1>5, <1>6 DEF IInv

LEMMA StepPost ==
    ASSUME IInv, Post
    PROVE  IInv'
<1>1. posted' \in 0 .. MaxCallbacks
  BY ExecutorAssumption DEF IInv, Shape, Post
<1>2. sending' \in Nat /\ rewakes' \in 0 .. MaxRewakes
  BY DEF IInv, Shape, Post
<1> QED BY <1>1, <1>2, QueueOnly, ClosureNames DEF Post

LEMMA StepRewake ==
    ASSUME IInv, NEW t \in Tasks, Rewake(t)
    PROVE  IInv'
<1>1. rewakes' \in 0 .. MaxRewakes
  BY ExecutorAssumption DEF IInv, Shape, Rewake
<1>2. sending' \in Nat /\ posted' \in 0 .. MaxCallbacks
  BY DEF IInv, Shape, Rewake
<1>3. \A u \in Tasks : Wake(t) = Wake(u) => fut[u] # "unspawned"
  BY ClosureNames DEF Rewake
<1> QED BY <1>1, <1>2, <1>3, QueueOnly, ClosureNames DEF Rewake

LEMMA StepSendNudge ==
    ASSUME IInv, SendNudge
    PROVE  IInv'
<1>1. sending' \in Nat
  BY DEF IInv, Shape, SendNudge
<1>2. posted' \in 0 .. MaxCallbacks /\ rewakes' \in 0 .. MaxRewakes
  BY DEF IInv, Shape, SendNudge
<1> QED BY <1>1, <1>2, QueueOnly, ClosureNames DEF SendNudge

-----------------------------------------------------------------------------
(* The steps of a wake and of a poll. *)

\* What a step that polls t knows.
LEMMA PollingKnows ==
    ASSUME IInv, NEW t \in Tasks, Polling(t)
    PROVE  /\ stack # <<>> /\ Head(stack).kind = "poll" /\ Head(stack).task = t
           /\ OnStack(t) /\ \A u \in Tasks : OnStack(u) => u = t
           /\ ~down /\ waits[t] = NoOne
           /\ ~Top("block") /\ blockPhase \in {"none", "pump"}
<1>1. stack # <<>> /\ Head(stack).kind = "poll" /\ Head(stack).task = t /\ Top("poll")
  BY DEF Polling, Top
<1>2. Entries(stack) = {Head(stack)} \union Entries(Tail(stack))
  BY <1>1, EntriesPopped DEF IInv, Shape
<1>3. \A g \in Entries(Tail(stack)) : g.kind # "poll"
  BY <1>1, StackPopped DEF IInv, Shape
<1>4. OnStack(t) /\ \A u \in Tasks : OnStack(u) => u = t
  BY <1>1, <1>2, <1>3 DEF OnStack
<1>5. ~Top("block") /\ blockPhase \in {"none", "pump"}
  BY <1>1, TopsDiffer, NotBlockOnTop DEF IInv
<1>6. ~down /\ waits[t] = NoOne
  BY <1>4 DEF IInv, Shape, TaskInv
<1> QED BY <1>1, <1>4, <1>5, <1>6

LEMMA PollPopped ==
    ASSUME IInv, NEW t \in Tasks, Polling(t), stack' = Tail(stack)
    PROVE  /\ stack' \in Seq(Activations) /\ StackOK(stack)'
           /\ \A u \in Tasks : ~OnStack(u)'
           /\ \A c : InBatch(c, stack)' <=> InBatch(c, stack)
           /\ Blocking' <=> Blocking
           /\ ~Top("block")'
BY PollingKnows, PopEffect, TopsDiffer DEF IInv

LEMMA StepPollYield ==
    ASSUME IInv, NEW t \in Tasks, PollYield(t)
    PROVE  IInv'
<1>1. /\ Polling(t) /\ fut[t] = "live" /\ Send(<<Wake(t)>>) /\ stack' = Tail(stack)
      /\ UNCHANGED <<tasks, block, outside>>
  BY DEF PollYield
<1>2. /\ stack' \in Seq(Activations) /\ StackOK(stack)'
      /\ \A u \in Tasks : ~OnStack(u)'
      /\ \A c : InBatch(c, stack)' <=> InBatch(c, stack)
      /\ Blocking' <=> Blocking
      /\ ~Top("block")'
  BY <1>1, PollPopped
<1>3. ~down /\ blockPhase \in {"none", "pump"} /\ \A u \in Tasks : OnStack(u) => u = t
  BY <1>1, PollingKnows
<1>4. queue' \in Seq(Closures) /\ Entries(queue') = Entries(queue) \union {Wake(t)}
  BY <1>1, <1>3, SendEffect, EntriesOne, ClosureNames DEF IInv
<1>5. Woken(t)' /\ \A u \in Tasks : u # t => (Woken(u)' <=> Woken(u))
  BY <1>2, <1>4, ClosureNames DEF Woken
<1>6. Shape'
  BY <1>1, <1>2, <1>4 DEF IInv, Shape, tasks, block, outside
<1>7. \A u \in Tasks : TaskInv(u)'
  BY <1>1, <1>2, <1>3, <1>5, TasksKept DEF IInv, outside
<1>8. BlockInv'
  BY <1>1, <1>2, <1>3, BlockKept DEF IInv, tasks, block
<1> QED BY <1>2, <1>6, <1>7, <1>8 DEF IInv

LEMMA StepPollPend ==
    ASSUME IInv, NEW t \in Tasks, PollPend(t)
    PROVE  IInv'
<1>1. /\ Polling(t) /\ fut[t] = "live" /\ stack' = Tail(stack)
      /\ UNCHANGED <<queue, fut, value, aborted, joinWaker, handle, block, outside>>
  BY DEF PollPend
<1>2. /\ stack' \in Seq(Activations) /\ StackOK(stack)'
      /\ \A u \in Tasks : ~OnStack(u)'
      /\ \A c : InBatch(c, stack)' <=> InBatch(c, stack)
      /\ Blocking' <=> Blocking
      /\ ~Top("block")'
  BY <1>1, PollPopped
<1>3. ~down /\ blockPhase \in {"none", "pump"} /\ \A u \in Tasks : OnStack(u) => u = t
  BY <1>1, PollingKnows
<1>4. \A u \in Tasks : Woken(u)' <=> Woken(u)
  BY <1>1, <1>2 DEF Woken
<1>5. \A u \in Tasks : waits'[u] = IF u = t THEN Ext ELSE waits[u]
  BY DEF PollPend, IInv, Shape
<1>6. Shape'
  <2>1. waits' \in [Tasks -> Tasks \union {Ext, NoOne}]
    BY DEF PollPend, IInv, Shape
  <2> QED BY <1>1, <1>2, <2>1 DEF IInv, Shape, block, outside
<1>7. ASSUME NEW u \in Tasks PROVE TaskInv(u)'
  <2>1. TaskInv(u)
    BY DEF IInv
  <2> QED BY <1>1, <1>2, <1>3, <1>4, <1>5, <2>1, ExecutorAssumption
          DEF TaskInv, Resolved, IInv, Shape, outside
<1>8. BlockInv'
  BY <1>1, <1>2, <1>3, BlockKept DEF IInv, block
<1> QED BY <1>2, <1>6, <1>7, <1>8 DEF IInv

LEMMA StepPollJoin ==
    ASSUME IInv, NEW t \in Tasks, NEW u \in Tasks, PollJoin(t, u)
    PROVE  IInv'
<1>1. /\ Polling(t) /\ fut[t] = "live" /\ handle[u] = t /\ ~Resolved(u) /\ stack' = Tail(stack)
      /\ UNCHANGED <<queue, fut, value, aborted, handle, block, outside>>
  BY DEF PollJoin
<1>2. /\ stack' \in Seq(Activations) /\ StackOK(stack)'
      /\ \A x \in Tasks : ~OnStack(x)'
      /\ \A c : InBatch(c, stack)' <=> InBatch(c, stack)
      /\ Blocking' <=> Blocking
      /\ ~Top("block")'
  BY <1>1, PollPopped
<1>3. ~down /\ blockPhase \in {"none", "pump"} /\ \A x \in Tasks : OnStack(x) => x = t
  BY <1>1, PollingKnows
<1>4. \A x \in Tasks : Woken(x)' <=> Woken(x)
  BY <1>1, <1>2 DEF Woken
<1>5. \A x \in Tasks : /\ waits'[x] = IF x = t THEN u ELSE waits[x]
                       /\ joinWaker'[x] = IF x = u THEN t ELSE joinWaker[x]
  <2>1. joinWaker[u] \in {NoOne, t}
    BY <1>1 DEF IInv, TaskInv
  <2> QED BY <2>1 DEF PollJoin, Register, IInv, Shape
<1>6. Shape'
  <2>1. waits' \in [Tasks -> Tasks \union {Ext, NoOne}]
    BY DEF PollJoin, IInv, Shape
  <2>2. joinWaker' \in [Tasks -> Tasks \union {Main, Stale, NoOne}]
    BY DEF PollJoin, Register, IInv, Shape
  <2> QED BY <1>1, <1>2, <2>1, <2>2 DEF IInv, Shape, block, outside
<1>7. ASSUME NEW x \in Tasks PROVE TaskInv(x)'
  <2>1. TaskInv(x) /\ TaskInv(u) /\ x # t => (waits[x] \in Tasks => handle[waits[x]] = x \/ fut[x] # "live")
    BY DEF IInv, TaskInv
  <2> QED BY <1>1, <1>2, <1>3, <1>4, <1>5, <2>1, ExecutorAssumption
          DEF TaskInv, Resolved, IInv, Shape, outside
<1>8. BlockInv'
  BY <1>1, <1>2, <1>3, BlockKept DEF IInv, block
<1> QED BY <1>2, <1>6, <1>7, <1>8 DEF IInv

LEMMA StepRunWake ==
    ASSUME IInv, NEW t \in Tasks, RunWake(t)
    PROVE  IInv'
<1>1. /\ NextClosure /\ Closure = Wake(t) /\ value[t] = "none" /\ ~aborted[t]
      /\ stack' = <<PollFrame(t)>> \o Rest
      /\ UNCHANGED <<queue, fut, value, aborted, joinWaker, handle, block, outside>>
  BY DEF RunWake
<1>2. PollFrame(t) \in Activations /\ PollFrame(t).kind = "poll" /\ PollFrame(t).task = t
  BY FrameKinds
<1>3. /\ stack' \in Seq(Activations) /\ StackOK(stack)'
      /\ \A u \in Tasks : ~OnStack(u)
      /\ \A u \in Tasks : OnStack(u)' <=> PollFrame(t).kind = "poll" /\ PollFrame(t).task = u
      /\ Blocking' <=> Blocking
      /\ ~Top("block")' /\ blockPhase \in {"none", "pump"}
      /\ \A c : InBatch(c, stack)' => InBatch(c, stack)
      /\ \A c : InBatch(c, stack) /\ c # Closure => InBatch(c, stack)'
      /\ InBatch(Closure, stack)
  BY <1>1, <1>2, ClosureRuns
<1>4. Woken(t) /\ \A u \in Tasks : u # t => (Woken(u)' <=> Woken(u))
  BY <1>1, <1>3, ClosureNames DEF Woken
<1>5. \A u \in Tasks : OnStack(u)' <=> u = t
  BY <1>2, <1>3
<1>6. fut[t] # "unspawned" /\ ~down
  BY <1>1, <1>4 DEF IInv, TaskInv
<1>7. \A u \in Tasks : waits'[u] = IF u = t THEN NoOne ELSE waits[u]
  BY DEF RunWake, IInv, Shape
<1>8. Shape'
  <2>1. waits' \in [Tasks -> Tasks \union {Ext, NoOne}]
    BY DEF RunWake, IInv, Shape
  <2> QED BY <1>1, <1>3, <2>1 DEF IInv, Shape, block, outside
<1>9. ASSUME NEW u \in Tasks PROVE TaskInv(u)'
  <2>1. TaskInv(u)
    BY DEF IInv
  <2> QED BY <1>1, <1>3, <1>4, <1>5, <1>6, <1>7, <2>1, ExecutorAssumption
          DEF TaskInv, Resolved, IInv, Shape, outside
<1>10. BlockInv'
  BY <1>1, <1>3, BlockKept DEF IInv, block
<1> QED BY <1>1, <1>3, <1>6, <1>8, <1>9, <1>10 DEF IInv, outside

\* Taking the joiner's waker and waking it.
LEMMA NotifyEffect ==
    ASSUME IInv, NEW t \in Tasks, NotifyJoiner(t)
    PROVE  /\ queue' \in Seq(Closures) /\ blockQueued' \in BOOLEAN
           /\ joinWaker' \in [Tasks -> Tasks \union {Main, Stale, NoOne}]
           /\ \A u \in Tasks : joinWaker'[u] = IF u = t THEN NoOne ELSE joinWaker[u]
           /\ \A c \in Entries(queue) : c \in Entries(queue')
           /\ \A u \in Tasks : Wake(u) \in Entries(queue') =>
                 Wake(u) \in Entries(queue) \/ u = joinWaker[t]
           /\ joinWaker[t] \in Tasks /\ ~down => Wake(joinWaker[t]) \in Entries(queue')
<1> DEFINE cs == CASE joinWaker[t] \in Tasks -> <<Wake(joinWaker[t])>>
                   [] joinWaker[t] = Main /\ ~blockQueued -> <<Nudge>>
                   [] OTHER -> <<>>
<1>1. /\ joinWaker \in [Tasks -> Tasks \union {Main, Stale, NoOne}]
      /\ blockQueued \in BOOLEAN /\ down \in BOOLEAN
  BY DEF IInv, Shape
<1>2. /\ cs \in Seq(Closures)
      /\ \A u \in Tasks : Wake(u) \in Entries(cs) => u = joinWaker[t]
      /\ joinWaker[t] \in Tasks => Wake(joinWaker[t]) \in Entries(cs)
  <2>1. CASE joinWaker[t] \in Tasks
    <3>1. cs = <<Wake(joinWaker[t])>>
      BY <2>1, ExecutorAssumption
    <3> HIDE DEF cs
    <3> QED BY <2>1, <3>1, EntriesOne, ClosureNames
  <2>2. CASE joinWaker[t] = Main /\ ~blockQueued
    <3>1. cs = <<Nudge>> /\ joinWaker[t] \notin Tasks
      BY <2>2, ExecutorAssumption
    <3> HIDE DEF cs
    <3> QED BY <3>1, EntriesOne, ClosureNames
  <2>3. CASE joinWaker[t] \notin Tasks /\ ~(joinWaker[t] = Main /\ ~blockQueued)
    <3>1. cs = <<>>
      BY <2>3
    <3> HIDE DEF cs
    <3> QED BY <2>3, <3>1, EntriesEmpty
  <2> QED BY <2>1, <2>2, <2>3
<1>3. Send(cs)
  BY DEF NotifyJoiner
<1> HIDE DEF cs
<1>4. /\ queue' \in Seq(Closures)
      /\ Entries(queue') = Entries(queue) \union (IF down THEN {} ELSE Entries(cs))
  BY <1>2, <1>3, SendEffect DEF IInv
<1>5. /\ joinWaker' \in [Tasks -> Tasks \union {Main, Stale, NoOne}]
      /\ \A u \in Tasks : joinWaker'[u] = IF u = t THEN NoOne ELSE joinWaker[u]
      /\ blockQueued' \in BOOLEAN
  BY <1>1 DEF NotifyJoiner
<1> QED BY <1>2, <1>4, <1>5

LEMMA StepRunRedundantWake ==
    ASSUME IInv, NEW t \in Tasks, RunRedundantWake(t)
    PROVE  IInv'
<1>1. /\ NextClosure /\ Closure = Wake(t) /\ Resolved(t) /\ stack' = Rest /\ NotifyJoiner(t)
      /\ UNCHANGED <<fut, value, aborted, handle, waits, blockPhase, blockOn, blockTimed,
                     blockExt, outside>>
  BY DEF RunRedundantWake
<1>2. /\ stack' \in Seq(Activations) /\ StackOK(stack)'
      /\ \A u \in Tasks : ~OnStack(u) /\ ~OnStack(u)'
      /\ Blocking' <=> Blocking
      /\ ~Top("block")' /\ blockPhase \in {"none", "pump"}
      /\ \A c : InBatch(c, stack)' => InBatch(c, stack)
      /\ \A c : InBatch(c, stack) /\ c # Closure => InBatch(c, stack)'
  BY <1>1, ClosureTaken
<1>3. /\ queue' \in Seq(Closures) /\ blockQueued' \in BOOLEAN
      /\ joinWaker' \in [Tasks -> Tasks \union {Main, Stale, NoOne}]
      /\ \A u \in Tasks : joinWaker'[u] = IF u = t THEN NoOne ELSE joinWaker[u]
      /\ \A c \in Entries(queue) : c \in Entries(queue')
      /\ \A u \in Tasks : Wake(u) \in Entries(queue') =>
            Wake(u) \in Entries(queue) \/ u = joinWaker[t]
  BY <1>1, NotifyEffect
<1>4. \A u \in Tasks : (Woken(u)' => Woken(u) \/ u = joinWaker[t]) /\ (u # t /\ Woken(u) => Woken(u)')
  BY <1>1, <1>2, <1>3, ClosureNames DEF Woken
<1>5. Shape'
  BY <1>1, <1>2, <1>3 DEF IInv, Shape, outside
<1>6. fut[t] # "live"
  BY <1>1 DEF IInv, TaskInv, Resolved, Shape
<1>7. ASSUME NEW u \in Tasks PROVE TaskInv(u)'
  <2>1. TaskInv(u) /\ TaskInv(t)
    BY DEF IInv
  <2> QED BY <1>1, <1>2, <1>3, <1>4, <1>6, <2>1, ExecutorAssumption
          DEF TaskInv, Resolved, IInv, Shape, outside
<1>8. BlockInv'
  BY <1>1, <1>2, BlockKept DEF IInv
<1> QED BY <1>2, <1>5, <1>7, <1>8 DEF IInv

\* The two ways a poll leaves a result and wakes the joiner.
LEMMA ResultKept ==
    ASSUME IInv, NEW t \in Tasks, NEW result \in {"ok", "panic"},
           Polling(t), fut[t] \in {"live", "done"}, stack' = Tail(stack), NotifyJoiner(t),
           fut' = [fut EXCEPT ![t] = "done"], value' = [value EXCEPT ![t] = result],
           UNCHANGED <<aborted, handle, waits, blockPhase, blockOn, blockTimed, blockExt, outside>>
    PROVE  IInv'
<1>2. /\ stack' \in Seq(Activations) /\ StackOK(stack)'
      /\ \A u \in Tasks : ~OnStack(u)'
      /\ \A c : InBatch(c, stack)' <=> InBatch(c, stack)
      /\ Blocking' <=> Blocking
      /\ ~Top("block")'
  BY PollPopped
<1>3. /\ ~down /\ blockPhase \in {"none", "pump"} /\ waits[t] = NoOne
      /\ \A u \in Tasks : OnStack(u) => u = t
  BY PollingKnows
<1>4. /\ queue' \in Seq(Closures) /\ blockQueued' \in BOOLEAN
      /\ joinWaker' \in [Tasks -> Tasks \union {Main, Stale, NoOne}]
      /\ \A u \in Tasks : joinWaker'[u] = IF u = t THEN NoOne ELSE joinWaker[u]
      /\ \A c \in Entries(queue) : c \in Entries(queue')
      /\ \A u \in Tasks : Wake(u) \in Entries(queue') =>
            Wake(u) \in Entries(queue) \/ u = joinWaker[t]
      /\ joinWaker[t] \in Tasks => Wake(joinWaker[t]) \in Entries(queue')
  BY <1>3, NotifyEffect
<1>5. /\ \A u \in Tasks : (Woken(u)' => Woken(u) \/ u = joinWaker[t]) /\ (Woken(u) => Woken(u)')
      /\ \A u \in Tasks : u = joinWaker[t] => Woken(u)'
  BY <1>2, <1>4 DEF Woken
<1>6. /\ \A u \in Tasks : fut'[u] = IF u = t THEN "done" ELSE fut[u]
      /\ \A u \in Tasks : value'[u] = IF u = t THEN result ELSE value[u]
      /\ fut' \in [Tasks -> {"unspawned", "live", "done", "dropped"}]
      /\ value' \in [Tasks -> {"none", "ok", "panic"}]
  BY DEF IInv, Shape
<1>7. Shape'
  BY <1>2, <1>4, <1>6 DEF IInv, Shape, outside
<1>8. ASSUME NEW u \in Tasks PROVE TaskInv(u)'
  <2>1. TaskInv(u) /\ TaskInv(t)
    BY DEF IInv
  <2> QED BY <1>2, <1>3, <1>4, <1>5, <1>6, <2>1, ExecutorAssumption
          DEF TaskInv, Resolved, IInv, Shape, outside
<1>9. BlockInv'
  BY <1>2, <1>3, BlockKept DEF IInv
<1> QED BY <1>2, <1>7, <1>8, <1>9 DEF IInv

LEMMA StepPollFinish ==
    ASSUME IInv, NEW t \in Tasks, NEW result \in {"ok", "panic"}, PollFinish(t, result)
    PROVE  IInv'
BY ResultKept DEF PollFinish

LEMMA StepPollAgain ==
    ASSUME IInv, NEW t \in Tasks, PollAgain(t)
    PROVE  IInv'
<1>1. fut' = [fut EXCEPT ![t] = "done"]
  BY DEF PollAgain, IInv, Shape
<1> QED BY <1>1, ResultKept DEF PollAgain

-----------------------------------------------------------------------------
(* User code, events and block_on. *)

\* Where user code runs there is no block_on on top, and no poll but its own.
LEMMA RunningKnows ==
    ASSUME IInv, NEW a \in Tasks \union {Main}, Running(a)
    PROVE  /\ ~Top("block") /\ blockPhase \in {"none", "pump"}
           /\ a = Main => (stack = <<>> \/ Head(stack).kind = "callback")
           /\ a = Main => \A t \in Tasks : ~OnStack(t)
           /\ a \in Tasks => Polling(a) /\ fut[a] = "live" /\ waits[a] = NoOne /\ ~down
<1>1. CASE a = Main
  <2>1. stack = <<>> \/ (stack # <<>> /\ Head(stack).kind = "callback")
    BY <1>1 DEF Running, Top
  <2>2. ~Top("block")
    BY <2>1 DEF Top
  <2>3. \A t \in Tasks : ~OnStack(t)
    <3>1. CASE stack = <<>>
      BY <3>1, EntriesEmpty DEF OnStack
    <3>2. CASE stack # <<>> /\ Head(stack).kind = "callback"
      <4>1. \A g \in Entries(Tail(stack)) : g.kind # "poll"
        BY <3>2, StackPopped DEF IInv, Shape
      <4>2. Entries(stack) = {Head(stack)} \union Entries(Tail(stack))
        BY <3>2, EntriesPopped DEF IInv, Shape
      <4> QED BY <3>2, <4>1, <4>2 DEF OnStack
    <3> QED BY <2>1, <3>1, <3>2
  <2>4. a \notin Tasks
    BY <1>1, ExecutorAssumption
  <2> QED BY <2>1, <2>2, <2>3, <2>4, NotBlockOnTop DEF IInv
<1>2. CASE a # Main
  BY <1>2, PollingKnows DEF Running
<1> QED BY <1>1, <1>2

\* A step that leaves the stack alone.
LEMMA StackKept ==
    ASSUME IInv, UNCHANGED stack
    PROVE  /\ stack' \in Seq(Activations) /\ StackOK(stack)'
           /\ \A t \in Tasks : OnStack(t)' <=> OnStack(t)
           /\ \A c : InBatch(c, stack)' <=> InBatch(c, stack)
           /\ Blocking' <=> Blocking
           /\ \A k \in {"batch", "poll", "callback", "block"} : Top(k)' <=> Top(k)
BY DEF IInv, Shape, StackOK, OnStack, InBatch, Blocking, Top

LEMMA StepPollJoined ==
    ASSUME IInv, NEW t \in Tasks, NEW u \in Tasks, PollJoined(t, u)
    PROVE  IInv'
<1>1. /\ Polling(t) /\ fut[t] = "live" /\ handle[u] = t /\ Resolved(u)
      /\ UNCHANGED <<queue, stack, fut, aborted, joinWaker, waits, block, outside>>
  BY DEF PollJoined
<1>2. /\ ~down /\ waits[t] = NoOne /\ ~Top("block") /\ blockPhase \in {"none", "pump"}
  BY <1>1, PollingKnows
<1>3. /\ stack' \in Seq(Activations) /\ StackOK(stack)'
      /\ \A x \in Tasks : OnStack(x)' <=> OnStack(x)
      /\ \A c : InBatch(c, stack)' <=> InBatch(c, stack)
      /\ Blocking' <=> Blocking
      /\ Top("block")' <=> Top("block")
  BY <1>1, StackKept
<1>4. \A x \in Tasks : Woken(x)' <=> Woken(x)
  BY <1>1, <1>3 DEF Woken
<1>5. \A x \in Tasks : /\ handle'[x] = IF x = u THEN NoOne ELSE handle[x]
                       /\ x # u => value'[x] = value[x]
                       /\ value'[x] \in {value[x], "none"}
  BY DEF PollJoined, IInv, Shape
<1>6. Shape'
  <2>1. /\ handle' \in [Tasks -> Tasks \union {Main, NoOne}]
        /\ value' \in [Tasks -> {"none", "ok", "panic"}]
    BY DEF PollJoined, IInv, Shape
  <2> QED BY <1>1, <1>3, <2>1 DEF IInv, Shape, block, outside
<1>7. \A x \in Tasks : fut[x] = "live" => waits[x] # u
  BY <1>1, <1>2, ExecutorAssumption DEF IInv, TaskInv
<1>8. ASSUME NEW x \in Tasks PROVE TaskInv(x)'
  <2>1. TaskInv(x) /\ TaskInv(u)
    BY DEF IInv
  <2> QED BY <1>1, <1>2, <1>3, <1>4, <1>5, <1>7, <2>1, ExecutorAssumption
          DEF TaskInv, Resolved, IInv, Shape, outside
<1>9. BlockInv'
  <2>1. \A x \in Tasks : x = blockOn /\ handle[x] = Main => handle'[x] = Main
    BY <1>1, <1>5, ExecutorAssumption
  <2> QED BY <1>1, <1>2, <1>3, <2>1, BlockKept DEF IInv, block
<1> QED BY <1>1, <1>2, <1>3, <1>6, <1>8, <1>9 DEF IInv, outside

LEMMA StepSpawn ==
    ASSUME IInv, NEW a \in Tasks \union {Main}, NEW t \in Tasks,
           NEW holder \in Tasks \union {NoOne, Main}, Spawn(a, t, holder)
    PROVE  IInv'
<1>1. /\ Running(a) /\ ~down /\ fut[t] = "unspawned" /\ Send(<<Wake(t)>>)
      /\ UNCHANGED <<stack, value, aborted, joinWaker, waits, block, outside>>
  BY DEF Spawn
<1>2. ~Top("block") /\ blockPhase \in {"none", "pump"}
  BY <1>1, RunningKnows
<1>3. /\ stack' \in Seq(Activations) /\ StackOK(stack)'
      /\ \A x \in Tasks : OnStack(x)' <=> OnStack(x)
      /\ \A c : InBatch(c, stack)' <=> InBatch(c, stack)
      /\ Blocking' <=> Blocking
      /\ Top("block")' <=> Top("block")
  BY <1>1, StackKept
<1>4. queue' \in Seq(Closures) /\ Entries(queue') = Entries(queue) \union {Wake(t)}
  BY <1>1, SendEffect, EntriesOne, ClosureNames DEF IInv
<1>5. Woken(t)' /\ \A x \in Tasks : x # t => (Woken(x)' <=> Woken(x))
  BY <1>3, <1>4, ClosureNames DEF Woken
<1>6. \A x \in Tasks : /\ fut'[x] = IF x = t THEN "live" ELSE fut[x]
                       /\ handle'[x] = IF x = t THEN holder ELSE handle[x]
  BY DEF Spawn, IInv, Shape
<1>7. Shape'
  <2>1. /\ fut' \in [Tasks -> {"unspawned", "live", "done", "dropped"}]
        /\ handle' \in [Tasks -> Tasks \union {Main, NoOne}]
    BY DEF Spawn, IInv, Shape
  <2> QED BY <1>1, <1>3, <1>4, <2>1 DEF IInv, Shape, block, outside
<1>8. joinWaker[t] = NoOne /\ handle[t] = NoOne /\ waits[t] = NoOne
  BY <1>1 DEF IInv, TaskInv
<1>9. ASSUME NEW x \in Tasks PROVE TaskInv(x)'
  <2>1. TaskInv(x) /\ TaskInv(t)
    BY DEF IInv
  <2> QED BY <1>1, <1>3, <1>5, <1>6, <1>8, <2>1, ExecutorAssumption
          DEF TaskInv, Resolved, IInv, Shape, outside
<1>10. BlockInv'
  <2>1. \A x \in Tasks : x = blockOn /\ handle[x] = Main => handle'[x] = Main
    BY <1>6, <1>8, ExecutorAssumption
  <2> QED BY <1>1, <1>2, <1>3, <2>1, BlockKept DEF IInv, block
<1> QED BY <1>1, <1>3, <1>7, <1>9, <1>10 DEF IInv, outside

LEMMA StepAbort ==
    ASSUME IInv, NEW a \in Tasks \union {Main}, NEW t \in Tasks, Abort(a, t)
    PROVE  IInv'
<1>1. /\ Running(a) /\ handle[t] = a /\ blockOn # t /\ ~aborted[t]
      /\ UNCHANGED <<queue, stack, value, joinWaker, handle, waits, block, outside>>
  BY DEF Abort
<1>2. /\ ~Top("block") /\ blockPhase \in {"none", "pump"}
      /\ a \in Tasks => fut[a] = "live" /\ waits[a] = NoOne
  BY <1>1, RunningKnows
<1>3. /\ stack' \in Seq(Activations) /\ StackOK(stack)'
      /\ \A x \in Tasks : OnStack(x)' <=> OnStack(x)
      /\ \A c : InBatch(c, stack)' <=> InBatch(c, stack)
      /\ Blocking' <=> Blocking
      /\ Top("block")' <=> Top("block")
  BY <1>1, StackKept
<1>4. \A x \in Tasks : Woken(x)' <=> Woken(x)
  BY <1>1, <1>3 DEF Woken
<1>5. \A x \in Tasks : /\ fut'[x] = IF x = t THEN "dropped" ELSE fut[x]
                       /\ aborted'[x] = IF x = t THEN TRUE ELSE aborted[x]
  BY DEF Abort, IInv, Shape
<1>6. Shape'
  <2>1. /\ fut' \in [Tasks -> {"unspawned", "live", "done", "dropped"}]
        /\ aborted' \in [Tasks -> BOOLEAN]
    BY DEF Abort, IInv, Shape
  <2> QED BY <1>1, <1>3, <2>1 DEF IInv, Shape, block, outside
<1>7. \A x \in Tasks : fut[x] = "live" => waits[x] # t
  BY <1>1, <1>2, ExecutorAssumption DEF IInv, TaskInv
<1>8. fut[t] # "unspawned"
  BY <1>1, ExecutorAssumption DEF IInv, TaskInv
<1>9. ASSUME NEW x \in Tasks PROVE TaskInv(x)'
  <2>1. TaskInv(x) /\ TaskInv(t)
    BY DEF IInv
  <2>2. /\ UNCHANGED <<value, joinWaker, handle, waits, down>>
        /\ joinWaker[x] \in Tasks \union {Main, Stale, NoOne} /\ handle[x] \in Tasks \union {Main, NoOne}
        /\ aborted \in [Tasks -> BOOLEAN]
    BY <1>1 DEF IInv, Shape, outside
  <2>3. \A y \in Tasks : fut[y] # "unspawned" => fut'[y] # "unspawned"
    BY <1>5
  <2>4. CASE x = t
    BY <1>3, <1>4, <1>5, <1>8, <2>1, <2>2, <2>3, <2>4 DEF TaskInv, Resolved
  <2>5. CASE x # t
    <3>1. fut'[x] = fut[x] /\ (aborted'[x] <=> aborted[x]) /\ (fut[x] = "live" /\ waits[x] \in Tasks => waits[x] # t)
      BY <1>5, <1>7, <2>5
    <3>2. fut[x] = "live" /\ waits[x] \in Tasks => (Resolved(waits[x])' <=> Resolved(waits[x]))
      BY <1>5, <2>2, <3>1 DEF Resolved
    <3> QED BY <1>3, <1>4, <2>1, <2>2, <2>3, <3>1, <3>2 DEF TaskInv
  <2> QED BY <2>4, <2>5
<1>10. BlockInv'
  BY <1>1, <1>2, <1>3, BlockKept DEF IInv, block
<1> QED BY <1>1, <1>3, <1>6, <1>9, <1>10 DEF IInv, outside

LEMMA StepShutdown ==
    ASSUME IInv, Shutdown
    PROVE  IInv'
<1>1. /\ Running(Main) /\ ~down /\ down'
      /\ UNCHANGED <<queue, stack, value, joinWaker, handle, waits, block, batch, sending,
                     posted, blocks, rewakes>>
  BY DEF Shutdown
<1>2. /\ ~Top("block") /\ blockPhase \in {"none", "pump"} /\ \A x \in Tasks : ~OnStack(x)
  BY <1>1, RunningKnows
<1>3. /\ stack' \in Seq(Activations) /\ StackOK(stack)'
      /\ \A x \in Tasks : OnStack(x)' <=> OnStack(x)
      /\ \A c : InBatch(c, stack)' <=> InBatch(c, stack)
      /\ Blocking' <=> Blocking
      /\ Top("block")' <=> Top("block")
  BY <1>1, StackKept
<1>4. \A x \in Tasks : Woken(x)' <=> Woken(x)
  BY <1>1, <1>3 DEF Woken
<1>5. \A x \in Tasks : /\ fut'[x] = IF fut[x] = "unspawned" THEN fut[x] ELSE "dropped"
                       /\ aborted'[x] = (aborted[x] \/ fut[x] # "unspawned")
  BY DEF Shutdown
<1>6. Shape'
  <2>1. /\ fut' \in [Tasks -> {"unspawned", "live", "done", "dropped"}]
        /\ aborted' \in [Tasks -> BOOLEAN]
    BY DEF Shutdown, IInv, Shape
  <2>2. down' \in BOOLEAN
    BY DEF Shutdown
  <2> QED BY <1>1, <1>3, <2>1, <2>2 DEF IInv, Shape, block
<1>7. ASSUME NEW x \in Tasks PROVE TaskInv(x)'
  <2>1. TaskInv(x)
    BY DEF IInv
  <2>2. fut'[x] # "live"
    BY <1>5
  <2>3. (fut[x] = "unspawned" => ~aborted'[x]) /\ (fut'[x] = "unspawned" <=> fut[x] = "unspawned")
    BY <1>5, <2>1 DEF TaskInv
  <2>4. joinWaker[x] \in Tasks => fut'[joinWaker[x]] # "unspawned"
    BY <1>5, <2>1 DEF TaskInv
  <2>5. fut'[x] # "unspawned" => aborted'[x]
    BY <1>5
  <2> QED BY <1>1, <1>2, <1>3, <1>4, <2>1, <2>2, <2>3, <2>4, <2>5 DEF TaskInv
<1>8. BlockInv'
  BY <1>1, <1>2, <1>3, BlockKept DEF IInv, block
<1> QED BY <1>2, <1>3, <1>6, <1>7, <1>8 DEF IInv

LEMMA StepFire ==
    ASSUME IInv, NEW t \in Tasks, Fire(t)
    PROVE  IInv'
<1>1. /\ waits[t] = Ext /\ fut[t] = "live" /\ Send(<<Wake(t)>>)
      /\ UNCHANGED <<stack, fut, value, aborted, joinWaker, handle, block, outside>>
  BY DEF Fire
<1>2. /\ stack' \in Seq(Activations) /\ StackOK(stack)'
      /\ \A x \in Tasks : OnStack(x)' <=> OnStack(x)
      /\ \A c : InBatch(c, stack)' <=> InBatch(c, stack)
      /\ Blocking' <=> Blocking
      /\ Top("block")' <=> Top("block")
  BY <1>1, StackKept
<1>3. /\ queue' \in Seq(Closures)
      /\ Entries(queue') = Entries(queue) \union (IF down THEN {} ELSE {Wake(t)})
  BY <1>1, SendEffect, EntriesOne, ClosureNames DEF IInv
<1>4. /\ ~down => Woken(t)'
      /\ \A x \in Tasks : (x # t => (Woken(x)' <=> Woken(x)))
  BY <1>2, <1>3, ClosureNames DEF Woken
<1>5. \A x \in Tasks : waits'[x] = IF x = t THEN NoOne ELSE waits[x]
  BY DEF Fire, IInv, Shape
<1>6. Shape'
  <2>1. waits' \in [Tasks -> Tasks \union {Ext, NoOne}]
    BY DEF Fire, IInv, Shape
  <2> QED BY <1>1, <1>2, <1>3, <2>1 DEF IInv, Shape, block, outside
<1>7. ASSUME NEW x \in Tasks PROVE TaskInv(x)'
  <2>1. TaskInv(x)
    BY DEF IInv
  <2> QED BY <1>1, <1>2, <1>4, <1>5, <2>1, ExecutorAssumption
          DEF TaskInv, Resolved, IInv, Shape, outside
<1>8. BlockInv'
  BY <1>1, <1>3, BlockQueueGrows DEF IInv, outside
<1> QED BY <1>1, <1>2, <1>6, <1>7, <1>8 DEF IInv, outside

LEMMA StepFireBlock ==
    ASSUME IInv, FireBlock
    PROVE  IInv'
<1>1. /\ blockPhase # "none" /\ blockExt' = "fired"
      /\ UNCHANGED <<queue, stack, tasks, blockPhase, blockOn, blockTimed, batch, down, posted,
                     blocks, rewakes>>
      /\ \/ blockQueued' /\ sending' = sending + 1
         \/ UNCHANGED <<blockQueued, sending>>
      /\ blockQueued' \in BOOLEAN /\ sending \in Nat
  BY DEF FireBlock, IInv, Shape
<1>2. /\ stack' \in Seq(Activations) /\ StackOK(stack)'
      /\ \A x \in Tasks : OnStack(x)' <=> OnStack(x)
      /\ \A c : InBatch(c, stack)' <=> InBatch(c, stack)
      /\ Blocking' <=> Blocking
      /\ Top("block")' <=> Top("block")
  BY <1>1, StackKept
<1>3. \A x \in Tasks : Woken(x)' <=> Woken(x)
  BY <1>1, <1>2 DEF Woken
<1>4. Shape'
  <2>1. sending' \in Nat
    BY <1>1
  <2> QED BY <1>1, <1>2, <2>1 DEF IInv, Shape, tasks
<1>5. \A x \in Tasks : TaskInv(x)'
  BY <1>1, <1>2, <1>3, TasksKept DEF IInv
<1>6. BlockInv'
  <2>1. NudgeArrives'
    <3>1. CASE sending' = sending + 1
      BY <1>1, <3>1 DEF NudgeArrives
    <3>2. CASE UNCHANGED <<blockQueued, sending>>
      BY <1>1, <1>2, <3>2 DEF IInv, BlockInv, NudgeArrives
    <3> QED BY <1>1, <3>1, <3>2
  <2> QED BY <1>1, <1>2, <2>1 DEF IInv, BlockInv, tasks
<1> QED BY <1>1, <1>2, <1>4, <1>5, <1>6 DEF IInv

LEMMA StepStartBlockOn ==
    ASSUME IInv, NEW target \in Tasks \union {Ext}, NEW timed \in TimedWaits,
           StartBlockOn(target, timed)
    PROVE  IInv'
<1>1. /\ Running(Main) /\ ~down /\ blockPhase = "none" /\ blocks < MaxBlocks
      /\ stack' = <<BlockFrame>> \o stack /\ blockPhase' = "check" /\ blockOn' = target
      /\ blockQueued' = TRUE /\ blockExt' = "idle" /\ blocks' = blocks + 1
      /\ target = Ext \/ (target \in Tasks /\ handle[target] = Main)
      /\ UNCHANGED <<queue, tasks, batch, sending, down, posted, rewakes>>
  BY DEF StartBlockOn
<1>2. /\ stack = <<>> \/ Head(stack).kind = "callback"
      /\ \A t \in Tasks : ~OnStack(t)
  BY <1>1, RunningKnows
<1>3. ~Blocking
  BY <1>1 DEF IInv, BlockInv
<1>4. BlockFrame \in Activations /\ BlockFrame.kind = "block"
  BY FrameKinds
<1>5. Fits(BlockFrame, stack)
  BY <1>2, <1>3, <1>4 DEF Fits, Blocking
<1>6. /\ stack' \in Seq(Activations) /\ StackOK(stack)'
      /\ stack' # <<>> /\ Head(stack') = BlockFrame
      /\ Entries(stack') = {BlockFrame} \union Entries(stack)
  BY <1>1, <1>4, <1>5, PushEffect DEF IInv, Shape
<1>7. \A t \in Tasks : ~OnStack(t)'
  BY <1>2, <1>4, <1>6 DEF OnStack
<1>8. \A t \in Tasks : Woken(t)' <=> Woken(t)
  BY <1>1, <1>4, <1>6 DEF Woken, InBatch
<1>9. Blocking' /\ Top("block")'
  BY <1>4, <1>6 DEF Blocking, Top
<1>10. Shape'
  <2>1. blocks' \in 0 .. MaxBlocks
    BY <1>1, ExecutorAssumption DEF IInv, Shape
  <2>2. blockTimed' \in BOOLEAN
    BY ExecutorAssumption DEF StartBlockOn
  <2> QED BY <1>1, <1>6, <2>1, <2>2 DEF IInv, Shape, tasks
<1>11. \A t \in Tasks : TaskInv(t)'
  BY <1>1, <1>2, <1>7, <1>8, TasksKept DEF IInv
<1>12. BlockInv'
  <2>1. target \in Tasks => handle'[target] = Main
    BY <1>1, ExecutorAssumption DEF tasks
  <2> QED BY <1>1, <1>9, <2>1 DEF BlockInv, NudgeArrives
<1> QED BY <1>6, <1>7, <1>10, <1>11, <1>12 DEF IInv

LEMMA StepBlockCheck ==
    ASSUME IInv, BlockCheck
    PROVE  IInv'
<1>1. /\ Top("block") /\ blockPhase = "check" /\ blockPhase' \in {"poll", "pump"} /\ ~blockQueued'
      /\ blockQueued' \in BOOLEAN
      /\ UNCHANGED <<queue, stack, tasks, blockOn, blockTimed, blockExt, outside>>
  BY DEF BlockCheck
<1>2. /\ stack' \in Seq(Activations) /\ StackOK(stack)'
      /\ \A x \in Tasks : OnStack(x)' <=> OnStack(x)
      /\ \A c : InBatch(c, stack)' <=> InBatch(c, stack)
      /\ Blocking' <=> Blocking
      /\ Top("block")' <=> Top("block")
  BY <1>1, StackKept
<1>3. \A x \in Tasks : Woken(x)' <=> Woken(x)
  BY <1>1, <1>2 DEF Woken
<1>4. Shape'
  BY <1>1, <1>2 DEF IInv, Shape, tasks, outside
<1>5. \A x \in Tasks : TaskInv(x)'
  BY <1>1, <1>2, <1>3, TasksKept DEF IInv, outside
<1>6. BlockInv'
  BY <1>1, <1>2 DEF IInv, BlockInv, NudgeArrives, tasks
<1> QED BY <1>1, <1>2, <1>4, <1>5, <1>6 DEF IInv, outside

LEMMA StepBlockPend ==
    ASSUME IInv, BlockPend
    PROVE  IInv'
<1>1. /\ Top("block") /\ blockPhase = "poll" /\ blockPhase' = "pump" /\ ~BlockReady
      /\ UNCHANGED <<queue, stack, fut, value, aborted, handle, waits, blockOn, blockTimed,
                     blockQueued, outside>>
  BY DEF BlockPend
<1>2. /\ stack' \in Seq(Activations) /\ StackOK(stack)'
      /\ \A x \in Tasks : OnStack(x)' <=> OnStack(x)
      /\ \A c : InBatch(c, stack)' <=> InBatch(c, stack)
      /\ Blocking' <=> Blocking
      /\ Top("block")' <=> Top("block")
  BY <1>1, StackKept
<1>3. \A x \in Tasks : Woken(x)' <=> Woken(x)
  BY <1>1, <1>2 DEF Woken
<1>4. /\ joinWaker' \in [Tasks -> Tasks \union {Main, Stale, NoOne}]
      /\ \A x \in Tasks : \/ joinWaker'[x] = joinWaker[x]
                          \/ x = blockOn /\ joinWaker[x] = NoOne /\ joinWaker'[x] = Main
  <2>1. CASE blockOn \in Tasks
    <3>1. joinWaker' = [joinWaker EXCEPT ![blockOn] = IF @ = NoOne THEN Main ELSE @]
      BY <2>1 DEF BlockPend, Register
    <3> QED BY <2>1, <3>1 DEF IInv, Shape
  <2>2. CASE blockOn \notin Tasks
    BY <2>2 DEF BlockPend, IInv, Shape
  <2> QED BY <2>1, <2>2
<1>5. blockExt' \in {"idle", "armed", "fired"}
  BY DEF BlockPend, IInv, Shape
<1>6. Shape'
  BY <1>1, <1>2, <1>4, <1>5 DEF IInv, Shape, outside
<1>7. blockOn \in Tasks => handle[blockOn] = Main
  BY DEF IInv, BlockInv
<1>8. ASSUME NEW x \in Tasks PROVE TaskInv(x)'
  <2>1. TaskInv(x)
    BY DEF IInv
  <2> QED BY <1>1, <1>2, <1>3, <1>4, <1>7, <2>1, ExecutorAssumption
          DEF TaskInv, Resolved, IInv, Shape, outside
<1>9. BlockInv'
  <2>1. ~blockQueued
    BY <1>1 DEF IInv, BlockInv, BlockReady
  <2> QED BY <1>1, <1>2, <2>1 DEF IInv, BlockInv, NudgeArrives
<1> QED BY <1>1, <1>2, <1>6, <1>8, <1>9 DEF IInv, outside

LEMMA StepBlockReturn ==
    ASSUME IInv, BlockReturn
    PROVE  IInv'
<1>1. /\ Top("block") /\ stack # <<>> /\ Head(stack).kind = "block" /\ stack' = Tail(stack)
      /\ blockPhase' = "none" /\ blockOn' = NoOne /\ blockTimed' = FALSE
      /\ blockQueued' = FALSE /\ blockExt' = "idle"
      /\ UNCHANGED <<queue, fut, aborted, waits, outside>>
  BY DEF BlockReturn, Top
<1>2. /\ stack' \in Seq(Activations) /\ StackOK(stack)'
      /\ \A t \in Tasks : ~OnStack(t)'
      /\ \A c : InBatch(c, stack)' <=> InBatch(c, stack)
      /\ ~Blocking'
  BY <1>1, PopEffect DEF IInv
<1>3. \A x \in Tasks : Woken(x)' <=> Woken(x)
  BY <1>1, <1>2 DEF Woken
<1>4. \A x \in Tasks : ~OnStack(x)
  <2>1. \A g \in Entries(Tail(stack)) : g.kind # "poll"
    BY <1>1, StackPopped DEF IInv, Shape
  <2>2. Entries(stack) = {Head(stack)} \union Entries(Tail(stack))
    BY <1>1, EntriesPopped DEF IInv, Shape
  <2> QED BY <1>1, <2>1, <2>2 DEF OnStack
<1>5. /\ joinWaker' \in [Tasks -> Tasks \union {Main, Stale, NoOne}]
      /\ handle' \in [Tasks -> Tasks \union {Main, NoOne}]
      /\ value' \in [Tasks -> {"none", "ok", "panic"}]
  BY DEF BlockReturn, IInv, Shape
<1>6. \A x \in Tasks :
         /\ joinWaker'[x] = IF joinWaker[x] = Main THEN Stale ELSE joinWaker[x]
         /\ x # blockOn => handle'[x] = handle[x] /\ value'[x] = value[x]
         /\ handle'[x] \in {handle[x], NoOne} /\ value'[x] \in {value[x], "none"}
  BY DEF BlockReturn, IInv, Shape
<1>7. Shape'
  BY <1>1, <1>2, <1>5 DEF IInv, Shape, outside
<1>8. blockOn \in Tasks => handle[blockOn] = Main
  BY DEF IInv, BlockInv
<1>9. \A x \in Tasks : fut[x] = "live" /\ waits[x] \in Tasks => waits[x] # blockOn
  BY <1>8, ExecutorAssumption DEF IInv, TaskInv
<1>10. ASSUME NEW x \in Tasks PROVE TaskInv(x)'
  <2>1. TaskInv(x)
    BY DEF IInv
  <2> QED BY <1>1, <1>2, <1>3, <1>4, <1>6, <1>8, <1>9, <2>1, ExecutorAssumption
          DEF TaskInv, Resolved, IInv, Shape, outside
<1>11. BlockInv'
  BY <1>1, <1>2, ExecutorAssumption DEF BlockInv, NudgeArrives
<1> QED BY <1>2, <1>7, <1>10, <1>11 DEF IInv

-----------------------------------------------------------------------------
(* The theorems. *)

LEMMA Initial ==
    ASSUME Init
    PROVE  IInv
<1>1. Entries(queue) = {} /\ Entries(stack) = {}
  BY EntriesEmpty DEF Init
<1>2. Shape
  <2>1. batch \in BOOLEAN /\ queue \in Seq(Closures) /\ stack \in Seq(Activations)
    BY ExecutorAssumption DEF Init
  <2>2. /\ fut \in [Tasks -> {"unspawned", "live", "done", "dropped"}]
        /\ value \in [Tasks -> {"none", "ok", "panic"}]
        /\ aborted \in [Tasks -> BOOLEAN]
    BY DEF Init
  <2>3. /\ joinWaker \in [Tasks -> Tasks \union {Main, Stale, NoOne}]
        /\ handle \in [Tasks -> Tasks \union {Main, NoOne}]
        /\ waits \in [Tasks -> Tasks \union {Ext, NoOne}]
    BY DEF Init
  <2>4. /\ blockPhase = "none" /\ blockOn = NoOne /\ blockTimed = FALSE
        /\ blockQueued = FALSE /\ blockExt = "idle" /\ down = FALSE
    BY DEF Init
  <2>5. /\ sending \in Nat /\ posted \in 0 .. MaxCallbacks /\ blocks \in 0 .. MaxBlocks
        /\ rewakes \in 0 .. MaxRewakes
    BY ExecutorAssumption DEF Init
  <2> QED BY <2>1, <2>2, <2>3, <2>4, <2>5 DEF Shape
<1>3. StackOK(stack)
  BY DEF Init, StackOK
<1>4. ASSUME NEW t \in Tasks PROVE TaskInv(t)
  <2>1. ~Woken(t) /\ ~OnStack(t)
    BY <1>1 DEF Woken, OnStack, InBatch
  <2> QED BY <2>1, ExecutorAssumption DEF Init, TaskInv
<1>5. BlockInv
  <2>1. ~Blocking
    BY <1>1 DEF Blocking
  <2> QED BY <2>1, ExecutorAssumption DEF Init, BlockInv, NudgeArrives
<1> QED BY <1>2, <1>3, <1>4, <1>5 DEF Init, IInv

LEMMA Stutter ==
    ASSUME IInv, UNCHANGED vars
    PROVE  IInv'
<1>1. UNCHANGED <<queue, stack, tasks, block, outside>>
  BY DEF vars
<1>2. /\ stack' \in Seq(Activations) /\ StackOK(stack)'
      /\ \A x \in Tasks : OnStack(x)' <=> OnStack(x)
      /\ \A c : InBatch(c, stack)' <=> InBatch(c, stack)
      /\ Blocking' <=> Blocking
      /\ Top("block")' <=> Top("block")
  BY <1>1, StackKept
<1>3. \A x \in Tasks : Woken(x)' <=> Woken(x)
  BY <1>1, <1>2 DEF Woken
<1>4. Shape'
  BY <1>1, <1>2 DEF IInv, Shape, tasks, block, outside
<1>5. \A x \in Tasks : TaskInv(x)'
  BY <1>1, <1>2, <1>3, TasksKept DEF IInv, outside
<1>6. BlockInv'
  BY <1>1, BlockQueueGrows DEF IInv, outside, tasks
<1> QED BY <1>1, <1>2, <1>4, <1>5, <1>6 DEF IInv, outside

LEMMA Step ==
    ASSUME IInv, Next
    PROVE  IInv'
<1>1. CASE LoopStep
  <2>1. CASE Drain \/ EndBatch \/ RunCallback \/ RunNudge \/ FinishCallback
    BY <2>1, StepDrain, StepEndBatch, StepRunCallback, StepRunNudge, StepFinishCallback
  <2>2. CASE BlockCheck \/ BlockPend \/ BlockReturn
    BY <2>2, StepBlockCheck, StepBlockPend, StepBlockReturn
  <2>3. ASSUME NEW t \in Tasks, RunWake(t) \/ RunRedundantWake(t) PROVE IInv'
    BY <2>3, StepRunWake, StepRunRedundantWake
  <2>4. ASSUME NEW t \in Tasks, PollEnds(t) PROVE IInv'
    BY <2>4, StepPollFinish, StepPollAgain, StepPollPend, StepPollYield, StepPollJoin
       DEF PollEnds
  <2> QED BY <1>1, <2>1, <2>2, <2>3, <2>4 DEF LoopStep
<1>2. CASE UserStep
  <2>1. ASSUME NEW a \in Tasks \union {Main}, NEW t \in Tasks,
               (\E holder \in Tasks \union {NoOne, Main} : Spawn(a, t, holder)) \/ Abort(a, t)
        PROVE  IInv'
    BY <2>1, StepSpawn, StepAbort
  <2>2. ASSUME NEW t \in Tasks, NEW u \in Tasks, PollJoined(t, u) PROVE IInv'
    BY <2>2, StepPollJoined
  <2>3. ASSUME NEW target \in Tasks \union {Ext}, NEW timed \in TimedWaits,
               StartBlockOn(target, timed)
        PROVE  IInv'
    BY <2>3, StepStartBlockOn
  <2> QED BY <1>2, <2>1, <2>2, <2>3, StepShutdown DEF UserStep
<1>3. CASE Background
  BY <1>3, StepPost, StepFireBlock, StepSendNudge, StepFire, StepRewake DEF Background
<1> QED BY <1>1, <1>2, <1>3 DEF Next

\* Queue, stack, tasks, handles and block_on stay consistent with each other (run_loop.rs
\* and task.rs of crates/run_loop): the induction all else here follows from.
THEOREM Inductive == Spec => []IInv
<1>1. Init => IInv
  BY Initial
<1>2. IInv /\ [Next]_vars => IInv'
  BY Step, Stutter
<1> QED BY <1>1, <1>2, PTL DEF Spec

\* The entries of a sequence and its positions say the same.
LEMMA ByPosition ==
    /\ \A t \in Tasks : Woken(t) <=> Scheduled(t)
    /\ \A t \in Tasks : OnStack(t) <=> \E i \in Frames("poll") : stack[i].task = t
    /\ Blocking <=> Frames("block") # {}
<1>1. ASSUME NEW t \in Tasks PROVE Woken(t) <=> Scheduled(t)
  BY DEF Woken, InBatch, Scheduled, Frames, Entries
<1>2. ASSUME NEW t \in Tasks PROVE OnStack(t) <=> \E i \in Frames("poll") : stack[i].task = t
  BY DEF OnStack, Frames, Entries
<1>3. Blocking <=> Frames("block") # {}
  BY DEF Blocking, Frames, Entries
<1> QED BY <1>1, <1>2, <1>3

LEMMA ImpliesExecutorInv ==
    ASSUME IInv
    PROVE  ExecutorInv
<1>1. \A i \in DOMAIN stack :
         \/ stack[i].kind = "batch" /\ stack[i].left \in Seq(Closures)
         \/ stack[i].kind = "poll" /\ stack[i].task \in Tasks
         \/ stack[i].kind \in {"callback", "block"}
  <2> TAKE i \in DOMAIN stack
  <2>1. stack[i] \in Activations
    BY DEF IInv, Shape
  <2> QED BY <2>1, Kinds
<1>2. \A i, j \in Frames("block") : i = j
  BY DEF IInv, StackOK, Frames
<1>3. (blockPhase = "none") <=> (Frames("block") = {})
  BY ByPosition DEF IInv, BlockInv
<1>4. TypeOK
  BY <1>1, <1>2, <1>3 DEF TypeOK, IInv, Shape
<1>5. NoLostWake
  <2> SUFFICES ASSUME NEW t \in Tasks, fut[t] = "live", ~down,
                      waits[t] = NoOne \/ (waits[t] \in Tasks /\ Resolved(waits[t]))
               PROVE  Scheduled(t) \/ \E i \in Frames("poll") : stack[i].task = t
    BY DEF NoLostWake
  <2>1. Woken(t) \/ OnStack(t)
    BY DEF IInv, TaskInv
  <2> QED BY <2>1, ByPosition
<1>6. ShutdownSilencesTasks
  <2> SUFFICES ASSUME down, NEW i \in Frames("poll") PROVE FALSE
    BY DEF ShutdownSilencesTasks
  <2>1. stack[i] \in Activations /\ stack[i].kind = "poll"
    BY DEF IInv, Shape, Frames
  <2>2. stack[i].task \in Tasks
    BY <2>1, Kinds
  <2>3. OnStack(stack[i].task)
    BY <2>2, ByPosition
  <2> QED BY <2>2, <2>3 DEF IInv
<1> QED BY <1>4, <1>5, <1>6 DEF ExecutorInv, IInv, BlockInv

\* No wake is lost, neither a task's nor that of a blocking poll_once: a live task that can
\* go on is queued to be polled or being polled, and while block_on sleeps in poll_once with
\* its flag set the empty callback that ends the sleep is on its way (Task, JoinHandle and
\* BlockOnWaker); and after shutdown no future is polled, whatever was queued or wakes its task
\* later (RunLoopLocal's shutdown and Task::poll).
THEOREM NoWakeIsLost == Spec => []ExecutorInv
BY Inductive, ImpliesExecutorInv, PTL
=============================================================================
