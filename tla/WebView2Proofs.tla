--------------------------- MODULE WebView2Proofs ---------------------------
(***************************************************************************)
(* The invariants of WebView2, proved for every set of views, windows and  *)
(* requests and for every choice of the calls that may fail.               *)
(*                                                                         *)
(* IInv follows a view from its construction to its end: what its creation *)
(* step says of its owner and its controller, that every creation under    *)
(* way has one place in the queue, and that what the host asked for last   *)
(* is either kept for the replay or what the controller has.               *)
(***************************************************************************)
EXTENDS WebView2, SequenceTheorems, FiniteSetTheorems, TLAPS

States == [alive : BOOLEAN, visible : BOOLEAN, ready : BOOLEAN,
           bounds : Sizes \union {None}, page : Pages \union {None}]
Natives == [controller : {"none", "open", "closed"}, visible : BOOLEAN,
            bounds : Sizes \union {None}, page : Pages \union {None}]
Asks == [bounds : Sizes \union {None}, page : Pages \union {None}, visible : BOOLEAN]

\* The queue holds the waiting creations, each once; it is active while one of them is at the
\* controller, and never waits behind nobody.
QueueInv ==
    /\ \A v, w \in Views : step[v] = "controller" /\ step[w] = "controller" => v = w
    /\ queue.active <=> \E v \in Views : step[v] = "controller"
    /\ ~queue.active => queue.pending = <<>>
    /\ ToSet(queue.pending) = {v \in Views : step[v] = "queued"}
    /\ IsInjective(queue.pending)

\* How the owner, the shared state, the creation and the controller of a view go together.
Life(v) ==
    /\ owner[v] \in {"none", "error"} <=> step[v] = "none"
    /\ owner[v] = "alive" => state[v].alive
    /\ owner[v] = "dropped" => ~state[v].alive
    /\ step[v] # "done" => native[v].controller = "none"
    /\ state[v].ready <=> native[v].controller = "open"
    /\ state[v].ready => owner[v] = "alive"

LifeInv == \A v \in Views : Life(v)

\* Where the host's last word is: kept while the view is not ready, in the controller after.
LastWord(v) ==
    owner[v] = "alive" =>
        /\ asked[v].visible = state[v].visible
        /\ ~state[v].ready =>
              /\ asked[v].page = IF state[v].page = None THEN start[v].page ELSE state[v].page
              /\ asked[v].bounds = state[v].bounds
              /\ state[v].bounds # None
        /\ state[v].ready =>
              /\ native[v].visible = asked[v].visible
              /\ native[v].page = asked[v].page
              /\ v \in Children => native[v].bounds = asked[v].bounds

AskedInv == \A v \in Views : LastWord(v)

\* No parent's subclass resizes a child.
SubclassInv == \A p \in Parents : subclass[p] \notin Children

IInv == TypeOK /\ QueueInv /\ LifeInv /\ AskedInv /\ SubclassInv

LEMMA StateType == TypeOK => state \in [Views -> States]
BY DEF TypeOK, States

LEMMA NativeType == TypeOK => native \in [Views -> Natives]
BY DEF TypeOK, Natives

LEMMA AskedType == TypeOK => asked \in [Views -> Asks]
BY DEF TypeOK, Asks

-----------------------------------------------------------------------------
(* The creation queue. *)

\* What starting the next creation does to the queue and the steps: the first tasks of q end,
\* the next one gets the controller, the others go on waiting.
LEMMA NextCreationEffect ==
    ASSUME NEW q \in Seq(Views), IsInjective(q),
           NEW steps \in [Views -> {"none", "env", "queued", "controller", "done"}],
           \A v \in Views : steps[v] # "controller",
           \A v \in Views : steps[v] = "queued" => v \in ToSet(q),
           \A i \in 2 .. Len(q) : steps[q[i]] = "queued",
           NextCreation(q, steps)
    PROVE  /\ step' \in [Views -> {"none", "env", "queued", "controller", "done"}]
           /\ queue' \in [active : BOOLEAN, pending : Seq(Views)]
           /\ QueueInv'
           /\ \A v \in Views : v \notin ToSet(q) => step'[v] = steps[v]
           /\ \A v \in ToSet(q) : step'[v] \in {"done", "controller", "queued"}
<1>1. PICK n \in 0 .. Len(q) :
        /\ queue' = IF n = Len(q) THEN [active |-> FALSE, pending |-> <<>>]
                                  ELSE [active |-> TRUE, pending |-> SubSeq(q, n + 2, Len(q))]
        /\ step' = [v \in Views |-> IF \E i \in 1..n : q[i] = v THEN "done"
                                    ELSE IF n < Len(q) /\ v = q[n + 1] THEN "controller"
                                    ELSE steps[v]]
  BY DEF NextCreation
<1>2. /\ Len(q) \in Nat
      /\ DOMAIN q = 1 .. Len(q)
      /\ \A i \in 1 .. Len(q) : q[i] \in Views
      /\ \A i, j \in 1 .. Len(q) : q[i] = q[j] => i = j
  BY DEF IsInjective
<1> n \in Nat /\ Len(q) \in Nat /\ n <= Len(q)
  BY <1>2
<1>3. \A v \in Views : v \in ToSet(q) <=> \E i \in 1 .. Len(q) : q[i] = v
  BY <1>2 DEF ToSet
<1>4. step' \in [Views -> {"none", "env", "queued", "controller", "done"}]
  BY <1>1
<1>5. /\ \A v \in Views : v \notin ToSet(q) => step'[v] = steps[v]
      /\ \A i \in 1 .. Len(q) : step'[q[i]] = IF i <= n THEN "done"
                                              ELSE IF i = n + 1 THEN "controller"
                                              ELSE "queued"
  <2>1. \A v \in Views : v \notin ToSet(q) => step'[v] = steps[v]
    BY <1>1, <1>2, <1>3
  <2>2. ASSUME NEW i \in 1 .. Len(q)
        PROVE  step'[q[i]] = IF i <= n THEN "done"
                             ELSE IF i = n + 1 THEN "controller" ELSE "queued"
    <3>1. q[i] \in Views
      BY <1>2
    <3>2. (\E j \in 1 .. n : q[j] = q[i]) <=> i <= n
      BY <1>2
    <3>3. n < Len(q) => (q[i] = q[n + 1] <=> i = n + 1)
      BY <1>2
    <3>4. i > n + 1 => steps[q[i]] = "queued"
      BY <1>2
    <3>5. step'[q[i]] = IF \E j \in 1 .. n : q[j] = q[i] THEN "done"
                        ELSE IF n < Len(q) /\ q[i] = q[n + 1] THEN "controller"
                        ELSE steps[q[i]]
      BY <1>1, <3>1
    <3>6. n < Len(q) \/ i <= n
      BY <1>2
    <3> QED BY <1>2, <3>2, <3>3, <3>4, <3>5, <3>6
  <2> QED BY <2>1, <2>2
<1>6. CASE n = Len(q)
  <2>1. queue'.active = FALSE /\ queue'.pending = <<>> /\ queue' \in [active : BOOLEAN, pending : Seq(Views)]
    BY <1>1, <1>6
  <2>2. \A v \in Views : step'[v] # "controller" /\ step'[v] # "queued"
    BY <1>2, <1>3, <1>5, <1>6
  <2>3. ToSet(queue'.pending) = {} /\ IsInjective(queue'.pending)
    BY <2>1 DEF ToSet, IsInjective
  <2>4. QueueInv'
    BY <2>1, <2>2, <2>3 DEF QueueInv
  <2>5. \A v \in ToSet(q) : step'[v] \in {"done", "controller", "queued"}
    BY <1>2, <1>5 DEF ToSet
  <2> QED BY <1>4, <1>5, <2>1, <2>4, <2>5
<1>7. CASE n < Len(q)
  <2> DEFINE rest == SubSeq(q, n + 2, Len(q))
  <2>1. /\ rest \in Seq(Views)
        /\ Len(rest) = Len(q) - n - 1
        /\ \A i \in 1 .. Len(q) - n - 1 : rest[i] = q[i + n + 1]
    <3>1. n + 2 \in Int /\ Len(q) \in Int /\ \A i \in n + 2 .. Len(q) : q[i] \in Views
      BY <1>2
    <3>2. /\ rest \in Seq(Views)
          /\ Len(rest) = IF n + 2 <= Len(q) THEN Len(q) - (n + 2) + 1 ELSE 0
          /\ \A i \in 1 .. Len(q) - (n + 2) + 1 : rest[i] = q[(n + 2) + i - 1]
      BY <3>1, SubSeqProperties
    <3>3. n + 2 <= Len(q) \/ Len(q) = n + 1
      BY <1>7
    <3>4. Len(rest) = Len(q) - n - 1
      BY <3>2, <3>3
    <3> QED BY <3>2, <3>4
  <2> HIDE DEF rest
  <2>2. queue'.active = TRUE /\ queue'.pending = rest /\ queue' \in [active : BOOLEAN, pending : Seq(Views)]
    <3>1. n # Len(q) /\ n < Len(q)
      BY <1>7
    <3>2. queue' = [active |-> TRUE, pending |-> rest]
      BY <1>1, <3>1 DEF rest
    <3> QED BY <2>1, <3>2
  <2>3. DOMAIN rest = 1 .. Len(q) - n - 1
    BY <2>1, <1>2, <1>7
  <2>4. IsInjective(rest)
    <3> SUFFICES ASSUME NEW i \in 1 .. Len(q) - n - 1, NEW j \in 1 .. Len(q) - n - 1,
                        rest[i] = rest[j]
                 PROVE  i = j
      BY <2>3 DEF IsInjective
    <3>1. q[i + n + 1] = q[j + n + 1]
      BY <2>1
    <3>2. i + n + 1 \in 1 .. Len(q) /\ j + n + 1 \in 1 .. Len(q)
      OBVIOUS
    <3> QED BY <1>2, <3>1, <3>2
  <2>5. \A v \in Views : v \in ToSet(rest) <=> \E i \in n + 2 .. Len(q) : q[i] = v
    <3>1. ASSUME NEW i \in n + 2 .. Len(q) PROVE q[i] \in ToSet(rest)
      <4>1. i - n - 1 \in 1 .. Len(q) - n - 1 /\ rest[i - n - 1] = q[i]
        BY <1>2, <1>7, <2>1
      <4> QED BY <4>1, <2>3 DEF ToSet
    <3>2. ASSUME NEW j \in 1 .. Len(q) - n - 1
          PROVE  rest[j] = q[j + n + 1] /\ j + n + 1 \in n + 2 .. Len(q)
      BY <1>2, <1>7, <2>1
    <3> QED BY <2>3, <3>1, <3>2, SMTT(30) DEF ToSet
  <2>6. \A v \in Views : step'[v] = "controller" <=> v = q[n + 1]
    BY <1>2, <1>3, <1>5, <1>7
  <2>7. \A v \in Views : step'[v] = "queued" <=> \E i \in n + 2 .. Len(q) : q[i] = v
    BY <1>2, <1>3, <1>5, <1>7
  <2>8. ToSet(rest) \subseteq Views
    BY <2>1, <2>3 DEF ToSet
  <2>9. q[n + 1] \in Views
    BY <1>2, <1>7
  <2>10. QueueInv'
    BY <2>2, <2>4, <2>5, <2>6, <2>7, <2>8, <2>9 DEF QueueInv
  <2>11. \A v \in ToSet(q) : step'[v] \in {"done", "controller", "queued"}
    BY <1>2, <1>5 DEF ToSet
  <2> QED BY <1>4, <1>5, <2>2, <2>10, <2>11
<1>8. n = Len(q) \/ n < Len(q)
  OBVIOUS
<1> QED BY <1>6, <1>7, <1>8

\* What the actions that may start a creation do to the queue and the steps.
LEMMA CreationEffect ==
    ASSUME TypeOK, QueueInv, NEW v \in Views,
           \/ step[v] \in {"none", "env"} /\ Enqueue(v)
           \/ step[v] = "controller" /\ Complete(v)
    PROVE  /\ step' \in [Views -> {"none", "env", "queued", "controller", "done"}]
           /\ queue' \in [active : BOOLEAN, pending : Seq(Views)]
           /\ QueueInv'
           /\ step[v] = "controller" => step'[v] = "done"
           /\ step'[v] \in {"queued", "controller", "done"}
           /\ \A w \in Views : w # v => \/ step'[w] = step[w]
                                        \/ /\ step[w] = "queued"
                                           /\ step'[w] \in {"controller", "done"}
<1>1. CASE step[v] = "controller" /\ Complete(v)
  <2> DEFINE q == queue.pending
             steps == [step EXCEPT ![v] = "done"]
  <2>1. q \in Seq(Views) /\ IsInjective(q)
    BY DEF TypeOK, QueueInv
  <2>2. steps \in [Views -> {"none", "env", "queued", "controller", "done"}]
    BY DEF TypeOK
  <2>3. \A w \in Views : steps[w] # "controller"
    BY <1>1 DEF QueueInv, TypeOK
  <2>4. ToSet(q) = {w \in Views : step[w] = "queued"}
    BY DEF QueueInv
  <2>5. \A w \in Views : steps[w] = IF w = v THEN "done" ELSE step[w]
    BY DEF TypeOK
  <2>6. v \notin ToSet(q)
    BY <1>1, <2>4
  <2>7. \A i \in 2 .. Len(q) : q[i] \in ToSet(q)
    BY <2>1 DEF ToSet
  <2>8. NextCreation(q, steps)
    BY <1>1 DEF Complete
  <2> HIDE DEF q, steps
  <2>9. \A i \in 2 .. Len(q) : steps[q[i]] = "queued"
    BY <2>4, <2>5, <2>6, <2>7
  <2>10. \A w \in Views : steps[w] = "queued" => w \in ToSet(q)
    BY <2>4, <2>5
  <2>11. /\ step' \in [Views -> {"none", "env", "queued", "controller", "done"}]
         /\ queue' \in [active : BOOLEAN, pending : Seq(Views)]
         /\ QueueInv'
         /\ \A w \in Views : w \notin ToSet(q) => step'[w] = steps[w]
         /\ \A w \in ToSet(q) : step'[w] \in {"done", "controller", "queued"}
    BY <2>1, <2>2, <2>3, <2>8, <2>9, <2>10, NextCreationEffect
  <2> QED BY <1>1, <2>4, <2>5, <2>6, <2>11
<1>2. CASE step[v] \in {"none", "env"} /\ Enqueue(v) /\ queue.active
  <2>1. /\ queue' = [queue EXCEPT !.pending = Append(@, v)]
        /\ step' = [step EXCEPT ![v] = "queued"]
        /\ queue.pending \in Seq(Views)
    BY <1>2 DEF Enqueue, TypeOK
  <2>2. /\ step' \in [Views -> {"none", "env", "queued", "controller", "done"}]
        /\ queue' \in [active : BOOLEAN, pending : Seq(Views)]
        /\ queue'.active = queue.active
        /\ queue'.pending = Append(queue.pending, v)
        /\ \A w \in Views : step'[w] = IF w = v THEN "queued" ELSE step[w]
    <3>1. queue \in [active : BOOLEAN, pending : Seq(Views)]
      BY DEF TypeOK
    <3>2. Append(queue.pending, v) \in Seq(Views)
      BY <2>1, AppendProperties
    <3> QED BY <2>1, <3>1, <3>2 DEF TypeOK
  <2>3. v \notin ToSet(queue.pending)
    BY <1>2 DEF QueueInv
  <2>4. ToSet(Append(queue.pending, v)) = ToSet(queue.pending) \union {v}
    BY <2>1, AppendProperties, SMTT(30) DEF ToSet
  <2>5. IsInjective(Append(queue.pending, v))
    BY <2>1, <2>3, AppendProperties DEF IsInjective, ToSet, QueueInv
  <2>6. QueueInv'
    BY <1>2, <2>2, <2>3, <2>4, <2>5 DEF QueueInv
  <2> QED BY <1>2, <2>2, <2>6
<1>3. CASE step[v] \in {"none", "env"} /\ Enqueue(v) /\ ~queue.active
  <2>1. <<v>> \in Seq(Views) /\ IsInjective(<<v>>) /\ ToSet(<<v>>) = {v} /\ Len(<<v>>) = 1
    BY DEF IsInjective, ToSet
  <2>2. \A w \in Views : step[w] # "controller" /\ step[w] # "queued"
    BY <1>3 DEF QueueInv, ToSet
  <2>3. \A i \in 2 .. Len(<<v>>) : step[<<v>>[i]] = "queued"
    BY <2>1
  <2>4. NextCreation(<<v>>, step)
    BY <1>3 DEF Enqueue
  <2>5. step \in [Views -> {"none", "env", "queued", "controller", "done"}]
    BY DEF TypeOK
  <2>6. /\ step' \in [Views -> {"none", "env", "queued", "controller", "done"}]
        /\ queue' \in [active : BOOLEAN, pending : Seq(Views)]
        /\ QueueInv'
        /\ \A w \in Views : w \notin ToSet(<<v>>) => step'[w] = step[w]
        /\ \A w \in ToSet(<<v>>) : step'[w] \in {"done", "controller", "queued"}
    BY <2>1, <2>2, <2>3, <2>4, <2>5, NextCreationEffect
  <2> QED BY <1>3, <2>1, <2>2, <2>6
<1> QED BY <1>1, <1>2, <1>3

-----------------------------------------------------------------------------
(* Each step preserves IInv: one lemma per action, one step per conjunct. *)

\* A view that a step leaves alone, but perhaps to go on with its creation, keeps its part of
\* the invariant.
LEMMA OthersKeepLife ==
    ASSUME NEW w \in Views, Life(w),
           owner'[w] = owner[w], state'[w] = state[w], native'[w] = native[w],
           \/ step'[w] = step[w]
           \/ step[w] = "queued" /\ step'[w] \in {"controller", "done"}
    PROVE  Life(w)'
BY DEF Life

LEMMA OthersKeepLastWord ==
    ASSUME NEW w \in Views, LastWord(w),
           owner'[w] = owner[w], state'[w] = state[w], start'[w] = start[w],
           asked'[w] = asked[w], native'[w] = native[w]
    PROVE  LastWord(w)'
BY DEF LastWord

LEMMA InitIInv == Init => IInv
<1> SUFFICES ASSUME Init PROVE IInv
  OBVIOUS
<1>1. TypeOK
  <2>1. (CHOOSE b \in Sizes : TRUE) \in Sizes
    BY WebView2Assumption
  <2>2. /\ state \in [Views -> States]
        /\ native \in [Views -> Natives]
    BY DEF Init, Fresh, States, Natives, Asks
  <2>3. queue \in [active : BOOLEAN, pending : Seq(Views)]
    BY EmptySeq DEF Init
  <2>4. /\ start \in [Views -> [parent : Parents \union {None}, page : Pages \union {None}]]
        /\ asked \in [Views -> Asks]
    BY DEF Init, Asks
  <2>5. /\ owner \in [Views -> {"none", "alive", "dropped", "error"}]
        /\ step \in [Views -> {"none", "env", "queued", "controller", "done"}]
        /\ subclass \in [Parents -> Views \union {None}]
        /\ parent \in [Views -> Parents \union {None}]
    BY DEF Init
  <2>6. size \in [Parents -> Sizes]
    BY <2>1, Zenon DEF Init
  <2>7. requests \in 0 .. MaxRequests
    <3>1. requests = 0 /\ MaxRequests \in Nat
      BY WebView2Assumption DEF Init
    <3> QED BY <3>1
  <2> QED BY <2>2, <2>3, <2>4, <2>5, <2>6, <2>7 DEF TypeOK, States, Natives, Asks
<1>2. QueueInv
  <2>1. queue.active = FALSE /\ queue.pending = <<>>
    BY DEF Init
  <2>2. ToSet(<<>>) = {}
    BY DEF ToSet
  <2>3. IsInjective(<<>>)
    BY DEF IsInjective
  <2>4. \A v \in Views : step[v] = "none"
    BY DEF Init
  <2> QED BY <2>1, <2>2, <2>3, <2>4 DEF QueueInv
<1>3. LifeInv /\ AskedInv
  BY DEF LifeInv, Life, AskedInv, LastWord, Init, Fresh
<1>4. SubclassInv
  BY WebView2Assumption DEF SubclassInv, Init
<1> QED BY <1>1, <1>2, <1>3, <1>4 DEF IInv

LEMMA ConstructStep ==
    ASSUME IInv, NEW v \in Views, Construct(v)
    PROVE  IInv'
<1> USE DEF IInv
<1>1. PICK p \in Parents :
        \/ NewFails(v, p)
        \/ \E page \in Pages \union {None}, shared \in BOOLEAN :
              New(v, p, page, size[p], TRUE, shared)
  BY DEF Construct
<1>2. owner[v] = "none" /\ step[v] = "none" /\ native[v].controller = "none"
  BY DEF Construct, LifeInv, Life
<1>3. CASE NewFails(v, p)
  <2>1. TypeOK'
    BY <1>3 DEF NewFails, TypeOK
  <2>2. QueueInv'
    BY <1>3 DEF NewFails, QueueInv
  <2>3. LifeInv'
    BY <1>2, <1>3 DEF NewFails, TypeOK, LifeInv, Life
  <2>4. AskedInv' /\ SubclassInv'
    BY <1>2, <1>3 DEF NewFails, TypeOK, AskedInv, LastWord, SubclassInv
  <2> QED BY <2>1, <2>2, <2>3, <2>4
<1>4. ASSUME NEW page \in Pages \union {None}, NEW shared \in BOOLEAN,
             New(v, p, page, size[p], TRUE, shared)
      PROVE  IInv'
  <2>1. size[p] \in Sizes /\ size[p] # None
    <3>1. size[p] \in Sizes
      BY DEF TypeOK
    <3> QED BY <3>1, WebView2Assumption
  <2>2. /\ owner' = [owner EXCEPT ![v] = "alive"]
        /\ parent' = [parent EXCEPT ![v] = p]
        /\ start' = [start EXCEPT ![v] = [parent |-> p, page |-> page]]
        /\ state' = [state EXCEPT ![v] = [Fresh(v, TRUE) EXCEPT !.bounds = size[p]]]
        /\ asked' = [asked EXCEPT ![v] = [bounds |-> size[p], page |-> page, visible |-> TRUE]]
        /\ UNCHANGED <<native, subclass, size, requests>>
    BY <1>4 DEF New, FirstBounds
  <2>3. /\ [Fresh(v, TRUE) EXCEPT !.bounds = size[p]]
              \in States
        /\ [Fresh(v, TRUE) EXCEPT !.bounds = size[p]].alive = TRUE
        /\ [Fresh(v, TRUE) EXCEPT !.bounds = size[p]].visible = TRUE
        /\ [Fresh(v, TRUE) EXCEPT !.bounds = size[p]].ready = FALSE
        /\ [Fresh(v, TRUE) EXCEPT !.bounds = size[p]].bounds = size[p]
        /\ [Fresh(v, TRUE) EXCEPT !.bounds = size[p]].page = None
    BY <2>1 DEF Fresh, States, Natives, Asks
  <2>4. /\ state'[v].alive = TRUE /\ state'[v].visible = TRUE /\ state'[v].ready = FALSE
        /\ state'[v].bounds = size[p] /\ state'[v].page = None
        /\ owner'[v] = "alive" /\ start'[v].page = page
        /\ asked'[v].bounds = size[p] /\ asked'[v].page = page /\ asked'[v].visible = TRUE
    BY <2>2, <2>3 DEF TypeOK
  <2>5. \A w \in Views : w # v =>
           owner'[w] = owner[w] /\ state'[w] = state[w] /\ start'[w] = start[w] /\ asked'[w] = asked[w]
    BY <2>2 DEF TypeOK
  <2>6. /\ step' \in [Views -> {"none", "env", "queued", "controller", "done"}]
        /\ queue' \in [active : BOOLEAN, pending : Seq(Views)]
        /\ QueueInv'
        /\ step'[v] # "none"
        /\ \A w \in Views : w # v => \/ step'[w] = step[w]
                                     \/ step[w] = "queued" /\ step'[w] \in {"controller", "done"}
    <3>1. CASE shared
      <4>1. Enqueue(v)
        BY <1>4, <3>1 DEF New
      <4> QED BY <1>2, <4>1, CreationEffect
    <3>2. CASE ~shared
      <4>1. step' = [step EXCEPT ![v] = "env"] /\ queue' = queue
        BY <1>4, <3>2 DEF New
      <4>2. \A w \in Views : /\ step'[w] = "controller" <=> step[w] = "controller"
                             /\ step'[w] = "queued" <=> step[w] = "queued"
        BY <1>2, <4>1 DEF TypeOK
      <4>3. {w \in Views : step'[w] = "queued"} = {w \in Views : step[w] = "queued"}
        BY <4>2
      <4>4. QueueInv'
        BY <4>1, <4>2, <4>3 DEF QueueInv
      <4> QED BY <1>2, <4>1, <4>4 DEF TypeOK
    <3> QED BY <3>1, <3>2
  <2>7. TypeOK'
    <3>1. state' \in [Views -> States]
      BY <2>2, <2>3, StateType DEF States
    <3>2. /\ start' \in [Views -> [parent : Parents \union {None}, page : Pages \union {None}]]
          /\ asked' \in [Views -> Asks]
      BY <2>1, <2>2, AskedType DEF Asks, TypeOK
    <3> QED BY <2>2, <2>6, <3>1, <3>2 DEF TypeOK, States, Natives, Asks
  <2>8. LifeInv'
    <3>1. Life(v)'
      BY <1>2, <2>2, <2>4, <2>6 DEF Life, LifeInv
    <3>2. ASSUME NEW w \in Views, w # v PROVE Life(w)'
      BY <2>2, <2>5, <2>6, <3>2, OthersKeepLife DEF LifeInv
    <3> QED BY <3>1, <3>2 DEF LifeInv
  <2>9. AskedInv'
    <3>1. LastWord(v)'
      BY <2>1, <2>4 DEF LastWord
    <3>2. ASSUME NEW w \in Views, w # v PROVE LastWord(w)'
      BY <2>2, <2>5, <3>2, OthersKeepLastWord DEF AskedInv
    <3> QED BY <3>1, <3>2 DEF AskedInv
  <2>10. SubclassInv'
    BY <2>2 DEF SubclassInv
  <2> QED BY <2>6, <2>7, <2>8, <2>9, <2>10
<1> QED BY <1>1, <1>3, <1>4

LEMMA EnvironmentStep ==
    ASSUME IInv, NEW v \in Views, EnvironmentCompletes(v)
    PROVE  IInv'
<1> USE DEF IInv
<1>1. step[v] = "env" /\ UNCHANGED <<owner, parent, start, state, native, subclass, size, asked, requests>>
  BY DEF EnvironmentCompletes
<1>2. /\ step' \in [Views -> {"none", "env", "queued", "controller", "done"}]
      /\ queue' \in [active : BOOLEAN, pending : Seq(Views)]
      /\ QueueInv'
      /\ step'[v] # "none"
      /\ \A w \in Views : w # v => \/ step'[w] = step[w]
                                   \/ step[w] = "queued" /\ step'[w] \in {"controller", "done"}
  <2>1. CASE Enqueue(v)
    BY <1>1, <2>1, CreationEffect
  <2>2. CASE step' = [step EXCEPT ![v] = "done"] /\ queue' = queue
    <3>1. \A w \in Views : /\ step'[w] = "controller" <=> step[w] = "controller"
                           /\ step'[w] = "queued" <=> step[w] = "queued"
      BY <1>1, <2>2 DEF TypeOK
    <3>2. {w \in Views : step'[w] = "queued"} = {w \in Views : step[w] = "queued"}
      BY <3>1
    <3>3. QueueInv'
      BY <2>2, <3>1, <3>2 DEF QueueInv
    <3> QED BY <2>2, <3>3 DEF TypeOK
  <2> QED BY <2>1, <2>2 DEF EnvironmentCompletes
<1>3. TypeOK'
  BY <1>1, <1>2 DEF TypeOK
<1>4. LifeInv'
  <2>1. Life(v)'
    BY <1>1, <1>2 DEF Life, LifeInv
  <2>2. ASSUME NEW w \in Views, w # v PROVE Life(w)'
    BY <1>1, <1>2, <2>2, OthersKeepLife DEF LifeInv
  <2> QED BY <2>1, <2>2 DEF LifeInv
<1>5. AskedInv' /\ SubclassInv'
  BY <1>1 DEF AskedInv, LastWord, SubclassInv
<1> QED BY <1>2, <1>3, <1>4, <1>5

LEMMA ControllerStep ==
    ASSUME IInv, NEW v \in Views, ControllerCompletes(v)
    PROVE  IInv'
<1> USE DEF IInv
<1>1. step[v] = "controller" /\ UNCHANGED <<owner, parent, start, size, asked, requests>>
  BY DEF ControllerCompletes
<1>2. /\ owner[v] \in {"alive", "dropped"}
      /\ native[v].controller = "none" /\ ~state[v].ready
      /\ state[v].alive => owner[v] = "alive"
  <2>1. owner[v] \in {"alive", "dropped"}
    <3>1. owner[v] \in {"none", "alive", "dropped", "error"}
      BY DEF TypeOK
    <3> QED BY <1>1, <3>1 DEF LifeInv, Life
  <2>2. native[v].controller = "none" /\ ~state[v].ready
    BY <1>1 DEF LifeInv, Life
  <2>3. state[v].alive => owner[v] = "alive"
    BY <2>1 DEF LifeInv, Life
  <2> QED BY <2>1, <2>2, <2>3
<1>3. /\ step' \in [Views -> {"none", "env", "queued", "controller", "done"}]
      /\ queue' \in [active : BOOLEAN, pending : Seq(Views)]
      /\ QueueInv'
      /\ step'[v] = "done"
      /\ \A w \in Views : w # v => \/ step'[w] = step[w]
                                   \/ step[w] = "queued" /\ step'[w] \in {"controller", "done"}
  BY <1>1, CreationEffect DEF ControllerCompletes
<1>4. /\ state' \in [Views -> States]
      /\ native' \in [Views -> Natives]
      /\ \A w \in Views : w # v => state'[w] = state[w] /\ native'[w] = native[w]
      /\ Life(v)'
      /\ LastWord(v)'
  <2>1. CASE UNCHANGED <<state, native>>
    <3>1. Life(v)'
      BY <1>1, <1>2, <1>3, <2>1 DEF Life, LifeInv
    <3>2. LastWord(v)'
      BY <1>1, <2>1 DEF AskedInv, LastWord
    <3> QED BY <2>1, <3>1, <3>2, StateType, NativeType
  <2>2. CASE /\ native' = [native EXCEPT ![v].controller = "closed"]
             /\ state' = state
    <3>1. native' \in [Views -> Natives]
      BY <2>2, NativeType DEF Natives
    <3>2. native'[v].controller = "closed" /\ \A w \in Views : w # v => native'[w] = native[w]
      BY <2>2 DEF TypeOK
    <3>3. Life(v)'
      BY <1>1, <1>2, <1>3, <2>2, <3>2 DEF Life, LifeInv
    <3>4. LastWord(v)'
      BY <1>1, <1>2, <2>2 DEF LastWord, AskedInv
    <3> QED BY <2>2, <3>1, <3>2, <3>3, <3>4 DEF TypeOK, States, Natives, Asks
  <2>3. CASE state[v].alive /\ InitSucceeds(v)
    <3> DEFINE built == Built(v)
               shown == Replay(v, Built(v))
    <3>1. /\ shown.controller = "open" /\ shown.visible = state[v].visible
          /\ shown.bounds = state[v].bounds
          /\ shown.page = IF state[v].page = None THEN start[v].page ELSE state[v].page
          /\ shown \in Natives
      <4>1. /\ state[v] \in States
            /\ start[v].page \in Pages \union {None}
        BY StateType DEF TypeOK
      <4> QED BY <4>1 DEF Replay, Built, States, Natives
    <3>2. /\ native' = [native EXCEPT ![v] = shown]
          /\ state' = [state EXCEPT ![v].ready = TRUE, ![v].bounds = None, ![v].page = None]
      BY <2>3 DEF InitSucceeds
    <3> HIDE DEF shown, built
    <3>3. native' \in [Views -> Natives]
      BY <3>1, <3>2, NativeType DEF Natives
    <3>4. state' \in [Views -> States]
      BY <3>2, StateType, ZenonT(40) DEF States
    <3>5. \A w \in Views : w # v => state'[w] = state[w] /\ native'[w] = native[w]
      BY <3>2 DEF TypeOK
    <3>6. /\ native'[v] = shown
          /\ state'[v].alive = state[v].alive /\ state'[v].visible = state[v].visible
          /\ state'[v].ready = TRUE
      BY <3>2 DEF TypeOK
    <3>7. Life(v)'
      BY <1>1, <1>2, <1>3, <2>3, <3>1, <3>6 DEF Life
    <3>8. LastWord(v)'
      BY <1>1, <1>2, <2>3, <3>1, <3>6 DEF LastWord, AskedInv
    <3> QED BY <3>3, <3>4, <3>5, <3>7, <3>8
  <2> QED BY <2>1, <2>2, <2>3 DEF ControllerCompletes, Finish, InitFails
<1>5. subclass' \in [Parents -> Views \union {None}] /\ SubclassInv'
  <2>1. CASE subclass' = subclass
    BY <2>1 DEF TypeOK, SubclassInv
  <2>2. CASE v \notin Children /\ subclass' = [subclass EXCEPT ![start[v].parent] = v]
    BY <2>2 DEF TypeOK, SubclassInv
  <2> QED BY <2>1, <2>2 DEF ControllerCompletes, Finish, InitFails, InitSucceeds, AttachToParent
<1>6. TypeOK'
  BY <1>1, <1>3, <1>4, <1>5 DEF TypeOK, States, Natives, Asks
<1>7. LifeInv'
  <2>1. ASSUME NEW w \in Views, w # v PROVE Life(w)'
    BY <1>1, <1>3, <1>4, <2>1, OthersKeepLife DEF LifeInv
  <2> QED BY <1>4, <2>1 DEF LifeInv
<1>8. AskedInv'
  <2>1. ASSUME NEW w \in Views, w # v PROVE LastWord(w)'
    BY <1>1, <1>4, <2>1, OthersKeepLastWord DEF AskedInv
  <2> QED BY <1>4, <2>1 DEF AskedInv
<1> QED BY <1>3, <1>5, <1>6, <1>7, <1>8

\* A call for one view leaves the creations as they are, and the other views.
LEMMA CallFrame ==
    ASSUME IInv, NEW v \in Views, TypeOK', SubclassInv',
           UNCHANGED <<start, step, queue>>,
           \A w \in Views : w # v => /\ owner'[w] = owner[w] /\ state'[w] = state[w]
                                     /\ native'[w] = native[w] /\ asked'[w] = asked[w],
           Life(v)', LastWord(v)'
    PROVE  IInv'
<1>1. QueueInv'
  BY DEF IInv, QueueInv
<1>2. LifeInv'
  <2>1. ASSUME NEW w \in Views, w # v PROVE Life(w)'
    BY <2>1, OthersKeepLife DEF LifeInv, IInv
  <2> QED BY <2>1 DEF LifeInv
<1>3. AskedInv'
  <2>1. ASSUME NEW w \in Views, w # v PROVE LastWord(w)'
    BY <2>1, OthersKeepLastWord DEF AskedInv, IInv
  <2> QED BY <2>1 DEF AskedInv
<1> QED BY <1>1, <1>2, <1>3 DEF IInv

\* The count of requests stays within its bound.
LEMMA RequestCount ==
    ASSUME TypeOK, requests < MaxRequests, requests' = requests + 1
    PROVE  requests' \in 0 .. MaxRequests
<1>1. MaxRequests \in Nat
  BY WebView2Assumption
<1>2. requests \in 0 .. MaxRequests
  BY DEF TypeOK
<1> QED BY <1>1, <1>2

LEMMA SetBoundsStep ==
    ASSUME IInv, NEW v \in Views, NEW b \in Sizes, SetBounds(v, b)
    PROVE  IInv'
<1> USE DEF IInv
<1>1. /\ owner[v] = "alive" /\ v \in Children /\ b # None
      /\ requests < MaxRequests /\ requests' = requests + 1
      /\ UNCHANGED <<owner, start, step, queue, parent, subclass, size>>
      /\ asked' = [asked EXCEPT ![v].bounds = b]
  BY WebView2Assumption DEF SetBounds, Request
<1>2. requests' \in 0 .. MaxRequests
  BY <1>1, RequestCount
<1>3. /\ asked' \in [Views -> Asks]
      /\ asked'[v].bounds = b /\ asked'[v].page = asked[v].page /\ asked'[v].visible = asked[v].visible
      /\ \A w \in Views : w # v => asked'[w] = asked[w]
  BY <1>1, AskedType DEF Asks
<1>4. SubclassInv'
  BY <1>1 DEF SubclassInv
<1>5. CASE state[v].ready
  <2>1. native' = [native EXCEPT ![v].bounds = b] /\ state' = state
    BY <1>5 DEF SetBounds
  <2>2. /\ native' \in [Views -> Natives]
        /\ native'[v].bounds = b /\ native'[v].page = native[v].page
        /\ native'[v].visible = native[v].visible /\ native'[v].controller = native[v].controller
        /\ \A w \in Views : w # v => native'[w] = native[w]
    <3>1. native' \in [Views -> Natives]
      BY <2>1, NativeType DEF Natives
    <3>2. native'[v].bounds = b /\ native'[v].page = native[v].page
      BY <2>1 DEF TypeOK
    <3>3. native'[v].visible = native[v].visible /\ native'[v].controller = native[v].controller
      BY <2>1 DEF TypeOK
    <3>4. \A w \in Views : w # v => native'[w] = native[w]
      BY <2>1 DEF TypeOK
    <3> QED BY <3>1, <3>2, <3>3, <3>4
  <2>3. TypeOK'
    BY <1>1, <1>2, <1>3, <2>1, <2>2 DEF TypeOK, States, Natives, Asks
  <2>4. Life(v)'
    BY <1>1, <2>1, <2>2 DEF Life, LifeInv
  <2>5. LastWord(v)'
    BY <1>1, <1>3, <1>5, <2>1, <2>2 DEF LastWord, AskedInv
  <2> QED BY <1>1, <1>3, <1>4, <2>1, <2>2, <2>3, <2>4, <2>5, CallFrame
<1>6. CASE ~state[v].ready
  <2>1. state' = [state EXCEPT ![v].bounds = b] /\ native' = native
    BY <1>6 DEF SetBounds
  <2>2. /\ state' \in [Views -> States]
        /\ state'[v].bounds = b /\ state'[v].page = state[v].page
        /\ state'[v].visible = state[v].visible /\ state'[v].ready = state[v].ready
        /\ state'[v].alive = state[v].alive
        /\ \A w \in Views : w # v => state'[w] = state[w]
    <3>1. state' \in [Views -> States]
      BY <2>1, StateType DEF States
    <3>2. state'[v].bounds = b /\ state'[v].page = state[v].page
      BY <2>1 DEF TypeOK
    <3>3. state'[v].visible = state[v].visible /\ state'[v].ready = state[v].ready
      BY <2>1 DEF TypeOK
    <3>4. state'[v].alive = state[v].alive
      BY <2>1 DEF TypeOK
    <3>5. \A w \in Views : w # v => state'[w] = state[w]
      BY <2>1 DEF TypeOK
    <3> QED BY <3>1, <3>2, <3>3, <3>4, <3>5
  <2>3. TypeOK'
    BY <1>1, <1>2, <1>3, <2>1, <2>2 DEF TypeOK, States, Natives, Asks
  <2>4. Life(v)'
    BY <1>1, <2>1, <2>2 DEF Life, LifeInv
  <2>5. LastWord(v)'
    BY <1>1, <1>3, <1>6, <2>1, <2>2 DEF LastWord, AskedInv
  <2> QED BY <1>1, <1>3, <1>4, <2>1, <2>2, <2>3, <2>4, <2>5, CallFrame
<1> QED BY <1>5, <1>6

LEMMA SetVisibleStep ==
    ASSUME IInv, NEW v \in Views, NEW visible \in BOOLEAN, SetVisible(v, visible)
    PROVE  IInv'
<1> USE DEF IInv
<1>1. /\ owner[v] = "alive"
      /\ requests < MaxRequests /\ requests' = requests + 1
      /\ UNCHANGED <<owner, start, step, queue, parent, subclass, size>>
      /\ asked' = [asked EXCEPT ![v].visible = visible]
      /\ state' = [state EXCEPT ![v].visible = visible]
  BY DEF SetVisible, Request
<1>2. requests' \in 0 .. MaxRequests
  BY <1>1, RequestCount
<1>3. /\ asked' \in [Views -> Asks]
      /\ asked'[v].visible = visible
      /\ asked'[v].page = asked[v].page /\ asked'[v].bounds = asked[v].bounds
      /\ \A w \in Views : w # v => asked'[w] = asked[w]
  <2>1. asked' \in [Views -> Asks]
    BY <1>1, AskedType DEF Asks
  <2>2. asked'[v].visible = visible
    BY <1>1 DEF TypeOK
  <2>3. asked'[v].page = asked[v].page /\ asked'[v].bounds = asked[v].bounds
    BY <1>1 DEF TypeOK
  <2>4. \A w \in Views : w # v => asked'[w] = asked[w]
    BY <1>1 DEF TypeOK
  <2> QED BY <2>1, <2>2, <2>3, <2>4
<1>4. /\ state' \in [Views -> States]
      /\ state'[v].visible = visible
      /\ state'[v].bounds = state[v].bounds /\ state'[v].page = state[v].page
      /\ state'[v].ready = state[v].ready /\ state'[v].alive = state[v].alive
      /\ \A w \in Views : w # v => state'[w] = state[w]
  <2>1. state' \in [Views -> States]
    BY <1>1, StateType DEF States
  <2>2. state'[v].visible = visible
    BY <1>1 DEF TypeOK
  <2>3. state'[v].bounds = state[v].bounds /\ state'[v].page = state[v].page
    BY <1>1 DEF TypeOK
  <2>4. state'[v].ready = state[v].ready /\ state'[v].alive = state[v].alive
    BY <1>1 DEF TypeOK
  <2>5. \A w \in Views : w # v => state'[w] = state[w]
    BY <1>1 DEF TypeOK
  <2> QED BY <2>1, <2>2, <2>3, <2>4, <2>5
<1>5. /\ native' \in [Views -> Natives]
      /\ state[v].ready => native'[v].visible = visible
      /\ native'[v].bounds = native[v].bounds /\ native'[v].page = native[v].page
      /\ native'[v].controller = native[v].controller
      /\ \A w \in Views : w # v => native'[w] = native[w]
  <2>1. CASE state[v].ready /\ native' = [native EXCEPT ![v].visible = visible]
    BY <2>1, NativeType DEF Natives
  <2>2. CASE ~state[v].ready /\ native' = native
    BY <2>2, NativeType DEF Natives
  <2> QED BY <2>1, <2>2 DEF SetVisible
<1>6. TypeOK' /\ SubclassInv'
  BY <1>1, <1>2, <1>3, <1>4, <1>5 DEF TypeOK, SubclassInv, States, Natives, Asks
<1>7. Life(v)'
  BY <1>1, <1>4, <1>5 DEF Life, LifeInv
<1>8. LastWord(v)'
  BY <1>1, <1>3, <1>4, <1>5 DEF LastWord, AskedInv
<1> QED BY <1>1, <1>3, <1>4, <1>5, <1>6, <1>7, <1>8, CallFrame

LEMMA LoadStep ==
    ASSUME IInv, NEW v \in Views, NEW page \in Pages, Load(v, page)
    PROVE  IInv'
<1> USE DEF IInv
<1>1. /\ owner[v] = "alive" /\ page # None
      /\ requests < MaxRequests /\ requests' = requests + 1
      /\ UNCHANGED <<owner, start, step, queue, parent, subclass, size>>
      /\ asked' = [asked EXCEPT ![v].page = page]
  BY WebView2Assumption DEF Load, Request
<1>2. requests' \in 0 .. MaxRequests
  BY <1>1, RequestCount
<1>3. /\ asked' \in [Views -> Asks]
      /\ asked'[v].page = page
      /\ asked'[v].bounds = asked[v].bounds /\ asked'[v].visible = asked[v].visible
      /\ \A w \in Views : w # v => asked'[w] = asked[w]
  BY <1>1, AskedType DEF Asks
<1>4. SubclassInv'
  BY <1>1 DEF SubclassInv
<1>5. CASE state[v].ready
  <2>1. native' = [native EXCEPT ![v].page = page] /\ state' = state
    BY <1>5 DEF Load
  <2>2. /\ native' \in [Views -> Natives]
        /\ native'[v].page = page /\ native'[v].bounds = native[v].bounds
        /\ native'[v].visible = native[v].visible /\ native'[v].controller = native[v].controller
        /\ \A w \in Views : w # v => native'[w] = native[w]
    <3>1. native' \in [Views -> Natives]
      BY <2>1, NativeType DEF Natives
    <3>2. native'[v].page = page /\ native'[v].bounds = native[v].bounds
      BY <2>1 DEF TypeOK
    <3>3. native'[v].visible = native[v].visible /\ native'[v].controller = native[v].controller
      BY <2>1 DEF TypeOK
    <3>4. \A w \in Views : w # v => native'[w] = native[w]
      BY <2>1 DEF TypeOK
    <3> QED BY <3>1, <3>2, <3>3, <3>4
  <2>3. TypeOK'
    BY <1>1, <1>2, <1>3, <2>1, <2>2 DEF TypeOK, States, Natives, Asks
  <2>4. Life(v)'
    BY <1>1, <2>1, <2>2 DEF Life, LifeInv
  <2>5. LastWord(v)'
    BY <1>1, <1>3, <1>5, <2>1, <2>2 DEF LastWord, AskedInv
  <2> QED BY <1>1, <1>3, <1>4, <2>1, <2>2, <2>3, <2>4, <2>5, CallFrame
<1>6. CASE ~state[v].ready
  <2>1. state' = [state EXCEPT ![v].page = page] /\ native' = native
    BY <1>6 DEF Load
  <2>2. /\ state' \in [Views -> States]
        /\ state'[v].page = page /\ state'[v].bounds = state[v].bounds
        /\ state'[v].visible = state[v].visible /\ state'[v].ready = state[v].ready
        /\ state'[v].alive = state[v].alive
        /\ \A w \in Views : w # v => state'[w] = state[w]
    <3>1. state' \in [Views -> States]
      BY <2>1, StateType DEF States
    <3>2. state'[v].page = page /\ state'[v].bounds = state[v].bounds
      BY <2>1 DEF TypeOK
    <3>3. state'[v].visible = state[v].visible /\ state'[v].ready = state[v].ready
      BY <2>1 DEF TypeOK
    <3>4. state'[v].alive = state[v].alive
      BY <2>1 DEF TypeOK
    <3>5. \A w \in Views : w # v => state'[w] = state[w]
      BY <2>1 DEF TypeOK
    <3> QED BY <3>1, <3>2, <3>3, <3>4, <3>5
  <2>3. TypeOK'
    BY <1>1, <1>2, <1>3, <2>1, <2>2 DEF TypeOK, States, Natives, Asks
  <2>4. Life(v)'
    BY <1>1, <2>1, <2>2 DEF Life, LifeInv
  <2>5. LastWord(v)'
    BY <1>1, <1>3, <1>6, <2>1, <2>2 DEF LastWord, AskedInv
  <2> QED BY <1>1, <1>3, <1>4, <2>1, <2>2, <2>3, <2>4, <2>5, CallFrame
<1> QED BY <1>5, <1>6

LEMMA ReparentStep ==
    ASSUME IInv, NEW v \in Views, NEW p \in Parents, Reparent(v, p)
    PROVE  IInv'
<1> USE DEF IInv
<1>1. /\ owner[v] = "alive" /\ v \notin Children
      /\ requests < MaxRequests /\ requests' = requests + 1
      /\ UNCHANGED <<owner, start, step, queue, size>>
      /\ parent' = [parent EXCEPT ![v] = p]
      /\ asked' = [asked EXCEPT ![v].bounds = size[p]]
  BY DEF Reparent, Request
<1>2. size[p] \in Sizes
  BY DEF TypeOK
<1>3. size[p] # None
  BY <1>2, WebView2Assumption
<1>4. requests' \in 0 .. MaxRequests
  BY <1>1, RequestCount
<1>5. /\ asked' \in [Views -> Asks]
      /\ asked'[v].bounds = size[p]
      /\ asked'[v].page = asked[v].page /\ asked'[v].visible = asked[v].visible
      /\ \A w \in Views : w # v => asked'[w] = asked[w]
  <2>1. asked' \in [Views -> Asks]
    BY <1>1, <1>2, AskedType DEF Asks
  <2>2. asked'[v].bounds = size[p]
    BY <1>1, <1>2 DEF TypeOK
  <2>3. asked'[v].page = asked[v].page /\ asked'[v].visible = asked[v].visible
    BY <1>1, <1>2 DEF TypeOK
  <2>4. \A w \in Views : w # v => asked'[w] = asked[w]
    BY <1>1, <1>2 DEF TypeOK
  <2> QED BY <2>1, <2>2, <2>3, <2>4
<1>6. subclass' \in [Parents -> Views \union {None}] /\ SubclassInv'
  <2> DEFINE detached == [subclass EXCEPT ![parent[v]] = None]
  <2>1. /\ detached \in [Parents -> Views \union {None}]
        /\ \A q \in Parents : detached[q] \notin Children
    <3>1. None \notin Children
      BY WebView2Assumption
    <3> QED BY <3>1 DEF TypeOK, SubclassInv
  <2>2. subclass' = detached \/ subclass' = [detached EXCEPT ![p] = v]
    BY DEF Reparent
  <2> HIDE DEF detached
  <2> QED BY <1>1, <2>1, <2>2 DEF SubclassInv
<1>7. CASE state[v].ready
  <2>1. native' = [native EXCEPT ![v].bounds = size[p]] /\ state' = state
    BY <1>7 DEF Reparent
  <2>2. /\ native' \in [Views -> Natives]
        /\ native'[v].page = native[v].page
        /\ native'[v].visible = native[v].visible /\ native'[v].controller = native[v].controller
        /\ \A w \in Views : w # v => native'[w] = native[w]
    <3>1. native' \in [Views -> Natives]
      BY <1>2, <2>1, NativeType DEF Natives
    <3>2. native'[v].page = native[v].page
      BY <1>2, <2>1 DEF TypeOK
    <3>3. native'[v].visible = native[v].visible /\ native'[v].controller = native[v].controller
      BY <1>2, <2>1 DEF TypeOK
    <3>4. \A w \in Views : w # v => native'[w] = native[w]
      BY <1>2, <2>1 DEF TypeOK
    <3> QED BY <3>1, <3>2, <3>3, <3>4
  <2>3. TypeOK'
    BY <1>1, <1>4, <1>5, <1>6, <2>1, <2>2 DEF TypeOK, States, Natives, Asks
  <2>4. Life(v)'
    BY <1>1, <2>1, <2>2 DEF Life, LifeInv
  <2>5. LastWord(v)'
    BY <1>1, <1>5, <1>7, <2>1, <2>2 DEF LastWord, AskedInv
  <2> QED BY <1>1, <1>5, <1>6, <2>1, <2>2, <2>3, <2>4, <2>5, CallFrame
<1>8. CASE ~state[v].ready
  <2>1. state' = [state EXCEPT ![v].bounds = size[p]] /\ native' = native
    BY <1>8 DEF Reparent
  <2>2. /\ state' \in [Views -> States]
        /\ state'[v].bounds = size[p] /\ state'[v].page = state[v].page
        /\ state'[v].visible = state[v].visible /\ state'[v].ready = state[v].ready
        /\ state'[v].alive = state[v].alive
        /\ \A w \in Views : w # v => state'[w] = state[w]
    <3>1. state' \in [Views -> States]
      BY <1>2, <2>1, StateType DEF States
    <3>2. state'[v].bounds = size[p] /\ state'[v].page = state[v].page
      BY <1>2, <2>1 DEF TypeOK
    <3>3. state'[v].visible = state[v].visible /\ state'[v].ready = state[v].ready
      BY <1>2, <2>1 DEF TypeOK
    <3>4. state'[v].alive = state[v].alive
      BY <1>2, <2>1 DEF TypeOK
    <3>5. \A w \in Views : w # v => state'[w] = state[w]
      BY <1>2, <2>1 DEF TypeOK
    <3> QED BY <3>1, <3>2, <3>3, <3>4, <3>5
  <2>3. TypeOK'
    BY <1>1, <1>4, <1>5, <1>6, <2>1, <2>2 DEF TypeOK, States, Natives, Asks
  <2>4. Life(v)'
    BY <1>1, <2>1, <2>2 DEF Life, LifeInv
  <2>5. LastWord(v)'
    BY <1>1, <1>3, <1>5, <1>8, <2>1, <2>2 DEF LastWord, AskedInv
  <2> QED BY <1>1, <1>5, <1>6, <2>1, <2>2, <2>3, <2>4, <2>5, CallFrame
<1> QED BY <1>7, <1>8

LEMMA ParentResizedStep ==
    ASSUME IInv, NEW p \in Parents, NEW b \in Sizes, ParentResized(p, b)
    PROVE  IInv'
<1> USE DEF IInv
<1>1. /\ requests < MaxRequests /\ requests' = requests + 1
      /\ size' = [size EXCEPT ![p] = b]
      /\ UNCHANGED <<owner, parent, start, state, step, queue, subclass, asked>>
      /\ native' = [v \in Views |->
                      IF subclass[p] = v /\ native[v].controller = "open"
                      THEN [native[v] EXCEPT !.bounds = b] ELSE native[v]]
  BY DEF ParentResized
<1>2. requests' \in 0 .. MaxRequests
  BY <1>1, RequestCount
<1>3. /\ native' \in [Views -> Natives]
      /\ \A v \in Views : /\ native'[v].controller = native[v].controller
                          /\ native'[v].visible = native[v].visible
                          /\ native'[v].page = native[v].page
                          /\ v \in Children => native'[v].bounds = native[v].bounds
  <2> SUFFICES ASSUME NEW v \in Views
               PROVE  /\ native'[v] \in Natives
                      /\ native'[v].controller = native[v].controller
                      /\ native'[v].visible = native[v].visible
                      /\ native'[v].page = native[v].page
                      /\ v \in Children => native'[v].bounds = native[v].bounds
    BY <1>1
  <2>1. CASE subclass[p] = v /\ native'[v] = [native[v] EXCEPT !.bounds = b]
    BY <2>1, NativeType DEF SubclassInv, Natives
  <2>2. CASE native'[v] = native[v]
    BY <2>2, NativeType DEF Natives
  <2> QED BY <1>1, <2>1, <2>2
<1>4. TypeOK'
  BY <1>1, <1>2, <1>3 DEF TypeOK, States, Natives, Asks
<1>5. QueueInv' /\ SubclassInv'
  BY <1>1 DEF QueueInv, SubclassInv
<1>6. LifeInv'
  BY <1>1, <1>3 DEF LifeInv, Life
<1>7. AskedInv'
  BY <1>1, <1>3 DEF AskedInv, LastWord
<1> QED BY <1>4, <1>5, <1>6, <1>7

LEMMA DropStep ==
    ASSUME IInv, NEW v \in Views, Drop(v)
    PROVE  IInv'
<1> USE DEF IInv
<1>1. /\ owner[v] = "alive"
      /\ owner' = [owner EXCEPT ![v] = "dropped"]
      /\ state' = [state EXCEPT ![v].alive = FALSE, ![v].ready = FALSE]
      /\ UNCHANGED <<parent, start, step, queue, size, asked, requests>>
  BY DEF Drop
<1>2. /\ state' \in [Views -> States]
      /\ state'[v].alive = FALSE /\ state'[v].ready = FALSE
      /\ \A w \in Views : w # v => state'[w] = state[w]
  <2>1. state' \in [Views -> States]
    BY <1>1, StateType, ZenonT(40) DEF States
  <2>2. state'[v].alive = FALSE /\ state'[v].ready = FALSE
    BY <1>1 DEF TypeOK
  <2>3. \A w \in Views : w # v => state'[w] = state[w]
    BY <1>1 DEF TypeOK
  <2> QED BY <2>1, <2>2, <2>3
<1>3. /\ owner' \in [Views -> {"none", "alive", "dropped", "error"}]
      /\ owner'[v] = "dropped"
      /\ \A w \in Views : w # v => owner'[w] = owner[w]
  BY <1>1 DEF TypeOK
<1>4. /\ native' \in [Views -> Natives]
      /\ native'[v].controller = IF state[v].ready THEN "closed" ELSE native[v].controller
      /\ \A w \in Views : w # v => native'[w] = native[w]
  <2>1. CASE state[v].ready /\ native' = [native EXCEPT ![v].controller = "closed"]
    BY <2>1, NativeType DEF Natives
  <2>2. CASE ~state[v].ready /\ native' = native
    BY <2>2, NativeType DEF Natives
  <2> QED BY <2>1, <2>2 DEF Drop
<1>5. subclass' \in [Parents -> Views \union {None}] /\ SubclassInv'
  <2>1. subclass' = subclass \/ subclass' = [subclass EXCEPT ![parent[v]] = None]
    BY DEF Drop
  <2>2. None \notin Children
    BY WebView2Assumption
  <2> QED BY <2>1, <2>2 DEF TypeOK, SubclassInv
<1>6. TypeOK'
  BY <1>1, <1>2, <1>3, <1>4, <1>5 DEF TypeOK, States, Natives, Asks
<1>7. Life(v)'
  BY <1>1, <1>2, <1>3, <1>4 DEF Life, LifeInv
<1>8. LastWord(v)'
  BY <1>3 DEF LastWord
<1> QED BY <1>1, <1>2, <1>3, <1>4, <1>5, <1>6, <1>7, <1>8, CallFrame

LEMMA NextIInv == IInv /\ [Next]_vars => IInv'
<1> SUFFICES ASSUME IInv, [Next]_vars PROVE IInv'
  OBVIOUS
<1>1. ASSUME NEW v \in Views, Construct(v) PROVE IInv'
  BY <1>1, ConstructStep
<1>2. ASSUME NEW v \in Views, EnvironmentCompletes(v) PROVE IInv'
  BY <1>2, EnvironmentStep
<1>3. ASSUME NEW v \in Views, ControllerCompletes(v) PROVE IInv'
  BY <1>3, ControllerStep
<1>4. ASSUME NEW v \in Views, NEW b \in Sizes, SetBounds(v, b) PROVE IInv'
  BY <1>4, SetBoundsStep
<1>5. ASSUME NEW v \in Views, NEW visible \in BOOLEAN, SetVisible(v, visible) PROVE IInv'
  BY <1>5, SetVisibleStep
<1>6. ASSUME NEW v \in Views, NEW page \in Pages, Load(v, page) PROVE IInv'
  BY <1>6, LoadStep
<1>7. ASSUME NEW v \in Views, NEW p \in Parents, Reparent(v, p) PROVE IInv'
  BY <1>7, ReparentStep
<1>8. ASSUME NEW v \in Views, Drop(v) PROVE IInv'
  BY <1>8, DropStep
<1>9. ASSUME NEW p \in Parents, NEW b \in Sizes, ParentResized(p, b) PROVE IInv'
  BY <1>9, ParentResizedStep
<1>10. CASE UNCHANGED vars
  BY <1>10 DEF vars, IInv, TypeOK, QueueInv, LifeInv, Life, AskedInv, LastWord, SubclassInv
<1> QED BY <1>1, <1>2, <1>3, <1>4, <1>5, <1>6, <1>7, <1>8, <1>9, <1>10 DEF Next

-----------------------------------------------------------------------------
(* The theorems. *)

\* In every reachable state the parts of IInv hold together.
THEOREM Inductive == Spec => []IInv
BY InitIInv, NextIInv, PTL DEF Spec

\* A view that is ready shows the page, the visibility and, if it is a child, the bounds asked for
\* last, however the request and the completion of its creation were interleaved: the setters of
\* webview2/mod.rs keep what they cannot apply, and finish_create_controller replays it.
THEOREM ReadyViewHasLastRequest == Spec => []LastRequestHolds
<1>1. IInv => LastRequestHolds
  BY DEF IInv, LifeInv, Life, AskedInv, LastWord, LastRequestHolds
<1> QED BY <1>1, Inductive, PTL

\* A controller is only ever open under an owner that holds it, and controllers are created one at
\* a time, each creation waiting in the queue once (enqueue_controller_creation,
\* complete_controller_creation, finish_create_controller).
THEOREM ControllersComeOneByOne == Spec => []ControllersInv
<1>1. IInv => OpenControllerIsOwned
  BY DEF IInv, LifeInv, Life, OpenControllerIsOwned
<1>2. IInv => OneCreationAtATime
  <2> SUFFICES ASSUME TypeOK, QueueInv PROVE OneCreationAtATime
    BY DEF IInv
  <2> DEFINE creating == {v \in Views : step[v] = "controller"}
  <2>1. CASE queue.active
    <3>1. PICK v \in Views : step[v] = "controller"
      BY <2>1 DEF QueueInv
    <3>2. creating = {v}
      BY <3>1 DEF QueueInv
    <3>3. Cardinality(creating) = 1
      BY <3>2, FS_Singleton
    <3> QED BY <2>1, <3>3 DEF OneCreationAtATime, QueueInv
  <2>2. CASE ~queue.active
    <3>1. creating = {}
      BY <2>2 DEF QueueInv
    <3>2. Cardinality(creating) = 0
      BY <3>1, FS_EmptySet
    <3> QED BY <2>2, <3>2 DEF OneCreationAtATime, QueueInv
  <2> QED BY <2>1, <2>2
<1>3. IInv => ControllersInv
  BY <1>1, <1>2 DEF IInv, ControllersInv
<1> QED BY <1>3, Inductive, PTL
=============================================================================
