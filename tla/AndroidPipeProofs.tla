-------------------------- MODULE AndroidPipeProofs --------------------------
(***************************************************************************)
(* The safety properties of AndroidPipe, proved for every number of views, *)
(* calls and lives of the activity and every capacity of the channel.      *)
(*                                                                         *)
(* Every step changes one thread, and the channel at its end or at its     *)
(* head.  So the invariant is about each thread, each message, and the     *)
(* pairs of them that must not meet: two questions with one receiver, and  *)
(* a message to create a view that overtakes that of a newer one.          *)
(***************************************************************************)
EXTENDS AndroidPipe, FiniteSetTheorems, SequenceTheorems, TLAPS

Kinds == {"tell", "ask"}
Calls == [type : Kinds, receiver : 0 .. MaxCalls]
Creations == [type : {"create"}, view : Views]
Destructions == [type : {"destroy"}, view : Views \union {None}, changing : BOOLEAN]
Messages == Calls \union Creations \union Destructions

Places == {"looper", "relaunch", "destroy ipc", "destroy request", "idle", "new ipc", "new page",
           "handler", "send", "write", "answer"}
Returns == {"looper", "relaunch", "idle", "handler"}
ThreadStates == [at : Places, message : Messages \union {NoMessage}, next : Places \union {None}]

Proxies == [there : BOOLEAN, webview : Views \union {None}, life : 0 .. MaxLives]
Activities == [life : 0 .. MaxLives, alive : BOOLEAN, lost : BOOLEAN, webview : Views \union {None}]

Shape ==
    /\ channel \in Seq(Messages) /\ Len(channel) <= Capacity
    /\ bytes \in Nat /\ looper \in BOOLEAN
    /\ proxy \in Proxies
    /\ attributes \in Views \union {None}
    /\ handlers \in [Tables -> SUBSET Views]
    /\ locks \in [Tables -> Threads \union {None}]
    /\ activity \in Activities
    /\ thread \in [Threads -> ThreadStates]
    /\ waiting \subseteq 0 .. MaxCalls /\ built \subseteq Views
    /\ timedOut \in BOOLEAN /\ crashed \in BOOLEAN /\ calls \in 0 .. MaxCalls

Asks(m) == m.type = "ask"

\* A message that is sent or on its way: the host has a view by then, a destruction is for good
\* when it says so, and whoever asked still waits, unless an asker gave up.
MessageInv(m) ==
    /\ m.type \in Kinds => built # {} /\ m.receiver < calls
    /\ m.type = "destroy" /\ ~m.changing => activity.lost
    /\ Asks(m) => m.receiver \in waiting \/ timedOut

\* A thread: what it sends and where it returns to, and what it has done when it comes to send.
ThreadInv(t) ==
    /\ thread[t].at \in {"send", "write", "answer"} =>
          thread[t].message \in Messages /\ thread[t].next \in Returns
    /\ thread[t].at \in {"new ipc", "new page"} =>
          /\ thread[t].message \in Creations /\ thread[t].next \in Returns
          /\ thread[t].message.view \in built
    /\ thread[t].at = "answer" => Asks(thread[t].message)
    /\ thread[t].at = "send" => MessageInv(thread[t].message)
    /\ thread[t].message.type \in Kinds => thread[t].message.receiver < calls
    /\ thread[t].at = "handler" \/ thread[t].next = "handler" => built # {}
    /\ thread[t].at \in {"destroy ipc", "destroy request"} => activity.lost
    /\ thread[t].message.type = "create" => t \in {"host", "main"}
    /\ thread[t].at \in {"new ipc", "new page"} =>
          thread[t].message.view \in handlers["request"] \/ activity.lost
    /\ thread[t].at = "new page" => thread[t].message.view \in handlers["ipc"] \/ activity.lost
    /\ thread[t].at = "send" /\ thread[t].message.type = "create" =>
          attributes = thread[t].message.view \/ activity.lost

\* Two questions never have the same receiver.
AskInv ==
    /\ \A i, j \in DOMAIN channel : i # j /\ Asks(channel[i]) /\ Asks(channel[j]) =>
          channel[i].receiver # channel[j].receiver
    /\ \A t \in Threads : thread[t].at = "send" /\ Asks(thread[t].message) =>
          /\ \A i \in DOMAIN channel : Asks(channel[i]) =>
                channel[i].receiver # thread[t].message.receiver
          /\ \A u \in Threads : u # t /\ Asks(thread[u].message) =>
                thread[u].message.receiver # thread[t].message.receiver

\* The tables hold views that were built, and the activity's entry is there as long as it is used.
TableInv ==
    /\ \A k \in Tables : handlers[k] \subseteq built
    /\ built # {} => proxy.there \/ activity.lost
    /\ attributes # None /\ ~activity.lost => \A k \in Tables : attributes \in handlers[k]

\* A message to create a view that is not the activity's last is before the one for the last.
CreateInv ==
    attributes # None /\ ~activity.lost =>
        \A i \in DOMAIN channel :
            channel[i].type = "create" /\ channel[i].view # attributes =>
                \/ Sending([type |-> "create", view |-> attributes])
                \/ \E j \in DOMAIN channel :
                      j > i /\ channel[j] = [type |-> "create", view |-> attributes]

IInv ==
    /\ Shape /\ WakesMatchMessages
    /\ \A t \in Threads : ThreadInv(t)
    /\ \A i \in DOMAIN channel : MessageInv(channel[i])
    /\ AskInv /\ TableInv /\ CreateInv
    /\ ConfigurationChangeKeepsView /\ PanicsOnlyLate

-----------------------------------------------------------------------------
(* Messages, sequences and threads. *)

LEMMA Kind ==
    ASSUME NEW m \in Messages
    PROVE  /\ m.type \in Kinds => m.receiver \in 0 .. MaxCalls
           /\ m.type = "create" => m.view \in Views /\ m = [type |-> "create", view |-> m.view]
           /\ m.type = "destroy" => m.view \in Views \union {None} /\ m.changing \in BOOLEAN
           /\ m.type \in Kinds \union {"create", "destroy"}
           /\ m.type # None
<1>1. CASE m \in Calls
  BY <1>1 DEF Calls, Kinds, None
<1>2. CASE m \in Creations
  BY <1>2 DEF Creations, Kinds, None
<1>3. CASE m \in Destructions
  BY <1>3 DEF Destructions, Kinds, None
<1> QED BY <1>1, <1>2, <1>3 DEF Messages

LEMMA KindOfAny ==
    ASSUME NEW m \in Messages \union {NoMessage}
    PROVE  m.type \in Kinds \union {"create", "destroy"} => m \in Messages
BY DEF NoMessage, Kinds, None

LEMMA Receiver ==
    ASSUME NEW m \in Messages \union {NoMessage}, m.type \in Kinds
    PROVE  m \in Messages /\ m.receiver \in Nat
<1>1. m \in Messages
  BY KindOfAny
<1>2. m.receiver \in 0 .. MaxCalls /\ MaxCalls \in Nat
  BY <1>1, Kind, AndroidAssumption
<1> QED BY <1>1, <1>2

LEMMA MessagesMade ==
    /\ \A k \in Kinds, c \in 0 .. MaxCalls : [type |-> k, receiver |-> c] \in Messages
    /\ \A v \in Views : [type |-> "create", view |-> v] \in Creations
    /\ \A v \in Views \union {None}, b \in BOOLEAN :
          [type |-> "destroy", view |-> v, changing |-> b] \in Messages
    /\ Creations \subseteq Messages
BY DEF Messages, Calls, Creations, Destructions

LEMMA AtTheEnd ==
    ASSUME NEW S, NEW s \in Seq(S), NEW x \in S
    PROVE  /\ Append(s, x) \in Seq(S) /\ Len(Append(s, x)) = Len(s) + 1 /\ Len(s) \in Nat
           /\ DOMAIN s = 1 .. Len(s) /\ DOMAIN Append(s, x) = 1 .. Len(s) + 1
           /\ Append(s, x)[Len(s) + 1] = x
           /\ \A k \in 1 .. Len(s) : Append(s, x)[k] = s[k]
OBVIOUS

LEMMA AtTheHead ==
    ASSUME NEW S, NEW s \in Seq(S), s # <<>>
    PROVE  /\ Head(s) \in S /\ Head(s) = s[1] /\ 1 \in DOMAIN s
           /\ Tail(s) \in Seq(S) /\ Len(s) \in Nat /\ Len(s) > 0 /\ Len(Tail(s)) = Len(s) - 1
           /\ DOMAIN s = 1 .. Len(s) /\ DOMAIN Tail(s) = 1 .. Len(s) - 1
           /\ \A k \in 1 .. Len(s) - 1 : Tail(s)[k] = s[k + 1]
OBVIOUS

\* What each kind of step does to the threads.
LEMMA GoesEffect ==
    ASSUME Shape, NEW t \in Threads, NEW at \in Places, Goes(t, at)
    PROVE  /\ thread' \in [Threads -> ThreadStates]
           /\ thread'[t].at = at /\ thread'[t].message = thread[t].message
           /\ thread'[t].next = thread[t].next
           /\ \A u \in Threads : u # t => thread'[u] = thread[u]
<1>1. thread \in [Threads -> ThreadStates] /\ thread[t] \in ThreadStates
  BY DEF Shape
<1>2. thread' = [thread EXCEPT ![t] = [thread[t] EXCEPT !.at = at]]
  BY DEF Goes
<1>3. [thread[t] EXCEPT !.at = at] \in ThreadStates
  BY <1>1 DEF ThreadStates
<1>4. /\ [thread[t] EXCEPT !.at = at].at = at
      /\ [thread[t] EXCEPT !.at = at].message = thread[t].message
      /\ [thread[t] EXCEPT !.at = at].next = thread[t].next
  BY <1>1 DEF ThreadStates
<1> QED BY <1>1, <1>2, <1>3, <1>4

LEMMA PutsEffect ==
    ASSUME Shape, NEW t \in Threads, NEW at \in Places, NEW m \in Messages \union {NoMessage},
           NEW next \in Places \union {None},
           thread' = [thread EXCEPT ![t] = [at |-> at, message |-> m, next |-> next]]
    PROVE  /\ thread' \in [Threads -> ThreadStates]
           /\ thread'[t].at = at /\ thread'[t].message = m /\ thread'[t].next = next
           /\ \A u \in Threads : u # t => thread'[u] = thread[u]
<1>1. thread \in [Threads -> ThreadStates]
  BY DEF Shape
<1>2. [at |-> at, message |-> m, next |-> next] \in ThreadStates
  BY DEF ThreadStates
<1> QED BY <1>1, <1>2

LEMMA WakesFrame ==
    ASSUME WakesMatchMessages,
           \A u \in Threads : thread'[u].at = "write" <=> thread[u].at = "write",
           UNCHANGED <<bytes, channel>>
    PROVE  WakesMatchMessages'
<1>1. {u \in Threads : At(u, "write")}' = {u \in Threads : At(u, "write")}
  BY DEF At
<1> QED BY <1>1 DEF WakesMatchMessages

\* One thread comes to write, or is done with it.
LEMMA Writers ==
    ASSUME NEW t \in Threads,
           \A u \in Threads : u # t => thread'[u] = thread[u]
    PROVE  LET W == {u \in Threads : At(u, "write")} IN
           /\ Cardinality(W) \in Nat
           /\ ~At(t, "write") /\ At(t, "write")' => Cardinality(W') = Cardinality(W) + 1
           /\ At(t, "write") /\ ~At(t, "write")' =>
                 Cardinality(W') = Cardinality(W) - 1 /\ Cardinality(W) > 0
<1> DEFINE W == {u \in Threads : At(u, "write")}
<1>1. IsFiniteSet(Threads)
  <2>1. IsFiniteSet({"host"})
    BY FS_Singleton
  <2>2. IsFiniteSet({"host"} \union {"bridge"})
    BY <2>1, FS_AddElement
  <2>3. IsFiniteSet(({"host"} \union {"bridge"}) \union {"network"})
    BY <2>2, FS_AddElement
  <2>4. IsFiniteSet((({"host"} \union {"bridge"}) \union {"network"}) \union {"main"})
    BY <2>3, FS_AddElement
  <2>5. Threads = (({"host"} \union {"bridge"}) \union {"network"}) \union {"main"}
    BY DEF Threads
  <2> QED BY <2>4, <2>5
<1>2. IsFiniteSet(W) /\ IsFiniteSet(W')
  BY <1>1, FS_Subset
<1>3. Cardinality(W) \in Nat /\ Cardinality(W') \in Nat
  BY <1>2, FS_CardinalityType
<1>4. ASSUME ~At(t, "write"), At(t, "write")' PROVE Cardinality(W') = Cardinality(W) + 1
  <2>1. W' = W \union {t} /\ t \notin W
    BY <1>4 DEF At
  <2> QED BY <1>2, <2>1, FS_AddElement
<1>5. ASSUME At(t, "write"), ~At(t, "write")'
      PROVE  Cardinality(W') = Cardinality(W) - 1 /\ Cardinality(W) > 0
  <2>1. W = W' \union {t} /\ t \notin W'
    BY <1>5 DEF At
  <2>2. Cardinality(W) = Cardinality(W') + 1
    BY <1>2, <2>1, FS_AddElement
  <2> QED BY <1>3, <2>2
<1> QED BY <1>3, <1>4, <1>5

\* Nothing that was built, lost or counted goes away again.
Onward ==
    /\ built \subseteq built' /\ built' \subseteq Views
    /\ activity.lost => activity'.lost
    /\ timedOut => timedOut'
    /\ calls' \in Nat /\ calls' >= calls

LEMMA GoesOn ==
    ASSUME Shape, built \subseteq built', built' \subseteq Views, activity.lost => activity'.lost,
           timedOut' = timedOut, calls' = calls
    PROVE  Onward
<1>1. calls \in Nat
  BY AndroidAssumption DEF Shape
<1>2. calls' \in Nat /\ calls' >= calls
  BY <1>1
<1> QED BY <1>2 DEF Onward

LEMMA MessageFrame ==
    ASSUME Shape, Onward, NEW m \in Messages, MessageInv(m),
           m.type = "ask" /\ m.receiver \in waiting => m.receiver \in waiting' \/ timedOut'
    PROVE  MessageInv(m)'
<1>1. m.type \in Kinds => built' # {} /\ m.receiver < calls'
  <2>1. m.type \in Kinds => m.receiver \in Nat /\ m.receiver < calls
    BY Kind, AndroidAssumption DEF MessageInv
  <2>2. calls \in Nat /\ calls' \in Nat /\ calls' >= calls
    BY AndroidAssumption DEF Shape, Onward
  <2>3. m.type \in Kinds => built' # {}
    BY DEF MessageInv, Onward
  <2> QED BY <2>1, <2>2, <2>3
<1>2. m.type = "destroy" /\ ~m.changing => activity'.lost
  BY DEF MessageInv, Onward
<1>3. Asks(m) => m.receiver \in waiting' \/ timedOut'
  BY DEF MessageInv, Asks, Onward
<1> QED BY <1>1, <1>2, <1>3 DEF MessageInv, Asks

\* A thread that does not take the step.
LEMMA ThreadFrame ==
    ASSUME Shape, Onward, NEW t \in Threads, ThreadInv(t), thread'[t] = thread[t],
           \/ attributes' = attributes \/ activity'.lost
           \/ ~(thread[t].at = "send" /\ thread[t].message.type = "create"),
           activity'.lost \/ \A k \in Tables : handlers[k] \subseteq handlers'[k],
           thread[t].at = "send" /\ Asks(thread[t].message) /\ thread[t].message.receiver \in waiting =>
              thread[t].message.receiver \in waiting' \/ timedOut'
    PROVE  ThreadInv(t)'
<1> PICK s : s = thread[t] /\ thread'[t] = s
  OBVIOUS
<1>1. s.at = "send" => MessageInv(s.message)'
  BY MessageFrame DEF ThreadInv, Asks
<1>2. s.message.type \in Kinds => s.message.receiver < calls'
  <2>1. s.message \in Messages \union {NoMessage}
    BY DEF Shape, ThreadStates
  <2>2. s.message.type \in Kinds => s.message.receiver \in Nat /\ s.message.receiver < calls
    BY <2>1, Receiver DEF ThreadInv
  <2>3. calls \in Nat /\ calls' \in Nat /\ calls' >= calls
    BY AndroidAssumption DEF Shape, Onward
  <2> QED BY <2>2, <2>3
<1>3. /\ s.at \in {"send", "write", "answer"} => s.message \in Messages /\ s.next \in Returns
      /\ s.at \in {"new ipc", "new page"} =>
            s.message \in Creations /\ s.next \in Returns /\ s.message.view \in built'
      /\ s.at = "answer" => Asks(s.message)
      /\ s.message.type = "create" => t \in {"host", "main"}
  BY DEF ThreadInv, Onward
<1>4. /\ s.at = "handler" \/ s.next = "handler" => built' # {}
      /\ s.at \in {"destroy ipc", "destroy request"} => activity'.lost
  BY DEF ThreadInv, Onward
<1>5. /\ s.at \in {"new ipc", "new page"} => s.message.view \in handlers'["request"] \/ activity'.lost
      /\ s.at = "new page" => s.message.view \in handlers'["ipc"] \/ activity'.lost
  BY DEF ThreadInv, Onward, Tables
<1>6. s.at = "send" /\ s.message.type = "create" => attributes' = s.message.view \/ activity'.lost
  BY DEF ThreadInv, Onward
<1> QED BY <1>1, <1>2, <1>3, <1>4, <1>5, <1>6, ZenonT(40) DEF ThreadInv, Asks, MessageInv

\* A step of one thread that does not send; the main thread may take a message.
LEMMA StepFrame ==
    ASSUME IInv, Shape', WakesMatchMessages', Onward, TableInv', NEW t \in Threads,
           \A u \in Threads : u # t => thread'[u] = thread[u],
           thread[t].at # "send",
           ThreadInv(t)',
           channel' = channel \/ (channel # <<>> /\ channel' = Tail(channel)),
           \/ attributes' = attributes \/ activity'.lost
           \/ /\ \A u \in Threads : u # t =>
                    ~(thread[u].at = "send" /\ thread[u].message.type = "create")
              /\ thread'[t].at = "send"
              /\ thread'[t].message = [type |-> "create", view |-> attributes'],
           activity'.lost \/ \A k \in Tables : handlers[k] \subseteq handlers'[k],
           \A c \in waiting : c \in waiting' \/ timedOut' \/
              (channel # <<>> /\ channel' = Tail(channel) /\ Asks(Head(channel))
               /\ c = Head(channel).receiver),
           \/ thread'[t].message = thread[t].message /\ thread'[t].at # "send"
           \/ ~Asks(thread'[t].message)
           \/ thread'[t].message.receiver >= calls,
           ConfigurationChangeKeepsView', PanicsOnlyLate'
    PROVE  IInv'
<1> USE DEF IInv
<1>1. /\ channel \in Seq(Messages) /\ channel' \in Seq(Messages)
      /\ \A i \in DOMAIN channel : channel[i] \in Messages
      /\ DOMAIN channel \subseteq Nat
  BY DEF Shape
<1>2. PICK d \in {0, 1} :
        /\ d = 0 => channel' = channel
        /\ d = 1 => channel # <<>> /\ channel' = Tail(channel)
        /\ \A i \in DOMAIN channel' : i + d \in DOMAIN channel /\ channel'[i] = channel[i + d]
        /\ \A i \in DOMAIN channel : i > d => i - d \in DOMAIN channel' /\ channel'[i - d] = channel[i]
        /\ DOMAIN channel' \subseteq Nat \ {0}
  <2>1. CASE channel' = channel
    <3>1. \A i \in DOMAIN channel : i \in Nat /\ i > 0 /\ i + 0 = i /\ i - 0 = i
      BY <1>1
    <3> QED BY <1>1, <2>1, <3>1
  <2>2. CASE channel # <<>> /\ channel' = Tail(channel)
    <3>1. /\ Len(channel) \in Nat
          /\ DOMAIN channel = 1 .. Len(channel) /\ DOMAIN channel' = 1 .. Len(channel) - 1
          /\ \A k \in 1 .. Len(channel) - 1 : channel'[k] = channel[k + 1]
      BY <1>1, <2>2, AtTheHead
    <3>2. \A i \in DOMAIN channel' : i + 1 \in DOMAIN channel /\ channel'[i] = channel[i + 1]
      BY <3>1
    <3>3. ASSUME NEW i \in DOMAIN channel, i > 1
          PROVE  i - 1 \in DOMAIN channel' /\ channel'[i - 1] = channel[i]
      <4>1. i - 1 \in 1 .. Len(channel) - 1 /\ (i - 1) + 1 = i
        BY <3>1, <3>3
      <4> QED BY <3>1, <4>1
    <3>4. DOMAIN channel' \subseteq Nat \ {0}
      BY <3>1
    <3> QED BY <2>2, <3>2, <3>3, <3>4
  <2> QED BY <2>1, <2>2
<1>3. d = 1 => Head(channel) = channel[1] /\ 1 \in DOMAIN channel
  BY <1>1, <1>2, AtTheHead
\* A question that is still there keeps its asker.
<1>4. \A i \in DOMAIN channel' : Asks(channel'[i]) /\ channel'[i].receiver \in waiting =>
          channel'[i].receiver \in waiting' \/ timedOut'
  <2> SUFFICES ASSUME NEW i \in DOMAIN channel', Asks(channel'[i]), channel'[i].receiver \in waiting,
                      channel'[i].receiver \notin waiting', ~timedOut'
               PROVE  FALSE
    OBVIOUS
  <2>1. /\ channel # <<>> /\ channel' = Tail(channel) /\ Asks(Head(channel))
        /\ channel'[i].receiver = Head(channel).receiver
    OBVIOUS
  <2>2. CASE d = 1
    <3>1. i + 1 \in DOMAIN channel /\ channel'[i] = channel[i + 1] /\ i + 1 # 1
      BY <1>2, <2>2
    <3> QED BY <1>3, <2>1, <2>2, <3>1 DEF AskInv
  <2>3. CASE d = 0
    <3>1. Len(Tail(channel)) = Len(channel) - 1 /\ Len(channel) \in Nat
      BY <1>1, <2>1, AtTheHead
    <3> QED BY <1>2, <2>1, <2>3, <3>1
  <2> QED BY <2>2, <2>3
<1>5. \A u \in Threads : u # t /\ thread[u].at = "send" /\ Asks(thread[u].message)
          /\ thread[u].message.receiver \in waiting =>
             thread[u].message.receiver \in waiting' \/ timedOut'
  <2> SUFFICES ASSUME NEW u \in Threads, thread[u].at = "send", Asks(thread[u].message),
                      channel # <<>>, Asks(Head(channel)),
                      thread[u].message.receiver = Head(channel).receiver
               PROVE  FALSE
    OBVIOUS
  <2>1. Head(channel) = channel[1] /\ 1 \in DOMAIN channel
    BY <1>1, AtTheHead
  <2> QED BY <2>1 DEF AskInv
<1>6. \A u \in Threads : ThreadInv(u)'
  <2> SUFFICES ASSUME NEW u \in Threads, u # t PROVE ThreadInv(u)'
    OBVIOUS
  <2>1. thread'[u] = thread[u]
    OBVIOUS
  <2>2. \/ attributes' = attributes \/ activity'.lost
        \/ ~(thread[u].at = "send" /\ thread[u].message.type = "create")
    OBVIOUS
  <2> QED BY <1>5, <2>1, <2>2, ThreadFrame
<1>7. \A i \in DOMAIN channel' : MessageInv(channel[i])'
  <2> SUFFICES ASSUME NEW i \in DOMAIN channel' PROVE MessageInv(channel[i])'
    OBVIOUS
  <2>1. channel'[i] \in Messages /\ MessageInv(channel'[i])
    BY <1>1, <1>2
  <2>2. PICK m \in Messages : m = channel'[i] /\ MessageInv(m)
    BY <2>1
  <2>3. m.type = "ask" /\ m.receiver \in waiting => m.receiver \in waiting' \/ timedOut'
    BY <1>4, <2>2 DEF Asks
  <2>4. MessageInv(m)'
    BY <2>2, <2>3, MessageFrame
  <2> QED BY <2>2, <2>4 DEF MessageInv, Asks
<1>8. AskInv'
  <2>1. \A i, j \in DOMAIN channel' : i # j /\ Asks(channel'[i]) /\ Asks(channel'[j]) =>
           channel'[i].receiver # channel'[j].receiver
    <3> SUFFICES ASSUME NEW i \in DOMAIN channel', NEW j \in DOMAIN channel', i # j,
                        Asks(channel'[i]), Asks(channel'[j])
                 PROVE  channel'[i].receiver # channel'[j].receiver
      OBVIOUS
    <3>1. i + d # j + d
      BY <1>2
    <3> QED BY <1>2, <3>1 DEF AskInv
  <2>2. ASSUME NEW u \in Threads, thread'[u].at = "send", Asks(thread'[u].message)
        PROVE  /\ \A i \in DOMAIN channel' : Asks(channel'[i]) =>
                     channel'[i].receiver # thread'[u].message.receiver
               /\ \A w \in Threads : w # u /\ Asks(thread'[w].message) =>
                     thread'[w].message.receiver # thread'[u].message.receiver
    <3>1. calls \in Nat
      BY AndroidAssumption DEF Shape
    <3>2. ASSUME NEW w \in Threads, Asks(thread[w].message)
          PROVE  thread[w].message.receiver < calls /\ thread[w].message.receiver \in Nat
      <4>1. thread[w].message \in Messages \union {NoMessage}
        BY DEF Shape, ThreadStates
      <4>2. thread[w].message.type \in Kinds
        BY <3>2 DEF Asks, Kinds
      <4> QED BY <4>1, <4>2, Receiver DEF ThreadInv
    <3>3. ASSUME NEW i \in DOMAIN channel', Asks(channel'[i])
          PROVE  channel'[i].receiver < calls /\ channel'[i].receiver \in Nat
      <4>1. channel'[i] \in Messages /\ channel'[i].type \in Kinds /\ MessageInv(channel'[i])
        BY <1>1, <1>2, <3>3 DEF Asks, Kinds
      <4> QED BY <4>1, Kind, AndroidAssumption DEF MessageInv
    <3>4. CASE u = t
      <4>1. thread'[t].message.receiver >= calls
        BY <2>2, <3>4
      <4>2. thread'[t].message.receiver \in Nat
        <5>1. thread'[t].message \in Messages \union {NoMessage}
          BY DEF Shape, ThreadStates
        <5>2. thread'[t].message.type \in Kinds
          BY <2>2, <3>4 DEF Asks, Kinds
        <5> QED BY <5>1, <5>2, Receiver
      <4> QED BY <3>1, <3>2, <3>3, <3>4, <4>1, <4>2
    <3>5. CASE u # t
      <4>1. thread'[u] = thread[u]
        BY <3>5
      <4>2. \A i \in DOMAIN channel' : Asks(channel'[i]) =>
               channel'[i].receiver # thread[u].message.receiver
        BY <1>2, <2>2, <4>1 DEF AskInv
      <4>3. ASSUME NEW w \in Threads, w # u, Asks(thread'[w].message)
            PROVE  thread'[w].message.receiver # thread[u].message.receiver
        <5>1. CASE w = t /\ thread'[t].message.receiver >= calls
          <6>1. thread[u].message.receiver < calls /\ thread[u].message.receiver \in Nat
            BY <2>2, <3>2, <4>1
          <6>2. thread'[t].message.receiver \in Nat
            <7>1. thread'[t].message \in Messages \union {NoMessage}
              BY DEF Shape, ThreadStates
            <7>2. thread'[t].message.type \in Kinds
              BY <4>3, <5>1 DEF Asks, Kinds
            <7> QED BY <7>1, <7>2, Receiver
          <6> QED BY <3>1, <5>1, <6>1, <6>2
        <5>2. CASE thread'[w].message = thread[w].message
          BY <2>2, <4>1, <4>3, <5>2 DEF AskInv
        <5> QED BY <4>3, <5>1, <5>2
      <4> QED BY <4>1, <4>2, <4>3
    <3> QED BY <3>4, <3>5
  <2> QED BY <2>1, <2>2 DEF AskInv, Asks
<1>9. CreateInv'
  <2> DEFINE m == [type |-> "create", view |-> attributes']
  <2> SUFFICES ASSUME attributes' # None, ~activity'.lost, NEW i \in DOMAIN channel',
                      channel'[i].type = "create", channel'[i].view # attributes'
               PROVE  \/ \E u \in Threads : thread'[u].at = "send" /\ thread'[u].message = m
                      \/ \E j \in DOMAIN channel' : j > i /\ channel'[j] = m
    BY DEF CreateInv, Sending, At
  <2>1. CASE attributes' # attributes
    BY <2>1
  <2>2. CASE attributes' = attributes
    <3>1. i + d \in DOMAIN channel /\ channel[i + d] = channel'[i] /\ i \in Nat
      BY <1>2
    <3>2. ~activity.lost
      BY DEF Onward
    <3>3. \/ \E u \in Threads : thread[u].at = "send" /\ thread[u].message = m
          \/ \E j \in DOMAIN channel : j > i + d /\ channel[j] = m
      BY <2>2, <3>1, <3>2 DEF CreateInv, Sending, At
    <3>4. CASE \E u \in Threads : thread[u].at = "send" /\ thread[u].message = m
      BY <3>4
    <3>5. ASSUME NEW j \in DOMAIN channel, j > i + d, channel[j] = m
          PROVE  \E k \in DOMAIN channel' : k > i /\ channel'[k] = m
      <4>1. j - d > i /\ j > d
        BY <1>1, <3>1, <3>5
      <4> QED BY <1>2, <3>5, <4>1
    <3> QED BY <3>3, <3>4, <3>5
  <2> QED BY <2>1, <2>2
<1> QED BY <1>6, <1>7, <1>8, <1>9

\* The view and the message that is to create it stay.
LEMMA ViewFrame ==
    ASSUME IInv, TableInv', NEW t \in Threads,
           \A u \in Threads : u # t => thread'[u] = thread[u],
           thread[t].at # "send",
           \/ channel' = channel
           \/ channel # <<>> /\ channel' = Tail(channel) /\ Head(channel).type # "create",
           attributes' = attributes, proxy'.webview = proxy.webview, proxy'.life = proxy.life,
           activity'.life = activity.life, activity'.alive => activity.alive,
           activity.lost => activity'.lost, looper' => looper
    PROVE  ConfigurationChangeKeepsView'
<1> USE DEF IInv
<1> DEFINE m == [type |-> "create", view |-> attributes]
<1> SUFFICES ASSUME activity.alive, ~activity'.lost, ~activity.lost, attributes # None, looper
             PROVE  /\ \A k \in Tables : attributes \in handlers'[k]
                    /\ \/ proxy.webview = attributes /\ proxy.life = activity.life
                       \/ \E u \in Threads : thread'[u].at = "send" /\ thread'[u].message = m
                       \/ \E i \in DOMAIN channel' : channel'[i] = m
  BY DEF ConfigurationChangeKeepsView, Creating, Sending, At
<1>1. \A k \in Tables : attributes \in handlers'[k]
  BY DEF TableInv
<1>2. \/ proxy.webview = attributes /\ proxy.life = activity.life
      \/ \E u \in Threads : thread[u].at = "send" /\ thread[u].message = m
      \/ \E i \in DOMAIN channel : channel[i] = m
  BY DEF ConfigurationChangeKeepsView, Creating, Sending, At
<1>3. CASE \E u \in Threads : thread[u].at = "send" /\ thread[u].message = m
  BY <1>1, <1>3
<1>4. CASE \E i \in DOMAIN channel : channel[i] = m
  <2>1. CASE channel' = channel
    BY <1>1, <1>4, <2>1
  <2>2. CASE channel # <<>> /\ channel' = Tail(channel) /\ Head(channel).type # "create"
    <3>1. PICK i \in DOMAIN channel : channel[i] = m
      BY <1>4
    <3>2. channel \in Seq(Messages)
      BY DEF Shape
    <3>3. /\ Head(channel) = channel[1] /\ Len(channel) \in Nat
          /\ DOMAIN channel = 1 .. Len(channel) /\ DOMAIN channel' = 1 .. Len(channel) - 1
          /\ \A k \in 1 .. Len(channel) - 1 : channel'[k] = channel[k + 1]
      BY <2>2, <3>2, AtTheHead
    <3>4. i # 1
      <4>1. channel[1].type # "create" /\ m.type = "create"
        BY <2>2, <3>3
      <4> QED BY <3>1, <4>1
    <3>5. i - 1 \in 1 .. Len(channel) - 1 /\ (i - 1) + 1 = i
      BY <3>3, <3>4
    <3>6. channel'[i - 1] = m
      BY <3>1, <3>3, <3>5
    <3> QED BY <1>1, <3>3, <3>5, <3>6
  <2> QED BY <2>1, <2>2
<1> QED BY <1>1, <1>2, <1>3, <1>4

\* A step that leaves the tables, the activity and the channel alone.
LEMMA QuietStep ==
    ASSUME IInv, NEW t \in Threads,
           UNCHANGED <<channel, looper, proxy, attributes, handlers, activity, built, crashed>>,
           thread' \in [Threads -> ThreadStates],
           \A u \in Threads : u # t => thread'[u] = thread[u],
           thread[t].at # "send",
           locks' \in [Tables -> Threads \union {None}],
           bytes' \in Nat, waiting' \subseteq 0 .. MaxCalls, timedOut' \in BOOLEAN,
           calls' \in 0 .. MaxCalls, calls' >= calls,
           timedOut => timedOut',
           \A c \in waiting : c \in waiting' \/ timedOut',
           \/ thread'[t].message = thread[t].message /\ thread'[t].at # "send"
           \/ ~Asks(thread'[t].message)
           \/ thread'[t].message.receiver >= calls,
           ThreadInv(t)', WakesMatchMessages'
    PROVE  IInv'
<1> USE DEF IInv
<1>1. Shape'
  BY DEF Shape
<1>2. Onward
  <2>1. calls' \in Nat
    BY AndroidAssumption
  <2> QED BY <2>1 DEF Onward, Shape
<1>3. TableInv'
  BY DEF TableInv
<1>4. ConfigurationChangeKeepsView'
  BY <1>3, ViewFrame
<1>5. PanicsOnlyLate'
  BY DEF PanicsOnlyLate
<1> QED BY <1>1, <1>2, <1>3, <1>4, <1>5, StepFrame

-----------------------------------------------------------------------------
(* The steps of the threads. *)

LEMMA AnsweredStep == ASSUME IInv, NEW t \in Threads, Answered(t) PROVE IInv'
<1> USE DEF IInv
<1>1. /\ thread[t].at = "answer" /\ Rests(t, thread[t].next)
      /\ waiting' = waiting \ {thread[t].message.receiver}
      /\ timedOut' = (timedOut \/ thread[t].message.receiver \in waiting)
      /\ UNCHANGED <<channel, bytes, looper, proxy, attributes, handlers, locks, activity, built,
                     calls, crashed>>
  BY DEF Answered, At, pipe, tables
<1>2. thread[t].next \in Returns /\ thread[t].next \in Places
  BY <1>1 DEF ThreadInv, Returns, Places
<1>3. /\ thread' \in [Threads -> ThreadStates]
      /\ thread'[t].at = thread[t].next /\ thread'[t].message = NoMessage /\ thread'[t].next = None
      /\ \A u \in Threads : u # t => thread'[u] = thread[u]
  BY <1>1, <1>2, PutsEffect DEF Rests
<1>4. NoMessage.type = None
  BY DEF NoMessage
<1>5. ThreadInv(t)'
  BY <1>1, <1>2, <1>3, <1>4 DEF ThreadInv, Returns, Kinds, None
<1>6. WakesMatchMessages'
  <2>1. \A u \in Threads : thread'[u].at = "write" <=> thread[u].at = "write"
    BY <1>1, <1>2, <1>3 DEF Returns
  <2> QED BY <1>1, <2>1, WakesFrame
<1>7. /\ waiting' \subseteq 0 .. MaxCalls /\ timedOut' \in BOOLEAN /\ bytes' \in Nat
      /\ locks' \in [Tables -> Threads \union {None}]
      /\ calls' \in 0 .. MaxCalls /\ calls' >= calls
  <2>1. /\ timedOut \in BOOLEAN /\ (thread[t].message.receiver \in waiting) \in BOOLEAN
        /\ waiting \subseteq 0 .. MaxCalls /\ calls \in 0 .. MaxCalls
    BY DEF Shape
  <2>2. timedOut' \in BOOLEAN /\ waiting' \subseteq 0 .. MaxCalls
    BY <1>1, <2>1
  <2>3. calls' \in 0 .. MaxCalls /\ calls' >= calls
    BY <1>1, <2>1, AndroidAssumption
  <2>4. bytes' \in Nat /\ locks' \in [Tables -> Threads \union {None}]
    BY <1>1 DEF Shape
  <2> QED BY <2>2, <2>3, <2>4
<1>8. ~Asks(thread'[t].message)
  BY <1>3, <1>4 DEF Asks, None
<1>9. \A c \in waiting : c \in waiting' \/ timedOut'
  BY <1>1
<1>10. thread[t].at # "send"
  BY <1>1
<1> QED BY <1>1, <1>3, <1>5, <1>6, <1>7, <1>8, <1>9, <1>10, QuietStep

LEMMA WriteStep == ASSUME IInv, NEW t \in Threads, Write(t) PROVE IInv'
<1> USE DEF IInv
<1>1. /\ thread[t].at = "write"
      /\ bytes' = bytes + 1
      /\ IF Asks(thread[t].message) THEN Goes(t, "answer") ELSE Rests(t, thread[t].next)
      /\ UNCHANGED <<channel, looper, proxy, attributes, handlers, locks, activity, waiting,
                     timedOut, built, calls, crashed>>
  BY DEF Write, At, Asks, tables, asking
<1>2. thread[t].next \in Returns /\ thread[t].next \in Places /\ thread[t].message \in Messages
  BY <1>1 DEF ThreadInv, Returns, Places
<1>3. NoMessage.type = None
  BY DEF NoMessage
<1>4. /\ thread' \in [Threads -> ThreadStates]
      /\ \/ /\ thread'[t].at = "answer" /\ thread'[t].message = thread[t].message
            /\ thread'[t].next = thread[t].next /\ Asks(thread[t].message)
         \/ /\ thread'[t].at = thread[t].next /\ thread'[t].message = NoMessage
            /\ thread'[t].next = None
      /\ \A u \in Threads : u # t => thread'[u] = thread[u]
  <2>1. CASE Asks(thread[t].message)
    <3>1. Goes(t, "answer") /\ "answer" \in Places
      BY <1>1, <2>1 DEF Places
    <3> QED BY <2>1, <3>1, GoesEffect
  <2>2. CASE ~Asks(thread[t].message)
    BY <1>1, <1>2, <2>2, PutsEffect DEF Rests
  <2> QED BY <2>1, <2>2
<1>5. ThreadInv(t)'
  <2>1. CASE thread'[t].at = "answer" /\ thread'[t].message = thread[t].message
             /\ thread'[t].next = thread[t].next /\ Asks(thread[t].message)
    <3>1. ~(thread'[t].message.type = "create") /\ thread'[t].at = "answer"
      BY <2>1 DEF Asks
    <3>2. thread'[t].message.type \in Kinds => thread'[t].message.receiver < calls'
      BY <1>1, <2>1 DEF ThreadInv
    <3>3. thread'[t].next = "handler" => built' # {}
      BY <1>1, <2>1 DEF ThreadInv
    <3>4. thread'[t].message \in Messages /\ thread'[t].next \in Returns
      BY <1>2, <2>1
    <3>5. Asks(thread[t].message)'
      BY <2>1 DEF Asks
    <3> QED BY <3>1, <3>2, <3>3, <3>4, <3>5 DEF ThreadInv, Asks
  <2>2. CASE thread'[t].at = thread[t].next /\ thread'[t].message = NoMessage
             /\ thread'[t].next = None
    BY <1>1, <1>2, <1>3, <2>2 DEF ThreadInv, Returns, Kinds, None
  <2> QED BY <1>4, <2>1, <2>2
<1>6. thread'[t].at # "write"
  BY <1>2, <1>4 DEF Returns
<1>7. WakesMatchMessages'
  <2> DEFINE W == {u \in Threads : At(u, "write")}
  <2>1. Cardinality(W') = Cardinality(W) - 1 /\ Cardinality(W) \in Nat
    BY <1>1, <1>4, <1>6, Writers DEF At
  <2>2. bytes + Cardinality(W) = Len(channel) /\ bytes \in Nat
    BY DEF WakesMatchMessages, Shape
  <2>3. bytes' + Cardinality(W') = Len(channel')
    BY <1>1, <2>1, <2>2
  <2> QED BY <2>3 DEF WakesMatchMessages
<1>8. /\ waiting' \subseteq 0 .. MaxCalls /\ timedOut' \in BOOLEAN /\ bytes' \in Nat
      /\ locks' \in [Tables -> Threads \union {None}]
      /\ calls' \in 0 .. MaxCalls /\ calls' >= calls
  BY <1>1, AndroidAssumption DEF Shape
<1>9. \/ thread'[t].message = thread[t].message /\ thread'[t].at # "send"
      \/ ~Asks(thread'[t].message)
  BY <1>3, <1>4 DEF Asks, None
<1>10. thread[t].at # "send"
  BY <1>1
<1> QED BY <1>1, <1>4, <1>5, <1>7, <1>8, <1>9, <1>10, QuietStep

LEMMA CallStep ==
    ASSUME IInv, NEW t \in Threads, thread[t].at \in {"idle", "handler"}, built # {}, Call(t)
    PROVE  IInv'
<1> USE DEF IInv
<1>1. /\ calls < MaxCalls /\ calls' = calls + 1
      /\ UNCHANGED <<channel, bytes, looper, proxy, attributes, handlers, locks, activity,
                     timedOut, built, crashed>>
  BY DEF Call, pipe, tables
<1>2. PICK type \in Kinds :
        /\ SendsFrom(t, [type |-> type, receiver |-> calls], thread[t].at)
        /\ waiting' = IF type = "ask" THEN waiting \union {calls} ELSE waiting
  BY DEF Call, Kinds
<1> DEFINE m == [type |-> type, receiver |-> calls]
<1>3. calls \in Nat /\ calls \in 0 .. MaxCalls /\ calls' \in 0 .. MaxCalls /\ calls' >= calls /\ calls < calls'
  BY <1>1, AndroidAssumption DEF Shape
<1>4. m \in Messages /\ m.type = type /\ m.receiver = calls
  BY <1>3, MessagesMade
<1> HIDE DEF m
<1>5. /\ thread' \in [Threads -> ThreadStates]
      /\ thread'[t].at = "send" /\ thread'[t].message = m /\ thread'[t].next = thread[t].at
      /\ \A u \in Threads : u # t => thread'[u] = thread[u]
  <2>1. thread' = [thread EXCEPT ![t] = [at |-> "send", message |-> m, next |-> thread[t].at]]
    BY <1>2 DEF SendsFrom, m
  <2>2. "send" \in Places /\ thread[t].at \in Places
    BY DEF Places
  <2> QED BY <1>4, <2>1, <2>2, PutsEffect
<1>6. ThreadInv(t)'
  <2>1. Asks(m) => m.receiver \in waiting'
    BY <1>2, <1>4 DEF Asks
  <2> QED BY <1>1, <1>3, <1>4, <1>5, <2>1 DEF ThreadInv, MessageInv, Returns, Kinds, Asks
<1>7. WakesMatchMessages'
  <2>1. \A u \in Threads : thread'[u].at = "write" <=> thread[u].at = "write"
    BY <1>5
  <2> QED BY <1>1, <2>1, WakesFrame
<1>8. /\ waiting' \subseteq 0 .. MaxCalls /\ timedOut' \in BOOLEAN /\ bytes' \in Nat
      /\ locks' \in [Tables -> Threads \union {None}]
  BY <1>1, <1>2, <1>3 DEF Shape
<1>9. thread'[t].message.receiver >= calls
  BY <1>3, <1>4, <1>5
<1>10. thread[t].at # "send" /\ \A c \in waiting : c \in waiting'
  BY <1>2
<1> QED BY <1>1, <1>3, <1>5, <1>6, <1>7, <1>8, <1>9, <1>10, QuietStep

LEMMA HandlingIs ==
    /\ Handling["bridge"] \in Tables /\ Handling["network"] \in Tables /\ Handling["main"] \in Tables
BY DEF Handling, Tables

LEMMA HandlerStartsStep ==
    ASSUME IInv, NEW t \in {"bridge", "network", "main"}, HandlerStarts(t)
    PROVE  IInv'
<1> USE DEF IInv
<1>1. /\ thread[t].at \in {"looper", "idle"}
      /\ activity.webview \in handlers[Handling[t]]
      /\ locks' = [locks EXCEPT ![Handling[t]] = t]
      /\ Goes(t, "handler")
      /\ UNCHANGED <<channel, bytes, looper, proxy, attributes, handlers, activity, waiting,
                     timedOut, built, calls, crashed>>
  BY DEF HandlerStarts, Resting, At, pipe, tables, asking
<1>2. t \in Threads /\ Handling[t] \in Tables /\ "handler" \in Places
  BY HandlingIs DEF Threads, Places
<1>3. built # {}
  BY <1>1, <1>2 DEF TableInv
<1>4. /\ thread' \in [Threads -> ThreadStates]
      /\ thread'[t].at = "handler" /\ thread'[t].message = thread[t].message
      /\ thread'[t].next = thread[t].next
      /\ \A u \in Threads : u # t => thread'[u] = thread[u]
  BY <1>1, <1>2, GoesEffect
<1>5. ThreadInv(t)'
  BY <1>1, <1>2, <1>3, <1>4 DEF ThreadInv
<1>6. WakesMatchMessages'
  <2>1. \A u \in Threads : thread'[u].at = "write" <=> thread[u].at = "write"
    BY <1>1, <1>4
  <2> QED BY <1>1, <2>1, WakesFrame
<1>7. /\ waiting' \subseteq 0 .. MaxCalls /\ timedOut' \in BOOLEAN /\ bytes' \in Nat
      /\ locks' \in [Tables -> Threads \union {None}]
      /\ calls' \in 0 .. MaxCalls /\ calls' >= calls
  BY <1>1, <1>2, AndroidAssumption DEF Shape
<1>8. thread[t].at # "send" /\ thread'[t].at # "send"
  BY <1>1, <1>4
<1> QED BY <1>1, <1>2, <1>4, <1>5, <1>6, <1>7, <1>8, QuietStep

LEMMA HandlerReturnsStep ==
    ASSUME IInv, NEW t \in {"bridge", "network", "main"}, HandlerReturns(t)
    PROVE  IInv'
<1> USE DEF IInv
<1>1. /\ thread[t].at = "handler"
      /\ locks' = [locks EXCEPT ![Handling[t]] = None]
      /\ Goes(t, Resting(t)) /\ Resting(t) \in {"looper", "idle"}
      /\ UNCHANGED <<channel, bytes, looper, proxy, attributes, handlers, activity, waiting,
                     timedOut, built, calls, crashed>>
  BY DEF HandlerReturns, Releases, Resting, At, pipe, tables, asking
<1>2. t \in Threads /\ Handling[t] \in Tables /\ Resting(t) \in Places
  BY <1>1, HandlingIs DEF Threads, Places
<1>3. /\ thread' \in [Threads -> ThreadStates]
      /\ thread'[t].at \in {"looper", "idle"} /\ thread'[t].message = thread[t].message
      /\ thread'[t].next = thread[t].next
      /\ \A u \in Threads : u # t => thread'[u] = thread[u]
  BY <1>1, <1>2, GoesEffect
<1>4. ThreadInv(t)'
  BY <1>1, <1>2, <1>3 DEF ThreadInv
<1>5. WakesMatchMessages'
  <2>1. \A u \in Threads : thread'[u].at = "write" <=> thread[u].at = "write"
    BY <1>1, <1>3
  <2> QED BY <1>1, <2>1, WakesFrame
<1>6. /\ waiting' \subseteq 0 .. MaxCalls /\ timedOut' \in BOOLEAN /\ bytes' \in Nat
      /\ locks' \in [Tables -> Threads \union {None}]
      /\ calls' \in 0 .. MaxCalls /\ calls' >= calls
  BY <1>1, <1>2, AndroidAssumption DEF Shape
<1>7. thread[t].at # "send" /\ thread'[t].at # "send"
  BY <1>1, <1>3
<1> QED BY <1>1, <1>2, <1>3, <1>4, <1>5, <1>6, <1>7, QuietStep

-----------------------------------------------------------------------------
(* Building a view. *)

LEMMA NewStep == ASSUME IInv, NEW v \in Views, New(v) PROVE IInv'
<1> USE DEF IInv
<1> DEFINE m == [type |-> "create", view |-> v]
<1>1. /\ thread["host"].at = "idle" /\ proxy.there
      /\ built' = built \union {v}
      /\ handlers' = [handlers EXCEPT !["request"] = @ \union {v}]
      /\ thread' = [thread EXCEPT !["host"] = [at |-> "new ipc", message |-> m, next |-> "idle"]]
      /\ UNCHANGED <<channel, bytes, looper, proxy, attributes, locks, activity, waiting, timedOut,
                     calls, crashed>>
  BY DEF New, At, pipe, asking
<1>2. m \in Creations /\ m \in Messages /\ m.type = "create" /\ m.view = v
  BY MessagesMade
<1> HIDE DEF m
<1>3. "host" \in Threads /\ "new ipc" \in Places /\ "idle" \in Places /\ "request" \in Tables
  BY DEF Threads, Places, Tables
<1>4. /\ thread' \in [Threads -> ThreadStates]
      /\ thread'["host"].at = "new ipc" /\ thread'["host"].message = m
      /\ thread'["host"].next = "idle"
      /\ \A u \in Threads : u # "host" => thread'[u] = thread[u]
  BY <1>1, <1>2, <1>3, PutsEffect
<1>5. /\ handlers' \in [Tables -> SUBSET Views] /\ v \in handlers'["request"]
      /\ \A k \in Tables : handlers[k] \subseteq handlers'[k]
      /\ \A k \in Tables : handlers'[k] \subseteq handlers[k] \union {v}
  <2>1. handlers \in [Tables -> SUBSET Views]
    BY DEF Shape
  <2> QED BY <1>1, <1>3, <2>1
<1>6. Shape' /\ Onward
  <2>1. built \subseteq Views
    BY DEF Shape
  <2>2. built' \subseteq Views /\ built \subseteq built'
    BY <1>1, <2>1
  <2>3. Shape'
    BY <1>1, <1>4, <1>5, <2>2 DEF Shape
  <2> QED BY <1>1, <2>2, <2>3, GoesOn
<1>7. ThreadInv("host")'
  <2>1. m.type \notin Kinds
    BY <1>2 DEF Kinds
  <2>2. v \in built' /\ v \in handlers'["request"]
    BY <1>1, <1>5
  <2>3. ~Asks(thread'["host"].message) /\ "idle" \in Returns
    BY <1>2, <1>4 DEF Asks, Returns
  <2> QED BY <1>2, <1>4, <2>1, <2>2, <2>3 DEF ThreadInv
<1>8. TableInv'
  <2>1. \A k \in Tables : handlers'[k] \subseteq built'
    BY <1>1, <1>5 DEF TableInv
  <2>2. attributes' # None /\ ~activity'.lost => \A k \in Tables : attributes' \in handlers'[k]
    BY <1>1, <1>5 DEF TableInv
  <2> QED BY <1>1, <2>1, <2>2 DEF TableInv
<1>9. WakesMatchMessages'
  <2>1. \A u \in Threads : thread'[u].at = "write" <=> thread[u].at = "write"
    BY <1>1, <1>4
  <2> QED BY <1>1, <2>1, WakesFrame
<1>10. ConfigurationChangeKeepsView'
  BY <1>1, <1>3, <1>4, <1>8, ViewFrame
<1>11. PanicsOnlyLate' /\ ~Asks(thread'["host"].message) /\ thread["host"].at # "send"
  BY <1>1, <1>2, <1>4 DEF PanicsOnlyLate, Asks
<1> QED BY <1>1, <1>3, <1>4, <1>5, <1>6, <1>7, <1>8, <1>9, <1>10, <1>11, StepFrame

LEMMA NewIpcStep == ASSUME IInv, NewIpc PROVE IInv'
<1> USE DEF IInv
<1>1. /\ thread["host"].at = "new ipc"
      /\ handlers' = [handlers EXCEPT !["ipc"] = @ \union {thread["host"].message.view}]
      /\ Goes("host", "new page")
      /\ UNCHANGED <<channel, bytes, looper, proxy, attributes, locks, activity, waiting, timedOut,
                     built, calls, crashed>>
  BY DEF NewIpc, At, pipe, asking
<1>2. PICK m \in Creations : m = thread["host"].message /\ m.view \in built
  BY <1>1 DEF ThreadInv, Threads
<1>3. m.type = "create" /\ m.view \in Views /\ m \in Messages
  BY Kind, MessagesMade DEF Creations
<1>4. "host" \in Threads /\ "new page" \in Places /\ "ipc" \in Tables /\ "request" \in Tables
  BY DEF Threads, Places, Tables
<1>5. /\ thread' \in [Threads -> ThreadStates]
      /\ thread'["host"].at = "new page" /\ thread'["host"].message = m
      /\ thread'["host"].next = thread["host"].next
      /\ \A u \in Threads : u # "host" => thread'[u] = thread[u]
  BY <1>1, <1>2, <1>4, GoesEffect
<1>6. /\ handlers' \in [Tables -> SUBSET Views] /\ m.view \in handlers'["ipc"]
      /\ \A k \in Tables : handlers[k] \subseteq handlers'[k]
      /\ \A k \in Tables : handlers'[k] \subseteq handlers[k] \union {m.view}
  <2>1. handlers \in [Tables -> SUBSET Views]
    BY DEF Shape
  <2> QED BY <1>1, <1>2, <1>3, <1>4, <2>1
<1>7. Shape' /\ Onward
  <2>1. built \subseteq Views
    BY DEF Shape
  <2>2. Shape'
    BY <1>1, <1>5, <1>6 DEF Shape
  <2> QED BY <1>1, <2>1, <2>2, GoesOn
<1>8. ThreadInv("host")'
  <2>1. m.type \notin Kinds
    BY <1>3 DEF Kinds
  <2>2. thread["host"].next \in Returns /\ (m.view \in handlers["request"] \/ activity.lost)
    BY <1>1, <1>2, <1>4 DEF ThreadInv
  <2>3. thread["host"].next = "handler" => built # {}
    BY <1>4 DEF ThreadInv
  <2> QED BY <1>1, <1>2, <1>3, <1>4, <1>5, <1>6, <2>1, <2>2, <2>3 DEF ThreadInv
<1>9. TableInv'
  <2>1. \A k \in Tables : handlers'[k] \subseteq built'
    BY <1>1, <1>2, <1>6 DEF TableInv
  <2>2. attributes' # None /\ ~activity'.lost => \A k \in Tables : attributes' \in handlers'[k]
    BY <1>1, <1>6 DEF TableInv
  <2>3. built' # {} => proxy'.there \/ activity'.lost
    BY <1>1 DEF TableInv
  <2> QED BY <2>1, <2>2, <2>3 DEF TableInv
<1>10. WakesMatchMessages'
  <2>1. \A u \in Threads : thread'[u].at = "write" <=> thread[u].at = "write"
    BY <1>1, <1>5
  <2> QED BY <1>1, <2>1, WakesFrame
<1>11. ConfigurationChangeKeepsView'
  BY <1>1, <1>4, <1>5, <1>9, ViewFrame
<1>12. PanicsOnlyLate' /\ ~Asks(thread'["host"].message) /\ thread["host"].at # "send"
  BY <1>1, <1>3, <1>5 DEF PanicsOnlyLate, Asks
<1> QED BY <1>1, <1>4, <1>5, <1>6, <1>7, <1>8, <1>9, <1>10, <1>11, <1>12, StepFrame

LEMMA NewPageStep == ASSUME IInv, NewPage PROVE IInv'
<1> USE DEF IInv
<1>1. /\ thread["host"].at = "new page" /\ thread["main"].message.type # "create"
      /\ handlers' = [handlers EXCEPT !["page"] = @ \union {thread["host"].message.view}]
      /\ attributes' = thread["host"].message.view
      /\ Goes("host", "send")
      /\ UNCHANGED <<channel, bytes, looper, proxy, locks, activity, waiting, timedOut, built,
                     calls, crashed>>
  BY DEF NewPage, SetupSends, At, pipe, asking
<1>2. PICK m \in Creations : m = thread["host"].message /\ m.view \in built
  BY <1>1 DEF ThreadInv, Threads
<1>3. m.type = "create" /\ m.view \in Views /\ m \in Messages /\ m = [type |-> "create", view |-> m.view]
  BY Kind, MessagesMade DEF Creations
<1>4. /\ "host" \in Threads /\ "send" \in Places
      /\ "ipc" \in Tables /\ "request" \in Tables /\ "page" \in Tables
      /\ \A k \in Tables : k \in {"request", "ipc", "page"}
  BY DEF Threads, Places, Tables
<1>5. /\ thread' \in [Threads -> ThreadStates]
      /\ thread'["host"].at = "send" /\ thread'["host"].message = m
      /\ thread'["host"].next = thread["host"].next
      /\ \A u \in Threads : u # "host" => thread'[u] = thread[u]
  BY <1>1, <1>2, <1>4, GoesEffect
<1>6. /\ handlers' \in [Tables -> SUBSET Views] /\ m.view \in handlers'["page"]
      /\ \A k \in Tables : handlers[k] \subseteq handlers'[k]
      /\ \A k \in Tables : handlers'[k] \subseteq handlers[k] \union {m.view}
  <2>1. handlers \in [Tables -> SUBSET Views]
    BY DEF Shape
  <2> QED BY <1>1, <1>2, <1>3, <1>4, <2>1
<1>7. Shape' /\ Onward
  <2>1. built \subseteq Views
    BY DEF Shape
  <2>2. attributes' \in Views \union {None}
    BY <1>1, <1>2, <1>3
  <2>3. Shape'
    BY <1>1, <1>5, <1>6, <2>2 DEF Shape
  <2> QED BY <1>1, <2>1, <2>3, GoesOn
<1>8. /\ m.type \notin Kinds /\ ~Asks(m) /\ attributes' = m.view
  BY <1>1, <1>2, <1>3 DEF Kinds, Asks
<1>9. ThreadInv("host")'
  <2>1. thread["host"].next \in Returns
    BY <1>1, <1>4 DEF ThreadInv
  <2>2. thread["host"].next = "handler" => built # {}
    BY <1>4 DEF ThreadInv
  <2>3. MessageInv(thread["host"].message)'
    BY <1>3, <1>5, <1>8 DEF MessageInv, Asks
  <2> QED BY <1>1, <1>3, <1>4, <1>5, <1>8, <2>1, <2>2, <2>3 DEF ThreadInv
<1>10. TableInv'
  <2>1. \A k \in Tables : handlers'[k] \subseteq built'
    BY <1>1, <1>2, <1>6 DEF TableInv
  <2>2. ~activity'.lost => \A k \in Tables : m.view \in handlers'[k]
    <3>1. ~activity.lost => m.view \in handlers["request"] /\ m.view \in handlers["ipc"]
      BY <1>1, <1>2, <1>4 DEF ThreadInv
    <3> QED BY <1>1, <1>4, <1>6, <3>1
  <2>3. built' # {} => proxy'.there \/ activity'.lost
    BY <1>1 DEF TableInv
  <2> QED BY <1>8, <2>1, <2>2, <2>3 DEF TableInv
<1>11. WakesMatchMessages'
  <2>1. \A u \in Threads : thread'[u].at = "write" <=> thread[u].at = "write"
    BY <1>1, <1>5
  <2> QED BY <1>1, <2>1, WakesFrame
<1>12. thread'["host"].message = [type |-> "create", view |-> attributes']
  BY <1>3, <1>5, <1>8
<1>13. ConfigurationChangeKeepsView'
  <2>1. Creating(attributes)'
    BY <1>4, <1>5, <1>12 DEF Creating, Sending, At
  <2>2. attributes' # None /\ ~activity'.lost => \A k \in Tables : attributes' \in handlers'[k]
    BY <1>10 DEF TableInv
  <2> QED BY <2>1, <2>2 DEF ConfigurationChangeKeepsView
<1>14. PanicsOnlyLate' /\ ~Asks(thread'["host"].message) /\ thread["host"].at # "send"
  BY <1>1, <1>5, <1>8 DEF PanicsOnlyLate
<1>15. \A u \in Threads : u # "host" =>
          ~(thread[u].at = "send" /\ thread[u].message.type = "create")
  BY <1>1 DEF ThreadInv
<1> QED BY <1>1, <1>4, <1>5, <1>6, <1>7, <1>9, <1>10, <1>11, <1>12, <1>13, <1>14, <1>15, StepFrame

-----------------------------------------------------------------------------
(* The life of the activity. *)

LEMMA ActivityCreatedStep == ASSUME IInv, ActivityCreated PROVE IInv'
<1> USE DEF IInv
<1> DEFINE m == [type |-> "create", view |-> attributes]
<1>1. /\ thread["main"].at \in {"relaunch", "looper"} /\ activity.life < MaxLives
      /\ activity' = [activity EXCEPT !.life = @ + 1, !.alive = TRUE, !.webview = None]
      /\ proxy' = [proxy EXCEPT !.there = TRUE]
      /\ UNCHANGED <<channel, bytes, looper, attributes, handlers, locks, waiting, timedOut, built,
                     calls, crashed>>
  BY DEF ActivityCreated, Setup, RegisterActivityProxy, At, pipe, asking
<1>2. IF attributes = None THEN Goes("main", "looper")
      ELSE thread' = [thread EXCEPT !["main"] = [at |-> "send", message |-> m, next |-> "looper"]]
  BY DEF ActivityCreated, Setup, SendsFrom
<1>3. attributes # None => m \in Messages /\ m.type = "create" /\ m.view = attributes
  BY MessagesMade DEF Shape
<1> HIDE DEF m
<1>4. "main" \in Threads /\ "send" \in Places /\ "looper" \in Places
  BY DEF Threads, Places
<1>5. /\ thread' \in [Threads -> ThreadStates]
      /\ \/ /\ thread'["main"].at = "looper" /\ thread'["main"].message = thread["main"].message
            /\ thread'["main"].next = thread["main"].next /\ attributes = None
         \/ /\ thread'["main"].at = "send" /\ thread'["main"].message = m
            /\ thread'["main"].next = "looper" /\ attributes # None
      /\ \A u \in Threads : u # "main" => thread'[u] = thread[u]
  <2>1. CASE attributes = None
    <3>1. Goes("main", "looper")
      BY <1>2, <2>1
    <3> QED BY <1>4, <2>1, <3>1, GoesEffect
  <2>2. CASE attributes # None
    <3>1. thread' = [thread EXCEPT !["main"] = [at |-> "send", message |-> m, next |-> "looper"]]
      BY <1>2, <2>2
    <3> QED BY <1>3, <1>4, <2>2, <3>1, PutsEffect
  <2> QED BY <2>1, <2>2
<1>6. /\ activity' \in Activities /\ activity'.lost = activity.lost
      /\ proxy' \in Proxies /\ proxy'.there
  <2>1. activity \in Activities /\ proxy \in Proxies
    BY DEF Shape
  <2>2. activity.life + 1 \in 0 .. MaxLives
    BY <1>1, <2>1, AndroidAssumption DEF Activities
  <2>3. activity' \in Activities /\ activity'.lost = activity.lost
    BY <1>1, <2>1, <2>2 DEF Activities
  <2>4. proxy' \in Proxies /\ proxy'.there
    BY <1>1, <2>1 DEF Proxies
  <2> QED BY <2>3, <2>4
<1>7. Shape' /\ Onward
  <2>1. built \subseteq Views
    BY DEF Shape
  <2>2. Shape'
    BY <1>1, <1>5, <1>6 DEF Shape
  <2> QED BY <1>1, <1>6, <2>1, <2>2, GoesOn
<1>8. ThreadInv("main")'
  <2>1. CASE thread'["main"].at = "looper" /\ thread'["main"].message = thread["main"].message
             /\ thread'["main"].next = thread["main"].next
    <3>1. /\ thread["main"].message.type \in Kinds => thread["main"].message.receiver < calls
          /\ thread["main"].next = "handler" => built # {}
          /\ thread["main"].message.type = "create" => "main" \in {"host", "main"}
      BY <1>4 DEF ThreadInv
    <3> QED BY <1>1, <2>1, <3>1 DEF ThreadInv
  <2>2. CASE thread'["main"].at = "send" /\ thread'["main"].message = m
             /\ thread'["main"].next = "looper" /\ attributes # None
    <3>1. m.type \notin Kinds /\ ~Asks(m) /\ m.type = "create" /\ m \in Messages /\ m.view = attributes
      BY <1>3, <2>2 DEF Kinds, Asks
    <3>2. MessageInv(thread["main"].message)'
      BY <2>2, <3>1 DEF MessageInv, Asks
    <3>3. "looper" \in Returns
      BY DEF Returns
    <3> QED BY <1>1, <2>2, <3>1, <3>2, <3>3 DEF ThreadInv
  <2> QED BY <1>5, <2>1, <2>2
<1>9. TableInv'
  BY <1>1, <1>6 DEF TableInv
<1>10. WakesMatchMessages'
  <2>1. \A u \in Threads : thread'[u].at = "write" <=> thread[u].at = "write"
    BY <1>1, <1>5
  <2> QED BY <1>1, <2>1, WakesFrame
<1>11. ConfigurationChangeKeepsView'
  <2> SUFFICES ASSUME attributes # None, ~activity.lost
               PROVE  (\A k \in Tables : attributes \in handlers[k]) /\ Creating(attributes)'
    BY <1>1, <1>6 DEF ConfigurationChangeKeepsView
  <2>1. Creating(attributes)'
    BY <1>1, <1>4, <1>5 DEF Creating, Sending, At, m
  <2> QED BY <2>1 DEF TableInv
<1>12. PanicsOnlyLate' /\ thread["main"].at # "send"
  BY <1>1, <1>6 DEF PanicsOnlyLate
<1>13. \/ thread'["main"].message = thread["main"].message /\ thread'["main"].at # "send"
       \/ ~Asks(thread'["main"].message)
  BY <1>3, <1>5 DEF Asks
<1>14. \A k \in Tables : handlers[k] \subseteq handlers'[k]
  BY <1>1
<1> QED
  BY <1>1, <1>4, <1>5, <1>7, <1>8, <1>9, <1>10, <1>11, <1>12, <1>13, <1>14, StepFrame

LEMMA ActivityDestroyedStep ==
    ASSUME IInv, NEW changing \in BOOLEAN, ActivityDestroyed(changing)
    PROVE  IInv'
<1> USE DEF IInv
<1> DEFINE m == [type |-> "destroy", view |-> activity.webview, changing |-> changing]
<1> DEFINE next == IF changing THEN "relaunch" ELSE "looper"
<1>1. /\ thread["main"].at = "looper"
      /\ activity' = [activity EXCEPT !.alive = FALSE, !.lost = @ \/ ~changing]
      /\ thread' = [thread EXCEPT !["main"] = [at |-> "send", message |-> m, next |-> next]]
      /\ UNCHANGED <<channel, bytes, looper, proxy, attributes, handlers, locks, waiting, timedOut,
                     built, calls, crashed>>
  BY DEF ActivityDestroyed, SendsFrom, At, pipe, tables, asking
<1>2. activity \in Activities /\ activity.webview \in Views \union {None} /\ activity.lost \in BOOLEAN
  BY DEF Shape, Activities
<1>3. m \in Messages /\ m.type = "destroy" /\ m.changing = changing
  BY <1>2, MessagesMade
<1>4. next \in Returns /\ next \in Places /\ next # "handler"
  BY DEF Returns, Places
<1> HIDE DEF m, next
<1>5. "main" \in Threads /\ "send" \in Places
  BY DEF Threads, Places
<1>6. /\ thread' \in [Threads -> ThreadStates]
      /\ thread'["main"].at = "send" /\ thread'["main"].message = m /\ thread'["main"].next = next
      /\ \A u \in Threads : u # "main" => thread'[u] = thread[u]
  BY <1>1, <1>3, <1>4, <1>5, PutsEffect
<1>7. /\ activity' \in Activities /\ ~activity'.alive
      /\ activity.lost => activity'.lost
      /\ ~changing => activity'.lost
  <2>1. (activity.lost \/ ~changing) \in BOOLEAN
    OBVIOUS
  <2>2. activity' \in Activities /\ ~activity'.alive /\ activity'.lost = (activity.lost \/ ~changing)
    BY <1>1, <1>2, <2>1 DEF Activities
  <2> QED BY <2>2
<1>8. Shape' /\ Onward
  <2>1. built \subseteq Views
    BY DEF Shape
  <2>2. Shape'
    BY <1>1, <1>6, <1>7 DEF Shape
  <2> QED BY <1>1, <1>7, <2>1, <2>2, GoesOn
<1>9. m.type \notin Kinds /\ ~Asks(m) /\ m.type # "create"
  BY <1>3 DEF Kinds, Asks
<1>10. ThreadInv("main")'
  <2>1. MessageInv(thread["main"].message)'
    BY <1>3, <1>6, <1>7, <1>9 DEF MessageInv, Asks
  <2> QED BY <1>3, <1>4, <1>6, <1>9, <2>1 DEF ThreadInv
<1>11. TableInv'
  BY <1>1, <1>7 DEF TableInv
<1>12. WakesMatchMessages'
  <2>1. \A u \in Threads : thread'[u].at = "write" <=> thread[u].at = "write"
    BY <1>1, <1>6
  <2> QED BY <1>1, <2>1, WakesFrame
<1>13. ConfigurationChangeKeepsView'
  BY <1>7 DEF ConfigurationChangeKeepsView
<1>14. PanicsOnlyLate' /\ thread["main"].at # "send" /\ ~Asks(thread'["main"].message)
  BY <1>1, <1>6, <1>7, <1>9 DEF PanicsOnlyLate
<1>15. \A k \in Tables : handlers[k] \subseteq handlers'[k]
  BY <1>1
<1> QED
  BY <1>1, <1>5, <1>6, <1>8, <1>10, <1>11, <1>12, <1>13, <1>14, <1>15, StepFrame

\* What the main thread does on its way to destroy the views, when the activity is lost.
LEMMA DestroyIpcStep == ASSUME IInv, DestroyIpc PROVE IInv'
<1> USE DEF IInv
<1>1. /\ thread["main"].at = "destroy ipc"
      /\ handlers' = [handlers EXCEPT !["ipc"] = @ \ {thread["main"].message.view}]
      /\ Goes("main", "destroy request")
      /\ UNCHANGED <<channel, bytes, looper, proxy, attributes, locks, activity, waiting, timedOut,
                     built, calls, crashed>>
  BY DEF DestroyIpc, At, pipe, asking
<1>2. "main" \in Threads /\ "destroy request" \in Places
  BY DEF Threads, Places
<1>3. activity.lost
  BY <1>1, <1>2 DEF ThreadInv
<1>4. /\ thread' \in [Threads -> ThreadStates]
      /\ thread'["main"].at = "destroy request"
      /\ thread'["main"].message = thread["main"].message
      /\ thread'["main"].next = thread["main"].next
      /\ \A u \in Threads : u # "main" => thread'[u] = thread[u]
  BY <1>1, <1>2, GoesEffect
<1>5. /\ handlers' \in [Tables -> SUBSET Views]
      /\ \A k \in Tables : handlers'[k] \subseteq handlers[k]
  <2>1. handlers \in [Tables -> SUBSET Views]
    BY DEF Shape
  <2> QED BY <1>1, <2>1
<1>6. Shape' /\ Onward
  <2>1. built \subseteq Views
    BY DEF Shape
  <2>2. Shape'
    BY <1>1, <1>4, <1>5 DEF Shape
  <2> QED BY <1>1, <2>1, <2>2, GoesOn
<1>7. ThreadInv("main")'
  <2>1. /\ thread["main"].message.type \in Kinds => thread["main"].message.receiver < calls
        /\ thread["main"].next = "handler" => built # {}
        /\ thread["main"].message.type = "create" => "main" \in {"host", "main"}
    BY <1>2 DEF ThreadInv
  <2> QED BY <1>1, <1>3, <1>4, <2>1 DEF ThreadInv
<1>8. TableInv'
  BY <1>1, <1>3, <1>5 DEF TableInv
<1>9. WakesMatchMessages'
  <2>1. \A u \in Threads : thread'[u].at = "write" <=> thread[u].at = "write"
    BY <1>1, <1>4
  <2> QED BY <1>1, <2>1, WakesFrame
<1>10. ConfigurationChangeKeepsView' /\ PanicsOnlyLate'
  BY <1>1, <1>3 DEF ConfigurationChangeKeepsView, PanicsOnlyLate
<1>11. thread["main"].at # "send" /\ thread'["main"].at # "send" /\ activity'.lost
  BY <1>1, <1>3, <1>4
<1> QED BY <1>1, <1>2, <1>4, <1>6, <1>7, <1>8, <1>9, <1>10, <1>11, StepFrame

LEMMA DestroyRequestStep == ASSUME IInv, DestroyRequest PROVE IInv'
<1> USE DEF IInv
<1>1. /\ thread["main"].at = "destroy request"
      /\ handlers' = [handlers EXCEPT !["request"] = @ \ {thread["main"].message.view},
                                      !["page"] = @ \ {thread["main"].message.view}]
      /\ proxy' = [there |-> FALSE, webview |-> None, life |-> 0]
      /\ thread' = [thread EXCEPT !["main"] = [at |-> "looper", message |-> NoMessage, next |-> None]]
      /\ UNCHANGED <<channel, bytes, looper, attributes, locks, activity, waiting, timedOut, built,
                     calls, crashed>>
  BY DEF DestroyRequest, Done, Rests, At, pipe, asking
<1>2. "main" \in Threads /\ "looper" \in Places /\ NoMessage.type = None
  BY DEF Threads, Places, NoMessage
<1>3. activity.lost
  BY <1>1, <1>2 DEF ThreadInv
<1>4. /\ thread' \in [Threads -> ThreadStates]
      /\ thread'["main"].at = "looper" /\ thread'["main"].message = NoMessage
      /\ thread'["main"].next = None
      /\ \A u \in Threads : u # "main" => thread'[u] = thread[u]
  BY <1>1, <1>2, PutsEffect
<1>5. /\ handlers' \in [Tables -> SUBSET Views] /\ proxy' \in Proxies
      /\ \A k \in Tables : handlers'[k] \subseteq handlers[k]
  <2>1. handlers \in [Tables -> SUBSET Views]
    BY DEF Shape
  <2>2. proxy' \in Proxies
    <3>1. 0 \in 0 .. MaxLives
      BY AndroidAssumption
    <3> QED BY <1>1, <3>1 DEF Proxies
  <2> QED BY <1>1, <2>1, <2>2
<1>6. Shape' /\ Onward
  <2>1. built \subseteq Views
    BY DEF Shape
  <2>2. Shape'
    BY <1>1, <1>4, <1>5 DEF Shape
  <2> QED BY <1>1, <2>1, <2>2, GoesOn
<1>7. ThreadInv("main")' /\ ~Asks(thread'["main"].message)
  BY <1>2, <1>4 DEF ThreadInv, Kinds, Asks, None
<1>8. TableInv'
  BY <1>1, <1>3, <1>5 DEF TableInv
<1>9. WakesMatchMessages'
  <2>1. \A u \in Threads : thread'[u].at = "write" <=> thread[u].at = "write"
    BY <1>1, <1>4
  <2> QED BY <1>1, <2>1, WakesFrame
<1>10. ConfigurationChangeKeepsView' /\ PanicsOnlyLate'
  BY <1>1, <1>3 DEF ConfigurationChangeKeepsView, PanicsOnlyLate
<1>11. thread["main"].at # "send" /\ activity'.lost
  BY <1>1, <1>3
<1> QED BY <1>1, <1>2, <1>4, <1>6, <1>7, <1>8, <1>9, <1>10, <1>11, StepFrame

-----------------------------------------------------------------------------
(* The channel: a thread appends its message. *)

LEMMA SendStep == ASSUME IInv, NEW t \in Threads, Send(t) PROVE IInv'
<1> USE DEF IInv
<1>1. /\ thread[t].at = "send" /\ Len(channel) < Capacity
      /\ channel' = Append(channel, thread[t].message)
      /\ Goes(t, "write")
      /\ UNCHANGED <<bytes, looper, proxy, attributes, handlers, locks, activity, waiting, timedOut,
                     built, calls, crashed>>
  BY DEF Send, At, tables, asking
<1>2. PICK m \in Messages : m = thread[t].message /\ MessageInv(m)
  BY <1>1 DEF ThreadInv
<1>3. "write" \in Places
  BY DEF Places
<1>4. /\ thread' \in [Threads -> ThreadStates]
      /\ thread'[t].at = "write" /\ thread'[t].message = m /\ thread'[t].next = thread[t].next
      /\ \A u \in Threads : u # t => thread'[u] = thread[u]
  BY <1>1, <1>2, <1>3, GoesEffect
<1>5. PICK n \in Nat :
        /\ n = Len(channel) /\ Len(channel') = n + 1 /\ channel' \in Seq(Messages)
        /\ DOMAIN channel = 1 .. n /\ DOMAIN channel' = 1 .. n + 1
        /\ channel'[n + 1] = m
        /\ \A k \in 1 .. n : channel'[k] = channel[k]
  <2>1. channel \in Seq(Messages) /\ channel' = Append(channel, m)
    BY <1>1, <1>2 DEF Shape
  <2> QED BY <2>1, AtTheEnd
<1>6. \A i \in DOMAIN channel' : \/ i \in DOMAIN channel /\ channel'[i] = channel[i]
                                 \/ i = n + 1 /\ channel'[i] = m
  <2> TAKE i \in DOMAIN channel'
  <2>1. i \in 1 .. n \/ i = n + 1
    BY <1>5
  <2>2. CASE i \in 1 .. n
    BY <1>5, <2>2
  <2>3. CASE i = n + 1
    BY <1>5, <2>3
  <2> QED BY <2>1, <2>2, <2>3
<1>7. Shape' /\ Onward
  <2>1. built \subseteq Views /\ Len(channel') <= Capacity
    BY <1>1, <1>5, AndroidAssumption DEF Shape
  <2>2. Shape'
    BY <1>1, <1>4, <1>5, <2>1 DEF Shape
  <2> QED BY <1>1, <2>1, <2>2, GoesOn
<1>8. WakesMatchMessages'
  <2> DEFINE W == {u \in Threads : At(u, "write")}
  <2>1. Cardinality(W') = Cardinality(W) + 1 /\ Cardinality(W) \in Nat
    BY <1>1, <1>4, Writers DEF At
  <2>2. bytes + Cardinality(W) = n /\ bytes \in Nat
    BY <1>5 DEF WakesMatchMessages, Shape
  <2>3. bytes' + Cardinality(W') = Len(channel')
    BY <1>1, <1>5, <2>1, <2>2
  <2> QED BY <2>3 DEF WakesMatchMessages
<1>9. \A u \in Threads : ThreadInv(u)'
  <2>1. ASSUME NEW u \in Threads, u # t PROVE ThreadInv(u)'
    <3>1. thread'[u] = thread[u] /\ ThreadInv(u)
      BY <1>4, <2>1
    <3>2. \A k \in Tables : handlers[k] \subseteq handlers'[k]
      BY <1>1
    <3> QED BY <1>1, <1>7, <3>1, <3>2, ThreadFrame
  <2>2. ThreadInv(t)'
    <3>1. /\ m.type \in Kinds => m.receiver < calls
          /\ thread[t].next = "handler" => built # {}
          /\ thread[t].next \in Returns
          /\ m.type = "create" => t \in {"host", "main"}
      BY <1>1, <1>2 DEF ThreadInv
    <3> QED BY <1>1, <1>4, <3>1 DEF ThreadInv
  <2> QED BY <2>1, <2>2
<1>10. \A i \in DOMAIN channel' : MessageInv(channel[i])'
  <2> SUFFICES ASSUME NEW i \in DOMAIN channel' PROVE MessageInv(channel[i])'
    OBVIOUS
  <2>1. channel'[i] \in Messages /\ MessageInv(channel'[i])
    <3>1. channel'[i] \in Messages
      BY <1>5
    <3>2. CASE i \in DOMAIN channel /\ channel'[i] = channel[i]
      BY <3>1, <3>2
    <3>3. CASE i = n + 1 /\ channel'[i] = m
      BY <1>2, <3>1, <3>3
    <3> QED BY <1>6, <3>2, <3>3
  <2>2. PICK x \in Messages : x = channel'[i] /\ MessageInv(x)
    BY <2>1
  <2>3. MessageInv(x)'
    BY <1>1, <1>7, <2>2, MessageFrame
  <2> QED BY <2>2, <2>3 DEF MessageInv, Asks
<1>11. AskInv'
  <2>1. \A i \in DOMAIN channel : Asks(channel[i]) /\ Asks(m) => channel[i].receiver # m.receiver
    BY <1>1, <1>2 DEF AskInv
  <2>2. ASSUME NEW i \in DOMAIN channel', NEW j \in DOMAIN channel', i # j, Asks(channel'[i]),
               Asks(channel'[j])
        PROVE  channel'[i].receiver # channel'[j].receiver
    <3>1. CASE i \in DOMAIN channel /\ channel'[i] = channel[i]
               /\ j \in DOMAIN channel /\ channel'[j] = channel[j]
      BY <2>2, <3>1 DEF AskInv
    <3>2. CASE i \in DOMAIN channel /\ channel'[i] = channel[i] /\ channel'[j] = m
      BY <2>1, <2>2, <3>2
    <3>3. CASE j \in DOMAIN channel /\ channel'[j] = channel[j] /\ channel'[i] = m
      BY <2>1, <2>2, <3>3
    <3> QED BY <1>6, <2>2, <3>1, <3>2, <3>3
  <2>3. ASSUME NEW u \in Threads, thread'[u].at = "send", Asks(thread'[u].message)
        PROVE  /\ \A i \in DOMAIN channel' : Asks(channel'[i]) =>
                     channel'[i].receiver # thread'[u].message.receiver
               /\ \A w \in Threads : w # u /\ Asks(thread'[w].message) =>
                     thread'[w].message.receiver # thread'[u].message.receiver
    <3>1. u # t /\ thread'[u] = thread[u]
      BY <1>4, <2>3
    <3>2. \A w \in Threads : thread'[w].message = thread[w].message
      BY <1>2, <1>4
    <3>3. /\ \A i \in DOMAIN channel : Asks(channel[i]) =>
                channel[i].receiver # thread[u].message.receiver
          /\ \A w \in Threads : w # u /\ Asks(thread[w].message) =>
                thread[w].message.receiver # thread[u].message.receiver
      BY <2>3, <3>1 DEF AskInv
    <3>4. Asks(m) => m.receiver # thread[u].message.receiver
      BY <1>2, <3>1, <3>3
    <3>5. \A i \in DOMAIN channel' : Asks(channel'[i]) =>
             channel'[i].receiver # thread[u].message.receiver
      BY <1>6, <3>3, <3>4
    <3> QED BY <3>1, <3>2, <3>3, <3>5
  <2> QED BY <2>2, <2>3 DEF AskInv, Asks
<1>12. TableInv'
  BY <1>1 DEF TableInv
\* Whoever creates a view sends the one of the attributes, and it comes last.
<1> DEFINE last == [type |-> "create", view |-> attributes]
<1>13. ASSUME \/ \E u \in Threads : thread[u].at = "send" /\ thread[u].message = last
       PROVE  \/ \E u \in Threads : thread'[u].at = "send" /\ thread'[u].message = last
              \/ channel'[n + 1] = last
  <2>1. PICK u \in Threads : thread[u].at = "send" /\ thread[u].message = last
    BY <1>13
  <2>2. CASE u = t
    BY <1>2, <1>5, <2>1, <2>2
  <2>3. CASE u # t
    BY <1>4, <2>1, <2>3
  <2> QED BY <2>2, <2>3
<1>14. n + 1 \in DOMAIN channel'
  BY <1>5
<1>15. CreateInv'
  <2> SUFFICES ASSUME attributes # None, ~activity.lost, NEW i \in DOMAIN channel',
                      channel'[i].type = "create", channel'[i].view # attributes
               PROVE  \/ \E u \in Threads : thread'[u].at = "send" /\ thread'[u].message = last
                      \/ \E j \in DOMAIN channel' : j > i /\ channel'[j] = last
    BY <1>1 DEF CreateInv, Sending, At
  <2>1. CASE i = n + 1 /\ channel'[i] = m
    BY <1>1, <1>2, <2>1 DEF ThreadInv
  <2>2. CASE i \in DOMAIN channel /\ channel'[i] = channel[i]
    <3>1. \/ \E u \in Threads : thread[u].at = "send" /\ thread[u].message = last
          \/ \E j \in DOMAIN channel : j > i /\ channel[j] = last
      BY <2>2 DEF CreateInv, Sending, At
    <3>2. CASE \E u \in Threads : thread[u].at = "send" /\ thread[u].message = last
      <4>1. n + 1 > i
        BY <1>5, <2>2
      <4> QED BY <1>13, <1>14, <3>2, <4>1
    <3>3. ASSUME NEW j \in DOMAIN channel, j > i, channel[j] = last
          PROVE  j \in DOMAIN channel' /\ channel'[j] = last
      BY <1>5, <3>3
    <3> QED BY <3>1, <3>2, <3>3
  <2> QED BY <1>6, <2>1, <2>2
<1>16. ConfigurationChangeKeepsView'
  <2> SUFFICES ASSUME activity.alive, ~activity.lost, attributes # None, looper
               PROVE  /\ \A k \in Tables : attributes \in handlers[k]
                      /\ \/ proxy.webview = attributes /\ proxy.life = activity.life
                         \/ \E u \in Threads : thread'[u].at = "send" /\ thread'[u].message = last
                         \/ \E j \in DOMAIN channel' : channel'[j] = last
    BY <1>1 DEF ConfigurationChangeKeepsView, Creating, Sending, At
  <2>1. /\ \A k \in Tables : attributes \in handlers[k]
        /\ \/ proxy.webview = attributes /\ proxy.life = activity.life
           \/ \E u \in Threads : thread[u].at = "send" /\ thread[u].message = last
           \/ \E j \in DOMAIN channel : channel[j] = last
    BY DEF ConfigurationChangeKeepsView, Creating, Sending, At
  <2>2. ASSUME NEW j \in DOMAIN channel, channel[j] = last
        PROVE  j \in DOMAIN channel' /\ channel'[j] = last
    BY <1>5, <2>2
  <2> QED BY <1>13, <1>14, <2>1, <2>2
<1>17. PanicsOnlyLate'
  BY <1>1 DEF PanicsOnlyLate
<1> QED BY <1>7, <1>8, <1>9, <1>10, <1>11, <1>12, <1>15, <1>16, <1>17

-----------------------------------------------------------------------------
(* The looper takes a message. *)

LEMMA WakeTakes ==
    ASSUME IInv, Wake
    PROVE  /\ thread["main"].at = "looper" /\ "main" \in Threads /\ looper
           /\ channel # <<>> /\ channel' = Tail(channel) /\ bytes' = bytes - 1
           /\ bytes' \in Nat /\ channel' \in Seq(Messages) /\ Len(channel') <= Capacity
           /\ Len(channel') = Len(channel) - 1 /\ Len(channel) \in Nat
           /\ Head(channel) \in Messages /\ MessageInv(Head(channel))
           /\ Handle(Head(channel)) /\ built' = built /\ calls' = calls
<1> USE DEF IInv
<1>1. /\ thread["main"].at = "looper" /\ looper /\ bytes > 0 /\ bytes' = bytes - 1
      /\ channel # <<>> /\ channel' = Tail(channel)
      /\ Handle(Head(channel)) /\ built' = built /\ calls' = calls
  BY DEF Wake, At
<1>2. channel \in Seq(Messages) /\ Len(channel) <= Capacity /\ bytes \in Nat /\ Capacity \in Nat
  BY AndroidAssumption DEF Shape
<1>3. /\ Head(channel) \in Messages /\ Head(channel) = channel[1] /\ 1 \in DOMAIN channel
      /\ Tail(channel) \in Seq(Messages) /\ Len(channel) \in Nat
      /\ Len(Tail(channel)) = Len(channel) - 1
  BY <1>1, <1>2, AtTheHead
<1>4. PICK m \in Messages : m = Head(channel) /\ m = channel[1] /\ MessageInv(m)
  BY <1>3
<1>5. bytes' \in Nat /\ Len(channel') <= Capacity
  BY <1>1, <1>2, <1>3
<1> QED BY <1>1, <1>3, <1>4, <1>5 DEF Threads

LEMMA WakesTaken ==
    ASSUME WakesMatchMessages, {u \in Threads : At(u, "write")}' = {u \in Threads : At(u, "write")},
           Cardinality({u \in Threads : At(u, "write")}) \in Nat, bytes \in Nat,
           Len(channel) \in Nat, bytes' = bytes - 1, Len(channel') = Len(channel) - 1
    PROVE  WakesMatchMessages'
<1> DEFINE c == Cardinality({u \in Threads : At(u, "write")})
<1>1. bytes + c = Len(channel) /\ c' = c
  BY DEF WakesMatchMessages
<1>2. c \in Nat
  OBVIOUS
<1> SUFFICES bytes' + c' = Len(channel')
  BY DEF WakesMatchMessages
<1> HIDE DEF c
<1> QED BY <1>1, <1>2

\* What the steps of all kinds of messages have in common.
LEMMA WakeFrame ==
    ASSUME IInv, Wake,
           proxy' \in Proxies, activity' \in Activities, looper' \in BOOLEAN, crashed' \in BOOLEAN,
           locks' \in [Tables -> Threads \union {None}], waiting' \subseteq 0 .. MaxCalls,
           handlers' = handlers, timedOut' = timedOut,
           thread' \in [Threads -> ThreadStates],
           thread'["main"].at \in {"looper", "handler", "destroy ipc"},
           \A u \in Threads : u # "main" => thread'[u] = thread[u],
           ThreadInv("main")', ~Asks(thread'["main"].message),
           \/ attributes' = attributes
           \/ activity'.lost /\ attributes' = None,
           proxy.there => proxy'.there, activity.lost => activity'.lost,
           \A c \in waiting : c \in waiting' \/ (Asks(Head(channel)) /\ c = Head(channel).receiver),
           ConfigurationChangeKeepsView', PanicsOnlyLate'
    PROVE  IInv'
<1> USE DEF IInv
<1>1. /\ thread["main"].at = "looper" /\ "main" \in Threads
      /\ channel # <<>> /\ channel' = Tail(channel) /\ bytes' = bytes - 1
      /\ bytes' \in Nat /\ channel' \in Seq(Messages) /\ Len(channel') <= Capacity
      /\ Len(channel') = Len(channel) - 1 /\ Len(channel) \in Nat
      /\ built' = built /\ calls' = calls
  BY WakeTakes
<1>2. Shape'
  <2>1. attributes' \in Views \union {None}
    BY DEF Shape
  <2>2. handlers' \in [Tables -> SUBSET Views] /\ timedOut' \in BOOLEAN
    BY DEF Shape
  <2>3. built' \subseteq Views /\ calls' \in 0 .. MaxCalls
    BY <1>1 DEF Shape
  <2> QED BY <1>1, <2>1, <2>2, <2>3 DEF Shape
<1>3. Onward
  <2>1. built \subseteq Views
    BY DEF Shape
  <2> QED BY <1>1, <2>1, GoesOn
<1>4. WakesMatchMessages'
  <2> DEFINE W == {u \in Threads : At(u, "write")}
  <2>1. W' = W
    BY <1>1 DEF At
  <2>2. Cardinality(W) \in Nat
    BY <1>1, Writers
  <2>3. bytes \in Nat
    BY DEF Shape
  <2> QED BY <1>1, <2>1, <2>2, <2>3, WakesTaken
<1>5. TableInv'
  BY <1>1 DEF TableInv
<1>6. thread["main"].at # "send" /\ (\A k \in Tables : handlers[k] \subseteq handlers'[k])
  BY <1>1
<1> QED BY <1>1, <1>2, <1>3, <1>4, <1>5, <1>6, StepFrame

LEMMA RestsEffect ==
    ASSUME Shape, NEW at \in {"looper", "handler"}, Rests("main", at),
           at = "handler" => built' # {}
    PROVE  /\ thread' \in [Threads -> ThreadStates]
           /\ thread'["main"].at = at
           /\ \A u \in Threads : u # "main" => thread'[u] = thread[u]
           /\ ThreadInv("main")' /\ ~Asks(thread'["main"].message)
<1>1. "main" \in Threads /\ at \in Places
  BY DEF Threads, Places
<1>2. /\ thread' \in [Threads -> ThreadStates]
      /\ thread'["main"].at = at /\ thread'["main"].message = NoMessage
      /\ thread'["main"].next = None
      /\ \A u \in Threads : u # "main" => thread'[u] = thread[u]
  BY <1>1, PutsEffect DEF Rests
<1>3. NoMessage.type = None
  BY DEF NoMessage
<1>4. ThreadInv("main")' /\ ~Asks(thread'["main"].message)
  BY <1>2, <1>3 DEF ThreadInv, Asks, Kinds, None
<1> QED BY <1>2, <1>4

\* A message that is not for a new view, and destroys none.
LEMMA CallMessage ==
    ASSUME IInv, Wake, Head(channel).type \in Kinds \union {"destroy"},
           UNCHANGED <<proxy, attributes, handlers, activity, timedOut>>,
           looper' \in BOOLEAN, crashed' \in BOOLEAN,
           locks' \in [Tables -> Threads \union {None}], waiting' \subseteq waiting,
           NEW at \in {"looper", "handler"}, Rests("main", at), at = "handler" => built # {},
           \A c \in waiting : c \in waiting' \/ (Asks(Head(channel)) /\ c = Head(channel).receiver),
           PanicsOnlyLate'
    PROVE  IInv'
<1> USE DEF IInv
<1>1. /\ thread["main"].at = "looper" /\ "main" \in Threads /\ looper
      /\ channel # <<>> /\ channel' = Tail(channel) /\ built' = built
  BY WakeTakes
<1>2. /\ thread' \in [Threads -> ThreadStates]
      /\ thread'["main"].at = at
      /\ \A u \in Threads : u # "main" => thread'[u] = thread[u]
      /\ ThreadInv("main")' /\ ~Asks(thread'["main"].message)
  BY <1>1, RestsEffect
<1>3. proxy' \in Proxies /\ activity' \in Activities /\ waiting' \subseteq 0 .. MaxCalls
  <2>1. proxy \in Proxies /\ activity \in Activities /\ waiting \subseteq 0 .. MaxCalls
    BY DEF Shape
  <2> QED BY <2>1
<1>4. TableInv'
  BY <1>1 DEF TableInv
<1>5. Head(channel).type # "create"
  BY DEF Kinds
<1>6. ConfigurationChangeKeepsView'
  <2>1. thread["main"].at # "send"
    BY <1>1
  <2> QED BY <1>1, <1>2, <1>4, <1>5, <2>1, ViewFrame
<1> QED BY <1>2, <1>3, <1>6, WakeFrame

\* The activity's entry is there when the host calls a view, or the activity is lost.
LEMMA HostHasProxy ==
    ASSUME IInv, NEW m \in Messages, MessageInv(m), m.type \in Kinds
    PROVE  built # {} /\ (proxy.there \/ activity.lost)
BY DEF IInv, MessageInv, TableInv

LEMMA OperateMessage ==
    ASSUME IInv, Wake, Head(channel).type = "tell", Operate \/ LoadUrl
    PROVE  IInv'
<1> USE DEF IInv
<1>1. Head(channel) \in Messages /\ MessageInv(Head(channel)) /\ Head(channel).type \in Kinds
  BY WakeTakes DEF Kinds
<1>2. built # {} /\ (proxy.there \/ activity.lost)
  BY <1>1, HostHasProxy
<1>3. GetWebView /\ UNCHANGED <<proxy, attributes, handlers, activity, waiting, timedOut>>
  BY DEF Operate, LoadUrl, tables, asking
<1>4. crashed' = ~proxy.there /\ looper' \in BOOLEAN
  BY <1>3 DEF GetWebView
<1>5. crashed' \in BOOLEAN /\ PanicsOnlyLate'
  BY <1>2, <1>3, <1>4 DEF PanicsOnlyLate
<1>6. \A c \in waiting : c \in waiting'
  BY <1>3
<1>7. locks \in [Tables -> Threads \union {None}]
  BY DEF Shape
<1>8. CASE Rests("main", "looper") /\ locks' = locks
  BY <1>1, <1>2, <1>3, <1>4, <1>5, <1>6, <1>7, <1>8, CallMessage
<1>9. CASE Rests("main", "handler") /\ locks' = [locks EXCEPT !["page"] = "main"]
  <2>1. locks' \in [Tables -> Threads \union {None}]
    BY <1>7, <1>9 DEF Threads
  <2> QED BY <1>1, <1>2, <1>3, <1>4, <1>5, <1>6, <1>9, <2>1, CallMessage
<1>10. \/ Rests("main", "looper") /\ locks' = locks
       \/ Rests("main", "handler") /\ locks' = [locks EXCEPT !["page"] = "main"]
  BY DEF Operate, LoadUrl, ShouldOverride, Done
<1> QED BY <1>8, <1>9, <1>10

LEMMA AnswerMessage ==
    ASSUME IInv, Wake, Asks(Head(channel)),
           Answer(Head(channel).receiver) \/ AnswerVersion(Head(channel).receiver)
    PROVE  IInv'
<1> USE DEF IInv
<1>1. Head(channel) \in Messages /\ MessageInv(Head(channel)) /\ Head(channel).type \in Kinds
  BY WakeTakes DEF Kinds, Asks
<1>2. built # {} /\ (proxy.there \/ activity.lost)
  BY <1>1, HostHasProxy
<1>3. PICK r : r = Head(channel).receiver
  OBVIOUS
<1>4. r \in waiting \/ timedOut
  BY <1>1, <1>3 DEF MessageInv
<1>5. /\ \/ crashed' = (~proxy.there \/ (proxy.webview # None /\ r \notin waiting))
         \/ crashed' = (r \notin waiting)
         \/ crashed' = crashed
      /\ waiting' = waiting \ {r}
      /\ Rests("main", "looper")
      /\ looper' \in {looper, FALSE}
      /\ UNCHANGED <<proxy, attributes, handlers, locks, activity, timedOut>>
  <2>1. CASE Answer(Head(channel).receiver)
    BY <1>3, <2>1 DEF Answer, Done, tables
  <2>2. CASE AnswerVersion(Head(channel).receiver)
    BY <1>3, <2>2 DEF AnswerVersion, Done, tables
  <2> QED BY <2>1, <2>2
<1>6. crashed' \in BOOLEAN
  BY <1>5 DEF Shape
<1>7. PanicsOnlyLate'
  BY <1>2, <1>4, <1>5 DEF PanicsOnlyLate
<1>8. looper' \in BOOLEAN /\ locks' \in [Tables -> Threads \union {None}]
  BY <1>5 DEF Shape
<1>9. waiting' \subseteq waiting
  BY <1>5
<1>10. \A c \in waiting : c \in waiting' \/ (Asks(Head(channel)) /\ c = Head(channel).receiver)
  BY <1>3, <1>5
<1> QED BY <1>1, <1>5, <1>6, <1>7, <1>8, <1>9, <1>10, CallMessage

LEMMA JniMessage ==
    ASSUME IInv, Wake, Head(channel).type = "tell", RunJni
    PROVE  IInv'
<1> USE DEF IInv
<1>1. /\ Rests("main", "looper")
      /\ UNCHANGED <<looper, proxy, attributes, handlers, locks, activity, waiting, timedOut, crashed>>
  BY DEF RunJni, Done, tables, asking
<1>2. Head(channel).type \in Kinds
  BY DEF Kinds
<1>3. looper' \in BOOLEAN /\ locks' \in [Tables -> Threads \union {None}] /\ crashed' \in BOOLEAN
  BY <1>1 DEF Shape
<1>4. PanicsOnlyLate' /\ waiting' \subseteq waiting /\ \A c \in waiting : c \in waiting'
  BY <1>1 DEF PanicsOnlyLate
<1> QED BY <1>1, <1>2, <1>3, <1>4, CallMessage

LEMMA DestroyMessage ==
    ASSUME IInv, Wake, Head(channel).type = "destroy", Destroy(Head(channel))
    PROVE  IInv'
<1> USE DEF IInv
<1>1. PICK m \in Messages : m = Head(channel) /\ MessageInv(m) /\ m.type = "destroy"
  BY WakeTakes
<1>2. /\ IF m.changing THEN Rests("main", "looper") /\ attributes' = attributes
         ELSE /\ attributes' = None
              /\ thread' = [thread EXCEPT !["main"] =
                              [at |-> "destroy ipc", message |-> m, next |-> "looper"]]
      /\ UNCHANGED <<looper, proxy, handlers, locks, activity, waiting, timedOut, crashed>>
  BY <1>1 DEF Destroy, Done, asking
<1>3. looper' \in BOOLEAN /\ locks' \in [Tables -> Threads \union {None}] /\ crashed' \in BOOLEAN
  BY <1>2 DEF Shape
<1>4. PanicsOnlyLate' /\ waiting' \subseteq waiting /\ \A c \in waiting : c \in waiting'
  BY <1>2 DEF PanicsOnlyLate
<1>5. CASE m.changing
  BY <1>1, <1>2, <1>3, <1>4, <1>5, CallMessage
<1>6. CASE ~m.changing
  <2>1. activity.lost /\ activity'.lost
    BY <1>1, <1>2, <1>6 DEF MessageInv
  <2>2. "main" \in Threads /\ "destroy ipc" \in Places /\ "looper" \in Places
    BY DEF Threads, Places
  <2>3. attributes' = None
        /\ thread' = [thread EXCEPT !["main"] =
                        [at |-> "destroy ipc", message |-> m, next |-> "looper"]]
    BY <1>2, <1>6
  <2>4. /\ thread' \in [Threads -> ThreadStates]
        /\ thread'["main"].at = "destroy ipc" /\ thread'["main"].message = m
        /\ thread'["main"].next = "looper"
        /\ \A u \in Threads : u # "main" => thread'[u] = thread[u]
    BY <1>1, <2>2, <2>3, PutsEffect
  <2>5. ThreadInv("main")' /\ ~Asks(thread'["main"].message)
    BY <1>1, <2>1, <2>4 DEF ThreadInv, Asks, Kinds
  <2>6. ConfigurationChangeKeepsView'
    BY <2>1 DEF ConfigurationChangeKeepsView
  <2>7. proxy' \in Proxies /\ activity' \in Activities /\ waiting' \subseteq 0 .. MaxCalls
    <3>1. proxy \in Proxies /\ activity \in Activities /\ waiting \subseteq 0 .. MaxCalls
      BY DEF Shape
    <3> QED BY <1>2, <3>1
  <2> QED BY <1>2, <1>3, <1>4, <2>1, <2>3, <2>4, <2>5, <2>6, <2>7, WakeFrame
<1> QED BY <1>5, <1>6

LEMMA CreateMessage ==
    ASSUME IInv, Wake, Head(channel).type = "create", CreateWebView(Head(channel).view)
    PROVE  IInv'
<1> USE DEF IInv
<1>1. PICK v \in Views : v = Head(channel).view
  BY WakeTakes, Kind
<1>2. /\ Rests("main", "looper")
      /\ UNCHANGED <<attributes, handlers, locks, waiting, timedOut, crashed>>
  BY DEF CreateWebView, Done, asking
<1>3. \/ ~proxy.there /\ UNCHANGED <<looper, proxy, activity>>
      \/ /\ looper' = looper
         /\ activity' = [activity EXCEPT !.webview = v]
         /\ proxy' = [proxy EXCEPT !.webview = v, !.life = activity.life]
      \/ /\ looper' = FALSE /\ proxy' = proxy
         /\ activity' = activity \/ activity' = [activity EXCEPT !.webview = v]
  BY <1>1 DEF CreateWebView, WebViewCreated, CreateFails, SetWebView
<1>4. proxy \in Proxies /\ activity \in Activities /\ looper \in BOOLEAN
  BY DEF Shape
<1>5. LET a == [activity EXCEPT !.webview = v] IN
      a \in Activities /\ a.life = activity.life /\ a.alive = activity.alive /\ a.lost = activity.lost
  BY <1>4 DEF Activities
<1>6. LET p == [proxy EXCEPT !.webview = v, !.life = activity.life] IN
      p \in Proxies /\ p.there = proxy.there /\ p.webview = v /\ p.life = activity.life
  <2>1. activity.life \in 0 .. MaxLives
    BY <1>4 DEF Activities
  <2> QED BY <1>4, <2>1 DEF Proxies
<1>7. /\ proxy' \in Proxies /\ activity' \in Activities /\ looper' \in BOOLEAN
      /\ proxy'.there = proxy.there /\ activity'.lost = activity.lost
      /\ activity'.alive = activity.alive /\ activity'.life = activity.life
  BY <1>3, <1>4, <1>5, <1>6
<1>8. /\ thread["main"].at = "looper" /\ channel # <<>> /\ channel' = Tail(channel)
      /\ Head(channel) \in Messages
  BY WakeTakes
<1>9. /\ thread' \in [Threads -> ThreadStates]
      /\ thread'["main"].at = "looper"
      /\ \A u \in Threads : u # "main" => thread'[u] = thread[u]
      /\ ThreadInv("main")' /\ ~Asks(thread'["main"].message)
  BY <1>2, RestsEffect
\* A view that the activity is to have instead is still to come.
<1>10. ConfigurationChangeKeepsView'
  <2> DEFINE m == [type |-> "create", view |-> attributes]
  <2> SUFFICES ASSUME activity.alive, ~activity.lost, attributes # None, looper'
               PROVE  /\ \A k \in Tables : attributes \in handlers[k]
                      /\ \/ proxy'.webview = attributes /\ proxy'.life = activity.life
                         \/ \E u \in Threads : thread'[u].at = "send" /\ thread'[u].message = m
                         \/ \E i \in DOMAIN channel' : channel'[i] = m
    BY <1>2, <1>7 DEF ConfigurationChangeKeepsView, Creating, Sending, At
  <2>1. \A k \in Tables : attributes \in handlers[k]
    BY DEF TableInv
  <2>2. proxy.there
    <3>1. attributes \in handlers["page"] /\ handlers["page"] \subseteq built
      BY <2>1 DEF TableInv, Tables
    <3>2. built # {}
      BY <3>1
    <3> QED BY <3>2 DEF TableInv
  <2>3. proxy' = [proxy EXCEPT !.webview = v, !.life = activity.life]
    BY <1>3, <2>2
  <2>4. proxy'.webview = v /\ proxy'.life = activity.life
    BY <1>6, <2>3
  <2>5. CASE v = attributes
    BY <2>1, <2>4, <2>5
  <2>6. CASE v # attributes
    <3>1. channel \in Seq(Messages)
      BY DEF Shape
    <3>2. /\ Head(channel) = channel[1] /\ 1 \in DOMAIN channel /\ Len(channel) \in Nat
          /\ DOMAIN channel = 1 .. Len(channel) /\ DOMAIN channel' = 1 .. Len(channel) - 1
          /\ \A k \in 1 .. Len(channel) - 1 : channel'[k] = channel[k + 1]
      BY <1>8, <3>1, AtTheHead
    <3>3. channel[1].type = "create" /\ channel[1].view # attributes
      BY <1>1, <2>6, <3>2
    <3>4. \/ \E u \in Threads : thread[u].at = "send" /\ thread[u].message = m
          \/ \E j \in DOMAIN channel : j > 1 /\ channel[j] = m
      BY <3>2, <3>3 DEF CreateInv, Sending, At
    <3>5. CASE \E u \in Threads : thread[u].at = "send" /\ thread[u].message = m
      <4>1. PICK u \in Threads : thread[u].at = "send" /\ thread[u].message = m
        BY <3>5
      <4>2. thread'[u] = thread[u]
        BY <1>8, <1>9, <4>1
      <4> QED BY <2>1, <4>1, <4>2
    <3>6. ASSUME NEW j \in DOMAIN channel, j > 1, channel[j] = m
          PROVE  \E i \in DOMAIN channel' : channel'[i] = m
      <4>1. j - 1 \in 1 .. Len(channel) - 1 /\ (j - 1) + 1 = j
        BY <3>2, <3>6
      <4>2. channel'[j - 1] = m
        BY <3>2, <3>6, <4>1
      <4> QED BY <3>2, <4>1, <4>2
    <3> QED BY <2>1, <3>4, <3>5, <3>6
  <2> QED BY <2>5, <2>6
<1>11. PanicsOnlyLate' /\ crashed' \in BOOLEAN
  BY <1>2, <1>7 DEF PanicsOnlyLate, Shape
<1>12. /\ locks' \in [Tables -> Threads \union {None}] /\ waiting' \subseteq 0 .. MaxCalls
       /\ \A c \in waiting : c \in waiting'
  BY <1>2 DEF Shape
<1> QED BY <1>2, <1>7, <1>9, <1>10, <1>11, <1>12, WakeFrame

LEMMA WakeStep == ASSUME IInv, Wake PROVE IInv'
<1>1. PICK m \in Messages : m = Head(channel) /\ Handle(m)
  BY WakeTakes
<1>2. CASE m.type = "create" /\ CreateWebView(m.view)
  BY <1>1, <1>2, CreateMessage
<1>3. CASE m.type = "tell" /\ (Operate \/ LoadUrl)
  BY <1>1, <1>3, OperateMessage
<1>4. CASE m.type = "tell" /\ RunJni
  BY <1>1, <1>4, JniMessage
<1>5. CASE m.type = "ask" /\ (Answer(m.receiver) \/ AnswerVersion(m.receiver))
  BY <1>1, <1>5, AnswerMessage DEF Asks
<1>6. CASE m.type = "destroy" /\ Destroy(m)
  BY <1>1, <1>6, DestroyMessage
<1> QED BY <1>1, <1>2, <1>3, <1>4, <1>5, <1>6 DEF Handle

-----------------------------------------------------------------------------
(* The invariant, and the properties. *)

LEMMA InitIInv == Init => IInv
<1> SUFFICES ASSUME Init PROVE IInv
  OBVIOUS
<1>1. /\ channel = <<>> /\ bytes = 0 /\ looper /\ attributes = None /\ built = {}
      /\ proxy = [there |-> FALSE, webview |-> None, life |-> 0]
      /\ activity = [life |-> 0, alive |-> FALSE, lost |-> FALSE, webview |-> None]
      /\ waiting = {} /\ ~timedOut /\ calls = 0 /\ ~crashed
      /\ timedOut = FALSE /\ crashed = FALSE /\ looper = TRUE
  BY DEF Init
<1>2. \A t \in Threads : thread[t].at \in {"looper", "idle"} /\ thread[t].message = NoMessage
                         /\ thread[t].next = None
  BY DEF Init
<1>3. NoMessage.type = None
  BY DEF NoMessage
<1>4. Shape
  <2>1. 0 \in 0 .. MaxLives /\ 0 \in 0 .. MaxCalls /\ 0 <= Capacity
    BY AndroidAssumption
  <2>2. channel \in Seq(Messages) /\ Len(channel) = 0
    BY <1>1
  <2>3. proxy \in Proxies /\ activity \in Activities
    BY <1>1, <2>1 DEF Proxies, Activities
  <2>4. handlers \in [Tables -> SUBSET Views] /\ locks \in [Tables -> Threads \union {None}]
    BY DEF Init
  <2>5. thread \in [Threads -> ThreadStates]
    <3>1. \A at \in {"looper", "idle"} : [at |-> at, message |-> NoMessage, next |-> None] \in ThreadStates
      BY DEF ThreadStates, Places
    <3>2. \A t \in Threads : (IF t = "main" THEN "looper" ELSE "idle") \in {"looper", "idle"}
      OBVIOUS
    <3> QED BY <3>1, <3>2 DEF Init
  <2> QED BY <1>1, <2>1, <2>2, <2>3, <2>4, <2>5 DEF Shape
<1>5. WakesMatchMessages
  <2>1. {t \in Threads : At(t, "write")} = {}
    BY <1>2 DEF At
  <2>2. Cardinality({t \in Threads : At(t, "write")}) = 0
    BY <2>1, FS_EmptySet
  <2>3. Len(channel) = 0
    BY <1>1
  <2> QED BY <1>1, <2>2, <2>3 DEF WakesMatchMessages
<1>6. \A t \in Threads : ThreadInv(t)
  BY <1>2, <1>3 DEF ThreadInv, Asks, Kinds, None
<1>7. DOMAIN channel = {}
  BY <1>1
<1>8. AskInv
  BY <1>2, <1>7 DEF AskInv
<1>9. TableInv
  <2>1. \A k \in Tables : handlers[k] = {}
    BY DEF Init
  <2> QED BY <1>1, <2>1 DEF TableInv
<1>10. CreateInv /\ ConfigurationChangeKeepsView /\ PanicsOnlyLate
  BY <1>1 DEF CreateInv, ConfigurationChangeKeepsView, PanicsOnlyLate
<1> QED BY <1>4, <1>5, <1>6, <1>7, <1>8, <1>9, <1>10 DEF IInv

LEMMA StutterIInv == ASSUME IInv, UNCHANGED vars PROVE IInv'
<1>1. /\ channel' = channel /\ bytes' = bytes /\ looper' = looper /\ proxy' = proxy
      /\ attributes' = attributes /\ handlers' = handlers /\ locks' = locks
      /\ activity' = activity /\ thread' = thread /\ waiting' = waiting /\ timedOut' = timedOut
      /\ built' = built /\ calls' = calls /\ crashed' = crashed
  BY DEF vars
<1>2. Shape'
  BY <1>1 DEF IInv, Shape
<1>3. WakesMatchMessages' /\ AskInv' /\ TableInv' /\ CreateInv'
  BY <1>1 DEF IInv, WakesMatchMessages, AskInv, TableInv, CreateInv, Sending, At, Asks
<1>4. ConfigurationChangeKeepsView' /\ PanicsOnlyLate'
  BY <1>1 DEF IInv, ConfigurationChangeKeepsView, PanicsOnlyLate, Creating, Sending, At
<1>5. \A t \in Threads : ThreadInv(t)'
  BY <1>1, ZenonT(40) DEF IInv, ThreadInv, MessageInv, Asks
<1>6. \A i \in DOMAIN channel' : MessageInv(channel[i])'
  BY <1>1 DEF IInv, MessageInv, Asks
<1> QED BY <1>2, <1>3, <1>4, <1>5, <1>6 DEF IInv

LEMMA NextIInv == IInv /\ [Next]_vars => IInv'
<1> SUFFICES ASSUME IInv, [Next]_vars PROVE IInv'
  OBVIOUS
<1>1. ASSUME NEW t \in Threads, Steps(t) PROVE IInv'
  BY <1>1, SendStep, WriteStep, AnsweredStep DEF Steps
<1>2. CASE HandleRequest \/ IpcMessage \/ PageCallback
  BY <1>2, HandlerStartsStep DEF HandleRequest, IpcMessage, PageCallback
<1>3. ASSUME NEW t \in {"bridge", "network", "main"},
             HandlerReturns(t) \/ (At(t, "handler") /\ Call(t))
      PROVE  IInv'
  <2>1. CASE HandlerReturns(t)
    BY <1>3, <2>1, HandlerReturnsStep
  <2>2. CASE At(t, "handler") /\ Call(t)
    <3>1. t \in Threads /\ thread[t].at = "handler"
      BY <1>3, <2>2 DEF Threads, At
    <3>2. built # {}
      BY <3>1 DEF IInv, ThreadInv
    <3> QED BY <2>2, <3>1, <3>2, CallStep
  <2> QED BY <1>3, <2>1, <2>2
<1>4. CASE At("host", "idle") /\ built # {} /\ Call("host")
  BY <1>4, CallStep DEF At, Threads
<1>5. CASE \E v \in Views : New(v)
  BY <1>5, NewStep
<1>6. CASE NewIpc
  BY <1>6, NewIpcStep
<1>7. CASE NewPage
  BY <1>7, NewPageStep
<1>8. CASE ActivityCreated
  BY <1>8, ActivityCreatedStep
<1>9. CASE \E changing \in BOOLEAN : ActivityDestroyed(changing)
  BY <1>9, ActivityDestroyedStep
<1>10. CASE MainSteps
  BY <1>10, WakeStep, DestroyIpcStep, DestroyRequestStep DEF MainSteps
<1>11. CASE UNCHANGED vars
  BY <1>11, StutterIInv
<1> QED
  BY <1>1, <1>2, <1>3, <1>4, <1>5, <1>6, <1>7, <1>8, <1>9, <1>10, <1>11 DEF Next, Running

LEMMA IInvGivesPipeInv == IInv => PipeInv
<1> SUFFICES ASSUME IInv PROVE TypeOK
  BY DEF IInv, PipeInv
<1>1. DOMAIN thread = Threads
  BY DEF IInv, Shape
<1> QED BY <1>1 DEF IInv, Shape, TypeOK, Proxies, Activities

\* The inductive invariant holds in every state.
THEOREM Inductive == Spec => []IInv
<1>1. Init => IInv
  BY InitIInv
<1>2. IInv /\ [Next]_vars => IInv'
  BY NextIInv
<1> QED BY <1>1, <1>2, PTL DEF Spec

\* The bytes in the pipe and the messages in the channel never get out of step, whatever threads
\* send at once, and the channel never holds more than its capacity (MainPipe::send and recv).
THEOREM BytesMatchMessages == Spec => []PipeInv
<1>1. IInv => PipeInv
  BY IInvGivesPipeInv
<1> QED BY <1>1, Inductive, PTL

\* An activity that only ever went through configuration changes has its view and the handlers of
\* it, or will be given it by a message on its way (android_setup, destroy_webview, OnDestroy).
THEOREM ViewSurvivesConfigurationChanges == Spec => []ConfigurationChangeKeepsView
<1>1. IInv => ConfigurationChangeKeepsView
  BY DEF IInv
<1> QED BY <1>1, Inductive, PTL

\* Unwrapping the activity's entry or a receiver's answer panics for nobody but a caller that gave
\* up, or an activity that is gone for good (get_webview, GetUrl, GetCookies, GetWebViewVersion).
THEOREM PanicsForTheLateOnly == Spec => []PanicsOnlyLate
<1>1. IInv => PanicsOnlyLate
  BY DEF IInv
<1> QED BY <1>1, Inductive, PTL
=============================================================================
