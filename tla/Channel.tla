------------------------------- MODULE Channel -------------------------------
(***************************************************************************)
(* wxp's Channel: a stream from Rust to a callback in the page             *)
(* (wxp_channel, and the JS class in initialization.rs).  Clones of the    *)
(* channel share an index counter and send from several threads; a small   *)
(* message is a script, a large one waits in a global store until a script *)
(* fetches it, so messages reach the page in any order and are put back in *)
(* order there.  The view may close, the run loop may shut down and the    *)
(* page may close its end at any time.                                     *)
(*                                                                         *)
(* A message is its index; the id under which a large one is stored, from  *)
(* a counter of its own, is abstracted to that index.                      *)
(***************************************************************************)
EXTENDS WebViewDispatch, FiniteSetsExt

CONSTANTS
    Clones,         \* clones of the channel
    First,          \* the clone the command received
    View,           \* the view whose page made the channel
    OnLoop,         \* clones that are used on the run loop thread
    Droppers,       \* bound: clones that are dropped or closed
    MaxSends,       \* bound: messages sent
    Serializes      \* subset of BOOLEAN: does a message serialize

ASSUME ChannelAssumption ==
    /\ First \in Clones
    /\ View \in Views
    /\ OnLoop \subseteq Clones
    /\ Droppers \subseteq Clones
    /\ MaxSends \in Nat
    /\ Serializes \subseteq BOOLEAN

VARIABLES
    pc,             \* per clone, where it is
    index,          \* per clone, the index of the message it is sending
    work,           \* per clone, the operation it is posting: a set of at most one
    ends,           \* per clone, end messages it has still to send
    currentIndex,   \* WxpChannelInner::current_index
    holes,          \* history: indices that no message of the page will have
    registered,     \* the page has a callback of this id: its channel is not closed
    next,           \* _nextMessageIndex
    pending,        \* indices in _pendingMessages
    fetching,       \* large messages requested from the custom protocol
    arrived,        \* large messages whose response is on its way to runCallback
    delivered       \* history: what the page's handler was called with

sending == <<pc, index, work, ends, currentIndex, holes>>
page == <<registered, next, pending, fetching, arrived, delivered>>
vars == <<dispatch, sending, page>>

Indices == 0 .. MaxSends - 1
Small(i) == Op(View, <<"message", i>>, {})
Large(i) == Op(View, <<"fetch", i>>, {i})
End == Op(View, <<"end", 0>>, {})

Init ==
    /\ DispatchInit(Views)
    /\ pc = [c \in Clones |-> IF c = First THEN "idle" ELSE "unused"]
    /\ index = [c \in Clones |-> 0]
    /\ work = [c \in Clones |-> {}]
    /\ ends = [c \in Clones |-> 0]
    /\ currentIndex = 0
    /\ holes = {}
    /\ registered = TRUE
    /\ next = 0
    /\ pending = {}
    /\ fetching = {}
    /\ arrived = {}
    /\ delivered = <<>>

\* The run loop thread is not inside a channel operation.
LoopFree == \A c \in OnLoop : pc[c] \in {"unused", "idle", "dropped"}

\* Clone c may take a step: it is in an operation, or starts one on a free thread.
Turn(c, label) == pc[c] = label /\ (label = "idle" /\ c \in OnLoop => LoopFree)
Goto(c, label) == pc' = [pc EXCEPT ![c] = label]

-----------------------------------------------------------------------------
(* Channel, on any thread. *)

Clone(c, d) ==
    /\ Turn(c, "idle")
    /\ pc[d] = "unused"
    /\ Goto(d, "idle")
    /\ UNCHANGED <<dispatch, page, index, work, ends, currentIndex, holes>>

\* send and send_bytes take an index first ...
Take(c) ==
    /\ Turn(c, "idle")
    /\ currentIndex < MaxSends
    /\ index' = [index EXCEPT ![c] = currentIndex]
    /\ currentIndex' = currentIndex + 1
    /\ Goto(c, "took")
    /\ UNCHANGED <<dispatch, page, work, ends, holes>>

\* ... which is gone when the message does not serialize.
SerializeFails(c) ==
    /\ Turn(c, "took")
    /\ FALSE \in Serializes
    /\ holes' = holes \union {index[c]}
    /\ index' = [index EXCEPT ![c] = 0]
    /\ Goto(c, "idle")
    /\ UNCHANGED <<dispatch, page, work, ends, currentIndex>>

SendSmall(c) ==
    /\ Turn(c, "took")
    /\ work' = [work EXCEPT ![c] = {Small(index[c])}]
    /\ Goto(c, "check")
    /\ UNCHANGED <<dispatch, page, index, ends, currentIndex, holes>>

\* send_large_data: the data is stored before the script is posted.
SendLarge(c) ==
    /\ Turn(c, "took")
    /\ store' = store \union {index[c]}
    /\ work' = [work EXCEPT ![c] = {Large(index[c])}]
    /\ Goto(c, "check")
    /\ UNCHANGED <<alive, up, queue, scripts, abandoned, page, index, ends,
                   currentIndex, holes>>

\* The clone is dropped, which sends one end message, or closed, which sends one more.
DropClone(c, n) ==
    /\ Turn(c, "idle")
    /\ c \in Droppers
    /\ ends' = [ends EXCEPT ![c] = n]
    /\ Goto(c, "ending")
    /\ UNCHANGED <<dispatch, page, index, work, currentIndex, holes>>

\* The index that an end message carries is compared only on a page that has closed its end,
\* and that page has no callback to hand the message to.
LoadEnd(c) ==
    /\ Turn(c, "ending")
    /\ work' = [work EXCEPT ![c] = {End}]
    /\ Goto(c, "check")
    /\ UNCHANGED <<dispatch, page, index, ends, currentIndex, holes>>

\* The post is over: send returns, or the next end message is due.
Posted(c) ==
    /\ work' = [work EXCEPT ![c] = {}]
    /\ index' = [index EXCEPT ![c] = 0]
    /\ IF ends[c] = 0
       THEN Goto(c, "idle") /\ UNCHANGED ends
       ELSE /\ ends' = [ends EXCEPT ![c] = @ - 1]
            /\ Goto(c, IF ends[c] = 1 THEN "dropped" ELSE "ending")
    /\ UNCHANGED <<page, currentIndex>>

\* A message that never becomes a script of the page leaves a hole.
Hole(c, lost) == holes' = IF lost /\ ends[c] = 0 THEN holes \union {index[c]} ELSE holes

CheckAlive(c) ==
    \E op \in work[c] :
        /\ Turn(c, "check")
        /\ IF op.view \in alive
           THEN Goto(c, "send") /\ UNCHANGED <<dispatch, page, index, work, ends,
                                                currentIndex, holes>>
           ELSE Refuse(op) /\ Posted(c) /\ Hole(c, TRUE)

PostOp(c, fails) ==
    \E op \in work[c] :
        /\ Turn(c, "send")
        /\ IF c \in OnLoop
           THEN PostInline(op, fails) /\ Posted(c) /\ Hole(c, fails)
           ELSE PostRemote(op) /\ Posted(c) /\ Hole(c, ~up)

-----------------------------------------------------------------------------
(* The run loop thread. *)

LoopRuns(fails) ==
    /\ LoopFree
    /\ RunPosted(fails)
    /\ holes' = IF fails /\ Head(queue).script[1] # "end"
                THEN holes \union {Head(queue).script[2]} ELSE holes
    /\ UNCHANGED <<page, pc, index, work, ends, currentIndex>>

\* The view goes, and its page with all that it holds.
CloseView ==
    /\ LoopFree
    /\ DropOwner(View)
    /\ abandoned' = abandoned \union DataOf(Entries(scripts[View])) \union fetching
    /\ registered' = FALSE
    /\ next' = 0
    /\ pending' = {}
    /\ fetching' = {}
    /\ arrived' = {}
    /\ delivered' = <<>>
    /\ UNCHANGED sending

StopRunLoop == LoopFree /\ StopLoop /\ UNCHANGED <<sending, page>>

-----------------------------------------------------------------------------
(* The page. *)

ReceiveUnordered(i) ==             \* variant: what is not late is delivered at once
    IF registered
    THEN /\ delivered' = Append(delivered, i)
         /\ next' = i + 1
         /\ UNCHANGED pending
    ELSE UNCHANGED <<next, pending, delivered>>

ReceiveUndrained(i) ==             \* variant: what was buffered stays there
    IF registered
    THEN IF i = next
         THEN /\ delivered' = Append(delivered, i)
              /\ next' = i + 1
              /\ UNCHANGED pending
         ELSE /\ pending' = pending \union {i}
              /\ UNCHANGED <<next, delivered>>
    ELSE UNCHANGED <<next, pending, delivered>>

\* The channel's callback: the message that is next is handed over with those that waited
\* for it, any other is buffered.
Receive(i) ==
    LET upTo == Min({j \in i + 1 .. MaxSends : j \notin pending})
    IN  IF ~registered THEN UNCHANGED <<next, pending, delivered>>
        ELSE IF i = next
             THEN /\ delivered' = delivered \o [k \in 1 .. upTo - i |-> i + k - 1]
                  /\ next' = upTo
                  /\ pending' = pending \ (i .. upTo)
             ELSE /\ pending' = pending \union {i}
                  /\ UNCHANGED <<next, delivered>>

\* The page runs its next script.  An end message only sets _messageEndIndex: that has no
\* effect on a page that has not closed its end, and one that has has no callback.
EvalScript ==
    /\ scripts[View] # <<>>
    /\ scripts' = [scripts EXCEPT ![View] = Tail(@)]
    /\ LET script == Head(scripts[View]).script
       IN  /\ IF script[1] = "message" THEN Receive(script[2])
              ELSE UNCHANGED <<next, pending, delivered>>
           /\ fetching' = IF script[1] = "fetch" THEN fetching \union {script[2]} ELSE fetching
    /\ UNCHANGED <<alive, up, queue, store, abandoned, sending, registered, arrived>>

\* The custom protocol: a fetch takes the data out of the store; 404 if it is not there.
ServeFetch(i) ==
    /\ i \in fetching
    /\ fetching' = fetching \ {i}
    /\ store' = store \ {i}
    /\ arrived' = IF i \in store THEN arrived \union {i} ELSE arrived
    /\ UNCHANGED <<alive, up, queue, scripts, abandoned, sending, registered, next, pending,
                   delivered>>

FetchResolves(i) ==
    /\ i \in arrived
    /\ arrived' = arrived \ {i}
    /\ Receive(i)
    /\ UNCHANGED <<dispatch, sending, registered, fetching>>

\* Channel.close() in the page.
PageCloses ==
    /\ View \in alive
    /\ registered
    /\ registered' = FALSE
    /\ UNCHANGED <<dispatch, sending, next, pending, fetching, arrived, delivered>>

-----------------------------------------------------------------------------
\* What a clone does once it has begun.
CloneStep(c) ==
    \/ SerializeFails(c) \/ SendSmall(c) \/ SendLarge(c)
    \/ LoadEnd(c) \/ CheckAlive(c)
    \/ \E fails \in EvalFails : PostOp(c, fails)

PageStep == EvalScript \/ \E i \in Indices : ServeFetch(i) \/ FetchResolves(i)

LoopStep == \E fails \in EvalFails : LoopRuns(fails)

Next ==
    \/ \E c, d \in Clones : Clone(c, d)
    \/ \E c \in Clones : Take(c) \/ DropClone(c, 1) \/ DropClone(c, 2) \/ CloneStep(c)
    \/ LoopStep \/ PageStep
    \/ CloseView \/ StopRunLoop \/ PageCloses

\* A thread goes on with what it has begun; the run loop thread pumps its loop; the page
\* runs its scripts and its fetches are answered.
Fairness ==
    /\ \A c \in Clones : WF_vars(CloneStep(c))
    /\ WF_vars(LoopStep)
    /\ WF_vars(EvalScript)
    /\ \A i \in Indices : WF_vars(ServeFetch(i)) /\ WF_vars(FetchResolves(i))

Spec == Init /\ [][Next]_vars /\ Fairness

-----------------------------------------------------------------------------
(* Properties. *)

\* The shape of the state; nothing that could be handed over is left in the buffer.
TypeOK ==
    /\ DispatchTypeOK({"message", "fetch", "end"} \X (0 .. MaxSends), Indices)
    /\ pc \in [Clones -> {"unused", "idle", "took", "check", "send", "ending", "dropped"}]
    /\ index \in [Clones -> 0 .. MaxSends]
    /\ \A c \in Clones : Cardinality(work[c]) = IF pc[c] \in {"check", "send"} THEN 1 ELSE 0
    /\ ends \in [Clones -> 0 .. 2]
    /\ currentIndex \in 0 .. MaxSends
    /\ holes \subseteq Indices
    /\ registered \in BOOLEAN
    /\ next \in 0 .. MaxSends
    /\ pending \subseteq next + 1 .. MaxSends - 1
    /\ fetching \subseteq Indices
    /\ arrived \subseteq Indices

\* The page's handler gets the messages in the order of their indices, each once and none
\* left out, whatever threads sent them and whichever way they came.
DeliveredInOrder ==
    /\ Len(delivered) = next
    /\ \A k \in DOMAIN delivered : delivered[k] = k - 1

\* Large data in the store has somebody who will take it out: the sender, the posted closure,
\* the script or the fetch of the page.  A view that closes at any point before the script
\* is evaluated leaves nothing behind (AbandonedPostCleanup, post_webview_op_or_else).
StoredDataIsOwned ==
    \A i \in store \ abandoned :
        \/ \E c \in Clones : i \in DataOf(work[c])
        \/ i \in DataOf(Entries(queue))
        \/ i \in DataOf(Entries(scripts[View]))
        \/ i \in fetching

\* A fetch that the page makes, or will make, finds its data: no cleanup takes it away once
\* the script has been handed to the page.
FetchFindsData == fetching \union DataOf(Entries(scripts[View])) \subseteq store

\* Data is stored for as long as somebody may fetch it: the parts above.
StoreInv == TypeOK /\ StoredDataIsOwned /\ FetchFindsData

\* Every message that was given an index reaches the handler, whichever thread sent it, and
\* also when another clone is dropped or closed meanwhile: unless the page or the run loop
\* goes, or this index or an earlier one was lost (a value that does not serialize, a script
\* that cannot be evaluated).
MessageIsDelivered ==
    \A i \in Indices :
        i < currentIndex ~>
            \/ i \in Entries(delivered)
            \/ View \notin alive \/ ~up \/ ~registered
            \/ \E h \in holes : h <= i
=============================================================================
