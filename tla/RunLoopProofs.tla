---------------------------- MODULE RunLoopProofs ----------------------------
(***************************************************************************)
(* The invariants of RunLoop, proved for every set of threads and calls.   *)
(*                                                                         *)
(* IInv says, for each place a thread can be in init or in the Drop of its *)
(* last guard, what the statics hold, and what that means for the calls:   *)
(* a call is in PENDING_CALLS from its registration until the shutdown of  *)
(* its loop takes the list, which it does after it has set the token that  *)
(* keeps later calls out.                                                  *)
(***************************************************************************)
EXTENDS RunLoop, TLAPS

Starting == {"installed", "published", "bound"}
Stopping == {"shutdown", "flagged", "tokenSet", "cancelling", "unbound"}
Critical == {"init"} \union Starting \union Stopping \union {"uninstalled"}

\* INIT_MUTEX is held by the one thread that is inside init or release_guard.
MutexInv ==
    \A h \in Hosts : initMutex = h <=> pc[h] \in Critical

\* With a positive count the loop is complete and its owner holds all the references.
CountedInv ==
    /\ initCount > 0 =>
          /\ threadId \in Hosts
          /\ guards[threadId] = initCount
          /\ guardGen[threadId] = instance
          /\ instance # 0
          /\ sender = instance
          /\ owner[instance] = threadId
          /\ instance \notin hasShutdown \union token
          /\ \A h \in Hosts : pc[h] \in {"idle", "init", "released"}
          /\ pc[threadId] # "released"
    /\ \A h \in Hosts : guards[h] > 0 => initCount > 0 /\ threadId = h
    /\ initCount = 0 /\ (\A h \in Hosts : pc[h] \in {"idle", "init", "released"}) =>
          instance = 0 /\ sender = 0 /\ threadId = NoOne

\* Where the statics are while a thread creates or takes down the loop.
PhaseInv ==
    \A h \in Hosts :
        /\ pc[h] \in Starting =>
              /\ initCount = 0
              /\ instance # 0
              /\ owner[instance] = h
              /\ instance \notin hasShutdown \union token
              /\ sender = IF pc[h] = "installed" THEN 0 ELSE instance
              /\ threadId = IF pc[h] = "bound" THEN h ELSE NoOne
        /\ pc[h] \in Stopping =>
              /\ initCount = 0
              /\ instance # 0
              /\ owner[instance] = h
              /\ guardGen[h] = instance
              /\ sender = instance
              /\ threadId = IF pc[h] = "unbound" THEN NoOne ELSE h
              /\ instance \in hasShutdown <=> pc[h] # "shutdown"
              /\ instance \in token <=> pc[h] \notin {"shutdown", "flagged"}
        /\ pc[h] = "uninstalled" =>
              initCount = 0 /\ instance = 0 /\ sender \in token /\ threadId = NoOne
        /\ pc[h] \in {"uninstalled", "released"} =>
              guardGen[h] \in token /\ guardGen[h] # instance

\* Every generation but the installed one has been shut down.
GenInv ==
    /\ \A h \in Hosts : pc[h] = "init" /\ initCount = 0 => created < MaxGens
    /\ instance <= created
    /\ sender <= created
    /\ hasShutdown \subseteq 1 .. created
    /\ token \subseteq 1 .. created
    /\ \A g \in 1 .. created : g # instance => g \in token /\ g \in hasShutdown
    /\ \A k \in Ops : opGen[k] <= created
    /\ \A k \in Ops : InCall(k) \/ k \in queue => opGen[k] # 0

\* Nothing refers to an operation that has not begun.
IdleInv ==
    \A k \in Ops : opPc[k] = "idle" =>
        /\ k \notin queue
        /\ \A h \in Hosts : running[h] # k
        /\ k \notin pendingCalls
        /\ k \notin taken
        /\ k \in Calls => answer[k] = "none"

PastTake == \E h \in Hosts : pc[h] \in {"cancelling", "unbound"}
Runs(k) == \E h \in Hosts : running[h] = k

\* How an unanswered call and its loop hold on to each other.
CallInv ==
    /\ taken # {} => \E h \in Hosts : pc[h] = "cancelling"
    /\ \A k \in Calls :
          /\ /\ opPc[k] \in {"check", "push", "recheck", "waiting"}
             /\ opGen[k] = instance
             /\ ~PastTake
             => k \in pendingCalls
          /\ /\ opPc[k] \in {"recheck", "waiting"}
             /\ answer[k] = "none"
             /\ opGen[k] = instance
             => k \in queue \/ Runs(k)
          /\ /\ opPc[k] = "waiting"
             /\ answer[k] = "none"
             /\ opGen[k] # instance \/ PastTake
             => k \in taken \/ Runs(k)

\* Who has seen an instant without a live loop.
DownInv ==
    /\ \A k \in Ops :
          /\ InCall(k) /\ ~Live => k \in sawDown
          /\ InCall(k) /\ opGen[k] \in token => k \in sawDown
          /\ opPc[k] = "err" => k \in sawDown
    /\ \A k \in Calls : InCall(k) /\ answer[k] = "err" => k \in sawDown

IInv ==
    /\ TypeOK
    /\ MutexInv
    /\ CountedInv
    /\ PhaseInv
    /\ GenInv
    /\ IdleInv
    /\ CallInv
    /\ DownInv
-----------------------------------------------------------------------------
(* The type invariant of the three steps with a conditional effect. *)

LEMMA TakeGuardTypeOK ==
    ASSUME TypeOK, NEW h \in Hosts, NEW n \in Nat, TakeGuard(h, n)
    PROVE  TypeOK'
<1>1. guards \in [Hosts -> Nat] /\ guardGen \in [Hosts -> Gens \union {0}]
  BY DEF TypeOK
<1>2. guards' \in [Hosts -> Nat] /\ guardGen' \in [Hosts -> Gens \union {0}]
  <2>1. CASE CurrentLocal(h) = 0
    BY <1>1, <2>1 DEF TakeGuard
  <2>2. CASE CurrentLocal(h) # 0
    <3>1. CurrentLocal(h) \in Gens
      BY <2>2 DEF TypeOK, CurrentLocal
    <3>2. /\ guards' = [guards EXCEPT ![h] = guards[h] + 1]
          /\ guardGen' = [guardGen EXCEPT ![h] = CurrentLocal(h)]
      BY <2>2 DEF TakeGuard
    <3>3. guards' \in [Hosts -> Nat]
      BY <1>1, <3>2
    <3>4. guardGen' \in [Hosts -> Gens \union {0}]
      BY <1>1, <3>1, <3>2
    <3> QED BY <3>3, <3>4
  <2> QED BY <2>1, <2>2
<1> QED BY <1>2 DEF TypeOK, TakeGuard, Goto, Releasing, closures, issuers

LEMMA ReleaseTypeOK ==
    ASSUME TypeOK, CountedInv, NEW h \in Hosts, Release(h)
    PROVE  TypeOK'
<1>1. pc' = [pc EXCEPT ![h] = "shutdown"] \/ pc' = pc
  BY DEF Release, Goto
<1>2. pc' \in [Hosts -> {"idle", "init", "installed", "published", "bound"} \union Releasing]
  BY <1>1 DEF TypeOK, Releasing
<1>3. initCount' \in Nat /\ guards' \in [Hosts -> Nat]
  BY DEF Release, CountedInv, TypeOK
<1>4. initMutex' \in Hosts \union {NoOne}
  BY DEF Release, TypeOK
<1> QED BY <1>2, <1>3, <1>4 DEF TypeOK, Release, closures, issuers

LEMMA RunClosureTypeOK ==
    ASSUME TypeOK, NEW h \in Hosts, NEW k \in Ops, RunClosure(h, k)
    PROVE  TypeOK'
<1>1. running' \in [Hosts -> Ops \union {NoOne}] /\ local' \in [Hosts -> Gens \union {0}]
  <2>1. \/ running' = running /\ local' = local
        \/ /\ running' = [running EXCEPT ![h] = k]
           /\ local' = [local EXCEPT ![h] = CurrentLocal(h)]
    BY DEF RunClosure
  <2>2. CurrentLocal(h) \in Gens \union {0}
    BY DEF TypeOK, CurrentLocal
  <2> QED BY <2>1, <2>2 DEF TypeOK
<1>2. callback' \in [Ops -> {"no", "running", "done"}]
  BY DEF RunClosure, TypeOK
<1>3. answer' \in [Calls -> {"none", "ok", "err"}]
  BY DEF RunClosure, Settle, TypeOK
<1> QED BY <1>1, <1>2, <1>3 DEF TypeOK, RunClosure, lifecycle, issuers
(* Each step preserves IInv: one lemma per action, one step per conjunct. *)

LEMMA InitLockStep ==
    ASSUME IInv, NEW h \in Hosts, InitLock(h)
    PROVE  IInv'
<1> USE RunLoopAssumption DEF IInv, Gens, Ops, Critical, Starting, Stopping,
      Releasing, lifecycle, closures, issuers, InitLock, Goto
<1>1. TypeOK'
  BY DEF TypeOK
<1>2. MutexInv'
  BY DEF MutexInv, TypeOK
<1>3. CountedInv'
  BY DEF CountedInv, PhaseInv, MutexInv, TypeOK
<1>4. PhaseInv'
  BY DEF PhaseInv, CountedInv, MutexInv, GenInv, TypeOK
<1>5. GenInv'
  BY DEF GenInv, CountedInv, PhaseInv, MutexInv, IdleInv, InCall, TypeOK
<1>6. IdleInv'
  BY DEF IdleInv, InCall, Upgradeable, TypeOK
<1>7. CallInv'
  BY DEF CallInv, IdleInv, GenInv, CountedInv, PhaseInv, MutexInv, PastTake, Runs,
     InCall, Upgradeable, Alive, TypeOK
<1>8. DownInv'
  BY DEF DownInv, IdleInv, GenInv, CountedInv, PhaseInv, MutexInv, Live, InCall,
     Alive, RefHolders, TypeOK
<1> QED BY <1>1, <1>2, <1>3, <1>4, <1>5, <1>6, <1>7, <1>8

LEMMA InitRefuseStep ==
    ASSUME IInv, NEW h \in Hosts, InitRefuse(h)
    PROVE  IInv'
<1> USE RunLoopAssumption DEF IInv, Gens, Ops, Critical, Starting, Stopping,
      Releasing, lifecycle, closures, issuers, InitRefuse, Goto
<1>1. TypeOK'
  BY DEF TypeOK
<1>2. MutexInv'
  BY DEF MutexInv, TypeOK
<1>3. CountedInv'
  BY DEF CountedInv, PhaseInv, MutexInv, TypeOK
<1>4. PhaseInv'
  BY DEF PhaseInv, CountedInv, MutexInv, GenInv, TypeOK
<1>5. GenInv'
  BY DEF GenInv, CountedInv, PhaseInv, MutexInv, IdleInv, InCall, TypeOK
<1>6. IdleInv'
  BY DEF IdleInv, InCall, Upgradeable, TypeOK
<1>7. CallInv'
  BY DEF CallInv, IdleInv, GenInv, CountedInv, PhaseInv, MutexInv, PastTake, Runs,
     InCall, Upgradeable, Alive, TypeOK
<1>8. DownInv'
  BY DEF DownInv, IdleInv, GenInv, CountedInv, PhaseInv, MutexInv, Live, InCall,
     Alive, RefHolders, TypeOK
<1> QED BY <1>1, <1>2, <1>3, <1>4, <1>5, <1>6, <1>7, <1>8

LEMMA InitAgainStep ==
    ASSUME IInv, NEW h \in Hosts, InitAgain(h)
    PROVE  IInv'
<1> USE RunLoopAssumption DEF IInv, Gens, Ops, Critical, Starting, Stopping,
      Releasing, lifecycle, closures, issuers, InitAgain, Goto, TakeGuard,
      CurrentLocal
<1>1. TypeOK'
  <2>1. TypeOK /\ initCount + 1 \in Nat
    BY DEF TypeOK
  <2> QED BY <2>1, TakeGuardTypeOK
<1>2. MutexInv'
  BY DEF MutexInv, TypeOK
<1>3. CountedInv'
  BY DEF CountedInv, PhaseInv, MutexInv, TypeOK
<1>4. PhaseInv'
  BY DEF PhaseInv, CountedInv, MutexInv, GenInv, TypeOK
<1>5. GenInv'
  BY DEF GenInv, CountedInv, PhaseInv, MutexInv, IdleInv, InCall, TypeOK
<1>6. IdleInv'
  BY DEF IdleInv, InCall, Upgradeable, TypeOK
<1>7. CallInv'
  BY DEF CallInv, IdleInv, GenInv, CountedInv, PhaseInv, MutexInv, PastTake, Runs,
     InCall, Upgradeable, Alive, TypeOK
<1>8. DownInv'
  BY DEF DownInv, IdleInv, GenInv, CountedInv, PhaseInv, MutexInv, Live, InCall,
     Alive, RefHolders, TypeOK
<1> QED BY <1>1, <1>2, <1>3, <1>4, <1>5, <1>6, <1>7, <1>8

LEMMA InstallStep ==
    ASSUME IInv, NEW h \in Hosts, Install(h)
    PROVE  IInv'
<1> USE RunLoopAssumption DEF IInv, Gens, Ops, Critical, Starting, Stopping,
      Releasing, lifecycle, closures, issuers, Install, Goto
<1>1. TypeOK'
  <2>1. created + 1 \in 1 .. MaxGens
    BY DEF TypeOK, GenInv
  <2>2. owner' \in [1 .. MaxGens -> Hosts \union {NoOne}]
    BY <2>1 DEF TypeOK
  <2>3. pc' \in [Hosts -> {"idle", "init", "installed", "published", "bound"} \union Releasing]
    BY DEF TypeOK
  <2> QED BY <2>1, <2>2, <2>3 DEF TypeOK
<1>2. MutexInv'
  BY DEF MutexInv, TypeOK
<1>3. CountedInv'
  BY DEF CountedInv, PhaseInv, MutexInv, TypeOK
<1>4. PhaseInv'
  BY DEF PhaseInv, CountedInv, MutexInv, GenInv, TypeOK
<1>5. GenInv'
  BY DEF GenInv, CountedInv, PhaseInv, MutexInv, IdleInv, InCall, TypeOK
<1>6. IdleInv'
  BY DEF IdleInv, InCall, Upgradeable, TypeOK
<1>7. CallInv'
  BY DEF CallInv, IdleInv, GenInv, CountedInv, PhaseInv, MutexInv, PastTake, Runs,
     InCall, Upgradeable, Alive, TypeOK
<1>8. DownInv'
  BY DEF DownInv, IdleInv, GenInv, CountedInv, PhaseInv, MutexInv, Live, InCall,
     Alive, RefHolders, TypeOK
<1> QED BY <1>1, <1>2, <1>3, <1>4, <1>5, <1>6, <1>7, <1>8

LEMMA PublishSenderStep ==
    ASSUME IInv, NEW h \in Hosts, PublishSender(h)
    PROVE  IInv'
<1> USE RunLoopAssumption DEF IInv, Gens, Ops, Critical, Starting, Stopping,
      Releasing, lifecycle, closures, issuers, PublishSender, Goto
<1>1. TypeOK'
  BY DEF TypeOK
<1>2. MutexInv'
  BY DEF MutexInv, TypeOK
<1>3. CountedInv'
  BY DEF CountedInv, PhaseInv, MutexInv, TypeOK
<1>4. PhaseInv'
  BY DEF PhaseInv, CountedInv, MutexInv, GenInv, TypeOK
<1>5. GenInv'
  BY DEF GenInv, CountedInv, PhaseInv, MutexInv, IdleInv, InCall, TypeOK
<1>6. IdleInv'
  BY DEF IdleInv, InCall, Upgradeable, TypeOK
<1>7. CallInv'
  BY DEF CallInv, IdleInv, GenInv, CountedInv, PhaseInv, MutexInv, PastTake, Runs,
     InCall, Upgradeable, Alive, TypeOK
<1>8. DownInv'
  BY DEF DownInv, IdleInv, GenInv, CountedInv, PhaseInv, MutexInv, Live, InCall,
     Alive, RefHolders, TypeOK
<1> QED BY <1>1, <1>2, <1>3, <1>4, <1>5, <1>6, <1>7, <1>8

LEMMA PublishThreadStep ==
    ASSUME IInv, NEW h \in Hosts, PublishThread(h)
    PROVE  IInv'
<1> USE RunLoopAssumption DEF IInv, Gens, Ops, Critical, Starting, Stopping,
      Releasing, lifecycle, closures, issuers, PublishThread, Goto
<1>1. TypeOK'
  BY DEF TypeOK
<1>2. MutexInv'
  BY DEF MutexInv, TypeOK
<1>3. CountedInv'
  BY DEF CountedInv, PhaseInv, MutexInv, TypeOK
<1>4. PhaseInv'
  BY DEF PhaseInv, CountedInv, MutexInv, GenInv, TypeOK
<1>5. GenInv'
  BY DEF GenInv, CountedInv, PhaseInv, MutexInv, IdleInv, InCall, TypeOK
<1>6. IdleInv'
  BY DEF IdleInv, InCall, Upgradeable, TypeOK
<1>7. CallInv'
  BY DEF CallInv, IdleInv, GenInv, CountedInv, PhaseInv, MutexInv, PastTake, Runs,
     InCall, Upgradeable, Alive, TypeOK
<1>8. DownInv'
  BY DEF DownInv, IdleInv, GenInv, CountedInv, PhaseInv, MutexInv, Live, InCall,
     Alive, RefHolders, TypeOK
<1> QED BY <1>1, <1>2, <1>3, <1>4, <1>5, <1>6, <1>7, <1>8

LEMMA InitFirstStep ==
    ASSUME IInv, NEW h \in Hosts, InitFirst(h)
    PROVE  IInv'
<1> USE RunLoopAssumption DEF IInv, Gens, Ops, Critical, Starting, Stopping,
      Releasing, lifecycle, closures, issuers, InitFirst, Goto, TakeGuard,
      CurrentLocal
<1>1. TypeOK'
  <2>1. TypeOK /\ 1 \in Nat
    OBVIOUS
  <2> QED BY <2>1, TakeGuardTypeOK
<1>2. MutexInv'
  BY DEF MutexInv, TypeOK
<1>3. CountedInv'
  BY DEF CountedInv, PhaseInv, MutexInv, TypeOK
<1>4. PhaseInv'
  BY DEF PhaseInv, CountedInv, MutexInv, GenInv, TypeOK
<1>5. GenInv'
  BY DEF GenInv, CountedInv, PhaseInv, MutexInv, IdleInv, InCall, TypeOK
<1>6. IdleInv'
  BY DEF IdleInv, InCall, Upgradeable, TypeOK
<1>7. CallInv'
  BY DEF CallInv, IdleInv, GenInv, CountedInv, PhaseInv, MutexInv, PastTake, Runs,
     InCall, Upgradeable, Alive, TypeOK
<1>8. DownInv'
  BY DEF DownInv, IdleInv, GenInv, CountedInv, PhaseInv, MutexInv, Live, InCall,
     Alive, RefHolders, TypeOK
<1> QED BY <1>1, <1>2, <1>3, <1>4, <1>5, <1>6, <1>7, <1>8

LEMMA ReleaseStep ==
    ASSUME IInv, NEW h \in Hosts, Release(h)
    PROVE  IInv'
<1> USE RunLoopAssumption DEF IInv, Gens, Ops, Critical, Starting, Stopping,
      Releasing, lifecycle, closures, issuers, Release, Goto
<1>1. TypeOK'
  BY ReleaseTypeOK
<1>2. MutexInv'
  BY DEF MutexInv, TypeOK
<1>3. CountedInv'
  <2>1. threadId = h /\ initCount = guards[h] /\ \A j \in Hosts : j # h => guards[j] = 0
    BY DEF CountedInv, TypeOK
  <2>2. CASE initCount = 1
    BY <2>1, <2>2, SMTT(30) DEF CountedInv, TypeOK
  <2>3. CASE initCount # 1
    BY <2>1, <2>3 DEF CountedInv, TypeOK
  <2> QED BY <2>2, <2>3
<1>4. PhaseInv'
  BY DEF PhaseInv, CountedInv, MutexInv, GenInv, TypeOK
<1>5. GenInv'
  <2>1. initCount' = 0 => \A j \in Hosts : pc'[j] # "init"
    BY DEF CountedInv, MutexInv, TypeOK
  <2> QED BY <2>1 DEF GenInv, CountedInv, MutexInv, InCall, TypeOK
<1>6. IdleInv'
  BY DEF IdleInv, InCall, Upgradeable, TypeOK
<1>7. CallInv'
  BY DEF CallInv, IdleInv, GenInv, CountedInv, PhaseInv, MutexInv, PastTake, Runs,
     InCall, Upgradeable, Alive, TypeOK
<1>8. DownInv'
  BY DEF DownInv, IdleInv, GenInv, CountedInv, PhaseInv, MutexInv, Live, InCall,
     Alive, RefHolders, TypeOK
<1> QED BY <1>1, <1>2, <1>3, <1>4, <1>5, <1>6, <1>7, <1>8

LEMMA SetHasShutdownStep ==
    ASSUME IInv, NEW h \in Hosts, SetHasShutdown(h)
    PROVE  IInv'
<1> USE RunLoopAssumption DEF IInv, Gens, Ops, Critical, Starting, Stopping,
      Releasing, lifecycle, closures, issuers, SetHasShutdown, Goto
<1>1. TypeOK'
  BY DEF TypeOK
<1>2. MutexInv'
  BY DEF MutexInv, TypeOK
<1>3. CountedInv'
  BY DEF CountedInv, PhaseInv, MutexInv, TypeOK
<1>4. PhaseInv'
  BY DEF PhaseInv, CountedInv, MutexInv, GenInv, TypeOK
<1>5. GenInv'
  BY DEF GenInv, CountedInv, PhaseInv, MutexInv, IdleInv, InCall, TypeOK
<1>6. IdleInv'
  BY DEF IdleInv, InCall, Upgradeable, TypeOK
<1>7. CallInv'
  BY DEF CallInv, IdleInv, GenInv, CountedInv, PhaseInv, MutexInv, PastTake, Runs,
     InCall, Upgradeable, Alive, TypeOK
<1>8. DownInv'
  BY DEF DownInv, IdleInv, GenInv, CountedInv, PhaseInv, MutexInv, Live, InCall,
     Alive, RefHolders, TypeOK
<1> QED BY <1>1, <1>2, <1>3, <1>4, <1>5, <1>6, <1>7, <1>8

LEMMA SetTokenStep ==
    ASSUME IInv, NEW h \in Hosts, SetToken(h)
    PROVE  IInv'
<1> USE RunLoopAssumption DEF IInv, Gens, Ops, Critical, Starting, Stopping,
      Releasing, lifecycle, closures, issuers, SetToken, Goto
<1>1. TypeOK'
  BY DEF TypeOK
<1>2. MutexInv'
  BY DEF MutexInv, TypeOK
<1>3. CountedInv'
  BY DEF CountedInv, PhaseInv, MutexInv, TypeOK
<1>4. PhaseInv'
  BY DEF PhaseInv, CountedInv, MutexInv, GenInv, TypeOK
<1>5. GenInv'
  BY DEF GenInv, CountedInv, PhaseInv, MutexInv, IdleInv, InCall, TypeOK
<1>6. IdleInv'
  BY DEF IdleInv, InCall, Upgradeable, TypeOK
<1>7. CallInv'
  BY DEF CallInv, IdleInv, GenInv, CountedInv, PhaseInv, MutexInv, PastTake, Runs,
     InCall, Upgradeable, Alive, TypeOK
<1>8. DownInv'
  BY DEF DownInv, IdleInv, GenInv, CountedInv, PhaseInv, MutexInv, Live, InCall,
     Alive, RefHolders, TypeOK
<1> QED BY <1>1, <1>2, <1>3, <1>4, <1>5, <1>6, <1>7, <1>8

LEMMA TakePendingStep ==
    ASSUME IInv, NEW h \in Hosts, TakePending(h)
    PROVE  IInv'
<1> USE RunLoopAssumption DEF IInv, Gens, Ops, Critical, Starting, Stopping,
      Releasing, lifecycle, closures, issuers, TakePending, Goto
<1>1. TypeOK'
  BY DEF TypeOK
<1>2. MutexInv'
  BY DEF MutexInv, TypeOK
<1>3. CountedInv'
  BY DEF CountedInv, PhaseInv, MutexInv, TypeOK
<1>4. PhaseInv'
  BY DEF PhaseInv, CountedInv, MutexInv, GenInv, TypeOK
<1>5. GenInv'
  BY DEF GenInv, CountedInv, PhaseInv, MutexInv, IdleInv, InCall, TypeOK
<1>6. IdleInv'
  BY DEF IdleInv, InCall, Upgradeable, TypeOK
<1>7. CallInv'
  BY DEF CallInv, IdleInv, GenInv, CountedInv, PhaseInv, MutexInv, PastTake, Runs,
     InCall, Upgradeable, Alive, TypeOK
<1>8. DownInv'
  BY DEF DownInv, IdleInv, GenInv, CountedInv, PhaseInv, MutexInv, Live, InCall,
     Alive, RefHolders, TypeOK
<1> QED BY <1>1, <1>2, <1>3, <1>4, <1>5, <1>6, <1>7, <1>8

LEMMA CancelPendingStep ==
    ASSUME IInv, NEW h \in Hosts, NEW k \in Calls, CancelPending(h, k)
    PROVE  IInv'
<1> USE RunLoopAssumption DEF IInv, Gens, Ops, Critical, Starting, Stopping,
      Releasing, lifecycle, closures, issuers, CancelPending, Settle
<1>1. TypeOK'
  BY DEF TypeOK
<1>2. MutexInv'
  BY DEF MutexInv, TypeOK
<1>3. CountedInv'
  BY DEF CountedInv, PhaseInv, MutexInv, TypeOK
<1>4. PhaseInv'
  BY DEF PhaseInv, CountedInv, MutexInv, GenInv, TypeOK
<1>5. GenInv'
  BY DEF GenInv, CountedInv, PhaseInv, MutexInv, IdleInv, InCall, TypeOK
<1>6. IdleInv'
  BY DEF IdleInv, InCall, Upgradeable, TypeOK
<1>7. CallInv'
  BY DEF CallInv, IdleInv, GenInv, CountedInv, PhaseInv, MutexInv, PastTake, Runs,
     InCall, Upgradeable, Alive, TypeOK
<1>8. DownInv'
  BY DEF DownInv, IdleInv, GenInv, CountedInv, PhaseInv, MutexInv, Live, InCall,
     Alive, RefHolders, TypeOK
<1> QED BY <1>1, <1>2, <1>3, <1>4, <1>5, <1>6, <1>7, <1>8

LEMMA ClearThreadStep ==
    ASSUME IInv, NEW h \in Hosts, ClearThread(h)
    PROVE  IInv'
<1> USE RunLoopAssumption DEF IInv, Gens, Ops, Critical, Starting, Stopping,
      Releasing, lifecycle, closures, issuers, ClearThread, Goto
<1>1. TypeOK'
  BY DEF TypeOK
<1>2. MutexInv'
  BY DEF MutexInv, TypeOK
<1>3. CountedInv'
  BY DEF CountedInv, PhaseInv, MutexInv, TypeOK
<1>4. PhaseInv'
  BY DEF PhaseInv, CountedInv, MutexInv, GenInv, TypeOK
<1>5. GenInv'
  BY DEF GenInv, CountedInv, PhaseInv, MutexInv, IdleInv, InCall, TypeOK
<1>6. IdleInv'
  BY DEF IdleInv, InCall, Upgradeable, TypeOK
<1>7. CallInv'
  BY DEF CallInv, IdleInv, GenInv, CountedInv, PhaseInv, MutexInv, PastTake, Runs,
     InCall, Upgradeable, Alive, TypeOK
<1>8. DownInv'
  BY DEF DownInv, IdleInv, GenInv, CountedInv, PhaseInv, MutexInv, Live, InCall,
     Alive, RefHolders, TypeOK
<1> QED BY <1>1, <1>2, <1>3, <1>4, <1>5, <1>6, <1>7, <1>8

LEMMA ClearInstanceStep ==
    ASSUME IInv, NEW h \in Hosts, ClearInstance(h)
    PROVE  IInv'
<1> USE RunLoopAssumption DEF IInv, Gens, Ops, Critical, Starting, Stopping,
      Releasing, lifecycle, closures, issuers, ClearInstance, Goto
<1>1. TypeOK'
  BY DEF TypeOK
<1>2. MutexInv'
  BY DEF MutexInv, TypeOK
<1>3. CountedInv'
  BY DEF CountedInv, PhaseInv, MutexInv, TypeOK
<1>4. PhaseInv'
  BY DEF PhaseInv, CountedInv, MutexInv, GenInv, TypeOK
<1>5. GenInv'
  BY DEF GenInv, CountedInv, PhaseInv, MutexInv, IdleInv, InCall, TypeOK
<1>6. IdleInv'
  BY DEF IdleInv, InCall, Upgradeable, TypeOK
<1>7. CallInv'
  BY DEF CallInv, IdleInv, GenInv, CountedInv, PhaseInv, MutexInv, PastTake, Runs,
     InCall, Upgradeable, Alive, TypeOK
<1>8. DownInv'
  BY DEF DownInv, IdleInv, GenInv, CountedInv, PhaseInv, MutexInv, Live, InCall,
     Alive, RefHolders, TypeOK
<1> QED BY <1>1, <1>2, <1>3, <1>4, <1>5, <1>6, <1>7, <1>8

LEMMA ClearSenderStep ==
    ASSUME IInv, NEW h \in Hosts, ClearSender(h)
    PROVE  IInv'
<1> USE RunLoopAssumption DEF IInv, Gens, Ops, Critical, Starting, Stopping,
      Releasing, lifecycle, closures, issuers, ClearSender, Goto
<1>1. TypeOK'
  BY DEF TypeOK
<1>2. MutexInv'
  BY DEF MutexInv, TypeOK
<1>3. CountedInv'
  BY DEF CountedInv, PhaseInv, MutexInv, TypeOK
<1>4. PhaseInv'
  BY DEF PhaseInv, CountedInv, MutexInv, GenInv, TypeOK
<1>5. GenInv'
  BY DEF GenInv, CountedInv, PhaseInv, MutexInv, IdleInv, InCall, TypeOK
<1>6. IdleInv'
  BY DEF IdleInv, InCall, Upgradeable, TypeOK
<1>7. CallInv'
  BY DEF CallInv, IdleInv, GenInv, CountedInv, PhaseInv, MutexInv, PastTake, Runs,
     InCall, Upgradeable, Alive, TypeOK
<1>8. DownInv'
  BY DEF DownInv, IdleInv, GenInv, CountedInv, PhaseInv, MutexInv, Live, InCall,
     Alive, RefHolders, TypeOK
<1> QED BY <1>1, <1>2, <1>3, <1>4, <1>5, <1>6, <1>7, <1>8

LEMMA DropLocalStep ==
    ASSUME IInv, NEW h \in Hosts, DropLocal(h)
    PROVE  IInv'
<1> USE RunLoopAssumption DEF IInv, Gens, Ops, Critical, Starting, Stopping,
      Releasing, lifecycle, closures, issuers, DropLocal, Goto, DropQueue
<1>1. TypeOK'
  BY DEF TypeOK
<1>2. MutexInv'
  BY DEF MutexInv, TypeOK
<1>3. CountedInv'
  BY DEF CountedInv, PhaseInv, MutexInv, TypeOK
<1>4. PhaseInv'
  BY DEF PhaseInv, CountedInv, MutexInv, GenInv, TypeOK
<1>5. GenInv'
  BY DEF GenInv, CountedInv, PhaseInv, MutexInv, IdleInv, InCall, TypeOK
<1>6. IdleInv'
  BY DEF IdleInv, InCall, Upgradeable, TypeOK
<1>7. CallInv'
  BY DEF CallInv, IdleInv, GenInv, CountedInv, PhaseInv, MutexInv, PastTake, Runs,
     InCall, Upgradeable, Alive, TypeOK
<1>8. DownInv'
  BY DEF DownInv, IdleInv, GenInv, CountedInv, PhaseInv, MutexInv, Live, InCall,
     Alive, RefHolders, TypeOK
<1> QED BY <1>1, <1>2, <1>3, <1>4, <1>5, <1>6, <1>7, <1>8

LEMMA RunClosureStep ==
    ASSUME IInv, NEW h \in Hosts, NEW k \in Ops, RunClosure(h, k)
    PROVE  IInv'
<1> USE RunLoopAssumption DEF IInv, Gens, Ops, Critical, Starting, Stopping,
      Releasing, lifecycle, closures, issuers, RunClosure, CurrentLocal, Settle
<1>1. TypeOK'
  BY RunClosureTypeOK
<1>2. MutexInv'
  BY DEF MutexInv, TypeOK
<1>3. CountedInv'
  BY DEF CountedInv, PhaseInv, MutexInv, TypeOK
<1>4. PhaseInv'
  BY DEF PhaseInv, CountedInv, MutexInv, GenInv, TypeOK
<1>5. GenInv'
  BY DEF GenInv, CountedInv, PhaseInv, MutexInv, IdleInv, InCall, TypeOK
<1>6. IdleInv'
  BY DEF IdleInv, InCall, Upgradeable, TypeOK
<1>7. CallInv'
  BY DEF CallInv, IdleInv, GenInv, CountedInv, PhaseInv, MutexInv, PastTake, Runs,
     InCall, Upgradeable, Alive, TypeOK
<1>8. DownInv'
  BY DEF DownInv, IdleInv, GenInv, CountedInv, PhaseInv, MutexInv, Live, InCall,
     Alive, RefHolders, TypeOK
<1> QED BY <1>1, <1>2, <1>3, <1>4, <1>5, <1>6, <1>7, <1>8

LEMMA FinishCallbackStep ==
    ASSUME IInv, NEW h \in Hosts, FinishCallback(h)
    PROVE  IInv'
<1> USE RunLoopAssumption DEF IInv, Gens, Ops, Critical, Starting, Stopping,
      Releasing, lifecycle, closures, issuers, FinishCallback, Settle, DropQueue
<1>1. TypeOK'
  BY DEF TypeOK
<1>2. MutexInv'
  BY DEF MutexInv, TypeOK
<1>3. CountedInv'
  BY DEF CountedInv, PhaseInv, MutexInv, TypeOK
<1>4. PhaseInv'
  BY DEF PhaseInv, CountedInv, MutexInv, GenInv, TypeOK
<1>5. GenInv'
  BY DEF GenInv, CountedInv, PhaseInv, MutexInv, IdleInv, InCall, TypeOK
<1>6. IdleInv'
  BY DEF IdleInv, InCall, Upgradeable, TypeOK
<1>7. CallInv'
  BY DEF CallInv, IdleInv, GenInv, CountedInv, PhaseInv, MutexInv, PastTake, Runs,
     InCall, Upgradeable, Alive, TypeOK
<1>8. DownInv'
  BY DEF DownInv, IdleInv, GenInv, CountedInv, PhaseInv, MutexInv, Live, InCall,
     Alive, RefHolders, TypeOK
<1> QED BY <1>1, <1>2, <1>3, <1>4, <1>5, <1>6, <1>7, <1>8

LEMMA CallInlineStep ==
    ASSUME IInv, NEW h \in Hosts, NEW k \in Calls, CallInline(h, k)
    PROVE  IInv'
<1> USE RunLoopAssumption DEF IInv, Gens, Ops, Critical, Starting, Stopping,
      Releasing, lifecycle, closures, issuers, CallInline, Step, CurrentLocal
<1>1. TypeOK'
  BY ZenonT(40) DEF TypeOK
<1>2. MutexInv'
  BY DEF MutexInv, TypeOK
<1>3. CountedInv'
  BY DEF CountedInv, PhaseInv, MutexInv, TypeOK
<1>4. PhaseInv'
  BY DEF PhaseInv, CountedInv, MutexInv, GenInv, TypeOK
<1>5. GenInv'
  BY DEF GenInv, CountedInv, PhaseInv, MutexInv, IdleInv, InCall, TypeOK
<1>6. IdleInv'
  BY DEF IdleInv, InCall, Upgradeable, TypeOK
<1>7. CallInv'
  BY DEF CallInv, IdleInv, GenInv, CountedInv, PhaseInv, MutexInv, PastTake, Runs,
     InCall, Upgradeable, Alive, TypeOK
<1>8. DownInv'
  BY DEF DownInv, IdleInv, GenInv, CountedInv, PhaseInv, MutexInv, Live, InCall,
     Alive, RefHolders, TypeOK
<1> QED BY <1>1, <1>2, <1>3, <1>4, <1>5, <1>6, <1>7, <1>8

LEMMA GetSenderStep ==
    ASSUME IInv, NEW k \in Ops, GetSender(k)
    PROVE  IInv'
<1> USE RunLoopAssumption DEF IInv, Gens, Ops, Critical, Starting, Stopping,
      Releasing, lifecycle, closures, issuers, GetSender, Step
<1>1. TypeOK'
  BY DEF TypeOK
<1>2. MutexInv'
  BY DEF MutexInv, TypeOK
<1>3. CountedInv'
  BY DEF CountedInv, PhaseInv, MutexInv, TypeOK
<1>4. PhaseInv'
  BY DEF PhaseInv, CountedInv, MutexInv, GenInv, TypeOK
<1>5. GenInv'
  BY DEF GenInv, CountedInv, PhaseInv, MutexInv, IdleInv, InCall, TypeOK
<1>6. IdleInv'
  BY DEF IdleInv, InCall, Upgradeable, TypeOK
<1>7. CallInv'
  BY DEF CallInv, IdleInv, GenInv, CountedInv, PhaseInv, MutexInv, PastTake, Runs,
     InCall, Upgradeable, Alive, TypeOK
<1>8. DownInv'
  BY DEF DownInv, IdleInv, GenInv, CountedInv, PhaseInv, MutexInv, Live, InCall,
     Alive, RefHolders, TypeOK
<1> QED BY <1>1, <1>2, <1>3, <1>4, <1>5, <1>6, <1>7, <1>8

LEMMA RegisterStep ==
    ASSUME IInv, NEW k \in Calls, Register(k)
    PROVE  IInv'
<1> USE RunLoopAssumption DEF IInv, Gens, Ops, Critical, Starting, Stopping,
      Releasing, lifecycle, closures, issuers, Register, Step
<1>1. TypeOK'
  BY DEF TypeOK
<1>2. MutexInv'
  BY DEF MutexInv, TypeOK
<1>3. CountedInv'
  BY DEF CountedInv, PhaseInv, MutexInv, TypeOK
<1>4. PhaseInv'
  BY DEF PhaseInv, CountedInv, MutexInv, GenInv, TypeOK
<1>5. GenInv'
  BY DEF GenInv, CountedInv, PhaseInv, MutexInv, IdleInv, InCall, TypeOK
<1>6. IdleInv'
  BY DEF IdleInv, InCall, Upgradeable, TypeOK
<1>7. CallInv'
  BY DEF CallInv, IdleInv, GenInv, CountedInv, PhaseInv, MutexInv, PastTake, Runs,
     InCall, Upgradeable, Alive, TypeOK
<1>8. DownInv'
  BY DEF DownInv, IdleInv, GenInv, CountedInv, PhaseInv, MutexInv, Live, InCall,
     Alive, RefHolders, TypeOK
<1> QED BY <1>1, <1>2, <1>3, <1>4, <1>5, <1>6, <1>7, <1>8

LEMMA CheckTokenStep ==
    ASSUME IInv, NEW k \in Ops, CheckToken(k)
    PROVE  IInv'
<1> USE RunLoopAssumption DEF IInv, Gens, Ops, Critical, Starting, Stopping,
      Releasing, lifecycle, closures, issuers, CheckToken, Step
<1>1. TypeOK'
  BY DEF TypeOK
<1>2. MutexInv'
  BY DEF MutexInv, TypeOK
<1>3. CountedInv'
  BY DEF CountedInv, PhaseInv, MutexInv, TypeOK
<1>4. PhaseInv'
  BY DEF PhaseInv, CountedInv, MutexInv, GenInv, TypeOK
<1>5. GenInv'
  BY DEF GenInv, CountedInv, PhaseInv, MutexInv, IdleInv, InCall, TypeOK
<1>6. IdleInv'
  BY DEF IdleInv, InCall, Upgradeable, TypeOK
<1>7. CallInv'
  BY DEF CallInv, IdleInv, GenInv, CountedInv, PhaseInv, MutexInv, PastTake, Runs,
     InCall, Upgradeable, Alive, TypeOK
<1>8. DownInv'
  BY DEF DownInv, IdleInv, GenInv, CountedInv, PhaseInv, MutexInv, Live, InCall,
     Alive, RefHolders, TypeOK
<1> QED BY <1>1, <1>2, <1>3, <1>4, <1>5, <1>6, <1>7, <1>8

LEMMA PushStep ==
    ASSUME IInv, NEW k \in Ops, Push(k)
    PROVE  IInv'
<1> USE RunLoopAssumption DEF IInv, Gens, Ops, Critical, Starting, Stopping,
      Releasing, lifecycle, closures, issuers, Push, Step
<1>1. TypeOK'
  BY DEF TypeOK
<1>2. MutexInv'
  BY DEF MutexInv, TypeOK
<1>3. CountedInv'
  BY DEF CountedInv, PhaseInv, MutexInv, TypeOK
<1>4. PhaseInv'
  BY DEF PhaseInv, CountedInv, MutexInv, GenInv, TypeOK
<1>5. GenInv'
  BY DEF GenInv, CountedInv, PhaseInv, MutexInv, IdleInv, InCall, TypeOK
<1>6. IdleInv'
  BY DEF IdleInv, InCall, Upgradeable, TypeOK
<1>7. CallInv'
  BY DEF CallInv, IdleInv, GenInv, CountedInv, PhaseInv, MutexInv, PastTake, Runs,
     InCall, Upgradeable, Alive, TypeOK
<1>8. DownInv'
  BY DEF DownInv, IdleInv, GenInv, CountedInv, PhaseInv, MutexInv, Live, InCall,
     Alive, RefHolders, TypeOK
<1> QED BY <1>1, <1>2, <1>3, <1>4, <1>5, <1>6, <1>7, <1>8

LEMMA RecheckTokenStep ==
    ASSUME IInv, NEW k \in Ops, RecheckToken(k)
    PROVE  IInv'
<1> USE RunLoopAssumption DEF IInv, Gens, Ops, Critical, Starting, Stopping,
      Releasing, lifecycle, closures, issuers, RecheckToken, Step
<1>1. TypeOK'
  BY DEF TypeOK
<1>2. MutexInv'
  BY DEF MutexInv, TypeOK
<1>3. CountedInv'
  BY DEF CountedInv, PhaseInv, MutexInv, TypeOK
<1>4. PhaseInv'
  BY DEF PhaseInv, CountedInv, MutexInv, GenInv, TypeOK
<1>5. GenInv'
  BY DEF GenInv, CountedInv, PhaseInv, MutexInv, IdleInv, InCall, TypeOK
<1>6. IdleInv'
  BY DEF IdleInv, InCall, Upgradeable, TypeOK
<1>7. CallInv'
  BY DEF CallInv, IdleInv, GenInv, CountedInv, PhaseInv, MutexInv, PastTake, Runs,
     InCall, Upgradeable, Alive, TypeOK
<1>8. DownInv'
  BY DEF DownInv, IdleInv, GenInv, CountedInv, PhaseInv, MutexInv, Live, InCall,
     Alive, RefHolders, TypeOK
<1> QED BY <1>1, <1>2, <1>3, <1>4, <1>5, <1>6, <1>7, <1>8

LEMMA ReturnStep ==
    ASSUME IInv, NEW k \in Calls, Return(k)
    PROVE  IInv'
<1> USE RunLoopAssumption DEF IInv, Gens, Ops, Critical, Starting, Stopping,
      Releasing, lifecycle, closures, issuers, Return, Step
<1>1. TypeOK'
  BY DEF TypeOK
<1>2. MutexInv'
  BY DEF MutexInv, TypeOK
<1>3. CountedInv'
  BY DEF CountedInv, PhaseInv, MutexInv, TypeOK
<1>4. PhaseInv'
  BY DEF PhaseInv, CountedInv, MutexInv, GenInv, TypeOK
<1>5. GenInv'
  BY DEF GenInv, CountedInv, PhaseInv, MutexInv, IdleInv, InCall, TypeOK
<1>6. IdleInv'
  BY DEF IdleInv, InCall, Upgradeable, TypeOK
<1>7. CallInv'
  BY DEF CallInv, IdleInv, GenInv, CountedInv, PhaseInv, MutexInv, PastTake, Runs,
     InCall, Upgradeable, Alive, TypeOK
<1>8. DownInv'
  BY DEF DownInv, IdleInv, GenInv, CountedInv, PhaseInv, MutexInv, Live, InCall,
     Alive, RefHolders, TypeOK
<1> QED BY <1>1, <1>2, <1>3, <1>4, <1>5, <1>6, <1>7, <1>8

-----------------------------------------------------------------------------
(* The invariant and what it implies. *)

LEMMA InitIInv == Init => IInv
<1> SUFFICES ASSUME Init PROVE IInv
  OBVIOUS
<1> USE RunLoopAssumption DEF Init, Gens, Ops
<1>1. TypeOK
  BY DEF TypeOK, Releasing
<1>2. MutexInv /\ CountedInv /\ PhaseInv
  BY DEF MutexInv, CountedInv, PhaseInv, Critical, Starting, Stopping
<1>3. GenInv /\ IdleInv
  BY DEF GenInv, IdleInv, InCall
<1>4. CallInv /\ DownInv
  BY DEF CallInv, DownInv, InCall
<1> QED BY <1>1, <1>2, <1>3, <1>4 DEF IInv

LEMMA StutterIInv == IInv /\ UNCHANGED vars => IInv'
<1> SUFFICES ASSUME IInv, UNCHANGED vars PROVE IInv'
  OBVIOUS
<1> USE DEF vars, lifecycle, closures, issuers
<1>1. TypeOK' /\ MutexInv' /\ CountedInv'
  BY DEF IInv, TypeOK, MutexInv, CountedInv
<1>2. PhaseInv' /\ GenInv' /\ IdleInv'
  BY DEF IInv, PhaseInv, GenInv, IdleInv, InCall
<1>3. CallInv' /\ DownInv'
  BY DEF IInv, CallInv, DownInv, PastTake, Runs, InCall, Live
<1> QED BY <1>1, <1>2, <1>3 DEF IInv

\* Every step of a thread or an operation preserves the inductive invariant.
LEMMA NextIInv == IInv /\ [Next]_vars => IInv'
<1> SUFFICES ASSUME IInv, [Next]_vars PROVE IInv'
  OBVIOUS
<1>1. ASSUME NEW h \in Hosts, HostStep(h) PROVE IInv'
  BY <1>1, InitLockStep, InitRefuseStep, InitAgainStep, InstallStep, PublishSenderStep,
     PublishThreadStep, InitFirstStep, ReleaseStep, SetHasShutdownStep, SetTokenStep,
     TakePendingStep, CancelPendingStep, ClearThreadStep, ClearInstanceStep,
     ClearSenderStep, DropLocalStep, RunClosureStep, FinishCallbackStep, CallInlineStep
     DEF HostStep
<1>2. ASSUME NEW k \in Ops, OpStep(k) PROVE IInv'
  BY <1>2, GetSenderStep, CheckTokenStep, PushStep, RecheckTokenStep DEF OpStep
<1>3. ASSUME NEW k \in Calls, CallStep(k) PROVE IInv'
  BY <1>3, RegisterStep, ReturnStep DEF CallStep
<1> QED BY <1>1, <1>2, <1>3, StutterIInv DEF Next

LEMMA SpecIInv == Spec => []IInv
<1> QED BY InitIInv, NextIInv, PTL DEF Spec

\* Type correctness, for every set of threads and operations and every bound.
THEOREM TypeCorrect == Spec => []TypeOK
<1>1. IInv => TypeOK
  BY DEF IInv
<1> QED BY <1>1, SpecIInv, PTL

\* A guard keeps the loop that its thread initialized: the reference count of
\* RunLoop::init and release_guard cannot be off, whatever threads race for INIT_MUTEX.
THEOREM GuardKeepsLoop == Spec => []GuardedLoop
<1>1. IInv => GuardedLoop
  BY DEF IInv, CountedInv, GuardedLoop, TypeOK
<1> QED BY <1>1, SpecIInv, PTL

\* The invariant that the unsafe Send and Sync of RunLoopThreadOnly rest on.
THEOREM InstanceOnOneThread == Spec => []InstanceThreadOnly
<1>1. IInv => InstanceThreadOnly
  <2> SUFFICES ASSUME IInv, NEW h \in Hosts, NEW j \in Hosts,
                      \/ pc[h] = "init" /\ initCount = 0
                      \/ pc[h] \in {"shutdown", "unbound"}
               PROVE  h = j \/ threadId # j
    BY DEF InstanceThreadOnly
  <2>1. CASE pc[h] = "init" /\ initCount = 0
    <3>1. \A i \in Hosts : pc[i] \in {"idle", "init", "released"}
      BY <2>1 DEF IInv, MutexInv, TypeOK, Critical, Starting, Stopping, Releasing
    <3>2. threadId = NoOne
      BY <2>1, <3>1 DEF IInv, CountedInv
    <3> QED BY <3>2, RunLoopAssumption
  <2>2. CASE pc[h] \in {"shutdown", "unbound"}
    BY <2>2, RunLoopAssumption DEF IInv, PhaseInv, Stopping
  <2> QED BY <2>1, <2>2
<1> QED BY <1>1, SpecIInv, PTL

\* No thread waits in RunLoop::call for an answer that nobody is going to give: the order
\* in which call registers, sends and tests the token and shutdown sets the token and takes
\* PENDING_CALLS leaves no gap.
THEOREM CallersAreAnswered == Spec => []NoStrandedCaller
<1>1. IInv => NoStrandedCaller
  <2> SUFFICES ASSUME IInv, NEW k \in Calls, opPc[k] = "waiting", answer[k] = "none"
               PROVE  \/ \E h \in Hosts : running[h] = k
                      \/ k \in taken
                      \/ /\ k \in queue \intersect pendingCalls
                         /\ opGen[k] = instance
                         /\ \A h \in Hosts : pc[h] \notin {"cancelling", "unbound"}
    BY DEF NoStrandedCaller
  <2>1. CASE opGen[k] # instance \/ PastTake
    BY <2>1 DEF IInv, CallInv, Runs
  <2>2. CASE opGen[k] = instance /\ ~PastTake
    BY <2>2 DEF IInv, CallInv, Runs, PastTake
  <2> QED BY <2>1, <2>2
<1> QED BY <1>1, SpecIInv, PTL

\* An error of post or call is never spurious: the operation overlapped an instant at which
\* no live run loop existed.
THEOREM ErrorsAreHonest == Spec => []ErrMeansDown
<1>1. IInv => ErrMeansDown
  BY DEF IInv, DownInv, ErrMeansDown
<1> QED BY <1>1, SpecIInv, PTL

-----------------------------------------------------------------------------
(* RunLoop implements RunLoopService. *)

\* A callback and the answer of its call: what is queued has not begun, what runs runs on
\* one thread, and Ok is not given before the end.
CallbackInv ==
    /\ \A k \in Calls :
          /\ k \in queue => callback[k] = "no"
          /\ opPc[k] \in {"idle", "register", "check", "push"} =>
                callback[k] = "no" /\ k \notin queue
          /\ answer[k] = "ok" => callback[k] = "done"
    /\ \A h \in Hosts : running[h] \in Calls => callback[running[h]] = "running"
    /\ \A h, j \in Hosts : running[h] \in Calls /\ running[h] = running[j] => h = j

\* On a thread that is not inside init or a drop, current_local finds the live loop.
LEMMA LocalIsLive ==
    ASSUME IInv, NEW h \in Hosts, pc[h] = "idle", threadId = h
    PROVE  CurrentLocal(h) # 0 /\ Live
<1> USE RunLoopAssumption DEF IInv, Critical, Starting, Stopping, Releasing, Gens, Ops
<1>1. initCount > 0
  BY DEF CountedInv, PhaseInv, MutexInv, TypeOK
<1> QED BY <1>1 DEF CountedInv, CurrentLocal, Live, TypeOK

LEMMA InitCallbackInv == Init => CallbackInv
  BY RunLoopAssumption DEF Init, CallbackInv, Ops

LEMMA NextCallbackInv == IInv /\ CallbackInv /\ [Next]_vars => CallbackInv'
<1> SUFFICES ASSUME IInv, CallbackInv, [Next]_vars PROVE CallbackInv'
  OBVIOUS
<1> USE RunLoopAssumption DEF Ops, IInv, TypeOK, CallbackInv
<1>1. CASE UNCHANGED <<queue, running, local, callback, opPc, answer>>
  BY <1>1
<1>2. ASSUME NEW h \in Hosts, NEW k \in Calls, CancelPending(h, k) PROVE CallbackInv'
  BY <1>2 DEF CancelPending, Settle, closures, issuers
<1>3. ASSUME NEW h \in Hosts, DropLocal(h) PROVE CallbackInv'
  BY <1>3 DEF DropLocal, DropQueue, issuers
<1>4. ASSUME NEW h \in Hosts, NEW k \in Ops, RunClosure(h, k) PROVE CallbackInv'
  BY <1>4 DEF RunClosure, Settle, issuers
<1>5. ASSUME NEW h \in Hosts, FinishCallback(h) PROVE CallbackInv'
  BY <1>5 DEF FinishCallback, Settle, DropQueue, issuers
<1>6. ASSUME NEW h \in Hosts, NEW k \in Calls, CallInline(h, k) PROVE CallbackInv'
  BY <1>6 DEF CallInline, Step, IdleInv
<1>7. ASSUME NEW k \in Ops, OpStep(k) PROVE CallbackInv'
  BY <1>7 DEF OpStep, GetSender, CheckToken, Push, RecheckToken, Step, closures
<1>8. ASSUME NEW k \in Calls, CallStep(k) PROVE CallbackInv'
  BY <1>8 DEF CallStep, Register, Return, Step, closures
<1>9. ASSUME NEW h \in Hosts, HostStep(h) PROVE CallbackInv'
  <2>1. CASE \/ InitLock(h) \/ InitRefuse(h) \/ InitAgain(h) \/ Install(h)
             \/ PublishSender(h) \/ PublishThread(h) \/ InitFirst(h) \/ Release(h)
             \/ SetHasShutdown(h) \/ SetToken(h) \/ TakePending(h) \/ ClearThread(h)
             \/ ClearInstance(h) \/ ClearSender(h)
    <3>1. UNCHANGED <<queue, running, local, callback, opPc, answer>>
      BY <2>1, SMTT(30) DEF InitLock, InitRefuse, InitAgain, TakeGuard, Install,
         PublishSender, PublishThread, InitFirst, Release, SetHasShutdown, SetToken,
         TakePending, ClearThread, ClearInstance, ClearSender, closures, issuers
    <3> QED BY <1>1, <3>1
  <2> HIDE DEF Ops, IInv, TypeOK, CallbackInv
  <2> QED BY <1>2, <1>3, <1>4, <1>5, <1>6, <1>9, <2>1 DEF HostStep
<1> HIDE DEF Ops, IInv, TypeOK, CallbackInv
<1>10. CASE UNCHANGED vars
  BY <1>1, <1>10 DEF vars, closures, issuers
<1> QED BY <1>7, <1>8, <1>9, <1>10 DEF Next

\* What a step leaves of the service when it touches none of what the service shows.
LEMMA HiddenStep ==
    ASSUME UNCHANGED <<sender, token, opPc, callback, sawDown>>
    PROVE  UNCHANGED Service!vars
  BY DEF Service!vars, Live, InCall

LEMMA ServiceStep == IInv /\ CallbackInv /\ [Next]_vars => [Service!Next]_(Service!vars)
<1> SUFFICES ASSUME IInv, CallbackInv, [Next]_vars PROVE [Service!Next]_(Service!vars)
  OBVIOUS
<1> DEFINE Simulated == [Service!Next]_(Service!vars)
<1> USE RunLoopAssumption DEF Ops
<1>1. CASE UNCHANGED <<sender, token, opPc, callback, sawDown>>
  BY <1>1, HiddenStep
<1>2. ASSUME NEW h \in Hosts, PublishSender(h) PROVE Simulated
  <2>1. ~Live /\ Live'
    BY <1>2 DEF PublishSender, IInv, PhaseInv, Starting, Live
  <2>2. Service!Open
    BY <1>2, <2>1 DEF Service!Open, PublishSender, closures, issuers, InCall
  <2> QED BY <2>2 DEF Service!Next
<1>3. ASSUME NEW h \in Hosts, SetToken(h) PROVE Simulated
  <2>1. Live /\ ~Live'
    BY <1>3 DEF SetToken, IInv, PhaseInv, Stopping, Live
  <2>2. Service!Close
    BY <1>3, <2>1 DEF Service!Close, SetToken, closures, InCall, IInv, TypeOK
  <2> QED BY <2>2 DEF Service!Next
<1>4. ASSUME NEW h \in Hosts, ClearSender(h) PROVE Simulated
  <2>1. sender \in token /\ sender' = 0 /\ token' = token
    BY <1>4 DEF ClearSender, IInv, PhaseInv
  <2>2. Live' = Live
    BY <2>1 DEF Live
  <2> QED BY <1>4, <2>2 DEF Service!vars, ClearSender, closures, issuers, InCall
<1>5. ASSUME NEW h \in Hosts, NEW k \in Ops, RunClosure(h, k) PROVE Simulated
  <2>1. CASE CurrentLocal(h) # 0 /\ k \in Calls
    <3>1. Live
      BY <1>5, <2>1, LocalIsLive DEF RunClosure, CurrentLocal
    <3>2. opPc[k] # "idle" /\ callback[k] = "no"
      BY <1>5, <2>1 DEF RunClosure, CallbackInv, IInv, IdleInv
    <3>3. callback' = [callback EXCEPT ![k] = "running"] /\ DOMAIN callback = Ops
      BY <1>5, <2>1 DEF RunClosure, IInv, TypeOK
    <3>4. UNCHANGED <<sender, token, opPc, sawDown>>
      BY <1>5 DEF RunClosure, lifecycle, issuers
    <3>5. Service!Start(k)
      BY <2>1, <3>1, <3>2, <3>3, <3>4 DEF Service!Start, Live, InCall
    <3> QED BY <2>1, <3>5 DEF Service!Next
  <2>2. CASE CurrentLocal(h) = 0 \/ k \notin Calls
    BY <1>5, <2>2 DEF RunClosure, issuers, lifecycle, Service!vars, Live, InCall, IInv, TypeOK
  <2> QED BY <2>1, <2>2
<1>6. ASSUME NEW h \in Hosts, FinishCallback(h) PROVE Simulated
  <2>1. CASE running[h] \in Calls
    <3>1. PICK k \in Calls : k = running[h]
      BY <2>1
    <3>2. Service!Finish(k)
      BY <1>6, <3>1, ZenonT(40) DEF Service!Finish, FinishCallback, issuers, lifecycle, Live, InCall,
         CallbackInv, IInv, TypeOK
    <3> QED BY <3>2 DEF Service!Next
  <2>2. CASE running[h] \notin Calls
    BY <1>6, <2>2 DEF FinishCallback, issuers, lifecycle, Service!vars, Live, InCall,
       IInv, TypeOK
  <2> QED BY <2>1, <2>2
<1>7. ASSUME NEW h \in Hosts, NEW k \in Calls, CallInline(h, k) PROVE Simulated
  <2>1. CurrentLocal(h) # 0 /\ Live
    BY <1>7, LocalIsLive DEF CallInline
  <2>2. /\ opPc[k] = "idle" /\ k \in Ops
        /\ opPc' = [opPc EXCEPT ![k] = "ok"] /\ DOMAIN opPc = Ops
        /\ callback' = [callback EXCEPT ![k] = "done"] /\ DOMAIN callback = Ops
        /\ UNCHANGED <<sender, token, sawDown>>
    BY <1>7, <2>1 DEF CallInline, Step, lifecycle, IInv, TypeOK, Ops
  <2>3. Live' = Live
    BY <2>2 DEF Live
  <2>4. \A j \in Calls : j \in Ops
    BY DEF Ops
  <2>5. Service!AskInline(k)
    BY <2>1, <2>2, <2>3, <2>4, ZenonT(40) DEF Service!AskInline, InCall
  <2> QED BY <2>5 DEF Service!Next
<1>8. ASSUME NEW k \in Calls, GetSender(k) PROVE Simulated
  <2>1. CASE sender = 0
    <3>1. opPc[k] = "idle" /\ opPc' = [opPc EXCEPT ![k] = "err"]
      BY <1>8, <2>1 DEF GetSender, Step
    <3>2. UNCHANGED <<sender, token, callback>>
      BY <1>8 DEF GetSender, lifecycle, closures
    <3>3. DOMAIN opPc = Ops /\ sawDown' = IF Live THEN sawDown ELSE sawDown \union {k}
      BY <1>8 DEF GetSender, IInv, TypeOK
    <3>4. Service!AskInVain(k)
      BY <2>1, <3>1, <3>2, <3>3 DEF Service!AskInVain, Live, InCall
    <3> QED BY <3>4 DEF Service!Next
  <2>2. CASE sender # 0
    <3>1. opPc[k] = "idle" /\ opPc' = [opPc EXCEPT ![k] = "register"]
      BY <1>8, <2>2 DEF GetSender, Step
    <3>2. UNCHANGED <<sender, token, callback>>
      BY <1>8 DEF GetSender, lifecycle, closures
    <3>3. DOMAIN opPc = Ops /\ sawDown' = IF Live THEN sawDown ELSE sawDown \union {k}
      BY <1>8 DEF GetSender, IInv, TypeOK
    <3>4. Service!Ask(k)
      BY <2>2, <3>1, <3>2, <3>3 DEF Service!Ask, Live, InCall
    <3> QED BY <3>4 DEF Service!Next
  <2> QED BY <2>1, <2>2
<1>9. ASSUME NEW k \in Calls, CheckToken(k) \/ Push(k) \/ RecheckToken(k) \/ Register(k)
      PROVE  Simulated
  <2>1. CASE opPc'[k] = "err"
    <3>1. DownInv'
      BY NextIInv DEF IInv
    <3>2. k \in sawDown
      BY <1>9, <2>1, <3>1 DEF CheckToken, Push, RecheckToken, Register, DownInv
    <3>3. Service!Refuse(k)
      BY <1>9, <2>1, <3>2, ZenonT(40) DEF Service!Refuse, CheckToken, Push, RecheckToken, Register,
         Step, lifecycle, closures, Live, InCall, IInv, TypeOK
    <3> QED BY <3>3 DEF Service!Next
  <2>2. CASE opPc'[k] # "err"
    BY <1>9, <2>2 DEF Service!vars, CheckToken, Push, RecheckToken, Register,
       Step, lifecycle, closures, Live, InCall, IInv, TypeOK
  <2> QED BY <2>1, <2>2
<1>10. ASSUME NEW k \in Calls, Return(k) PROVE Simulated
  <2>1. CASE answer[k] = "ok"
    <3>1. Service!Answer(k)
      BY <1>10, <2>1 DEF Service!Answer, Return, Step, lifecycle, closures, Live, InCall,
         CallbackInv, IInv, TypeOK
    <3> QED BY <3>1 DEF Service!Next
  <2>2. CASE answer[k] = "err"
    <3>1. Service!Refuse(k)
      BY <1>10, <2>2 DEF Service!Refuse, Return, Step, lifecycle, closures, Live, InCall,
         IInv, DownInv, TypeOK
    <3> QED BY <3>1 DEF Service!Next
  <2> QED BY <1>10, <2>1, <2>2 DEF Return, IInv, TypeOK
<1>11. ASSUME NEW k \in Posts, OpStep(k) PROVE Simulated
  BY <1>11 DEF OpStep, GetSender, CheckToken, Push, RecheckToken, Step, lifecycle,
     closures, Service!vars, Live, InCall, IInv, TypeOK
<1>12. ASSUME NEW h \in Hosts, HostStep(h) PROVE Simulated
  <2>1. CASE \/ InitLock(h) \/ InitRefuse(h) \/ InitAgain(h) \/ Install(h)
             \/ PublishThread(h) \/ InitFirst(h) \/ Release(h) \/ SetHasShutdown(h)
             \/ TakePending(h) \/ (\E k \in Calls : CancelPending(h, k))
             \/ ClearThread(h) \/ ClearInstance(h) \/ DropLocal(h)
    <3>1. UNCHANGED <<sender, token, opPc, callback, sawDown>>
      BY <2>1, SMTT(30) DEF InitLock, InitRefuse, InitAgain, TakeGuard, Install,
         PublishThread, InitFirst, Release, SetHasShutdown, TakePending, CancelPending,
         ClearThread, ClearInstance, DropLocal, DropQueue, Settle, Goto, closures, issuers
    <3> QED BY <1>1, <3>1
  <2> HIDE DEF Simulated, Ops
  <2> QED BY <1>2, <1>3, <1>4, <1>5, <1>6, <1>7, <1>12, <2>1 DEF HostStep
<1>13. ASSUME NEW k \in Calls, OpStep(k) PROVE Simulated
  BY <1>8, <1>9, <1>13 DEF OpStep
<1>14. ASSUME NEW k \in Calls, CallStep(k) PROVE Simulated
  BY <1>9, <1>10, <1>14 DEF CallStep
<1>15. ASSUME UNCHANGED vars PROVE Simulated
  BY <1>1, <1>15 DEF vars, lifecycle, closures, issuers
<1> HIDE DEF Simulated
<1>16. Simulated
  <2>1. ASSUME NEW k \in Ops, OpStep(k) PROVE Simulated
    <3>1. k \in Calls \/ k \in Posts
      OBVIOUS
    <3> QED BY <1>11, <1>13, <2>1, <3>1
  <2>2. CASE Next
    BY <1>12, <1>14, <2>1, <2>2 DEF Next
  <2> QED BY <1>15, <2>2
<1> QED BY <1>16 DEF Simulated

\* RunLoop implements the service: whatever the threads do, a callback starts at most once
\* and only while a loop is live, Ok comes after it has finished, and an error only to a call
\* that saw an instant without a live loop.
THEOREM ImplementsService == Spec => ServiceSteps
<1>1. Init => Service!Init
  BY RunLoopAssumption DEF Init, Service!Init, Live, InCall, Ops
<1>2. IInv /\ CallbackInv /\ [Next]_vars => [Service!Next]_(Service!vars)
  BY ServiceStep
<1> QED BY <1>1, <1>2, SpecIInv, InitCallbackInv, NextCallbackInv, PTL DEF Spec, ServiceSteps
=============================================================================
