----------------------------- MODULE PoolProofs -----------------------------
(***************************************************************************)
(* Theorems about WorkerPool, for any number of items, any finite pool,    *)
(* both kinds of call, and a context that may or may not end.              *)
(***************************************************************************)
EXTENDS WorkerPool, FiniteSetTheorems, TLAPS

-----------------------------------------------------------------------------
(* Counting.                                                               *)

\* The items are N in number, and so are finitely many in any set of them.
LEMMA ItemsCount ==
    /\ IsFiniteSet(Items)
    /\ Cardinality(Items) = N
    /\ \A S \in SUBSET Items :
          /\ IsFiniteSet(S)
          /\ Cardinality(S) \in Nat
          /\ Cardinality(S) <= N
          /\ S # Items => Cardinality(S) < N
<1>1. IsFiniteSet(Items) /\ Cardinality(Items) = N
  <2>1. 1 \in Int /\ N \in Int
    BY NAssumption
  <2>2. Cardinality(1..N) = IF 1 > N THEN 0 ELSE N - 1 + 1
    BY <2>1, FS_Interval
  <2>3. IsFiniteSet(1..N)
    BY <2>1, FS_Interval
  <2> QED
    BY <2>2, <2>3, NAssumption DEF Items
<1>2. ASSUME NEW S \in SUBSET Items
      PROVE  /\ IsFiniteSet(S)
             /\ Cardinality(S) \in Nat
             /\ Cardinality(S) <= N
             /\ S # Items => Cardinality(S) < N
  <2>1. IsFiniteSet(S) /\ Cardinality(S) <= Cardinality(Items)
    BY <1>1, FS_Subset
  <2>2. Cardinality(S) \in Nat
    BY <2>1, FS_CardinalityType
  <2>3. Cardinality(Items) = Cardinality(S) => Items = S
    BY <1>1, FS_Subset
  <2> QED
    BY <1>1, <2>1, <2>2, <2>3, NAssumption
<1> QED
  BY <1>1, <1>2

-----------------------------------------------------------------------------
(* The invariant.                                                          *)

\* A pool that has not started satisfies it.
LEMMA InitPool == Init => PoolInv
<1> SUFFICES ASSUME Init PROVE PoolInv
  OBVIOUS
<1> USE DEF Init
<1>1. TypeOK
  <2>1. next \in 1..(N + 1) /\ item \in [Workers -> 0..N]
    BY NAssumption
  <2>2. outcome \in [Items -> Outcomes \cup {"none"}]
    OBVIOUS
  <2> QED
    BY <2>1, <2>2 DEF TypeOK
<1>2. EachItemOnce
  BY DEF EachItemOnce, Busy
<1>3. Accounted
  <2>1. {i \in Items : outcome[i] = "failed"} = {}
    BY DEF Items
  <2>2. failCount = Cardinality({i \in Items : outcome[i] = "failed"})
    BY <2>1, FS_EmptySet
  <2> QED
    BY <2>2, NAssumption DEF Accounted, Items, Sent
<1>4. WindsDown
  BY DEF WindsDown
<1> QED
  BY <1>1, <1>2, <1>3, <1>4 DEF PoolInv

\* The rendezvous hands an item to one worker and to that worker only.
LEMMA TakeKeepsPool ==
    ASSUME PoolInv, NEW w \in Workers, Take(w)
    PROVE  PoolInv'
<1> USE DEF PoolInv, Take
<1>1. TypeOK'
  BY NAssumption DEF TypeOK, Items, Busy, Outcomes
<1>2. EachItemOnce'
  BY NAssumption DEF TypeOK, EachItemOnce, Accounted, Busy, Items, Sent
<1>3. Accounted'
  BY NAssumption DEF TypeOK, EachItemOnce, Accounted, Busy, Items, Sent
<1>4. WindsDown'
  BY DEF TypeOK, WindsDown, AllFailed
<1> QED
  BY <1>1, <1>2, <1>3, <1>4

\* A failure is counted together with the item that failed.
LEMMA FailKeepsPool ==
    ASSUME PoolInv, NEW w \in Workers, Fail(w)
    PROVE  PoolInv'
<1> USE DEF PoolInv, Fail
<1> DEFINE Failed == {i \in Items : outcome[i] = "failed"}
<1>1. TypeOK'
  <2>1. (outcome \in [Items -> Outcomes \cup {"none"}])'
    BY DEF TypeOK, Outcomes
  <2> QED
    BY <2>1 DEF TypeOK, Busy
<1>2. EachItemOnce'
  BY DEF TypeOK, EachItemOnce, Busy, Items
<1>3. item[w] \in Items /\ outcome[item[w]] = "none"
  BY NAssumption DEF TypeOK, EachItemOnce, Busy, Items
<1>4. Failed' = Failed \cup {item[w]} /\ item[w] \notin Failed
  BY <1>3 DEF TypeOK
<1>5. failCount' = Cardinality(Failed')
  <2>1. IsFiniteSet(Failed)
    BY ItemsCount
  <2>2. Cardinality(Failed \cup {item[w]}) = Cardinality(Failed) + 1
    BY <1>4, <2>1, FS_AddElement
  <2>3. failCount = Cardinality(Failed)
    BY DEF Accounted
  <2> QED
    BY <1>4, <2>2, <2>3
<1>6. Accounted'
  BY <1>3, <1>5 DEF TypeOK, EachItemOnce, Accounted, Busy, Items, Sent
<1>7. WindsDown'
  BY DEF TypeOK, WindsDown, AllFailed
<1> QED
  BY <1>1, <1>2, <1>6, <1>7

\* A host with nothing open is accounted for without a message.
LEMMA FindNothingKeepsPool ==
    ASSUME PoolInv, NEW w \in Workers, FindNothing(w)
    PROVE  PoolInv'
<1> USE DEF PoolInv, FindNothing
<1>1. TypeOK'
  <2>1. (outcome \in [Items -> Outcomes \cup {"none"}])'
    BY DEF TypeOK, Outcomes
  <2> QED
    BY <2>1 DEF TypeOK, Busy
<1>2. EachItemOnce'
  BY DEF TypeOK, EachItemOnce, Busy, Items
<1>3. item[w] \in Items /\ outcome[item[w]] = "none"
  BY NAssumption DEF TypeOK, EachItemOnce, Busy, Items
<1>4. {i \in Items : outcome'[i] = "failed"} = {i \in Items : outcome[i] = "failed"}
  BY <1>3 DEF TypeOK
<1>5. Accounted'
  <2>1. \A i \in Items : i >= next' => outcome'[i] = "none"
    BY <1>3 DEF TypeOK, EachItemOnce, Accounted, Busy, Items
  <2>2. \A i \in Items : (i < next' /\ outcome'[i] = "none") =>
          \E v \in Workers : at'[v] = "working" /\ item'[v] = i
    BY <1>3 DEF TypeOK, Accounted, Sent
  <2>3. \A i \in Items :
          outcome'[i] \in Sent <=>
              \/ i \in out' \cup groups'
              \/ \E v \in Workers : at'[v] = "sending" /\ item'[v] = i
    BY <1>3 DEF TypeOK, EachItemOnce, Accounted, Busy, Sent
  <2> QED
    BY <1>4, <2>1, <2>2, <2>3 DEF Accounted
<1>6. WindsDown'
  BY DEF TypeOK, WindsDown, AllFailed
<1> QED
  BY <1>1, <1>2, <1>5, <1>6

\* A result is held by its worker until it is sent.
LEMMA FindKeepsPool ==
    ASSUME PoolInv, NEW w \in Workers, NEW o \in Sent, Find(w, o)
    PROVE  PoolInv'
<1> USE DEF PoolInv, Find
<1>1. TypeOK'
  <2>1. (outcome \in [Items -> Outcomes \cup {"none"}])'
    BY DEF TypeOK, Outcomes
  <2> QED
    BY <2>1 DEF TypeOK, Busy
<1>2. EachItemOnce'
  BY DEF TypeOK, EachItemOnce, Busy, Items
<1>3. item[w] \in Items /\ outcome[item[w]] = "none"
  BY NAssumption DEF TypeOK, EachItemOnce, Busy, Items
<1>4. {i \in Items : outcome'[i] = "failed"} = {i \in Items : outcome[i] = "failed"}
  BY <1>3 DEF TypeOK, Sent
<1>5. Accounted'
  <2>1. \A i \in Items : i >= next' => outcome'[i] = "none"
    BY <1>3 DEF TypeOK, EachItemOnce, Accounted, Busy, Items
  <2>2. \A i \in Items : (i < next' /\ outcome'[i] = "none") =>
          \E v \in Workers : at'[v] = "working" /\ item'[v] = i
    BY <1>3 DEF TypeOK, Accounted, Sent
  <2>3. \A i \in Items :
          outcome'[i] \in Sent <=>
              \/ i \in out' \cup groups'
              \/ \E v \in Workers : at'[v] = "sending" /\ item'[v] = i
    BY <1>3 DEF TypeOK, EachItemOnce, Accounted, Busy, Sent
  <2> QED
    BY <1>4, <2>1, <2>2, <2>3 DEF Accounted
<1>6. WindsDown'
  BY DEF TypeOK, WindsDown, AllFailed
<1> QED
  BY <1>1, <1>2, <1>5, <1>6

\* Sending moves an item from its worker to out.
LEMMA SendKeepsPool ==
    ASSUME PoolInv, NEW w \in Workers, Send(w)
    PROVE  PoolInv'
<1> USE DEF PoolInv, Send
<1>1. TypeOK'
  <2>1. item[w] \in Items
    BY NAssumption DEF TypeOK, EachItemOnce, Items, Busy
  <2> QED
    BY <2>1 DEF TypeOK, Busy, Outcomes
<1>2. EachItemOnce'
  BY DEF TypeOK, EachItemOnce, Busy, Items
<1>3. Accounted'
  BY NAssumption DEF TypeOK, EachItemOnce, Accounted, Busy, Items, Sent
<1>4. WindsDown'
  BY DEF TypeOK, WindsDown, AllFailed
<1> QED
  BY <1>1, <1>2, <1>3, <1>4

\* The channels are closed in order, and a worker ends between them.
LEMMA ClosingKeepsPool ==
    ASSUME PoolInv,
           CloseIn \/ CloseOut \/ Expire \/ \E w \in Workers : Finish(w)
    PROVE  PoolInv'
<1>1. CASE CloseIn
  BY <1>1 DEF PoolInv, CloseIn, TypeOK, EachItemOnce, Accounted, WindsDown,
         AllFailed, Outcomes
<1>2. CASE CloseOut
  BY <1>2 DEF PoolInv, CloseOut, TypeOK, EachItemOnce, Accounted, WindsDown,
         AllFailed, Outcomes
<1>3. CASE Expire
  BY <1>3 DEF PoolInv, Expire, TypeOK, EachItemOnce, Accounted, WindsDown,
         AllFailed, Outcomes
<1>4. ASSUME NEW w \in Workers, Finish(w)
      PROVE  PoolInv'
  <2> USE DEF PoolInv, Finish
  <2>1. TypeOK'
    BY <1>4 DEF TypeOK, Outcomes
  <2>2. EachItemOnce'
    BY <1>4 DEF TypeOK, EachItemOnce, Busy
  <2>3. Accounted'
    BY <1>4 DEF TypeOK, Accounted
  <2>4. WindsDown'
    BY <1>4 DEF TypeOK, WindsDown, AllFailed
  <2> QED
    BY <2>1, <2>2, <2>3, <2>4
<1> QED
  BY <1>1, <1>2, <1>3, <1>4

\* Collecting moves an item from out to the caller, and returns when out is
\* closed and empty.
LEMMA CollectKeepsPool ==
    ASSUME PoolInv, Collect
    PROVE  PoolInv'
<1>1. ASSUME NEW i \in Items, Receive(i)
      PROVE  PoolInv'
  BY <1>1 DEF PoolInv, Receive, TypeOK, EachItemOnce, Accounted, WindsDown,
         AllFailed, Outcomes
<1>2. CASE Report
  BY <1>2 DEF PoolInv, Report, TypeOK, EachItemOnce, Accounted, WindsDown,
         AllFailed, Outcomes
<1>3. CASE Return
  BY <1>3 DEF PoolInv, Return, TypeOK, EachItemOnce, Accounted, WindsDown,
         AllFailed, Outcomes
<1> QED
  BY <1>1, <1>2, <1>3 DEF Collect

\* Every reachable state of the pool satisfies the invariant.
THEOREM PoolInvariant == Spec => []PoolInv
<1>1. PoolInv /\ [Next]_vars => PoolInv'
  <2> SUFFICES ASSUME PoolInv, [Next]_vars PROVE PoolInv'
    OBVIOUS
  <2>1. ASSUME NEW w \in Workers, Work(w)
        PROVE  PoolInv'
    BY <2>1, TakeKeepsPool, FailKeepsPool, FindNothingKeepsPool, FindKeepsPool,
       SendKeepsPool, ClosingKeepsPool DEF Work
  <2>2. CASE CloseIn \/ CloseOut \/ Expire
    BY <2>2, ClosingKeepsPool
  <2>3. CASE Collect
    BY <2>3, CollectKeepsPool
  <2>4. CASE UNCHANGED vars
    BY <2>4 DEF vars, PoolInv, TypeOK, EachItemOnce, Accounted, WindsDown,
         AllFailed, Outcomes
  <2> QED
    BY <2>1, <2>2, <2>3, <2>4 DEF Next
<1> QED
  BY <1>1, InitPool, PTL DEF Spec

-----------------------------------------------------------------------------
(* What follows from it.                                                   *)

\* Every state of either pool is well typed.
THEOREM TypeCorrect == Spec => []TypeOK
<1>1. PoolInv => TypeOK
  BY DEF PoolInv
<1> QED
  BY <1>1, PoolInvariant, PTL

\* Nobody sends on a closed channel, and nobody waits to send.
THEOREM SafeSends == Spec => []SendsAreSafe
<1>1. PoolInv => SendsAreSafe
  <2> SUFFICES ASSUME PoolInv, NEW w \in Workers, at[w] = "sending"
               PROVE  Cardinality(out) < Capacity
    BY DEF PoolInv, WindsDown, SendsAreSafe
  <2>1. item[w] \in Items /\ item[w] \notin out
    BY NAssumption DEF PoolInv, TypeOK, EachItemOnce, Busy, Items
  <2>2. out \in SUBSET Items /\ out # Items
    BY <2>1 DEF PoolInv, TypeOK
  <2> QED
    BY <2>2, ItemsCount DEF Capacity
<1> QED
  BY <1>1, PoolInvariant, PTL

\* The caller gets everything the workers found, and the final count.
THEOREM CompleteFanIn == Spec => []NothingIsLost
<1>1. PoolInv => NothingIsLost
  <2> SUFFICES ASSUME PoolInv, verdict # "none" PROVE
                 /\ groups = {i \in Items : outcome[i] \in Sent}
                 /\ failCount = Cardinality({i \in Items : outcome[i] = "failed"})
    BY DEF NothingIsLost
  <2>1. out = {} /\ \A w \in Workers : at[w] = "finished"
    BY DEF PoolInv, WindsDown
  <2>2. groups \in SUBSET Items
    BY DEF PoolInv, TypeOK
  <2> QED
    BY <2>1, <2>2 DEF PoolInv, Accounted
<1> QED
  BY <1>1, PoolInvariant, PTL

\* Nothing found and no error means some host was reached; an error means
\* none was.
THEOREM EarnedSuccess == Spec => []EmptySuccessIsEarned
<1>1. PoolInv => EmptySuccessIsEarned
  <2> SUFFICES ASSUME PoolInv, kind = "scan" PROVE
                 /\ verdict = "ok" =>
                       /\ \A i \in Items : outcome[i] # "none"
                       /\ \E i \in Items : outcome[i] # "failed"
                 /\ verdict = "error" => \A i \in Items : outcome[i] = "failed"
    BY DEF EmptySuccessIsEarned
  <2> DEFINE Failed == {i \in Items : outcome[i] = "failed"}
  <2>1. Failed \in SUBSET Items /\ failCount = Cardinality(Failed)
    BY DEF PoolInv, Accounted
  <2>2. failCount = N <=> Failed = Items
    BY <2>1, ItemsCount, NAssumption
  <2>3. ASSUME verdict = "ok"
        PROVE  \A i \in Items : outcome[i] # "none"
    <3>1. next = N + 1 /\ \A w \in Workers : at[w] = "finished"
      BY <2>3, WorkersAssumption DEF PoolInv, WindsDown
    <3> QED
      BY <3>1, NAssumption DEF PoolInv, Accounted, Items
  <2>4. ASSUME verdict = "ok"
        PROVE  \E i \in Items : outcome[i] # "failed"
    <3>1. Failed # Items
      BY <2>2, <2>4 DEF PoolInv, WindsDown, AllFailed
    <3> QED
      BY <3>1
  <2>5. ASSUME verdict = "error"
        PROVE  \A i \in Items : outcome[i] = "failed"
    <3>1. Failed = Items
      BY <2>2, <2>5 DEF PoolInv, WindsDown, AllFailed
    <3> QED
      BY <3>1
  <2> QED
    BY <2>3, <2>4, <2>5
<1> QED
  BY <1>1, PoolInvariant, PTL

\* The pool looks to its caller the way PoolPromise says, whatever the
\* interleaving of its goroutines.
THEOREM PoolRefinement == Spec => ImplementsPoolPromise
<1>1. Init => Promise!PromiseInit
  BY DEF Init, Promise!PromiseInit
<1>2. PoolInv /\ [Next]_vars
        => [Promise!PromiseNext]_<<groups, verdict>>
  <2> SUFFICES ASSUME PoolInv, [Next]_vars
               PROVE  \/ Promise!PromiseNext
                      \/ UNCHANGED <<groups, verdict>>
    OBVIOUS
  <2>1. ASSUME NEW i \in Items, Receive(i)
        PROVE  Promise!PromiseNext
    <3>1. verdict = "none" /\ i \in Items \ groups
      BY <2>1 DEF PoolInv, WindsDown, EachItemOnce, Receive, TypeOK
    <3> QED
      BY <2>1, <3>1 DEF Receive, Items, Promise!PromiseNext, Promise!FindOne
  <2>2. CASE Return
    <3>1. verdict = "none"
      BY <2>2 DEF PoolInv, WindsDown, Return
    <3>2. CASE AllFailed(failCount, groups)
      <4> DEFINE Failed == {i \in Items : outcome[i] = "failed"}
      <4>0. Failed \in SUBSET Items /\ Cardinality(Failed) = N
        BY <3>2 DEF PoolInv, Accounted, AllFailed
      <4>1. Failed = Items
        BY <4>0, ItemsCount, NAssumption
      <4>2. groups = {}
        BY <4>1 DEF PoolInv, TypeOK, Accounted, Sent
      <4> QED
        BY <2>2, <3>1, <3>2, <4>2 DEF Return, Promise!PromiseNext, Promise!GiveUp
    <3>3. CASE ~ AllFailed(failCount, groups)
      BY <2>2, <3>1, <3>3 DEF Return, Promise!PromiseNext, Promise!Succeed
    <3> QED
      BY <3>2, <3>3
  <2>3. CASE (\E w \in Workers : Work(w)) \/ CloseIn \/ CloseOut \/ Report
             \/ Expire \/ UNCHANGED vars
    BY <2>3 DEF Work, Take, Fail, FindNothing, Find, Send, Finish, CloseIn,
       CloseOut, Report, Expire, vars
  <2> QED
    BY <2>1, <2>2, <2>3 DEF Next, Collect
<1> QED
  BY <1>1, <1>2, PoolInvariant, PTL
     DEF Spec, ImplementsPoolPromise, Promise!PromiseSpec

=============================================================================
