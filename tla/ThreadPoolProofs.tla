-------------------------- MODULE ThreadPoolProofs --------------------------
(***************************************************************************)
(* Proofs about ThreadPool, for any number of workers and any sequence of  *)
(* dispatches.                                                             *)
(***************************************************************************)
EXTENDS ThreadPool, FiniteSetTheorems, SequenceTheorems, TLAPS

(* The bounds of every dispatch are indices.                               *)
LEMMA CallTypes ==
  ASSUME NEW k \in CallIds
  PROVE  Start(k) \in 0..MaxIndex /\ End(k) \in 0..MaxIndex
<1>1. Calls[k] \in [start : 0..MaxIndex, end : 0..MaxIndex]
  BY CallsAssumption, ElementOfSeq DEF CallIds
<1>2. QED
  BY <1>1 DEF Start, End

(* There are finitely many dispatches.                                     *)
LEMMA LenType == Len(Calls) \in Nat /\ MaxIndex \in Nat
BY CallsAssumption, LenProperties

(* nthreads is a positive number.                                          *)
LEMMA NthreadsType == nthreads \in Nat
BY WorkersAssumption, FS_CardinalityType DEF nthreads

(* The fields of the pool and of the threads keep their types.             *)
THEOREM TypeCorrect == Spec => []TypeOK
<1> USE NthreadsType, LenType DEF TypeOK, CallIds, At, CallerAt
<1>1. Init => TypeOK
  <2> SUFFICES ASSUME Init PROVE TypeOK
    OBVIOUS
  <2>1. finished \in [CallIds -> SUBSET (0..MaxIndex)]
    BY DEF Init
  <2>2. pc \in [Workers -> Idle] /\ claimed \in [Workers -> 0..MaxIndex]
        /\ running \in [Workers -> 0..Len(Calls)]
    BY DEF Init, Idle
  <2>3. shutdown \in BOOLEAN
    BY DEF Init
  <2>4. QED
    BY <2>1, <2>2, <2>3 DEF Init, Idle, Storing
<1>2. ASSUME TypeOK, [Next]_vars PROVE TypeOK'
  <2> USE <1>2
  <2>1. ASSUME NEW w \in Workers, Enter(w) PROVE TypeOK'
    BY <2>1 DEF Enter, descriptor, Idle
  <2>2. ASSUME NEW w \in Workers, Claim(w) PROVE TypeOK'
    BY <2>2 DEF Claim, NextIndex
  <2>3. ASSUME NEW w \in Workers, Test(w) PROVE TypeOK'
    BY <2>3 DEF Test, descriptor
  <2>4. ASSUME NEW w \in Workers, BeginWork(w) PROVE TypeOK'
    BY <2>4 DEF BeginWork, descriptor
  <2>5. ASSUME NEW w \in Workers, EndWork(w) PROVE TypeOK'
    <3>1. finished' \in [CallIds -> SUBSET (0..MaxIndex)]
      <4>1. claimed[w] \in 0..MaxIndex
        OBVIOUS
      <4>2. \A k \in CallIds : finished[k] \cup {claimed[w]} \in SUBSET (0..MaxIndex)
        BY <4>1
      <4>3. QED
        BY <2>5, <4>2 DEF EndWork
    <3>2. QED
      BY <2>5, <3>1 DEF EndWork
  <2>6. ASSUME NEW w \in Workers, Report(w) PROVE TypeOK'
    <3>1. pc' \in [Workers -> Idle \cup {"claim", "test", "call", "running", "report"}]
      BY <2>6 DEF Report, Idle
    <3>2. doneCount' \in 0..nthreads
      BY <2>6 DEF Report, NextCount
    <3>3. QED
      BY <2>6, <3>1, <3>2 DEF Report
  <2>7. CASE EmptyCall
    BY <2>7 DEF EmptyCall, descriptor
  <2>8. CASE StoreEnd
    <3>1. call + 1 \in CallIds
      BY <2>8 DEF StoreEnd
    <3>2. QED
      BY <2>8, <3>1, CallTypes DEF StoreEnd, Storing
  <2>9. CASE StoreCurrent
    BY <2>9, CallTypes DEF StoreCurrent, Storing
  <2>10. CASE StoreDoneWork
    BY <2>10, CallTypes DEF StoreDoneWork, Storing
  <2>11. CASE StoreWork
    BY <2>11 DEF StoreWork, Storing
  <2>12. CASE StoreArg
    BY <2>12 DEF StoreArg, Woken, Idle
  <2>13. CASE Check
    BY <2>13 DEF Check
  <2>14. CASE Destroy
    BY <2>14 DEF Destroy, Woken, Idle, Storing
  <2>15. CASE Join
    BY <2>15 DEF Join, descriptor, Storing
  <2>16. CASE SpuriousWakeup
    BY <2>16 DEF SpuriousWakeup, descriptor, Idle
  <2>17. CASE UNCHANGED vars
    BY <2>17 DEF vars
  <2>18. QED
    BY <2>1, <2>2, <2>3, <2>4, <2>5, <2>6, <2>7, <2>8, <2>9, <2>10, <2>11,
       <2>12, <2>13, <2>14, <2>15, <2>16, <2>17
       DEF Next, WorkerStep, CallerStep, Stopped
<1>3. QED
  BY <1>1, <1>2, PTL DEF Spec

-----------------------------------------------------------------------------
(* A set of indices of call k as large as the range is the range: what     *)
(* makes the counter done_work stand for the set of finished iterations.   *)
LEMMA FullCount ==
  ASSUME NEW k \in CallIds, Start(k) < End(k),
         NEW S \in SUBSET Indices(k), Cardinality(S) >= End(k) - Start(k)
  PROVE  S = Indices(k)
<1>1. Start(k) \in Int /\ End(k) \in Int /\ End(k) - 1 \in Int
  BY CallTypes, LenType
<1>2. IsFiniteSet(Indices(k)) /\ Cardinality(Indices(k)) = End(k) - Start(k)
  BY <1>1, FS_Interval DEF Indices
<1>3. Cardinality(S) <= Cardinality(Indices(k)) /\ IsFiniteSet(S)
  BY <1>2, FS_Subset
<1>4. Cardinality(S) = Cardinality(Indices(k))
  BY <1>1, <1>2, <1>3, FS_CardinalityType
<1>5. QED
  BY <1>2, <1>4, FS_Subset

\* The invariant without its types.
SafeInv == WorkInv /\ ClaimInv /\ CountInv /\ RestInv /\ CompleteOnReturn

(* A worker's step preserves the invariant.                                *)
LEMMA WorkerPreserves ==
  ASSUME TypeOK, TypeOK', SafeInv, ~LateClaim', NEW w \in Workers, WorkerStep(w)
  PROVE  SafeInv'
<1> USE LenType DEF TypeOK, SafeInv, CallIds, At, CallerAt
<1>1. CASE Enter(w)
  <2>1. WorkInv' BY <1>1 DEF Enter, descriptor, WorkInv
  <2>2. ClaimInv' BY <1>1 DEF Enter, descriptor, ClaimInv, Pending, Open
  <2>3. CountInv' BY <1>1 DEF Enter, descriptor, CountInv
  <2>4. RestInv' BY <1>1 DEF Enter, descriptor, RestInv
  <2>5. CompleteOnReturn' BY <1>1 DEF Enter, descriptor, CompleteOnReturn, Returned
  <2>6. QED BY <2>1, <2>2, <2>3, <2>4, <2>5
<1>2. CASE Claim(w)
  <2>1. WorkInv' BY <1>2 DEF Claim, WorkInv
  <2>2. ClaimInv'
    <3>1. claimed'[w] = current /\ \A v \in Workers \ {w} :
            claimed'[v] = claimed[v] /\ pc'[v] = pc[v] /\ (Pending(v)' <=> Pending(v))
      BY <1>2 DEF Claim, Pending
    <3>2. pc'[w] = "test" /\ current' >= current /\ (current < end => current' = current + 1)
      BY <1>2 DEF Claim, NextIndex
    <3>3. CASE cpc \in Open
      <4>1. call \in CallIds /\ current \in Nat
        BY <3>3 DEF Open, Storing
      <4>2. Start(call) \in 0..MaxIndex
        BY <4>1, CallTypes
      <4>3. cpc \in Storing => current \notin finished[call]
        BY DEF CountInv
      <4>4. cpc \in {"check", "waiting"} => current \notin finished[call]
        <5>1. CountInv
          OBVIOUS
        <5> HIDE DEF TypeOK, SafeInv
        <5>2. QED BY <4>1, <4>2, <5>1 DEF CountInv
      <4>5. current \notin finished[call]
        BY <3>3, <4>3, <4>4 DEF Open, Storing
      <4>6. QED
        BY SMTT(40), <1>2, <3>1, <3>2, <3>3, <4>1, <4>2, <4>5 DEF Claim, ClaimInv, Pending, Open
    <3>4. CASE cpc \notin Open
      <4>1. ~Pending(w)'
        <5>1. CASE cpc = "current"
          BY <1>2, <5>1 DEF Claim, LateClaim
        <5>2. CASE cpc # "current"
          BY <1>2, <3>1, <3>4, <5>2 DEF Claim, RestInv, Open, Storing, Pending
        <5>3. QED BY <5>1, <5>2
      <4>2. QED
        BY <1>2, <3>1, <3>2, <3>4, <4>1 DEF Claim, ClaimInv, Pending, Open
    <3>5. QED BY <3>3, <3>4
  <2>3. CountInv' BY <1>2, CallTypes DEF Claim, CountInv, NextIndex
  <2>4. RestInv' BY <1>2 DEF Claim, RestInv, NextIndex, Idle
  <2>5. CompleteOnReturn' BY <1>2 DEF Claim, CompleteOnReturn, Returned
  <2>6. QED BY <2>1, <2>2, <2>3, <2>4, <2>5
<1>3. CASE Test(w)
  <2>1. WorkInv' BY <1>3 DEF Test, descriptor, WorkInv
  <2>2. ClaimInv' BY <1>3 DEF Test, descriptor, ClaimInv, Pending, Open
  <2>3. CountInv' BY <1>3 DEF Test, descriptor, CountInv
  <2>4. RestInv' BY <1>3 DEF Test, descriptor, RestInv, Idle
  <2>5. CompleteOnReturn' BY <1>3 DEF Test, descriptor, CompleteOnReturn, Returned
  <2>6. QED BY <2>1, <2>2, <2>3, <2>4, <2>5
<1>4. CASE BeginWork(w)
  <2>1. WorkInv' BY <1>4 DEF BeginWork, descriptor, WorkInv
  <2>2. ClaimInv' BY <1>4 DEF BeginWork, descriptor, ClaimInv, Pending, Open, WorkInv, Storing
  <2>3. CountInv' BY <1>4 DEF BeginWork, descriptor, CountInv
  <2>4. RestInv' BY <1>4 DEF BeginWork, descriptor, RestInv, Idle
  <2>5. CompleteOnReturn' BY <1>4 DEF BeginWork, descriptor, CompleteOnReturn, Returned
  <2>6. QED BY <2>1, <2>2, <2>3, <2>4, <2>5
<1>5. CASE EndWork(w)
  <2>0. /\ running[w] = call /\ call \in CallIds /\ cpc \in {"check", "waiting"}
        /\ finished' = [finished EXCEPT ![call] = @ \cup {claimed[w]}]
        /\ claimed[w] \notin finished[call]
        /\ claimed[w] \in (Start(call)..(current - 1)) \cap Indices(call)
    <3>1. /\ running[w] = call /\ cpc \in {"check", "waiting"} /\ call \in CallIds
          /\ claimed[w] < end /\ claimed[w] \notin finished[call]
          /\ claimed[w] >= Start(call) /\ claimed[w] < current
      BY <1>5 DEF EndWork, ClaimInv, Pending
    <3>2. end = End(call) /\ Start(call) \in 0..MaxIndex /\ End(call) \in 0..MaxIndex
      BY <3>1, CallTypes DEF WorkInv
    <3>3. claimed[w] \in (Start(call)..(current - 1)) \cap Indices(call)
      <4>1. claimed[w] \in Int /\ current \in Int
        OBVIOUS
      <4> HIDE DEF TypeOK, SafeInv
      <4>2. QED BY <3>1, <3>2, <4>1 DEF Indices
    <3>4. QED
      BY <1>5, <3>1, <3>3 DEF EndWork
  <2>1. WorkInv' BY <1>5 DEF EndWork, WorkInv
  <2>2. ClaimInv' BY <1>5, <2>0 DEF EndWork, ClaimInv, Pending, Open
  <2>3. CountInv'
    <3>1. Cardinality(finished[call] \cup {claimed[w]}) = Cardinality(finished[call]) + 1
          /\ Cardinality(finished[call]) \in Nat
      <4>1. IsFiniteSet(finished[call])
        <5>1. finished[call] \in SUBSET (0..MaxIndex)
          BY <2>0
        <5>2. IsFiniteSet(0..MaxIndex)
          BY FS_Interval
        <5>3. QED
          BY <5>1, <5>2, FS_Subset
      <4>2. claimed[w] \notin finished[call]
        BY <2>0
      <4> HIDE DEF TypeOK, SafeInv, CallIds, At, CallerAt
      <4>3. QED
        BY <4>1, <4>2, FS_AddElement, FS_CardinalityType
    <3>2. QED
      BY SMTT(40), <1>5, <2>0, <3>1, CallTypes DEF EndWork, CountInv, Storing
  <2>4. RestInv' BY <1>5 DEF EndWork, RestInv
  <2>5. CompleteOnReturn' BY <1>5, <2>0 DEF EndWork, CompleteOnReturn, Returned
  <2>6. QED BY <2>1, <2>2, <2>3, <2>4, <2>5
<1>6. CASE Report(w)
  <2>1. WorkInv' BY <1>6 DEF Report, WorkInv, Storing
  <2>2. ClaimInv' BY SMTT(40), <1>6 DEF Report, ClaimInv, Pending, Open
  <2>3. CountInv' BY <1>6 DEF Report, CountInv, Storing
  <2>4. RestInv' BY <1>6 DEF Report, RestInv, Idle
  <2>5. CompleteOnReturn' BY <1>6 DEF Report, CompleteOnReturn, Returned
  <2>6. QED BY <2>1, <2>2, <2>3, <2>4, <2>5
<1>7. QED
  BY <1>1, <1>2, <1>3, <1>4, <1>5, <1>6 DEF WorkerStep

(* A step of the caller preserves the invariant, unless the new end makes  *)
(* an old claim valid again.                                               *)
LEMMA CallerPreserves ==
  ASSUME TypeOK, TypeOK', SafeInv, ~LateClaim', CallerStep
  PROVE  SafeInv'
<1> USE LenType DEF TypeOK, SafeInv, CallIds, At, CallerAt
<1>1. CASE EmptyCall
  <2>1. WorkInv' BY <1>1 DEF EmptyCall, descriptor, WorkInv, Storing
  <2>2. ClaimInv' BY <1>1 DEF EmptyCall, descriptor, ClaimInv, Pending, Open
  <2>3. CountInv' BY <1>1 DEF EmptyCall, descriptor, CountInv, Storing
  <2>4. RestInv' BY <1>1 DEF EmptyCall, descriptor, RestInv
  <2>5. CompleteOnReturn'
    <3>1. finished[call + 1] = {} /\ Indices(call + 1) = {}
      <4>1. call + 1 \in CallIds /\ call + 1 > call /\ Start(call + 1) >= End(call + 1)
        BY <1>1 DEF EmptyCall
      <4>2. \A k \in CallIds : k > call => finished[k] = {}
        BY DEF CountInv
      <4> HIDE DEF TypeOK, SafeInv, CallIds, At, CallerAt
      <4>3. Start(call + 1) \in Int /\ End(call + 1) \in Int
        BY <4>1, CallTypes, LenType
      <4>4. QED
        BY <4>1, <4>2, <4>3 DEF Indices
    <3>2. \A k \in CallIds : Returned(k)' => Returned(k) \/ k = call + 1
      BY <1>1 DEF EmptyCall, Returned
    <3>3. finished' = finished /\ CompleteOnReturn
      BY <1>1 DEF EmptyCall
    <3> HIDE DEF TypeOK, SafeInv
    <3>4. QED
      BY <3>1, <3>2, <3>3 DEF CompleteOnReturn
  <2>6. QED BY <2>1, <2>2, <2>3, <2>4, <2>5
<1>2. CASE StoreEnd
  <2>0. call + 1 \in CallIds /\ end' = End(call + 1) /\ end' \in 0..MaxIndex
    BY <1>2 DEF StoreEnd
  <2>1. WorkInv' BY <1>2, <2>0 DEF StoreEnd, WorkInv, Storing
  <2>2. ClaimInv'
    <3>1. \A w \in Workers : ~Pending(w) /\ pc[w] \notin {"call", "running"} /\ running[w] = 0
      BY <1>2 DEF StoreEnd, ClaimInv, Open
    <3>2. \A w \in Workers : ~Pending(w)'
      BY <1>2 DEF StoreEnd, LateClaim
    <3>3. QED
      BY <1>2, <3>1, <3>2 DEF StoreEnd, ClaimInv, Open
  <2>3. CountInv' BY <1>2, <2>0 DEF StoreEnd, CountInv, Storing
  <2>4. RestInv' BY <1>2, <2>0 DEF StoreEnd, RestInv
  <2>5. CompleteOnReturn' BY <1>2 DEF StoreEnd, CompleteOnReturn, Returned
  <2>6. QED BY <2>1, <2>2, <2>3, <2>4, <2>5
<1>3. CASE StoreCurrent
  <2>1. WorkInv' BY <1>3 DEF StoreCurrent, WorkInv, Storing
  <2>2. ClaimInv' BY <1>3, CallTypes DEF StoreCurrent, ClaimInv, Pending, Open
  <2>3. CountInv' BY <1>3 DEF StoreCurrent, CountInv, Storing
  <2>4. RestInv' BY <1>3 DEF StoreCurrent, RestInv
  <2>5. CompleteOnReturn' BY <1>3 DEF StoreCurrent, CompleteOnReturn, Returned
  <2>6. QED BY <2>1, <2>2, <2>3, <2>4, <2>5
<1>4. CASE StoreDoneWork
  <2>1. WorkInv' BY <1>4 DEF StoreDoneWork, WorkInv, Storing
  <2>2. ClaimInv' BY <1>4 DEF StoreDoneWork, ClaimInv, Pending, Open
  <2>3. CountInv'
    <3>1. call \in CallIds /\ CountInv /\ cpc = "done_work"
      BY <1>4 DEF StoreDoneWork, Storing
    <3>2. Start(call) \in 0..MaxIndex /\ finished[call] = {} /\ Cardinality({}) = 0
      BY <3>1, CallTypes, FS_EmptySet DEF CountInv, Storing
    <3> HIDE DEF TypeOK, SafeInv
    <3>3. QED
      BY <1>4, <3>1, <3>2 DEF StoreDoneWork, CountInv, Storing
  <2>4. RestInv' BY <1>4 DEF StoreDoneWork, RestInv
  <2>5. CompleteOnReturn' BY <1>4 DEF StoreDoneWork, CompleteOnReturn, Returned
  <2>6. QED BY <2>1, <2>2, <2>3, <2>4, <2>5
<1>5. CASE StoreWork
  <2>1. WorkInv' BY <1>5 DEF StoreWork, WorkInv, Storing
  <2>2. ClaimInv' BY <1>5 DEF StoreWork, ClaimInv, Pending, Open
  <2>3. CountInv' BY <1>5 DEF StoreWork, CountInv, Storing
  <2>4. RestInv' BY <1>5 DEF StoreWork, RestInv
  <2>5. CompleteOnReturn' BY <1>5 DEF StoreWork, CompleteOnReturn, Returned
  <2>6. QED BY <2>1, <2>2, <2>3, <2>4, <2>5
<1>6. CASE StoreArg
  <2>1. WorkInv' BY <1>6 DEF StoreArg, WorkInv, Storing
  <2>2. ClaimInv' BY <1>6 DEF StoreArg, Woken, ClaimInv, Pending, Open
  <2>3. CountInv' BY <1>6, CallTypes DEF StoreArg, CountInv, Storing
  <2>4. RestInv' BY <1>6 DEF StoreArg, RestInv
  <2>5. CompleteOnReturn' BY <1>6 DEF StoreArg, CompleteOnReturn, Returned
  <2>6. QED BY <2>1, <2>2, <2>3, <2>4, <2>5
<1>7. CASE Check
  <2>1. CASE cpc' = "waiting"
    <3>1. WorkInv' BY <1>7, <2>1 DEF Check, WorkInv, Storing
    <3>2. ClaimInv' BY <1>7, <2>1 DEF Check, ClaimInv, Pending, Open
    <3>3. CountInv' BY <1>7, <2>1 DEF Check, CountInv, Storing
    <3>4. RestInv' BY <1>7, <2>1 DEF Check, RestInv
    <3>5. CompleteOnReturn' BY <1>7, <2>1 DEF Check, CompleteOnReturn, Returned
    <3>6. QED BY <3>1, <3>2, <3>3, <3>4, <3>5
  <2>2. CASE cpc' = "idle" /\ work' = 0 /\ doneWork >= End(call)
    <3>0. /\ call \in CallIds /\ Start(call) < End(call) /\ end = End(call)
          /\ Start(call) \in 0..MaxIndex /\ End(call) \in 0..MaxIndex
      BY <1>7, CallTypes DEF Check, WorkInv
    <3>1. finished[call] = Indices(call)
      <4>1. finished[call] \in SUBSET Indices(call)
            /\ doneWork = Start(call) + Cardinality(finished[call])
        BY <1>7 DEF Check, CountInv
      <4>2. Cardinality(finished[call]) \in Nat
        <5> HIDE DEF TypeOK, SafeInv, CallIds
        <5>0. Start(call) \in Int /\ End(call) - 1 \in Int
          BY <3>0
        <5>1. IsFiniteSet(Indices(call))
          BY <5>0, FS_Interval DEF Indices
        <5>2. QED
          BY <4>1, <5>1, FS_Subset, FS_CardinalityType
      <4>3. Cardinality(finished[call]) >= End(call) - Start(call)
        <5> HIDE DEF TypeOK, SafeInv
        <5>1. QED BY <2>2, <3>0, <4>1, <4>2
      <4> HIDE DEF TypeOK, SafeInv
      <4>4. QED
        BY <3>0, <4>1, <4>3, FullCount
    <3>2. current >= end
      <4>1. End(call) - 1 \in finished[call]
        <5> HIDE DEF TypeOK, SafeInv
        <5>1. QED BY <3>0, <3>1 DEF Indices
      <4>2. QED
        BY <1>7, <3>0, <4>1 DEF Check, CountInv
    <3>3. \A w \in Workers : ~Pending(w)
      <4>1. ClaimInv /\ claimed \in [Workers -> 0..MaxIndex]
        OBVIOUS
      <4> HIDE DEF TypeOK, SafeInv
      <4>2. QED BY <3>0, <3>1, <4>1 DEF ClaimInv, Pending, Indices
    <3>4. WorkInv' BY <1>7, <2>2 DEF Check, WorkInv, Storing
    <3>5. ClaimInv' BY <1>7, <2>2, <3>3 DEF Check, ClaimInv, Pending, Open
    <3>6. CountInv' BY <1>7, <2>2 DEF Check, CountInv, Storing
    <3>7. RestInv' BY <1>7, <2>2, <3>0, <3>2 DEF Check, RestInv
    <3>8. CompleteOnReturn' BY <1>7, <2>2, <3>1 DEF Check, CompleteOnReturn, Returned
    <3>9. QED BY <3>4, <3>5, <3>6, <3>7, <3>8
  <2>3. QED
    <3>1. call \in CallIds /\ End(call) \in 0..MaxIndex
      BY <1>7, CallTypes DEF Check
    <3>2. QED
      BY <1>7, <2>1, <2>2, <3>1 DEF Check
<1>8. CASE Destroy
  <2>1. WorkInv' BY <1>8 DEF Destroy, WorkInv, Storing
  <2>2. ClaimInv' BY <1>8 DEF Destroy, Woken, ClaimInv, Pending, Open
  <2>3. CountInv' BY <1>8 DEF Destroy, CountInv, Storing
  <2>4. RestInv' BY <1>8 DEF Destroy, Woken, RestInv, Idle
  <2>5. CompleteOnReturn' BY <1>8 DEF Destroy, CompleteOnReturn, Returned
  <2>6. QED BY <2>1, <2>2, <2>3, <2>4, <2>5
<1>9. CASE Join
  <2>1. WorkInv' BY <1>9 DEF Join, descriptor, WorkInv, Storing
  <2>2. ClaimInv' BY <1>9 DEF Join, descriptor, ClaimInv, Pending, Open
  <2>3. CountInv' BY <1>9 DEF Join, descriptor, CountInv, Storing
  <2>4. RestInv' BY <1>9 DEF Join, descriptor, RestInv
  <2>5. CompleteOnReturn' BY <1>9 DEF Join, descriptor, CompleteOnReturn, Returned
  <2>6. QED BY <2>1, <2>2, <2>3, <2>4, <2>5
<1>10. QED
  BY <1>1, <1>2, <1>3, <1>4, <1>5, <1>6, <1>7, <1>8, <1>9 DEF CallerStep

(* A spurious wakeup preserves the invariant: both waits are loops.        *)
LEMMA WakeupPreserves ==
  ASSUME TypeOK, TypeOK', SafeInv, SpuriousWakeup
  PROVE  SafeInv'
<1> USE DEF TypeOK, SafeInv
<1>1. WorkInv' BY DEF SpuriousWakeup, descriptor, WorkInv, Storing
<1>2. ClaimInv' BY DEF SpuriousWakeup, descriptor, ClaimInv, Pending, Open
<1>3. CountInv' BY DEF SpuriousWakeup, descriptor, CountInv, Storing
<1>4. RestInv' BY DEF SpuriousWakeup, descriptor, RestInv, Idle
<1>5. CompleteOnReturn' BY DEF SpuriousWakeup, descriptor, CompleteOnReturn, Returned
<1>6. QED BY <1>1, <1>2, <1>3, <1>4, <1>5

(* For every sequence of dispatches the invariant holds as long as no      *)
(* claim is late.                                                          *)
THEOREM PoolInvariant == Spec /\ []~LateClaim => []PoolInv
<1>1. Init => SafeInv
  <2> SUFFICES ASSUME Init PROVE SafeInv
    OBVIOUS
  <2> USE LenType DEF Init, CallIds
  <2>1. WorkInv BY DEF WorkInv, Storing
  <2>2. ClaimInv BY DEF ClaimInv, Pending, Open
  <2>3. CountInv BY DEF CountInv, Storing
  <2>4. RestInv BY DEF RestInv
  <2>5. CompleteOnReturn BY DEF CompleteOnReturn, Returned
  <2>6. QED BY <2>1, <2>2, <2>3, <2>4, <2>5 DEF SafeInv
<1>2. TypeOK /\ TypeOK' /\ ~LateClaim' /\ SafeInv /\ [Next]_vars => SafeInv'
  <2> SUFFICES ASSUME TypeOK, TypeOK', ~LateClaim', SafeInv, [Next]_vars PROVE SafeInv'
    OBVIOUS
  <2>1. CASE UNCHANGED vars
    BY <2>1 DEF vars, SafeInv, WorkInv, ClaimInv, CountInv, RestInv,
      CompleteOnReturn, Returned, Pending
  <2>2. QED
    BY <2>1, WorkerPreserves, CallerPreserves, WakeupPreserves DEF Next, Stopped
<1>3. TypeOK /\ SafeInv => PoolInv
  BY DEF PoolInv, SafeInv
<1>4. QED
  BY <1>1, <1>2, <1>3, TypeCorrect, PTL DEF Spec

(* Loops of any lengths, dispatched in any order: "The caller blocks until *)
(* all iterations complete", no iteration is run twice, and no callback    *)
(* outlives its dispatch, as long as no claim is late.  A late claim is    *)
(* what the run pool_growing finds; this says that nothing else can break  *)
(* the pool.                                                               *)
THEOREM OnlyLateClaimsBreak ==
  Spec /\ []~LateClaim =>
    []NoRepeatedIteration /\ []CompleteOnReturn /\ []NoCallbackAfterReturn
<1>1. PoolInv => CompleteOnReturn /\ NoRepeatedIteration /\ NoCallbackAfterReturn
  <2> SUFFICES ASSUME PoolInv
               PROVE  CompleteOnReturn /\ NoRepeatedIteration /\ NoCallbackAfterReturn
    OBVIOUS
  <2> USE LenType DEF PoolInv, TypeOK, ClaimInv, Pending
  <2>1. NoRepeatedIteration
    BY DEF NoRepeatedIteration
  <2>2. NoCallbackAfterReturn
    BY DEF NoCallbackAfterReturn, Returned
  <2>3. QED BY <2>1, <2>2
<1>2. QED
  BY <1>1, PoolInvariant, PTL
=============================================================================
