------------------------- MODULE QMIClientMemProofs -------------------------
(***************************************************************************)
(* Theorems about QMIClientMem, for any set of readers, any transaction    *)
(* IDs and any number of responses.                                        *)
(***************************************************************************)
EXTENDS QMIClientMem, SequenceTheorems, TLAPS

(* list_del of the element at position i: one element fewer, the others in *)
(* their order. *)
LEMMA RemoveAtLemma ==
    ASSUME NEW S, NEW s \in Seq(S), NEW i \in 1..Len(s)
    PROVE  /\ RemoveAt(s, i) \in Seq(S)
           /\ Len(RemoveAt(s, i)) = Len(s) - 1
           /\ \A j \in 1..(Len(s) - 1) :
                 RemoveAt(s, i)[j] = IF j < i THEN s[j] ELSE s[j + 1]
<1>. DEFINE left  == SubSeq(s, 1, i - 1)
             right == SubSeq(s, i + 1, Len(s))
<1>1. /\ left \in Seq(S)
      /\ Len(left) = i - 1
      /\ \A j \in 1..(i - 1) : left[j] = s[j]
  BY ElementOfSeq, LenProperties, SubSeqProperties
<1>2. /\ right \in Seq(S)
      /\ Len(right) = Len(s) - i
      /\ \A j \in 1..(Len(s) - i) : right[j] = s[j + i]
  BY ElementOfSeq, LenProperties, SubSeqProperties
<1>. HIDE DEF left, right
<1>3. /\ left \o right \in Seq(S)
      /\ Len(left \o right) = Len(s) - 1
      /\ \A j \in 1..(Len(s) - 1) :
            (left \o right)[j] = IF j < i THEN s[j] ELSE s[j + 1]
  <2>1. /\ left \o right \in Seq(S)
        /\ Len(left \o right) = Len(left) + Len(right)
        /\ \A j \in 1..(Len(left) + Len(right)) :
              (left \o right)[j] =
                 IF j <= Len(left) THEN left[j] ELSE right[j - Len(left)]
    BY <1>1, <1>2, ConcatProperties
  <2>2. Len(s) \in Nat
    BY LenProperties
  <2>3. ASSUME NEW j \in 1..(Len(s) - 1)
        PROVE  (left \o right)[j] = IF j < i THEN s[j] ELSE s[j + 1]
    <3>1. CASE j < i
      BY <1>1, <1>2, <2>1, <2>2, <3>1
    <3>2. CASE j >= i
      <4>1. (left \o right)[j] = right[j - (i - 1)]
        BY <1>1, <1>2, <2>1, <2>2, <3>2
      <4>2. right[j - (i - 1)] = s[j - (i - 1) + i]
        BY <1>2, <2>2, <3>2
      <4>3. QED
        BY <4>1, <4>2, <3>2
    <3>3. j < i \/ j >= i
      BY <2>2
    <3>4. QED
      BY <3>1, <3>2, <3>3
  <2>4. QED
    BY <1>1, <1>2, <2>1, <2>2, <2>3
<1>4. QED
  BY <1>3 DEF RemoveAt, left, right

(* Every waiter of a well-typed notify list is a reader. *)
LEMMA WaiterIsReader ==
    ASSUME mReadNotifyList \in Seq(Entries)
    PROVE  \A i \in 1..Len(mReadNotifyList) :
              mReadNotifyList[i].who \in Readers
<1>1. ASSUME NEW i \in 1..Len(mReadNotifyList)
      PROVE  mReadNotifyList[i] \in Entries
  BY ElementOfSeq
<1>2. QED
  BY <1>1 DEF Entries

(* A returning call leaves the readers well-typed. *)
LEMMA ReturnTyped ==
    ASSUME TypeOK, NEW r \in Readers, Return(r)
    PROVE  /\ pc' \in [Readers ->
                         {"idle", "pop", "add", "wait", "check", "remove"}]
           /\ tx' \in [Readers -> TxIds]
           /\ readSem' \in [Readers -> Nat]
<1>1. 0 \in TxIds
  BY TxIdsAssumption
<1>2. QED
  BY <1>1 DEF Return, TypeOK

(* Type correctness of the client's store. *)
THEOREM TypeCorrect == Spec => []TypeOK
<1>. USE ReadersAssumption, TxIdsAssumption, MaxResponsesAssumption
<1>1. Init => TypeOK
  BY DEF Init, TypeOK, Slots
<1>2. TypeOK /\ [Next]_vars => TypeOK'
  <2>. SUFFICES ASSUME TypeOK, [Next]_vars
                PROVE  TypeOK'
    OBVIOUS
  <2>. USE DEF TypeOK
  <2>1. ASSUME NEW r \in Readers, NEW t \in TxIds, ReadSync(r, t)
        PROVE  TypeOK'
    BY <2>1 DEF ReadSync, storeVars
  <2>2. ASSUME NEW r \in Readers, NEW i \in 1..Len(mList),
               PopFromReadMemList(r, i)
        PROVE  TypeOK'
    <3>1. mList' \in Seq(Responses)
      BY <2>2, RemoveAtLemma DEF PopFromReadMemList
    <3>2. got' \in [Readers -> Responses \cup {NONE}]
      BY <2>2 DEF PopFromReadMemList
    <3>3. QED
      BY <2>2, <3>1, <3>2 DEF Return, PopFromReadMemList
  <2>3. ASSUME NEW r \in Readers, PopNothing(r)
        PROVE  TypeOK'
    BY <2>3 DEF PopNothing, storeVars
  <2>4. ASSUME NEW r \in Readers, AddToNotifyList(r)
        PROVE  TypeOK'
    <3>1. mReadNotifyList' \in Seq(Entries)
      <4>1. [tx |-> tx[r], who |-> r] \in Entries
        BY DEF Entries
      <4>2. Append(mReadNotifyList, [tx |-> tx[r], who |-> r]) \in Seq(Entries)
        BY <4>1, AppendProperties
      <4>3. QED
        BY <2>4, <4>2 DEF AddToNotifyList
    <3>2. CASE mbQMIValid /\ listed
      BY <2>4, <3>1, <3>2 DEF AddToNotifyList
    <3>3. CASE ~(mbQMIValid /\ listed)
      BY <2>4, <3>1, <3>3, ReturnTyped DEF AddToNotifyList
    <3>4. QED
      BY <3>2, <3>3
  <2>5. ASSUME NEW r \in Readers, Down(r)
        PROVE  TypeOK'
    BY <2>5 DEF Down, storeVars
  <2>6. ASSUME NEW r \in Readers, Recheck(r) \/ Interrupted(r)
        PROVE  TypeOK'
    <3>1. CASE Recheck(r) /\ ~mbQMIValid
      BY <3>1, ReturnTyped DEF Recheck, storeVars
    <3>2. CASE Recheck(r) /\ mbQMIValid
      BY <3>2 DEF Recheck, storeVars
    <3>3. CASE Interrupted(r)
      BY <3>3 DEF Interrupted, storeVars
    <3>4. QED
      BY <2>6, <3>1, <3>2, <3>3
  <2>7. ASSUME NEW r \in Readers, RemoveOwnEntry(r)
        PROVE  TypeOK'
    <3>1. mReadNotifyList' \in Seq(Entries)
      BY <2>7, RemoveAtLemma DEF RemoveOwnEntry, OwnEntries
    <3>2. QED
      BY <2>7, <3>1 DEF Return, RemoveOwnEntry
  <2>8. ASSUME NEW t \in TxIds, ReadCallback(t)
        PROVE  TypeOK'
    BY <2>8 DEF ReadCallback, Slots, Responses, storeVars, readerVars
  <2>9. CASE AddToReadMemList
    <3>1. cb.msg \in Responses
      BY <2>9 DEF AddToReadMemList
    <3>2. Append(mList, cb.msg) \in Seq(Responses)
      BY <3>1, AppendProperties
    <3>3. mList' \in Seq(Responses)
      BY <2>9, <3>2 DEF AddToReadMemList
    <3>4. /\ [cb EXCEPT !.pc = "notify"] \in Slots
          /\ [cb EXCEPT !.pc = "notify"].msg = cb.msg
          /\ [cb EXCEPT !.pc = "notify"].pc = "notify"
          /\ Idle \in Slots /\ Idle.pc = "idle"
      BY DEF Idle, Slots
    <3>5. /\ cb' \in Slots
          /\ cb'.pc \in {"add", "notify", "call"} => cb'.msg \in Responses
          /\ cb'.pc = "call" => cb'.who \in Readers
      BY <2>9, <3>1, <3>4 DEF AddToReadMemList
    <3>6. QED
      BY <2>9, <3>3, <3>5 DEF AddToReadMemList, readerVars
  <2>10. CASE CallbackNotify
    <3>1. CASE NothingToNotify(cb.msg.tx) /\ cb' = Idle
               /\ UNCHANGED mReadNotifyList
      <4>1. Idle \in Slots /\ Idle.pc = "idle"
        BY DEF Idle, Slots
      <4>2. QED
        BY <2>10, <3>1, <4>1 DEF CallbackNotify, readerVars
    <3>2. ASSUME NEW i \in 1..Len(mReadNotifyList),
                 NotifyAndPop(cb.msg.tx, i),
                 cb' = [cb EXCEPT !.pc = "call",
                                  !.who = mReadNotifyList[i].who]
          PROVE  TypeOK'
      <4>1. mReadNotifyList' \in Seq(Entries)
        BY <3>2, RemoveAtLemma DEF NotifyAndPop
      <4>2. mReadNotifyList[i].who \in Readers
        BY WaiterIsReader
      <4>3. cb' \in Slots /\ cb'.msg = cb.msg /\ cb'.who \in Readers
        BY <3>2, <4>2 DEF Slots
      <4>4. cb.msg \in Responses
        BY <2>10 DEF CallbackNotify
      <4>5. QED
        BY <2>10, <4>1, <4>3, <4>4 DEF CallbackNotify, readerVars
    <3>3. QED
      BY <2>10, <3>1, <3>2 DEF CallbackNotify
  <2>11. CASE CallbackUp
    BY <2>11 DEF CallbackUp, UpSem, Idle, Slots, storeVars
  <2>12. CASE ReleaseClientID
    BY <2>12 DEF ReleaseClientID, storeVars, readerVars
  <2>13. CASE ReleaseNotify
    <3>1. mReadNotifyList' \in Seq(Entries)
      BY <2>13, RemoveAtLemma DEF ReleaseNotify, NotifyAndPop
    <3>2. \A i \in 1..Len(mReadNotifyList) :
             mReadNotifyList[i].who \in Readers
      BY WaiterIsReader
    <3>3. /\ rel' \in [pc : {"idle", "notify", "call", "drain", "del", "done"},
                        who : Readers \cup {NONE}]
          /\ rel'.pc = "call" => rel'.who \in Readers
      <4>1. CASE rel' = [rel EXCEPT !.pc = "drain"]
        BY <4>1
      <4>2. CASE \E i \in 1..Len(mReadNotifyList) :
                    rel' = [pc |-> "call", who |-> mReadNotifyList[i].who]
        BY <3>2, <4>2
      <4>3. QED
        BY <2>13, <4>1, <4>2 DEF ReleaseNotify
    <3>4. QED
      BY <2>13, <3>1, <3>3 DEF ReleaseNotify, readerVars
  <2>14. CASE ReleaseUp
    BY <2>14 DEF ReleaseUp, UpSem, storeVars
  <2>15. CASE ReleaseDrain
    <3>1. mList' \in Seq(Responses)
      <4>1. mList # << >> => Tail(mList) \in Seq(Responses)
        BY HeadTailProperties
      <4>2. QED
        BY <2>15, <4>1 DEF ReleaseDrain
    <3>2. QED
      BY <2>15, <3>1 DEF ReleaseDrain, readerVars
  <2>16. CASE ReleaseDelete \/ Invalidate
    <3>1. mList' \in Seq(Responses) /\ mReadNotifyList' \in Seq(Entries)
      <4>1. << >> \in Seq(Responses) /\ << >> \in Seq(Entries)
        BY EmptySeq
      <4>2. QED
        BY <2>16, <4>1 DEF ReleaseDelete, Invalidate
    <3>2. QED
      BY <2>16, <3>1 DEF ReleaseDelete, Invalidate, readerVars
  <2>17. CASE UNCHANGED vars
    BY <2>17 DEF vars, storeVars, readerVars
  <2>18. QED
    BY <2>1, <2>2, <2>3, <2>4, <2>5, <2>6, <2>7, <2>8, <2>9, <2>10, <2>11,
       <2>12, <2>13, <2>14, <2>15, <2>16, <2>17
       DEF Next, TxIds, Continue, Callback, Release
<1>3. QED
  BY <1>1, <1>2, PTL DEF Spec

-----------------------------------------------------------------------------
(* Each element left by list_del stood at another position before, two     *)
(* elements at two positions, and no other element is lost.                *)
LEMMA RemoveAtOrigin ==
    ASSUME NEW S, NEW s \in Seq(S), NEW i \in 1..Len(s)
    PROVE  /\ \A j \in 1..Len(RemoveAt(s, i)) :
                 LET k == IF j < i THEN j ELSE j + 1
                 IN  k \in 1..Len(s) /\ k # i /\ RemoveAt(s, i)[j] = s[k]
           /\ \A k \in 1..Len(s) :
                 k # i => \E j \in 1..Len(RemoveAt(s, i)) :
                              RemoveAt(s, i)[j] = s[k]
<1>1. Len(s) \in Nat /\ Len(RemoveAt(s, i)) = Len(s) - 1
  BY RemoveAtLemma, LenProperties
<1>2. \A j \in 1..(Len(s) - 1) :
         RemoveAt(s, i)[j] = IF j < i THEN s[j] ELSE s[j + 1]
  BY RemoveAtLemma
<1>3. ASSUME NEW k \in 1..Len(s), k # i
      PROVE  \E j \in 1..Len(RemoveAt(s, i)) : RemoveAt(s, i)[j] = s[k]
  <2>1. CASE k < i
    <3>1. k \in 1..(Len(s) - 1) /\ RemoveAt(s, i)[k] = s[k]
      BY <1>1, <1>2, <1>3, <2>1
    <3>2. QED
      BY <1>1, <3>1
  <2>2. CASE k > i
    <3>1. k - 1 \in 1..(Len(s) - 1) /\ ~(k - 1 < i) /\ k - 1 + 1 = k
      BY <1>1, <1>3, <2>2
    <3>2. RemoveAt(s, i)[k - 1] = s[k]
      BY <1>2, <3>1
    <3>3. QED
      BY <1>1, <3>1, <3>2
  <2>3. QED
    BY <1>1, <1>3, <2>1, <2>2
<1>4. ASSUME NEW j \in 1..Len(RemoveAt(s, i))
      PROVE  LET k == IF j < i THEN j ELSE j + 1
             IN  k \in 1..Len(s) /\ k # i /\ RemoveAt(s, i)[j] = s[k]
  <2>1. j \in 1..(Len(s) - 1)
    BY <1>1
  <2>2. RemoveAt(s, i)[j] = IF j < i THEN s[j] ELSE s[j + 1]
    BY <1>2, <2>1
  <2>3. CASE j < i
    <3>1. j \in 1..Len(s) /\ j # i /\ RemoveAt(s, i)[j] = s[j]
      BY <1>1, <2>1, <2>2, <2>3
    <3>2. QED
      BY <2>3, <3>1
  <2>4. CASE ~(j < i)
    <3>1. j + 1 \in 1..Len(s) /\ j + 1 # i /\ RemoveAt(s, i)[j] = s[j + 1]
      BY <1>1, <2>1, <2>2, <2>4
    <3>2. QED
      BY <2>4, <3>1
  <2>5. QED
    BY <2>3, <2>4
<1>5. QED
  BY <1>3, <1>4

(* What unlinking entry i does to the waiters: the others stay, each still *)
(* once, and if all waiters were distinct the unlinked one is gone.        *)
LEMMA UnlinkWaiter ==
    ASSUME mReadNotifyList \in Seq(Entries),
           NEW i \in 1..Len(mReadNotifyList)
    PROVE  LET l == RemoveAt(mReadNotifyList, i) IN
           /\ \A j \in 1..Len(l) :
                 \E k \in 1..Len(mReadNotifyList) :
                    k # i /\ l[j] = mReadNotifyList[k]
           /\ \A k \in 1..Len(mReadNotifyList) :
                 k # i => \E j \in 1..Len(l) : l[j] = mReadNotifyList[k]
           /\ (\A m, n \in 1..Len(mReadNotifyList) :
                 mReadNotifyList[m].who = mReadNotifyList[n].who => m = n)
              => /\ \A m, n \in 1..Len(l) : l[m].who = l[n].who => m = n
                 /\ \A j \in 1..Len(l) : l[j].who # mReadNotifyList[i].who
<1>. DEFINE l == RemoveAt(mReadNotifyList, i)
             K(j) == IF j < i THEN j ELSE j + 1
<1>1. /\ \A j \in 1..Len(l) : /\ K(j) \in 1..Len(mReadNotifyList)
                               /\ K(j) # i
                               /\ l[j] = mReadNotifyList[K(j)]
      /\ \A k \in 1..Len(mReadNotifyList) :
            k # i => \E j \in 1..Len(l) : l[j] = mReadNotifyList[k]
  BY RemoveAtOrigin
<1>2. Len(l) \in Nat
  BY RemoveAtLemma, LenProperties
<1>3. \A m, n \in 1..Len(l) : K(m) = K(n) => m = n
  BY <1>2
<1>. HIDE DEF K, l
<1>4. ASSUME \A m, n \in 1..Len(mReadNotifyList) :
                mReadNotifyList[m].who = mReadNotifyList[n].who => m = n
      PROVE  /\ \A m, n \in 1..Len(l) : l[m].who = l[n].who => m = n
             /\ \A j \in 1..Len(l) : l[j].who # mReadNotifyList[i].who
  <2>1. ASSUME NEW m \in 1..Len(l), NEW n \in 1..Len(l), l[m].who = l[n].who
        PROVE  m = n
    <3>1. K(m) = K(n)
      BY <1>1, <1>4, <2>1
    <3>2. QED
      BY <1>3, <3>1
  <2>2. ASSUME NEW j \in 1..Len(l), l[j].who = mReadNotifyList[i].who
        PROVE  FALSE
    BY <1>1, <1>4, <2>2
  <2>3. QED
    BY <2>1, <2>2
<1>5. QED
  BY <1>1, <1>4 DEF l

-----------------------------------------------------------------------------
(* A sleeping reader of a live client is always within reach of a          *)
(* notifier, whether or not sleeps are interrupted: NotifyAndPop runs the  *)
(* function of each entry it unlinks, and the clean-up of an interrupted   *)
(* thread unlinks no other thread's entry.                                 *)
THEOREM NoOrphan == Spec => []NoOrphanWaiter
<1>1. Init => NoOrphanWaiter
  BY DEF Init, NoOrphanWaiter, Asleep
<1>2. TypeOK /\ NoOrphanWaiter /\ [Next]_vars => NoOrphanWaiter'
  <2>. SUFFICES ASSUME TypeOK, NoOrphanWaiter, [Next]_vars,
                       mbQMIValid', listed',
                       NEW q \in Readers, Asleep(q)'
                PROVE  Reachable(q)'
    BY DEF NoOrphanWaiter
  <2>0. /\ mbQMIValid \in BOOLEAN /\ listed \in BOOLEAN
        /\ mReadNotifyList \in Seq(Entries)
        /\ pc \in [Readers -> {"idle", "pop", "add", "wait", "check", "remove"}]
        /\ readSem \in [Readers -> Nat]
        /\ tx \in [Readers -> TxIds]
    BY DEF TypeOK
  <2>1. ASSUME Asleep(q), mbQMIValid, listed
        PROVE  Reachable(q)
    BY <2>1 DEF NoOrphanWaiter
  <2>2. ASSUME NEW r \in Readers, NEW t \in TxIds, ReadSync(r, t)
        PROVE  Reachable(q)'
    BY <2>0, <2>1, <2>2 DEF ReadSync, storeVars, Asleep, Reachable
  <2>3. ASSUME NEW r \in Readers, NEW i \in 1..Len(mList),
               PopFromReadMemList(r, i)
        PROVE  Reachable(q)'
    BY <2>0, <2>1, <2>3 DEF Return, PopFromReadMemList, Asleep, Reachable
  <2>4. ASSUME NEW r \in Readers, PopNothing(r)
        PROVE  Reachable(q)'
    BY <2>0, <2>1, <2>4 DEF PopNothing, storeVars, Asleep, Reachable
  <2>5. ASSUME NEW r \in Readers, AddToNotifyList(r)
        PROVE  Reachable(q)'
    <3>. DEFINE e == [tx |-> tx[r], who |-> r]
    <3>1. CASE mbQMIValid /\ listed
      <4>1. /\ mReadNotifyList' = Append(mReadNotifyList, e)
            /\ pc' = [pc EXCEPT ![r] = "wait"]
            /\ UNCHANGED <<readSem, cb, rel>>
        BY <2>5, <3>1 DEF AddToNotifyList
      <4>2. e \in Entries /\ Len(mReadNotifyList) \in Nat
        BY <2>0, LenProperties DEF Entries
      <4>3. /\ Len(mReadNotifyList') = Len(mReadNotifyList) + 1
            /\ \A j \in 1..Len(mReadNotifyList) :
                  mReadNotifyList'[j] = mReadNotifyList[j]
            /\ mReadNotifyList'[Len(mReadNotifyList) + 1] = e
        BY <2>0, <4>1, <4>2, AppendProperties
      <4>4. CASE q = r
        <5>1. mReadNotifyList'[Len(mReadNotifyList) + 1].who = q
          BY <4>3, <4>4
        <5>2. QED
          BY <4>2, <4>3, <5>1 DEF Reachable
      <4>5. CASE q # r
        <5>1. Reachable(q)
          BY <2>0, <2>1, <3>1, <4>1, <4>5 DEF Asleep
        <5>2. QED
          BY <4>1, <4>2, <4>3, <5>1 DEF Reachable
      <4>6. QED
        BY <4>4, <4>5
    <3>2. CASE ~(mbQMIValid /\ listed)
      BY <2>5, <3>2 DEF AddToNotifyList
    <3>3. QED
      BY <3>1, <3>2
  <2>6. ASSUME NEW r \in Readers, Down(r) \/ Recheck(r) \/ Interrupted(r)
        PROVE  Reachable(q)'
    <3>1. Asleep(q)
      BY <2>0, <2>6 DEF Return, Down, Recheck, Interrupted, Asleep
    <3>2. Reachable(q)
      BY <2>1, <2>6, <3>1 DEF Down, Recheck, Interrupted, storeVars
    <3>3. QED
      BY <2>6, <3>2 DEF Down, Recheck, Interrupted, storeVars, Reachable
  <2>7. ASSUME NEW r \in Readers, RemoveOwnEntry(r)
        PROVE  Reachable(q)'
    <3>1. q # r /\ Reachable(q)
      BY <2>0, <2>1, <2>7 DEF Return, RemoveOwnEntry, Asleep
    <3>2. CASE UNCHANGED mReadNotifyList
      BY <2>7, <3>1, <3>2 DEF RemoveOwnEntry, Reachable
    <3>3. ASSUME NEW i \in OwnEntries(r),
                 mReadNotifyList' = RemoveAt(mReadNotifyList, i)
          PROVE  Reachable(q)'
      <4>1. i \in 1..Len(mReadNotifyList) /\ mReadNotifyList[i].who = r
        BY DEF OwnEntries
      <4>2. \A k \in 1..Len(mReadNotifyList) :
               k # i => \E j \in 1..Len(mReadNotifyList') :
                           mReadNotifyList'[j] = mReadNotifyList[k]
        <5>1. \A k \in 1..Len(mReadNotifyList) :
                 k # i => \E j \in 1..Len(RemoveAt(mReadNotifyList, i)) :
                     RemoveAt(mReadNotifyList, i)[j] = mReadNotifyList[k]
          BY <2>0, <4>1, UnlinkWaiter
        <5>2. QED
          BY <3>3, <5>1
      <4>3. QED
        BY <2>7, <3>1, <4>1, <4>2 DEF RemoveOwnEntry, Reachable
    <3>4. QED
      BY <2>7, <3>2, <3>3 DEF RemoveOwnEntry
  <2>8. ASSUME NEW t \in TxIds, ReadCallback(t)
        PROVE  Reachable(q)'
    BY <2>1, <2>8
       DEF ReadCallback, storeVars, readerVars, Asleep, Reachable
  <2>9. CASE AddToReadMemList
    BY <2>1, <2>9 DEF AddToReadMemList, readerVars, Asleep, Reachable
  <2>10. CASE CallbackNotify
    <3>1. Reachable(q) /\ cb.pc = "notify"
      BY <2>1, <2>10 DEF CallbackNotify, readerVars, Asleep
    <3>2. CASE UNCHANGED mReadNotifyList
      BY <2>10, <3>1, <3>2 DEF CallbackNotify, Reachable
    <3>3. ASSUME NEW i \in 1..Len(mReadNotifyList),
                 NotifyAndPop(cb.msg.tx, i),
                 cb' = [cb EXCEPT !.pc = "call",
                                  !.who = mReadNotifyList[i].who]
          PROVE  Reachable(q)'
      <4>1. \A k \in 1..Len(mReadNotifyList) :
               k # i => \E j \in 1..Len(mReadNotifyList') :
                           mReadNotifyList'[j] = mReadNotifyList[k]
        <5>1. \A k \in 1..Len(mReadNotifyList) :
                 k # i => \E j \in 1..Len(RemoveAt(mReadNotifyList, i)) :
                     RemoveAt(mReadNotifyList, i)[j] = mReadNotifyList[k]
          BY <2>0, UnlinkWaiter
        <5>2. QED
          BY <3>3, <5>1 DEF NotifyAndPop
      <4>2. cb'.pc = "call" /\ cb'.who = mReadNotifyList[i].who
        BY <3>3 DEF TypeOK, Slots
      <4>3. UNCHANGED rel
        BY <2>10 DEF CallbackNotify
      <4>4. QED
        BY <3>1, <4>1, <4>2, <4>3 DEF Reachable
    <3>4. QED
      BY <2>10, <3>2, <3>3 DEF CallbackNotify
  <2>11. CASE CallbackUp
    <3>1. Asleep(q) /\ cb.who # q
      BY <2>0, <2>11 DEF CallbackUp, UpSem, InCall, storeVars, Asleep, TypeOK
    <3>2. Reachable(q)
      BY <2>1, <2>11, <3>1 DEF CallbackUp, storeVars
    <3>3. QED
      BY <2>11, <3>1, <3>2 DEF CallbackUp, storeVars, Reachable
  <2>12. CASE ReleaseClientID
    BY <2>1, <2>12
       DEF ReleaseClientID, storeVars, readerVars, Asleep, Reachable
  <2>13. CASE ReleaseNotify
    <3>1. Reachable(q) /\ rel.pc = "notify"
      BY <2>1, <2>13 DEF ReleaseNotify, readerVars, Asleep
    <3>2. CASE UNCHANGED mReadNotifyList
      BY <2>13, <3>1, <3>2 DEF ReleaseNotify, Reachable
    <3>3. ASSUME NEW i \in 1..Len(mReadNotifyList),
                 NotifyAndPop(0, i),
                 rel' = [pc |-> "call", who |-> mReadNotifyList[i].who]
          PROVE  Reachable(q)'
      <4>1. \A k \in 1..Len(mReadNotifyList) :
               k # i => \E j \in 1..Len(mReadNotifyList') :
                           mReadNotifyList'[j] = mReadNotifyList[k]
        <5>1. \A k \in 1..Len(mReadNotifyList) :
                 k # i => \E j \in 1..Len(RemoveAt(mReadNotifyList, i)) :
                     RemoveAt(mReadNotifyList, i)[j] = mReadNotifyList[k]
          BY <2>0, UnlinkWaiter
        <5>2. QED
          BY <3>3, <5>1 DEF NotifyAndPop
      <4>2. QED
        BY <2>13, <3>1, <3>3, <4>1 DEF ReleaseNotify, Reachable
    <3>4. QED
      BY <2>13, <3>2, <3>3 DEF ReleaseNotify
  <2>14. CASE ReleaseUp
    <3>1. Asleep(q) /\ rel.who # q
      BY <2>0, <2>14 DEF ReleaseUp, UpSem, InCall, storeVars, Asleep, TypeOK
    <3>2. Reachable(q)
      BY <2>1, <2>14, <3>1 DEF ReleaseUp, storeVars
    <3>3. QED
      BY <2>14, <3>1, <3>2 DEF ReleaseUp, storeVars, Reachable
  <2>15. CASE ReleaseDrain
    BY <2>1, <2>15, TRUE DEF ReleaseDrain, readerVars, Asleep, Reachable
  <2>16. CASE ReleaseDelete \/ Invalidate
    BY <2>16 DEF ReleaseDelete, Invalidate
  <2>17. CASE UNCHANGED vars
    BY <2>1, <2>17 DEF vars, storeVars, readerVars, Asleep, Reachable
  <2>18. QED
    BY <2>2, <2>3, <2>4, <2>5, <2>6, <2>7, <2>8, <2>9, <2>10, <2>11, <2>12,
       <2>13, <2>14, <2>15, <2>16, <2>17
       DEF Next, TxIds, Continue, Callback, Release
<1>3. QED
  BY <1>1, <1>2, TypeCorrect, PTL DEF Spec

-----------------------------------------------------------------------------
(* UnlinkWaiter for distinct waiters, in the form the steps below use.     *)
LEMMA Unlinked ==
    ASSUME mReadNotifyList \in Seq(Entries), OneEntryPerWaiter,
           NEW i \in 1..Len(mReadNotifyList)
    PROVE  /\ \A j \in 1..Len(RemoveAt(mReadNotifyList, i)) :
                 \E k \in 1..Len(mReadNotifyList) :
                    RemoveAt(mReadNotifyList, i)[j] = mReadNotifyList[k]
           /\ \A m, n \in 1..Len(RemoveAt(mReadNotifyList, i)) :
                 RemoveAt(mReadNotifyList, i)[m].who
                    = RemoveAt(mReadNotifyList, i)[n].who => m = n
           /\ \A j \in 1..Len(RemoveAt(mReadNotifyList, i)) :
                 RemoveAt(mReadNotifyList, i)[j].who # mReadNotifyList[i].who
<1>1. \A m, n \in 1..Len(mReadNotifyList) :
         mReadNotifyList[m].who = mReadNotifyList[n].who => m = n
  BY DEF OneEntryPerWaiter
<1>. DEFINE l == RemoveAt(mReadNotifyList, i)
<1>2. /\ \A j \in 1..Len(l) :
            \E k \in 1..Len(mReadNotifyList) :
               k # i /\ l[j] = mReadNotifyList[k]
      /\ (\A m, n \in 1..Len(mReadNotifyList) :
            mReadNotifyList[m].who = mReadNotifyList[n].who => m = n)
         => /\ \A m, n \in 1..Len(l) : l[m].who = l[n].who => m = n
            /\ \A j \in 1..Len(l) : l[j].who # mReadNotifyList[i].who
  BY UnlinkWaiter
<1>. HIDE DEF l
<1>3. QED
  BY <1>1, <1>2 DEF l

(* When no sleep is interrupted, a notifier that runs UpSem finds the      *)
(* thread asleep on that semaphore: unlinking the entry and running its    *)
(* function in two steps is then harmless.                                 *)
THEOREM NoDangling ==
    ASSUME ~Interrupts
    PROVE  Spec => []NoDanglingUp
<1>1. Init => OneEntryPerWaiter
  BY EmptySeq DEF Init, OneEntryPerWaiter
<1>2. TypeOK /\ OneEntryPerWaiter /\ [Next]_vars => OneEntryPerWaiter'
  <2>. SUFFICES ASSUME TypeOK, OneEntryPerWaiter, [Next]_vars
                PROVE  OneEntryPerWaiter'
    OBVIOUS
  <2>. USE DEF OneEntryPerWaiter, Asleep
  <2>. DEFINE Sleeps(q) == pc'[q] = "wait" /\ readSem'[q] = 0
  <2>0. /\ mReadNotifyList \in Seq(Entries)
        /\ pc \in [Readers -> {"idle", "pop", "add", "wait", "check", "remove"}]
        /\ readSem \in [Readers -> Nat]
        /\ tx \in [Readers -> TxIds]
        /\ OneEntryPerWaiter
        /\ \A i \in 1..Len(mReadNotifyList) :
              mReadNotifyList[i].who \in Readers
        /\ cb.pc = "call" => cb.who \in Readers
        /\ rel.pc = "call" => rel.who \in Readers
    BY WaiterIsReader DEF TypeOK
  <2>1. ASSUME NEW r \in Readers, NEW t \in TxIds, ReadSync(r, t)
        PROVE  OneEntryPerWaiter'
    BY <2>0, <2>1 DEF ReadSync, storeVars
  <2>2. ASSUME NEW r \in Readers, NEW i \in 1..Len(mList),
               PopFromReadMemList(r, i)
        PROVE  OneEntryPerWaiter'
    BY <2>0, <2>2 DEF Return, PopFromReadMemList
  <2>3. ASSUME NEW r \in Readers, PopNothing(r)
        PROVE  OneEntryPerWaiter'
    BY <2>0, <2>3 DEF PopNothing, storeVars
  <2>4. ASSUME NEW r \in Readers, AddToNotifyList(r)
        PROVE  OneEntryPerWaiter'
    <3>. DEFINE e == [tx |-> tx[r], who |-> r]
    <3>1. CASE mbQMIValid /\ listed
      <4>1. /\ mReadNotifyList' = Append(mReadNotifyList, e)
            /\ pc' = [pc EXCEPT ![r] = "wait"]
            /\ UNCHANGED <<readSem, cb, rel>>
            /\ pc[r] = "add"
        BY <2>4, <3>1 DEF AddToNotifyList
      <4>2. e \in Entries /\ Len(mReadNotifyList) \in Nat
        BY <2>0, LenProperties DEF Entries
      <4>3. /\ Len(mReadNotifyList') = Len(mReadNotifyList) + 1
            /\ \A j \in 1..Len(mReadNotifyList) :
                  mReadNotifyList'[j] = mReadNotifyList[j]
            /\ mReadNotifyList'[Len(mReadNotifyList) + 1] = e
        BY <2>0, <4>1, <4>2, AppendProperties
      <4>4. readSem[r] = 0
        BY <2>0, <4>1
      <4>5. /\ \A q \in Readers : /\ pc'[q] # "remove"
                                 /\ pc'[q] = "add" => readSem'[q] = 0
            /\ Sleeps(r)
            /\ \A q \in Readers : Asleep(q) => q # r /\ Sleeps(q)
        BY <2>0, <4>1, <4>4
      <4>6. \A j \in 1..Len(mReadNotifyList) : mReadNotifyList[j].who # r
        BY <2>0, <4>5
      <4>7. ASSUME NEW j \in 1..Len(mReadNotifyList')
            PROVE  \/ /\ j \in 1..Len(mReadNotifyList)
                      /\ mReadNotifyList'[j] = mReadNotifyList[j]
                   \/ /\ j = Len(mReadNotifyList) + 1
                      /\ mReadNotifyList'[j].who = r
        BY <4>2, <4>3
      <4>8. \A j \in 1..Len(mReadNotifyList') : Sleeps(mReadNotifyList'[j].who)
        <5>1. \A j \in 1..Len(mReadNotifyList) : Asleep(mReadNotifyList[j].who)
          OBVIOUS
        <5>2. ASSUME NEW j \in 1..Len(mReadNotifyList')
              PROVE  Sleeps(mReadNotifyList'[j].who)
          <6>1. CASE j \in 1..Len(mReadNotifyList)
                     /\ mReadNotifyList'[j] = mReadNotifyList[j]
            <7>1. /\ mReadNotifyList[j].who \in Readers
                  /\ Asleep(mReadNotifyList[j].who)
              BY <2>0, <5>1, <6>1
            <7>2. QED
              BY <4>5, <6>1, <7>1
          <6>2. CASE mReadNotifyList'[j].who = r
            BY <4>5, <6>2
          <6>3. QED
            BY <4>7, <6>1, <6>2
        <5>3. QED
          BY <5>2
      <4>9. \A m, n \in 1..Len(mReadNotifyList') :
               mReadNotifyList'[m].who = mReadNotifyList'[n].who => m = n
        BY <4>6, <4>7
      <4>10. /\ cb.pc = "call" => Asleep(cb.who)
             /\ rel.pc = "call" => Asleep(rel.who)
        OBVIOUS
      <4>11. /\ cb.pc = "call" =>
                  \A j \in 1..Len(mReadNotifyList') :
                     mReadNotifyList'[j].who # cb.who
             /\ rel.pc = "call" =>
                  \A j \in 1..Len(mReadNotifyList') :
                     mReadNotifyList'[j].who # rel.who
        <5>1. /\ cb.pc = "call" =>
                    /\ cb.who # r
                    /\ \A j \in 1..Len(mReadNotifyList) :
                          mReadNotifyList[j].who # cb.who
              /\ rel.pc = "call" =>
                    /\ rel.who # r
                    /\ \A j \in 1..Len(mReadNotifyList) :
                          mReadNotifyList[j].who # rel.who
          BY <2>0, <4>5, <4>10
        <5>2. QED
          BY <4>7, <5>1
      <4>12. /\ cb.pc = "call" => Sleeps(cb.who)
             /\ rel.pc = "call" => Sleeps(rel.who)
        BY <2>0, <4>1, <4>5, <4>10
      <4>13. QED
        BY <4>1, <4>5, <4>8, <4>9, <4>11, <4>12
    <3>2. CASE ~(mbQMIValid /\ listed)
      BY <2>0, <2>4, <3>2 DEF Return, AddToNotifyList
    <3>3. QED
      BY <3>1, <3>2
  <2>5. ASSUME NEW r \in Readers, Down(r) \/ Recheck(r)
        PROVE  OneEntryPerWaiter'
    <3>1. CASE Down(r)
      BY <2>0, <3>1 DEF Down, storeVars
    <3>2. CASE Recheck(r)
      BY <2>0, <3>2 DEF Return, Recheck, storeVars
    <3>3. QED
      BY <2>5, <3>1, <3>2
  <2>6. ASSUME NEW r \in Readers, Interrupted(r) \/ RemoveOwnEntry(r)
        PROVE  OneEntryPerWaiter'
    BY <2>0, <2>6 DEF Interrupted, RemoveOwnEntry
  <2>7. ASSUME NEW t \in TxIds, ReadCallback(t)
        PROVE  OneEntryPerWaiter'
    BY <2>0, <2>7 DEF ReadCallback, storeVars, readerVars
  <2>8. CASE AddToReadMemList
    BY <2>0, <2>8 DEF AddToReadMemList, Idle, readerVars, TypeOK, Slots
  <2>9. CASE CallbackNotify
    <3>1. CASE cb' = Idle /\ UNCHANGED mReadNotifyList
      <4>1. cb'.pc # "call"
        BY <3>1 DEF Idle, TypeOK
      <4>2. QED
        BY <2>0, <2>9, <3>1, <4>1 DEF CallbackNotify, readerVars
    <3>2. ASSUME NEW i \in 1..Len(mReadNotifyList),
                 NotifyAndPop(cb.msg.tx, i),
                 cb'.pc = "call", cb'.who = mReadNotifyList[i].who
          PROVE  OneEntryPerWaiter'
      <4>1. /\ Len(mReadNotifyList') = Len(RemoveAt(mReadNotifyList, i))
            /\ mReadNotifyList' = RemoveAt(mReadNotifyList, i)
        BY <3>2 DEF NotifyAndPop
      <4>2. /\ \A j \in 1..Len(mReadNotifyList') :
                  \E k \in 1..Len(mReadNotifyList) :
                     mReadNotifyList'[j] = mReadNotifyList[k]
            /\ \A m, n \in 1..Len(mReadNotifyList') :
                  mReadNotifyList'[m].who = mReadNotifyList'[n].who => m = n
            /\ \A j \in 1..Len(mReadNotifyList') :
                  mReadNotifyList'[j].who # mReadNotifyList[i].who
        <5>1. /\ \A j \in 1..Len(RemoveAt(mReadNotifyList, i)) :
                    \E k \in 1..Len(mReadNotifyList) :
                       RemoveAt(mReadNotifyList, i)[j] = mReadNotifyList[k]
              /\ \A m, n \in 1..Len(RemoveAt(mReadNotifyList, i)) :
                    RemoveAt(mReadNotifyList, i)[m].who
                       = RemoveAt(mReadNotifyList, i)[n].who => m = n
              /\ \A j \in 1..Len(RemoveAt(mReadNotifyList, i)) :
                    RemoveAt(mReadNotifyList, i)[j].who # mReadNotifyList[i].who
          BY <2>0, Unlinked
        <5>2. QED
          BY <4>1, <5>1
      <4>3. UNCHANGED <<pc, readSem, rel>>
        BY <2>9 DEF CallbackNotify, readerVars
      <4>4. /\ Asleep(mReadNotifyList[i].who)
            /\ rel.pc = "call" => rel.who # mReadNotifyList[i].who
        BY <2>0
      <4>5. /\ cb'.pc = "call" => Sleeps(cb'.who)
            /\ \A j \in 1..Len(mReadNotifyList') :
                  mReadNotifyList'[j].who # cb'.who
            /\ rel'.pc = "call" => rel'.who # cb'.who
        BY <3>2, <4>2, <4>3, <4>4
      <4>6. ASSUME NEW j \in 1..Len(mReadNotifyList')
            PROVE  Sleeps(mReadNotifyList'[j].who)
        <5>1. PICK k \in 1..Len(mReadNotifyList) :
                      mReadNotifyList'[j] = mReadNotifyList[k]
          BY <4>2
        <5>2. Asleep(mReadNotifyList[k].who)
          OBVIOUS
        <5>3. QED
          BY <4>3, <5>1, <5>2
      <4>7. ASSUME rel.pc = "call"
            PROVE  /\ Sleeps(rel.who)
                   /\ \A j \in 1..Len(mReadNotifyList') :
                         mReadNotifyList'[j].who # rel.who
        <5>1. /\ Asleep(rel.who)
              /\ \A k \in 1..Len(mReadNotifyList) :
                    mReadNotifyList[k].who # rel.who
          BY <4>7
        <5>2. QED
          BY <4>2, <4>3, <5>1
      <4>8. \A q \in Readers : /\ pc'[q] # "remove"
                               /\ pc'[q] = "add" => readSem'[q] = 0
        BY <4>3
      <4>9. QED
        BY <4>2, <4>3, <4>5, <4>6, <4>7, <4>8
    <3>3. QED
      BY <2>0, <2>9, <3>1, <3>2 DEF CallbackNotify, TypeOK, Slots
  <2>10. CASE CallbackUp
    BY <2>0, <2>10 DEF CallbackUp, UpSem, Idle, storeVars
  <2>11. CASE ReleaseClientID
    BY <2>0, <2>11 DEF ReleaseClientID, storeVars, readerVars, TypeOK
  <2>12. CASE ReleaseNotify
    <3>1. CASE rel' = [rel EXCEPT !.pc = "drain"] /\ UNCHANGED mReadNotifyList
      <4>1. rel'.pc # "call"
        BY <3>1 DEF Idle, TypeOK
      <4>2. QED
        BY <2>0, <2>12, <3>1, <4>1 DEF ReleaseNotify, readerVars
    <3>2. ASSUME NEW i \in 1..Len(mReadNotifyList),
                 NotifyAndPop(0, i),
                 rel'.pc = "call", rel'.who = mReadNotifyList[i].who
          PROVE  OneEntryPerWaiter'
      <4>1. /\ Len(mReadNotifyList') = Len(RemoveAt(mReadNotifyList, i))
            /\ mReadNotifyList' = RemoveAt(mReadNotifyList, i)
        BY <3>2 DEF NotifyAndPop
      <4>2. /\ \A j \in 1..Len(mReadNotifyList') :
                  \E k \in 1..Len(mReadNotifyList) :
                     mReadNotifyList'[j] = mReadNotifyList[k]
            /\ \A m, n \in 1..Len(mReadNotifyList') :
                  mReadNotifyList'[m].who = mReadNotifyList'[n].who => m = n
            /\ \A j \in 1..Len(mReadNotifyList') :
                  mReadNotifyList'[j].who # mReadNotifyList[i].who
        <5>1. /\ \A j \in 1..Len(RemoveAt(mReadNotifyList, i)) :
                    \E k \in 1..Len(mReadNotifyList) :
                       RemoveAt(mReadNotifyList, i)[j] = mReadNotifyList[k]
              /\ \A m, n \in 1..Len(RemoveAt(mReadNotifyList, i)) :
                    RemoveAt(mReadNotifyList, i)[m].who
                       = RemoveAt(mReadNotifyList, i)[n].who => m = n
              /\ \A j \in 1..Len(RemoveAt(mReadNotifyList, i)) :
                    RemoveAt(mReadNotifyList, i)[j].who # mReadNotifyList[i].who
          BY <2>0, Unlinked
        <5>2. QED
          BY <4>1, <5>1
      <4>3. UNCHANGED <<pc, readSem, cb>>
        BY <2>12 DEF ReleaseNotify, readerVars
      <4>4. /\ Asleep(mReadNotifyList[i].who)
            /\ cb.pc = "call" => cb.who # mReadNotifyList[i].who
        BY <2>0
      <4>5. /\ rel'.pc = "call" => Sleeps(rel'.who)
            /\ \A j \in 1..Len(mReadNotifyList') :
                  mReadNotifyList'[j].who # rel'.who
            /\ cb'.pc = "call" => cb'.who # rel'.who
        BY <3>2, <4>2, <4>3, <4>4
      <4>6. ASSUME NEW j \in 1..Len(mReadNotifyList')
            PROVE  Sleeps(mReadNotifyList'[j].who)
        <5>1. PICK k \in 1..Len(mReadNotifyList) :
                      mReadNotifyList'[j] = mReadNotifyList[k]
          BY <4>2
        <5>2. Asleep(mReadNotifyList[k].who)
          OBVIOUS
        <5>3. QED
          BY <4>3, <5>1, <5>2
      <4>7. ASSUME cb.pc = "call"
            PROVE  /\ Sleeps(cb.who)
                   /\ \A j \in 1..Len(mReadNotifyList') :
                         mReadNotifyList'[j].who # cb.who
        <5>1. /\ Asleep(cb.who)
              /\ \A k \in 1..Len(mReadNotifyList) :
                    mReadNotifyList[k].who # cb.who
          BY <4>7
        <5>2. QED
          BY <4>2, <4>3, <5>1
      <4>8. \A q \in Readers : /\ pc'[q] # "remove"
                               /\ pc'[q] = "add" => readSem'[q] = 0
        BY <4>3
      <4>9. QED
        BY <4>2, <4>3, <4>5, <4>6, <4>7, <4>8
    <3>3. QED
      BY <2>0, <2>12, <3>1, <3>2 DEF ReleaseNotify, TypeOK, Slots
  <2>13. CASE ReleaseUp
    BY <2>0, <2>13 DEF ReleaseUp, UpSem, storeVars
  <2>14. CASE ReleaseDrain
    BY <2>0, <2>14 DEF ReleaseDrain, readerVars, TypeOK
  <2>15. CASE ReleaseDelete
    BY <2>0, <2>15, EmptySeq DEF ReleaseDelete, readerVars, TypeOK
  <2>16. CASE Invalidate
    BY <2>0, <2>16 DEF Invalidate, readerVars
  <2>17. CASE UNCHANGED vars
    BY <2>0, <2>17 DEF vars, storeVars, readerVars
  <2>18. QED
    BY <2>1, <2>2, <2>3, <2>4, <2>5, <2>6, <2>7, <2>8, <2>9, <2>10, <2>11,
       <2>12, <2>13, <2>14, <2>15, <2>16, <2>17
       DEF Next, TxIds, Continue, Callback, Release
<1>3. OneEntryPerWaiter => NoDanglingUp
  BY DEF OneEntryPerWaiter, NoDanglingUp
<1>4. QED
  BY <1>1, <1>2, <1>3, TypeCorrect, PTL DEF Spec

-----------------------------------------------------------------------------
(***************************************************************************)
(* The lists implement the abstract store.                                 *)
(***************************************************************************)

(* The reason why the first match of mList is the oldest one, and why      *)
(* nothing is dropped early: ReadCallback numbers the responses and        *)
(* AddToReadMemList appends them in that order, and the device and the     *)
(* client are there until the release begins.                              *)
StoreOrder ==
    /\ \A i, j \in 1..Len(mList) : i < j => mList[i].id < mList[j].id
    /\ \A i \in 1..Len(mList) : mList[i].id <= arrived
    /\ cb.pc = "add" => /\ cb.msg.id <= arrived
                        /\ \A i \in 1..Len(mList) : mList[i].id < cb.msg.id
    /\ rel.pc = "idle" => mbQMIValid /\ listed

(* Unlinking a response from an ordered list takes that response out of    *)
(* the set of the responses and leaves the others in order.                *)
LEMMA OrderedRemoval ==
    ASSUME mList \in Seq(Responses), StoreOrder, NEW i \in 1..Len(mList)
    PROVE  LET l == RemoveAt(mList, i) IN
           /\ {l[j] : j \in 1..Len(l)} =
                {mList[k] : k \in 1..Len(mList)} \ {mList[i]}
           /\ \A j, k \in 1..Len(l) : j < k => l[j].id < l[k].id
           /\ \A j \in 1..Len(l) : \E k \in 1..Len(mList) : l[j] = mList[k]
<1>. DEFINE l == RemoveAt(mList, i)
             K(j) == IF j < i THEN j ELSE j + 1
<1>1. /\ \A j \in 1..Len(l) : /\ K(j) \in 1..Len(mList)
                               /\ K(j) # i
                               /\ l[j] = mList[K(j)]
      /\ \A k \in 1..Len(mList) :
            k # i => \E j \in 1..Len(l) : l[j] = mList[k]
  BY RemoveAtOrigin
<1>2. Len(l) \in Nat /\ Len(mList) \in Nat
  BY RemoveAtLemma, LenProperties
<1>3. \A j, k \in 1..Len(l) : j < k => K(j) < K(k)
  BY <1>2
<1>. HIDE DEF K, l
<1>4. \A j, k \in 1..Len(mList) : mList[j] = mList[k] => j = k
  <2>1. \A j \in 1..Len(mList) : mList[j] \in Responses
    BY ElementOfSeq
  <2>2. \A j \in 1..Len(mList) : mList[j].id \in Int
    BY <2>1 DEF Responses
  <2>3. \A j, k \in 1..Len(mList) : j < k => mList[j].id < mList[k].id
    BY DEF StoreOrder
  <2>4. ASSUME NEW j \in 1..Len(mList), NEW k \in 1..Len(mList),
               mList[j] = mList[k]
        PROVE  j = k
    <3>1. ~(j < k) /\ ~(k < j)
      BY <2>2, <2>3, <2>4
    <3>2. QED
      BY <1>2, <3>1
  <2>5. QED
    BY <2>4
<1>5. {l[j] : j \in 1..Len(l)} = {mList[k] : k \in 1..Len(mList)} \ {mList[i]}
  <2>1. ASSUME NEW j \in 1..Len(l)
        PROVE  l[j] \in {mList[k] : k \in 1..Len(mList)} \ {mList[i]}
    <3>1. PICK n \in 1..Len(mList) : n # i /\ l[j] = mList[n]
      BY <1>1
    <3>2. mList[n] # mList[i]
      BY <1>4, <3>1
    <3>3. QED
      BY <3>1, <3>2
  <2>2. ASSUME NEW m \in {mList[k] : k \in 1..Len(mList)} \ {mList[i]}
        PROVE  \E j \in 1..Len(l) : m = l[j]
    BY <1>1
  <2>3. QED
    BY <2>1, <2>2
<1>6. \A j, k \in 1..Len(l) : j < k => l[j].id < l[k].id
  BY <1>1, <1>3 DEF StoreOrder
<1>7. QED
  BY <1>1, <1>5, <1>6 DEF l

(* The order of the list is an invariant: every change of mList appends    *)
(* the newest response or unlinks one. *)
LEMMA StoreOrdered == Spec => []StoreOrder
<1>1. Init => StoreOrder
  BY DEF Init, StoreOrder
<1>2. TypeOK /\ StoreOrder /\ [Next]_vars => StoreOrder'
  <2>. SUFFICES ASSUME TypeOK, StoreOrder, [Next]_vars
                PROVE  StoreOrder'
    OBVIOUS
  <2>0. /\ mList \in Seq(Responses)
        /\ arrived \in Nat
        /\ Len(mList) \in Nat
        /\ \A i \in 1..Len(mList) : mList[i].id \in Int
    <3>1. mList \in Seq(Responses) /\ arrived \in Nat
      BY MaxResponsesAssumption DEF TypeOK
    <3>2. \A i \in 1..Len(mList) : mList[i] \in Responses
      BY <3>1, ElementOfSeq
    <3>3. QED
      BY <3>1, <3>2, LenProperties DEF Responses
  <2>1. ASSUME UNCHANGED <<mbQMIValid, listed, mList, arrived>>,
               cb' = cb \/ cb'.pc # "add", rel' = rel \/ rel'.pc # "idle"
        PROVE  StoreOrder'
    BY <2>1 DEF StoreOrder
  <2>2. ASSUME NEW r \in Readers, NEW t \in TxIds, ReadSync(r, t)
        PROVE  StoreOrder'
    BY <2>1, <2>2 DEF ReadSync, storeVars
  <2>3. ASSUME NEW r \in Readers, NEW i \in 1..Len(mList),
               PopFromReadMemList(r, i)
        PROVE  StoreOrder'
    <3>1. /\ mList' = RemoveAt(mList, i)
          /\ UNCHANGED <<mbQMIValid, listed, arrived, cb, rel>>
      BY <2>3 DEF PopFromReadMemList
    <3>2. /\ \A j, k \in 1..Len(mList') : j < k => mList'[j].id < mList'[k].id
          /\ \A j \in 1..Len(mList') :
                \E k \in 1..Len(mList) : mList'[j] = mList[k]
      BY <2>0, <3>1, OrderedRemoval
    <3>3. QED
      BY <3>1, <3>2 DEF StoreOrder
  <2>4. ASSUME NEW r \in Readers,
               \/ PopNothing(r) \/ AddToNotifyList(r) \/ Down(r)
               \/ Recheck(r) \/ Interrupted(r) \/ RemoveOwnEntry(r)
        PROVE  StoreOrder'
    BY <2>1, <2>4 DEF PopNothing, AddToNotifyList, Down, Recheck,
       Interrupted, RemoveOwnEntry, storeVars
  <2>5. ASSUME NEW t \in TxIds, ReadCallback(t)
        PROVE  StoreOrder'
    <3>1. /\ UNCHANGED <<mbQMIValid, listed, mList, rel>>
          /\ arrived' = arrived + 1
          /\ cb'.msg.id = arrived + 1
      BY <2>5 DEF ReadCallback, storeVars
    <3>2. QED
      BY <2>0, <3>1 DEF StoreOrder
  <2>6. CASE AddToReadMemList
    <3>1. CASE mbQMIValid /\ listed
      <4>1. /\ UNCHANGED <<mbQMIValid, listed, arrived, rel>>
            /\ mList' = Append(mList, cb.msg)
            /\ cb.pc = "add" /\ cb'.pc # "add"
        BY <2>6, <3>1 DEF AddToReadMemList, TypeOK, Slots
      <4>2. cb.msg \in Responses
        BY <4>1 DEF TypeOK
      <4>3. /\ Len(mList') = Len(mList) + 1
            /\ \A j \in 1..Len(mList) : mList'[j] = mList[j]
            /\ mList'[Len(mList) + 1] = cb.msg
        BY <2>0, <4>1, <4>2, AppendProperties
      <4>4. \A j \in 1..Len(mList') :
               \/ j \in 1..Len(mList) /\ mList'[j] = mList[j]
               \/ j = Len(mList) + 1 /\ mList'[j] = cb.msg
        BY <2>0, <4>3
      <4>5. \A j, k \in 1..Len(mList') : j < k => mList'[j].id < mList'[k].id
        <5>1. ASSUME NEW j \in 1..Len(mList'), NEW k \in 1..Len(mList'), j < k
              PROVE  mList'[j].id < mList'[k].id
          <6>1. j \in 1..Len(mList) /\ mList'[j] = mList[j]
            BY <2>0, <4>3, <5>1
          <6>2. CASE k \in 1..Len(mList) /\ mList'[k] = mList[k]
            BY <5>1, <6>1, <6>2 DEF StoreOrder
          <6>3. CASE mList'[k] = cb.msg
            BY <4>1, <6>1, <6>3 DEF StoreOrder
          <6>4. QED
            BY <4>4, <6>2, <6>3
        <5>2. QED
          BY <5>1
      <4>6. \A j \in 1..Len(mList') : mList'[j].id <= arrived
        BY <4>1, <4>4 DEF StoreOrder
      <4>7. QED
        BY <4>1, <4>5, <4>6 DEF StoreOrder
    <3>2. CASE ~(mbQMIValid /\ listed)
      BY <2>1, <2>6, <3>2 DEF AddToReadMemList, Idle
    <3>3. QED
      BY <3>1, <3>2
  <2>7. CASE CallbackNotify \/ CallbackUp
    <3>1. cb'.pc # "add"
      <4>1. Idle.pc # "add"
        BY DEF Idle
      <4>2. \A w : [cb EXCEPT !.pc = "call", !.who = w].pc # "add"
        BY DEF TypeOK, Slots
      <4>3. QED
        BY <2>7, <4>1, <4>2 DEF CallbackNotify, CallbackUp
    <3>2. QED
      BY <2>1, <2>7, <3>1 DEF CallbackNotify, CallbackUp, storeVars
  <2>8. CASE ReleaseClientID \/ ReleaseNotify \/ ReleaseUp
    <3>1. rel'.pc # "idle"
      BY <2>8 DEF ReleaseClientID, ReleaseNotify, ReleaseUp, TypeOK
    <3>2. QED
      BY <2>1, <2>8, <3>1
         DEF ReleaseClientID, ReleaseNotify, ReleaseUp, storeVars
  <2>9. CASE ReleaseDrain
    <3>0. rel'.pc # "idle" /\ UNCHANGED <<arrived, cb>>
      BY <2>9 DEF ReleaseDrain, TypeOK
    <3>1. CASE mbQMIValid /\ mList # << >>
      <4>1. mList' = Tail(mList)
        BY <2>9, <3>1 DEF ReleaseDrain
      <4>2. /\ Len(mList') = Len(mList) - 1
            /\ \A j \in 1..Len(mList') : mList'[j] = mList[j + 1]
        BY <2>0, <3>1, <4>1, HeadTailProperties
      <4>3. \A j \in 1..Len(mList') : j + 1 \in 1..Len(mList)
        BY <2>0, <4>2
      <4>4. \A j, k \in 1..Len(mList') : j < k => mList'[j].id < mList'[k].id
        <5>1. ASSUME NEW j \in 1..Len(mList'), NEW k \in 1..Len(mList'), j < k
              PROVE  mList'[j].id < mList'[k].id
          <6>1. j + 1 < k + 1
            BY <2>0, <4>2, <5>1
          <6>2. QED
            BY <4>2, <4>3, <6>1 DEF StoreOrder
        <5>2. QED
          BY <5>1
      <4>5. QED
        BY <3>0, <4>2, <4>3, <4>4 DEF StoreOrder
    <3>2. CASE ~(mbQMIValid /\ mList # << >>)
      BY <2>9, <3>0, <3>2 DEF ReleaseDrain, StoreOrder
    <3>3. QED
      BY <3>1, <3>2
  <2>10. CASE ReleaseDelete
    <3>1. /\ UNCHANGED <<arrived, cb>> /\ mList' = << >>
          /\ rel'.pc # "idle"
      BY <2>10 DEF ReleaseDelete, TypeOK
    <3>2. Len(mList') = 0
      BY <3>1, EmptySeq
    <3>3. QED
      BY <3>1, <3>2 DEF StoreOrder
  <2>11. CASE Invalidate
    <3>1. UNCHANGED <<mList, arrived, cb, rel>> /\ rel.pc # "idle"
      BY <2>11 DEF Invalidate
    <3>2. QED
      BY <3>1 DEF StoreOrder
  <2>12. CASE UNCHANGED vars
    BY <2>1, <2>12 DEF vars, storeVars
  <2>13. QED
    BY <2>2, <2>3, <2>4, <2>5, <2>6, <2>7, <2>8, <2>9, <2>10, <2>11, <2>12
       DEF Next, TxIds, Continue, Callback, Release
<1>3. QED
  BY <1>1, <1>2, TypeCorrect, PTL DEF Spec

-----------------------------------------------------------------------------
(* The refinement mapping of Store, by name. *)
pendingBar  == {mList[i] : i \in 1..Len(mList)}
inFlightBar == IF cb.pc = "add" THEN {cb.msg} ELSE {}
askedBar    == [r \in Readers |-> IF InCall(r) THEN tx[r] ELSE NONE]

(* A step that changes neither what a reader sees of the store nor what    *)
(* ReadCallback has in hand is a stuttering step.                          *)
LEMMA Stutters ==
    ASSUME pendingBar' = pendingBar, inFlightBar' = inFlightBar,
           askedBar' = askedBar, UNCHANGED <<arrived, got>>,
           (rel'.pc # "idle") = (rel.pc # "idle")
    PROVE  UNCHANGED Store!vars
BY DEF Store!vars, pendingBar, inFlightBar, askedBar

(* A call of r that has an ID asks for it; no other call changes. *)
LEMMA AskedChanges ==
    ASSUME TypeOK, NEW r \in Readers
    PROVE  /\ Return(r) => askedBar' = [askedBar EXCEPT ![r] = NONE]
           /\ InCall(r) => askedBar[r] = tx[r] /\ askedBar[r] # NONE
           /\ \A p \in {"pop", "add", "wait", "check", "remove"} :
                 /\ InCall(r)
                 /\ pc' = [pc EXCEPT ![r] = p]
                 /\ tx' = tx
                 => askedBar' = askedBar
<1>1. /\ pc \in [Readers ->
                   {"idle", "pop", "add", "wait", "check", "remove"}]
      /\ tx \in [Readers -> TxIds]
      /\ NONE \notin TxIds
  BY TxIdsAssumption DEF TypeOK
<1>2. ASSUME Return(r)
      PROVE  askedBar' = [askedBar EXCEPT ![r] = NONE]
  <2>1. /\ pc' = [pc EXCEPT ![r] = "idle"]
        /\ tx' = [tx EXCEPT ![r] = 0]
    BY <1>2 DEF Return
  <2>2. QED
    BY <1>1, <2>1 DEF askedBar, InCall
<1>3. InCall(r) => askedBar[r] = tx[r] /\ askedBar[r] # NONE
  BY <1>1 DEF askedBar
<1>4. ASSUME NEW p \in {"pop", "add", "wait", "check", "remove"},
             InCall(r), pc' = [pc EXCEPT ![r] = p], tx' = tx
      PROVE  askedBar' = askedBar
  BY <1>1, <1>4 DEF askedBar, InCall
<1>5. QED
  BY <1>2, <1>3, <1>4

(* PopFromReadMemList gives the oldest response that matches.              *)
LEMMA PopGives ==
    ASSUME TypeOK, StoreOrder, NEW r \in Readers, NEW i \in 1..Len(mList),
           PopFromReadMemList(r, i)
    PROVE  \E m \in pendingBar : Store!Give(r, m)
<1>1. /\ mList \in Seq(Responses) /\ Len(mList) \in Nat
      /\ \A k \in 1..Len(mList) : mList[k].id \in Int
  <2>1. mList \in Seq(Responses)
    BY DEF TypeOK
  <2>2. \A k \in 1..Len(mList) : mList[k] \in Responses
    BY <2>1, ElementOfSeq
  <2>3. QED
    BY <2>1, <2>2, LenProperties DEF Responses
<1>2. /\ i \in FirstTaken(tx[r])
      /\ mList' = RemoveAt(mList, i)
      /\ got' = [got EXCEPT ![r] = mList[i]]
      /\ InCall(r) /\ Return(r)
      /\ UNCHANGED <<arrived, cb, rel>>
  BY DEF PopFromReadMemList, InCall
<1>3. /\ askedBar' = [askedBar EXCEPT ![r] = NONE]
      /\ askedBar[r] = tx[r] /\ askedBar[r] # NONE
  BY <1>2, AskedChanges
<1>4. pendingBar' = pendingBar \ {mList[i]}
  <2>1. {RemoveAt(mList, i)[j] : j \in 1..Len(RemoveAt(mList, i))}
          = pendingBar \ {mList[i]}
    BY <1>1, OrderedRemoval DEF pendingBar
  <2>2. pendingBar' = {mList'[j] : j \in 1..Len(mList')}
    BY DEF pendingBar
  <2>3. QED
    BY <1>2, <2>1, <2>2
<1>5. inFlightBar' = inFlightBar
  BY <1>2 DEF inFlightBar
<1>6. mList[i] \in pendingBar
  BY DEF pendingBar
<1>7. Store!Matches(tx[r], mList[i])
  BY <1>2 DEF FirstTaken, Takes, Store!Matches
<1>8. ASSUME NEW n \in pendingBar, Store!Matches(tx[r], n)
      PROVE  mList[i].id <= n.id
  <2>1. PICK k \in 1..Len(mList) : n = mList[k]
    BY <1>8 DEF pendingBar
  <2>2. Takes(tx[r], mList[k])
    BY <1>8, <2>1 DEF Takes, Store!Matches
  <2>3. ~(k \in 1..(i - 1))
    BY <1>2, <2>2 DEF FirstTaken
  <2>4. k = i \/ i < k
    BY <1>1, <2>3
  <2>5. CASE k = i
    BY <1>1, <2>1, <2>5
  <2>6. CASE i < k
    <3>1. mList[i].id < mList[k].id
      BY <2>6 DEF StoreOrder
    <3>2. QED
      BY <1>1, <2>1, <3>1
  <2>7. QED
    BY <2>4, <2>5, <2>6
<1>9. QED
  <2>1. PICK m \in pendingBar : m = mList[i]
    BY <1>6
  <2>2. Store!Give(r, m)
    BY <1>2, <1>3, <1>4, <1>5, <1>7, <1>8, <2>1
       DEF Store!Give, pendingBar, inFlightBar, askedBar
  <2>3. QED
    BY <2>2

(* A reader that returns without a response gives up. *)
LEMMA ReturnGivesUp ==
    ASSUME TypeOK, NEW r \in Readers, InCall(r), Return(r),
           UNCHANGED <<mList, cb, arrived, got, rel>>
    PROVE  Store!GiveUp(r)
<1>1. /\ askedBar' = [askedBar EXCEPT ![r] = NONE]
      /\ askedBar[r] # NONE
  BY AskedChanges
<1>2. pendingBar' = pendingBar /\ inFlightBar' = inFlightBar
  BY DEF pendingBar, inFlightBar
<1>3. QED
  BY <1>1, <1>2 DEF Store!GiveUp, pendingBar, inFlightBar, askedBar

(* Each step of a reader is a step of the abstract reader, or none. *)
LEMMA ReaderImplements ==
    ASSUME TypeOK, StoreOrder, NEW r \in Readers,
           \/ \E t \in RequestIds : ReadSync(r, t)
           \/ Continue(r) \/ Interrupted(r)
    PROVE  [Store!Next]_Store!vars
<1>0. /\ pc \in [Readers ->
                   {"idle", "pop", "add", "wait", "check", "remove"}]
      /\ tx \in [Readers -> TxIds]
  BY DEF TypeOK
<1>1. ASSUME NEW t \in RequestIds, ReadSync(r, t)
      PROVE  Store!Next
  <2>1. /\ askedBar[r] = NONE
        /\ askedBar' = [askedBar EXCEPT ![r] = t]
    BY <1>0, <1>1 DEF ReadSync, askedBar, InCall
  <2>2. /\ pendingBar' = pendingBar /\ inFlightBar' = inFlightBar
        /\ got' = [got EXCEPT ![r] = NONE]
        /\ UNCHANGED <<arrived, rel>>
    BY <1>1 DEF ReadSync, storeVars, pendingBar, inFlightBar
  <2>3. Store!Ask(r, t)
    BY <2>1, <2>2 DEF Store!Ask, pendingBar, inFlightBar, askedBar
  <2>4. QED
    BY <2>3 DEF Store!Next, TxIds
<1>2. ASSUME NEW i \in 1..Len(mList), PopFromReadMemList(r, i)
      PROVE  Store!Next
  <2>1. \E m \in pendingBar : Store!Give(r, m)
    BY <1>2, PopGives
  <2>2. QED
    BY <2>1 DEF Store!Next, pendingBar
<1>3. ASSUME \/ PopNothing(r) \/ Down(r) \/ Interrupted(r)
             \/ AddToNotifyList(r) /\ mbQMIValid /\ listed
             \/ Recheck(r) /\ mbQMIValid
      PROVE  UNCHANGED Store!vars
  <2>1. /\ InCall(r) /\ tx' = tx
        /\ \E p \in {"pop", "add", "wait", "check", "remove"} :
              pc' = [pc EXCEPT ![r] = p]
        /\ UNCHANGED <<mList, arrived, got, cb, rel>>
    BY <1>3 DEF PopNothing, Down, Interrupted, AddToNotifyList, Recheck,
       InCall, storeVars
  <2>2. askedBar' = askedBar
    BY <2>1, AskedChanges
  <2>3. pendingBar' = pendingBar /\ inFlightBar' = inFlightBar
    BY <2>1 DEF pendingBar, inFlightBar
  <2>4. QED
    BY <2>1, <2>2, <2>3, Stutters
<1>4. ASSUME \/ AddToNotifyList(r) /\ ~(mbQMIValid /\ listed)
             \/ Recheck(r) /\ ~mbQMIValid
             \/ RemoveOwnEntry(r)
      PROVE  Store!Next
  <2>1. InCall(r) /\ Return(r) /\ UNCHANGED <<mList, cb, arrived, got, rel>>
    BY <1>4 DEF AddToNotifyList, Recheck, RemoveOwnEntry, InCall, storeVars
  <2>2. Store!GiveUp(r)
    BY <2>1, ReturnGivesUp
  <2>3. QED
    BY <2>2 DEF Store!Next
<1>5. QED
  BY <1>1, <1>2, <1>3, <1>4 DEF Continue

(* AddToReadMemList stores the response in hand, or drops it: only once    *)
(* the release has begun.                                                  *)
LEMMA AddImplements ==
    ASSUME TypeOK, StoreOrder, AddToReadMemList
    PROVE  Store!Next
<1>1. /\ UNCHANGED <<arrived, pc, tx, got, rel>>
      /\ cb.pc = "add" /\ cb.msg \in Responses /\ cb'.pc # "add"
      /\ mList \in Seq(Responses) /\ Len(mList) \in Nat
  BY LenProperties DEF AddToReadMemList, readerVars, TypeOK, Slots, Idle
<1>2. askedBar' = askedBar
  BY <1>1 DEF askedBar, InCall
<1>3. inFlightBar = {cb.msg} /\ inFlightBar' = {}
  BY <1>1 DEF inFlightBar
<1>4. CASE mbQMIValid /\ listed
  <2>1. mList' = Append(mList, cb.msg)
    BY <1>4 DEF AddToReadMemList
  <2>2. /\ Len(mList') = Len(mList) + 1
        /\ \A j \in 1..Len(mList) : mList'[j] = mList[j]
        /\ mList'[Len(mList) + 1] = cb.msg
    BY <1>1, <2>1, AppendProperties
  <2>3. /\ 1..Len(mList') = 1..Len(mList) \cup {Len(mList) + 1}
        /\ Len(mList) + 1 \notin 1..Len(mList)
    BY <1>1, <2>2
  <2>4. pendingBar' = pendingBar \cup inFlightBar
    BY <1>3, <2>2, <2>3 DEF pendingBar
  <2>5. Store!Store
    BY <1>1, <1>2, <1>3, <2>4
       DEF Store!Store, pendingBar, inFlightBar, askedBar
  <2>6. QED
    BY <2>5 DEF Store!Next
<1>5. CASE ~(mbQMIValid /\ listed)
  <2>1. rel.pc # "idle"
    BY <1>5 DEF StoreOrder
  <2>2. pendingBar' = pendingBar
    BY <1>5 DEF AddToReadMemList, pendingBar
  <2>3. Store!Discard
    BY <1>1, <1>2, <1>3, <2>1, <2>2
       DEF Store!Discard, pendingBar, inFlightBar, askedBar
  <2>4. QED
    BY <2>3 DEF Store!Next
<1>6. QED
  BY <1>4, <1>5

(* ReadCallback receives the next response, stores it, and wakes a reader, *)
(* which nobody sees. *)
LEMMA CallbackImplements ==
    ASSUME TypeOK, StoreOrder,
           (\E t \in ResponseIds : ReadCallback(t)) \/ Callback
    PROVE  [Store!Next]_Store!vars
<1>1. ASSUME NEW t \in ResponseIds, ReadCallback(t)
      PROVE  Store!Next
  <2>1. /\ cb.pc = "idle" /\ arrived < MaxResponses
        /\ arrived' = arrived + 1
        /\ cb'.pc = "add" /\ cb'.msg = [id |-> arrived + 1, tx |-> t]
        /\ UNCHANGED <<mList, pc, tx, got, rel>>
    BY <1>1 DEF ReadCallback, storeVars, readerVars
  <2>2. inFlightBar = {} /\ inFlightBar' = {[id |-> arrived + 1, tx |-> t]}
    BY <2>1 DEF inFlightBar
  <2>3. pendingBar' = pendingBar /\ askedBar' = askedBar
    BY <2>1 DEF pendingBar, askedBar, InCall
  <2>4. Store!Receive(t)
    BY <2>1, <2>2, <2>3
       DEF Store!Receive, pendingBar, inFlightBar, askedBar
  <2>5. QED
    BY <2>4 DEF Store!Next, TxIds
<1>2. ASSUME AddToReadMemList
      PROVE  Store!Next
  BY <1>2, AddImplements
<1>3. ASSUME CallbackNotify \/ CallbackUp
      PROVE  UNCHANGED Store!vars
  <2>1. UNCHANGED <<mList, arrived, pc, tx, got, rel>>
    BY <1>3 DEF CallbackNotify, CallbackUp, storeVars, readerVars
  <2>2. cb.pc # "add" /\ cb'.pc # "add"
    <3>1. Idle.pc # "add"
      BY DEF Idle
    <3>2. \A w : [cb EXCEPT !.pc = "call", !.who = w].pc # "add"
      BY DEF TypeOK, Slots
    <3>3. QED
      BY <1>3, <3>1, <3>2 DEF CallbackNotify, CallbackUp
  <2>3. /\ pendingBar' = pendingBar /\ inFlightBar' = inFlightBar
        /\ askedBar' = askedBar
    BY <2>1, <2>2 DEF pendingBar, inFlightBar, askedBar, InCall
  <2>4. QED
    BY <2>1, <2>3, Stutters
<1>4. QED
  BY <1>1, <1>2, <1>3 DEF Callback

(* ReleaseClientID closes the store first, and discards only then. *)
LEMMA ReleaseImplements ==
    ASSUME TypeOK, StoreOrder, ReleaseClientID \/ Release \/ Invalidate
    PROVE  [Store!Next]_Store!vars
<1>0. UNCHANGED <<arrived, pc, tx, got, cb>>
  BY DEF ReleaseClientID, Release, ReleaseNotify, ReleaseUp, ReleaseDrain,
     ReleaseDelete, Invalidate, readerVars
<1>1. inFlightBar' = inFlightBar /\ askedBar' = askedBar
  BY <1>0 DEF inFlightBar, askedBar, InCall
<1>2. CASE ReleaseClientID
  <2>1. pendingBar' = pendingBar /\ rel'.pc # "idle"
    BY <1>2 DEF ReleaseClientID, storeVars, pendingBar, TypeOK
  <2>2. Store!Close
    BY <1>0, <1>1, <2>1 DEF Store!Close, pendingBar, inFlightBar, askedBar
  <2>3. QED
    BY <2>2 DEF Store!Next
<1>3. CASE ReleaseNotify \/ ReleaseUp \/ Invalidate
  <2>1. pendingBar' = pendingBar
    BY <1>3 DEF ReleaseNotify, ReleaseUp, Invalidate, storeVars, pendingBar
  <2>2. rel.pc # "idle" /\ rel'.pc # "idle"
    BY <1>3 DEF ReleaseNotify, ReleaseUp, Invalidate, TypeOK
  <2>3. QED
    BY <1>0, <1>1, <2>1, <2>2, Stutters
<1>4. CASE ReleaseDrain \/ ReleaseDelete
  <2>1. rel.pc # "idle" /\ rel'.pc # "idle"
    BY <1>4 DEF ReleaseDrain, ReleaseDelete, TypeOK
  <2>2. \/ mList' = mList
        \/ mList' = << >>
        \/ mList # << >> /\ mList' = Tail(mList)
    <3>1. CASE ReleaseDrain /\ mbQMIValid /\ mList # << >>
      BY <3>1, Zenon DEF ReleaseDrain
    <3>2. CASE ReleaseDrain /\ ~(mbQMIValid /\ mList # << >>)
      BY <3>2, Zenon DEF ReleaseDrain
    <3>3. CASE ReleaseDelete
      BY <3>3, Zenon DEF ReleaseDelete
    <3>4. QED
      BY <1>4, <3>1, <3>2, <3>3
  <2>3. pendingBar' \subseteq pendingBar
    <3>1. CASE mList' = mList
      BY <3>1 DEF pendingBar
    <3>2. CASE mList' = << >>
      BY <3>2, EmptySeq DEF pendingBar
    <3>3. CASE mList # << >> /\ mList' = Tail(mList)
      <4>1. mList \in Seq(Responses) /\ Len(mList) \in Nat
        BY LenProperties DEF TypeOK
      <4>2. /\ Len(mList') = Len(mList) - 1
            /\ \A j \in 1..Len(mList') : mList'[j] = mList[j + 1]
        BY <3>3, <4>1, HeadTailProperties
      <4>3. \A j \in 1..Len(mList') : j + 1 \in 1..Len(mList)
        BY <4>1, <4>2
      <4>4. QED
        BY <4>2, <4>3 DEF pendingBar
    <3>4. QED
      BY <2>2, <3>1, <3>2, <3>3
  <2>4. Store!Discard
    BY <1>0, <1>1, <2>1, <2>3
       DEF Store!Discard, pendingBar, inFlightBar, askedBar
  <2>5. QED
    BY <2>4 DEF Store!Next
<1>5. QED
  BY <1>2, <1>3, <1>4 DEF Release

(* The data store of a client implements the abstract response store: a    *)
(* reader is given the oldest response that matches its transaction ID,    *)
(* each response goes to one reader at most, and none is dropped before    *)
(* ReleaseClientID; for any number of readers, IDs and responses, with     *)
(* sleeps cut short or not. *)
THEOREM StoreImplemented == Spec => StoreSpec
<1>1. Init => Store!Init
  <2>. SUFFICES ASSUME Init
                PROVE  Store!Init
    OBVIOUS
  <2>1. pendingBar = {} /\ inFlightBar = {}
    BY EmptySeq DEF Init, pendingBar, inFlightBar
  <2>2. askedBar = [r \in Readers |-> NONE]
    BY DEF Init, askedBar, InCall
  <2>3. QED
    BY <2>1, <2>2 DEF Init, Store!Init, pendingBar, inFlightBar, askedBar
<1>2. TypeOK /\ StoreOrder /\ [Next]_vars => [Store!Next]_Store!vars
  <2>. SUFFICES ASSUME TypeOK, StoreOrder, [Next]_vars
                PROVE  [Store!Next]_Store!vars
    OBVIOUS
  <2>1. CASE UNCHANGED vars
    <3>1. UNCHANGED <<mList, arrived, pc, tx, got, cb, rel>>
      BY <2>1 DEF vars, storeVars, readerVars
    <3>2. /\ pendingBar' = pendingBar /\ inFlightBar' = inFlightBar
          /\ askedBar' = askedBar
      BY <3>1 DEF pendingBar, inFlightBar, askedBar, InCall
    <3>3. QED
      BY <3>1, <3>2, Stutters
  <2>2. QED
    BY <2>1, ReaderImplements, CallbackImplements, ReleaseImplements DEF Next
<1>3. QED
  BY <1>1, <1>2, TypeCorrect, StoreOrdered, PTL
     DEF Spec, StoreSpec, Store!Spec

=============================================================================
