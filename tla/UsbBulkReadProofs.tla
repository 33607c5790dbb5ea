-------------------------- MODULE UsbBulkReadProofs --------------------------
(***************************************************************************)
(* Proofs about the bulk-IN path (UsbBulkRead), for every buffer length,   *)
(* number of URBs and transfer length: with one reader at a time, and as   *)
(* long as no queued URB is submitted and no resume fails (calm), the      *)
(* circular buffer and the queue of URBs neither lose, nor double, nor     *)
(* reorder a byte, through opens that fail and through suspends.           *)
(***************************************************************************)
EXTENDS UsbBulkRead, FiniteSetTheorems, TLAPS

(* One reader at a time. *)
OneReader == \A c, d \in Consumers : c = d

(***************************************************************************)
(* The inductive invariant.                                                *)
(***************************************************************************)
Moves == [pc : Copying \cup {"idle", "drain"}, size : Nat, from : Nat,
          n : Nat, endIdx : 0..BufLen, user : Seq(Nat)]

Types ==
    /\ opened \in BOOLEAN /\ suspended \in BOOLEAN
    /\ submitting \in [pc : {"idle", "submit", "mark"}, urb : 0..(NumURBs + 1)]
    /\ mReadBuff \in [0..(BufLen - 1) -> Nat]
    /\ mStartIdx \in 0..BufLen /\ mEndIdx \in 0..BufLen
    /\ mBufEmptyStatus \in BOOLEAN
    /\ mBulkUrbBuffList \in Seq(URBs)
    /\ urb \in [URBs -> {"idle", "inFlight", "failed"}]
    /\ urbData \in [URBs -> [first : Nat, len : Nat]]
    /\ sent \in Nat
    /\ out \in Seq(Nat)
    /\ copy \in [Consumers -> Moves]

(* The flag tells an empty buffer from a full one. *)
RingInv ==
    /\ mBufEmptyStatus => mStartIdx = mEndIdx
    /\ ~mBufEmptyStatus => mEndIdx > 0

(* An URB is queued once, is not in flight, and holds data that fits into  *)
(* an empty buffer. *)
QueueInv ==
    /\ \A i, j \in 1..Len(mBulkUrbBuffList) :
          mBulkUrbBuffList[i] = mBulkUrbBuffList[j] => i = j
    /\ \A j \in 1..Len(mBulkUrbBuffList) :
          /\ urb[mBulkUrbBuffList[j]] = "idle"
          /\ Queued(j).len > 0

(* While URBs are being submitted, during a suspend and after a close      *)
(* nobody reads; an open that submits has given nothing to a reader yet.   *)
RestInv ==
    /\ ~opened \/ suspended \/ ~SubmitIs("idle") =>
          \A c \in Consumers : copy[c].pc = "idle"
    /\ ~opened => out = << >>
    /\ ~SubmitIs("idle") /\ ~suspended => opened /\ out = << >>
    /\ SubmitIs("mark") => submitting.urb \in URBs

RingIntact == \A i \in 0..(Used - 1) : mReadBuff[Place(i)] = Len(out) + 1 + i
OutIntact == \A i \in 1..Len(out) : out[i] = i
QueueIntact ==
    /\ \A j \in 1..Len(mBulkUrbBuffList) : Queued(j).first = Reach(j - 1) + 1
    /\ \A j \in 0..Len(mBulkUrbBuffList) : Reach(j) <= sent
    /\ sent = Reach(Len(mBulkUrbBuffList))

IInv ==
    /\ Types /\ RingInv /\ QueueInv /\ RestInv /\ Window
    /\ OutIntact /\ RingIntact /\ QueueIntact

-----------------------------------------------------------------------------
(***************************************************************************)
(* The circular buffer.                                                    *)
(***************************************************************************)

(* Used is the number of bytes between the indices, and what Fits allows   *)
(* is what ReadBufferFreeSpace computes. *)
LEMMA UsedBounds ==
    ASSUME Types, RingInv
    PROVE  /\ BufLen \in Nat /\ BufLen > 0
           /\ Used \in 0..BufLen
           /\ ReadBufferFreeSpace = BufLen - Used
           /\ \A len \in Nat \ {0} : Fits(len) <=> len <= ReadBufferFreeSpace
<1>1. BufLen \in Nat /\ BufLen > 0
  BY SizesAssumption
<1>2. Used \in 0..BufLen /\ ReadBufferFreeSpace = BufLen - Used
  BY <1>1 DEF Types, RingInv, Used, ReadBufferFreeSpace
<1>3. ASSUME NEW len \in Nat \ {0}
      PROVE  Fits(len) <=> len <= ReadBufferFreeSpace
  BY <1>1 DEF Types, RingInv, ReadBufferFreeSpace, Fits
<1> QED BY <1>1, <1>2, <1>3

(* The modulus of an index that reaches the end of the buffer at most. *)
LEMMA IndexModulus ==
    ASSUME NEW x \in 0..BufLen
    PROVE  x % BufLen = IF x = BufLen THEN 0 ELSE x
<1>1. BufLen \in Nat \ {0}
  BY SizesAssumption
<1>2. CASE x = BufLen
  BY <1>1, <1>2
<1>3. CASE x < BufLen
  BY <1>1, <1>3
<1> QED BY <1>1, <1>2, <1>3

(* AddToReadMemList appends the data behind what the buffer holds; mEndIdx *)
(* moves towards mStartIdx and never past it. *)
LEMMA AddAppends ==
    ASSUME Types, RingInv, RingIntact,
           NEW data \in [first : Nat, len : Nat \ {0}],
           data.first = Len(out) + Used + 1, Fits(data.len),
           AddToReadMemList(data), out' = out
    PROVE  /\ mReadBuff' \in [0..(BufLen - 1) -> Nat]
           /\ mEndIdx' \in 0..BufLen
           /\ RingInv' /\ ~mBufEmptyStatus'
           /\ Used' = Used + data.len
           /\ RingIntact'
           /\ ~mBufEmptyStatus /\ mEndIdx <= mStartIdx =>
                 mEndIdx <= mEndIdx' /\ mEndIdx' <= mStartIdx
           /\ mStartIdx < mEndIdx =>
                 mEndIdx <= mEndIdx' \/ mEndIdx' <= mStartIdx
<1> DEFINE len == data.len
<1>0. len = data.len
  OBVIOUS
<1>1. BufLen \in Nat /\ BufLen > 0 /\ Used \in 0..BufLen
  BY UsedBounds
<1>2. len \in Nat /\ len > 0 /\ data.first \in Nat
  OBVIOUS
<1> HIDE DEF len
<1>3. /\ mStartIdx \in 0..BufLen /\ mEndIdx \in 0..BufLen
      /\ mBufEmptyStatus \in BOOLEAN /\ Len(out) \in Nat
      /\ mReadBuff \in [0..(BufLen - 1) -> Nat]
  BY DEF Types
<1>4. /\ mStartIdx' = mStartIdx /\ ~mBufEmptyStatus'
      /\ mEndIdx' = IF mEndIdx + len <= BufLen THEN mEndIdx + len
                                               ELSE mEndIdx + len - BufLen
  BY <1>0 DEF AddToReadMemList
<1>5. mReadBuff' \in [0..(BufLen - 1) -> Nat]
  <2>1. ASSUME NEW p \in 0..(BufLen - 1)
        PROVE  (IF mEndIdx <= p /\ p < mEndIdx + len
                THEN data.first + (p - mEndIdx)
                ELSE IF p + BufLen < mEndIdx + len
                     THEN data.first + (p + BufLen - mEndIdx)
                     ELSE mReadBuff[p]) \in Nat
    BY <1>1, <1>2, <1>3
  <2> QED BY <1>0, <2>1 DEF AddToReadMemList
<1>6. len <= BufLen - Used
  BY <1>0, <1>1, <1>2, UsedBounds
<1>a. ASSUME mBufEmptyStatus
      PROVE  mEndIdx' \in 0..BufLen /\ mEndIdx' > 0 /\ Used' = Used + len
  <2>1. Used = 0 /\ mStartIdx = mEndIdx
    BY <1>a DEF Used, RingInv
  <2>2. mEndIdx' \in 0..BufLen /\ mEndIdx' > 0
    BY <2>1, <1>1, <1>2, <1>3, <1>4, <1>6
  <2>3. Used' = len
    BY <2>1, <1>1, <1>2, <1>3, <1>4, <1>6 DEF Used
  <2> QED BY <2>1, <2>2, <2>3, <1>2, <1>4
<1>b. ASSUME ~mBufEmptyStatus, mStartIdx < mEndIdx
      PROVE  mEndIdx' \in 0..BufLen /\ mEndIdx' > 0 /\ Used' = Used + len
  <2>1. Used = mEndIdx - mStartIdx
    BY <1>b DEF Used
  <2>2. mEndIdx' \in 0..BufLen /\ mEndIdx' > 0
    BY <2>1, <1>b, <1>1, <1>2, <1>3, <1>4, <1>6
  <2>3. Used' = Used + len
    BY <2>1, <1>b, <1>1, <1>2, <1>3, <1>4, <1>6 DEF Used
  <2> QED BY <2>2, <2>3
<1>c. ASSUME ~mBufEmptyStatus, mStartIdx >= mEndIdx
      PROVE  mEndIdx' \in 0..BufLen /\ mEndIdx' > 0 /\ Used' = Used + len
  <2>1. Used = BufLen - (mStartIdx - mEndIdx)
    BY <1>c, <1>3 DEF Used
  <2>2. mEndIdx' \in 0..BufLen /\ mEndIdx' > 0 /\ mEndIdx' <= mStartIdx
    BY <2>1, <1>c, <1>1, <1>2, <1>3, <1>4, <1>6
  <2>3. Used' = Used + len
    BY <2>1, <2>2, <1>c, <1>1, <1>2, <1>3, <1>4, <1>6 DEF Used
  <2> QED BY <2>2, <2>3
<1>7. mEndIdx' \in 0..BufLen /\ RingInv'
  BY <1>3, <1>4, <1>a, <1>b, <1>c DEF RingInv
<1>8. Used' = Used + len
  BY <1>3, <1>a, <1>b, <1>c
<1>9. RingIntact'
  <2> SUFFICES ASSUME NEW i \in 0..(Used' - 1)
               PROVE  mReadBuff'[Place(i)] = Len(out) + 1 + i
    <3>1. \A i : Place(i)' = Place(i)
      BY <1>4 DEF Place
    <3> QED BY <3>1, Zenon DEF RingIntact
  <2>0. i \in 0..(Used + len - 1)
    BY <1>1, <1>2, <1>8
  <2>2. Place(i) \in 0..(BufLen - 1)
    BY <2>0, <1>1, <1>2, <1>3, <1>6 DEF Place
  <2>3. mReadBuff'[Place(i)] =
          IF mEndIdx <= Place(i) /\ Place(i) < mEndIdx + len
          THEN data.first + (Place(i) - mEndIdx)
          ELSE IF Place(i) + BufLen < mEndIdx + len
               THEN data.first + (Place(i) + BufLen - mEndIdx)
               ELSE mReadBuff[Place(i)]
    BY <1>0, <2>2 DEF AddToReadMemList
  <2>6. /\ Place(i) = IF mStartIdx + i < BufLen THEN mStartIdx + i
                        ELSE mStartIdx + i - BufLen
        /\ \/ mStartIdx = mEndIdx /\ Used = 0
           \/ mStartIdx < mEndIdx /\ Used = mEndIdx - mStartIdx
           \/ mStartIdx >= mEndIdx /\ Used = BufLen - (mStartIdx - mEndIdx)
    BY <1>3 DEF Place, Used, RingInv
  <2>7. /\ i \in Int /\ Used \in Int /\ mStartIdx \in 0..BufLen
        /\ mEndIdx \in 0..BufLen /\ BufLen \in Nat /\ len \in Nat
        /\ 0 <= i /\ i < Used + len /\ len <= BufLen - Used
    BY <2>0, <1>1, <1>2, <1>3, <1>6
  <2>4. CASE i < Used
    <3>1. mReadBuff[Place(i)] = Len(out) + 1 + i
      BY <2>0, <2>4, <1>1 DEF RingIntact
    <3>2. /\ ~(mEndIdx <= Place(i) /\ Place(i) < mEndIdx + len)
          /\ ~(Place(i) + BufLen < mEndIdx + len)
      BY <2>4, <2>6, <2>7
    <3> QED BY <2>3, <3>1, <3>2
  <2>5. CASE i >= Used
    <3>1. \/ Place(i) = mEndIdx + (i - Used)
          \/ Place(i) + BufLen = mEndIdx + (i - Used) /\ Place(i) < mEndIdx
      BY <2>5, <2>6, <2>7
    <3>2. i - Used < len /\ data.first + (i - Used) = Len(out) + 1 + i
      BY <2>0, <1>1, <1>2, <1>3
    <3>3. CASE Place(i) = mEndIdx + (i - Used)
      BY <2>2, <2>3, <2>5, <3>2, <3>3, <1>1, <1>2, <1>3
    <3>4. CASE Place(i) + BufLen = mEndIdx + (i - Used) /\ Place(i) < mEndIdx
      <4>1. mReadBuff'[Place(i)] = data.first + (Place(i) + BufLen - mEndIdx)
        <5>1. Place(i) + BufLen < mEndIdx + len
          BY <2>2, <2>7, <3>2, <3>4
        <5>2. ~(mEndIdx <= Place(i))
          BY <2>2, <2>7, <3>4
        <5> QED BY <2>3, <5>1, <5>2
      <4>2. Place(i) + BufLen - mEndIdx = i - Used
        <5> DEFINE p == Place(i)
        <5>1. p \in Nat /\ i \in Int /\ Used \in Int /\ mEndIdx \in Int
              /\ BufLen \in Int /\ p + BufLen = mEndIdx + (i - Used)
          BY <2>0, <2>2, <3>4, <1>1, <1>2, <1>3
        <5> HIDE DEF p
        <5>2. p + BufLen - mEndIdx = i - Used
          BY <5>1
        <5> QED BY <5>2 DEF p
      <4> QED BY <4>1, <4>2, <3>2
    <3> QED BY <3>1, <3>3, <3>4
  <2> QED BY <2>4, <2>5, <1>1
<1>10. /\ ~mBufEmptyStatus /\ mEndIdx <= mStartIdx =>
              mEndIdx <= mEndIdx' /\ mEndIdx' <= mStartIdx
       /\ mStartIdx < mEndIdx =>
              mEndIdx <= mEndIdx' \/ mEndIdx' <= mStartIdx
  BY <1>1, <1>2, <1>3, <1>4, <1>6 DEF RingInv, Used
<1> QED BY <1>0, <1>4, <1>5, <1>7, <1>8, <1>9, <1>10

(* What a reader has copied once the move is complete is the front of the  *)
(* circular buffer, although the lock was dropped. *)
LEMMA CopiedIsFront ==
    ASSUME Types, RingInv, RingIntact, Window,
           NEW c \in Consumers, copy[c].pc \in Copying
    PROVE  /\ Len(copy[c].user) + copy[c].n \in 1..Used
           /\ Copied(c) = [i \in 1..(Len(copy[c].user) + copy[c].n) |->
                              Len(out) + i]
<1> DEFINE m == copy[c]
           k == Len(m.user)
           n == m.n
<1>1. BufLen \in Nat /\ BufLen > 0 /\ Used \in 0..BufLen
  BY UsedBounds
<1>2. m \in Moves /\ k \in Nat /\ n \in Nat /\ m.endIdx \in 0..BufLen
      /\ m.n = n /\ m.size \in Nat
      /\ m.from \in Nat /\ Len(out) \in Nat
  <2>1. m \in Moves
    BY DEF Types
  <2> QED BY <2>1 DEF Moves, Types
<1>3. /\ ~mBufEmptyStatus /\ n > 0 /\ Front(m)
      /\ m.from = IF m.pc \in {"leg2", "leg3"} THEN 0 ELSE mStartIdx
      /\ k = IF m.pc \in {"leg2", "leg3"} THEN BufLen - mStartIdx ELSE 0
      /\ \A i \in 1..k : m.user[i] = Len(out) + i
  BY DEF Window
<1>4. mStartIdx \in 0..BufLen /\ mEndIdx \in 0..BufLen /\ mEndIdx > 0
  BY <1>3 DEF Types, RingInv
<1>5. Copied(c) = [i \in 1..(k + n) |->
                      IF i <= k THEN m.user[i]
                                ELSE mReadBuff[m.from + (i - k - 1)]]
  BY DEF Copied
<1> HIDE DEF m, k, n
<1>6. CASE m.pc \in {"leg2", "leg3"}
  <2>1. /\ mEndIdx <= mStartIdx /\ n <= mEndIdx
        /\ m.from = 0 /\ k = BufLen - mStartIdx
    <3>1. CASE m.pc = "leg2"
      BY <1>2, <1>3, <1>4, <3>1 DEF Front
    <3>2. CASE m.pc = "leg3"
      BY <1>2, <1>3, <1>4, <3>2 DEF Front
    <3> QED BY <1>6, <3>1, <3>2
  <2>2. Used = BufLen - (mStartIdx - mEndIdx)
    BY <2>1, <1>3, <1>4 DEF Used
  <2>3. k + n \in 1..Used
    BY <2>1, <2>2, <1>1, <1>2, <1>3, <1>4
  <2>4. ASSUME NEW i \in 1..(k + n), i > k
        PROVE  mReadBuff[m.from + (i - k - 1)] = Len(out) + i
    <3>1. Place(i - 1) = i - k - 1
      BY <2>1, <2>4, <1>1, <1>2, <1>4 DEF Place
    <3>2. mReadBuff[Place(i - 1)] = Len(out) + 1 + (i - 1)
      BY <2>3, <1>1, <1>2 DEF RingIntact
    <3>3. m.from + (i - k - 1) = i - k - 1 /\ Len(out) + 1 + (i - 1) = Len(out) + i
      BY <2>1, <1>2
    <3> QED BY <3>1, <3>2, <3>3
  <2>5. Copied(c) = [i \in 1..(k + n) |-> Len(out) + i]
    BY <2>4, <1>2, <1>3, <1>5
  <2> QED BY <2>3, <2>5 DEF m, k, n
<1>7. CASE m.pc \in {"short", "all", "flat", "leg1"}
  <2>1. m.from = mStartIdx /\ k = 0
    BY <1>3, <1>7
  <2>a. ASSUME m.pc \in {"short", "all"}
        PROVE  mStartIdx + n <= m.endIdx /\ m.endIdx <= BufLen /\ Ahead(m)
    BY <2>1, <2>a, <1>2, <1>3 DEF Front
  <2>b. ASSUME m.pc \in {"flat", "leg1"}
        PROVE  mStartIdx + n <= BufLen /\ mEndIdx <= mStartIdx
    BY <2>1, <2>b, <1>2, <1>3, <1>4 DEF Front
  <2>2. n <= Used /\ mStartIdx + n <= BufLen
    <3>1. CASE m.pc \in {"short", "all"}
      BY <2>a, <3>1, <1>1, <1>2, <1>3, <1>4 DEF Used, Ahead
    <3>2. CASE m.pc \in {"flat", "leg1"}
      BY <2>b, <3>2, <1>1, <1>2, <1>3, <1>4 DEF Used
    <3> QED BY <1>7, <3>1, <3>2
  <2>4. ASSUME NEW i \in 1..n
        PROVE  mReadBuff[m.from + (i - k - 1)] = Len(out) + i
    <3>1. Place(i - 1) = mStartIdx + (i - 1)
      BY <2>1, <2>2, <1>1, <1>2, <1>4 DEF Place
    <3>2. mReadBuff[Place(i - 1)] = Len(out) + 1 + (i - 1)
      BY <2>2, <1>1, <1>2 DEF RingIntact
    <3>3. /\ m.from + (i - k - 1) = mStartIdx + (i - 1)
          /\ Len(out) + 1 + (i - 1) = Len(out) + i
      BY <2>1, <1>2, <1>4
    <3> QED BY <3>1, <3>2, <3>3
  <2>5. k + n = n /\ \A i \in 1..n : ~(i <= k)
    BY <2>1, <1>2
  <2> QED BY <2>1, <2>2, <2>4, <2>5, <1>1, <1>2, <1>3, <1>5 DEF m, k, n
<1> QED BY <1>6, <1>7 DEF Copying, m, k, n

(* Advance moves mStartIdx past just those bytes. *)
LEMMA AdvanceTakesFront ==
    ASSUME Types, RingInv, RingIntact, Window,
           NEW c \in Consumers, copy[c].pc \in Copying \ {"leg1"},
           Advance(c), mEndIdx' = mEndIdx, mReadBuff' = mReadBuff
    PROVE  /\ mStartIdx' \in 0..BufLen /\ mBufEmptyStatus' \in BOOLEAN
           /\ RingInv'
           /\ LET k == Len(copy[c].user) + copy[c].n IN
              /\ Used' = Used - k
              /\ \A i \in 0..(Used' - 1) : Place(i)' = Place(i + k)
<1> DEFINE m == copy[c]
           k == Len(m.user)
           n == m.n
<1>1. BufLen \in Nat /\ BufLen > 0 /\ Used \in 0..BufLen
  BY UsedBounds
<1>2. m \in Moves /\ k \in Nat /\ n \in Nat /\ m.endIdx \in 0..BufLen
      /\ m.n = n /\ m.size \in Nat
      /\ m.from \in Nat
  <2>1. m \in Moves
    BY DEF Types
  <2> QED BY <2>1 DEF Moves, Types
<1>3. /\ ~mBufEmptyStatus /\ n > 0 /\ Front(m)
      /\ m.from = IF m.pc \in {"leg2", "leg3"} THEN 0 ELSE mStartIdx
      /\ k = IF m.pc \in {"leg2", "leg3"} THEN BufLen - mStartIdx ELSE 0
  BY DEF Window
<1>4. mStartIdx \in 0..BufLen /\ mEndIdx \in 0..BufLen /\ mEndIdx > 0
  BY <1>3 DEF Types, RingInv
<1>5. \/ m.pc = "short" /\ mStartIdx' = mStartIdx + n /\ ~mBufEmptyStatus'
      \/ /\ m.pc \in {"all", "leg3"} /\ mStartIdx' = m.endIdx
         /\ (mBufEmptyStatus' <=> mEndIdx = m.endIdx)
      \/ /\ m.pc = "flat" /\ mStartIdx' = (mStartIdx + n) % BufLen
         /\ ~mBufEmptyStatus'
      \/ m.pc = "leg2" /\ mStartIdx' = n /\ ~mBufEmptyStatus'
  BY <1>3 DEF Advance, EmptyUnless, Types
<1>a. mBufEmptyStatus' \in BOOLEAN
  BY <1>3 DEF Advance, EmptyUnless, Types
<1> HIDE DEF m, k, n
<1>6. CASE m.pc = "short"
  <2>1. /\ mStartIdx' = mStartIdx + n /\ ~mBufEmptyStatus' /\ k = 0
        /\ mStartIdx + n < m.endIdx /\ Ahead(m)
    BY <1>2, <1>3, <1>5, <1>6 DEF Front
  <2>2. mStartIdx' \in 0..BufLen /\ Used' = Used - (k + n)
    BY <2>1, <1>1, <1>2, <1>3, <1>4 DEF Used, Ahead
  <2>3. ASSUME NEW i \in 0..(Used' - 1)
        PROVE  Place(i)' = Place(i + (k + n))
    BY <2>1, <2>2, <1>1, <1>2, <1>3, <1>4 DEF Place
  <2> QED BY <1>a, <2>1, <2>2, <2>3, <1>4 DEF RingInv, m, k, n
<1>7. CASE m.pc = "all"
  <2>1. /\ mStartIdx' = mStartIdx + n /\ mStartIdx + n = m.endIdx /\ k = 0
        /\ (mBufEmptyStatus' <=> mEndIdx = m.endIdx) /\ Ahead(m)
    BY <1>2, <1>3, <1>5, <1>7 DEF Front
  <2>a. mStartIdx' \in 0..BufLen /\ mStartIdx < m.endIdx
    BY <2>1, <1>1, <1>2, <1>3, <1>4
  <2>2. Used' = Used - (k + n)
    <3>1. CASE mEndIdx = m.endIdx
      BY <2>1, <2>a, <3>1, <1>1, <1>2, <1>3, <1>4 DEF Used
    <3>2. CASE mEndIdx > m.endIdx
      BY <2>1, <2>a, <3>2, <1>1, <1>2, <1>3, <1>4 DEF Used
    <3>3. CASE mEndIdx <= mStartIdx
      BY <2>1, <2>a, <3>3, <1>1, <1>2, <1>3, <1>4 DEF Used
    <3> QED BY <2>1, <3>1, <3>2, <3>3, <1>2, <1>4 DEF Ahead
  <2>3. ASSUME NEW i \in 0..(Used' - 1)
        PROVE  Place(i)' = Place(i + (k + n))
    BY <2>1, <2>2, <1>1, <1>2, <1>3, <1>4 DEF Place
  <2> QED BY <1>a, <2>1, <2>a, <2>2, <2>3, <1>4 DEF RingInv, m, k, n
<1>8. CASE m.pc = "flat"
  <2>1. /\ mStartIdx' = (mStartIdx + n) % BufLen /\ ~mBufEmptyStatus' /\ k = 0
        /\ mStartIdx + n <= BufLen /\ mEndIdx <= mStartIdx
    BY <1>2, <1>3, <1>5, <1>8 DEF Front
  <2>2. mStartIdx' = IF mStartIdx + n = BufLen THEN 0 ELSE mStartIdx + n
    BY <2>1, <1>1, <1>2, <1>4, IndexModulus
  <2>3. mStartIdx' \in 0..BufLen /\ Used' = Used - (k + n)
    BY <2>1, <2>2, <1>1, <1>2, <1>3, <1>4 DEF Used
  <2>4. Used = BufLen - (mStartIdx - mEndIdx)
    BY <2>1, <1>3, <1>4 DEF Used
  <2>5. ASSUME NEW i \in 0..(Used' - 1)
        PROVE  Place(i)' = Place(i + (k + n))
    BY <2>1, <2>2, <2>3, <2>4, <1>1, <1>2, <1>3, <1>4 DEF Place
  <2> QED BY <1>a, <2>1, <2>3, <2>5, <1>4 DEF RingInv, m, k, n
<1>9. CASE m.pc \in {"leg2", "leg3"}
  <2>1. /\ mStartIdx' = n /\ k = BufLen - mStartIdx
        /\ n <= mEndIdx /\ mEndIdx <= mStartIdx
        /\ (mBufEmptyStatus' <=> n = mEndIdx)
    <3>1. CASE m.pc = "leg2"
      <4>1. n < m.endIdx /\ m.endIdx <= mEndIdx /\ mEndIdx <= mStartIdx
        BY <1>2, <1>3, <3>1 DEF Front
      <4>2. n < mEndIdx /\ mStartIdx' = n /\ ~mBufEmptyStatus'
        BY <4>1, <1>2, <1>4, <1>5, <3>1
      <4> QED BY <4>1, <4>2, <1>2, <1>3, <1>4, <3>1
    <3>2. CASE m.pc = "leg3"
      BY <1>2, <1>3, <1>4, <1>5, <3>2 DEF Front
    <3> QED BY <1>9, <3>1, <3>2
  <2>2. Used = BufLen - (mStartIdx - mEndIdx)
    BY <2>1, <1>3, <1>4 DEF Used
  <2>3. mStartIdx' \in 0..BufLen /\ Used' = Used - (k + n)
    <3>1. CASE n = mEndIdx
      BY <2>1, <2>2, <3>1, <1>1, <1>2, <1>3, <1>4 DEF Used
    <3>2. CASE n < mEndIdx
      BY <2>1, <2>2, <3>2, <1>1, <1>2, <1>3, <1>4 DEF Used
    <3> QED BY <2>1, <3>1, <3>2, <1>2, <1>4
  <2>5. ASSUME NEW i \in 0..(Used' - 1)
        PROVE  Place(i)' = Place(i + (k + n))
    BY <2>1, <2>2, <2>3, <1>1, <1>2, <1>3, <1>4 DEF Place
  <2> QED BY <1>a, <2>1, <2>3, <2>5, <1>3, <1>4 DEF RingInv, m, k, n
<1> QED BY <1>a, <1>6, <1>7, <1>8, <1>9 DEF Copying, m

-----------------------------------------------------------------------------
(***************************************************************************)
(* The queue of URBs.                                                      *)
(***************************************************************************)

(* The URBs of the queue are distinct, so that an URB in flight leaves a   *)
(* node free. *)
LEMMA QueueRoom ==
    ASSUME Types, QueueInv, NEW u \in URBs, urb[u] = "inFlight"
    PROVE  Len(mBulkUrbBuffList) < NumURBs
<1> DEFINE q == mBulkUrbBuffList
           len == Len(q)
           f == [j \in 1..len |-> q[j]]
<1>1. NumURBs \in Nat /\ q \in Seq(URBs) /\ len \in Nat
  BY SizesAssumption DEF Types
<1>2. \A j \in 1..len : q[j] \in URBs /\ q[j] # u
  BY <1>1 DEF QueueInv
<1>3. IsFiniteSet(1..len) /\ Cardinality(1..len) = len
  BY <1>1, FS_Interval
<1>4. IsFiniteSet(URBs) /\ Cardinality(URBs) = NumURBs
  BY <1>1, FS_Interval DEF URBs
<1>5. IsFiniteSet(URBs \ {u}) /\ Cardinality(URBs \ {u}) = NumURBs - 1
  BY <1>4, FS_RemoveElement
<1>6. f \in Injection(1..len, URBs \ {u})
  <2>1. f \in [1..len -> URBs \ {u}]
    BY <1>2
  <2>2. \A i, j \in 1..len : f[i] = f[j] => i = j
    BY DEF QueueInv
  <2> QED BY <2>1, <2>2 DEF Injection, IsInjective
<1>7. len <= NumURBs - 1
  BY <1>3, <1>5, <1>6, FS_Injection
<1> QED BY <1>1, <1>7

(* Reach is an integer. *)
LEMMA ReachTypes ==
    ASSUME Types, RingInv
    PROVE  \A j \in 0..Len(mBulkUrbBuffList) : Reach(j) \in Int
<1>1. Len(out) \in Nat /\ Used \in Nat
  BY UsedBounds DEF Types
<1>2. ASSUME NEW j \in 1..Len(mBulkUrbBuffList) PROVE Reach(j) \in Int
  BY <1>2 DEF Types, Reach, Queued
<1>3. Reach(0) \in Int
  BY <1>1 DEF Reach
<1>4. \A j \in 0..Len(mBulkUrbBuffList) :
         j = 0 \/ j \in 1..Len(mBulkUrbBuffList)
  BY DEF Types
<1> QED BY <1>2, <1>3, <1>4

(* Steps that change neither the circular buffer nor what was read. *)
LEMMA RingFrame ==
    ASSUME RingInv, RingIntact, OutIntact, UNCHANGED <<ringVars, out>>
    PROVE  /\ RingInv' /\ RingIntact' /\ OutIntact'
           /\ Used' = Used
BY DEF RingInv, RingIntact, OutIntact, ringVars, Used, Place

(* Steps that leave the queue and the data of its URBs alone, and move     *)
(* bytes at most from the buffer to a reader. *)
LEMMA QueueFrame ==
    ASSUME QueueIntact, Len(out)' + Used' = Len(out) + Used,
           UNCHANGED <<mBulkUrbBuffList, urbData, sent>>
    PROVE  QueueIntact'
<1>1. \A j : Reach(j)' = Reach(j) /\ Queued(j)' = Queued(j)
  BY DEF Reach, Queued
<1> QED BY <1>1 DEF QueueIntact

(* Readers are not disturbed by a step that leaves them, the buffer and    *)
(* what was read alone. *)
LEMMA WindowFrame ==
    ASSUME Window, UNCHANGED <<ringVars, out, copy>>
    PROVE  Window'
BY DEF Window, Front, Ahead, ringVars

(* A step that ends with no reader in the middle of a copy. *)
LEMMA WindowIdle ==
    ASSUME OneReader, NEW c \in Consumers, copy'[c].pc \notin Copying
    PROVE  Window'
<1>1. \A d \in Consumers : d = c
  BY DEF OneReader
<1> QED BY <1>1 DEF Window

-----------------------------------------------------------------------------
(***************************************************************************)
(* The steps.                                                              *)
(***************************************************************************)
LEMMA InitIInv == Init => IInv
<1> SUFFICES ASSUME Init PROVE IInv
  OBVIOUS
<1>1. Types
  <2>1. NoCopy \in Moves
    BY SizesAssumption DEF NoCopy, Moves
  <2>6. /\ suspended \in BOOLEAN
        /\ submitting \in [pc : {"idle", "submit", "mark"}, urb : 0..(NumURBs + 1)]
    <3>1. 0 \in 0..(NumURBs + 1)
      BY SizesAssumption
    <3> QED BY <3>1 DEF Init, NotSubmitting
  <2>2. urb \in [URBs -> {"idle", "inFlight", "failed"}]
    BY DEF Init
  <2>3. copy \in [Consumers -> Moves]
    BY <2>1 DEF Init
  <2>4. /\ mReadBuff \in [0..(BufLen - 1) -> Nat]
        /\ urbData \in [URBs -> [first : Nat, len : Nat]]
    BY DEF Init, NoData
  <2>5. /\ mStartIdx \in 0..BufLen /\ mEndIdx \in 0..BufLen
        /\ mBufEmptyStatus \in BOOLEAN /\ opened \in BOOLEAN /\ sent \in Nat
        /\ mBulkUrbBuffList \in Seq(URBs) /\ out \in Seq(Nat)
    <3>1. /\ mStartIdx = 0 /\ mEndIdx = 0 /\ mBufEmptyStatus = TRUE
          /\ opened = FALSE /\ sent = 0
          /\ mBulkUrbBuffList = << >> /\ out = << >>
      BY DEF Init
    <3>2. 0 \in 0..BufLen
      BY SizesAssumption
    <3>3. << >> \in Seq(URBs) /\ << >> \in Seq(Nat)
      OBVIOUS
    <3>4. QED
      BY <3>1, <3>2, <3>3
  <2> QED BY <2>2, <2>3, <2>4, <2>5, <2>6 DEF Types
<1>2. RingInv /\ QueueInv /\ RestInv
  BY DEF Init, RingInv, QueueInv, RestInv, NoCopy, SubmitIs, NotSubmitting
<1>3. Window
  BY DEF Init, Window, NoCopy, Copying
<1>4. OutIntact /\ RingIntact /\ QueueIntact
  BY DEF Init, OutIntact, RingIntact, QueueIntact, Used, Reach
<1> QED BY <1>1, <1>2, <1>3, <1>4 DEF IInv

(* Steps that leave the data and its readers alone: opens, suspends,       *)
(* resumes, and those of SubmitAllReadUrb. *)
LEMMA OpenFrame ==
    ASSUME IInv, Types', QueueInv', RestInv',
           \A j \in 1..Len(mBulkUrbBuffList) : Queued(j)' = Queued(j),
           UNCHANGED <<ringVars, mBulkUrbBuffList, sent, out, copy>>
    PROVE  IInv'
<1>1. RingInv' /\ RingIntact' /\ OutIntact' /\ Used' = Used
  BY RingFrame DEF IInv
<1>2. Window'
  BY WindowFrame DEF IInv
<1>3. QueueIntact'
  <2>1. \A j \in 0..Len(mBulkUrbBuffList) : Reach(j)' = Reach(j)
    <3>1. \A j \in 0..Len(mBulkUrbBuffList) :
             j = 0 \/ j \in 1..Len(mBulkUrbBuffList)
      BY DEF IInv, Types
    <3> QED BY <1>1, <3>1 DEF Reach
  <2>2. \A j \in 1..Len(mBulkUrbBuffList) :
           j - 1 \in 0..Len(mBulkUrbBuffList)
    BY DEF IInv, Types
  <2>3. Len(mBulkUrbBuffList) \in 0..Len(mBulkUrbBuffList)
    BY DEF IInv, Types
  <2> QED BY <2>1, <2>2, <2>3 DEF IInv, QueueIntact
<1> QED BY <1>1, <1>2, <1>3 DEF IInv

LEMMA OpenStep ==
    ASSUME IInv, UserspaceQTIDevOpen \/ QTIDevUSBResume
    PROVE  IInv'
<1>1. /\ SubmitIs("idle")
      /\ UNCHANGED <<ringVars, urbVars, sent, out, copy>>
      /\ opened' \in BOOLEAN /\ suspended' \in BOOLEAN
      /\ submitting' = submitting \/ SubmitNext(1)
  BY DEF IInv, Types, UserspaceQTIDevOpen, QTIDevUSBResume
<1>2. Types'
  <2>1. submitting' \in [pc : {"idle", "submit", "mark"}, urb : 0..(NumURBs + 1)]
    <3>1. 1 \in 0..(NumURBs + 1)
      BY SizesAssumption
    <3> QED BY <1>1, <3>1 DEF IInv, Types, SubmitNext
  <2> QED BY <1>1, <2>1 DEF IInv, Types, ringVars, urbVars
<1>3. QueueInv'
  BY <1>1 DEF IInv, QueueInv, Queued, urbVars
<1>4. RestInv'
  BY <1>1 DEF IInv, RestInv, SubmitIs, SubmitNext, UserspaceQTIDevOpen,
              QTIDevUSBResume
<1>5. \A j : Queued(j)' = Queued(j)
  BY <1>1 DEF Queued, urbVars
<1> QED BY <1>1, <1>2, <1>3, <1>4, <1>5, OpenFrame DEF urbVars

(* SubmitAllReadUrb touches no URB of the queue, as long as it is calm. *)
LEMMA SubmitStep ==
    ASSUME IInv, SubmitAllReadUrb, ~Requeues
    PROVE  IInv'
<1>1. /\ UNCHANGED <<ringVars, mBulkUrbBuffList, sent, out, copy>>
      /\ ~SubmitIs("idle")
  BY DEF SubmitAllReadUrb, SkipRead, SubmitRead, MarkSubmitted, RefuseRead,
         SubmitDone, SubmitIs, urbVars
<1>2. /\ urb \in [URBs -> {"idle", "inFlight", "failed"}]
      /\ urbData \in [URBs -> [first : Nat, len : Nat]]
      /\ submitting \in [pc : {"idle", "submit", "mark"}, urb : 0..(NumURBs + 1)]
      /\ mBulkUrbBuffList \in Seq(URBs)
  BY DEF IInv, Types
<1>3. \/ UNCHANGED <<urb, urbData>>
      \/ /\ submitting.urb \in URBs /\ ~InQueue(submitting.urb)
         /\ urb' = [urb EXCEPT ![submitting.urb] = "inFlight"]
         /\ urbData' = [urbData EXCEPT ![submitting.urb] = NoData]
  BY DEF SubmitAllReadUrb, SkipRead, SubmitRead, MarkSubmitted, RefuseRead,
         SubmitDone, Requeues, urbVars
<1>4. \A j \in 1..Len(mBulkUrbBuffList) :
         /\ urb'[mBulkUrbBuffList[j]] = urb[mBulkUrbBuffList[j]]
         /\ urbData'[mBulkUrbBuffList[j]] = urbData[mBulkUrbBuffList[j]]
  <2> SUFFICES ASSUME NEW j \in 1..Len(mBulkUrbBuffList)
               PROVE  /\ urb'[mBulkUrbBuffList[j]] = urb[mBulkUrbBuffList[j]]
                      /\ urbData'[mBulkUrbBuffList[j]] = urbData[mBulkUrbBuffList[j]]
    OBVIOUS
  <2>1. mBulkUrbBuffList[j] \in URBs
    BY <1>2
  <2>2. ~InQueue(submitting.urb) => mBulkUrbBuffList[j] # submitting.urb
    BY DEF InQueue
  <2> QED BY <1>2, <1>3, <2>1, <2>2
<1>5. \A j \in 1..Len(mBulkUrbBuffList) : Queued(j)' = Queued(j)
  BY <1>1, <1>4 DEF Queued
<1>6. QueueInv'
  BY <1>1, <1>4, <1>5 DEF IInv, QueueInv
<1>7. Types'
  <2>1. /\ urb' \in [URBs -> {"idle", "inFlight", "failed"}]
        /\ urbData' \in [URBs -> [first : Nat, len : Nat]]
    <3>1. NoData \in [first : Nat, len : Nat]
      BY DEF NoData
    <3>2. CASE UNCHANGED <<urb, urbData>>
      BY <1>2, <3>2
    <3>3. CASE /\ submitting.urb \in URBs
               /\ urb' = [urb EXCEPT ![submitting.urb] = "inFlight"]
               /\ urbData' = [urbData EXCEPT ![submitting.urb] = NoData]
      BY <1>2, <3>1, <3>3
    <3> QED BY <1>3, <3>2, <3>3
  <2>2. submitting' \in [pc : {"idle", "submit", "mark"}, urb : 0..(NumURBs + 1)]
    <3>1. ASSUME NEW u \in URBs
          PROVE  u + 1 \in 0..(NumURBs + 1)
      BY SizesAssumption DEF URBs
    <3>2. SubmitIs("mark") => submitting.urb \in URBs
      BY DEF IInv, RestInv
    <3>3. 0 \in 0..(NumURBs + 1)
      BY SizesAssumption
    <3>4. CASE SkipRead
      BY <3>1, <3>4 DEF SkipRead, SubmitNext
    <3>5. CASE SubmitRead
      BY <3>5, <1>2 DEF SubmitRead
    <3>6. CASE MarkSubmitted
      BY <3>1, <3>2, <3>6 DEF MarkSubmitted, SubmitNext
    <3>7. CASE RefuseRead \/ SubmitDone
      BY <3>3, <3>7 DEF RefuseRead, SubmitDone, NotSubmitting
    <3> QED BY <3>4, <3>5, <3>6, <3>7 DEF SubmitAllReadUrb
  <2>3. opened' \in BOOLEAN /\ suspended' \in BOOLEAN
    BY DEF IInv, Types, SubmitAllReadUrb, SkipRead, SubmitRead, MarkSubmitted,
           RefuseRead, SubmitDone
  <2> QED BY <1>1, <2>1, <2>2, <2>3 DEF IInv, Types, ringVars
<1>8. RestInv'
  <2>1. \A c \in Consumers : copy'[c].pc = "idle"
    BY <1>1 DEF IInv, RestInv
  <2>2. ~opened' => out' = << >>
    BY <1>1 DEF IInv, RestInv, SubmitAllReadUrb, SkipRead, SubmitRead,
                MarkSubmitted, RefuseRead, SubmitDone
  <2>3. ~SubmitIs("idle")' /\ ~suspended' => opened' /\ out' = << >>
    BY <1>1 DEF IInv, RestInv, SubmitAllReadUrb, SkipRead, SubmitRead,
                MarkSubmitted, RefuseRead, SubmitDone, SubmitIs, NotSubmitting
  <2>4. SubmitIs("mark")' => submitting'.urb \in URBs
    BY <1>2 DEF SubmitAllReadUrb, SkipRead, SubmitRead, MarkSubmitted,
                RefuseRead, SubmitDone, SubmitIs, SubmitNext, NotSubmitting
  <2> QED BY <2>1, <2>2, <2>3, <2>4 DEF RestInv
<1> QED BY <1>1, <1>5, <1>6, <1>7, <1>8, OpenFrame

LEMMA SuspendStep ==
    ASSUME IInv, QTIDevUSBSuspend
    PROVE  IInv'
<1>1. /\ urb' = [u \in URBs |-> "idle"]
      /\ suspended' = TRUE /\ SubmitIs("idle")
      /\ \A c \in Consumers : copy[c].pc = "idle"
      /\ UNCHANGED <<opened, submitting, ringVars, mBulkUrbBuffList, urbData,
                     sent, out, copy>>
  BY DEF QTIDevUSBSuspend, StopRead
<1>2. Types'
  BY <1>1 DEF IInv, Types, ringVars
<1>3. \A j : Queued(j)' = Queued(j)
  BY <1>1 DEF Queued
<1>4. QueueInv'
  <2>1. \A j \in 1..Len(mBulkUrbBuffList) : mBulkUrbBuffList[j] \in URBs
    BY DEF IInv, Types
  <2> QED BY <1>1, <1>3, <2>1 DEF IInv, QueueInv
<1>5. RestInv'
  BY <1>1 DEF IInv, RestInv, SubmitIs
<1> QED BY <1>1, <1>2, <1>3, <1>4, <1>5, OpenFrame

LEMMA ReleaseStep ==
    ASSUME IInv, UserspaceQTIDevRelease
    PROVE  IInv'
<1>1. /\ mBulkUrbBuffList' = << >> /\ sent' = 0 /\ out' = << >>
      /\ mStartIdx' = 0 /\ mEndIdx' = 0 /\ mBufEmptyStatus'
      /\ mBufEmptyStatus' \in BOOLEAN
      /\ ~opened' /\ opened' \in BOOLEAN /\ ~suspended /\ SubmitIs("idle")
      /\ UNCHANGED <<suspended, submitting, copy>>
      /\ \A c \in Consumers : copy[c].pc = "idle"
  BY DEF UserspaceQTIDevRelease
<1>2. Types'
  BY <1>1, SizesAssumption
     DEF IInv, Types, UserspaceQTIDevRelease, StopRead, NoData
<1>3. RingInv' /\ QueueInv' /\ RestInv'
  BY <1>1 DEF IInv, RingInv, QueueInv, RestInv, SubmitIs
<1>4. Window'
  BY <1>1 DEF Window, Copying
<1>5. OutIntact' /\ RingIntact' /\ QueueIntact'
  BY <1>1 DEF OutIntact, RingIntact, QueueIntact, Used, Reach
<1> QED BY <1>2, <1>3, <1>4, <1>5 DEF IInv

(* The data of URB u goes behind the queue. *)
LEMMA QueueAppends ==
    ASSUME IInv, NEW u \in URBs, NEW data \in [first : Nat, len : Nat \ {0}],
           urb[u] = "inFlight", data.first = sent + 1,
           sent' = sent + data.len,
           mBulkUrbBuffList' = Append(mBulkUrbBuffList, u),
           urb' = [urb EXCEPT ![u] = "idle"],
           urbData' = [urbData EXCEPT ![u] = data],
           UNCHANGED <<ringVars, out>>
    PROVE  QueueInv' /\ QueueIntact'
<1> DEFINE q == mBulkUrbBuffList
<1>0. PICK len \in Nat : len = Len(q)
  BY DEF IInv, Types
<1>1. /\ q \in Seq(URBs) /\ len \in Nat /\ len = Len(q)
      /\ urb \in [URBs -> {"idle", "inFlight", "failed"}]
      /\ urbData \in [URBs -> [first : Nat, len : Nat]]
      /\ sent \in Nat
  BY <1>0 DEF IInv, Types
<1>2. \A j \in 1..len : q[j] \in URBs /\ q[j] # u /\ urb[q[j]] = "idle"
  BY <1>1 DEF IInv, QueueInv
<1>3. /\ Len(q') = len + 1 /\ q'[len + 1] = u
      /\ \A j \in 1..len : q'[j] = q[j]
  BY <1>1
<1>4. \A j \in 1..len : Queued(j)' = Queued(j)
  BY <1>1, <1>2, <1>3 DEF Queued
<1>5. Queued(len + 1)' = data
  BY <1>1, <1>3 DEF Queued
<1>6. \A j \in 0..len : Reach(j)' = Reach(j)
  <2>1. Used' = Used /\ Len(out)' = Len(out)
    BY RingFrame DEF IInv
  <2>2. ASSUME NEW j \in 1..len PROVE Reach(j)' = Reach(j)
    BY <1>1, <1>4 DEF Reach
  <2> QED BY <1>1, <2>1, <2>2 DEF Reach
<1>7. QueueInv'
  <2>1. \A i, j \in 1..(len + 1) : q'[i] = q'[j] => i = j
    BY <1>1, <1>2, <1>3 DEF IInv, QueueInv
  <2>2. \A j \in 1..len : urb'[q'[j]] = "idle" /\ Queued(j)'.len > 0
    <3> SUFFICES ASSUME NEW j \in 1..len
                 PROVE  urb'[q'[j]] = "idle" /\ Queued(j)'.len > 0
      OBVIOUS
    <3>1. urb'[q'[j]] = "idle"
      BY <1>1, <1>2, <1>3
    <3>2. Queued(j)'.len > 0
      <4>1. Queued(j).len > 0
        BY <1>1 DEF IInv, QueueInv
      <4> QED BY <4>1, <1>4
    <3> QED BY <3>1, <3>2
  <2>3. urb'[q'[len + 1]] = "idle" /\ Queued(len + 1)'.len > 0
    BY <1>1, <1>3, <1>5
  <2>4. Len(q') = len + 1
    BY <1>1, <1>3
  <2>5. \A j \in 1..(len + 1) : urb'[q'[j]] = "idle" /\ Queued(j)'.len > 0
    <3> SUFFICES ASSUME NEW j \in 1..(len + 1)
                 PROVE  urb'[q'[j]] = "idle" /\ Queued(j)'.len > 0
      OBVIOUS
    <3>1. j \in 1..len \/ j = len + 1
      BY <1>1
    <3> QED BY <2>2, <2>3, <3>1
  <2> QED BY <2>1, <2>4, <2>5 DEF QueueInv
<1>8. QueueIntact'
  <2> HIDE DEF q
  <2>1. \A j \in 1..len : Queued(j)'.first = Reach(j - 1)' + 1
    <3> SUFFICES ASSUME NEW j \in 1..len
                 PROVE  Queued(j)'.first = Reach(j - 1)' + 1
      OBVIOUS
    <3>1. Queued(j).first = Reach(j - 1) + 1
      BY <1>1 DEF IInv, QueueIntact, q
    <3>2. j - 1 \in 0..len
      BY <1>1
    <3> QED BY <3>1, <3>2, <1>4, <1>6
  <2>2. Queued(len + 1)'.first = Reach(len)' + 1
    <3>1. sent = Reach(len)
      BY <1>1 DEF IInv, QueueIntact, q
    <3>2. Reach(len)' = Reach(len)
      BY <1>1, <1>6
    <3> QED BY <3>1, <3>2, <1>5
  <2>3. sent' = Reach(len + 1)'
    <3>1. Reach(len + 1)' = data.first + data.len - 1
      BY <1>1, <1>5 DEF Reach
    <3> QED BY <3>1, <1>1
  <2>4. Len(mBulkUrbBuffList') = len + 1
    BY <1>3 DEF q
  <2>5. \A j \in 1..(len + 1) : Queued(j)'.first = Reach(j - 1)' + 1
    <3> SUFFICES ASSUME NEW j \in 1..(len + 1)
                 PROVE  Queued(j)'.first = Reach(j - 1)' + 1
      OBVIOUS
    <3>1. CASE j = len + 1
      <4>1. j - 1 = len
        BY <3>1, <1>1
      <4> QED BY <2>2, <3>1, <4>1
    <3>2. CASE j \in 1..len
      BY <2>1, <3>2
    <3>3. j = len + 1 \/ j \in 1..len
      BY <1>1
    <3> QED BY <3>1, <3>2, <3>3, Zenon
  <2>6. \A j \in 0..(len + 1) : Reach(j)' <= sent'
    <3>1. \A j \in 0..len : Reach(j) \in Int /\ Reach(j) <= sent
      BY <1>1, ReachTypes DEF IInv, QueueIntact, q
    <3>2. \A j \in 0..len : Reach(j)' <= sent'
      BY <3>1, <1>1, <1>6
    <3>3. sent' \in Nat /\ Reach(len + 1)' <= sent'
      BY <2>3, <1>1
    <3>4. \A j \in 0..(len + 1) : j \in 0..len \/ j = len + 1
      BY <1>1
    <3> QED BY <3>2, <3>3, <3>4
  <2> QED BY <2>3, <2>4, <2>5, <2>6 DEF QueueIntact
<1> QED BY <1>7, <1>8

LEMMA ResubmitTypes ==
    ASSUME Types, NEW u \in URBs, NEW data \in [first : Nat, len : Nat],
           ResubmitBulkURB(u, data)
    PROVE  /\ urb' \in [URBs -> {"idle", "inFlight", "failed"}]
           /\ urbData' \in [URBs -> [first : Nat, len : Nat]]
           /\ \A v \in URBs \ {u} : urb'[v] = urb[v] /\ urbData'[v] = urbData[v]
<1>1. /\ urb \in [URBs -> {"idle", "inFlight", "failed"}]
      /\ urbData \in [URBs -> [first : Nat, len : Nat]]
      /\ NoData \in [first : Nat, len : Nat]
  BY DEF Types, NoData
<1>2. CASE /\ urb' = [urb EXCEPT ![u] = "inFlight"]
           /\ urbData' = [urbData EXCEPT ![u] = NoData]
  BY <1>1, <1>2
<1>3. CASE /\ urb' = [urb EXCEPT ![u] = "failed"]
           /\ urbData' = [urbData EXCEPT ![u] = data]
  BY <1>1, <1>3
<1> QED BY <1>2, <1>3 DEF ResubmitBulkURB

(* The URB in flight completes with len bytes. *)
LEMMA CallbackStep ==
    ASSUME IInv, NEW u \in URBs, NEW len \in 1..UrbLen, BlkCallback(u, len)
    PROVE  IInv'
<1> DEFINE data == [first |-> sent + 1, len |-> len]
<1>1. /\ urb[u] = "inFlight" /\ opened /\ sent' = sent + len
      /\ UNCHANGED <<opened, suspended, submitting, out, copy>>
  BY DEF BlkCallback, openVars
<1>2. /\ data \in [first : Nat, len : Nat \ {0}]
      /\ data.first = sent + 1 /\ data.len = len /\ sent + len \in Nat
      /\ len \in Nat \ {0}
  BY SizesAssumption DEF IInv, Types
<1>3. RestInv'
  BY <1>1 DEF IInv, RestInv, SubmitIs
<1>4. CASE mBulkUrbBuffList # << >> \/ ~Fits(len)
  <2>1. /\ AddToQueue(u)
        /\ urb' = [urb EXCEPT ![u] = "idle"]
        /\ urbData' = [urbData EXCEPT ![u] = data]
        /\ UNCHANGED ringVars
    BY <1>4 DEF BlkCallback
  <2>2. mBulkUrbBuffList' = Append(mBulkUrbBuffList, u)
    BY <1>1, <2>1, QueueRoom DEF IInv, AddToQueue
  <2> HIDE DEF data
  <2>3. QueueInv' /\ QueueIntact'
    BY <1>1, <1>2, <2>1, <2>2, QueueAppends
  <2>4. Types'
    BY <1>1, <1>2, <2>1, <2>2 DEF IInv, Types, ringVars
  <2>5. RingInv' /\ RingIntact' /\ OutIntact'
    BY <1>1, <2>1, RingFrame DEF IInv
  <2>6. Window'
    BY <1>1, <2>1, WindowFrame DEF IInv
  <2> QED BY <1>3, <2>3, <2>4, <2>5, <2>6 DEF IInv
<1>5. CASE mBulkUrbBuffList = << >> /\ Fits(len)
  <2>1. /\ AddToReadMemList(data)
        /\ ResubmitBulkURB(u, data)
        /\ mBulkUrbBuffList' = << >> /\ mBulkUrbBuffList = << >>
    BY <1>5 DEF BlkCallback
  <2> HIDE DEF data
  <2>2. data.first = Len(out) + Used + 1
    BY <1>2, <2>1 DEF IInv, QueueIntact, Reach
  <2>3. /\ mReadBuff' \in [0..(BufLen - 1) -> Nat]
        /\ mEndIdx' \in 0..BufLen
        /\ RingInv' /\ ~mBufEmptyStatus' /\ RingIntact'
        /\ Used' = Used + len
        /\ ~mBufEmptyStatus /\ mEndIdx <= mStartIdx =>
              mEndIdx <= mEndIdx' /\ mEndIdx' <= mStartIdx
        /\ mStartIdx < mEndIdx =>
              mEndIdx <= mEndIdx' \/ mEndIdx' <= mStartIdx
    BY <1>1, <1>2, <1>5, <2>1, <2>2, AddAppends DEF IInv
  <2>4. mStartIdx' = mStartIdx /\ mBufEmptyStatus' \in BOOLEAN
    BY <2>1 DEF AddToReadMemList
  <2>5. /\ urb' \in [URBs -> {"idle", "inFlight", "failed"}]
        /\ urbData' \in [URBs -> [first : Nat, len : Nat]]
    BY <1>2, <2>1, ResubmitTypes DEF IInv
  <2>6. Types'
    BY <1>1, <1>2, <2>1, <2>3, <2>4, <2>5 DEF IInv, Types
  <2>7. QueueInv'
    BY <2>1 DEF QueueInv
  <2>8. OutIntact'
    BY <1>1 DEF IInv, OutIntact
  <2>9. QueueIntact'
    <3>1. sent = Len(out) + Used /\ Len(mBulkUrbBuffList') = 0
      BY <2>1 DEF IInv, QueueIntact, Reach
    <3>2. Len(out) \in Nat /\ Used \in Nat
      BY UsedBounds DEF IInv, Types
    <3>3. sent' = Len(out)' + Used'
      BY <1>1, <1>2, <2>3, <3>1, <3>2
    <3>4. sent' \in Nat
      BY <1>1, <1>2
    <3> QED BY <3>1, <3>3, <3>4 DEF QueueIntact, Reach
  <2>10. Window'
    <3> SUFFICES ASSUME NEW c \in Consumers, copy[c].pc \in Copying
                 PROVE  /\ ~mBufEmptyStatus' /\ Front(copy[c])'
      BY <1>1, <2>4 DEF IInv, Window
    <3> DEFINE m == copy[c]
    <3>1. /\ ~mBufEmptyStatus /\ Front(m)
          /\ m.from = IF m.pc \in {"leg2", "leg3"} THEN 0 ELSE mStartIdx
      BY DEF IInv, Window
    <3>2. /\ mStartIdx \in 0..BufLen /\ mEndIdx \in 0..BufLen
          /\ m.endIdx \in 0..BufLen /\ m.n \in Nat /\ BufLen \in Nat
          /\ m.from \in Nat
      <4>1. m \in Moves
        BY DEF IInv, Types
      <4> QED BY <4>1, SizesAssumption DEF IInv, Types, Moves
    <3>3. m' = m
      BY <1>1
    <3> HIDE DEF m
    <3>4. Front(m)'
      <4>1. m.pc \in {"short", "all"} => Ahead(m)'
        <5> SUFFICES ASSUME m.pc \in {"short", "all"} PROVE Ahead(m)'
          OBVIOUS
        <5>1. Ahead(m) /\ mStartIdx < m.endIdx
          <6>1. m.n > 0
            BY DEF IInv, Window, m
          <6> QED BY <3>1, <3>2, <6>1 DEF Front
        <5> QED BY <5>1, <2>3, <2>4, <3>1, <3>2, <3>3 DEF Ahead
      <4> QED BY <4>1, <2>3, <2>4, <3>1, <3>2, <3>3 DEF Front
    <3> QED BY <3>4, <2>3 DEF m
  <2> QED BY <1>3, <2>3, <2>6, <2>7, <2>8, <2>9, <2>10 DEF IInv
<1> QED BY <1>4, <1>5

(* An URB that completes with an error only stops being in flight. *)
LEMMA ErrorStep ==
    ASSUME IInv, NEW u \in URBs, BlkCallbackError(u)
    PROVE  IInv'
<1>1. /\ urb[u] = "inFlight" /\ urb' = [urb EXCEPT ![u] = "failed"]
      /\ UNCHANGED <<opened, suspended, submitting, ringVars,
                     mBulkUrbBuffList, urbData, sent, out, copy>>
  BY DEF BlkCallbackError, openVars
<1>2. Types'
  BY <1>1 DEF IInv, Types, ringVars
<1>3. RingInv' /\ RingIntact' /\ OutIntact' /\ Used' = Used
  BY <1>1, RingFrame DEF IInv
<1>4. QueueIntact'
  BY <1>1, <1>3, QueueFrame DEF IInv
<1>5. Window'
  BY <1>1, WindowFrame DEF IInv
<1>6. RestInv'
  BY <1>1 DEF IInv, RestInv, SubmitIs
<1>7. QueueInv'
  <2>1. ASSUME NEW j \in 1..Len(mBulkUrbBuffList)
        PROVE  urb'[mBulkUrbBuffList[j]] = "idle"
    BY <1>1 DEF IInv, Types, QueueInv
  <2>2. \A j : Queued(j)' = Queued(j)
    BY <1>1 DEF Queued
  <2> QED BY <2>1, <2>2, <1>1 DEF IInv, QueueInv
<1> QED BY <1>2, <1>3, <1>4, <1>5, <1>6, <1>7 DEF IInv

(* Steps of a reader that concern its own copy only. *)
LEMMA CopyFrame ==
    ASSUME IInv, copy' \in [Consumers -> Moves], Window',
           opened, ~suspended, SubmitIs("idle"),
           UNCHANGED <<openVars, ringVars, urbVars, sent, out>>
    PROVE  IInv'
<1>1. Types'
  BY DEF IInv, Types, ringVars, urbVars, openVars
<1>2. RingInv' /\ RingIntact' /\ OutIntact' /\ Used' = Used
  BY RingFrame DEF IInv
<1>3. QueueIntact'
  BY <1>2, QueueFrame DEF IInv, urbVars
<1>4. RestInv'
  BY DEF IInv, RestInv, SubmitIs, openVars
<1>5. QueueInv'
  BY DEF IInv, QueueInv, Queued, urbVars
<1> QED BY <1>1, <1>2, <1>3, <1>4, <1>5 DEF IInv

(* A reader that has left CopyFromReadMemList. *)
LEMMA ReturnStep ==
    ASSUME IInv, OneReader, NEW c \in Consumers, Fault(c) \/ Return(c)
    PROVE  IInv'
<1>1. /\ copy[c].pc # "idle" /\ copy' = [copy EXCEPT ![c] = NoCopy]
      /\ UNCHANGED <<openVars, ringVars, urbVars, sent, out>>
  BY DEF Fault, Return, Copying
<1>2. copy \in [Consumers -> Moves] /\ NoCopy \in Moves
  BY SizesAssumption DEF IInv, Types, Moves, NoCopy
<1>3. opened /\ ~suspended /\ SubmitIs("idle")
  BY <1>1 DEF IInv, RestInv
<1>4. copy' \in [Consumers -> Moves] /\ copy'[c].pc \notin Copying
  BY <1>1, <1>2 DEF NoCopy, Copying
<1>5. Window'
  BY <1>4, WindowIdle
<1> QED BY <1>1, <1>3, <1>4, <1>5, CopyFrame

(* A reader starts a move that is at the front of the buffer. *)
LEMMA MoveStep ==
    ASSUME IInv, OneReader, NEW c \in Consumers,
           NEW place \in Copying, NEW size \in Nat, NEW from \in Nat,
           NEW n \in Nat \ {0}, NEW user \in Seq(Nat),
           Move(c, place, size, from, n, user), UNCHANGED <<ringVars, out>>,
           ~mBufEmptyStatus,
           Front([pc |-> place, size |-> size, from |-> from, n |-> n,
                  endIdx |-> mEndIdx, user |-> user]),
           from = IF place \in {"leg2", "leg3"} THEN 0 ELSE mStartIdx,
           Len(user) = IF place \in {"leg2", "leg3"} THEN BufLen - mStartIdx ELSE 0,
           \A i \in 1..Len(user) : user[i] = Len(out) + i
    PROVE  copy' \in [Consumers -> Moves] /\ Window'
<1> DEFINE m == [pc |-> place, size |-> size, from |-> from, n |-> n,
                 endIdx |-> mEndIdx, user |-> user]
<1>1. m \in Moves /\ copy \in [Consumers -> Moves]
  BY DEF Moves, IInv, Types
<1>2. copy' = [copy EXCEPT ![c] = m]
  BY DEF Move
<1>3. /\ m.pc = place /\ m.from = from /\ m.n = n /\ m.user = user
      /\ Front(m)
  OBVIOUS
<1> HIDE DEF m
<1>4. copy' \in [Consumers -> Moves] /\ copy'[c] = m
  BY <1>1, <1>2
<1>5. Front(m)'
  <2>1. m' = m
    BY DEF m, ringVars
  <2> QED BY <2>1, <1>3 DEF Front, Ahead, ringVars
<1>6. Window'
  <2> SUFFICES /\ ~mBufEmptyStatus' /\ m.n > 0
               /\ Front(copy[c])'
               /\ m.from = IF m.pc \in {"leg2", "leg3"} THEN 0 ELSE mStartIdx'
               /\ Len(m.user) = IF m.pc \in {"leg2", "leg3"}
                                THEN BufLen - mStartIdx' ELSE 0
               /\ \A i \in 1..Len(m.user) : m.user[i] = Len(out') + i
    <3>1. \A d \in Consumers : d = c
      BY DEF OneReader
    <3> QED BY <3>1, <1>4 DEF Window
  <2>1. Front(copy[c])'
    <3>1. m' = m
      BY DEF m, ringVars
    <3> QED BY <3>1, <1>4, <1>5 DEF Front, Ahead
  <2> QED BY <2>1, <1>3 DEF ringVars
<1> QED BY <1>4, <1>6

LEMMA SecondLegStep ==
    ASSUME IInv, OneReader, NEW c \in Consumers, NEW size \in Nat,
           NEW leg2 \in Nat \ {0}, NEW user \in Seq(Nat),
           SecondLeg(c, size, leg2, user), UNCHANGED <<ringVars, out>>,
           ~mBufEmptyStatus, mEndIdx <= mStartIdx,
           Len(user) = BufLen - mStartIdx,
           \A i \in 1..Len(user) : user[i] = Len(out) + i
    PROVE  copy' \in [Consumers -> Moves] /\ Window'
<1>1. mEndIdx \in Nat \ {0} /\ mStartIdx \in Nat
  BY DEF IInv, Types, RingInv
<1>2. CASE mEndIdx > leg2
  <2>1. Move(c, "leg2", size, 0, leg2, user)
    BY <1>2 DEF SecondLeg
  <2>2. Front([pc |-> "leg2", size |-> size, from |-> 0, n |-> leg2,
               endIdx |-> mEndIdx, user |-> user])
    BY <1>1, <1>2 DEF Front
  <2> QED BY <2>1, <2>2, MoveStep DEF Copying
<1>3. CASE ~(mEndIdx > leg2)
  <2>1. Move(c, "leg3", size, 0, mEndIdx, user)
    BY <1>3 DEF SecondLeg
  <2>2. Front([pc |-> "leg3", size |-> size, from |-> 0, n |-> mEndIdx,
               endIdx |-> mEndIdx, user |-> user])
    BY <1>1 DEF Front
  <2>3. PICK n \in Nat \ {0} : n = mEndIdx
    BY <1>1
  <2> QED BY <2>1, <2>2, <2>3, MoveStep DEF Copying
<1> QED BY <1>2, <1>3

LEMMA ReadStep ==
    ASSUME IInv, OneReader, NEW c \in Consumers, NEW size \in ReadSizes,
           CopyFromReadMemList(c, size)
    PROVE  IInv'
<1> DEFINE stored == mEndIdx - mStartIdx
           tail == BufLen - mStartIdx
<1>1. /\ mStartIdx \in Nat /\ mEndIdx \in 0..BufLen /\ mStartIdx \in 0..BufLen
      /\ size \in Nat \ {0} /\ BufLen \in Nat
  BY SizesAssumption DEF IInv, Types
<1>0. PICK none \in Seq(Nat) : none = << >>
  <2>1. << >> \in Seq(Nat)
    OBVIOUS
  <2> QED BY <2>1, Zenon
<1>a. Len(none) = 0 /\ \A i \in 1..Len(none) : none[i] = Len(out) + i
  BY <1>0
<1>2. /\ opened /\ ~suspended /\ SubmitIs("idle")
      /\ UNCHANGED <<openVars, ringVars, urbVars, sent, out>>
  BY DEF CopyFromReadMemList
<1>3. copy' \in [Consumers -> Moves] /\ Window'
  <2>1. ASSUME mStartIdx < mEndIdx, stored > size,
               Move(c, "short", size, mStartIdx, size, none)
        PROVE  copy' \in [Consumers -> Moves] /\ Window'
    <3>1. Front([pc |-> "short", size |-> size, from |-> mStartIdx,
                 n |-> size, endIdx |-> mEndIdx, user |-> none])
      BY <1>1, <2>1 DEF Front, Ahead
    <3>2. ~mBufEmptyStatus
      BY <1>1, <2>1 DEF IInv, RingInv
    <3> QED BY <1>a, <1>1, <1>2, <2>1, <3>1, <3>2, MoveStep DEF Copying
  <2>2. ASSUME mStartIdx < mEndIdx, stored <= size,
               Move(c, "all", size, mStartIdx, stored, none)
        PROVE  copy' \in [Consumers -> Moves] /\ Window'
    <3>0. stored \in Nat \ {0}
      BY <1>1, <2>2
    <3>1. Front([pc |-> "all", size |-> size, from |-> mStartIdx,
                 n |-> stored, endIdx |-> mEndIdx, user |-> none])
      BY <1>1, <2>2 DEF Front, Ahead
    <3>2. ~mBufEmptyStatus
      BY <1>1, <2>2 DEF IInv, RingInv
    <3> HIDE DEF stored
    <3> QED BY <1>a, <1>1, <1>2, <2>2, <3>0, <3>1, <3>2, MoveStep DEF Copying
  <2>3. ASSUME mStartIdx >= mEndIdx, ~mBufEmptyStatus, tail >= size,
               Move(c, "flat", size, mStartIdx, size, none)
        PROVE  copy' \in [Consumers -> Moves] /\ Window'
    <3>1. Front([pc |-> "flat", size |-> size, from |-> mStartIdx,
                 n |-> size, endIdx |-> mEndIdx, user |-> none])
      BY <1>1, <2>3 DEF Front
    <3> QED BY <1>a, <1>1, <1>2, <2>3, <3>1, MoveStep DEF Copying
  <2>4. ASSUME mStartIdx >= mEndIdx, ~mBufEmptyStatus, tail < size, tail > 0,
               Move(c, "leg1", size, mStartIdx, tail, none)
        PROVE  copy' \in [Consumers -> Moves] /\ Window'
    <3>0. tail \in Nat \ {0}
      BY <1>1, <2>4
    <3>1. Front([pc |-> "leg1", size |-> size, from |-> mStartIdx,
                 n |-> tail, endIdx |-> mEndIdx, user |-> none])
      BY <1>1, <2>4 DEF Front
    <3> HIDE DEF tail
    <3> QED BY <1>a, <1>1, <1>2, <2>4, <3>0, <3>1, MoveStep DEF Copying
  <2>5. ASSUME mStartIdx >= mEndIdx, ~mBufEmptyStatus, ~(tail > 0),
               SecondLeg(c, size, size, none)
        PROVE  copy' \in [Consumers -> Moves] /\ Window'
    <3>1. Len(none) = BufLen - mStartIdx /\ mEndIdx <= mStartIdx
      BY <1>a, <1>1, <2>5
    <3> QED BY <1>a, <1>1, <1>2, <2>5, <3>1, SecondLegStep
  <2> QED BY <2>1, <2>2, <2>3, <2>4, <2>5, <1>0 DEF CopyFromReadMemList
<1> QED BY <1>2, <1>3, CopyFrame

(* A first leg ends: what it has copied stays the front of the buffer. *)
LEMMA FirstLegStep ==
    ASSUME IInv, OneReader, NEW c \in Consumers, FirstLeg(c)
    PROVE  IInv'
<1> DEFINE m == copy[c]
           size == m.size
           leg2 == m.size - m.n
           user == Copied(c)
<1>1. /\ m.pc = "leg1" /\ SecondLeg(c, size, leg2, user)
      /\ UNCHANGED <<openVars, ringVars, urbVars, sent, out>>
  BY DEF FirstLeg
<1>2. m \in Moves /\ m.n \in Nat /\ m.size \in Nat
      /\ mStartIdx \in 0..BufLen /\ BufLen \in Nat /\ Len(out) \in Nat
  <2>1. m \in Moves
    BY DEF IInv, Types
  <2> QED BY <2>1, SizesAssumption DEF IInv, Types, Moves
<1>3. /\ ~mBufEmptyStatus /\ mEndIdx <= mStartIdx /\ m.n < m.size
      /\ m.n = BufLen - mStartIdx /\ Len(m.user) = 0
  <2>1. ~mBufEmptyStatus /\ Front(m) /\ m.from = mStartIdx /\ Len(m.user) = 0
    BY <1>1 DEF IInv, Window, Copying
  <2> QED BY <2>1, <1>1, <1>2 DEF Front
<1>4. user = [i \in 1..m.n |-> Len(out) + i]
  <2>1. user = [i \in 1..(Len(m.user) + m.n) |-> Len(out) + i]
    BY <1>1, CopiedIsFront DEF IInv, Copying
  <2>2. Len(m.user) + m.n = m.n
    BY <1>2, <1>3
  <2> QED BY <2>1, <2>2
<1>5. opened /\ ~suspended /\ SubmitIs("idle")
  BY <1>1 DEF IInv, RestInv
<1> HIDE DEF user, m
<1>6. /\ user \in Seq(Nat) /\ Len(user) = m.n
      /\ \A i \in 1..Len(user) : user[i] = Len(out) + i
  BY <1>2, <1>4
<1>7. leg2 \in Nat \ {0}
  BY <1>2, <1>3
<1>8. copy' \in [Consumers -> Moves] /\ Window'
  <2> HIDE DEF leg2, size
  <2>1. size \in Nat
    BY <1>2 DEF size
  <2> QED BY <2>1, <1>1, <1>3, <1>6, <1>7, SecondLegStep
<1> QED BY <1>1, <1>5, <1>8, CopyFrame

(* The last move ends: its bytes leave the front of the buffer and are     *)
(* given to the reader, in order.                                          *)
LEMMA LastLegStep ==
    ASSUME IInv, OneReader, NEW c \in Consumers, LastLeg(c)
    PROVE  IInv'
<1> DEFINE k == Len(copy[c].user) + copy[c].n
<1>1. /\ copy[c].pc \in Copying \ {"leg1"} /\ Advance(c)
      /\ out' = [i \in 1..(Len(out) + Len(Copied(c))) |->
                   IF i <= Len(out) THEN out[i] ELSE Copied(c)[i - Len(out)]]
      /\ copy' = [copy EXCEPT ![c] = [NoCopy EXCEPT !.pc = "drain"]]
      /\ mEndIdx' = mEndIdx /\ mReadBuff' = mReadBuff
      /\ UNCHANGED <<openVars, urbVars, sent>>
  BY DEF LastLeg
<1>2. /\ k \in 1..Used
      /\ Copied(c) = [i \in 1..k |-> Len(out) + i]
  BY <1>1, CopiedIsFront DEF IInv
<1>3. /\ mStartIdx' \in 0..BufLen /\ mBufEmptyStatus' \in BOOLEAN
      /\ RingInv' /\ Used' = Used - k
      /\ \A i \in 0..(Used' - 1) : Place(i)' = Place(i + k)
  BY <1>1, AdvanceTakesFront DEF IInv
<1>4. Len(out) \in Nat /\ out \in Seq(Nat) /\ Used \in Nat
      /\ \A i \in 1..Len(out) : out[i] = i
  BY UsedBounds DEF IInv, Types, OutIntact
<1> HIDE DEF k
<1>5. /\ out' = [i \in 1..(Len(out) + k) |-> i]
      /\ out' \in Seq(Nat) /\ Len(out') = Len(out) + k
  <2>1. Len(Copied(c)) = k
    BY <1>2, <1>4
  <2>2. \A i \in 1..(Len(out) + k) :
           (IF i <= Len(out) THEN out[i] ELSE Copied(c)[i - Len(out)]) = i
    BY <1>2, <1>4
  <2>3. out' = [i \in 1..(Len(out) + k) |-> i]
    BY <1>1, <2>1, <2>2
  <2> QED BY <2>3, <1>2, <1>4
<1>6. copy' \in [Consumers -> Moves] /\ copy'[c].pc \notin Copying
  <2>1. [NoCopy EXCEPT !.pc = "drain"] \in Moves
    <3>1. [NoCopy EXCEPT !.pc = "drain"] =
             [pc |-> "drain", size |-> 0, from |-> 0, n |-> 0, endIdx |-> 0,
              user |-> << >>]
      BY DEF NoCopy
    <3>2. << >> \in Seq(Nat) /\ 0 \in 0..BufLen
      BY SizesAssumption
    <3>3. [pc |-> "drain", size |-> 0, from |-> 0, n |-> 0, endIdx |-> 0,
           user |-> << >>] \in Moves
      BY <3>2 DEF Moves, Copying
    <3> QED BY <3>1, <3>3
  <2> QED BY <2>1, <1>1 DEF IInv, Types, NoCopy, Copying
<1>7. Types'
  BY <1>1, <1>3, <1>5, <1>6 DEF IInv, Types, urbVars, openVars
<1>8. Window'
  BY <1>6, WindowIdle
<1>9. OutIntact'
  BY <1>5 DEF OutIntact
<1>10. RingIntact'
  <2> SUFFICES ASSUME NEW i \in 0..(Used' - 1)
               PROVE  mReadBuff[Place(i)'] = Len(out') + 1 + i
    BY <1>1, Zenon DEF RingIntact
  <2>1. i + k \in 0..(Used - 1)
    BY <1>2, <1>3, <1>4
  <2>2. mReadBuff[Place(i + k)] = Len(out) + 1 + (i + k)
    BY <2>1 DEF IInv, RingIntact
  <2>3. Len(out) + 1 + (i + k) = Len(out') + 1 + i
    BY <1>2, <1>4, <1>5
  <2> QED BY <1>3, <2>2, <2>3
<1>11. QueueIntact'
  <2>1. Len(out') + Used' = Len(out) + Used
    BY <1>2, <1>3, <1>4, <1>5
  <2> QED BY <2>1, <1>1, QueueFrame DEF IInv, urbVars
<1>12. QueueInv'
  BY <1>1 DEF IInv, QueueInv, Queued, urbVars
<1>13. RestInv'
  BY <1>1 DEF IInv, RestInv, Copying, SubmitIs, openVars
<1> QED BY <1>3, <1>7, <1>8, <1>9, <1>10, <1>11, <1>12, <1>13 DEF IInv

(* The room that PopFromQueueAndSubmit has found is what AddToReadMemList  *)
(* needs. *)
LEMMA HeadFits ==
    ASSUME IInv, NEW c \in Consumers, PopFromQueueAndSubmit(c)
    PROVE  LET data == urbData[Head(mBulkUrbBuffList)] IN
           data \in [first : Nat, len : Nat \ {0}] /\ Fits(data.len)
<1> DEFINE q == mBulkUrbBuffList
           u == Head(q)
           data == urbData[u]
<1>0. PICK len \in Nat : len = Len(q)
  BY DEF IInv, Types
<1>1. /\ q \in Seq(URBs) /\ q # << >> /\ len = Len(q)
      /\ urb \in [URBs -> {"idle", "inFlight", "failed"}]
      /\ urbData \in [URBs -> [first : Nat, len : Nat]]
  BY <1>0 DEF IInv, Types, PopFromQueueAndSubmit
<1>2. /\ len > 0 /\ u = q[1] /\ u \in URBs
      /\ Len(Tail(q)) = len - 1 /\ Tail(q) \in Seq(URBs)
      /\ \A j \in 1..(len - 1) : Tail(q)[j] = q[j + 1]
  BY <1>1
<1>3. data \in [first : Nat, len : Nat \ {0}]
  <2>1. Queued(1).len > 0 /\ Queued(1) = data
    BY <1>1, <1>2 DEF IInv, QueueInv, Queued
  <2>2. data \in [first : Nat, len : Nat]
    BY <1>1, <1>2
  <2> QED BY <2>1, <2>2
<1>4. Fits(data.len)
  <2>1. ReadBufferFreeSpace >= data.len
    BY DEF PopFromQueueAndSubmit
  <2>2. /\ ReadBufferFreeSpace \in Nat
        /\ Fits(data.len) <=> data.len <= ReadBufferFreeSpace
    BY <1>3, UsedBounds DEF IInv
  <2> QED BY <2>1, <2>2, <1>3
<1> QED BY <1>3, <1>4

(* The head of the queue moves behind the circular buffer. *)
LEMMA PopStep ==
    ASSUME IInv, OneReader, NEW c \in Consumers, PopFromQueueAndSubmit(c)
    PROVE  IInv'
<1> DEFINE q == mBulkUrbBuffList
           u == Head(q)
           data == urbData[u]
<1>0. PICK len \in Nat : len = Len(q)
  BY DEF IInv, Types
<1>1. /\ q \in Seq(URBs) /\ q # << >> /\ len = Len(q)
      /\ urb \in [URBs -> {"idle", "inFlight", "failed"}]
      /\ urbData \in [URBs -> [first : Nat, len : Nat]]
  BY <1>0 DEF IInv, Types, PopFromQueueAndSubmit
<1>2. /\ len > 0 /\ u = q[1] /\ u \in URBs
      /\ Len(Tail(q)) = len - 1 /\ Tail(q) \in Seq(URBs)
      /\ \A j \in 1..(len - 1) : Tail(q)[j] = q[j + 1]
  BY <1>1
<1>3. data \in [first : Nat, len : Nat \ {0}]
  BY HeadFits
<1>4. Fits(data.len)
  BY HeadFits
<1>5. /\ copy[c].pc = "drain" /\ AddToReadMemList(data)
      /\ mBulkUrbBuffList' = Tail(q)
      /\ UNCHANGED <<openVars, sent, out, copy>>
  BY <1>4 DEF PopFromQueueAndSubmit
<1>6. ResubmitBulkURB(u, data) \/ UNCHANGED <<urb, urbData>>
  BY DEF PopFromQueueAndSubmit
<1>7. /\ urb' \in [URBs -> {"idle", "inFlight", "failed"}]
      /\ urbData' \in [URBs -> [first : Nat, len : Nat]]
      /\ \A v \in URBs \ {u} : urb'[v] = urb[v] /\ urbData'[v] = urbData[v]
  <2>1. CASE ResubmitBulkURB(u, data)
    <3>1. Types /\ data \in [first : Nat, len : Nat]
      BY <1>3 DEF IInv
    <3> HIDE DEF u, data
    <3> QED BY <2>1, <3>1, <1>2, ResubmitTypes
  <2>2. CASE UNCHANGED <<urb, urbData>>
    BY <2>2, <1>1
  <2> QED BY <2>1, <2>2, <1>6
<1> HIDE DEF data, u
<1>8. data.first = Len(out) + Used + 1
  <2>1. Queued(1).first = Reach(0) + 1 /\ Queued(1) = data
    <3>1. 1 \in 1..len /\ 1 - 1 = 0
      BY <1>1, <1>2
    <3> QED BY <3>1, <1>1, <1>2 DEF IInv, QueueIntact, Queued, data
  <2> QED BY <2>1 DEF Reach
<1>9. /\ mReadBuff' \in [0..(BufLen - 1) -> Nat]
      /\ mEndIdx' \in 0..BufLen
      /\ RingInv' /\ RingIntact'
      /\ Used' = Used + data.len
  BY <1>3, <1>4, <1>5, <1>8, AddAppends DEF IInv
<1>10. mStartIdx' = mStartIdx /\ mBufEmptyStatus' \in BOOLEAN
  BY <1>5 DEF AddToReadMemList
<1>11. Types'
  BY <1>2, <1>5, <1>7, <1>9, <1>10 DEF IInv, Types, openVars
<1>12. /\ Len(mBulkUrbBuffList') = len - 1
       /\ \A j \in 1..(len - 1) : mBulkUrbBuffList'[j] = q[j + 1]
  BY <1>2, <1>5
<1>13. \A j \in 1..(len - 1) : q[j + 1] \in URBs \ {u} /\ j + 1 \in 1..len
  BY <1>1, <1>2 DEF IInv, QueueInv
<1>14. \A j \in 1..(len - 1) : Queued(j)' = Queued(j + 1)
  BY <1>7, <1>12, <1>13 DEF Queued
<1>15. QueueInv'
  <2> SUFFICES /\ \A i, j \in 1..(len - 1) :
                     mBulkUrbBuffList'[i] = mBulkUrbBuffList'[j] => i = j
               /\ \A j \in 1..(len - 1) : /\ urb'[mBulkUrbBuffList'[j]] = "idle"
                                          /\ Queued(j)'.len > 0
    BY <1>12 DEF QueueInv
  <2>1. ASSUME NEW i \in 1..(len - 1), NEW j \in 1..(len - 1),
               mBulkUrbBuffList'[i] = mBulkUrbBuffList'[j]
        PROVE  i = j
    <3>1. q[i + 1] = q[j + 1] /\ i + 1 \in 1..len /\ j + 1 \in 1..len
      BY <2>1, <1>12, <1>13
    <3>2. i + 1 = j + 1
      BY <3>1, <1>1 DEF IInv, QueueInv
    <3> QED BY <3>2
  <2>2. ASSUME NEW j \in 1..(len - 1)
        PROVE  urb'[mBulkUrbBuffList'[j]] = "idle" /\ Queued(j)'.len > 0
    <3>1. j + 1 \in 1..len /\ q[j + 1] \in URBs \ {u}
      BY <1>13
    <3>2. urb[q[j + 1]] = "idle" /\ Queued(j + 1).len > 0
      BY <3>1, <1>1 DEF IInv, QueueInv
    <3> QED BY <3>1, <3>2, <1>7, <1>12, <1>14
  <2> QED BY <2>1, <2>2
<1>16. \A j \in 0..(len - 1) : Reach(j)' = Reach(j + 1)
  <2>1. ASSUME NEW j \in 1..(len - 1) PROVE Reach(j)' = Reach(j + 1)
    BY <2>1, <1>14 DEF Reach
  <2>2. Reach(0)' = Reach(1)
    <3>1. Reach(0)' = Len(out) + (Used + data.len)
      BY <1>5, <1>9 DEF Reach
    <3>2. Reach(1) = data.first + data.len - 1
      BY <1>1, <1>2 DEF Reach, Queued, data
    <3>3. Len(out) \in Nat /\ Used \in Nat /\ data.len \in Nat
      BY <1>3, UsedBounds DEF IInv, Types
    <3>4. data.first + data.len - 1 = Len(out) + (Used + data.len)
      BY <3>3, <1>8
    <3> QED BY <3>1, <3>2, <3>4
  <2>3. 0 + 1 = 1 /\ \A j \in 0..(len - 1) : j = 0 \/ j \in 1..(len - 1)
    OBVIOUS
  <2> QED BY <2>1, <2>2, <2>3
<1>17. QueueIntact'
  <2>1. ASSUME NEW j \in 1..(len - 1)
        PROVE  Queued(j)'.first = Reach(j - 1)' + 1
    <3>1. j + 1 \in 1..len /\ (j + 1) - 1 = j
      BY <1>13
    <3>2. Queued(j + 1).first = Reach(j) + 1
      BY <3>1, <1>1 DEF IInv, QueueIntact
    <3>3. j - 1 \in 0..(len - 1) /\ (j - 1) + 1 = j
      OBVIOUS
    <3> QED BY <3>2, <3>3, <1>14, <1>16
  <2>2. sent' = Reach(len - 1)'
    <3>1. sent = Reach(len) /\ sent' = sent
      BY <1>1, <1>5 DEF IInv, QueueIntact
    <3>2. len - 1 \in 0..(len - 1) /\ (len - 1) + 1 = len
      BY <1>2
    <3> QED BY <3>1, <3>2, <1>16
  <2>3. ASSUME NEW j \in 0..(len - 1) PROVE Reach(j)' <= sent'
    <3>1. j + 1 \in 0..len /\ sent' = sent
      BY <1>2, <1>5
    <3>2. Reach(j + 1) <= sent
      BY <3>1, <1>1 DEF IInv, QueueIntact
    <3> QED BY <3>1, <3>2, <1>16
  <2> QED BY <2>1, <2>2, <2>3, <1>12 DEF QueueIntact
<1>18. OutIntact'
  BY <1>5 DEF IInv, OutIntact
<1>19. Window'
  BY <1>5, WindowIdle DEF Copying
<1>20. RestInv'
  BY <1>5 DEF IInv, RestInv, SubmitIs, openVars
<1> QED BY <1>9, <1>11, <1>15, <1>17, <1>18, <1>19, <1>20 DEF IInv

-----------------------------------------------------------------------------
(***************************************************************************)
(* The URBs that wait to be submitted.  While an application has the       *)
(* device open they are in the queue; while an open or a resume submits,   *)
(* this holds of the URBs that SubmitAllReadUrb has passed, the one it has *)
(* not marked yet included. *)
(***************************************************************************)
InQueueIfWaiting(u) ==
    urb[u] = "idle" /\ mUrbStatus[u] = "initialized" => InQueue(u)

Passed(u) ==
    \/ SubmitIs("idle") /\ opened /\ ~suspended
    \/ SubmitIs("submit") /\ u < submitting.urb
    \/ SubmitIs("mark") /\ u <= submitting.urb

Submitted ==
    /\ mUrbStatus \in [URBs -> {"initialized", "submitted", "uninitialized"}]
    /\ \A u \in URBs : Passed(u) => InQueueIfWaiting(u)

(* Steps that leave the URBs and the queue alone. *)
LEMMA SubmittedFrame ==
    ASSUME Submitted, UNCHANGED <<openVars, urbVars>>
    PROVE  Submitted'
BY DEF Submitted, Passed, InQueueIfWaiting, InQueue, SubmitIs, openVars, urbVars

(* Steps that neither open nor close, and queue what they leave waiting.   *)
LEMMA SubmittedKept ==
    ASSUME Submitted, UNCHANGED openVars,
           mUrbStatus' \in [URBs -> {"initialized", "submitted", "uninitialized"}],
           \A u \in URBs : InQueueIfWaiting(u) => InQueueIfWaiting(u)'
    PROVE  Submitted'
<1>1. \A u \in URBs : Passed(u)' <=> Passed(u)
  BY DEF Passed, SubmitIs, openVars
<1>2. QED
  BY <1>1 DEF Submitted

(* SubmitAllReadUrb goes over every URB, or the open fails. *)
LEMMA SubmittedSubmit ==
    ASSUME IInv, Submitted, SubmitAllReadUrb, ~(suspended /\ RefuseRead)
    PROVE  Submitted'
<1>1. /\ submitting \in [pc : {"idle", "submit", "mark"}, urb : 0..(NumURBs + 1)]
      /\ urb \in [URBs -> {"idle", "inFlight", "failed"}]
      /\ NumURBs \in Nat
      /\ SubmitIs("mark") => submitting.urb \in URBs
  BY SizesAssumption DEF IInv, Types, RestInv
<1>2. mBulkUrbBuffList' = mBulkUrbBuffList
  BY DEF SubmitAllReadUrb, SkipRead, SubmitRead, MarkSubmitted, RefuseRead,
         SubmitDone, urbVars
<1>3. \A u : InQueue(u)' <=> InQueue(u)
  BY <1>2 DEF InQueue
<1>4. CASE SkipRead
  <2>1. /\ SubmitIs("submit") /\ submitting.urb \in URBs
        /\ mUrbStatus[submitting.urb] # "initialized"
        /\ submitting' = [pc |-> "submit", urb |-> submitting.urb + 1]
        /\ UNCHANGED <<mUrbStatus, urb>>
    BY <1>4 DEF SkipRead, SubmitNext, urbVars
  <2>2. \A u \in URBs : u < submitting.urb + 1 =>
                           u < submitting.urb \/ u = submitting.urb
    BY <2>1 DEF URBs
  <2>3. QED
    BY <1>3, <2>1, <2>2 DEF Submitted, Passed, InQueueIfWaiting, SubmitIs
<1>5. CASE SubmitRead
  <2>1. /\ SubmitIs("submit") /\ submitting.urb \in URBs
        /\ submitting' = [submitting EXCEPT !.pc = "mark"]
        /\ urb' = [urb EXCEPT ![submitting.urb] = "inFlight"]
        /\ UNCHANGED mUrbStatus
    BY <1>5 DEF SubmitRead
  <2>2. submitting'.pc = "mark" /\ submitting'.urb = submitting.urb
    BY <1>1, <2>1
  <2>3. \A u \in URBs : u <= submitting.urb =>
                           u < submitting.urb \/ u = submitting.urb
    BY <2>1 DEF URBs
  <2>4. ASSUME NEW u \in URBs, Passed(u)'
        PROVE  InQueueIfWaiting(u)'
    <3>1. u < submitting.urb \/ u = submitting.urb
      BY <2>2, <2>3, <2>4 DEF Passed, SubmitIs
    <3>2. CASE u = submitting.urb
      BY <1>1, <2>1, <3>2 DEF InQueueIfWaiting
    <3>3. CASE u # submitting.urb
      <4>1. urb'[u] = urb[u] /\ InQueueIfWaiting(u)
        BY <1>1, <2>1, <3>1, <3>3 DEF Submitted, Passed
      <4>2. QED
        BY <1>3, <2>1, <4>1 DEF InQueueIfWaiting
    <3>4. QED
      BY <3>2, <3>3
  <2>5. QED
    BY <2>1, <2>4 DEF Submitted
<1>6. CASE MarkSubmitted
  <2>1. /\ SubmitIs("mark") /\ submitting.urb \in URBs
        /\ mUrbStatus' = [mUrbStatus EXCEPT ![submitting.urb] = "submitted"]
        /\ submitting' = [pc |-> "submit", urb |-> submitting.urb + 1]
        /\ UNCHANGED urb
    BY <1>1, <1>6 DEF MarkSubmitted, SubmitNext
  <2>2. \A u \in URBs : u < submitting.urb + 1 => u <= submitting.urb
    BY <2>1 DEF URBs
  <2>3. mUrbStatus' \in [URBs -> {"initialized", "submitted", "uninitialized"}]
    BY <2>1 DEF Submitted
  <2>4. ASSUME NEW u \in URBs, Passed(u)'
        PROVE  InQueueIfWaiting(u)'
    <3>1. InQueueIfWaiting(u)
      BY <2>1, <2>2, <2>4 DEF Passed, SubmitIs, Submitted
    <3>2. mUrbStatus'[u] = "initialized" => mUrbStatus[u] = "initialized"
      BY <2>1 DEF Submitted
    <3>3. QED
      BY <1>3, <2>1, <3>1, <3>2 DEF InQueueIfWaiting
  <2>5. QED
    BY <2>3, <2>4 DEF Submitted
<1>7. CASE RefuseRead
  <2>1. /\ ~opened' /\ submitting' = NotSubmitting
        /\ mUrbStatus' = [mUrbStatus EXCEPT ![submitting.urb] = "uninitialized"]
    BY <1>7 DEF RefuseRead
  <2>2. QED
    BY <2>1 DEF Submitted, Passed, SubmitIs, NotSubmitting
<1>8. CASE SubmitDone
  <2>1. /\ SubmitIs("submit") /\ submitting.urb = NumURBs + 1
        /\ UNCHANGED urbVars
    BY <1>8 DEF SubmitDone
  <2>2. \A u \in URBs : u < submitting.urb
    BY <1>1, <2>1 DEF URBs
  <2>3. QED
    BY <1>3, <2>1, <2>2 DEF Submitted, Passed, InQueueIfWaiting, SubmitIs, urbVars
<1>9. QED
  BY <1>4, <1>5, <1>6, <1>7, <1>8 DEF SubmitAllReadUrb

(* An open and a resume have passed no URB yet; a close and a suspend end  *)
(* what holds of an open device. *)
LEMMA SubmittedBegins ==
    ASSUME IInv, ~Dpl, Submitted,
           \/ UserspaceQTIDevOpen \/ QTIDevUSBResume
           \/ UserspaceQTIDevRelease \/ QTIDevUSBSuspend
    PROVE  Submitted'
<1>1. mUrbStatus' \in [URBs -> {"initialized", "submitted", "uninitialized"}]
  BY DEF Submitted, UserspaceQTIDevOpen, QTIDevUSBResume,
         UserspaceQTIDevRelease, QTIDevUSBSuspend, StopRead, urbVars
<1>2. \/ submitting' = [pc |-> "submit", urb |-> 1]
      \/ SubmitIs("idle") /\ submitting' = submitting /\ (~opened' \/ suspended')
  BY DEF UserspaceQTIDevOpen, QTIDevUSBResume, UserspaceQTIDevRelease,
         QTIDevUSBSuspend, SubmitNext
<1>3. \A u \in URBs : ~(u < 1)
  BY DEF URBs
<1>4. \A u \in URBs : ~Passed(u)'
  BY <1>2, <1>3 DEF Passed, SubmitIs
<1>5. QED
  BY <1>1, <1>4 DEF Submitted

(* An URB that completes is queued, or goes on at once. *)
LEMMA SubmittedCallback ==
    ASSUME IInv, Submitted, NEW u \in URBs, NEW len \in 1..UrbLen,
           BlkCallback(u, len)
    PROVE  Submitted'
<1>1. urb[u] = "inFlight" /\ UNCHANGED openVars
  BY DEF BlkCallback
<1>2. /\ urb \in [URBs -> {"idle", "inFlight", "failed"}]
      /\ mBulkUrbBuffList \in Seq(URBs) /\ Len(mBulkUrbBuffList) \in Nat
      /\ mUrbStatus \in [URBs -> {"initialized", "submitted", "uninitialized"}]
  BY DEF IInv, Types, Submitted
<1>3. CASE mBulkUrbBuffList # << >> \/ ~Fits(len)
  <2>1. /\ mBulkUrbBuffList' = Append(mBulkUrbBuffList, u)
        /\ urb' = [urb EXCEPT ![u] = "idle"]
        /\ mUrbStatus' = [mUrbStatus EXCEPT ![u] =
                             IF @ = "submitted" THEN "initialized" ELSE @]
    BY <1>1, <1>3, QueueRoom DEF IInv, BlkCallback, AddToQueue
  <2>2. ASSUME NEW v \in URBs PROVE InQueue(v)' <=> InQueue(v) \/ v = u
    <3>1. /\ Len(mBulkUrbBuffList') = Len(mBulkUrbBuffList) + 1
          /\ mBulkUrbBuffList'[Len(mBulkUrbBuffList) + 1] = u
          /\ \A j \in 1..Len(mBulkUrbBuffList) :
                mBulkUrbBuffList'[j] = mBulkUrbBuffList[j]
      BY <1>2, <2>1
    <3>2. \A j : j \in 1..(Len(mBulkUrbBuffList) + 1) <=>
             j \in 1..Len(mBulkUrbBuffList) \/ j = Len(mBulkUrbBuffList) + 1
      BY <1>2
    <3>3. QED
      BY <3>1, <3>2, Zenon DEF InQueue
  <2>3. mUrbStatus' \in [URBs -> {"initialized", "submitted", "uninitialized"}]
    BY <1>2, <2>1
  <2>4. ASSUME NEW v \in URBs, InQueueIfWaiting(v)
        PROVE  InQueueIfWaiting(v)'
    <3>1. v # u => urb'[v] = urb[v] /\ mUrbStatus'[v] = mUrbStatus[v]
      BY <1>2, <2>1
    <3>2. QED
      BY <2>2, <2>4, <3>1 DEF InQueueIfWaiting
  <2>5. QED
    BY <1>1, <2>3, <2>4, SubmittedKept
<1>4. CASE mBulkUrbBuffList = << >> /\ Fits(len)
  <2>1. /\ UNCHANGED <<mBulkUrbBuffList, mUrbStatus>>
        /\ \/ urb' = [urb EXCEPT ![u] = "inFlight"]
           \/ urb' = [urb EXCEPT ![u] = "failed"]
    BY <1>4 DEF BlkCallback, ResubmitBulkURB
  <2>2. \A v : InQueue(v)' <=> InQueue(v)
    BY <2>1 DEF InQueue
  <2>3. \A v \in URBs : urb'[v] = "idle" => urb[v] = "idle"
    BY <1>2, <2>1
  <2>4. \A v \in URBs : InQueueIfWaiting(v) => InQueueIfWaiting(v)'
    BY <2>1, <2>2, <2>3 DEF InQueueIfWaiting
  <2>5. QED
    BY <1>1, <1>2, <2>1, <2>4, SubmittedKept
<1>5. QED
  BY <1>3, <1>4

(* An URB that completes with an error waits for nothing. *)
LEMMA SubmittedError ==
    ASSUME IInv, Submitted, NEW u \in URBs, BlkCallbackError(u)
    PROVE  Submitted'
<1>1. /\ urb[u] = "inFlight" /\ urb' = [urb EXCEPT ![u] = "failed"]
      /\ UNCHANGED <<openVars, mBulkUrbBuffList, mUrbStatus>>
  BY DEF BlkCallbackError
<1>2. \A v : InQueue(v)' <=> InQueue(v)
  BY <1>1 DEF InQueue
<1>3. \A v \in URBs : urb'[v] = "idle" => urb[v] = "idle"
  BY <1>1 DEF IInv, Types
<1>4. \A v \in URBs : InQueueIfWaiting(v) => InQueueIfWaiting(v)'
  BY <1>1, <1>2, <1>3 DEF InQueueIfWaiting
<1>5. mUrbStatus' \in [URBs -> {"initialized", "submitted", "uninitialized"}]
  BY <1>1 DEF Submitted
<1>6. QED
  BY <1>1, <1>4, <1>5, SubmittedKept

(* The URB that leaves the queue is submitted again, or refused, or it was *)
(* not waiting. *)
LEMMA SubmittedPop ==
    ASSUME IInv, Submitted, NEW c \in Consumers, PopFromQueueAndSubmit(c)
    PROVE  Submitted'
<1>. DEFINE q == mBulkUrbBuffList
            u == Head(q)
            data == urbData[u]
<1>1. /\ q \in Seq(URBs) /\ Len(q) \in Nat /\ q # << >>
      /\ urb \in [URBs -> {"idle", "inFlight", "failed"}]
      /\ mUrbStatus \in [URBs -> {"initialized", "submitted", "uninitialized"}]
  BY DEF IInv, Types, PopFromQueueAndSubmit, Submitted
<1>2. /\ Len(q) > 0 /\ u = q[1] /\ u \in URBs
      /\ Len(Tail(q)) = Len(q) - 1
      /\ \A j \in 1..(Len(q) - 1) : Tail(q)[j] = q[j + 1]
  BY <1>1
<1>3. UNCHANGED openVars /\ Fits(data.len)
  BY HeadFits DEF PopFromQueueAndSubmit
<1>5. /\ mBulkUrbBuffList' = Tail(q)
      /\ IF mUrbStatus[u] = "initialized"
         THEN /\ ResubmitBulkURB(u, data)
              /\ mUrbStatus' = [mUrbStatus EXCEPT ![u] =
                                   IF urb'[u] = "inFlight" THEN "submitted" ELSE @]
         ELSE UNCHANGED <<mUrbStatus, urb, urbData>>
  BY <1>3 DEF PopFromQueueAndSubmit
<1>6. \/ urb' = [urb EXCEPT ![u] = "inFlight"] \/ urb' = [urb EXCEPT ![u] = "failed"]
      \/ mUrbStatus[u] # "initialized" /\ UNCHANGED <<mUrbStatus, urb>>
  BY <1>5 DEF ResubmitBulkURB
<1>a. mUrbStatus' = mUrbStatus \/ mUrbStatus' = [mUrbStatus EXCEPT ![u] = "submitted"]
  BY <1>1, <1>2, <1>5
<1>. HIDE DEF data, u
<1>7. ASSUME NEW v \in URBs, v # u, InQueue(v)
      PROVE  InQueue(v)'
  <2>1. Len(mBulkUrbBuffList') = Len(q) - 1
        /\ \A j \in 1..(Len(q) - 1) : mBulkUrbBuffList'[j] = q[j + 1]
    BY <1>2, <1>5
  <2>2. PICK j \in 1..Len(q) : q[j] = v
    BY <1>7 DEF InQueue
  <2>3. j - 1 \in 1..(Len(q) - 1) /\ j - 1 + 1 = j
    BY <1>1, <1>2, <1>7, <2>2
  <2>4. QED
    BY <2>1, <2>2, <2>3 DEF InQueue
<1>8. mUrbStatus' \in [URBs -> {"initialized", "submitted", "uninitialized"}]
  BY <1>1, <1>2, <1>a
<1>9. ASSUME NEW v \in URBs, InQueueIfWaiting(v)
      PROVE  InQueueIfWaiting(v)'
  <2>1. CASE v = u
    BY <1>1, <1>2, <1>6, <2>1 DEF InQueueIfWaiting
  <2>2. CASE v # u
    <3>1. urb'[v] = urb[v] /\ mUrbStatus'[v] = mUrbStatus[v]
      BY <1>1, <1>2, <1>6, <1>a, <2>2
    <3>2. QED
      BY <1>7, <1>9, <2>2, <3>1 DEF InQueueIfWaiting
  <2>3. QED
    BY <2>1, <2>2
<1>10. QED
  BY <1>3, <1>8, <1>9, SubmittedKept

(* What calm excludes. *)
LEMMA CalmStep ==
    ASSUME Next, calm'
    PROVE  ~Requeues /\ ~(suspended /\ RefuseRead)
BY DEF Next

LEMMA SubmittedStep ==
    ASSUME IInv, ~Dpl, Submitted, [Next]_vars, calm'
    PROVE  Submitted'
<1>1. CASE \/ UserspaceQTIDevOpen \/ QTIDevUSBResume
           \/ UserspaceQTIDevRelease \/ QTIDevUSBSuspend
  BY <1>1, SubmittedBegins
<1>2. CASE SubmitAllReadUrb /\ Next
  BY <1>2, CalmStep, SubmittedSubmit
<1>4. CASE Controller
  BY <1>4, SubmittedCallback, SubmittedError DEF Controller
<1>5. CASE \E c \in Consumers : Reader(c)
  <2>1. PICK c \in Consumers : Reader(c)
    BY <1>5
  <2>2. CASE PopFromQueueAndSubmit(c)
    BY <2>2, SubmittedPop
  <2>3. CASE ~PopFromQueueAndSubmit(c)
    BY <2>1, <2>3, SubmittedFrame
    DEF Reader, CopyFromReadMemList, FirstLeg, LastLeg, Fault, Return
  <2>4. QED
    BY <2>2, <2>3
<1>6. CASE UNCHANGED vars
  BY <1>6, SubmittedFrame DEF vars
<1>7. QED
  BY <1>1, <1>2, <1>4, <1>5, <1>6 DEF Next

-----------------------------------------------------------------------------
(***************************************************************************)
(* The theorems.                                                           *)
(***************************************************************************)
LEMMA NextStep ==
    ASSUME calm', OneReader, IInv, [Next]_vars
    PROVE  IInv'
<1>1. CASE UNCHANGED vars
  <2>1. UNCHANGED <<openVars, ringVars, urbVars, sent, out, copy>>
    BY <1>1 DEF vars
  <2>2. Types'
    BY <2>1 DEF IInv, Types, ringVars, urbVars, openVars
  <2>3. RingInv' /\ RingIntact' /\ OutIntact' /\ Used' = Used
    BY <2>1, RingFrame DEF IInv
  <2>4. QueueIntact'
    BY <2>1, <2>3, QueueFrame DEF IInv, urbVars
  <2>5. Window'
    BY <2>1, WindowFrame DEF IInv
  <2>6. RestInv' /\ QueueInv'
    BY <2>1 DEF IInv, RestInv, QueueInv, Queued, SubmitIs, urbVars, openVars
  <2> QED BY <2>2, <2>3, <2>4, <2>5, <2>6 DEF IInv
<1>2. CASE UserspaceQTIDevOpen \/ QTIDevUSBResume
  BY <1>2, OpenStep
<1>3. CASE UserspaceQTIDevRelease
  BY <1>3, ReleaseStep
<1>4. CASE QTIDevUSBSuspend
  BY <1>4, SuspendStep
<1>7. CASE SubmitAllReadUrb /\ Next
  BY <1>7, CalmStep, SubmitStep
<1>5. CASE Controller
  <2>1. PICK u \in URBs : (\E len \in 1..UrbLen : BlkCallback(u, len))
                          \/ BlkCallbackError(u)
    BY <1>5 DEF Controller
  <2> QED BY <2>1, CallbackStep, ErrorStep
<1>6. ASSUME NEW c \in Consumers, Reader(c)
      PROVE  IInv'
  BY <1>6, ReadStep, FirstLegStep, LastLegStep, PopStep, ReturnStep DEF Reader
<1> QED BY <1>1, <1>2, <1>3, <1>4, <1>5, <1>6, <1>7 DEF Next

(* The calm does not come back. *)
LEMMA CalmStays ==
    ASSUME [Next]_vars, calm'
    PROVE  calm
BY DEF Next, vars

(* The strengthening holds in the calm, with one reader. *)
THEOREM Invariance ==
    ASSUME OneReader
    PROVE  Spec => [](calm => IInv)
<1>1. Init => (calm => IInv)
  BY InitIInv
<1>2. (calm => IInv) /\ [Next]_vars => (calm => IInv)'
  BY NextStep, CalmStays
<1> QED BY <1>1, <1>2, PTL DEF Spec

(* No byte is lost, doubled or reordered between the device and the        *)
(* reader, although BlkCallback runs while SubmitAllReadUrb submits and    *)
(* while CopyFromReadMemList copies with mReadMemLock dropped, for every   *)
(* length of the buffer and number of URBs.  What comes in an open that    *)
(* fails is read after the next one. *)
THEOREM StreamOrder ==
    ASSUME OneReader
    PROVE  Spec => []StreamIntact
<1>1. (calm => IInv) => StreamIntact
  BY DEF IInv, StreamIntact, OutIntact, RingIntact, QueueIntact
<1> QED BY <1>1, Invariance, PTL

(* What MoveDataToDestination copies without the lock stays at the front   *)
(* of the circular buffer until mStartIdx is moved past it. *)
THEOREM WindowStays ==
    ASSUME OneReader
    PROVE  Spec => []ReaderWindow
<1>1. (calm => IInv) => ReaderWindow
  BY DEF IInv, ReaderWindow
<1> QED BY <1>1, Invariance, PTL

(* AddToQueue finds a free node for every URB in flight, as long as no     *)
(* queued URB is submitted. *)
THEOREM NodeForEveryURB ==
    ASSUME OneReader
    PROVE  Spec => [](calm => QueueHasNode)
<1>1. (calm => IInv) => (calm => QueueHasNode)
  BY QueueRoom DEF IInv, QueueHasNode
<1> QED BY <1>1, Invariance, PTL

(* ReadBufferFreeSpace and AddToReadMemList agree on what fits, so that    *)
(* PopFromQueueAndSubmit never discards a read. *)
THEOREM FreeSpaceIsWhatFits ==
    ASSUME OneReader
    PROVE  Spec => [](calm => FreeSpaceAgrees)
<1>1. (calm => IInv) => (calm => FreeSpaceAgrees)
  <2> SUFFICES ASSUME IInv, NEW len \in 1..UrbLen
               PROVE  Fits(len) <=> len <= ReadBufferFreeSpace
    BY DEF FreeSpaceAgrees
  <2>1. len \in Nat \ {0}
    BY SizesAssumption
  <2> QED BY <2>1, UsedBounds DEF IInv
<1> QED BY <1>1, Invariance, PTL

(* No URB that waits to be submitted is forgotten while an application has *)
(* the device open: it is in the queue, and what is in the queue is not in *)
(* flight, through every open, close, suspend and resume that succeeds,    *)
(* for every number of URBs. *)
THEOREM URBsKept ==
    ASSUME OneReader
    PROVE  Spec => []URBNotLost
<1>1. Init => (calm /\ ~Dpl => Submitted)
  BY DEF Init, Submitted, Passed, SubmitIs, NotSubmitting
<1>2. (calm => IInv) /\ (calm /\ ~Dpl => Submitted) /\ [Next]_vars
         => (calm /\ ~Dpl => Submitted)'
  BY SubmittedStep, CalmStays
<1>3. (calm => IInv) /\ (calm /\ ~Dpl => Submitted) => URBNotLost
  BY DEF IInv, QueueInv, InQueue, Submitted, Passed, InQueueIfWaiting, URBNotLost
<1> QED BY <1>1, <1>2, <1>3, Invariance, PTL DEF Spec

(* Each step of the read path is a step of the byte stream. *)
LEMMA ReadGives ==
    ASSUME IInv, NEW c \in Consumers, LastLeg(c)
    PROVE  Stream!Read
<1>. DEFINE k == Len(copy[c].user) + copy[c].n
<1>1. /\ copy[c].pc \in Copying \ {"leg1"}
      /\ out' = [i \in 1..(Len(out) + Len(Copied(c))) |->
                   IF i <= Len(out) THEN out[i] ELSE Copied(c)[i - Len(out)]]
      /\ UNCHANGED <<opened, sent>>
  BY DEF LastLeg, openVars
<1>2. k \in 1..Used /\ Copied(c) = [i \in 1..k |-> Len(out) + i]
  BY <1>1, CopiedIsFront DEF IInv
<1>3. /\ Len(out) \in Nat /\ Used \in Nat /\ sent \in Nat
      /\ \A i \in 1..Len(out) : out[i] = i
  BY UsedBounds DEF IInv, Types, OutIntact
<1>. HIDE DEF k
<1>4. out' = [i \in 1..(Len(out) + k) |-> i]
  <2>1. Len(Copied(c)) = k
    BY <1>2, <1>3
  <2>2. \A i \in 1..(Len(out) + k) :
           (IF i <= Len(out) THEN out[i] ELSE Copied(c)[i - Len(out)]) = i
    BY <1>2, <1>3
  <2>3. QED
    BY <1>1, <2>1, <2>2
<1>5. Len(out) + Used <= sent
  <2>1. 0 \in 0..Len(mBulkUrbBuffList) /\ Reach(0) = Len(out) + Used
    BY DEF IInv, Types, Reach
  <2>2. QED
    BY <2>1 DEF IInv, QueueIntact
<1>6. Len(out) + k \in (Len(out) + 1)..sent
  BY <1>2, <1>3, <1>5
<1>7. opened
  BY <1>1 DEF IInv, RestInv, Copying
<1>8. QED
  BY <1>1, <1>4, <1>6, <1>7 DEF Stream!Read

LEMMA StreamStep ==
    ASSUME IInv, [Next]_vars, calm'
    PROVE  Stream!Next \/ UNCHANGED <<opened, sent, out>>
<1>1. CASE UserspaceQTIDevOpen
  BY <1>1 DEF UserspaceQTIDevOpen, Stream!Next, Stream!Open
<1>2. CASE UserspaceQTIDevRelease
  BY <1>2 DEF UserspaceQTIDevRelease, Stream!Next, Stream!Close
<1>3. CASE QTIDevUSBSuspend \/ QTIDevUSBResume
  BY <1>3 DEF QTIDevUSBSuspend, QTIDevUSBResume
<1>8. CASE SubmitAllReadUrb /\ Next
  <2>1. CASE RefuseRead
    <3>1. ~suspended
      BY <1>8, <2>1, CalmStep
    <3>2. opened /\ out = << >>
      BY <2>1, <3>1 DEF RefuseRead, IInv, RestInv, SubmitIs
    <3>3. ~opened' /\ opened' \in BOOLEAN /\ UNCHANGED <<sent, out>>
      BY <2>1, <3>1 DEF RefuseRead, IInv, Types
    <3>4. QED
      BY <3>2, <3>3 DEF Stream!Next, Stream!OpenFails
  <2>2. CASE ~RefuseRead
    BY <1>8, <2>2
    DEF SubmitAllReadUrb, SkipRead, SubmitRead, MarkSubmitted, SubmitDone
  <2>3. QED
    BY <2>1, <2>2
<1>4. CASE Controller
  <2>1. ASSUME NEW u \in URBs, NEW len \in 1..UrbLen, BlkCallback(u, len)
        PROVE  Stream!Receive
    <3>1. /\ opened /\ sent' = sent + len /\ sent + len <= MaxBytes
          /\ UNCHANGED <<opened, out>>
      BY <2>1 DEF BlkCallback, openVars
    <3>2. sent + len \in (sent + 1)..MaxBytes
      BY <3>1, SizesAssumption DEF IInv, Types
    <3>3. QED
      BY <3>1, <3>2 DEF Stream!Receive
  <2>2. QED
    BY <1>4, <2>1 DEF Controller, BlkCallbackError, openVars, Stream!Next
<1>5. CASE \E c \in Consumers : Reader(c)
  <2>1. PICK c \in Consumers : Reader(c)
    BY <1>5
  <2>2. CASE LastLeg(c)
    BY <2>2, ReadGives DEF Stream!Next
  <2>3. CASE ~LastLeg(c)
    BY <2>1, <2>3
    DEF Reader, CopyFromReadMemList, FirstLeg, PopFromQueueAndSubmit, Fault,
        Return, openVars
  <2>4. QED
    BY <2>2, <2>3
<1>6. CASE UNCHANGED vars
  BY <1>6 DEF vars, openVars
<1>7. QED
  BY <1>1, <1>2, <1>3, <1>4, <1>5, <1>6, <1>8 DEF Next

(* The circular buffer, the queue of URBs and the moves with the lock      *)
(* dropped implement a byte stream: what a reader gets are the next bytes  *)
(* in order, never more than the device has sent. *)
THEOREM ImplementsStream ==
    ASSUME OneReader
    PROVE  Spec => StreamSpec
<1>1. Init => Stream!Init
  BY DEF Init, Stream!Init
<1>2. (calm => IInv) /\ [Next]_vars
         => [calm' => Stream!Next]_<<opened, sent, out>>
  BY StreamStep, CalmStays
<1> QED BY <1>1, <1>2, Invariance, PTL DEF Spec, StreamSpec
=============================================================================
