----------------------------- MODULE UsbBulkRead -----------------------------
(***************************************************************************)
(* The bulk-IN path of the Linux diagnostics driver,                       *)
(* src/src/linux/qcom_usb/qcom_usb_main.c: BlkCallback, the completion of  *)
(* a read URB, appends the data to a circular buffer and submits the URB   *)
(* again.  Without room the URB keeps its data on mBulkUrbBuffList and is  *)
(* submitted again by the reader that makes room.                          *)
(*                                                                         *)
(* mReadMemLock is dropped while data is copied to user space, so the      *)
(* indices move under a reader.  URBs complete while SubmitAllReadUrb is   *)
(* still submitting the others, also in an open that fails in the end.     *)
(* The bytes that the device sends while mRefCount is 2 are numbered 1, 2, *)
(* ... from each close on.  One thread opens the device at a time.         *)
(***************************************************************************)
EXTENDS Naturals, Sequences

CONSTANTS
    NumURBs,    \* BULK_URB_LIST
    BufLen,     \* QTIDEV_BULK_BUF_LEN
    UrbLen,     \* bound: longest transfer of one URB
    ReadSizes,  \* sizes that readers ask for
    MaxBytes,   \* bound: bytes the device sends between two closes,
                \* and bytes read before a last call
    Consumers,  \* readers that can be in CopyFromReadMemList at a time
    Dpl,        \* TRUE: mDevType is QTIDEV_INF_TYPE_DPL
    Suspends,   \* TRUE: the system suspends the device while it is open
    NONE        \* the lock is free

ASSUME SizesAssumption ==
    /\ NumURBs \in Nat \ {0} /\ UrbLen \in Nat \ {0} /\ BufLen \in Nat
    /\ UrbLen <= BufLen
    /\ ReadSizes \subseteq Nat \ {0}
    /\ MaxBytes \in Nat
    /\ NONE \notin Consumers
    /\ Dpl \in BOOLEAN /\ Suspends \in BOOLEAN

VARIABLES
    opened,            \* mRefCount is 2
    suspended,         \* from QTIDevUSBSuspend to the end of QTIDevUSBResume
    submitting,        \* position and URB of SubmitAllReadUrb
    mReadBuff,         \* mReadBuffCircular.mBulk_in_buffer
    mStartIdx, mEndIdx, mBufEmptyStatus,
    mBulkUrbBuffList,  \* the nodes of the list that hold a buffer
    mUrbStatus,        \* mBulkUrbList[u].mUrbStatus
    urb,               \* the host controller's view of URB u
    urbData,           \* transfer buffer of URB u: first byte, actual_length
    sent,              \* bytes the device has sent since the last close
    out,               \* bytes given to readers since the open
    copy,              \* copy[c]: consumer c in CopyFromReadMemList
    mReadMemLock,      \* holder between two steps of one critical section
    calm               \* history, see Next; guards nothing

ringVars == <<mReadBuff, mStartIdx, mEndIdx, mBufEmptyStatus>>
urbVars  == <<mBulkUrbBuffList, mUrbStatus, urb, urbData>>
openVars == <<opened, suspended, submitting>>
vars == <<openVars, ringVars, urbVars, sent, out, copy, mReadMemLock, calm>>

URBs == 1..NumURBs
NotSubmitting == [pc |-> "idle", urb |-> 0]
NoData == [first |-> 0, len |-> 0]
Copying == {"short", "all", "flat", "leg1", "leg2", "leg3"}
NoCopy == [pc |-> "idle", size |-> 0, from |-> 0, n |-> 0, endIdx |-> 0,
           user |-> << >>]

(***************************************************************************)
(* The circular buffer.                                                    *)
(***************************************************************************)
FreeSpaceModulo ==  \* variant: takes a full buffer for an empty one
    IF mStartIdx <= mEndIdx THEN BufLen - (mEndIdx - mStartIdx)
                            ELSE mStartIdx - mEndIdx

ReadBufferFreeSpace ==
    IF mBufEmptyStatus THEN BufLen
    ELSE IF mStartIdx < mEndIdx THEN BufLen - (mEndIdx - mStartIdx)
                                ELSE mStartIdx - mEndIdx

FitsFull(len) ==  \* variant: a full buffer is not recognised
    IF mStartIdx <= mEndIdx THEN len <= BufLen - (mEndIdx - mStartIdx)
                            ELSE len <= mStartIdx - mEndIdx

(* AddToReadMemList accepts len bytes. *)
Fits(len) ==
    IF mStartIdx <= mEndIdx
    THEN /\ mStartIdx = mEndIdx => mBufEmptyStatus
         /\ len <= BufLen - (mEndIdx - mStartIdx)
    ELSE len <= mStartIdx - mEndIdx

AddToReadMemList(data) ==
    /\ mReadBuff' =
         [p \in 0..(BufLen - 1) |->
            IF mEndIdx <= p /\ p < mEndIdx + data.len
            THEN data.first + (p - mEndIdx)
            ELSE IF p + BufLen < mEndIdx + data.len
                 THEN data.first + (p + BufLen - mEndIdx)
                 ELSE mReadBuff[p]]
    /\ mEndIdx' = IF mEndIdx + data.len <= BufLen
                  THEN mEndIdx + data.len
                  ELSE mEndIdx + data.len - BufLen
    /\ mBufEmptyStatus' = FALSE
    /\ UNCHANGED mStartIdx

(* AddToQueue: takes the first node without a buffer.  With no such node   *)
(* ("Bug!") the URB and its data are lost. *)
AddToQueue(u) ==
    IF Len(mBulkUrbBuffList) < NumURBs
    THEN /\ mBulkUrbBuffList' = Append(mBulkUrbBuffList, u)
         /\ mUrbStatus' = [mUrbStatus EXCEPT ![u] =
                              IF @ = "submitted" THEN "initialized" ELSE @]
    ELSE UNCHANGED <<mBulkUrbBuffList, mUrbStatus>>

-----------------------------------------------------------------------------
Init ==
    /\ opened = FALSE
    /\ suspended = FALSE
    /\ submitting = NotSubmitting
    /\ mReadBuff = [p \in 0..(BufLen - 1) |-> 0]
    /\ mStartIdx = 0 /\ mEndIdx = 0 /\ mBufEmptyStatus = TRUE
    /\ mBulkUrbBuffList = << >>
    /\ mUrbStatus = [u \in URBs |-> IF Dpl THEN "submitted" ELSE "initialized"]
    /\ urb = [u \in URBs |-> IF Dpl THEN "inFlight" ELSE "idle"]
    /\ urbData = [u \in URBs |-> NoData]
    /\ sent = 0 /\ out = << >>
    /\ copy = [c \in Consumers |-> NoCopy]
    /\ mReadMemLock = NONE
    /\ calm = TRUE

-----------------------------------------------------------------------------
(***************************************************************************)
(* SubmitAllReadUrb, of an open or of a resume: each URB that is           *)
(* initialized and not submitted is submitted, and marked after that, when *)
(* it may have completed.  The first refusal ends it.                      *)
(***************************************************************************)
SubmitIs(pc) == submitting.pc = pc

SubmitNext(u) == submitting' = [pc |-> "submit", urb |-> u]

SkipRead ==
    /\ SubmitIs("submit") /\ submitting.urb \in URBs
    /\ mUrbStatus[submitting.urb] # "initialized"
    /\ SubmitNext(submitting.urb + 1)
    /\ UNCHANGED <<opened, suspended, ringVars, urbVars, sent, out, copy,
                   mReadMemLock>>

SubmitRead ==
    /\ SubmitIs("submit") /\ submitting.urb \in URBs
    /\ mUrbStatus[submitting.urb] = "initialized"
    /\ urb' = [urb EXCEPT ![submitting.urb] = "inFlight"]
    /\ urbData' = [urbData EXCEPT ![submitting.urb] = NoData]
    /\ submitting' = [submitting EXCEPT !.pc = "mark"]
    /\ UNCHANGED <<opened, suspended, ringVars, mBulkUrbBuffList,
                   mUrbStatus, sent, out, copy, mReadMemLock>>

MarkSubmitted ==
    /\ SubmitIs("mark")
    /\ mUrbStatus' = [mUrbStatus EXCEPT ![submitting.urb] = "submitted"]
    /\ SubmitNext(submitting.urb + 1)
    /\ UNCHANGED <<opened, suspended, ringVars, mBulkUrbBuffList, urb,
                   urbData, sent, out, copy, mReadMemLock>>

(* usb_submit_urb refuses the URB: the open fails with kref_put and leaves *)
(* the URBs submitted so far in flight and their data stored; the resume   *)
(* only logs it. *)
RefuseRead ==
    /\ SubmitIs("submit") /\ submitting.urb \in URBs
    /\ mUrbStatus[submitting.urb] = "initialized"
    /\ mUrbStatus' = [mUrbStatus EXCEPT ![submitting.urb] = "uninitialized"]
    /\ submitting' = NotSubmitting
    /\ suspended' = FALSE
    /\ opened' = (opened /\ suspended)
    /\ UNCHANGED <<ringVars, mBulkUrbBuffList, urb, urbData, sent, out,
                   copy, mReadMemLock>>

SubmitDone ==
    /\ SubmitIs("submit") /\ submitting.urb = NumURBs + 1
    /\ submitting' = NotSubmitting
    /\ suspended' = FALSE
    /\ UNCHANGED <<opened, ringVars, urbVars, sent, out, copy,
                   mReadMemLock>>

SubmitAllReadUrb ==
    SkipRead \/ SubmitRead \/ MarkSubmitted \/ RefuseRead \/ SubmitDone

(* StopRead: usb_kill_urb on every initialized URB. *)
StopRead ==
    /\ mUrbStatus' = [u \in URBs |-> IF mUrbStatus[u] = "submitted"
                                     THEN "initialized" ELSE mUrbStatus[u]]
    /\ urb' = [u \in URBs |-> "idle"]

(* UserspaceQTIDevOpen up to kref_get; SubmitAllReadUrb follows. *)
UserspaceQTIDevOpen ==
    /\ ~opened /\ ~suspended /\ SubmitIs("idle")
    /\ opened' = TRUE
    /\ IF Dpl THEN UNCHANGED submitting ELSE SubmitNext(1)
    /\ UNCHANGED <<suspended, ringVars, urbVars, sent, out, copy, mReadMemLock>>

(* UserspaceQTIDevRelease: StopRead, ClearReadMemList.  A reader holds a   *)
(* reference to the file, so none is left. *)
UserspaceQTIDevRelease ==
    /\ opened /\ ~suspended /\ SubmitIs("idle")
    /\ \A c \in Consumers : copy[c].pc = "idle"
    /\ StopRead
    /\ opened' = FALSE
    /\ mBulkUrbBuffList' = << >>
    /\ mReadBuff' = [p \in 0..(BufLen - 1) |-> 0]
    /\ mStartIdx' = 0 /\ mEndIdx' = 0 /\ mBufEmptyStatus' = TRUE
    /\ urbData' = [u \in URBs |-> NoData]
    /\ sent' = 0 /\ out' = << >>
    /\ UNCHANGED <<suspended, submitting, copy, mReadMemLock>>

(* Tasks are frozen while the system suspends. *)
QTIDevUSBSuspend ==
    /\ Suspends /\ ~suspended /\ SubmitIs("idle")
    /\ \A c \in Consumers : copy[c].pc = "idle"
    /\ StopRead
    /\ suspended' = TRUE
    /\ UNCHANGED <<opened, submitting, ringVars, mBulkUrbBuffList, urbData,
                   sent, out, copy, mReadMemLock>>

QTIDevUSBResume ==
    /\ suspended /\ SubmitIs("idle")
    /\ IF Dpl \/ opened
       THEN SubmitNext(1) /\ UNCHANGED suspended
       ELSE suspended' = FALSE /\ UNCHANGED submitting
    /\ UNCHANGED <<opened, ringVars, urbVars, sent, out, copy,
                   mReadMemLock>>
-----------------------------------------------------------------------------
(***************************************************************************)
(* BlkCallback.                                                            *)
(***************************************************************************)

(* ResubmitBulkURB succeeds, or the URB is lost until the next StopRead. *)
ResubmitBulkURB(u, data) ==
    \/ /\ urb' = [urb EXCEPT ![u] = "inFlight"]
       /\ urbData' = [urbData EXCEPT ![u] = NoData]
    \/ /\ urb' = [urb EXCEPT ![u] = "failed"]
       /\ urbData' = [urbData EXCEPT ![u] = data]

BlkCallbackUnqueued(u, len) ==  \* variant: overtakes the queued data
    LET data == [first |-> sent + 1, len |-> len] IN
    /\ urb[u] = "inFlight"
    /\ opened /\ mReadMemLock = NONE
    /\ sent + len <= MaxBytes
    /\ sent' = sent + len
    /\ IF ~Fits(len)
       THEN /\ AddToQueue(u)
            /\ urb' = [urb EXCEPT ![u] = "idle"]
            /\ urbData' = [urbData EXCEPT ![u] = data]
            /\ UNCHANGED ringVars
       ELSE /\ AddToReadMemList(data)
            /\ ResubmitBulkURB(u, data)
            /\ UNCHANGED <<mBulkUrbBuffList, mUrbStatus>>
    /\ UNCHANGED <<openVars, out, copy, mReadMemLock>>

(* An URB completes with len bytes of data. *)
BlkCallback(u, len) ==
    LET data == [first |-> sent + 1, len |-> len] IN
    /\ urb[u] = "inFlight"
    /\ opened /\ mReadMemLock = NONE
    /\ sent + len <= MaxBytes
    /\ sent' = sent + len
    /\ IF mBulkUrbBuffList # << >> \/ ~Fits(len)
       THEN /\ AddToQueue(u)
            /\ urb' = [urb EXCEPT ![u] = "idle"]
            /\ urbData' = [urbData EXCEPT ![u] = data]
            /\ UNCHANGED ringVars
       ELSE /\ AddToReadMemList(data)
            /\ ResubmitBulkURB(u, data)
            /\ UNCHANGED <<mBulkUrbBuffList, mUrbStatus>>
    /\ UNCHANGED <<openVars, out, copy, mReadMemLock>>

(* It completes with an error, which returns at once, or without an        *)
(* application and cannot be submitted again. *)
BlkCallbackError(u) ==
    /\ urb[u] = "inFlight"
    /\ urb' = [urb EXCEPT ![u] = "failed"]
    /\ UNCHANGED <<openVars, ringVars, mBulkUrbBuffList, mUrbStatus, urbData, sent,
                   out, copy, mReadMemLock>>

-----------------------------------------------------------------------------
(***************************************************************************)
(* CopyFromReadMemList.  MoveDataToDestination drops the lock while it     *)
(* copies n bytes from position "from"; "short", "all", "flat" and the     *)
(* legs are the places of its calls.                                       *)
(***************************************************************************)
Unlocked == mReadMemLock = NONE

Move(c, place, size, from, n, user) ==
    copy' = [copy EXCEPT ![c] = [pc |-> place, size |-> size, from |-> from,
                                 n |-> n, endIdx |-> mEndIdx, user |-> user]]

(* The second leg, with mEndIdx read again. *)
SecondLeg(c, size, leg2, user) ==
    IF mEndIdx > leg2 THEN Move(c, "leg2", size, 0, leg2, user)
                      ELSE Move(c, "leg3", size, 0, mEndIdx, user)

CopyFromReadMemList(c, size) ==
    LET stored == mEndIdx - mStartIdx  tail == BufLen - mStartIdx IN
    /\ copy[c].pc = "idle"
    /\ opened /\ ~suspended /\ SubmitIs("idle") /\ Unlocked
    /\ Len(out) <= MaxBytes
    /\ \/ /\ mStartIdx < mEndIdx /\ stored > size
          /\ Move(c, "short", size, mStartIdx, size, << >>)
       \/ /\ mStartIdx < mEndIdx /\ stored <= size
          /\ Move(c, "all", size, mStartIdx, stored, << >>)
       \/ /\ mStartIdx >= mEndIdx /\ ~mBufEmptyStatus /\ tail >= size
          /\ Move(c, "flat", size, mStartIdx, size, << >>)
       \/ /\ mStartIdx >= mEndIdx /\ ~mBufEmptyStatus /\ tail < size
          /\ IF tail > 0 THEN Move(c, "leg1", size, mStartIdx, tail, << >>)
                         ELSE SecondLeg(c, size, size, << >>)
    /\ UNCHANGED <<openVars, ringVars, urbVars, sent, out,
                   mReadMemLock>>

(* What the user's buffer holds once the move is complete. *)
Copied(c) ==
    LET k == Len(copy[c].user) IN
    [i \in 1..(k + copy[c].n) |->
        IF i <= k THEN copy[c].user[i] ELSE mReadBuff[copy[c].from + (i - k - 1)]]

FirstLeg(c) ==
    /\ copy[c].pc = "leg1" /\ Unlocked
    /\ SecondLeg(c, copy[c].size, copy[c].size - copy[c].n, Copied(c))
    /\ UNCHANGED <<openVars, ringVars, urbVars, sent, out,
                   mReadMemLock>>

(* "need to inspec mEndIdx again" before the buffer is declared empty. *)
EmptyUnless(c) == mBufEmptyStatus' = (mBufEmptyStatus \/ mEndIdx = copy[c].endIdx)

AdvanceWithoutRecheck(c) ==  \* variant: mEndIdx is not inspected again
    LET m == copy[c] IN
    \/ /\ m.pc = "short"
       /\ mStartIdx' = mStartIdx + m.n
       /\ UNCHANGED mBufEmptyStatus
    \/ /\ m.pc \in {"all", "leg3"}
       /\ mStartIdx' = m.endIdx
       /\ mBufEmptyStatus' = TRUE
    \/ /\ m.pc = "flat"
       /\ mStartIdx' = (mStartIdx + m.n) % BufLen
       /\ UNCHANGED mBufEmptyStatus
    \/ /\ m.pc = "leg2"
       /\ mStartIdx' = m.n
       /\ UNCHANGED mBufEmptyStatus

Advance(c) ==
    LET m == copy[c] IN
    \/ /\ m.pc = "short"
       /\ mStartIdx' = mStartIdx + m.n
       /\ UNCHANGED mBufEmptyStatus
    \/ /\ m.pc \in {"all", "leg3"}
       /\ mStartIdx' = m.endIdx
       /\ EmptyUnless(c)
    \/ /\ m.pc = "flat"
       /\ mStartIdx' = (mStartIdx + m.n) % BufLen
       /\ UNCHANGED mBufEmptyStatus
    \/ /\ m.pc = "leg2"
       /\ mStartIdx' = m.n
       /\ UNCHANGED mBufEmptyStatus

(* The last move is complete: the data is the reader's.  The lock is held  *)
(* on for the queue. *)
LastLeg(c) ==
    /\ copy[c].pc \in Copying \ {"leg1"} /\ Unlocked
    /\ Advance(c)
    /\ out' = [i \in 1..(Len(out) + Len(Copied(c))) |->
                 IF i <= Len(out) THEN out[i] ELSE Copied(c)[i - Len(out)]]
    /\ copy' = [copy EXCEPT ![c] = [NoCopy EXCEPT !.pc = "drain"]]
    /\ mReadMemLock' = c
    /\ UNCHANGED <<openVars, mReadBuff, mEndIdx, urbVars, sent>>

(* The user's buffer is not writable: -EFAULT, no index moves. *)
Fault(c) ==
    /\ copy[c].pc \in Copying /\ Unlocked
    /\ copy' = [copy EXCEPT ![c] = NoCopy]
    /\ UNCHANGED <<openVars, ringVars, urbVars, sent, out,
                   mReadMemLock>>

PopWithoutSubmit(c) ==  \* variant: the URB is not submitted again
    LET u == Head(mBulkUrbBuffList) IN
    /\ copy[c].pc = "drain" /\ mReadMemLock = c
    /\ mBulkUrbBuffList # << >>
    /\ ReadBufferFreeSpace >= urbData[u].len
    /\ AddToReadMemList(urbData[u])
    /\ mBulkUrbBuffList' = Tail(mBulkUrbBuffList)
    /\ UNCHANGED <<openVars, mUrbStatus, urb, urbData, sent, out,
                   copy, mReadMemLock>>

(* while (PopFromQueueAndSubmit(pDev)): the head of the list goes to the   *)
(* circular buffer, if there is room, and its URB is submitted again,      *)
(* unless it is submitted already.  A failure of AddToReadMemList puts the *)
(* URB at the tail and ends the loop. *)
PopFromQueueAndSubmit(c) ==
    LET u == Head(mBulkUrbBuffList) IN
    /\ copy[c].pc = "drain" /\ mReadMemLock = c
    /\ mBulkUrbBuffList # << >>
    /\ ReadBufferFreeSpace >= urbData[u].len
    /\ IF Fits(urbData[u].len)
       THEN /\ AddToReadMemList(urbData[u])
            /\ mBulkUrbBuffList' = Tail(mBulkUrbBuffList)
            /\ UNCHANGED <<copy, mReadMemLock>>
       ELSE /\ mBulkUrbBuffList' = Append(Tail(mBulkUrbBuffList), u)
            /\ copy' = [copy EXCEPT ![c] = NoCopy]
            /\ mReadMemLock' = NONE
            /\ UNCHANGED ringVars
    /\ IF Fits(urbData[u].len) /\ mUrbStatus[u] = "initialized"
       THEN /\ ResubmitBulkURB(u, urbData[u])
            /\ mUrbStatus' = [mUrbStatus EXCEPT ![u] =
                                 IF urb'[u] = "inFlight" THEN "submitted" ELSE @]
       ELSE UNCHANGED <<mUrbStatus, urb, urbData>>
    /\ UNCHANGED <<openVars, sent, out>>

(* The loop ends; CopyFromReadMemList returns and the lock is released. *)
Return(c) ==
    /\ copy[c].pc = "drain" /\ mReadMemLock = c
    /\ mBulkUrbBuffList # << >> =>
          ReadBufferFreeSpace < urbData[Head(mBulkUrbBuffList)].len
    /\ copy' = [copy EXCEPT ![c] = NoCopy]
    /\ mReadMemLock' = NONE
    /\ UNCHANGED <<openVars, ringVars, urbVars, sent, out>>

-----------------------------------------------------------------------------
Reader(c) ==
    \/ \E size \in ReadSizes : CopyFromReadMemList(c, size)
    \/ FirstLeg(c) \/ LastLeg(c) \/ Fault(c)
    \/ PopFromQueueAndSubmit(c) \/ Return(c)

Controller ==
    \E u \in URBs : (\E len \in 1..UrbLen : BlkCallback(u, len))
                    \/ BlkCallbackError(u)

(* SubmitAllReadUrb takes an URB whose data waits in the queue for one that *)
(* is to be submitted. *)
InQueue(u) == \E j \in 1..Len(mBulkUrbBuffList) : mBulkUrbBuffList[j] = u
Requeues == SubmitRead /\ InQueue(submitting.urb)

(* calm: no queued URB has been submitted, and no resume has failed. *)
Next ==
    /\ \/ UserspaceQTIDevOpen \/ SubmitAllReadUrb
       \/ UserspaceQTIDevRelease
       \/ QTIDevUSBSuspend \/ QTIDevUSBResume
       \/ Controller
       \/ \E c \in Consumers : Reader(c)
    /\ calm' = (calm /\ ~Requeues /\ ~(suspended /\ RefuseRead))

Spec == Init /\ [][Next]_vars
-----------------------------------------------------------------------------
(***************************************************************************)
(* Properties.                                                             *)
(***************************************************************************)

(* Bytes in the circular buffer, and the place of the i-th of them. *)
Used == IF mBufEmptyStatus THEN 0
        ELSE IF mStartIdx < mEndIdx THEN mEndIdx - mStartIdx
        ELSE BufLen - (mStartIdx - mEndIdx)

Place(i) == IF mStartIdx + i < BufLen THEN mStartIdx + i
                                      ELSE mStartIdx + i - BufLen

Queued(j) == urbData[mBulkUrbBuffList[j]]

(* Up to where the stream reaches with the first j URBs of the queue. *)
Reach(j) == IF j = 0 THEN Len(out) + Used
                     ELSE Queued(j).first + Queued(j).len - 1

(* What the readers were given, the circular buffer and the queued URBs    *)
(* are together the bytes the device sent: none lost, doubled or out of    *)
(* order, although mEndIdx moves while a reader copies without the lock,   *)
(* and at every position of the two indices, mEndIdx = mBufflen included.  *)
(* The bytes of an open that fails are among them: the next one gets them. *)
(* It ends when SubmitAllReadUrb submits a queued URB (QueueHasNode below). *)
StreamIntact ==
    calm => /\ \A i \in 1..Len(out) : out[i] = i
            /\ \A i \in 0..(Used - 1) : mReadBuff[Place(i)] = Len(out) + 1 + i
            /\ \A j \in 1..Len(mBulkUrbBuffList) :
                  Queued(j).first = Reach(j - 1) + 1
            /\ sent = Reach(Len(mBulkUrbBuffList))

(* The n bytes that a reader copies without the lock, and those it has     *)
(* copied in a first leg, stay at the front of the circular buffer until   *)
(* the reader advances mStartIdx past them.  Meanwhile BlkCallback may     *)
(* move mEndIdx, past the end of the buffer too.                           *)
Ahead(m) == m.endIdx <= mEndIdx \/ mEndIdx <= mStartIdx

Front(m) ==
    /\ m.pc = "short" => m.from + m.n < m.endIdx /\ Ahead(m)
    /\ m.pc = "all" => m.from + m.n = m.endIdx /\ Ahead(m)
    /\ m.pc = "flat" => m.from + m.n <= BufLen /\ mEndIdx <= mStartIdx
    /\ m.pc = "leg1" => m.from + m.n = BufLen /\ m.n < m.size
                        /\ mEndIdx <= mStartIdx
    /\ m.pc = "leg2" => m.n < m.endIdx
                        /\ m.endIdx <= mEndIdx /\ mEndIdx <= mStartIdx
    /\ m.pc = "leg3" => m.n = m.endIdx
                        /\ m.endIdx <= mEndIdx /\ mEndIdx <= mStartIdx

Window ==
    \A c \in Consumers : LET m == copy[c] IN
        m.pc \in Copying =>
            /\ ~mBufEmptyStatus /\ m.n > 0
            /\ Front(m)
            /\ m.from = IF m.pc \in {"leg2", "leg3"} THEN 0 ELSE mStartIdx
            /\ Len(m.user) = IF m.pc \in {"leg2", "leg3"}
                             THEN BufLen - mStartIdx ELSE 0
            /\ \A i \in 1..Len(m.user) : m.user[i] = Len(out) + i

ReaderWindow == calm => Window

(* While an application reads, every read URB that waits to be submitted   *)
(* is in the queue, and none in the queue is in flight: none is forgotten  *)
(* between the callback, the queue and the reader that makes room, and no  *)
(* transfer overwrites data that waits.  Not in use any more are the URBs  *)
(* whose submission was refused, those that completed with an error, which *)
(* nobody submits again before the close, and those that completed before  *)
(* SubmitAllReadUrb marked them: they wait in the queue marked submitted,  *)
(* and the reader that takes them off it does not submit them.             *)
URBNotLost ==
    calm /\ opened /\ ~suspended /\ ~Dpl /\ SubmitIs("idle") =>
        \A u \in URBs :
            /\ urb[u] = "idle" /\ mUrbStatus[u] = "initialized" => InQueue(u)
            /\ InQueue(u) => urb[u] = "idle"

(* "No bulk_if_buffer match found for URB list and URB buff list. Bug!"    *)
(* (AddToQueue): an URB that completes without room for its data finds a   *)
(* free node.  It may find none after a resume that submitted queued URBs. *)
QueueHasNode ==
    \A u \in URBs : urb[u] = "inFlight" => Len(mBulkUrbBuffList) < NumURBs

(* After its check of the free space PopFromQueueAndSubmit does not fail   *)
(* ("read will be discarded"), nor does AddToReadMemList overrun the data  *)
(* of a reader: the two computations of the free space agree. *)
FreeSpaceAgrees == \A len \in 1..UrbLen : Fits(len) <=> len <= ReadBufferFreeSpace

(* The path implements a byte stream, as long as no queued URB is          *)
(* submitted. *)
Stream == INSTANCE UsbByteStream

StreamSpec == Stream!Init /\ [][calm' => Stream!Next]_<<opened, sent, out>>
=============================================================================
