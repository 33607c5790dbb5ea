---------------------------- MODULE UsbReadNotify ----------------------------
(***************************************************************************)
(* Which reader of a diagnostics device copies data: the notify list and   *)
(* the events of the pool mRxNotifyPool, src/src/linux/qcom_usb/           *)
(* qcom_usb_main.c and qcom_event.c.                                       *)
(*                                                                         *)
(* A thread in ReadSyncBlk takes a free slot of the pool, adds it to the   *)
(* tail of mpReadNotifyList and sleeps on the event of the slot, for two   *)
(* seconds.  Only the head of the list is told of data, and only when its  *)
(* mInProcess is not set.  So one reader at a time should copy, with       *)
(* mReadMemLock dropped (UsbBulkRead).  A close of any file descriptor     *)
(* cancels all reads.                                                      *)
(*                                                                         *)
(* Each critical section of mReadMemLock is one step.                      *)
(***************************************************************************)
EXTENDS Naturals, Sequences, SequencesExt, FiniteSets

CONSTANTS
    Readers,    \* threads in ReadSyncBlk
    PoolSize,   \* QTIDEV_RX_NOTIFY_POOL_SZ
    MaxStored,  \* bound: bytes in the circular buffer
    NONE        \* no slot

ASSUME PoolAssumption ==
    /\ PoolSize \in Nat \ {0} /\ MaxStored \in Nat \ {0}
    /\ NONE \notin Nat

VARIABLES
    stored,  \* bytes in the circular buffer and the URBs queued behind it
    notify,  \* mpReadNotifyList, and mInProcess and the events of each slot
    rd,      \* rd[r]: reader r in ReadSyncBlk
    calm     \* no sleep has timed out or been interrupted, no flush

vars == <<stored, notify, rd, calm>>

Slots == 1..PoolSize
NotReading == [pc |-> "idle", slot |-> NONE, result |-> "none"]

Init ==
    /\ stored = 0
    /\ notify = [list |-> << >>, inProcess |-> [s \in Slots |-> FALSE],
                 events |-> [s \in Slots |-> {}]]
    /\ rd = [r \in Readers |-> NotReading]
    /\ calm = TRUE

(***************************************************************************)
(* Operations on the list, all under mReadMemLock.                         *)
(***************************************************************************)
NotifyAlways(q, n, evt) ==  \* variant: mInProcess is not looked at
    IF q.list # << >> /\ n > 0 /\ evt \in {NONE, Head(q.list)}
    THEN [q EXCEPT !.inProcess[Head(q.list)] = TRUE,
                   !.events[Head(q.list)] = @ \cup {"FILL"}]
    ELSE q

NotifyNewOnly(q, n, evt) ==  \* variant: a reader that leaves tells nobody
    IF /\ q.list # << >> /\ n > 0 /\ evt = Head(q.list)
       /\ ~q.inProcess[Head(q.list)]
    THEN [q EXCEPT !.inProcess[Head(q.list)] = TRUE,
                   !.events[Head(q.list)] = @ \cup {"FILL"}]
    ELSE q

(* Tells the head of the list, if there is data and it is slot evt (NONE:  *)
(* whichever it is) and it has not been told yet. *)
NotifyUserRequest(q, n, evt) ==
    IF /\ q.list # << >> /\ n > 0 /\ evt \in {NONE, Head(q.list)}
       /\ ~q.inProcess[Head(q.list)]
    THEN [q EXCEPT !.inProcess[Head(q.list)] = TRUE,
                   !.events[Head(q.list)] = @ \cup {"FILL"}]
    ELSE q

InList(q, s) == \E i \in 1..Len(q.list) : q.list[i] = s

(* AllocateRxNotifyItem: the first slot that is not in use. *)
FreeSlots(q) == {s \in Slots : ~InList(q, s)
                               /\ \A t \in 1..(s - 1) : InList(q, t)}

AddToNotifyList(q, s) ==
    [q EXCEPT !.list = Append(@, s), !.inProcess[s] = FALSE]

RemoveNotification(q, s) ==
    IF InList(q, s)
    THEN [q EXCEPT !.list = RemoveAt(@, CHOOSE i \in 1..Len(q.list) : q.list[i] = s),
                   !.inProcess[s] = FALSE]
    ELSE q

ClearEvent(q, s, evt) == [q EXCEPT !.events[s] = @ \ {evt}]

ClearNotifyList(q) ==
    [list |-> << >>,
     inProcess |-> [s \in Slots |-> IF InList(q, s) THEN FALSE
                                                    ELSE q.inProcess[s]],
     events |-> [s \in Slots |-> IF InList(q, s)
                                 THEN q.events[s] \cup {"CANCEL"}
                                 ELSE q.events[s]]]

-----------------------------------------------------------------------------
(***************************************************************************)
(* ReadSyncBlk.                                                            *)
(***************************************************************************)

(* Up to the wait.  With no free slot the call returns 0 at once. *)
ReadSyncBlk(r, s) ==
    /\ rd[r].pc = "idle"
    /\ s \in FreeSlots(notify)
    /\ notify' = NotifyUserRequest(AddToNotifyList(notify, s), stored, s)
    /\ rd' = [rd EXCEPT ![r] = [NotReading EXCEPT !.pc = "wait", !.slot = s]]
    /\ UNCHANGED <<stored, calm>>

(* qti_wait_event returns the lowest event of the slot. *)
WaitEvent(r) ==
    LET set == notify.events[rd[r].slot] IN
    /\ rd[r].pc = "wait"
    /\ set # {}
    /\ rd' = [rd EXCEPT ![r].pc = "woken",
                 ![r].result = IF "CANCEL" \in set THEN "CANCEL" ELSE "FILL"]
    /\ UNCHANGED <<stored, notify, calm>>

(* It times out (QTIDEV_RX_TIMEOUT) or is interrupted. *)
WaitExpires(r) ==
    /\ rd[r].pc = "wait"
    /\ notify.events[rd[r].slot] = {}
    /\ rd' = [rd EXCEPT ![r].pc = "woken"]
    /\ calm' = FALSE
    /\ UNCHANGED <<stored, notify>>

(* The end of the call: RemoveNotification, NotifyUserRequest. *)
Leave(r, q, n) ==
    /\ notify' = NotifyUserRequest(RemoveNotification(q, rd[r].slot), n, NONE)
    /\ rd' = [rd EXCEPT ![r] = NotReading]

(* CopyFromReadMemList finds data and drops the lock for the copy. *)
BeginCopy(r) ==
    /\ rd[r].pc = "woken" /\ rd[r].result = "FILL"
    /\ stored > 0
    /\ notify' = ClearEvent(notify, rd[r].slot, "FILL")
    /\ rd' = [rd EXCEPT ![r].pc = "copy"]
    /\ UNCHANGED <<stored, calm>>

(* It finds none; or the read was cancelled, timed out or interrupted. *)
LeaveWithoutData(r) ==
    /\ rd[r].pc = "woken"
    /\ rd[r].result = "FILL" => stored = 0
    /\ Leave(r, IF rd[r].result = "none" THEN notify
                ELSE ClearEvent(notify, rd[r].slot, rd[r].result), stored)
    /\ UNCHANGED <<stored, calm>>

(* The copy ends; URBs popped from the queue are announced before the      *)
(* reader leaves.  A failed copy leaves what is stored as it is. *)
EndCopy(r, left, popped) ==
    /\ rd[r].pc = "copy"
    /\ left <= stored
    /\ popped => left > 0
    /\ stored' = left
    /\ Leave(r, IF popped THEN NotifyUserRequest(notify, left, NONE)
                ELSE notify, left)
    /\ UNCHANGED calm

(* BlkCallback stores data in the circular buffer, or, when that is in use *)
(* and full, in the queue, which is not announced. *)
BlkCallback(n) ==
    /\ stored + n <= MaxStored
    /\ stored' = stored + n
    /\ \/ notify' = NotifyUserRequest(notify, stored', NONE)
       \/ stored > 0 /\ UNCHANGED notify
    /\ UNCHANGED <<rd, calm>>

(* Any close() of a descriptor of the device: the reads are cancelled. *)
UserspaceQTIDevFlush ==
    /\ notify.list # << >>
    /\ notify' = ClearNotifyList(notify)
    /\ calm' = FALSE
    /\ UNCHANGED <<stored, rd>>

Proceed(r) ==
    \/ WaitEvent(r) \/ BeginCopy(r) \/ LeaveWithoutData(r)
    \/ \E left \in 0..MaxStored, popped \in BOOLEAN : EndCopy(r, left, popped)

Next ==
    \/ \E r \in Readers : \/ \E s \in Slots : ReadSyncBlk(r, s)
                          \/ Proceed(r) \/ WaitExpires(r)
    \/ \E n \in 1..MaxStored : BlkCallback(n)
    \/ UserspaceQTIDevFlush

Spec == Init /\ [][Next]_vars

(* A reader that has been woken runs again. *)
FairSpec == Spec /\ \A r \in Readers : WF_vars(Proceed(r))
-----------------------------------------------------------------------------
(***************************************************************************)
(* Properties.                                                             *)
(***************************************************************************)

(* Type correctness of the list, the slots and the readers. *)
TypeOK ==
    /\ stored \in 0..MaxStored
    /\ notify \in [list : Seq(Slots), inProcess : [Slots -> BOOLEAN],
                   events : [Slots -> SUBSET {"CANCEL", "FILL"}]]
    /\ rd \in [Readers -> [pc : {"idle", "wait", "woken", "copy"},
                           slot : Slots \cup {NONE},
                           result : {"none", "CANCEL", "FILL"}]]
    /\ \A r \in Readers : rd[r].pc # "idle" => rd[r].slot \in Slots
    /\ calm \in BOOLEAN

(* CopyFromReadMemList works with the lock dropped and must not run twice  *)
(* at a time: only the reader at the head of the list copies, as long as   *)
(* no sleep was cut short and no flush came in between.                    *)
SingleCopier ==
    calm => \A r, s \in Readers :
               rd[r].pc = "copy" /\ rd[s].pc = "copy" => r = s

(* A reader that was told of data finds it: a blocking read does not       *)
(* return 0 (the end of the file) because another reader was quicker.      *)
FillHasData ==
    calm => \A r \in Readers : rd[r].result = "FILL" => stored > 0

(* Reader r has been told of data and will look at the list again. *)
Told(r) == \/ rd[r].pc \in {"woken", "copy"}
           \/ rd[r].pc = "wait" /\ notify.events[rd[r].slot] # {}

(* No wake-up is lost: while data is stored, the reader at the head of the *)
(* list has been told, and will tell the next one when it leaves.          *)
HeadIsTold ==
    stored > 0 /\ notify.list # << >> =>
        \E r \in Readers : rd[r].slot = Head(notify.list) /\ Told(r)

(* No reader waits for ever while data keeps coming, whatever the others   *)
(* take and until a sleep is cut short.  Readers may be permuted, so it is *)
(* said of one of them. *)
ReaderServed ==
    LET r == CHOOSE r \in Readers : TRUE
    IN  []<>(stored > 0) =>
            (rd[r].pc = "wait" ~> rd[r].pc = "idle" \/ ~calm)
=============================================================================
