----------------------------- MODULE QMIReadPipe -----------------------------
(***************************************************************************)
(* The read pipe of a QMI device and its indication thread,                *)
(* src/src/linux/qcom_usbnet/qmidevice.c, from the moment RegisterQMIDevice *)
(* has returned and the thread has initialised its semaphore.              *)
(*                                                                         *)
(* One interrupt URB and one read URB take turns: IntCallback submits the  *)
(* read URB when the modem announces a message, ReadCallback routes the    *)
(* message and submits the interrupt URB again.  Indications are copied to *)
(* a list that the thread GobiWaitForResponses works off, counted by a     *)
(* semaphore.  DeregisterQMIDevice kills the URBs, drops the list and      *)
(* stops the thread.                                                       *)
(*                                                                         *)
(* Of the clients, this module knows the list mClientMemList and the       *)
(* answers stored for QMICTL; QMIClientIDs adds who creates them.          *)
(***************************************************************************)
EXTENDS Naturals, Sequences, FiniteSets, SequencesExt

CONSTANTS
    ClientIds,       \* client IDs the modem hands out
    QMICTL,          \* the ID of the control client
    QMIWDS,          \* the ID of the driver's own WDS client
    MaxRequests,     \* bound: requests sent over QMICTL
    MaxIndications,  \* bound: indications the modem sends
    Limits,          \* bounds: the families of behaviours to look at
    NONE             \* no client ID

ASSUME IdsAssumption ==
    /\ QMICTL \notin ClientIds /\ NONE \notin ClientIds \cup {QMICTL}
    /\ QMIWDS \in ClientIds
ASSUME BoundsAssumption == MaxRequests \in Nat /\ MaxIndications \in Nat
ASSUME LimitsAssumption ==
    Limits \subseteq [requests : 0..MaxRequests,
                      inds : 0..MaxIndications, faults : BOOLEAN]

VARIABLES
    mbQMIValid,      \* sGobiUSBNet.mbQMIValid
    intURB,          \* mpIntURB: "armed", "idle" or "none" (NULL)
    readURB,         \* mpReadURB: the same
    outbox,          \* messages the modem holds for the host
    notices,         \* RESPONSE_AVAILABLE notifications not delivered yet
    cb,              \* ReadCallback: its position and its message
    inds,            \* indications sent so far; numbers the next one
    mClientMemList,  \* the clients: each its ID and the request that got it
    mClientMemLock,  \* a thread went away with the lock: "free" or "lost"
    ctlList,         \* mList of the QMICTL client
    indList,         \* mpIndDataInfoList
    responseReadSem, \* count of the semaphore; the thread asleep does not count
    thread,          \* GobiWaitForResponses: its position and its entry
    handled,         \* the indications the thread has handled, in order
    dereg,           \* DeregisterQMIDevice: its position
    limit            \* the member of Limits this behaviour keeps to

urbVars  == <<intURB, readURB>>
modemBox == <<outbox, notices>>
indVars  == <<indList, responseReadSem, thread, handled>>
listVars == <<mClientMemList, mClientMemLock, ctlList>>
pipeVars == <<mbQMIValid, urbVars, modemBox, cb, inds, listVars, indVars,
              dereg, limit>>

Messages ==
    [kind : {"get", "release", "ind"},
     num  : 1..(MaxRequests + MaxIndications),
     id   : ClientIds \cup {NONE}]
Clients == [id : ClientIds \cup {QMICTL}, req : 0..MaxRequests]
Idle    == [pc |-> "idle", msg |-> NONE]

Listed(id) == \E i \in 1..Len(mClientMemList) : mClientMemList[i].id = id

(* The lock can be taken. *)
Unlocked == mClientMemLock = "free"

-----------------------------------------------------------------------------
PipeInit ==
    /\ mbQMIValid = TRUE
    /\ intURB = "armed" /\ readURB = "idle"
    /\ outbox = << >> /\ notices = 0
    /\ cb = Idle
    /\ inds = 0
    /\ mClientMemList = <<[id |-> QMICTL, req |-> 0], [id |-> QMIWDS, req |-> 0]>>
    /\ mClientMemLock = "free"
    /\ ctlList = << >>
    /\ indList = << >>
    /\ responseReadSem = 0
    /\ thread = [pc |-> "asleep", ind |-> 0]
    /\ handled = << >>
    /\ dereg = "run"
    /\ limit \in Limits

-----------------------------------------------------------------------------
(***************************************************************************)
(* The URBs.                                                               *)
(***************************************************************************)

(* ResubmitIntURB( pDev->mQMIDev.mpIntURB ): may fail, and then the pipe   *)
(* is dead; with a NULL URB it does nothing. *)
ResubmitIntURB ==
    intURB' \in IF intURB = "none" THEN {"none"}
                ELSE {"armed"} \cup (IF limit.faults THEN {"idle"} ELSE {})

IntResubmitsToo ==  \* variant: does not return after the submission
    /\ intURB = "armed" /\ mbQMIValid
    /\ notices > 0
    /\ notices' = notices - 1
    /\ \/ readURB' = "armed" /\ ResubmitIntURB
       \/ limit.faults /\ readURB' = readURB /\ ResubmitIntURB
    /\ UNCHANGED <<mbQMIValid, outbox, cb, inds, listVars, indVars, dereg, limit>>

(* IntCallback, device valid, status 0 and RESPONSE_AVAILABLE: submit the  *)
(* read URB; if that fails, the interrupt URB again. *)
IntCallbackResponse ==
    /\ intURB = "armed" /\ mbQMIValid
    /\ notices > 0
    /\ notices' = notices - 1
    /\ \/ readURB' = "armed" /\ intURB' = "idle"
       \/ limit.faults /\ readURB' = readURB /\ ResubmitIntURB
    /\ UNCHANGED <<mbQMIValid, outbox, cb, inds, listVars, indVars, dereg, limit>>

(* IntCallback in the other cases: an invalid device or an error status    *)
(* other than -EOVERFLOW ends the pipe; SPEED_CHANGE, unknown              *)
(* notifications and -EOVERFLOW only submit the URB again.                 *)
IntCallbackOther ==
    /\ intURB = "armed"
    /\ limit.faults \/ ~mbQMIValid
    /\ IF mbQMIValid THEN ResubmitIntURB ELSE intURB' = "idle"
    /\ UNCHANGED <<mbQMIValid, readURB, modemBox, cb, inds, listVars, indVars,
                   dereg, limit>>

(* The completed read URB; it has been freed meanwhile if mpReadURB is     *)
(* NULL. *)
Completed == IF intURB = "none" THEN "none" ELSE "idle"

(* ReadCallback for a message that is lost: status, ParseQMUX or length.   *)
ReadCallbackError ==
    /\ readURB = "armed" /\ outbox # << >>
    /\ limit.faults \/ ~mbQMIValid
    /\ readURB' = Completed
    /\ outbox' = Tail(outbox)
    /\ IF mbQMIValid THEN ResubmitIntURB ELSE intURB' = intURB
    /\ UNCHANGED <<mbQMIValid, notices, cb, inds, listVars, indVars, dereg, limit>>

(* The client a message is for: QMICTL for an answer. *)
Addressee(msg) == IF msg.kind = "ind" THEN msg.id ELSE QMICTL

(* ReadCallback up to processIndResponses.  With no client for the message *)
(* the interrupt URB is submitted again at once.                           *)
ReadCallback ==
    /\ readURB = "armed" /\ outbox # << >>
    /\ mbQMIValid
    /\ readURB' = Completed
    /\ outbox' = Tail(outbox)
    /\ LET msg == Head(outbox) IN
       IF Listed(Addressee(msg))
       THEN /\ cb' = [pc |-> IF msg.kind = "ind" THEN "list" ELSE "store",
                      msg |-> msg]
            /\ UNCHANGED intURB
       ELSE ResubmitIntURB /\ UNCHANGED cb
    /\ UNCHANGED <<mbQMIValid, notices, inds, listVars, indVars, dereg, limit>>

-----------------------------------------------------------------------------
(***************************************************************************)
(* processIndResponses: AddToProcessIndList, then up().                    *)
(***************************************************************************)

AddToIndListFront ==  \* variant: the newest indication first
    /\ cb.pc = "list"
    /\ IF mbQMIValid
       THEN /\ cb' = [cb EXCEPT !.pc = "up"]
            /\ indList' \in {<<cb.msg.num>> \o indList, indList}
       ELSE /\ cb' = [cb EXCEPT !.pc = "store"]
            /\ UNCHANGED indList
    /\ UNCHANGED <<mbQMIValid, urbVars, modemBox, inds, listVars,
                   responseReadSem, thread, handled, dereg, limit>>

(* A copy of the indication goes to the end of the list; out of memory it  *)
(* does not, and the semaphore is raised all the same. *)
AddToProcessIndList ==
    /\ cb.pc = "list"
    /\ IF mbQMIValid
       THEN /\ cb' = [cb EXCEPT !.pc = "up"]
            /\ indList' \in {Append(indList, cb.msg.num), indList}
       ELSE /\ cb' = [cb EXCEPT !.pc = "store"]
            /\ UNCHANGED indList
    /\ UNCHANGED <<mbQMIValid, urbVars, modemBox, inds, listVars,
                   responseReadSem, thread, handled, dereg, limit>>

UpOnlySleeper ==  \* variant: counts nothing when nobody sleeps
    IF thread.pc = "asleep"
    THEN thread' = [thread EXCEPT !.pc = "woken"] /\ UNCHANGED responseReadSem
    ELSE UNCHANGED <<thread, responseReadSem>>

(* up(): wakes the sleeper, if there is one, or raises the count. *)
Up ==
    IF thread.pc = "asleep"
    THEN thread' = [thread EXCEPT !.pc = "woken"] /\ UNCHANGED responseReadSem
    ELSE responseReadSem' = responseReadSem + 1 /\ UNCHANGED thread

UpIndication ==
    /\ cb.pc = "up"
    /\ Up
    /\ cb' = [cb EXCEPT !.pc = "store"]
    /\ UNCHANGED <<mbQMIValid, urbVars, modemBox, inds, listVars, indList,
                   handled, dereg, limit>>

(* AddToReadMemList, the wake-ups, and the interrupt URB again.  Of the    *)
(* clients' lists only that of QMICTL is modelled here.                    *)
StoreAndResubmit ==
    /\ cb.pc = "store"
    /\ ~mbQMIValid \/ Unlocked
    /\ ctlList' = IF mbQMIValid /\ cb.msg.kind # "ind" /\ Listed(QMICTL)
                  THEN Append(ctlList, cb.msg) ELSE ctlList
    /\ cb' = Idle
    /\ ResubmitIntURB
    /\ UNCHANGED <<mbQMIValid, readURB, modemBox, inds, mClientMemList,
                   mClientMemLock, indVars, dereg, limit>>

(* The modem sends an indication to the driver's WDS client. *)
SendIndication ==
    /\ inds < limit.inds
    /\ inds' = inds + 1
    /\ outbox' = Append(outbox,
                        [kind |-> "ind", num |-> inds + 1, id |-> QMIWDS])
    /\ notices' = notices + 1
    /\ UNCHANGED <<mbQMIValid, urbVars, cb, listVars, indVars, dereg, limit>>

-----------------------------------------------------------------------------
(***************************************************************************)
(* GobiWaitForResponses, after the device has become ready.                *)
(***************************************************************************)
threadFrame == <<mbQMIValid, urbVars, modemBox, cb, inds, listVars, dereg, limit>>

(* kthread_stop has been called. *)
ShouldStop == dereg = "wait"

(* while ( !kthread_should_stop() ) *)
TestShouldStop ==
    /\ thread.pc = "loop"
    /\ thread' = [thread EXCEPT !.pc = IF ShouldStop THEN "exited" ELSE "call"]
    /\ UNCHANGED <<threadFrame, indList, responseReadSem, handled>>

(* down_interruptible: takes a count, or joins the wait list and sleeps.   *)
(* kthread_stop wakes the task, which then finds itself not up'ed and goes *)
(* back to sleep. *)
DownInterruptible ==
    /\ thread.pc = "call"
    /\ IF responseReadSem > 0
       THEN /\ responseReadSem' = responseReadSem - 1
            /\ thread' = [thread EXCEPT !.pc = "woken"]
       ELSE /\ thread' = [thread EXCEPT !.pc = "asleep"]
            /\ UNCHANGED responseReadSem
    /\ UNCHANGED <<threadFrame, indList, handled>>

(* After the sleep: the end if the device is invalid, else the first entry *)
(* of the list, if there is one. *)
TakeIndication ==
    /\ thread.pc = "woken"
    /\ \/ ~mbQMIValid /\ thread' = [thread EXCEPT !.pc = "exited"]
          /\ UNCHANGED indList
       \/ mbQMIValid /\ indList = << >>
          /\ thread' = [thread EXCEPT !.pc = "loop"] /\ UNCHANGED indList
       \/ mbQMIValid /\ indList # << >>
          /\ thread' = [pc |-> "handle", ind |-> Head(indList)]
          /\ indList' = Tail(indList)
    /\ UNCHANGED <<threadFrame, responseReadSem, handled>>

(* The switch over mMsgId. *)
HandleIndication ==
    /\ thread.pc = "handle"
    /\ handled' = Append(handled, thread.ind)
    /\ thread' = [pc |-> "loop", ind |-> 0]
    /\ UNCHANGED <<threadFrame, indList, responseReadSem>>

GobiWaitForResponses ==
    TestShouldStop \/ DownInterruptible \/ TakeIndication \/ HandleIndication

-----------------------------------------------------------------------------
(***************************************************************************)
(* DeregisterQMIDevice and KillRead, without the release of the clients    *)
(* and the closing of the files (QMIClientIDs).                            *)
(***************************************************************************)
ThenDereg(from, to) == dereg = from /\ dereg' = to

(* usb_kill_urb( mpReadURB ): waits for a ReadCallback that runs.  One in  *)
(* flight completes with an error, and ReadCallback submits the interrupt  *)
(* URB. *)
KillReadURB ==
    /\ ThenDereg("killread", "killint")
    /\ cb.pc = "idle"
    /\ IF readURB = "armed"
       THEN readURB' = "idle" /\ ResubmitIntURB
       ELSE UNCHANGED urbVars
    /\ UNCHANGED <<mbQMIValid, modemBox, cb, inds, listVars, indVars,
                   limit>>

(* usb_kill_urb( mpIntURB ): completes with an error; IntCallback returns. *)
KillIntURB ==
    /\ ThenDereg("killint", "free")
    /\ intURB' = "idle"
    /\ UNCHANGED <<mbQMIValid, readURB, modemBox, cb, inds, listVars, indVars,
                   limit>>

(* The buffers and URBs go; a read URB in flight completes without them.   *)
FreeReadBuffers ==
    /\ ThenDereg("free", "files")
    /\ intURB' = "none"
    /\ readURB' = IF readURB = "armed" THEN "armed" ELSE "none"
    /\ UNCHANGED <<mbQMIValid, modemBox, cb, inds, listVars, indVars,
                   limit>>

(* mbQMIValid = false *)
Invalidate ==
    /\ ThenDereg("valid", "drop")
    /\ mbQMIValid' = FALSE
    /\ UNCHANGED <<urbVars, modemBox, cb, inds, listVars, indVars, limit>>

(* while (mpIndDataInfoList) kfree: whatever is not handled is lost.       *)
DropIndications ==
    /\ ThenDereg("drop", "test")
    /\ indList' = << >>
    /\ UNCHANGED <<mbQMIValid, urbVars, modemBox, cb, inds, listVars,
                   responseReadSem, thread, handled, limit>>

(* up( mpResponseReadSem ), only if its wait_list is not empty. *)
WakeThread ==
    /\ ThenDereg("test", "wait")
    /\ IF thread.pc = "asleep" THEN Up ELSE UNCHANGED <<thread, responseReadSem>>
    /\ UNCHANGED <<mbQMIValid, urbVars, modemBox, cb, inds, listVars, indList,
                   handled, limit>>

(* kthread_stop returns when the thread has ended; the rest waits for the  *)
(* character devices and removes them. *)
ThreadStopped ==
    /\ ThenDereg("wait", "done")
    /\ thread.pc = "exited"
    /\ UNCHANGED <<mbQMIValid, urbVars, modemBox, cb, inds, listVars, indVars,
                   limit>>

Callbacks ==
    \/ IntCallbackResponse \/ IntCallbackOther
    \/ ReadCallback \/ ReadCallbackError
    \/ AddToProcessIndList \/ UpIndication \/ StoreAndResubmit

DeregisterTail ==
    \/ KillReadURB \/ KillIntURB \/ FreeReadBuffers
    \/ Invalidate \/ DropIndications \/ WakeThread \/ ThreadStopped

PipeStep ==
    \/ Callbacks
    \/ SendIndication
    \/ GobiWaitForResponses
    \/ DeregisterTail
=============================================================================
