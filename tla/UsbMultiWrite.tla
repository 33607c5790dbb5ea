--------------------------- MODULE UsbMultiWrite ---------------------------
(***************************************************************************)
(* The write side of the Windows USB transport (windows/transport/usb)     *)
(* with several transfers in flight: USBMWT_WriteThread, the queues it     *)
(* shares with USBWT_Enqueue, the completion routine of the bus and the    *)
(* interrupt thread, and the requests that reach it as events: stop and    *)
(* resume of the power management, flow off and on of the modem, the purge *)
(* of a reset, the cancellation of a close.                                *)
(*                                                                         *)
(* Every section of the code under WriteSpinLock is one step.  The writes  *)
(* are numbered in the order USBWT_Enqueue accepts them; their bytes, the  *)
(* partial transfers and the logs are left out, and so are the cancel      *)
(* routines: the miniport never cancels a write IRP it has sent.           *)
(***************************************************************************)
EXTENDS Naturals, FiniteSets, SequencesExt

CONSTANTS
    Bufs,          \* the buffers of the transport, NumberOfMultiWrites of them
    MaxWrites,     \* bound: how many writes are accepted
    LongWrites,    \* the writes whose length is a multiple of wMaxPktSize
    Retries,       \* NumOfRetriesOnError
    MaxRequests,   \* bound: standbys, flow-offs, purges and removals
    NONE           \* no IRP: a zero-length packet, an idle buffer

ASSUME WriteAssumption ==
    /\ MaxWrites \in Nat /\ MaxRequests \in Nat /\ Retries \in Nat
    /\ LongWrites \subseteq 1..MaxWrites /\ NONE \notin Nat

(* USBMWT_InitializeMultiWriteElements does without the buffers that cannot *)
(* be allocated, and fails if there is none.                               *)
ASSUME BufferAssumption == IsFiniteSet(Bufs) /\ Bufs # {}

Writes == 1..MaxWrites

(* The events of pWriteEvents before those of the buffers, in the order in *)
(* which a wait for any of them prefers them.                              *)
EventOrder == <<"cancel", "kick", "purge", "stop", "resume", "flowOn", "flowOff">>

VARIABLES
    queue,      \* WriteDataQueue
    idle,       \* MWriteIdleQueue
    pending,    \* MWritePendingQueue: with the bus
    done,       \* MWriteCompletionQueue: completed, not yet handled
    calling,    \* CallingIrp of a buffer
    result,     \* status of the buffer's URB
    urbCxl,     \* the buffers whose IRP IoCancelIrp was called for
    sent,       \* MWTSentIrpQueue: records [irp, buf, returned]
    outq,       \* WtCompletionQueue
    answered,   \* the writes IoCompleteRequest was called for
    delivered,  \* history: the writes the device received, in order
    accepted,   \* how many writes USBWT_Enqueue has accepted
    entering,   \* callers of USBWT_Write past its test of the device state
    thread,     \* locals of the write thread
    ev,         \* signalled events
    device,     \* "present", "failed" (too many errors), "removed"
    power,      \* dispatch thread: "on", "falling", "off", "rising"
    flow,       \* interrupt thread: "on", "asked" (waits for the ack), "off"
    purge,      \* cleanup IRP: "none", "aborted", "asked", "reported"
    closer,     \* USBIF_Close: "open", "closing", "closed"
    requests,   \* bound: requests made so far
    highSpeed,  \* the device is connected at high speed
    overtaken,  \* history: a drain was started while another one went on
    stale,      \* history: the flow changed again with the thread still in FLOW_OFF
    resent      \* history: a flow-off found transfers that had failed before it

queues  == <<queue, idle, pending, done, calling, result, urbCxl, sent, outq>>
outside == <<device, power, flow, purge, closer, requests, highSpeed>>
history == <<delivered, overtaken, stale, resent>>
vars    == <<queues, outside, history, answered, accepted, entering, thread, ev>>

suspended == power \in {"falling", "off"}      \* PowerSuspended
present   == device = "present"                \* DEVICE_STATE_PRESENT_AND_STARTED

(* The entries of a list that are IRPs, in their order.                    *)
Irps(s) ==
    LET I == {k \in DOMAIN s : s[k] # NONE}
        Nth(n) == CHOOSE k \in I : Cardinality({j \in I : j <= k}) = n
    IN  [n \in 1..Cardinality(I) |-> s[Nth(n)]]

Init ==
    /\ queue = <<>> /\ pending = <<>> /\ done = <<>> /\ sent = <<>> /\ outq = <<>>
    /\ idle = SetToSeq(Bufs)
    /\ calling = [b \in Bufs |-> NONE]
    /\ result = [b \in Bufs |-> "ok"]
    /\ urbCxl = {} /\ answered = {} /\ delivered = <<>>
    /\ accepted = 0 /\ entering = 0
    /\ thread = [pc |-> "top", zlp |-> FALSE, stopped |-> FALSE, flowOn |-> TRUE,
                 purged |-> FALSE, cancelled |-> FALSE, state |-> "WORKING", errs |-> 0]
    /\ ev = {} /\ device = "present" /\ power = "on" /\ flow = "on"
    /\ purge = "none" /\ closer = "open" /\ requests = 0
    /\ highSpeed \in BOOLEAN
    /\ overtaken = FALSE /\ stale = FALSE /\ resent = FALSE

----------------------------------------------------------------------------
(* Writers.                                                                *)

(* USBWT_Write up to the tests of the device state.                        *)
StartWrite ==
    /\ present /\ closer = "open" /\ accepted + entering < MaxWrites
    /\ entering' = entering + 1
    /\ UNCHANGED <<queues, outside, history, answered, accepted, thread, ev>>

(* USBWT_Enqueue; the thread is kicked only if the queue was empty.        *)
Enqueue ==
    /\ entering > 0
    /\ entering' = entering - 1 /\ accepted' = accepted + 1
    /\ queue' = Append(queue, accepted + 1)
    /\ ev' = ev \cup (IF queue = <<>> THEN {"kick"} ELSE {})
    /\ UNCHANGED <<idle, pending, done, calling, result, urbCxl, sent, outq,
                   outside, history, answered, thread>>

----------------------------------------------------------------------------
(* The bus.  A bulk pipe serves its transfers in order.                    *)

Statuses(b) == {"ok", "err"} \cup (IF b \in urbCxl THEN {"cxl"} ELSE {})

(* USBMWT_WriteCompletionRoutine for the n oldest transfers, with status s.*)
Returned(n, s) ==
    LET part == SubSeq(pending, 1, n) IN
    /\ pending' = SubSeq(pending, n + 1, Len(pending))
    /\ done' = done \o part
    /\ result' = [b \in Bufs |-> IF b \in ToSet(part) THEN s[b] ELSE result[b]]
    /\ urbCxl' = urbCxl \ ToSet(part)
    /\ delivered' = delivered \o
         Irps([k \in 1..n |-> IF s[part[k]] = "ok" THEN calling[part[k]] ELSE NONE])

BusComplete ==
    /\ pending # <<>>
    /\ \E s \in IF present THEN Statuses(Head(pending)) ELSE {"err"} :
          Returned(1, [b \in Bufs |-> s])
    /\ UNCHANGED <<queue, idle, calling, sent, outq, outside, overtaken, stale, resent,
                   answered, accepted, entering, thread, ev>>

(* QCUSB_AbortPipe returns when every transfer has been returned: those    *)
(* that were not served before it are cancelled.                           *)
AbortOutput ==
    \E n \in 0..Len(pending) :
        Returned(Len(pending),
                 [b \in Bufs |-> IF b \in ToSet(SubSeq(pending, 1, n)) THEN "ok" ELSE "cxl"])

----------------------------------------------------------------------------
(* The write thread.                                                       *)

At(pc) == thread.pc = pc

(* USBUTL_PurgeQueue                                                       *)
PurgeQueue == queue' = <<>> /\ outq' = outq \o queue

(* The head of the loop.                                                   *)
ThreadTop ==
    /\ At("top")
    /\ \/ /\ ~present \/ thread.purged
          /\ PurgeQueue
          /\ thread' = [thread EXCEPT !.purged = FALSE, !.pc = "wait"]
          /\ purge' = IF purge = "asked" THEN "reported" ELSE purge
       \/ /\ present /\ ~thread.purged
          /\ thread' = [thread EXCEPT
                !.pc = IF thread.stopped \/ ~thread.flowOn THEN "wait" ELSE "send"]
          /\ UNCHANGED <<queue, outq, purge>>
    /\ UNCHANGED <<idle, pending, done, calling, result, urbCxl, sent, device, power,
                   flow, closer, requests, highSpeed, history, answered, accepted,
                   entering, ev>>

HasWork == (queue # <<>> \/ thread.zlp) /\ idle # <<>> /\ present

(* One transfer is taken from the idle buffers and handed to the bus: the  *)
(* next write, or the zero-length packet the last one called for.          *)
Submit ==
    LET b == Head(idle)
        i == IF thread.zlp THEN NONE ELSE Head(queue)
    IN
    /\ idle' = Tail(idle)
    /\ pending' = Append(pending, b)
    /\ calling' = [calling EXCEPT ![b] = i]
    /\ sent' = Append(sent, [irp |-> i, buf |-> b, returned |-> FALSE])
    /\ queue' = IF thread.zlp THEN queue ELSE Tail(queue)
    /\ thread' = [thread EXCEPT !.zlp = i \in LongWrites]
    /\ UNCHANGED outq

ThreadSend ==
    /\ At("send")
    /\ \/ HasWork /\ ~thread.cancelled /\ ~suspended /\ Submit
       \/ /\ HasWork /\ thread.cancelled /\ PurgeQueue
          /\ thread' = [thread EXCEPT !.pc = "wait"]
          /\ UNCHANGED <<idle, pending, calling, sent>>
       \/ /\ ~HasWork \/ (suspended /\ ~thread.cancelled)
          /\ thread' = [thread EXCEPT !.pc = "wait"]
          /\ UNCHANGED <<queue, idle, pending, calling, sent, outq>>
    /\ UNCHANGED <<done, result, urbCxl, outside, history, answered, accepted, entering, ev>>

ExitReady == pending = <<>> /\ done = <<>> /\ thread.cancelled

(* A cancelled thread with nothing in flight ends.                         *)
ThreadExit ==
    /\ At("wait") /\ ExitReady
    /\ thread' = [thread EXCEPT !.pc = "exited"]
    /\ UNCHANGED <<queues, outside, history, answered, accepted, entering, ev>>

(* The wait returns the signalled event of the lowest index.               *)
Wakes(e) ==
    /\ At("wait") /\ ~ExitReady
    /\ e \in ev
    /\ \A k \in DOMAIN EventOrder :
          EventOrder[k] \in ev =>
              \A j \in DOMAIN EventOrder : EventOrder[j] = e => j <= k
    /\ ev' = ev \ {e}

(* Cancel, purge and stop with transfers in flight: the oldest one is      *)
(* cancelled, and each that returns has the next one cancelled.            *)
StartDrain(state, t) ==
    /\ thread' = [t EXCEPT !.state = state]
    /\ urbCxl' = urbCxl \cup {Head(pending)}
    /\ overtaken' = (overtaken \/ thread.state \notin {"WORKING", state})

Quiet == UNCHANGED <<queue, idle, pending, done, calling, result, sent, outq,
                     delivered, stale, resent, answered, accepted, entering>>

CancelEvent ==
    /\ Wakes("cancel")
    /\ LET t == [thread EXCEPT !.stopped = TRUE] IN
       \/ pending # <<>> /\ StartDrain("CANCELLING", t)
       \/ /\ pending = <<>>
          /\ thread' = [t EXCEPT !.cancelled = TRUE, !.pc = "top"]
          /\ UNCHANGED <<urbCxl, overtaken>>
    /\ Quiet /\ UNCHANGED outside

PurgeEvent ==
    /\ Wakes("purge")
    /\ \/ pending # <<>> /\ StartDrain("PURGING", thread)
       \/ /\ pending = <<>>
          /\ thread' = [thread EXCEPT !.purged = TRUE, !.pc = "top"]
          /\ UNCHANGED <<urbCxl, overtaken>>
    /\ Quiet /\ UNCHANGED outside

StopEvent ==
    /\ Wakes("stop")
    /\ LET t == [thread EXCEPT !.stopped = TRUE] IN
       \/ pending # <<>> /\ StartDrain("STOPPING", t)
       \/ /\ pending = <<>>
          /\ thread' = [t EXCEPT !.pc = "top"]
          /\ UNCHANGED <<urbCxl, overtaken>>
    /\ Quiet /\ UNCHANGED outside

KickEvent ==
    /\ Wakes("kick")
    /\ thread' = [thread EXCEPT !.pc = "top"]
    /\ Quiet /\ UNCHANGED <<outside, urbCxl, overtaken>>

(* Variant: the thread goes back to its wait without a look at the queue.  *)
ResumeEventNoLook ==
    /\ Wakes("resume")
    /\ thread' = [thread EXCEPT !.stopped = suspended]
    /\ Quiet /\ UNCHANGED <<outside, urbCxl, overtaken>>

ResumeEvent ==
    /\ Wakes("resume")
    /\ thread' = [thread EXCEPT !.stopped = suspended, !.pc = "top"]
    /\ Quiet /\ UNCHANGED <<outside, urbCxl, overtaken>>

FlowOnEvent ==
    /\ Wakes("flowOn")
    /\ thread' = [thread EXCEPT !.stopped = suspended, !.flowOn = TRUE, !.pc = "top"]
    /\ Quiet /\ UNCHANGED <<outside, urbCxl, overtaken>>

(* KeSetEvent(&pDevExt->WriteFlowOffAckEvent)                              *)
FlowOffAck == flow' = IF flow = "asked" THEN "off" ELSE flow

FlowOffEvent ==
    /\ Wakes("flowOff")
    /\ LET t == [thread EXCEPT !.stopped = TRUE, !.flowOn = FALSE, !.pc = "top"] IN
       \/ /\ highSpeed
          /\ thread' = t /\ FlowOffAck
          /\ UNCHANGED <<pending, done, result, urbCxl, history>>
       \/ /\ ~highSpeed
          /\ thread' = [t EXCEPT !.state = "FLOW_OFF"]
          /\ overtaken' = (overtaken \/ thread.state \notin {"WORKING", "FLOW_OFF"})
          /\ resent' = (resent \/ \E b \in ToSet(done) : result[b] # "ok")
          /\ \/ /\ pending = <<>> /\ FlowOffAck
                /\ UNCHANGED <<pending, done, result, urbCxl, delivered>>
             \/ pending # <<>> /\ AbortOutput /\ UNCHANGED flow
          /\ UNCHANGED stale
    /\ UNCHANGED <<queue, idle, calling, sent, outq, answered, accepted, entering,
                   device, power, purge, closer, requests, highSpeed>>

(* The event of a buffer: the oldest completed transfer is looked at, and  *)
(* the pipe reset if it failed, before the lock is taken again.            *)
PeekCompletion ==
    /\ At("wait") /\ ~ExitReady /\ ev = {} /\ done # <<>>
    /\ thread' = [thread EXCEPT !.pc = "finish"]
    /\ UNCHANGED <<queues, outside, history, answered, accepted, entering, ev>>

(* USBMWT_MarkAndCheckReturnedIrp: every record of the buffer is marked,   *)
(* and the last of them is taken from the list.                            *)
Marked(b) == [k \in DOMAIN sent |->
                 IF sent[k].buf = b THEN [sent[k] EXCEPT !.returned = TRUE] ELSE sent[k]]
LastOf(b) == CHOOSE k \in DOMAIN sent :
                 sent[k].buf = b /\ \A j \in DOMAIN sent : sent[j].buf = b => j <= k
AllReturned(b) == \A k \in DOMAIN sent : sent[k].buf = b \/ sent[k].returned

(* USBMWT_WriteIrpCompletion: the answer, and the count of errors after    *)
(* which the device is given up.                                           *)
Answer(i, status, t) ==
    LET failed == status = "err"
        givenUp == failed /\ t.errs + 1 > Retries
    IN
    /\ outq' = IF i = NONE THEN outq ELSE Append(outq, i)
    /\ thread' = [t EXCEPT !.errs = IF ~failed THEN 0 ELSE IF givenUp THEN Retries ELSE @ + 1,
                           !.stopped = @ \/ givenUp]
    /\ device' = IF givenUp /\ present THEN "failed" ELSE device
    /\ ev' = ev \cup (IF givenUp THEN {"stop"} ELSE {})

(* Variant: the records are taken from the head of the list.               *)
RequeueFromHead(recs) ==
    Irps([k \in DOMAIN recs |-> recs[Len(recs) + 1 - k].irp])

(* A transfer that comes back after a flow-off: when the last one is back, *)
(* the writes that were not served return to the head of the queue.        *)
Requeue(recs) == Irps([k \in DOMAIN recs |-> recs[k].irp])

(* Variants: the records stay in the list of what was sent; the flow-off   *)
(* is acknowledged only when transfers are put back.                       *)
FinishFlowOffKeeps(b, status) ==
    LET kept == IF status = "ok" THEN RemoveAt(Marked(b), LastOf(b)) ELSE Marked(b)
        back == AllReturned(b)
        t == [thread EXCEPT !.pc = "top", !.state = IF kept = <<>> THEN "WORKING" ELSE @]
    IN
    /\ IF status = "ok" THEN Answer(calling[b], status, t)
       ELSE thread' = t /\ UNCHANGED <<outq, device, ev>>
    /\ queue' = IF back THEN Requeue(kept) \o queue ELSE queue
    /\ sent' = kept
    /\ IF kept = <<>> THEN FlowOffAck ELSE UNCHANGED flow
    /\ UNCHANGED urbCxl

FinishFlowOffNoAck(b, status) ==
    LET kept == IF status = "ok" THEN RemoveAt(Marked(b), LastOf(b)) ELSE Marked(b)
        back == AllReturned(b)
        t == [thread EXCEPT !.pc = "top", !.state = IF back THEN "WORKING" ELSE @]
    IN
    /\ IF status = "ok" THEN Answer(calling[b], status, t)
       ELSE thread' = t /\ UNCHANGED <<outq, device, ev>>
    /\ queue' = IF back THEN Requeue(kept) \o queue ELSE queue
    /\ sent' = IF back THEN <<>> ELSE kept
    /\ IF back /\ kept # <<>> THEN FlowOffAck ELSE UNCHANGED flow
    /\ UNCHANGED urbCxl

FinishFlowOff(b, status) ==
    LET kept == IF status = "ok" THEN RemoveAt(Marked(b), LastOf(b)) ELSE Marked(b)
        back == AllReturned(b)
        t == [thread EXCEPT
                !.pc = "top",
                !.zlp = IF back /\ kept # <<>> /\ Head(kept).irp = NONE THEN TRUE ELSE @,
                !.state = IF back \/ kept = <<>> THEN "WORKING" ELSE @]
    IN
    /\ IF status = "ok" THEN Answer(calling[b], status, t)
       ELSE thread' = t /\ UNCHANGED <<outq, device, ev>>
    /\ queue' = IF back THEN Requeue(kept) \o queue ELSE queue
    /\ sent' = IF back THEN <<>> ELSE kept
    /\ IF back \/ kept = <<>> THEN FlowOffAck ELSE UNCHANGED flow
    /\ UNCHANGED urbCxl

(* Variant: the next transfer of a drain is not cancelled.                 *)
FinishWorkingLeaves(b, status) ==
    LET t == [thread EXCEPT !.pc = "top", !.state = IF pending # <<>> THEN @ ELSE "WORKING",
                    !.cancelled = @ \/ (thread.state = "CANCELLING" /\ pending = <<>>)]
    IN
    /\ Answer(calling[b], status, t)
    /\ sent' = RemoveAt(Marked(b), LastOf(b))
    /\ UNCHANGED <<queue, flow, urbCxl>>

FinishWorking(b, status) ==
    LET draining == thread.state # "WORKING"
        t == IF draining /\ pending # <<>> THEN [thread EXCEPT !.pc = "wait"]
             ELSE [thread EXCEPT !.pc = "top", !.state = "WORKING",
                                 !.cancelled = @ \/ thread.state = "CANCELLING"]
    IN
    /\ Answer(calling[b], status, t)
    /\ sent' = RemoveAt(Marked(b), LastOf(b))
    /\ urbCxl' = urbCxl \cup (IF draining /\ pending # <<>> THEN {Head(pending)} ELSE {})
    /\ UNCHANGED <<queue, flow>>

FinishCompletion ==
    /\ At("finish")
    /\ LET b == Head(done)
           status == IF present THEN result[b] ELSE "cxl"
       IN
       /\ IF thread.state = "FLOW_OFF" THEN FinishFlowOff(b, status)
          ELSE FinishWorking(b, status)
       /\ calling' = [calling EXCEPT ![b] = NONE]
       /\ done' = Tail(done) /\ idle' = Append(idle, b)
    /\ UNCHANGED <<pending, result, history, answered, accepted, entering, power, purge,
                   closer, requests, highSpeed>>

Thread == \/ ThreadTop \/ ThreadSend \/ ThreadExit \/ CancelEvent \/ PurgeEvent
          \/ StopEvent \/ KickEvent \/ ResumeEvent \/ FlowOnEvent \/ FlowOffEvent
          \/ PeekCompletion \/ FinishCompletion

----------------------------------------------------------------------------
(* The dispatch thread: power.                                             *)

(* USBWT_SetStopState                                                      *)
SetStopState(e) ==
    ev' = IF At("exited") \/ (e = "resume" /\ device = "removed") THEN ev ELSE ev \cup {e}

Request == requests < MaxRequests /\ requests' = requests + 1

Others == UNCHANGED <<queues, history, answered, accepted, entering, thread, highSpeed>>

Standby ==
    /\ power = "on" /\ Request
    /\ power' = "falling"
    /\ Others /\ UNCHANGED <<ev, device, flow, purge, closer>>

StandbyStop ==
    /\ power = "falling"
    /\ power' = "off" /\ SetStopState("stop")
    /\ Others /\ UNCHANGED <<device, flow, purge, closer, requests>>

Wakeup ==
    /\ power = "off"
    /\ power' = "rising"
    /\ Others /\ UNCHANGED <<ev, device, flow, purge, closer, requests>>

WakeupResume ==
    /\ power = "rising"
    /\ power' = "on" /\ SetStopState("resume")
    /\ Others /\ UNCHANGED <<device, flow, purge, closer, requests>>

(* The interrupt thread: completes the requests of WtCompletionQueue, and  *)
(* hands on the connection speed the modem announces.  It waits for the    *)
(* answer to a flow-off (ten seconds, taken to be enough unless the write  *)
(* thread is gone).                                                        *)
EmptyCompletionQueue ==
    /\ outq # <<>> /\ flow # "asked"
    /\ outq' = Tail(outq) /\ answered' = answered \cup {Head(outq)}
    /\ UNCHANGED <<queue, idle, pending, done, calling, result, urbCxl, sent,
                   outside, history, accepted, entering, thread, ev>>

Announces(e) ==
    /\ ev' = ev \cup {e}
    /\ stale' = (stale \/ thread.state = "FLOW_OFF")
    /\ UNCHANGED <<queues, delivered, overtaken, resent, answered, accepted, entering, thread,
                   highSpeed, device, power, purge, closer>>

FlowOff ==
    /\ flow # "asked" /\ Request
    /\ flow' = "asked" /\ Announces("flowOff")

FlowOffTimeout ==
    /\ flow = "asked" /\ At("exited")
    /\ flow' = "off"
    /\ Others /\ UNCHANGED <<ev, device, power, purge, closer, requests>>

FlowOn ==
    /\ flow = "off"
    /\ flow' = "on" /\ Announces("flowOn") /\ UNCHANGED requests

(* USBDSP_CleanUp: the cleanup IRP of a reset of the miniport.             *)
CleanupAbort ==
    /\ purge = "none" /\ closer = "open" /\ Request
    /\ purge' = "aborted" /\ AbortOutput
    /\ UNCHANGED <<queue, idle, calling, sent, outq, overtaken, stale, resent, answered,
                   accepted, entering, thread, ev, device, power, flow, closer, highSpeed>>

CleanupPurge ==
    /\ purge = "aborted"
    /\ purge' = "asked" /\ ev' = ev \cup {"purge"}
    /\ Others /\ UNCHANGED <<device, power, flow, closer, requests>>

(* Surprise removal.                                                       *)
SurpriseRemoval ==
    /\ device # "removed" /\ Request
    /\ device' = "removed"
    /\ Others /\ UNCHANGED <<ev, power, flow, purge, closer>>

(* USBIF_Close, called with the writers of the miniport stopped (or the    *)
(* device gone): USBWT_CancelWriteThread waits for the thread to end, then *)
(* USBUTL_CleanupReadWriteQueues takes what is left.                       *)
Close ==
    /\ closer = "open" /\ (entering = 0 \/ device = "removed")
    /\ closer' = "closing" /\ ev' = ev \cup {"cancel"}
    /\ Others /\ UNCHANGED <<device, power, flow, purge, requests>>

CloseDone ==
    /\ closer = "closing" /\ At("exited") /\ entering = 0
    /\ closer' = "closed" /\ PurgeQueue
    /\ UNCHANGED <<idle, pending, done, calling, result, urbCxl, sent, history,
                   answered, accepted, entering, thread, ev, device, power, flow, purge,
                   requests, highSpeed>>

Next == \/ StartWrite \/ Enqueue \/ BusComplete \/ Thread
        \/ Standby \/ StandbyStop \/ Wakeup \/ WakeupResume
        \/ EmptyCompletionQueue \/ FlowOff \/ FlowOffTimeout \/ FlowOn
        \/ CleanupAbort \/ CleanupPurge \/ SurpriseRemoval \/ Close \/ CloseDone

Spec == Init /\ [][Next]_vars

----------------------------------------------------------------------------
(* Properties.                                                             *)

Held(b)  == b \in ToSet(pending) \cup ToSet(done)

(* Every write the transport accepted is in exactly one place: waiting, in *)
(* a transfer, kept in MWTSentIrpQueue after its transfer came back        *)
(* unserved in a flow-off, handed to the interrupt thread, or answered.    *)
(* No order of stops, flow-offs, purges, cancellations and completions     *)
(* drops a request or completes it twice.                                  *)
Places(i) ==
    Cardinality({k \in DOMAIN queue : queue[k] = i})
    + Cardinality({b \in Bufs : Held(b) /\ calling[b] = i})
    + Cardinality({k \in DOMAIN sent : sent[k].irp = i /\ sent[k].returned})
    + Cardinality({k \in DOMAIN outq : outq[k] = i})
    + Cardinality({j \in answered : j = i})

WriteInOnePlace == \A i \in 1..accepted : Places(i) = 1

(* A thread that waits with nothing signalled has a reason to: nothing is  *)
(* to be sent, transfers are with the bus, or somebody who stopped it      *)
(* still has to let it go on.  USBWT_Enqueue kicks the thread only for the *)
(* first write of the queue, so whoever uses up that kick while the thread *)
(* is stopped must have it look at the queue again.                        *)
LetGo == power = "on" /\ flow = "on" /\ closer = "open" /\ present
WriterAwake ==
    At("wait") /\ ev = {} /\ done = <<>> /\ LetGo /\ ~stale
        => pending # <<>> \/ (queue = <<>> /\ ~thread.zlp)

(* The device receives the writes in the order they were accepted, each    *)
(* once, also when a flow-off sends them back to the queue.                *)
DeliveredInOrder ==
    ~stale /\ ~resent => \A j, k \in DOMAIN delivered : j < k => delivered[j] < delivered[k]

(* What the thread was asked for it has done or still knows: the interrupt *)
(* thread that waits for the answer to a flow-off has a reason to expect   *)
(* it, and a close in progress is remembered until the thread ends.        *)
RequestsRemembered ==
    /\ flow = "asked" => \/ "flowOff" \in ev
                         \/ thread.state = "FLOW_OFF" /\ done # <<>>
                         \/ At("exited")
    /\ closer = "closing" => \/ "cancel" \in ev
                             \/ thread.state = "CANCELLING" \/ thread.cancelled
                             \/ overtaken

(* A drain goes on: while the thread cancels its transfers one by one,     *)
(* either one has come back, whose handling cancels the next, or the       *)
(* oldest of those in flight has been cancelled.                           *)
DrainGoesOn ==
    thread.state \in {"CANCELLING", "PURGING", "STOPPING"}
        => done # <<>> \/ (pending # <<>> /\ Head(pending) \in urbCxl)
====
