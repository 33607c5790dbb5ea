--------------------------- MODULE WdfSerialRead ---------------------------
(***************************************************************************)
(* The read side of the Windows serial driver (windows/wdfserial): the     *)
(* thread QCRD_ReadRequestHandlerThread, the read URBs it keeps with the   *)
(* device, its ring buffer, the two queues of read requests and the timer  *)
(* of the read that waits; the open and close of the port, the power       *)
(* callbacks and the purge ioctl, which reach the thread as events.        *)
(*                                                                         *)
(* The thread has the ring buffer and the free list to itself; a step of   *)
(* it is what it does between two accesses to what others use as well.     *)
(* The framework's queues are modelled by what the driver relies on: the   *)
(* ready callback of ReadQueue comes when the queue stops being empty, and *)
(* when a queue that is not empty is started again.                        *)
(***************************************************************************)
EXTENDS Naturals, SequencesExt

CONSTANTS
    Kinds,       \* classes of time-outs an application may set, see Init
    Urbs,        \* UrbReadListCapacity
    UrbSize,     \* UrbReadBufferSize
    RingSize,    \* what the ring buffer holds, its Capacity - 1
    ReadLength,  \* length of each read, in the order of issue
    MaxBytes,    \* bound: how many bytes the device sends
    MaxReads,    \* bound: how many reads are issued
    MaxRequests, \* bound: closes, power-downs and purges
    NONE         \* no request

ASSUME SerialAssumption ==
    /\ Kinds \subseteq {"none", "total", "any", "now", "interval"}
    /\ Urbs \in Nat \ {0} /\ UrbSize \in Nat \ {0}
    /\ RingSize \in Nat /\ RingSize >= UrbSize
    /\ ReadLength \in [1..MaxReads -> Nat \ {0}]
    /\ MaxBytes \in Nat /\ MaxReads \in Nat /\ MaxRequests \in Nat
    /\ NONE \notin 1..MaxReads

(* The events of ReadThreadResumeEvents, in the order of the array: a wait *)
(* for any of them returns the first that is set.  The removal, the scan   *)
(* for the wait mask and the event of the multiplexed ports are left out.  *)
EventOrder == <<"arrive", "create", "close", "clear", "d0exit", "d0entry",
                "timeout", "completion">>

VARIABLES
    ring,      \* ReadRingBuffer: the bytes, numbered as the device sent them
    free,      \* UrbReadFreeList: how many URBs
    pending,   \* UrbReadPendingList: how many URBs
    done,      \* UrbReadCompletionList: records [data, gone]
    readq,     \* ReadQueue: the reads, numbered as issued
    waitq,     \* TimeoutReadQueue
    timer,     \* ReadTimer is running
    dpc,       \* QCRD_ReadTimeoutDpc is queued
    ev,        \* signalled events
    thread,    \* locals of the thread; failed: it called WdfDeviceSetFailed
    kind,      \* class of ReadTimeout.ucTimeoutType
    file,      \* "closed", "open", "closing"
    power,     \* "on", "exiting", "off", "entering", "starting"
    purger,    \* step of the purge ioctl, "none" if there is none
    plugged,   \* the device is there
    started,   \* bound: reads issued
    requests,  \* bound: closes, power-downs and purges so far
    sent,      \* history: bytes the device sent
    lost,      \* history: bytes a close, a power-down or a purge dropped
    got,       \* history: bytes the applications got
    served     \* history: the reads that got data

buffers == <<ring, free, pending, done>>
queues  == <<readq, waitq, timer, dpc>>
others  == <<kind, file, power, purger, plugged, started, requests>>
history == <<sent, lost, got, served>>
vars    == <<buffers, queues, ev, thread, others, history>>

(* Classes of time-outs: "none" cases 1, 2 and 7, and 11 with a constant   *)
(* of zero, which sets no timer; "total" 3, 8 and 11; "any" 5, a total     *)
(* time-out too but with bReturnOnAnyChars; "now" 4 and 6; "interval" 9    *)
(* and 10, bUseReadInterval.  An application sets them before its reads.   *)
Init ==
    /\ ring = <<>> /\ free = Urbs /\ pending = 0 /\ done = <<>>
    /\ readq = <<>> /\ waitq = <<>> /\ timer = FALSE /\ dpc = FALSE
    /\ ev = {}
    /\ thread = [pc |-> "wait", opened |-> FALSE, awake |-> TRUE,
                 overflow |-> FALSE, gone |-> FALSE, failed |-> FALSE, req |-> NONE]
    /\ kind \in Kinds
    /\ file = "closed" /\ power = "on" /\ purger = "none" /\ plugged = TRUE
    /\ started = 0 /\ requests = 0
    /\ sent = 0 /\ lost = {} /\ got = <<>> /\ served = <<>>

----------------------------------------------------------------------------
(* The application and the framework.                                      *)

(* WdfIoQueueRetrieveNextRequest finds a request in ReadQueue: the queue   *)
(* is not stopped by a purge, and the device is in D0.                     *)
Deliverable == readq # <<>> /\ purger \in {"none", "clear"} /\ power = "on"

(* QCDSP_EvtIoReadQueueReady, if the queue has become ready.               *)
Notified(ready) == IF ready THEN {"arrive"} ELSE {}

StartRead ==
    /\ file = "open" /\ started < MaxReads
    /\ started' = started + 1
    /\ readq' = Append(readq, started + 1)
    /\ ev' = ev \cup Notified(readq = <<>> /\ purger \in {"none", "clear"} /\ power = "on")
    /\ UNCHANGED <<buffers, waitq, timer, dpc, thread, kind, file, power, purger, plugged,
                   requests, history>>

(* QCPNP_EvtFileCreate: the device is in D0, its pipes have been reset.    *)
Open ==
    /\ file = "closed" /\ power = "on" /\ plugged
    /\ file' = "open" /\ ev' = ev \cup {"create"}
    /\ UNCHANGED <<buffers, queues, thread, kind, power, purger, plugged, started, requests,
                   history>>

(* The framework cancels the reads of the handle, then QCPNP_EvtFileClose, *)
(* which waits for FileClose.  It gives up after a second; here the thread *)
(* answers in time. *)
Close ==
    /\ file = "open" /\ purger = "none" /\ thread.req = NONE /\ requests < MaxRequests
    /\ requests' = requests + 1
    /\ file' = "closing" /\ ev' = ev \cup {"close"}
    /\ readq' = <<>> /\ waitq' = <<>>
    /\ UNCHANGED <<buffers, timer, dpc, thread, kind, power, purger, plugged, started, history>>

(* QCPNP_EvtDeviceD0Exit and QCPNP_EvtDeviceD0Entry.  ReadQueue is power   *)
(* managed: the framework stops it before the one and starts it after the  *)
(* other, and it waits for the requests the driver holds.                  *)
D0Exit ==
    /\ power = "on" /\ purger = "none" /\ thread.req = NONE /\ requests < MaxRequests
    /\ requests' = requests + 1
    /\ power' = "exiting" /\ ev' = (ev \ {"d0entry"}) \cup {"d0exit"}
    /\ UNCHANGED <<buffers, queues, thread, kind, file, purger, plugged, started, history>>

D0Entry ==
    /\ power = "off"
    /\ power' = "entering" /\ ev' = (ev \ {"d0exit"}) \cup {"d0entry"}
    /\ UNCHANGED <<buffers, queues, thread, kind, file, purger, plugged, started, requests,
                   history>>

QueueStarted ==
    /\ power = "starting"
    /\ power' = "on" /\ ev' = ev \cup Notified(readq # <<>>)
    /\ UNCHANGED <<buffers, queues, thread, kind, file, purger, plugged, started, requests,
                   history>>

(* QCSER_SerialPurge with SERIAL_PURGE_RXABORT.  The ioctl runs beside the *)
(* thread and takes no lock, but WdfIoQueueStopAndPurgeSynchronously       *)
(* returns only when the thread holds no read of ReadQueue any more.       *)
AbortQueue ==
    /\ file = "open" /\ power = "on" /\ purger = "none" /\ requests < MaxRequests
    /\ requests' = requests + 1
    /\ readq' = <<>> /\ purger' = "stopped"
    /\ UNCHANGED <<buffers, waitq, timer, dpc, ev, thread, kind, file, power, plugged, started,
                   history>>

(* Variant: the purge does not wait for the read the thread holds.       *)
AbortTimerEarly ==
    /\ purger = "stopped"
    /\ timer' = FALSE /\ purger' = "untimed"
    /\ UNCHANGED <<buffers, readq, waitq, dpc, ev, thread, kind, file, power, plugged, started,
                   requests, history>>

AbortTimer ==
    /\ purger = "stopped" /\ thread.req = NONE
    /\ timer' = FALSE /\ purger' = "untimed"
    /\ UNCHANGED <<buffers, readq, waitq, dpc, ev, thread, kind, file, power, plugged, started,
                   requests, history>>

AbortWaiting ==
    /\ purger = "untimed"
    /\ waitq' = <<>> /\ purger' = "popped"
    /\ UNCHANGED <<buffers, readq, timer, dpc, ev, thread, kind, file, power, plugged, started,
                   requests, history>>

AbortDone ==
    /\ purger = "popped"
    /\ purger' = "none" /\ ev' = ev \cup Notified(readq # <<>>)
    /\ UNCHANGED <<buffers, queues, thread, kind, file, power, plugged, started, requests,
                   history>>

(* SERIAL_PURGE_RXCLEAR: the ioctl waits for the thread.                   *)
Clear ==
    /\ file = "open" /\ power = "on" /\ purger = "none" /\ requests < MaxRequests
    /\ requests' = requests + 1
    /\ purger' = "clear" /\ ev' = ev \cup {"clear"}
    /\ UNCHANGED <<buffers, queues, thread, kind, file, power, plugged, started, history>>

----------------------------------------------------------------------------
(* The device and the timer.                                               *)

(* QCRD_EvtIoReadCompletionAsync: with data, with an error, or because the *)
(* device is gone.  The URBs of the pipe complete in the order sent.       *)
BusComplete ==
    /\ pending > 0
    /\ \E n \in 0..UrbSize :
          /\ n <= MaxBytes - sent /\ (~plugged => n = 0)
          /\ done' = Append(done, [data |-> [k \in 1..n |-> sent + k], gone |-> ~plugged])
          /\ sent' = sent + n
    /\ pending' = pending - 1
    /\ ev' = ev \cup {"completion"}
    /\ UNCHANGED <<ring, free, queues, thread, others, lost, got, served>>

Unplug ==
    /\ plugged /\ plugged' = FALSE
    /\ UNCHANGED <<buffers, queues, ev, thread, kind, file, power, purger, started, requests,
                   history>>

TimerExpires ==
    /\ timer
    /\ timer' = FALSE /\ dpc' = TRUE
    /\ UNCHANGED <<buffers, readq, waitq, ev, thread, others, history>>

ReadTimeoutDpc ==
    /\ dpc
    /\ dpc' = FALSE /\ ev' = ev \cup {"timeout"}
    /\ UNCHANGED <<buffers, readq, waitq, timer, thread, others, history>>
----------------------------------------------------------------------------
(* The thread.                                                             *)

At(pc) == thread.pc = pc

(* KeWaitForMultipleObjects returns the event e.                           *)
Wakes(e) ==
    /\ At("wait") /\ e \in ev
    /\ \A i, j \in DOMAIN EventOrder :
          EventOrder[i] = e /\ j < i => EventOrder[j] \notin ev

Bytes(urbs) == UNION {ToSet(urbs[k].data) : k \in DOMAIN urbs}

(* QCRD_ClearBuffer, with all URBs of the pipe returned if it was stopped. *)
ClearBuffer(stopped) ==
    /\ ring' = <<>> /\ done' = <<>>
    /\ lost' = lost \cup ToSet(ring) \cup Bytes(done)
    /\ free' = free + Len(done) + (IF stopped THEN pending ELSE 0)
    /\ pending' = IF stopped THEN 0 ELSE pending

(* QCRD_SendReadUrbs: every URB of the free list once, whatever the ring   *)
(* holds.  One that cannot be reset or that the framework refuses goes     *)
(* back to the free list; no event is set for it.                          *)
SendReadUrbs(idle) ==
    \E sentCount \in 0..idle :
        pending' = pending + sentCount /\ free' = idle - sentCount

FileCreate ==
    /\ Wakes("create")
    /\ ev' = ev \ {"create"}
    /\ thread' = [thread EXCEPT !.opened = TRUE]
    /\ SendReadUrbs(free)
    /\ UNCHANGED <<ring, done, queues, others, history>>

FileClose ==
    /\ Wakes("close")
    /\ thread' = [thread EXCEPT !.opened = FALSE, !.gone = FALSE]
    /\ timer' = FALSE /\ waitq' = <<>>
    /\ ClearBuffer(TRUE)
    /\ ev' = (ev \ {"close"}) \cup (IF pending > 0 THEN {"completion"} ELSE {})
    /\ file' = IF file = "closing" THEN "closed" ELSE file
    /\ UNCHANGED <<readq, dpc, kind, power, purger, plugged, started, requests,
                   sent, got, served>>

ClearRequested ==
    /\ Wakes("clear")
    /\ ev' = ev \ {"clear"}
    /\ ring' = <<>> /\ done' = <<>>
    /\ lost' = lost \cup ToSet(ring) \cup Bytes(done)
    /\ SendReadUrbs(free + Len(done))
    /\ purger' = "none"
    /\ UNCHANGED <<queues, thread, kind, file, power, plugged, started, requests,
                   sent, got, served>>

DeviceD0Exit ==
    /\ Wakes("d0exit")
    /\ thread' = [thread EXCEPT !.awake = FALSE, !.overflow = FALSE, !.gone = FALSE]
    /\ ClearBuffer(TRUE)
    /\ ev' = ev \ {"d0exit", "completion"}
    /\ power' = "off"
    /\ UNCHANGED <<queues, kind, file, purger, plugged, started, requests,
                   sent, got, served>>

DeviceD0Entry ==
    /\ Wakes("d0entry")
    /\ thread' = [thread EXCEPT !.awake = TRUE]
    /\ IF thread.opened THEN SendReadUrbs(free) ELSE UNCHANGED <<free, pending>>
    /\ ev' = (ev \ {"d0entry"}) \cup {"arrive"}
    /\ power' = "starting"
    /\ UNCHANGED <<ring, done, queues, kind, file, purger, plugged, started, requests, history>>

----------------------------------------------------------------------------
(* READ_THREAD_REQUEST_COMPLETION_EVENT.                                   *)

Completion ==
    /\ Wakes("completion")
    /\ ev' = ev \ {"completion"}
    /\ thread' = [thread EXCEPT !.pc = "collect"]
    /\ UNCHANGED <<buffers, queues, others, history>>

Fits(urb) == Len(urb.data) <= RingSize - Len(ring)

(* One turn of the loop: the data of the URB is copied to the ring.        *)
Collect ==
    /\ At("collect") /\ done # <<>> /\ Fits(Head(done))
    /\ ring' = ring \o Head(done).data
    /\ done' = Tail(done) /\ free' = free + 1
    /\ thread' = [thread EXCEPT !.gone = @ \/ Head(done).gone]
    /\ UNCHANGED <<pending, queues, ev, others, history>>

(* The end of the loop: no URB is left, or the ring has no room.           *)
Collected ==
    /\ At("collect") /\ (done # <<>> => ~Fits(Head(done)))
    /\ thread' = [thread EXCEPT !.pc = "wait", !.overflow = @ \/ done # <<>>]
    /\ ev' = ev \cup {"arrive"}
    /\ timer' = (timer \/ (thread.awake /\ kind = "interval" /\ waitq # <<>>))
    /\ UNCHANGED <<buffers, readq, waitq, dpc, others, history>>

----------------------------------------------------------------------------
(* READ_THREAD_REQUEST_ARRIVE_EVENT.                                       *)

ArriveIgnored ==
    /\ Wakes("arrive") /\ ~(thread.opened /\ thread.awake)
    /\ ev' = ev \ {"arrive"}
    /\ UNCHANGED <<buffers, queues, thread, others, history>>

Arrive == Wakes("arrive") /\ thread.opened /\ thread.awake

(* No data: the oldest read waits, if none does.  QCRD_StartReadTimeout    *)
(* sets the timer before the read is in TimeoutReadQueue.                  *)
ArriveTake ==
    /\ Arrive /\ ring = <<>> /\ waitq = <<>> /\ Deliverable /\ kind # "now"
    /\ ev' = ev \ {"arrive"}
    /\ readq' = Tail(readq)
    /\ timer' = (timer \/ kind \in {"total", "any"})
    /\ thread' = [thread EXCEPT !.pc = "forward", !.req = Head(readq)]
    /\ UNCHANGED <<buffers, waitq, dpc, others, history>>

ArriveNow ==
    /\ Arrive /\ ring = <<>> /\ waitq = <<>> /\ Deliverable /\ kind = "now"
    /\ ev' = ev \ {"arrive"}
    /\ readq' = Tail(readq)
    /\ thread' = [thread EXCEPT !.pc = "resend"]
    /\ UNCHANGED <<buffers, waitq, timer, dpc, others, history>>

(* With a read interval, data does not end the wait of a read, except if   *)
(* another read has come.                                                  *)
KeepsWaiting == kind = "interval" /\ waitq # <<>> /\ readq = <<>>

ArriveNothing ==
    /\ Arrive
    /\ \/ ring = <<>> /\ (waitq # <<>> \/ ~Deliverable)
       \/ ring # <<>> /\ KeepsWaiting
    /\ ev' = ev \ {"arrive"}
    /\ thread' = [thread EXCEPT !.pc = "resend"]
    /\ UNCHANGED <<buffers, queues, others, history>>

ArriveData ==
    /\ Arrive /\ ring # <<>> /\ ~KeepsWaiting
    /\ ev' = ev \ (IF kind = "interval" THEN {"arrive", "timeout"} ELSE {"arrive"})
    /\ timer' = (timer /\ kind # "interval")
    /\ thread' = [thread EXCEPT !.pc = "drain"]
    /\ UNCHANGED <<buffers, readq, waitq, dpc, others, history>>

Forward ==
    /\ At("forward")
    /\ waitq' = Append(waitq, thread.req)
    /\ thread' = [thread EXCEPT !.pc = "resend", !.req = NONE]
    /\ UNCHANGED <<buffers, readq, timer, dpc, ev, others, history>>

(* QCUTIL_RingBufferRead, and the completion of the read.                  *)
Serve(r) ==
    LET n == IF ReadLength[r] < Len(ring) THEN ReadLength[r] ELSE Len(ring) IN
    /\ got' = got \o SubSeq(ring, 1, n)
    /\ ring' = SubSeq(ring, n + 1, Len(ring))
    /\ served' = Append(served, r)

(* Variant: the URB that found no room is forgotten.                     *)
ResumeForgets ==
    /\ UNCHANGED ev
    /\ thread' = [thread EXCEPT !.overflow = FALSE]

(* A read was served: a URB that found no room may fit now.                *)
Resume ==
    /\ ev' = ev \cup (IF thread.overflow THEN {"completion"} ELSE {})
    /\ thread' = [thread EXCEPT !.overflow = FALSE]

DrainWaiting ==
    /\ At("drain") /\ ring # <<>> /\ kind # "interval" /\ waitq # <<>>
    /\ Serve(Head(waitq)) /\ waitq' = Tail(waitq)
    /\ timer' = FALSE
    /\ ev' = (ev \ {"timeout"}) \cup (IF thread.overflow THEN {"completion"} ELSE {})
    /\ thread' = [thread EXCEPT !.overflow = FALSE]
    /\ UNCHANGED <<free, pending, done, readq, dpc, others, sent, lost>>

(* Variant: the newer reads first.                                       *)
DrainQueueFirst ==
    /\ At("drain") /\ ring # <<>> /\ Deliverable
    /\ Serve(Head(readq)) /\ readq' = Tail(readq)
    /\ Resume
    /\ UNCHANGED <<free, pending, done, waitq, timer, dpc, others, sent, lost>>

DrainQueue ==
    /\ At("drain") /\ ring # <<>> /\ (kind = "interval" \/ waitq = <<>>) /\ Deliverable
    /\ Serve(Head(readq)) /\ readq' = Tail(readq)
    /\ Resume
    /\ UNCHANGED <<free, pending, done, waitq, timer, dpc, others, sent, lost>>

Drained ==
    /\ At("drain")
    /\ ring = <<>> \/ ((kind = "interval" \/ waitq = <<>>) /\ ~Deliverable)
    /\ thread' = [thread EXCEPT !.pc = "resend"]
    /\ UNCHANGED <<buffers, queues, ev, others, history>>

(* A URB that is refused is tried again, until NumOfRetriesOnError tries   *)
(* in a row have failed: then the device is set failed.                    *)
SendWhileRoom(room) ==
    IF room
    THEN /\ SendReadUrbs(free)
         /\ thread' = [thread EXCEPT !.pc = "wait", !.failed = @ \/ free' > 0]
    ELSE /\ UNCHANGED <<free, pending>>
         /\ thread' = [thread EXCEPT !.pc = "wait"]

(* Variant: a URB that is refused is left for later.                     *)
ResendOnce ==
    /\ At("resend")
    /\ IF ~thread.gone /\ RingSize - Len(ring) >= UrbSize
       THEN SendReadUrbs(free) ELSE UNCHANGED <<free, pending>>
    /\ thread' = [thread EXCEPT !.pc = "wait"]
    /\ UNCHANGED <<ring, done, queues, ev, others, history>>

(* URBs go back to the device while the ring has room for one more.        *)
Resend ==
    /\ At("resend")
    /\ SendWhileRoom(~thread.gone /\ RingSize - Len(ring) >= UrbSize)
    /\ UNCHANGED <<ring, done, queues, ev, others, history>>

----------------------------------------------------------------------------
(* READ_THREAD_REQUEST_TIMEOUT_EVENT.                                      *)

(* With data, if the time-outs are of a class that asks for it.            *)
TimeoutWithData ==
    /\ Wakes("timeout") /\ kind \in {"interval", "any"} /\ ring # <<>>
    /\ ev' = ev \ {"timeout"} /\ timer' = FALSE
    /\ IF waitq # <<>> THEN Serve(Head(waitq)) /\ waitq' = Tail(waitq)
                       ELSE UNCHANGED <<ring, got, served, waitq>>
    /\ UNCHANGED <<free, pending, done, readq, dpc, thread, others, sent, lost>>

(* The read that waits is completed with STATUS_TIMEOUT.                   *)
Timeout ==
    /\ Wakes("timeout") /\ ~(kind \in {"interval", "any"} /\ ring # <<>>)
    /\ ev' = ev \ {"timeout"} /\ timer' = FALSE
    /\ waitq' = IF waitq # <<>> THEN Tail(waitq) ELSE waitq
    /\ UNCHANGED <<buffers, readq, dpc, thread, others, history>>

Next ==
    \/ StartRead \/ Open \/ Close \/ D0Exit \/ D0Entry \/ QueueStarted
    \/ AbortQueue \/ AbortTimer \/ AbortWaiting \/ AbortDone \/ Clear
    \/ BusComplete \/ Unplug \/ TimerExpires \/ ReadTimeoutDpc
    \/ FileCreate \/ FileClose \/ ClearRequested \/ DeviceD0Exit \/ DeviceD0Entry
    \/ Completion \/ Collect \/ Collected
    \/ ArriveIgnored \/ ArriveTake \/ ArriveNow \/ ArriveNothing \/ ArriveData
    \/ Forward \/ DrainWaiting \/ DrainQueue \/ Drained \/ Resend
    \/ TimeoutWithData \/ Timeout

Spec == Init /\ [][Next]_vars

----------------------------------------------------------------------------
(* Properties.                                                             *)

(* The thread waits for events with the port open and in D0; only then is  *)
(* what it has left undone left undone for good.                           *)
Idle == At("wait") /\ thread.opened /\ thread.awake

Increasing(s) == \A j, k \in DOMAIN s : j < k => s[j] < s[k]
Before(S, T)  == \A b \in S, c \in T : b < c

(* What the applications got, what the ring buffer holds and what the      *)
(* completed URBs hold is, in this order, what the device sent without     *)
(* what a close, a power-down or a purge dropped: no byte is lost, repeated*)
(* or overtaken at a full ring.  Unless a read interval is set, the reads  *)
(* get their data in the order in which they were issued.                  *)
ServedInOrder ==
    /\ Increasing(got \o ring)
    /\ \A k \in DOMAIN done :
          /\ Increasing(done[k].data)
          /\ Before(ToSet(got \o ring) \cup Bytes(SubSeq(done, 1, k - 1)),
                    ToSet(done[k].data))
    /\ ToSet(got \o ring) \cup Bytes(done) = (1..sent) \ lost
    /\ kind # "interval" => Increasing(served)

(* A read waits although data for it is in the ring or in a completed URB: *)
(* an event is set that will bring the two together.  (A URB that found no *)
(* room is looked at again when a read has made some: bBufferOverflow.)    *)
WaiterGetsData ==
    Idle /\ kind # "interval" /\ (waitq # <<>> \/ Deliverable)
         /\ (ring # <<>> \/ Bytes(done) # {})
    => ev \cap {"arrive", "completion"} # {}

(* A read that waits with a total time-out will be completed: its timer    *)
(* runs, or has expired and the thread will see it, or an abort that has   *)
(* stopped the timer is about to cancel the read.                          *)
WaitingReadTimed ==
    Idle /\ kind \in {"total", "any"} /\ waitq # <<>>
    => \/ timer \/ dpc \/ "timeout" \in ev
       \/ purger = "untimed"

(* While a read waits for data, all URBs are with the device, unless an    *)
(* event is set, the device has said that it is gone or was set failed.  A *)
(* URB that a create, a power-up or a purge could not send (no event is    *)
(* set for it) is sent when the read is taken, or by the arrival that the  *)
(* power-up sets.                                                          *)
WaiterFed ==
    Idle /\ kind # "interval" /\ waitq # <<>> /\ ev = {} /\ ~thread.gone /\ ~thread.failed
    => pending = Urbs

(* Said by QCSER_SetTimeout of cases 3 and 4 ("timeout after               *)
(* ReadTotalTimeout", "return immediately"): with nothing left to happen   *)
(* but data, no read is left.  The code breaks it: nobody looks at         *)
(* ReadQueue again when a read was timed out or answered at once, or when  *)
(* its arrival was handled before the opening of the port.                 *)
ReadsReturn ==
    Idle /\ kind \in {"total", "now"} /\ ev = {} /\ ~timer /\ ~dpc
         /\ purger = "none" /\ power = "on"
    => readq = <<>> /\ waitq = <<>>
====
