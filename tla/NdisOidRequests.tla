-------------------------- MODULE NdisOidRequests --------------------------
(***************************************************************************)
(* OID requests of the Windows NDIS miniport, windows/ndis, as built with  *)
(* NDIS60_MINIPORT and QCQMI_SUPPORT: MPOID.c makes a QMI message of a     *)
(* request of NDIS, the work thread of MPWork.c sends the messages and     *)
(* handles the answers, MPUsb.c posts the control reads that carry them,   *)
(* and the reset of MPMain.c, a timer DPC, takes everything back.          *)
(*                                                                         *)
(* A step is one critical section of CtrlWriteLock, OIDLock or             *)
(* CtrlReadLock with what its thread does up to the next one.  The DPC     *)
(* runs between any two steps of a thread.                                 *)
(***************************************************************************)
EXTENDS Integers, FiniteSets, SequencesExt, TLC

CONSTANTS
    Services,           \* QMI services (QMIType)
    Oids,               \* the MP_OID_WRITE structures
    NumReads,           \* the MP_OID_READ structures
    MaxPendingQMIReqs,  \* limit of unanswered messages of a service
    RESET_TIMEOUT,      \* rounds in which a reset waits for the queues
    MaxRequests,        \* bound: requests of NDIS, and messages that the
                        \* driver sends for itself
    MaxFaults,          \* bound: resets, and allocations that fail
    NONE                \* no OID

ASSUME LimitAssumption ==
    /\ MaxPendingQMIReqs \in Nat \ {0} /\ NumReads \in Nat \ {0}
    /\ RESET_TIMEOUT \in Nat
ASSUME BoundsAssumption == MaxRequests \in Nat /\ MaxFaults \in Nat
ASSUME OidsAssumption == IsFiniteSet(Oids) /\ NONE \notin Oids

VARIABLES
    qmi,                   \* "down", "ids" (client IDs known), "up"
    OIDFreeList, OIDWaitingList,
    oid,                   \* oid[o]: request, OidReference, OIDAsyncType,
                           \* QMIQueue
    nBusyOID,
    OidRequestList,        \* the requests that NDIS waits for
    ndis,                  \* ndis[r]: state of request r, its address, and
                           \* the request whose answer completed it
    caller,                \* MPOID_QueryInformation, MPOID_SetInformation
    CtrlWriteList, CtrlWritePendingList, nBusyWrite,
    PendingCtrlRequests,   \* per service
    sends,                 \* messages sent by the driver for itself
    atModem,               \* messages sent and not answered
    reads,                 \* control reads: free, pending, IRPs with USB,
                           \* doomed IRPs, which USB cancels; a purge is due
    CtrlReadCompleteList,  \* the answers in the completed reads
    nBusyRCtrl,
    process,               \* WorkThreadProcessEvent
    worker,                \* the work thread
    resetting,             \* fMP_RESET_IN_PROGRESS
    reset,                 \* step of the DPC, nResetTimerCount
    forgot,                \* history: unanswered when the limit was zeroed
    faults,                \* resets and failed allocations so far
    health                 \* history: "sound"; "lossy" when a message, a
                           \* read or an OID got lost; "over" when an
                           \* entry is unlinked that is in no list, or a
                           \* reset has timed out

oidVars   == <<OIDFreeList, OIDWaitingList, oid, nBusyOID>>
ndisVars  == <<OidRequestList, ndis>>
queueVars == <<CtrlWriteList, CtrlWritePendingList, nBusyWrite>>
limitVars == <<PendingCtrlRequests, forgot>>
usbVars   == <<atModem, reads, CtrlReadCompleteList, nBusyRCtrl>>
resetVars == <<resetting, reset>>
lossVars  == <<faults, health>>
vars == <<qmi, oidVars, ndisVars, caller, queueVars, limitVars, sends,
          usbVars, process, worker, resetVars, lossVars>>

Requests == 1..MaxRequests

(* A message belongs to a request, as its first or its second one, or to   *)
(* none (req = 0).                                                         *)
NoMsg  == [req |-> 0, step |-> 0, svc |-> NONE]
Idle   == [pc |-> "idle", req |-> 0, id |-> FALSE, oid |-> NONE]
Unused == [req |-> 0, ref |-> 0, async |-> FALSE, queue |-> << >>]

Made == Cardinality({r \in Requests : ndis[r].state # "new"})

(* Messages of a service that were sent and whose answer the work thread   *)
(* has not counted yet.                                                    *)
Outstanding(s) ==
    {m \in atModem \cup ToSet(CtrlReadCompleteList)
           \cup (IF worker.pc = "inbound" THEN {worker.msg} ELSE {}) :
        m.svc = s}

-----------------------------------------------------------------------------
Init ==
    /\ qmi = "down"
    /\ OIDFreeList = SetToSeq(Oids) /\ OIDWaitingList = << >>
    /\ oid = [o \in Oids |-> Unused]
    /\ nBusyOID = 0
    /\ OidRequestList = {}
    /\ ndis = [r \in Requests |->
                 [state |-> "new", addr |-> 0, by |-> 0]]
    /\ caller = Idle
    /\ CtrlWriteList = << >> /\ CtrlWritePendingList = << >>
    /\ nBusyWrite = 0
    /\ PendingCtrlRequests = [s \in Services |-> 0]
    /\ forgot = [s \in Services |-> 0]
    /\ sends = 0 /\ atModem = {}
    /\ reads = [free |-> NumReads, pending |-> 0, irps |-> 0,
                doomed |-> 0, purge |-> FALSE]
    /\ CtrlReadCompleteList = << >> /\ nBusyRCtrl = 0
    /\ process = TRUE
    /\ worker = [pc |-> "wait", more |-> FALSE, msg |-> NoMsg, oid |-> NONE]
    /\ resetting = FALSE
    /\ reset = [pc |-> "none", count |-> 0]
    /\ faults = 0 /\ health = "sound"

(* What is lost from here on is a consequence. *)
Lossy == health' = "lossy"

AllocationFails ==
    /\ faults < MaxFaults
    /\ faults' = faults + 1
    /\ Lossy

-----------------------------------------------------------------------------
(***************************************************************************)
(* The queues of the writes, and the initialization of QMI.                *)
(***************************************************************************)

(* MP_USBRequest, MP_USBSendControl: a message composed without a client   *)
(* ID goes to a list of its own; the work thread is told in both cases.    *)
QueueWrite(m, id) ==
    /\ IF id
       THEN /\ CtrlWriteList' = Append(CtrlWriteList, m)
            /\ UNCHANGED CtrlWritePendingList
       ELSE /\ CtrlWritePendingList' = Append(CtrlWritePendingList, m)
            /\ UNCHANGED CtrlWriteList
    /\ nBusyWrite' = nBusyWrite + 1
    /\ process' = TRUE

MP_USBSendControl(s) ==
    /\ sends + Made < MaxRequests
    /\ sends' = sends + 1
    /\ QueueWrite([req |-> 0, step |-> sends + 1, svc |-> s], qmi # "down")
    /\ UNCHANGED <<qmi, oidVars, ndisVars, caller, limitVars, usbVars,
                   worker, resetVars, lossVars>>

(* MPMAIN_InitializeQMI has the client IDs, and later moves the messages   *)
(* that waited for them.                                                   *)
MPMAIN_InitializeQMI ==
    /\ qmi = "down"
    /\ qmi' = "ids"
    /\ UNCHANGED <<oidVars, ndisVars, caller, queueVars, limitVars, sends,
                   usbVars, process, worker, resetVars, lossVars>>

MPMAIN_MoveQMIRequests ==
    /\ qmi = "ids"
    /\ qmi' = "up"
    /\ CtrlWriteList' = CtrlWriteList \o CtrlWritePendingList
    /\ CtrlWritePendingList' = << >>
    /\ process' = TRUE
    /\ UNCHANGED <<oidVars, ndisVars, caller, nBusyWrite, limitVars, sends,
                   usbVars, worker, resetVars, lossVars>>

-----------------------------------------------------------------------------
(***************************************************************************)
(* MPOID_QueryInformation and MPOID_SetInformation, for requests that      *)
(* become a QMI message.  NDIS waits for one request before it makes the   *)
(* next; an asynchronous one returns at once and is indicated later.  The  *)
(* message is composed, with the client ID of the moment, before OIDLock   *)
(* is taken to queue it.  OidReference is the address of the request; that *)
(* of one which has ended may be used again.                               *)
(***************************************************************************)
TakeOid(s, async, a) ==
    LET r == Made + 1
        o == Head(OIDFreeList)
        m == [req |-> r, step |-> 1, svc |-> s]
    IN  /\ caller.pc = "idle"
        /\ \A q \in Requests : ndis[q].state # "pending"
        /\ sends + Made < MaxRequests
        /\ a \in 1..r
        /\ ~resetting
        /\ OIDFreeList # << >>
        /\ OIDFreeList' = Tail(OIDFreeList)
        /\ nBusyOID' = nBusyOID + 1
        /\ oid' = [oid EXCEPT ![o] = [req |-> r, ref |-> a, async |-> async,
                                      queue |-> Append(@.queue, m)]]
        /\ ndis' = [ndis EXCEPT ![r].state = "given", ![r].addr = a]
        /\ caller' = [pc |-> "taken", req |-> r, id |-> qmi # "down",
                      oid |-> o]
        /\ UNCHANGED <<qmi, OIDWaitingList, OidRequestList, queueVars,
                       limitVars, sends, usbVars, process, worker, resetVars,
                       lossVars>>

SubmitOid ==
    LET o == caller.oid
        r == caller.req
    IN  /\ caller.pc = "taken"
        /\ QueueWrite(Last(oid[o].queue), caller.id)
        /\ OIDWaitingList' = Append(OIDWaitingList, o)
        /\ ndis' = [ndis EXCEPT ![r].state =
                      IF oid[o].async THEN "later" ELSE "pending"]
        /\ OidRequestList' = IF oid[o].async THEN OidRequestList
                                             ELSE OidRequestList \cup {r}
        /\ caller' = Idle
        /\ UNCHANGED <<qmi, OIDFreeList, oid, nBusyOID, limitVars, sends,
                       usbVars, worker, resetVars, lossVars>>

(* MP_USBRequest finds no memory: the OID is given back, and counted in a  *)
(* second critical section.  NDIS is told, and nothing is lost.            *)
SubmitFails ==
    LET o == caller.oid
    IN  /\ caller.pc = "taken"
        /\ faults < MaxFaults /\ faults' = faults + 1
        /\ oid' = [oid EXCEPT ![o] = Unused]
        /\ OIDFreeList' = Append(OIDFreeList, o)
        /\ caller' = [caller EXCEPT !.pc = "failed"]
        /\ UNCHANGED <<qmi, OIDWaitingList, nBusyOID, ndisVars, queueVars,
                       limitVars, sends, usbVars, process, worker, resetVars,
                       health>>

SubmitReturns ==
    /\ caller.pc = "failed"
    /\ nBusyOID' = nBusyOID - 1
    /\ ndis' = [ndis EXCEPT ![caller.req].state = "failed"]
    /\ caller' = Idle
    /\ UNCHANGED <<qmi, OIDFreeList, OIDWaitingList, oid, OidRequestList,
                   queueVars, limitVars, sends, usbVars, process, worker,
                   resetVars, lossVars>>

(* Aborted: the requests of the list, which NDIS waits for. *)
Abort(requests) ==
    /\ OidRequestList' = OidRequestList \ requests
    /\ ndis' = [r \in Requests |->
                  IF r \in requests
                  THEN [ndis[r] EXCEPT !.state = "aborted"] ELSE ndis[r]]

MPOID_MiniportCancelOidRequest(r) ==
    /\ r \in OidRequestList
    /\ Abort({r})
    /\ UNCHANGED <<qmi, oidVars, caller, queueVars, limitVars, sends,
                   usbVars, process, worker, resetVars, lossVars>>

-----------------------------------------------------------------------------
(***************************************************************************)
(* MPWork_WorkThread and MPWork_WorkItem: control reads, writes, answers,  *)
(* and again as long as one of them did something.                         *)
(***************************************************************************)
Work(from, to) == worker.pc = from /\ worker' = [worker EXCEPT !.pc = to]
WorkDone(from, to) ==
    /\ worker.pc = from
    /\ worker' = [pc |-> to, more |-> TRUE, msg |-> NoMsg, oid |-> NONE]

MPWork_WorkThread ==
    /\ process
    /\ process' = FALSE
    /\ Work("wait", "reads")
    /\ UNCHANGED <<qmi, oidVars, ndisVars, caller, queueVars, limitVars,
                   sends, usbVars, resetVars, lossVars>>

MPWork_PostControlReads ==
    /\ ~resetting /\ reads.free > 0
    /\ reads' = [reads EXCEPT !.free = @ - 1, !.pending = @ + 1]
    /\ nBusyRCtrl' = nBusyRCtrl + 1
    /\ WorkDone("reads", "post")
    /\ UNCHANGED <<qmi, oidVars, ndisVars, caller, queueVars, limitVars,
                   sends, atModem, CtrlReadCompleteList, process, resetVars,
                   lossVars>>

(* Without an IRP the read stays on the list of the pending ones. *)
MP_USBPostControlRead ==
    /\ Work("post", "reads")
    /\ \/ /\ reads' = [reads EXCEPT !.irps = @ + 1]
          /\ UNCHANGED lossVars
       \/ AllocationFails /\ UNCHANGED reads
    /\ UNCHANGED <<qmi, oidVars, ndisVars, caller, queueVars, limitVars,
                   sends, atModem, CtrlReadCompleteList, nBusyRCtrl, process,
                   resetVars>>

ReadsPosted ==
    /\ resetting \/ reads.free = 0
    /\ Work("reads", "writes")
    /\ UNCHANGED <<qmi, oidVars, ndisVars, caller, queueVars, limitVars,
                   sends, usbVars, process, resetVars, lossVars>>

(* The check of IsQmiWorking before the loop is left out: the flag is set  *)
(* (MPMain.c:2910) before there is any client ID, CtrlWriteList is filled  *)
(* once there are, and MPMAIN_MoveQMIRequests wakes the thread then.       *)
WithinLimitAndOne(s) ==          \* variant: one message too many
    PendingCtrlRequests[s] <= MaxPendingQMIReqs

WithinLimit(s) == PendingCtrlRequests[s] < MaxPendingQMIReqs

MPWork_PostWriteRequests ==
    /\ CtrlWriteList # << >> /\ WithinLimit(Head(CtrlWriteList).svc)
    /\ worker.pc = "writes"
    /\ worker' = [worker EXCEPT !.pc = "send", !.msg = Head(CtrlWriteList)]
    /\ CtrlWriteList' = Tail(CtrlWriteList)
    /\ UNCHANGED <<qmi, oidVars, ndisVars, caller, CtrlWritePendingList,
                   nBusyWrite, limitVars, sends, usbVars, process, resetVars,
                   lossVars>>

(* Beyond the limit of its service a message goes to the end of the list,  *)
(* and the thread to the answers.                                          *)
WritesEnd ==
    /\ \/ CtrlWriteList = << >> /\ UNCHANGED CtrlWriteList
       \/ /\ CtrlWriteList # << >> /\ ~WithinLimit(Head(CtrlWriteList).svc)
          /\ CtrlWriteList' =
               Append(Tail(CtrlWriteList), Head(CtrlWriteList))
    /\ Work("writes", "resolve")
    /\ UNCHANGED <<qmi, oidVars, ndisVars, caller, CtrlWritePendingList,
                   nBusyWrite, limitVars, sends, usbVars, process, resetVars,
                   lossVars>>

MP_USBSendControlRequest ==
    /\ Work("send", "sent")
    /\ \/ /\ PendingCtrlRequests' =
               [PendingCtrlRequests EXCEPT ![worker.msg.svc] = @ + 1]
          /\ atModem' = atModem \cup {worker.msg}
          /\ UNCHANGED lossVars
       \/ AllocationFails /\ UNCHANGED <<PendingCtrlRequests, atModem>>
    /\ UNCHANGED <<qmi, oidVars, ndisVars, caller, queueVars, forgot, sends,
                   reads, CtrlReadCompleteList, nBusyRCtrl, process,
                   resetVars>>

WriteDone ==
    /\ WorkDone("sent", "writes")
    /\ nBusyWrite' = nBusyWrite - 1
    /\ UNCHANGED <<qmi, oidVars, ndisVars, caller, CtrlWriteList,
                   CtrlWritePendingList, limitVars, sends, usbVars, process,
                   resetVars, lossVars>>

MPWork_ResolveRequests ==
    /\ CtrlReadCompleteList # << >>
    /\ worker.pc = "resolve"
    /\ worker' = [worker EXCEPT !.pc = "inbound",
                                !.msg = Head(CtrlReadCompleteList)]
    /\ CtrlReadCompleteList' = Tail(CtrlReadCompleteList)
    /\ UNCHANGED <<qmi, oidVars, ndisVars, caller, queueVars, limitVars,
                   sends, atModem, reads, nBusyRCtrl, process, resetVars,
                   lossVars>>

ResolveEndsCleared ==            \* variant: the event is cleared afterwards
    /\ CtrlReadCompleteList = << >>
    /\ worker.pc = "resolve"
    /\ worker' = [worker EXCEPT !.pc = IF worker.more THEN "reads" ELSE "wait",
                                !.more = FALSE]
    /\ process' = (worker.more /\ process)
    /\ UNCHANGED <<qmi, oidVars, ndisVars, caller, queueVars, limitVars,
                   sends, usbVars, resetVars, lossVars>>

ResolveEnds ==
    /\ CtrlReadCompleteList = << >>
    /\ worker.pc = "resolve"
    /\ worker' = [worker EXCEPT !.pc = IF worker.more THEN "reads" ELSE "wait",
                                !.more = FALSE]
    /\ UNCHANGED <<qmi, oidVars, ndisVars, caller, queueVars, limitVars,
                   sends, usbVars, process, resetVars, lossVars>>

MPQMI_ProcessInboundQMUX ==
    /\ Work("inbound", "find")
    /\ PendingCtrlRequests' =
         [PendingCtrlRequests EXCEPT ![worker.msg.svc] = @ - 1]
    /\ process' = TRUE
    /\ UNCHANGED <<qmi, oidVars, ndisVars, caller, queueVars, forgot, sends,
                   usbVars, resetVars, lossVars>>

(* A list without an entry, which is in it once or not at all. *)
RemoveEntryList(list, e) ==
    IF e \in ToSet(list)
    THEN RemoveAt(list, CHOOSE i \in DOMAIN list : list[i] = e) ELSE list

(* The first waiting OID that has the answered message in its QMIQueue.    *)
(* OIDLock is free again before the OID is unlinked.                       *)
Asked(o) == worker.msg \in ToSet(oid[o].queue)

MPQMI_FindRequest ==
    \E i \in DOMAIN OIDWaitingList :
        LET o == OIDWaitingList[i]
        IN  /\ Asked(o)
            /\ \A j \in 1..(i - 1) : ~Asked(OIDWaitingList[j])
            /\ worker.pc = "find"
            /\ worker' = [worker EXCEPT !.pc = "process", !.oid = o]
            /\ oid' = [oid EXCEPT ![o].queue =
                         RemoveEntryList(@, worker.msg)]
            /\ UNCHANGED <<qmi, OIDFreeList, OIDWaitingList, nBusyOID,
                           ndisVars, caller, queueVars, limitVars, sends,
                           usbVars, process, resetVars, lossVars>>

NoRequest ==
    /\ \A o \in ToSet(OIDWaitingList) : ~Asked(o)
    /\ Work("find", "repost")
    /\ UNCHANGED <<qmi, oidVars, ndisVars, caller, queueVars, limitVars,
                   sends, usbVars, process, resetVars, lossVars>>

(* The handler of the answer may ask for more before the request ends. *)
MPQMUX_ComposeQMUXReq ==
    LET m == [worker.msg EXCEPT !.step = 2]
    IN  /\ worker.msg.req # 0 /\ worker.msg.step = 1
        /\ Work("process", "unlink")
        /\ oid' = [oid EXCEPT ![worker.oid].queue = Append(@, m)]
        /\ QueueWrite(m, qmi # "down")
        /\ UNCHANGED <<qmi, OIDFreeList, OIDWaitingList, nBusyOID, ndisVars,
                       caller, limitVars, sends, usbVars, resetVars,
                       lossVars>>

(* The OID is taken out of the list it is in. *)
MPQMI_ProcessInboundQWDSResponse ==
    LET o == worker.oid
    IN  /\ worker.pc \in {"process", "unlink"}
        /\ IF oid[o].queue # << >>
           THEN /\ worker' = [worker EXCEPT !.pc = "repost"]
                /\ UNCHANGED <<OIDWaitingList, OIDFreeList, health>>
           ELSE /\ worker' = [worker EXCEPT !.pc = "complete"]
                /\ OIDWaitingList' = RemoveEntryList(OIDWaitingList, o)
                /\ OIDFreeList' = RemoveEntryList(OIDFreeList, o)
                /\ health' = IF o \in ToSet(OIDWaitingList \o OIDFreeList)
                             THEN health ELSE "over"
        /\ UNCHANGED <<qmi, oid, nBusyOID, ndisVars, caller, queueVars,
                       limitVars, sends, usbVars, process, resetVars,
                       faults>>

(* MPOID_FindAndCompleteOidRequest: the requests of the list with the      *)
(* reference of the OID; without a reference the list is emptied and       *)
(* nothing of it completed.                                                *)
MatchesAny(o) == OidRequestList   \* variant: no comparison

Matches(o) == {r \in OidRequestList : ndis[r].addr = oid[o].ref}

Complete(requests) ==
    ndis' = [r \in Requests |->
               IF r \in requests
               THEN [ndis[r] EXCEPT !.state = "answered", !.by = worker.msg.req]
               ELSE ndis[r]]

MPOID_CompleteOid ==
    LET o == worker.oid
    IN  /\ Work("complete", "free")
        /\ IF oid[o].async
           THEN /\ Complete({oid[o].req} \cap Requests)
                /\ UNCHANGED OidRequestList
           ELSE /\ Complete(Matches(o))
                /\ OidRequestList' = IF oid[o].ref = 0 THEN {}
                                     ELSE OidRequestList \ Matches(o)
        /\ UNCHANGED <<qmi, oidVars, caller, queueVars, limitVars, sends,
                       usbVars, process, resetVars, lossVars>>

FreeOid ==
    /\ Work("free", "repost")
    /\ oid' = [oid EXCEPT ![worker.oid] = Unused]
    /\ OIDFreeList' = Append(OIDFreeList, worker.oid)
    /\ nBusyOID' = nBusyOID - 1
    /\ UNCHANGED <<qmi, OIDWaitingList, ndisVars, caller, queueVars,
                   limitVars, sends, usbVars, process, resetVars, lossVars>>

ReadIsFree ==
    /\ WorkDone("repost", "resolve")
    /\ reads' = [reads EXCEPT !.free = @ + 1]
    /\ nBusyRCtrl' = nBusyRCtrl - 1
    /\ UNCHANGED <<qmi, oidVars, ndisVars, caller, queueVars, limitVars,
                   sends, atModem, CtrlReadCompleteList, process, resetVars,
                   lossVars>>

-----------------------------------------------------------------------------
(***************************************************************************)
(* MP_RcIRPCompletion: the head of the pending list is the read that has   *)
(* completed, or was cancelled by USB; without a pending read the answer   *)
(* is dropped.                                                             *)
(***************************************************************************)
Answer(m) ==
    /\ m \in atModem /\ reads.irps > reads.doomed
    /\ atModem' = atModem \ {m}
    /\ IF reads.pending > 0
       THEN /\ reads' = [reads EXCEPT !.irps = @ - 1, !.pending = @ - 1]
            /\ CtrlReadCompleteList' = Append(CtrlReadCompleteList, m)
            /\ process' = TRUE
            /\ UNCHANGED health
       ELSE /\ reads' = [reads EXCEPT !.irps = @ - 1]
            /\ Lossy
            /\ UNCHANGED <<CtrlReadCompleteList, process>>
    /\ UNCHANGED <<qmi, oidVars, ndisVars, caller, queueVars, limitVars,
                   sends, nBusyRCtrl, worker, resetVars, faults>>

(* The purge of MP_USBCleanUp, by a thread of the USB layer: it takes all  *)
(* the IRPs of the moment off the queue, and they are cancelled in turn.   *)
Purge ==
    /\ reads.purge
    /\ reads' = [reads EXCEPT !.purge = FALSE, !.doomed = reads.irps]
    /\ UNCHANGED <<qmi, oidVars, ndisVars, caller, queueVars, limitVars,
                   sends, atModem, CtrlReadCompleteList, nBusyRCtrl, process,
                   worker, resetVars, lossVars>>

CancelReadUncounted ==           \* variant: nBusyRCtrl stays
    /\ reads.doomed > 0
    /\ LET left == [reads EXCEPT !.irps = @ - 1, !.doomed = @ - 1]
       IN  IF reads.pending > 0
           THEN /\ reads' = [left EXCEPT !.pending = @ - 1, !.free = @ + 1]
                /\ process' = TRUE
           ELSE reads' = left /\ UNCHANGED process
    /\ UNCHANGED <<qmi, oidVars, ndisVars, caller, queueVars, limitVars,
                   sends, atModem, CtrlReadCompleteList, nBusyRCtrl, worker,
                   resetVars, lossVars>>

CancelRead ==
    /\ reads.doomed > 0
    /\ LET left == [reads EXCEPT !.irps = @ - 1, !.doomed = @ - 1]
       IN  IF reads.pending > 0
           THEN /\ reads' = [left EXCEPT !.pending = @ - 1, !.free = @ + 1]
                /\ nBusyRCtrl' = nBusyRCtrl - 1
                /\ process' = TRUE
           ELSE reads' = left /\ UNCHANGED <<nBusyRCtrl, process>>
    /\ UNCHANGED <<qmi, oidVars, ndisVars, caller, queueVars, limitVars,
                   sends, atModem, CtrlReadCompleteList, worker, resetVars,
                   lossVars>>

-----------------------------------------------------------------------------
(***************************************************************************)
(* MPMAIN_MiniportReset and MPMAIN_ResetCompleteTimerDpc.                  *)
(***************************************************************************)
QueuesAreEmpty == nBusyRCtrl <= 0 /\ nBusyOID <= 0

Dpc(from, to) ==
    /\ reset.pc = from
    /\ reset' = [pc |-> to, count |-> IF to = "none" THEN 0 ELSE reset.count]

(* A bound: there is no reset before QMI is up. *)
MPMAIN_MiniportReset ==
    /\ reset.pc = "none"
    /\ faults < MaxFaults /\ faults' = faults + 1 /\ qmi = "up"
    /\ ~QueuesAreEmpty
    /\ reset' = [pc |-> "start", count |-> 0]
    /\ UNCHANGED <<qmi, oidVars, ndisVars, caller, queueVars, limitVars,
                   sends, usbVars, process, worker, resetting, health>>

StartCleanup ==
    /\ Dpc("start", "wait")
    /\ resetting' = TRUE
    /\ reads' = [reads EXCEPT !.purge = TRUE]
    /\ UNCHANGED <<qmi, oidVars, ndisVars, caller, queueVars, limitVars,
                   sends, atModem, CtrlReadCompleteList, nBusyRCtrl, process,
                   worker, lossVars>>

(* QueuesAreEmpty writes back the zeros it has read. *)
WaitForEmpty ==
    /\ reset.pc = "wait"
    /\ IF QueuesAreEmpty
       THEN /\ reset' = [reset EXCEPT !.pc = "empty"]
            /\ nBusyRCtrl' = 0 /\ nBusyOID' = 0
       ELSE /\ reset' = [reset EXCEPT !.count = @ + 1,
                           !.pc = IF reset.count < RESET_TIMEOUT
                                  THEN "writes" ELSE "timeout"]
            /\ UNCHANGED <<nBusyRCtrl, nBusyOID>>
    /\ UNCHANGED <<qmi, OIDFreeList, OIDWaitingList, oid, ndisVars, caller,
                   queueVars, limitVars, sends, atModem, reads,
                   CtrlReadCompleteList, process, worker, resetting,
                   lossVars>>

(* The messages are thrown away, and what was sent is forgotten. *)
DropWrites ==
    /\ CtrlWriteList' = << >> /\ CtrlWritePendingList' = << >>
    /\ PendingCtrlRequests' = [s \in Services |-> 0]
    /\ forgot' = [s \in Services |-> Cardinality(Outstanding(s))]

(* The waiting OIDs go back to the free list. *)
DropOids ==
    /\ OIDFreeList' = OIDFreeList \o OIDWaitingList
    /\ OIDWaitingList' = << >>
    /\ oid' = [o \in Oids |->
                 IF o \in ToSet(OIDWaitingList)
                 THEN [Unused EXCEPT !.async = oid[o].async] ELSE oid[o]]

CleanupWrites ==
    /\ Dpc("writes", "oids")
    /\ IF nBusyWrite # 0
       THEN /\ DropWrites
            /\ nBusyWrite' =
                 nBusyWrite - Len(CtrlWriteList \o CtrlWritePendingList)
       ELSE UNCHANGED <<queueVars, limitVars>>
    /\ UNCHANGED <<qmi, oidVars, ndisVars, caller, sends, usbVars, process,
                   worker, resetting, lossVars>>

(* Nothing keeps the DPC from an OID that the work thread has found. *)
InHand == /\ worker.pc \in {"process", "unlink"}
          /\ worker.oid \in ToSet(OIDWaitingList)

CleanupOids ==
    /\ Dpc("oids", "cancel")
    /\ IF nBusyOID # 0
       THEN /\ DropOids
            /\ nBusyOID' = nBusyOID - Len(OIDWaitingList)
            /\ IF InHand THEN Lossy ELSE UNCHANGED health
       ELSE UNCHANGED <<oidVars, health>>
    /\ UNCHANGED <<qmi, ndisVars, caller, queueVars, limitVars, sends,
                   usbVars, process, worker, resetting, faults>>

MPOID_CancelAllPendingOids ==
    /\ Dpc("cancel", "wait")
    /\ Abort(OidRequestList)
    /\ UNCHANGED <<qmi, oidVars, caller, queueVars, limitVars, sends,
                   usbVars, process, worker, resetting, lossVars>>

(* The next tick, RST_STATE_COMPLETE, only tells NDIS. *)
ResetQueuesEmpty ==
    /\ Dpc("empty", "none")
    /\ Abort(OidRequestList)
    /\ resetting' = FALSE
    /\ UNCHANGED <<qmi, oidVars, caller, queueVars, limitVars, sends,
                   usbVars, process, worker, lossVars>>

(* For a reset that waited in vain: the counters are zeroed whoever holds  *)
(* something, the requests are not completed.  The model ends here, so     *)
(* that the three critical sections are one step. *)
MPMAIN_CleanupQueues ==
    /\ Dpc("timeout", "none")
    /\ IF nBusyRCtrl > 0
       THEN /\ reads' = [reads EXCEPT !.pending = 0,
                !.free = @ + reads.pending + Len(CtrlReadCompleteList)]
            /\ CtrlReadCompleteList' = << >>
            /\ nBusyRCtrl' = 0
       ELSE UNCHANGED <<reads, CtrlReadCompleteList, nBusyRCtrl>>
    /\ IF nBusyWrite > 0
       THEN DropWrites /\ nBusyWrite' = 0
       ELSE UNCHANGED <<queueVars, limitVars>>
    /\ IF nBusyOID > 0
       THEN DropOids /\ nBusyOID' = 0
       ELSE UNCHANGED oidVars
    /\ resetting' = FALSE
    /\ health' = "over"
    /\ UNCHANGED <<qmi, ndisVars, caller, sends, atModem, process, worker,
                   faults>>

-----------------------------------------------------------------------------
WorkThread ==
    \/ MPWork_WorkThread
    \/ MPWork_PostControlReads \/ MP_USBPostControlRead \/ ReadsPosted
    \/ MPWork_PostWriteRequests \/ WritesEnd
    \/ MP_USBSendControlRequest \/ WriteDone
    \/ MPWork_ResolveRequests \/ ResolveEnds
    \/ MPQMI_ProcessInboundQMUX \/ MPQMI_FindRequest \/ NoRequest
    \/ MPQMUX_ComposeQMUXReq
    \/ MPQMI_ProcessInboundQWDSResponse \/ MPOID_CompleteOid \/ FreeOid
    \/ ReadIsFree

Reset ==
    \/ StartCleanup \/ WaitForEmpty
    \/ CleanupWrites \/ CleanupOids \/ MPOID_CancelAllPendingOids
    \/ ResetQueuesEmpty \/ MPMAIN_CleanupQueues

Usb == (\E m \in atModem : Answer(m)) \/ CancelRead \/ Purge

Submit == SubmitOid \/ SubmitFails \/ SubmitReturns

(* What a broken list does is not defined, and after a reset that timed    *)
(* out the counters are wrong for good: the model ends there.              *)
Next ==
    /\ health # "over"
    /\ \/ \E s \in Services, async \in BOOLEAN, a \in Requests :
             TakeOid(s, async, a)
       \/ Submit
       \/ \E r \in Requests : MPOID_MiniportCancelOidRequest(r)
       \/ \E s \in Services : MP_USBSendControl(s)
       \/ MPMAIN_InitializeQMI \/ MPMAIN_MoveQMIRequests
       \/ WorkThread \/ Usb
       \/ MPMAIN_MiniportReset \/ Reset

Spec == Init /\ [][Next]_vars

(* The scheduler runs the work thread, the thread of NDIS that has an OID, *)
(* the DPC and the USB layer; a modem answers every message.               *)
FairSpec ==
    /\ Spec
    /\ WF_vars(health # "over" /\ WorkThread)
    /\ WF_vars(health # "over" /\ Submit)
    /\ WF_vars(health # "over" /\ Reset)
    /\ WF_vars(health # "over" /\ Usb)
-----------------------------------------------------------------------------
(***************************************************************************)
(* Properties.                                                             *)
(***************************************************************************)

(* A request is completed with the answer to a message of its own.  The    *)
(* driver compares the addresses of the requests (MPOID.c:581): the late   *)
(* answer of a request that has ended without it, as it was cancelled or   *)
(* got the answer of another, completes the one that has its address.      *)
EndedWithout(q) ==
    \/ ndis[q].state = "aborted"
    \/ ndis[q].state = "answered" /\ ndis[q].by # q

OwnAnswer ==
    health = "sound" =>
        \A r \in Requests :
            ndis[r].state = "answered" =>
                LET q == ndis[r].by
                IN  \/ q = r
                    \/ /\ q \in Requests /\ EndedWithout(q)
                       /\ ndis[q].addr = ndis[r].addr

(* The modem never owes a service more answers than MaxPendingQMIReqs,     *)
(* except for those that were under way when a reset zeroed the count      *)
(* (MPMain.c:1030): they raise the limit by their number.                  *)
LimitKept ==
    \A s \in Services :
        Cardinality(Outstanding(s)) <= MaxPendingQMIReqs + forgot[s]

(* The counters a reset waits for, which are changed under three locks and *)
(* by three parties, are the numbers of the elements that are out.         *)
CountsAgree ==
    health = "sound" =>
        /\ nBusyOID = Cardinality(Oids) - Len(OIDFreeList)
                        + (IF caller.pc = "failed" THEN 1 ELSE 0)
        /\ nBusyWrite = Len(CtrlWriteList) + Len(CtrlWritePendingList)
                          + (IF worker.pc \in {"send", "sent"} THEN 1 ELSE 0)
        /\ nBusyRCtrl = reads.pending + Len(CtrlReadCompleteList)
                          + (IF worker.pc \in {"inbound", "find", "process",
                                    "unlink", "complete", "free", "repost"}
                             THEN 1 ELSE 0)

(* NDIS gets an end for the request that pends: an answer, or a reset.     *)
(* QMI has to be up, and no message may stay among those that wait for a   *)
(* client ID: one composed before the IDs were known (MPQMUX.c:3982) and   *)
(* queued after MPMAIN_MoveQMIRequests stays there.  NDIS makes the next   *)
(* request only when none pends. *)
Pending == \E r \in Requests : ndis[r].state = "pending"

RequestEnds ==
    Pending ~> \/ ~Pending \/ health # "sound"
               \/ qmi # "up" \/ CtrlWritePendingList # << >>
=============================================================================
