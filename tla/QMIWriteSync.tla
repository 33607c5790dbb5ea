---------------------------- MODULE QMIWriteSync ----------------------------
(***************************************************************************)
(* Synchronous writes to the QMI control channel: WriteSync,               *)
(* WriteSyncCallback and the URB lists of the clients,                     *)
(* src/src/linux/qcom_usbnet/qmidevice.c.                                  *)
(*                                                                         *)
(* WriteSync puts its URB at the tail of the client's mURBList, submits    *)
(* it, sleeps on a semaphore of its own stack until the URB completes, and *)
(* takes an URB off the HEAD of the list, which it expects to be its own.  *)
(* ReleaseClientID pops the URBs that are still on the list, and kills and *)
(* frees each, with mClientMemLock free in between.  All requests for      *)
(* client IDs share one list, that of QMICTL; nothing keeps two threads    *)
(* from writing to one file, and so to one list, either.                   *)
(***************************************************************************)
EXTENDS Naturals, Sequences, FiniteSets, SequencesExt

CONSTANTS
    Writers,     \* threads that call WriteSync
    Clients,     \* clients of one sQMIDev
    ClientOf,    \* ClientOf[w]: the client writer w writes for
    MaxURBs,     \* bound: calls of WriteSync, each allocates one URB
    Releases,    \* TRUE: clients are released meanwhile
    Timeouts     \* TRUE: down_timeout may expire

ASSUME WritersAssumption ==
    /\ ClientOf \in [Writers -> Clients]
    /\ MaxURBs \in Nat
    /\ Releases \in BOOLEAN /\ Timeouts \in BOOLEAN

VARIABLES
    mbQMIValid,  \* sGobiUSBNet.mbQMIValid
    listed,      \* listed[c]: c is on mClientMemList
    mURBList,    \* mURBList[c]: sClientMemList.mURBList
    urb,         \* urb[u]: how far URB u has come
    freed,       \* freed[u]: how often usb_free_urb was called for u
    writeSem,    \* writeSem[u]: semaphore of the call that allocated URB u
    allocated,   \* URBs allocated so far; numbers the next one
    call,        \* call[w]: position, URB and result of writer w's call
    rel,         \* rel[c]: position and URB of ReleaseClientID for c
    owner        \* owner[u]: whose URB u is; history, for the properties

vars == <<mbQMIValid, listed, mURBList, urb, freed, writeSem, allocated, call,
          rel, owner>>
clientVars == <<mbQMIValid, listed>>
newURBVars == <<allocated, owner>>

URBs == 1..MaxURBs
NoURB == 0
URBStates == {"unallocated", "unfilled", "ready", "submitted", "complete"}
Positions == {"idle", "add", "submit", "unsubmitted", "wait", "check", "pop",
              "readd", "kill", "free"}
RelPositions == {"idle", "pop", "kill", "free", "del", "done"}
Idle == [pc |-> "idle", urb |-> NoURB, timedOut |-> FALSE]
NoRelease == [pc |-> "idle", urb |-> NoURB]

(* The call that allocated u, and with it its writeSem, still exists. *)
InScope(u) == \E w \in Writers : call[w].urb = u

(* usb_free_urb gives one reference back; usbcore has one of its own while *)
(* u is in flight. *)
Free(u) == freed' = [freed EXCEPT ![u] = @ + 1]

(* The end of u in flight: WriteSyncCallback ups the semaphore that the    *)
(* context of the URB names. *)
Complete(u) ==
    /\ urb' = [urb EXCEPT ![u] = "complete"]
    /\ writeSem' = [writeSem EXCEPT ![u] = IF InScope(u) THEN @ + 1 ELSE @]

(* usb_kill_urb waits for the completion of an URB in flight. *)
Kill(u) ==
    IF urb[u] = "submitted" THEN Complete(u) ELSE UNCHANGED <<urb, writeSem>>

(* The client an access under mClientMemLock finds. *)
Found(c) == mbQMIValid /\ listed[c]

At(w, p) == call[w].pc = p
Goto(w, p) == call' = [call EXCEPT ![w].pc = p]
Return(w) == call' = [call EXCEPT ![w] = Idle]

Init ==
    /\ mbQMIValid = TRUE
    /\ listed = [c \in Clients |-> TRUE]
    /\ mURBList = [c \in Clients |-> << >>]
    /\ urb = [u \in URBs |-> "unallocated"]
    /\ freed = [u \in URBs |-> 0]
    /\ writeSem = [u \in URBs |-> 0]
    /\ allocated = 0
    /\ call = [w \in Writers |-> Idle]
    /\ rel = [c \in Clients |-> NoRelease]
    /\ owner = [u \in URBs |-> {}]

-----------------------------------------------------------------------------
(***************************************************************************)
(* WriteSync.                                                              *)
(***************************************************************************)

(* The URB is allocated, filled, and goes on to the list; or FillQMUX or   *)
(* the wake-up of the device fails and it is freed; or the setup packet    *)
(* cannot be allocated, and the call returns with the URB as it is. *)
WriteSync(w) ==
    /\ At(w, "idle")
    /\ mbQMIValid
    /\ allocated < MaxURBs
    /\ allocated' = allocated + 1
    /\ owner' = [owner EXCEPT ![allocated + 1] = {ClientOf[w]}]
    /\ \/ /\ urb' = [urb EXCEPT ![allocated + 1] = "ready"]
          /\ call' = [call EXCEPT ![w] = [pc |-> "add", urb |-> allocated + 1,
                                          timedOut |-> FALSE]]
          /\ UNCHANGED freed
       \/ /\ urb' = [urb EXCEPT ![allocated + 1] = "ready"]
          /\ Free(allocated + 1)
          /\ UNCHANGED call
       \/ /\ urb' = [urb EXCEPT ![allocated + 1] = "unfilled"]
          /\ UNCHANGED <<freed, call>>
    /\ UNCHANGED <<clientVars, mURBList, writeSem, rel>>

(* AddToURBList, or -EINVAL. *)
AddToURBList(w) ==
    /\ At(w, "add")
    /\ LET c == ClientOf[w]  u == call[w].urb IN
       IF Found(c)
       THEN /\ mURBList' = [mURBList EXCEPT ![c] = Append(@, u)]
            /\ Goto(w, "submit")
            /\ UNCHANGED freed
       ELSE /\ Free(u)
            /\ Return(w)
            /\ UNCHANGED mURBList
    /\ UNCHANGED <<clientVars, urb, writeSem, newURBVars, rel>>

(* usb_submit_urb accepts the URB or returns an error; it may be one that  *)
(* a release has killed, or freed, meanwhile. *)
Submit(w) ==
    /\ At(w, "submit")
    /\ \/ /\ urb' = [urb EXCEPT ![call[w].urb] = "submitted"]
          /\ Goto(w, "wait")
       \/ /\ Goto(w, "unsubmitted")
          /\ UNCHANGED urb
    /\ UNCHANGED <<clientVars, mURBList, freed, writeSem, newURBVars, rel>>

(* PopFromURBList: the head of the list, NoURB if there is none. *)
HeadURB(c) ==
    IF Found(c) /\ mURBList[c] # << >> THEN Head(mURBList[c]) ELSE NoURB

TailURBs(c) ==
    IF Found(c) /\ mURBList[c] # << >> THEN Tail(mURBList[c]) ELSE mURBList[c]

PopHead(c) == mURBList' = [mURBList EXCEPT ![c] = TailURBs(c)]

ReturnUnsubmitted(w) ==  \* variant: the URB stays on the list
    /\ At(w, "unsubmitted")
    /\ Return(w)
    /\ UNCHANGED <<clientVars, mURBList, urb, freed, writeSem, newURBVars, rel>>

PopAndForget(w) ==  \* variant: the popped URB is not freed
    /\ At(w, "unsubmitted")
    /\ PopHead(ClientOf[w])
    /\ Return(w)
    /\ UNCHANGED <<clientVars, urb, freed, writeSem, newURBVars, rel>>

(* After a failed submission: the URB is freed if it is the one popped. *)
PopUnsubmitted(w) ==
    /\ At(w, "unsubmitted")
    /\ PopHead(ClientOf[w])
    /\ IF HeadURB(ClientOf[w]) = call[w].urb THEN Goto(w, "free") ELSE Return(w)
    /\ UNCHANGED <<clientVars, urb, freed, writeSem, newURBVars, rel>>

DownForever(w) ==  \* variant: down() instead of down_timeout()
    /\ At(w, "wait")
    /\ writeSem[call[w].urb] > 0
    /\ writeSem' = [writeSem EXCEPT ![call[w].urb] = @ - 1]
    /\ Goto(w, "check")
    /\ UNCHANGED <<clientVars, mURBList, urb, freed, newURBVars, rel>>

(* down_timeout returns, with the semaphore or without it. *)
Down(w) ==
    /\ At(w, "wait")
    /\ \/ /\ writeSem[call[w].urb] > 0
          /\ writeSem' = [writeSem EXCEPT ![call[w].urb] = @ - 1]
          /\ Goto(w, "check")
       \/ /\ Timeouts
          /\ writeSem[call[w].urb] = 0
          /\ call' = [call EXCEPT ![w].pc = "check", ![w].timedOut = TRUE]
          /\ UNCHANGED writeSem
    /\ UNCHANGED <<clientVars, mURBList, urb, freed, newURBVars, rel>>

CheckTimedOut(w) ==  \* variant: a timed-out call returns at once
    /\ At(w, "check")
    /\ IF mbQMIValid /\ ~call[w].timedOut THEN Goto(w, "pop") ELSE Return(w)
    /\ UNCHANGED <<clientVars, mURBList, urb, freed, writeSem, newURBVars, rel>>

(* IsDeviceValid, or -ENXIO with the URB left as it is. *)
CheckValid(w) ==
    /\ At(w, "check")
    /\ IF mbQMIValid THEN Goto(w, "pop") ELSE Return(w)
    /\ UNCHANGED <<clientVars, mURBList, urb, freed, writeSem, newURBVars, rel>>

PopUnkilled(w) ==  \* variant: usb_kill_urb forgotten
    /\ At(w, "pop")
    /\ PopHead(ClientOf[w])
    /\ Goto(w, IF HeadURB(ClientOf[w]) = call[w].urb THEN "free" ELSE "readd")
    /\ UNCHANGED <<clientVars, urb, freed, writeSem, newURBVars, rel>>

(* PopFromURBList, compared with the own URB; one that has not finished is *)
(* killed before it is freed. *)
PopFromURBList(w) ==
    /\ At(w, "pop")
    /\ PopHead(ClientOf[w])
    /\ Goto(w, IF HeadURB(ClientOf[w]) # call[w].urb THEN "readd"
               ELSE IF call[w].timedOut THEN "kill" ELSE "free")
    /\ UNCHANGED <<clientVars, urb, freed, writeSem, newURBVars, rel>>

(* "This shouldn't happen": the own URB is added again; -EINVAL. *)
ReAdd(w) ==
    /\ At(w, "readd")
    /\ LET c == ClientOf[w] IN
       mURBList' = IF Found(c)
                   THEN [mURBList EXCEPT ![c] = Append(@, call[w].urb)]
                   ELSE mURBList
    /\ Return(w)
    /\ UNCHANGED <<clientVars, urb, freed, writeSem, newURBVars, rel>>

KillURB(w) ==
    /\ At(w, "kill")
    /\ Kill(call[w].urb)
    /\ Goto(w, "free")
    /\ UNCHANGED <<clientVars, mURBList, freed, newURBVars, rel>>

FreeURB(w) ==
    /\ At(w, "free")
    /\ Free(call[w].urb)
    /\ Return(w)
    /\ UNCHANGED <<clientVars, mURBList, urb, writeSem, newURBVars, rel>>

-----------------------------------------------------------------------------
WriteSyncCallback(u) ==
    /\ urb[u] = "submitted"
    /\ Complete(u)
    /\ UNCHANGED <<clientVars, mURBList, freed, newURBVars, call, rel>>

(***************************************************************************)
(* ReleaseClientID, after the waiters of the client have been notified:    *)
(* pop, usb_kill_urb and usb_free_urb, until the list is empty, then       *)
(* list_del and kfree of the client.                                       *)
(***************************************************************************)
RelGoto(c, p, u) == rel' = [rel EXCEPT ![c] = [pc |-> p, urb |-> u]]

ReleaseClientID(c) ==
    /\ Releases
    /\ rel[c].pc = "idle"
    /\ Found(c)
    /\ RelGoto(c, "pop", NoURB)
    /\ UNCHANGED <<clientVars, mURBList, urb, freed, writeSem, newURBVars, call>>

ReleasePop(c) ==
    /\ rel[c].pc = "pop"
    /\ PopHead(c)
    /\ RelGoto(c, IF HeadURB(c) = NoURB THEN "del" ELSE "kill", HeadURB(c))
    /\ UNCHANGED <<clientVars, urb, freed, writeSem, newURBVars, call>>

ReleaseKill(c) ==
    /\ rel[c].pc = "kill"
    /\ Kill(rel[c].urb)
    /\ RelGoto(c, "free", rel[c].urb)
    /\ UNCHANGED <<clientVars, mURBList, freed, newURBVars, call>>

ReleaseFree(c) ==
    /\ rel[c].pc = "free"
    /\ Free(rel[c].urb)
    /\ RelGoto(c, "pop", NoURB)
    /\ UNCHANGED <<clientVars, mURBList, urb, writeSem, newURBVars, call>>

ReleaseDelete(c) ==
    /\ rel[c].pc = "del"
    /\ listed' = [listed EXCEPT ![c] = FALSE]
    /\ mURBList' = [mURBList EXCEPT ![c] = << >>]
    /\ RelGoto(c, "done", NoURB)
    /\ UNCHANGED <<mbQMIValid, urb, freed, writeSem, newURBVars, call>>

(* DeregisterQMIDevice, once all clients are released. *)
Invalidate ==
    /\ mbQMIValid
    /\ \A c \in Clients : ~listed[c]
    /\ mbQMIValid' = FALSE
    /\ UNCHANGED <<listed, mURBList, urb, freed, writeSem, newURBVars, call, rel>>

-----------------------------------------------------------------------------
Continue(w) ==
    \/ AddToURBList(w) \/ Submit(w) \/ PopUnsubmitted(w) \/ Down(w)
    \/ CheckValid(w) \/ PopFromURBList(w) \/ ReAdd(w) \/ KillURB(w)
    \/ FreeURB(w)

Release(c) ==
    \/ ReleaseClientID(c) \/ ReleasePop(c) \/ ReleaseKill(c) \/ ReleaseFree(c)
    \/ ReleaseDelete(c)

Next ==
    \/ \E w \in Writers : WriteSync(w) \/ Continue(w)
    \/ \E u \in URBs : WriteSyncCallback(u)
    \/ \E c \in Clients : Release(c)
    \/ Invalidate

Spec == Init /\ [][Next]_vars

(* A call that can proceed is scheduled; down_timeout expires. *)
FairSpec == Spec /\ \A w \in Writers : WF_vars(Continue(w))
-----------------------------------------------------------------------------
(***************************************************************************)
(* Properties.                                                             *)
(***************************************************************************)

(* One thread writes for c, and c is not being released.  This can be said *)
(* of one client while others, like QMICTL, are shared or released. *)
Private(c) ==
    /\ \A v, w \in Writers : ClientOf[v] = c /\ ClientOf[w] = c => v = w
    /\ rel[c].pc = "idle"

IsPrivate(u) == \A c \in owner[u] : Private(c)

PopsNow(w) == call[w].pc \in {"pop", "unsubmitted"}

(* The comment on a popped URB that is not the own one, "This shouldn't    *)
(* happen" (WriteSync): the head of the list is the URB of the call that   *)
(* pops it, for a client with one writer, through failed submissions and   *)
(* time-outs, whatever happens to other clients.  It does happen when two  *)
(* threads write for one client, as they do for QMICTL. *)
PopsOwnURB ==
    \A w \in Writers :
        PopsNow(w) /\ Private(ClientOf[w])
            => HeadURB(ClientOf[w]) = call[w].urb

(* For such a client WriteSyncCallback only ever finds a semaphore of a    *)
(* call that has not returned: a timed-out call kills its URB first. *)
SemaphoreInScope ==
    \A u \in URBs : urb[u] = "submitted" /\ IsPrivate(u) => InScope(u)

(* The URB that is lost is the one whose setup packet could not be         *)
(* allocated; every other URB of such a client is freed by the time its    *)
(* call has returned. *)
NoURBLost ==
    \A u \in 1..allocated :
        freed[u] = 0 /\ IsPrivate(u) => (InScope(u) <=> urb[u] # "unfilled")

(* An URB that WriteSync frees is not in flight, and nobody has freed it:  *)
(* whoever shares the list, the call and a release do not both take an URB *)
(* off it, and the call that timed out waits for its URB. *)
FreedAtRest ==
    \A w \in Writers :
        At(w, "free") => /\ urb[call[w].urb] # "submitted"
                         /\ freed[call[w].urb] = 0

(* The comment "Kill and free all URB's" (ReleaseClientID): an URB that    *)
(* has been freed is not in flight.  A call may submit its URB between the *)
(* kill and the free of a release, or after it. *)
InFlightNotFreed == \A u \in URBs : urb[u] = "submitted" => freed[u] = 0

(* A call of WriteSync returns, though its URB may never complete. *)
WriteSyncReturns == \A w \in Writers : At(w, "add") ~> At(w, "idle")
=============================================================================
