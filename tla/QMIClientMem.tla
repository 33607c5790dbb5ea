---------------------------- MODULE QMIClientMem ----------------------------
(***************************************************************************)
(* The data store of one QMI client (struct sClientMemList) of the Linux   *)
(* network driver, src/src/linux/qcom_usbnet/qmidevice.c.                  *)
(*                                                                         *)
(* ReadCallback, the completion of the read URB, appends each response to  *)
(* the client's mList and notifies the first matching entry of its         *)
(* mReadNotifyList.  Threads in ReadSync and ReadSyncTimeout take          *)
(* responses out of mList, and sleep on a semaphore of their own stack     *)
(* while none matches.  ReleaseClientID notifies all sleepers, empties the *)
(* lists and frees the client.                                             *)
(*                                                                         *)
(* Each critical section of mClientMemLock is one step; everything done    *)
(* between two critical sections is a step of its own.                     *)
(***************************************************************************)
EXTENDS Naturals, Sequences, FiniteSets, SequencesExt

CONSTANTS
    Readers,       \* threads that call ReadSync or ReadSyncTimeout
    RequestIds,    \* transaction IDs callers ask for; 0 is "any"
    ResponseIds,   \* transaction IDs of the messages the device sends
    MaxResponses,  \* bound: responses the device sends
    Interrupts,    \* TRUE: a sleep may end by a signal or a timeout
    NONE           \* no thread, no response, no transaction ID

TxIds == RequestIds \cup ResponseIds

ASSUME ReadersAssumption == Readers # {} /\ NONE \notin Readers
ASSUME TxIdsAssumption ==
    TxIds \subseteq Nat /\ 0 \in TxIds /\ NONE \notin TxIds
ASSUME MaxResponsesAssumption == MaxResponses \in Nat
ASSUME InterruptsAssumption == Interrupts \in BOOLEAN

VARIABLES
    mbQMIValid,       \* sGobiUSBNet.mbQMIValid
    listed,           \* the client is on mClientMemList
    mList,            \* sClientMemList.mList: responses not taken yet
    mReadNotifyList,  \* sClientMemList.mReadNotifyList: the waiters
    arrived,          \* responses received so far; numbers the next one
    pc,               \* pc[r]: where reader r is in ReadSync
    tx,               \* tx[r]: the transactionID argument of r's call
    readSem,          \* readSem[r]: count of the semaphore on r's stack
    got,              \* got[r]: the response r's last call returned, or NONE
    cb,               \* ReadCallback: its position, its response, its waiter
    rel               \* ReleaseClientID: its position and its waiter

readerVars == <<pc, tx, readSem, got>>
storeVars  == <<mbQMIValid, listed, mList, mReadNotifyList>>
vars == <<storeVars, arrived, readerVars, cb, rel>>

Responses == [id : 1..MaxResponses, tx : TxIds]
Entries   == [tx : TxIds, who : Readers]
Slots     == [pc : {"idle", "add", "notify", "call"},
              msg : Responses \cup {NONE}, who : Readers \cup {NONE}]

(* A thread is inside ReadSync, so that its semaphore exists. *)
InCall(r) == pc[r] # "idle"

(***************************************************************************)
(* Matching of transaction IDs.  A request for 0 takes any response.       *)
(***************************************************************************)
TakesAny(t, msg) == TRUE  \* variant: no second look at the ID

Takes(t, msg) == t = 0 \/ t = msg.tx

(* NotifyAndPopNotifyList: 0 on either side matches. *)
Wakes(t, entry) == t = 0 \/ entry.tx = 0 \/ t = entry.tx

(* Positions of the first element of a list that the code selects. *)
FirstTaken(t) ==
    {i \in 1..Len(mList) :
        /\ Takes(t, mList[i])
        /\ \A j \in 1..(i - 1) : ~Takes(t, mList[j])}

FirstWoken(t) ==
    {i \in 1..Len(mReadNotifyList) :
        /\ Wakes(t, mReadNotifyList[i])
        /\ \A j \in 1..(i - 1) : ~Wakes(t, mReadNotifyList[j])}

-----------------------------------------------------------------------------
Init ==
    /\ mbQMIValid = TRUE
    /\ listed = TRUE
    /\ mList = << >>
    /\ mReadNotifyList = << >>
    /\ arrived = 0
    /\ pc = [r \in Readers |-> "idle"]
    /\ tx = [r \in Readers |-> 0]
    /\ readSem = [r \in Readers |-> 0]
    /\ got = [r \in Readers |-> NONE]
    /\ cb = [pc |-> "idle", msg |-> NONE, who |-> NONE]
    /\ rel = [pc |-> "idle", who |-> NONE]

-----------------------------------------------------------------------------
(***************************************************************************)
(* UpSem: does nothing once the device is invalid.  up() on the semaphore  *)
(* of a call that has returned writes to a dead stack frame; no outcome of *)
(* it is modelled, NoDanglingUp says that it must not happen.              *)
(***************************************************************************)
UpSem(r) ==
    readSem' = IF mbQMIValid /\ InCall(r)
               THEN [readSem EXCEPT ![r] = @ + 1]
               ELSE readSem

NotifyAndPopHead(t, i) ==  \* variant: unlinks the head, not the match
    /\ mbQMIValid /\ listed
    /\ i \in FirstWoken(t)
    /\ mReadNotifyList' = RemoveAt(mReadNotifyList, 1)

(* What a notifier does under the lock: unlink the first matching entry. *)
NotifyAndPop(t, i) ==
    /\ mbQMIValid /\ listed
    /\ i \in FirstWoken(t)
    /\ mReadNotifyList' = RemoveAt(mReadNotifyList, i)

NothingToNotify(t) == ~mbQMIValid \/ ~listed \/ FirstWoken(t) = {}

-----------------------------------------------------------------------------
(***************************************************************************)
(* ReadSync and ReadSyncTimeout.                                           *)
(***************************************************************************)

(* The call of r returns; its arguments and its semaphore are gone. *)
Return(r) ==
    /\ pc' = [pc EXCEPT ![r] = "idle"]
    /\ tx' = [tx EXCEPT ![r] = 0]
    /\ readSem' = [readSem EXCEPT ![r] = 0]

(* The entry checks: the device is valid and FindClientMem finds the       *)
(* client.                                                                 *)
ReadSync(r, t) ==
    /\ pc[r] = "idle"
    /\ mbQMIValid /\ listed
    /\ pc' = [pc EXCEPT ![r] = "pop"]
    /\ tx' = [tx EXCEPT ![r] = t]
    /\ got' = [got EXCEPT ![r] = NONE]
    /\ UNCHANGED <<storeVars, arrived, readSem, cb, rel>>

(* PopFromReadMemList finds a response: the call returns it. *)
PopFromReadMemList(r, i) ==
    /\ pc[r] = "pop"
    /\ mbQMIValid /\ listed
    /\ i \in FirstTaken(tx[r])
    /\ mList' = RemoveAt(mList, i)
    /\ got' = [got EXCEPT ![r] = mList[i]]
    /\ Return(r)
    /\ UNCHANGED <<mbQMIValid, listed, mReadNotifyList, arrived, cb, rel>>

(* PopFromReadMemList finds nothing: sema_init, and on to AddToNotifyList. *)
PopNothing(r) ==
    /\ pc[r] = "pop"
    /\ ~mbQMIValid \/ ~listed \/ FirstTaken(tx[r]) = {}
    /\ readSem' = [readSem EXCEPT ![r] = 0]
    /\ pc' = [pc EXCEPT ![r] = "add"]
    /\ UNCHANGED <<storeVars, arrived, tx, got, cb, rel>>

(* AddToNotifyList succeeds and the thread sleeps, or fails: -EFAULT. *)
AddToNotifyList(r) ==
    /\ pc[r] = "add"
    /\ IF mbQMIValid /\ listed
       THEN /\ mReadNotifyList' =
                 Append(mReadNotifyList, [tx |-> tx[r], who |-> r])
            /\ pc' = [pc EXCEPT ![r] = "wait"]
            /\ UNCHANGED <<tx, readSem>>
       ELSE /\ Return(r)
            /\ UNCHANGED mReadNotifyList
    /\ UNCHANGED <<mbQMIValid, listed, mList, arrived, got, cb, rel>>

(* down_interruptible or down_timeout returns 0. *)
Down(r) ==
    /\ pc[r] = "wait"
    /\ readSem[r] > 0
    /\ readSem' = [readSem EXCEPT ![r] = @ - 1]
    /\ pc' = [pc EXCEPT ![r] = "check"]
    /\ UNCHANGED <<storeVars, arrived, tx, got, cb, rel>>

(* IsDeviceValid after the sleep: read again, or -ENXIO. *)
Recheck(r) ==
    /\ pc[r] = "check"
    /\ IF mbQMIValid
       THEN /\ pc' = [pc EXCEPT ![r] = "pop"]
            /\ UNCHANGED <<tx, readSem>>
       ELSE Return(r)
    /\ UNCHANGED <<storeVars, arrived, got, cb, rel>>

(* The sleep ends by a signal or a timeout. *)
Interrupted(r) ==
    /\ Interrupts
    /\ pc[r] = "wait"
    /\ readSem[r] = 0
    /\ pc' = [pc EXCEPT ![r] = "remove"]
    /\ UNCHANGED <<storeVars, arrived, tx, readSem, got, cb, rel>>

OwnEntries(r) ==
    {i \in 1..Len(mReadNotifyList) :
        /\ mReadNotifyList[i].who = r
        /\ \A j \in 1..(i - 1) : mReadNotifyList[j].who # r}

RemoveOwnEntryRetries(r) ==  \* variant: reads again after a timeout
    /\ pc[r] = "remove"
    /\ \/ \E i \in OwnEntries(r) :
             mReadNotifyList' = RemoveAt(mReadNotifyList, i)
       \/ /\ OwnEntries(r) = {}
          /\ UNCHANGED mReadNotifyList
    /\ pc' = [pc EXCEPT ![r] = "pop"]
    /\ UNCHANGED <<mbQMIValid, listed, mList, arrived, tx, readSem, got, cb,
                   rel>>

(* Unlink the own entry, if it is still there; -EINTR or -ETIME. *)
RemoveOwnEntry(r) ==
    /\ pc[r] = "remove"
    /\ \/ \E i \in OwnEntries(r) :
             mReadNotifyList' = RemoveAt(mReadNotifyList, i)
       \/ /\ OwnEntries(r) = {}
          /\ UNCHANGED mReadNotifyList
    /\ Return(r)
    /\ UNCHANGED <<mbQMIValid, listed, mList, arrived, got, cb, rel>>

-----------------------------------------------------------------------------
(***************************************************************************)
(* ReadCallback, for the one client a response is addressed to.  The read  *)
(* URB is submitted again only when the callback has returned, so it never *)
(* runs twice at a time.                                                   *)
(***************************************************************************)
Idle == [pc |-> "idle", msg |-> NONE, who |-> NONE]

ReadCallback(t) ==
    /\ cb.pc = "idle"
    /\ mbQMIValid
    /\ arrived < MaxResponses
    /\ arrived' = arrived + 1
    /\ cb' = [pc |-> "add", msg |-> [id |-> arrived + 1, tx |-> t],
              who |-> NONE]
    /\ UNCHANGED <<storeVars, readerVars, rel>>

(* AddToReadMemList; a failure drops the response and ends the callback. *)
AddToReadMemList ==
    /\ cb.pc = "add"
    /\ IF mbQMIValid /\ listed
       THEN /\ mList' = Append(mList, cb.msg)
            /\ cb' = [cb EXCEPT !.pc = "notify"]
       ELSE /\ cb' = Idle
            /\ UNCHANGED mList
    /\ UNCHANGED <<mbQMIValid, listed, mReadNotifyList, arrived, readerVars,
                   rel>>

(* NotifyAndPopNotifyList up to the unlock. *)
CallbackNotify ==
    /\ cb.pc = "notify"
    /\ \/ \E i \in 1..Len(mReadNotifyList) :
             /\ NotifyAndPop(cb.msg.tx, i)
             /\ cb' = [cb EXCEPT !.pc = "call", !.who = mReadNotifyList[i].who]
       \/ /\ NothingToNotify(cb.msg.tx)
          /\ cb' = Idle
          /\ UNCHANGED mReadNotifyList
    /\ UNCHANGED <<mbQMIValid, listed, mList, arrived, readerVars, rel>>

(* notifyFunct(), after the unlock. *)
CallbackUp ==
    /\ cb.pc = "call"
    /\ UpSem(cb.who)
    /\ cb' = Idle
    /\ UNCHANGED <<storeVars, arrived, pc, tx, got, rel>>

-----------------------------------------------------------------------------
(***************************************************************************)
(* ReleaseClientID, from the cleanup of the client's memory on.  The URB   *)
(* list it also empties is modelled in QMIWriteSync.                       *)
(***************************************************************************)
ReleaseClientID ==
    /\ rel.pc = "idle"
    /\ mbQMIValid /\ listed
    /\ rel' = [rel EXCEPT !.pc = "notify"]
    /\ UNCHANGED <<storeVars, arrived, readerVars, cb>>

(* while (NotifyAndPopNotifyList(0) == true) *)
ReleaseNotify ==
    /\ rel.pc = "notify"
    /\ \/ \E i \in 1..Len(mReadNotifyList) :
             /\ NotifyAndPop(0, i)
             /\ rel' = [pc |-> "call", who |-> mReadNotifyList[i].who]
       \/ /\ NothingToNotify(0)
          /\ rel' = [rel EXCEPT !.pc = "drain"]
          /\ UNCHANGED mReadNotifyList
    /\ UNCHANGED <<mbQMIValid, listed, mList, arrived, readerVars, cb>>

ReleaseUp ==
    /\ rel.pc = "call"
    /\ UpSem(rel.who)
    /\ rel' = [pc |-> "notify", who |-> NONE]
    /\ UNCHANGED <<storeVars, arrived, pc, tx, got, cb>>

(* while (PopFromReadMemList(0) == true) *)
ReleaseDrain ==
    /\ rel.pc = "drain"
    /\ IF mbQMIValid /\ mList # << >>
       THEN /\ mList' = Tail(mList)
            /\ UNCHANGED rel
       ELSE /\ rel' = [rel EXCEPT !.pc = "del"]
            /\ UNCHANGED mList
    /\ UNCHANGED <<mbQMIValid, listed, mReadNotifyList, arrived, readerVars,
                   cb>>

(* list_del and kfree of the client; what is still on its lists is lost. *)
ReleaseDelete ==
    /\ rel.pc = "del"
    /\ listed' = FALSE
    /\ mList' = << >>
    /\ mReadNotifyList' = << >>
    /\ rel' = [rel EXCEPT !.pc = "done"]
    /\ UNCHANGED <<mbQMIValid, arrived, readerVars, cb>>

(* DeregisterQMIDevice: after the release of all clients. *)
Invalidate ==
    /\ rel.pc = "done"
    /\ mbQMIValid
    /\ mbQMIValid' = FALSE
    /\ UNCHANGED <<listed, mList, mReadNotifyList, arrived, readerVars, cb,
                   rel>>

-----------------------------------------------------------------------------
Callback == AddToReadMemList \/ CallbackNotify \/ CallbackUp
Release  == ReleaseNotify \/ ReleaseUp \/ ReleaseDrain \/ ReleaseDelete

(* The steps a call of ReadSync takes once it has started. *)
Continue(r) ==
    \/ \E i \in 1..Len(mList) : PopFromReadMemList(r, i)
    \/ PopNothing(r)
    \/ AddToNotifyList(r)
    \/ Down(r)
    \/ Recheck(r)
    \/ RemoveOwnEntry(r)

Next ==
    \/ \E r \in Readers : (\E t \in RequestIds : ReadSync(r, t))
                          \/ Continue(r) \/ Interrupted(r)
    \/ \E t \in ResponseIds : ReadCallback(t)
    \/ Callback
    \/ ReleaseClientID \/ Release
    \/ Invalidate

Spec == Init /\ [][Next]_vars

(* A thread in a call is scheduled again, and a time-out that is set       *)
(* expires (down_timeout, use_down_timeout # 0).  Callbacks and releases   *)
(* need not go on for a call to return. *)
FairSpec ==
    Spec /\ \A r \in Readers : WF_vars(Continue(r) \/ Interrupted(r))
-----------------------------------------------------------------------------
(***************************************************************************)
(* Properties.                                                             *)
(***************************************************************************)

(* Type correctness of the client's lists, of the readers and of the two   *)
(* notifiers. *)
TypeOK ==
    /\ mbQMIValid \in BOOLEAN /\ listed \in BOOLEAN
    /\ mList \in Seq(Responses)
    /\ mReadNotifyList \in Seq(Entries)
    /\ arrived \in 0..MaxResponses
    /\ pc \in [Readers -> {"idle", "pop", "add", "wait", "check", "remove"}]
    /\ tx \in [Readers -> TxIds]
    /\ readSem \in [Readers -> Nat]
    /\ got \in [Readers -> Responses \cup {NONE}]
    /\ cb \in Slots
    /\ cb.pc \in {"add", "notify", "call"} => cb.msg \in Responses
    /\ cb.pc = "call" => cb.who \in Readers
    /\ rel \in [pc : {"idle", "notify", "call", "drain", "del", "done"},
                who : Readers \cup {NONE}]
    /\ rel.pc = "call" => rel.who \in Readers

(* Thread r sleeps and nothing has woken it yet. *)
Asleep(r) == pc[r] = "wait" /\ readSem[r] = 0

(* "readSem will fall out of scope, remove from notify list so it's not    *)
(* referenced" (ReadSync): a notifier that has unlinked an entry and runs  *)
(* its function finds the thread still asleep on that semaphore.           *)
NoDanglingUp ==
    /\ cb.pc = "call" => Asleep(cb.who)
    /\ rel.pc = "call" => Asleep(rel.who)

(* The reason for NoDanglingUp when no sleep is cut short: an entry of the *)
(* notify list, or an entry unlinked by a notifier that has not run its    *)
(* function yet, belongs to a sleeping thread, and to each thread at most  *)
(* one of them. *)
OneEntryPerWaiter ==
    /\ \A r \in Readers : /\ pc[r] # "remove"
                          /\ pc[r] = "add" => readSem[r] = 0
    /\ \A i \in 1..Len(mReadNotifyList) : Asleep(mReadNotifyList[i].who)
    /\ \A i, j \in 1..Len(mReadNotifyList) :
          mReadNotifyList[i].who = mReadNotifyList[j].who => i = j
    /\ cb.pc = "call" =>
          /\ Asleep(cb.who)
          /\ \A i \in 1..Len(mReadNotifyList) :
                mReadNotifyList[i].who # cb.who
    /\ rel.pc = "call" =>
          /\ Asleep(rel.who)
          /\ \A i \in 1..Len(mReadNotifyList) :
                mReadNotifyList[i].who # rel.who
    /\ cb.pc = "call" /\ rel.pc = "call" => cb.who # rel.who

(* Some notifier will still reach the semaphore of reader r. *)
Reachable(r) ==
    \/ \E i \in 1..Len(mReadNotifyList) : mReadNotifyList[i].who = r
    \/ cb.pc = "call" /\ cb.who = r
    \/ rel.pc = "call" /\ rel.who = r

(* A thread asleep in ReadSync on a live client can still be woken:        *)
(* NotifyAndPopNotifyList never unlinks an entry whose function it does    *)
(* not run, and no other thread's clean-up unlinks it. *)
NoOrphanWaiter ==
    mbQMIValid /\ listed =>
        \A r \in Readers : Asleep(r) => Reachable(r)

(* A call of ReadSyncTimeout returns once no more responses come, after    *)
(* wake-ups whose response another thread takes too.  (Each of these lets  *)
(* it sleep for the whole READ_TIMEOUT again.)  ReleaseClientID may keep   *)
(* it, as long as it stays in its notify loop and wakes threads that add   *)
(* themselves again.  Readers may be permuted, so it is said of one. *)
ReadSyncReturns ==
    LET r == CHOOSE r \in Readers : TRUE
    IN  InCall(r) ~> ~InCall(r) \/ rel.pc \in {"notify", "call"}

(* The lists implement the abstract response store: oldest match first,    *)
(* each response to one reader at most, nothing lost before the release.   *)
Store == INSTANCE QMIResponseStore WITH
    pending  <- {mList[i] : i \in 1..Len(mList)},
    inFlight <- IF cb.pc = "add" THEN {cb.msg} ELSE {},
    received <- arrived,
    asked    <- [r \in Readers |-> IF InCall(r) THEN tx[r] ELSE NONE],
    given    <- got,
    closing  <- rel.pc # "idle"

StoreSpec == Store!Spec
=============================================================================
