---------------------------- MODULE QMIClientIDs ----------------------------
(***************************************************************************)
(* The client IDs of a QMI device: GetClientID, ReleaseClientID, the       *)
(* character device files that own clients, and DeregisterQMIDevice, which *)
(* releases all of them, src/src/linux/qcom_usbnet/qmidevice.c.  The       *)
(* answers of the modem come through the read pipe of QMIReadPipe.         *)
(*                                                                         *)
(* ReadSyncTimeout on QMICTL is reduced to what QMIResponseStore promises  *)
(* of it: it takes the first stored answer with the transaction ID, or it  *)
(* fails.  WriteSync on QMICTL either delivers the request or fails.       *)
(***************************************************************************)
EXTENDS QMIReadPipe

CONSTANTS
    Files,   \* open files, each used by one thread
    DEREG,   \* the thread in DeregisterQMIDevice
    TxMod,   \* values of the u8 transactionID (256 in the code)
    END      \* the list head, where a walk ends

ASSUME FilesAssumption == DEREG \notin Files
ASSUME TxModAssumption == TxMod \in Nat /\ TxMod > 1
ASSUME EndAssumption == END \notin Clients

VARIABLES
    file,    \* file[f]: private_data is set, and its mClientID
    call,    \* call[p]: where p is in GetClientID or ReleaseClientID
    requests,\* mQMICTLTransactionID, not truncated
    modem,   \* the client IDs that the modem has given away
    dwalk    \* DeregisterQMIDevice: the client it releases next

idVars == <<file, call, requests, modem, dwalk>>
vars   == <<pipeVars, idVars>>

Procs == Files \cup {DEREG}

CallAt(pc, id, req) ==
    [pc |-> pc, id |-> id, req |-> req, ans |-> 0, pos |-> END, safe |-> END]
NoCall == CallAt("idle", NONE, 0)

Init ==
    /\ PipeInit
    /\ file = [f \in Files |-> [open |-> FALSE, id |-> NONE]]
    /\ call = [p \in Procs |-> NoCall]
    /\ requests = 0
    /\ modem = {QMIWDS}
    /\ dwalk = END

-----------------------------------------------------------------------------
(***************************************************************************)
(* Transaction IDs: the counter is atomic and wider than the u8 that goes  *)
(* on the wire; the value 0 is skipped.                                    *)
(***************************************************************************)
Tx(n) == n % TxMod

NextRequestWithZero == requests + 1  \* variant: 0 is not skipped

NextRequest ==
    IF Tx(requests + 1) = 0 THEN requests + 2 ELSE requests + 1

(* The modem's answer to a request: a client ID it has not given away, or  *)
(* none; an acknowledgement of a release. *)
GetAnswer(n) ==
    \/ \E id \in ClientIds \ modem :
          /\ modem' = modem \cup {id}
          /\ outbox' = Append(outbox, [kind |-> "get", num |-> n, id |-> id])
    \/ /\ ClientIds \subseteq modem
       /\ outbox' = Append(outbox, [kind |-> "get", num |-> n, id |-> NONE])
       /\ UNCHANGED modem

ReleaseAnswer(n, id) ==
    /\ modem' = modem \ {id}
    /\ outbox' = Append(outbox, [kind |-> "release", num |-> n, id |-> id])

pipeFrame == <<mbQMIValid, urbVars, cb, inds, indVars, dereg, limit>>

(* The call of p goes on at pc.  *)
Goto(p, pc) == call' = [call EXCEPT ![p].pc = pc]
Return(p)   == call' = [call EXCEPT ![p] = NoCall]

(* WriteSync finds QMICTL (under the lock), and the request gets through.  *)
CanWrite == mbQMIValid /\ Unlocked /\ Listed(QMICTL)

(* WriteSync returns an error: the device is invalid, QMICTL is gone, or   *)
(* the transfer failed. *)
WriteFails == ~mbQMIValid \/ Unlocked

-----------------------------------------------------------------------------
(***************************************************************************)
(* GetClientID, called by the ioctl IOCTL_QMI_GET_SERVICE_FILE.            *)
(***************************************************************************)

(* The ioctl's tests, the transaction ID and WriteSync. *)
GetClientID(f) ==
    /\ file[f].open /\ file[f].id = NONE
    /\ call[f].pc = "idle"
    /\ mbQMIValid
    /\ CanWrite
    /\ NextRequest <= limit.requests
    /\ requests' = NextRequest
    /\ GetAnswer(NextRequest)
    /\ notices' = notices + 1
    /\ call' = [call EXCEPT ![f] = CallAt("getwait", NONE, NextRequest)]
    /\ UNCHANGED <<pipeFrame, listVars, file, dwalk>>

(* The stored answers that a read with transaction ID t may return. *)
Matching(t) == {i \in 1..Len(ctlList) :
                   /\ t = 0 \/ Tx(ctlList[i].num) = t
                   /\ \A j \in 1..(i - 1) :
                         ~(t = 0 \/ Tx(ctlList[j].num) = t)}

(* ReadSyncTimeout returns the first answer with the transaction ID.       *)
TakeAnswer(p, i) ==
    /\ mbQMIValid /\ Unlocked /\ Listed(QMICTL)
    /\ i \in Matching(Tx(call[p].req))
    /\ ctlList' = RemoveAt(ctlList, i)

(* QMICTLGetClientIDResp: an answer of another kind, or without an ID, is  *)
(* an error. *)
GetClientIDResp(f, i) ==
    /\ call[f].pc = "getwait"
    /\ TakeAnswer(f, i)
    /\ LET msg == ctlList[i] IN
       IF msg.kind = "get" /\ msg.id # NONE
       THEN call' = [call EXCEPT ![f].pc = "check", ![f].id = msg.id,
                                 ![f].ans = msg.num]
       ELSE Return(f)
    /\ UNCHANGED <<pipeFrame, modemBox, mClientMemList, mClientMemLock, file,
                   requests, modem, dwalk>>

(* ReadSyncTimeout returns an error: a timeout, or QMICTL is gone. *)
GetClientIDFails(f) ==
    /\ call[f].pc = "getwait"
    /\ Return(f)
    /\ UNCHANGED <<pipeFrame, modemBox, listVars, file, requests, modem,
                   dwalk>>

FindNothing(f) ==  \* variant: an ID that is still listed is accepted
    /\ call[f].pc = "check"
    /\ Goto(f, "add")
    /\ UNCHANGED <<pipeFrame, modemBox, listVars, file, requests, modem,
                   dwalk>>

(* FindClientMem, without the lock: -ETOOMANYREFS, or on to the new entry. *)
VerifyNotAllocated(f) ==
    /\ call[f].pc = "check"
    /\ IF mbQMIValid /\ Listed(call[f].id) THEN Return(f) ELSE Goto(f, "add")
    /\ UNCHANGED <<pipeFrame, modemBox, listVars, file, requests, modem,
                   dwalk>>

(* list_add_tail, in a critical section of its own. *)
AddClientMem(f) ==
    /\ call[f].pc = "add"
    /\ Unlocked
    /\ mClientMemList' = Append(mClientMemList,
                                [id |-> call[f].id, req |-> call[f].req])
    /\ Goto(f, "set")
    /\ UNCHANGED <<pipeFrame, modemBox, mClientMemLock, ctlList, file,
                   requests, modem, dwalk>>

(* The ioctl sets mClientID; the file may have been closed meanwhile. *)
SetClientID(f) ==
    /\ call[f].pc = "set"
    /\ file' = IF file[f].open
               THEN [file EXCEPT ![f].id = call[f].id] ELSE file
    /\ Return(f)
    /\ UNCHANGED <<pipeFrame, modemBox, listVars, requests, modem, dwalk>>

-----------------------------------------------------------------------------
(***************************************************************************)
(* ReleaseClientID, called by UserspaceClose and DeregisterQMIDevice.      *)
(***************************************************************************)

(* The request, unless the client is QMICTL; every error is ignored.       *)
ReleaseRequest(p) ==
    /\ call[p].pc = "relreq"
    /\ \/ ~mbQMIValid /\ Return(p)
          /\ UNCHANGED <<requests, modemBox, modem>>
       \/ mbQMIValid /\ call[p].id = QMICTL /\ Goto(p, "walk")
          /\ UNCHANGED <<requests, modemBox, modem>>
       \/ mbQMIValid /\ call[p].id # QMICTL /\ WriteFails /\ Goto(p, "walk")
          /\ UNCHANGED <<requests, modemBox, modem>>
       \/ mbQMIValid /\ call[p].id # QMICTL /\ CanWrite
          /\ NextRequest <= limit.requests
          /\ requests' = NextRequest
          /\ ReleaseAnswer(NextRequest, call[p].id)
          /\ notices' = notices + 1
          /\ call' = [call EXCEPT ![p].pc = "relwait", ![p].req = NextRequest]
    /\ UNCHANGED <<pipeFrame, listVars, file, dwalk>>

ReleaseClientIDResp(p, i) ==
    /\ call[p].pc = "relwait"
    /\ TakeAnswer(p, i)
    /\ Goto(p, "walk")
    /\ UNCHANGED <<pipeFrame, modemBox, mClientMemList, mClientMemLock, file,
                   requests, modem, dwalk>>

ReleaseTimesOut(p) ==
    /\ call[p].pc = "relwait"
    /\ Goto(p, "walk")
    /\ UNCHANGED <<pipeFrame, modemBox, listVars, file, requests, modem,
                   dwalk>>

(* The entry after position i of the list, or the head. *)
EntryAt(i) == IF i \in 1..Len(mClientMemList) THEN mClientMemList[i] ELSE END
PlaceOf(e) == CHOOSE i \in 1..Len(mClientMemList) : mClientMemList[i] = e
After(e) == EntryAt(PlaceOf(e) + 1)
InMemList(e) == \E i \in 1..Len(mClientMemList) : mClientMemList[i] = e

(* The walk under the lock reaches the client's entry, and the lock is     *)
(* given back; without such an entry the function returns with the lock.   *)
FindInWalk(p) ==
    /\ call[p].pc = "walk"
    /\ Unlocked
    /\ \/ \E i \in 1..Len(mClientMemList) :
             /\ mClientMemList[i].id = call[p].id
             /\ \A j \in 1..(i - 1) : mClientMemList[j].id # call[p].id
             /\ call' = [call EXCEPT ![p].pc = "drain",
                                     ![p].pos = mClientMemList[i],
                                     ![p].safe = EntryAt(i + 1)]
             /\ UNCHANGED mClientMemLock
       \/ /\ ~Listed(call[p].id)
          /\ mClientMemLock' = "lost"
          /\ Return(p)
    /\ UNCHANGED <<pipeFrame, modemBox, mClientMemList, ctlList, file,
                   requests, modem, dwalk>>

(* Notify all, kill the URBs, free the unread data. *)
DrainClient(p) ==
    /\ call[p].pc = "drain"
    /\ Unlocked
    /\ ctlList' = IF call[p].id = QMICTL THEN << >> ELSE ctlList
    /\ Goto(p, "del")
    /\ UNCHANGED <<pipeFrame, modemBox, mClientMemList, mClientMemLock, file,
                   requests, modem, dwalk>>

(* list_del and kfree.  A second list_del of an entry takes its poisoned   *)
(* links for pointers: the thread dies in a fault. *)
DeleteClientMem(p) ==
    /\ call[p].pc = "del"
    /\ Unlocked
    /\ IF InMemList(call[p].pos)
       THEN /\ mClientMemList' = RemoveAt(mClientMemList, PlaceOf(call[p].pos))
            /\ Goto(p, "next")
       ELSE /\ Goto(p, "fault")
            /\ UNCHANGED mClientMemList
    /\ UNCHANGED <<pipeFrame, modemBox, mClientMemLock, ctlList, file,
                   requests, modem, dwalk>>

(* The walk goes on without the lock, at the entry that followed when the  *)
(* match was found; if that has been freed since, the thread dies at its   *)
(* poisoned link. *)
WalkOn(p) ==
    /\ call[p].pc = "next"
    /\ LET e == call[p].safe IN
       \/ e = END /\ Return(p)
       \/ e # END /\ ~InMemList(e) /\ Goto(p, "fault")
       \/ e # END /\ InMemList(e) /\ e.id = call[p].id
          /\ call' = [call EXCEPT ![p].pc = "drain", ![p].pos = e,
                                  ![p].safe = After(e)]
       \/ e # END /\ InMemList(e) /\ e.id # call[p].id
          /\ call' = [call EXCEPT ![p].safe = After(e)]
    /\ UNCHANGED <<pipeFrame, modemBox, listVars, file, requests, modem,
                   dwalk>>

StartRelease(p, id) ==
    call' = [call EXCEPT ![p] = CallAt("relreq", id, 0)]

-----------------------------------------------------------------------------
UserspaceOpen(f) ==
    /\ ~file[f].open /\ call[f].pc = "idle"
    /\ mbQMIValid
    /\ file' = [file EXCEPT ![f] = [open |-> TRUE, id |-> NONE]]
    /\ UNCHANGED <<pipeVars, call, requests, modem, dwalk>>

(* UserspaceClose by thread p, the last user of file f: private_data is    *)
(* cleared first, then the client is released.  On an invalid device both  *)
(* stay. *)
CloseBy(p, f) ==
    /\ file[f].open /\ call[p].pc = "idle"
    /\ file' = [file EXCEPT ![f].open = FALSE]
    /\ IF mbQMIValid /\ file[f].id # NONE
       THEN StartRelease(p, file[f].id) ELSE UNCHANGED call

UserspaceClose(f) ==
    /\ CloseBy(f, f)
    /\ UNCHANGED <<pipeVars, requests, modem, dwalk>>

-----------------------------------------------------------------------------
(***************************************************************************)
(* DeregisterQMIDevice.                                                    *)
(***************************************************************************)
deregFrame == <<mbQMIValid, urbVars, modemBox, cb, inds, listVars, indVars, limit>>

DeregisterQMIDevice ==
    /\ ThenDereg("run", "clients")
    /\ dwalk' = EntryAt(1)
    /\ UNCHANGED <<deregFrame, file, call, requests, modem>>

(* One round of the walk over the clients, without the lock: the entry     *)
(* after the one that is released is read before the release. *)
ReleaseNext ==
    /\ dereg = "clients"
    /\ call[DEREG].pc = "idle"
    /\ \/ /\ dwalk = END
          /\ dereg' = "killread"
          /\ UNCHANGED <<call, dwalk>>
       \/ /\ dwalk # END /\ ~InMemList(dwalk)
          /\ Goto(DEREG, "fault")
          /\ UNCHANGED <<dereg, dwalk>>
       \/ /\ dwalk # END /\ InMemList(dwalk)
          /\ StartRelease(DEREG, dwalk.id)
          /\ dwalk' = After(dwalk)
          /\ UNCHANGED dereg
    /\ UNCHANGED <<deregFrame, file, requests, modem>>

(* "Find each open file handle, and manually close it" *)
CloseOpenFile(f) ==
    /\ dereg = "files"
    /\ CloseBy(DEREG, f)
    /\ UNCHANGED <<pipeVars, requests, modem, dwalk>>

FilesClosed ==
    /\ ThenDereg("files", "valid")
    /\ call[DEREG].pc = "idle"
    /\ \A f \in Files : ~file[f].open
    /\ UNCHANGED <<deregFrame, idVars>>

-----------------------------------------------------------------------------
GetStep(f) ==
    \/ GetClientID(f)
    \/ \E i \in 1..Len(ctlList) : GetClientIDResp(f, i)
    \/ GetClientIDFails(f)
    \/ VerifyNotAllocated(f) \/ AddClientMem(f) \/ SetClientID(f)

ReleaseStep(p) ==
    \/ ReleaseRequest(p)
    \/ \E i \in 1..Len(ctlList) : ReleaseClientIDResp(p, i)
    \/ ReleaseTimesOut(p)
    \/ FindInWalk(p) \/ DrainClient(p) \/ DeleteClientMem(p) \/ WalkOn(p)

Next ==
    \/ PipeStep /\ UNCHANGED idVars
    \/ \E f \in Files : GetStep(f) \/ UserspaceOpen(f) \/ UserspaceClose(f)
    \/ \E p \in Procs : ReleaseStep(p)
    \/ DeregisterQMIDevice \/ ReleaseNext
    \/ \E f \in Files : CloseOpenFile(f)
    \/ FilesClosed

Spec == Init /\ [][Next]_vars

-----------------------------------------------------------------------------
(***************************************************************************)
(* Properties.                                                             *)
(***************************************************************************)

(* Type correctness of the pipe, the lists, the files and the calls. *)
TypeOK ==
    /\ mbQMIValid \in BOOLEAN
    /\ intURB \in {"armed", "idle", "none"}
    /\ readURB \in {"armed", "idle", "none"}
    /\ outbox \in Seq(Messages) /\ notices \in Nat
    /\ \/ cb = Idle
       \/ cb \in [pc : {"list", "up", "store"}, msg : Messages]
    /\ inds \in 0..MaxIndications
    /\ mClientMemList \in Seq(Clients)
    /\ mClientMemLock \in {"free", "lost"}
    /\ ctlList \in Seq(Messages)
    /\ indList \in Seq(1..MaxIndications)
    /\ responseReadSem \in Nat
    /\ thread.pc \in {"loop", "call", "asleep", "woken", "handle", "exited"}
    /\ thread.ind \in 0..MaxIndications
    /\ handled \in Seq(1..MaxIndications)
    /\ dereg \in {"run", "clients", "killread", "killint", "free", "files",
                  "valid", "drop", "test", "wait", "done"}
    /\ file \in [Files -> [open : BOOLEAN, id : ClientIds \cup {NONE}]]
    /\ \A p \in Procs : 
          /\ call[p].pc \in {"idle", "getwait", "check", "add", "set",
                "relreq", "relwait", "walk", "drain", "del", "next", "fault"}
          /\ call[p].id \in ClientIds \cup {QMICTL, NONE}
          /\ call[p].req \in 0..MaxRequests
          /\ call[p].ans \in 0..MaxRequests
          /\ call[p].pos \in Clients \cup {END}
          /\ call[p].safe \in Clients \cup {END}
    /\ requests \in 0..MaxRequests /\ limit \in Limits
    /\ modem \subseteq ClientIds
    /\ dwalk \in Clients \cup {END}

(* QMICTL transaction IDs have eight bits and are used again, and answers  *)
(* that come after the timeout stay stored: an ID that GetClientID is      *)
(* given is the answer to its own request, or the two requests are at      *)
(* least 256 apart. *)
OwnAnswer ==
    \A f \in Files :
        call[f].pc \in {"check", "add", "set"} =>
            \/ call[f].ans = call[f].req
            \/ call[f].ans + TxMod <= call[f].req
            \/ call[f].req + TxMod <= call[f].ans

(* A client ID is entered once, although the test and the insertion are    *)
(* two critical sections: while ReleaseClientID has told the modem but not *)
(* yet freed its entry, the ID may be given to another file. *)
ClientsDistinct ==
    mbQMIValid => \A i, j \in 1..Len(mClientMemList) :
        mClientMemList[i].id = mClientMemList[j].id => i = j

(* Two open files never use one client ID, so that neither reads the       *)
(* other's responses. *)
FilesDistinct ==
    \A f, g \in Files :
        /\ file[f].open /\ file[g].open
        /\ file[f].id = file[g].id /\ file[f].id # NONE
        => f = g

(* A client ID stands for one client in the driver and for one open file.  *)
IDsDistinct == ClientsDistinct /\ FilesDistinct

(* IntCallback and ReadCallback hand the one transfer on to each other:    *)
(* never are both URBs in flight, or one of them while ReadCallback runs,  *)
(* which would let a second message overwrite the buffer. *)
OneTransfer ==
    /\ ~(intURB = "armed" /\ readURB = "armed")
    /\ cb.pc # "idle" => intURB # "armed" /\ readURB # "armed"

(* Every indication in the list is counted, or the thread is on its way to *)
(* it: the thread never sleeps while an indication waits. *)
IndicationsCounted ==
    mbQMIValid =>
        Len(indList) <= responseReadSem
                        + (IF thread.pc = "woken" THEN 1 ELSE 0)
                        + (IF cb.pc = "up" THEN 1 ELSE 0)

(* The thread handles the indications in the order in which the modem has  *)
(* sent them: a disconnect is never applied before the connect. *)
HandledInOrder ==
    \A i, j \in 1..Len(handled) : i < j => handled[i] < handled[j]

(* "Find each open file handle, and manually close it"                     *)
(* (DeregisterQMIDevice): while a file is left to be closed, the lock that *)
(* its ReleaseClientID takes can be had. *)
CloseNotBlocked ==
    dereg = "files" /\ (\E f \in Files : file[f].open) => Unlocked
=============================================================================
