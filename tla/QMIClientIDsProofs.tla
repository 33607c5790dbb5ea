------------------------- MODULE QMIClientIDsProofs -------------------------
(***************************************************************************)
(* Theorems about QMIClientIDs and the read pipe it uses, for any number   *)
(* of files, client IDs, requests and indications: the two URBs never      *)
(* overlap, no indication waits for a thread that sleeps, the indications  *)
(* are handled in order, GetClientID takes the answer to its own request,  *)
(* and a client ID stands for one client and one file.                     *)
(***************************************************************************)
EXTENDS QMIClientIDs, SequenceTheorems, TLAPS

(* What a step of the files, of the calls or of DeregisterQMIDevice may do *)
(* to the pipe: nothing, or put an answer of QMICTL into the outbox.       *)
OutsidePipe ==
    /\ UNCHANGED <<mbQMIValid, urbVars, cb, inds, indVars>>
    /\ \/ outbox' = outbox
       \/ \E m : m.kind # "ind" /\ outbox' = Append(outbox, m)

LEMMA StepCases ==
    ASSUME [Next]_vars
    PROVE  PipeStep \/ OutsidePipe
<1>. USE DEF OutsidePipe, pipeFrame, pipeVars, deregFrame, idVars, urbVars,
             modemBox, indVars, listVars
<1>1. CASE UNCHANGED vars
  BY <1>1 DEF vars
<1>2. ASSUME NEW f \in Files, GetStep(f)
      PROVE  OutsidePipe
  <2>1. CASE GetClientID(f)
    <3>1. GetAnswer(NextRequest)
      BY <2>1 DEF GetClientID
    <3>2. \E m : m.kind # "ind" /\ outbox' = Append(outbox, m)
      BY <3>1 DEF GetAnswer
    <3>3. QED
      BY <2>1, <3>2 DEF GetClientID
  <2>2. CASE ~GetClientID(f)
    BY <1>2, <2>2 DEF GetStep, GetClientIDResp, GetClientIDFails,
       VerifyNotAllocated, AddClientMem, SetClientID
  <2>3. QED
    BY <2>1, <2>2
<1>3. ASSUME NEW p \in Procs, ReleaseStep(p)
      PROVE  OutsidePipe
  <2>1. CASE ReleaseRequest(p)
    <3>1. outbox' = outbox \/ ReleaseAnswer(NextRequest, call[p].id)
      BY <2>1 DEF ReleaseRequest
    <3>2. ASSUME ReleaseAnswer(NextRequest, call[p].id)
          PROVE  \E m : m.kind # "ind" /\ outbox' = Append(outbox, m)
      BY <3>2 DEF ReleaseAnswer
    <3>3. QED
      BY <2>1, <3>1, <3>2 DEF ReleaseRequest
  <2>2. CASE ~ReleaseRequest(p)
    BY <1>3, <2>2 DEF ReleaseStep, ReleaseClientIDResp, ReleaseTimesOut,
       FindInWalk, DrainClient, DeleteClientMem, WalkOn
  <2>3. QED
    BY <2>1, <2>2
<1>4. ASSUME NEW f \in Files, \/ UserspaceOpen(f) \/ UserspaceClose(f)
                              \/ CloseOpenFile(f)
      PROVE  OutsidePipe
  BY <1>4 DEF UserspaceOpen, UserspaceClose, CloseOpenFile
<1>5. CASE DeregisterQMIDevice \/ ReleaseNext \/ FilesClosed
  BY <1>5 DEF DeregisterQMIDevice, ReleaseNext, FilesClosed
<1>6. QED
  BY <1>1, <1>2, <1>3, <1>4, <1>5 DEF Next

-----------------------------------------------------------------------------
(***************************************************************************)
(* One transfer.                                                           *)
(***************************************************************************)

LEMMA OneTransferStep ==
    ASSUME OneTransfer, [Next]_vars
    PROVE  OneTransfer'
<1>. USE DEF OneTransfer, urbVars, Idle
<1>1. CASE OutsidePipe
  BY <1>1 DEF OutsidePipe
<1>2. CASE PipeStep
  <2>. USE DEF ResubmitIntURB
  <2>1. CASE IntCallbackResponse
    BY <2>1 DEF IntCallbackResponse
  <2>2. CASE IntCallbackOther
    BY <2>2 DEF IntCallbackOther
  <2>3. CASE ReadCallback
    BY <2>3 DEF ReadCallback, Completed
  <2>4. CASE ReadCallbackError
    BY <2>4 DEF ReadCallbackError, Completed
  <2>5. CASE AddToProcessIndList
    BY <2>5 DEF AddToProcessIndList
  <2>6. CASE UpIndication
    BY <2>6 DEF UpIndication
  <2>7. CASE StoreAndResubmit
    BY <2>7 DEF StoreAndResubmit
  <2>8. CASE SendIndication \/ GobiWaitForResponses
    BY <2>8 DEF SendIndication, GobiWaitForResponses, TestShouldStop,
       DownInterruptible, TakeIndication, HandleIndication, threadFrame
  <2>9. CASE KillReadURB \/ KillIntURB \/ FreeReadBuffers
    BY <2>9 DEF KillReadURB, KillIntURB, FreeReadBuffers, ThenDereg
  <2>10. CASE Invalidate \/ DropIndications \/ WakeThread \/ ThreadStopped
    BY <2>10 DEF Invalidate, DropIndications, WakeThread, ThreadStopped
  <2>11. QED
    BY <1>2, <2>1, <2>2, <2>3, <2>4, <2>5, <2>6, <2>7, <2>8, <2>9, <2>10
       DEF PipeStep, Callbacks, DeregisterTail
<1>3. QED
  BY <1>1, <1>2, StepCases

(* IntCallback and ReadCallback hand one transfer on to each other.  The   *)
(* argument: each of the two submits the other's URB only when its own has *)
(* completed, and KillRead submits the interrupt URB only in place of a    *)
(* read URB it has taken back.                                             *)
THEOREM OneTransferTheorem == Spec => []OneTransfer
<1>1. Init => OneTransfer
  BY DEF Init, PipeInit, OneTransfer, Idle
<1>2. OneTransfer /\ [Next]_vars => OneTransfer'
  BY OneTransferStep
<1>3. QED
  BY <1>1, <1>2, PTL DEF Spec

-----------------------------------------------------------------------------
(***************************************************************************)
(* Types.                                                                  *)
(***************************************************************************)

Msgs == {m \in Messages : IF m.kind = "ind" THEN m.num \in 1..MaxIndications
                          ELSE m.num \in 1..MaxRequests}
Entries == Clients \cup {END}
CallRecords ==
    [pc : {"idle", "getwait", "check", "add", "set", "relreq", "relwait", "walk",
           "drain", "del", "next", "fault"},
     id : ClientIds \cup {QMICTL, NONE}, req : 0..MaxRequests, ans : 0..MaxRequests,
     pos : Entries, safe : Entries]

(* The pipe, with the messages on their way. *)
PipeTypes ==
    /\ mbQMIValid \in BOOLEAN
    /\ intURB \in {"armed", "idle", "none"} /\ readURB \in {"armed", "idle", "none"}
    /\ outbox \in Seq(Msgs) /\ notices \in Nat
    /\ cb = Idle \/ cb \in [pc : {"list", "up", "store"}, msg : Msgs]
    /\ cb.pc = "list" => cb.msg.kind = "ind"
    /\ inds \in 0..MaxIndications /\ limit \in Limits

(* The indication list and its thread. *)
IndTypes ==
    /\ indList \in Seq(1..MaxIndications) /\ responseReadSem \in Nat
    /\ thread \in [pc : {"loop", "call", "asleep", "woken", "handle", "exited"},
                   ind : 0..MaxIndications]
    /\ thread.pc = "handle" => thread.ind \in 1..MaxIndications
    /\ handled \in Seq(1..MaxIndications)

(* The clients, and where each thread is in a call about one of them. *)
CallTypes ==
    /\ call \in [Procs -> CallRecords]
    /\ \A p \in Procs :
          /\ call[p].pc \in {"check", "add", "set"} => call[p].id \in ClientIds
          /\ call[p].pc = "relreq" => call[p].id # NONE

ListTypes ==
    /\ mClientMemList \in Seq(Clients) /\ mClientMemLock \in {"free", "lost"}
    /\ ctlList \in Seq(Msgs)

IdTypes ==
    /\ file \in [Files -> [open : BOOLEAN, id : ClientIds \cup {NONE}]]
    /\ requests \in 0..MaxRequests /\ modem \subseteq ClientIds
    /\ dwalk \in Entries
    /\ dereg \in {"run", "clients", "killread", "killint", "free", "files",
                  "valid", "drop", "test", "wait", "done"}

Types == PipeTypes /\ IndTypes /\ CallTypes /\ ListTypes /\ IdTypes

LEMMA TypesGiveTypeOK == Types => TypeOK
<1>. SUFFICES ASSUME Types PROVE TypeOK
  OBVIOUS
<1>1. /\ Msgs \subseteq Messages
      /\ Seq(Msgs) \subseteq Seq(Messages)
  BY DEF Msgs
<1>2. cb = Idle \/ cb \in [pc : {"list", "up", "store"}, msg : Messages]
  BY <1>1 DEF Types, PipeTypes
<1>3. QED
  BY <1>1, <1>2 DEF Types, PipeTypes, IndTypes, CallTypes, CallRecords, ListTypes,
     IdTypes, Entries, TypeOK

LEMMA InitTypes == Init => Types
<1>. SUFFICES ASSUME Init PROVE Types
  OBVIOUS
<1>1. PipeTypes
  BY BoundsAssumption DEF Init, PipeInit, PipeTypes, Idle
<1>2. IndTypes
  BY BoundsAssumption DEF Init, PipeInit, IndTypes
<1>3. [id |-> QMICTL, req |-> 0] \in Clients /\ [id |-> QMIWDS, req |-> 0] \in Clients
  BY IdsAssumption, BoundsAssumption DEF Clients
<1>4. ListTypes
  BY <1>3 DEF Init, PipeInit, ListTypes
<1>5. CallTypes
  BY BoundsAssumption DEF Init, CallTypes, CallRecords, NoCall, CallAt, Entries
<1>6. IdTypes
  BY IdsAssumption, BoundsAssumption DEF Init, PipeInit, IdTypes, Entries
<1>7. QED
  BY <1>1, <1>2, <1>4, <1>5, <1>6 DEF Types

(* The steps of the pipe and its thread. *)
LEMMA CallbackTypes ==
    ASSUME Types, Callbacks
    PROVE  PipeTypes' /\ IndTypes' /\ ctlList' \in Seq(Msgs)
<1>. USE DEF Types, PipeTypes, IndTypes, ListTypes, urbVars, modemBox, indVars,
             listVars, ResubmitIntURB, Completed
<1>1. CASE IntCallbackResponse
  BY <1>1 DEF IntCallbackResponse
<1>2. CASE IntCallbackOther
  BY <1>2 DEF IntCallbackOther
<1>3. ASSUME outbox # << >>
      PROVE  Head(outbox) \in Msgs /\ Tail(outbox) \in Seq(Msgs)
  BY <1>3, HeadTailProperties
<1>4. CASE ReadCallbackError
  BY <1>3, <1>4 DEF ReadCallbackError
<1>5. CASE ReadCallback
  <2>1. /\ outbox' = Tail(outbox) /\ outbox # << >>
        /\ UNCHANGED <<mbQMIValid, notices, inds, listVars, indVars, limit>>
        /\ readURB' \in {"armed", "idle", "none"}
        /\ intURB' \in {"armed", "idle", "none"}
        /\ \/ cb' = cb
           \/ cb' = [pc |-> IF Head(outbox).kind = "ind" THEN "list" ELSE "store",
                     msg |-> Head(outbox)]
    BY <1>5 DEF ReadCallback
  <2>2. cb' = Idle \/ cb' \in [pc : {"list", "up", "store"}, msg : Msgs]
    BY <1>3, <2>1
  <2>3. cb'.pc = "list" => cb'.msg.kind = "ind"
    BY <2>1
  <2>4. QED
    BY <1>3, <2>1, <2>2, <2>3
<1>6. CASE AddToProcessIndList
  <2>1. cb \in [pc : {"list", "up", "store"}, msg : Msgs] /\ cb.msg.kind = "ind"
    BY <1>6 DEF AddToProcessIndList, Idle
  <2>2. cb.msg.num \in 1..MaxIndications
    BY <2>1 DEF Msgs
  <2>3. Append(indList, cb.msg.num) \in Seq(1..MaxIndications)
    BY <2>2, AppendProperties
  <2>4. indList' \in Seq(1..MaxIndications)
    BY <1>6, <2>3 DEF AddToProcessIndList
  <2>5. cb' \in [pc : {"list", "up", "store"}, msg : Msgs] /\ cb'.pc # "list"
    BY <1>6, <2>1 DEF AddToProcessIndList
  <2>6. QED
    BY <1>6, <2>4, <2>5 DEF AddToProcessIndList
<1>7. CASE UpIndication
  <2>1. cb \in [pc : {"list", "up", "store"}, msg : Msgs]
    BY <1>7 DEF UpIndication, Idle
  <2>2. cb' \in [pc : {"list", "up", "store"}, msg : Msgs] /\ cb'.pc # "list"
    BY <1>7, <2>1 DEF UpIndication
  <2>3. QED
    BY <1>7, <2>2 DEF UpIndication, Up
<1>8. CASE StoreAndResubmit
  <2>1. cb.msg \in Msgs
    BY <1>8 DEF StoreAndResubmit, Idle
  <2>2. ctlList' \in Seq(Msgs)
    BY <1>8, <2>1, AppendProperties DEF StoreAndResubmit
  <2>3. QED
    BY <1>8, <2>2 DEF StoreAndResubmit, Idle
<1>9. QED
  BY <1>1, <1>2, <1>4, <1>5, <1>6, <1>7, <1>8 DEF Callbacks

LEMMA ThreadTypes ==
    ASSUME Types, GobiWaitForResponses
    PROVE  PipeTypes' /\ IndTypes' /\ ctlList' \in Seq(Msgs)
<1>. USE DEF Types, PipeTypes, IndTypes, ListTypes, urbVars, modemBox, listVars,
             threadFrame
<1>1. CASE TestShouldStop
  BY <1>1 DEF TestShouldStop
<1>2. CASE DownInterruptible
  <2>1. responseReadSem' \in Nat
    BY <1>2 DEF DownInterruptible
  <2>2. /\ thread' \in [pc : {"loop", "call", "asleep", "woken", "handle", "exited"},
                        ind : 0..MaxIndications]
        /\ thread'.pc # "handle"
    BY <1>2 DEF DownInterruptible
  <2>3. QED
    BY <1>2, <2>1, <2>2 DEF DownInterruptible
<1>3. CASE TakeIndication
  <2>1. ASSUME indList # << >>
        PROVE  Head(indList) \in 1..MaxIndications /\ Tail(indList) \in Seq(1..MaxIndications)
    BY <2>1, HeadTailProperties
  <2>2. CASE indList' = indList
    BY <1>3, <2>2, <2>1 DEF TakeIndication
  <2>3. CASE indList' # indList
    <3>1. /\ indList # << >> /\ indList' = Tail(indList)
          /\ thread' = [pc |-> "handle", ind |-> Head(indList)]
      BY <1>3, <2>3 DEF TakeIndication
    <3>2. thread'.ind \in 1..MaxIndications /\ thread'.ind \in 0..MaxIndications
      BY <2>1, <3>1, BoundsAssumption
    <3>3. QED
      BY <1>3, <2>1, <3>1, <3>2 DEF TakeIndication
  <2>4. QED
    BY <2>2, <2>3
<1>4. CASE HandleIndication
  BY <1>4, BoundsAssumption, AppendProperties DEF HandleIndication
<1>5. QED
  BY <1>1, <1>2, <1>3, <1>4 DEF GobiWaitForResponses

LEMMA SendTypes ==
    ASSUME Types, SendIndication
    PROVE  PipeTypes' /\ IndTypes' /\ ctlList' \in Seq(Msgs)
<1>. USE DEF Types, PipeTypes, IndTypes, ListTypes, urbVars, modemBox, indVars, listVars
<1>1. inds' \in 1..MaxIndications
  BY BoundsAssumption, LimitsAssumption DEF SendIndication
<1>2. [kind |-> "ind", num |-> inds', id |-> QMIWDS] \in Msgs
  BY <1>1, IdsAssumption, BoundsAssumption DEF Msgs, Messages
<1>3. outbox' \in Seq(Msgs)
  BY <1>2, AppendProperties DEF SendIndication
<1>4. QED
  BY <1>1, <1>3 DEF SendIndication

LEMMA DeregisterTypes ==
    ASSUME Types, DeregisterTail
    PROVE  PipeTypes' /\ IndTypes' /\ ctlList' \in Seq(Msgs)
<1>. USE DEF Types, PipeTypes, IndTypes, ListTypes, urbVars, modemBox, indVars,
             listVars, ResubmitIntURB
<1>1. CASE KillReadURB \/ KillIntURB \/ FreeReadBuffers
  <2>1. CASE KillReadURB
    BY <2>1 DEF KillReadURB
  <2>2. CASE KillIntURB
    BY <2>2 DEF KillIntURB
  <2>3. CASE FreeReadBuffers
    BY <2>3 DEF FreeReadBuffers
  <2>4. QED
    BY <1>1, <2>1, <2>2, <2>3
<1>2. CASE Invalidate
  BY <1>2 DEF Invalidate
<1>3. CASE DropIndications
  <2>1. indList' \in Seq(1..MaxIndications)
    BY <1>3 DEF DropIndications
  <2>2. QED
    BY <1>3, <2>1 DEF DropIndications
<1>4. CASE WakeThread
  <2>1. /\ \/ thread' = [thread EXCEPT !.pc = "woken"] /\ UNCHANGED responseReadSem
           \/ UNCHANGED <<thread, responseReadSem>>
        /\ UNCHANGED <<mbQMIValid, urbVars, modemBox, cb, inds, listVars, indList,
                       handled, limit>>
    BY <1>4 DEF WakeThread, Up
  <2>2. CASE UNCHANGED <<thread, responseReadSem>>
    BY <2>1, <2>2
  <2>3. CASE thread' = [thread EXCEPT !.pc = "woken"] /\ UNCHANGED responseReadSem
    BY <2>1, <2>3
  <2>4. QED
    BY <2>1, <2>2, <2>3
<1>5. CASE ThreadStopped
  BY <1>5 DEF ThreadStopped
<1>6. QED
  BY <1>1, <1>2, <1>4, <1>3, <1>5 DEF DeregisterTail

LEMMA PipeStepTypes ==
    ASSUME Types, PipeStep, UNCHANGED idVars
    PROVE  Types'
<1>1. PipeTypes' /\ IndTypes' /\ ctlList' \in Seq(Msgs)
  BY CallbackTypes, ThreadTypes, SendTypes, DeregisterTypes DEF PipeStep
<1>2. UNCHANGED <<mClientMemList, mClientMemLock>>
  BY DEF PipeStep, Callbacks, IntCallbackResponse, IntCallbackOther, ReadCallback,
     ReadCallbackError, AddToProcessIndList, UpIndication, StoreAndResubmit,
     SendIndication, GobiWaitForResponses, TestShouldStop, DownInterruptible,
     TakeIndication, HandleIndication, DeregisterTail, KillReadURB, KillIntURB,
     FreeReadBuffers, Invalidate, DropIndications, WakeThread, ThreadStopped,
     listVars, threadFrame
<1>3. \/ dereg' = dereg
      \/ dereg' \in {"killint", "free", "files", "drop", "test", "wait", "done"}
  BY DEF PipeStep, Callbacks, IntCallbackResponse, IntCallbackOther, ReadCallback,
     ReadCallbackError, AddToProcessIndList, UpIndication, StoreAndResubmit,
     SendIndication, GobiWaitForResponses, TestShouldStop, DownInterruptible,
     TakeIndication, HandleIndication, DeregisterTail, KillReadURB, KillIntURB,
     FreeReadBuffers, Invalidate, DropIndications, WakeThread, ThreadStopped,
     ThenDereg, threadFrame
<1>4. IdTypes'
  BY <1>3 DEF Types, IdTypes, idVars
<1>5. CallTypes'
  BY DEF Types, CallTypes, idVars
<1>6. ListTypes'
  BY <1>1, <1>2 DEF Types, ListTypes
<1>7. QED
  BY <1>1, <1>4, <1>5, <1>6 DEF Types

(* What the steps of a call leave alone. *)
LEMMA CallFrame ==
    ASSUME Types, UNCHANGED pipeFrame, outbox' \in Seq(Msgs), notices' \in Nat
    PROVE  PipeTypes' /\ IndTypes' /\ UNCHANGED dereg
  BY DEF Types, PipeTypes, IndTypes, pipeFrame, urbVars, indVars

LEMMA NoCallTyped == NoCall \in CallRecords /\ NoCall.pc = "idle"
  BY BoundsAssumption DEF NoCall, CallAt, CallRecords, Entries

(* A call that goes on, and one that returns. *)
LEMMA GotoTypes ==
    ASSUME CallTypes, NEW p \in Procs, NEW pc \in {"add", "set", "walk", "del", "next", "fault"},
           Goto(p, pc), pc \in {"add", "set"} => call[p].id \in ClientIds
    PROVE  CallTypes'
<1>1. call' \in [Procs -> CallRecords]
  BY DEF CallTypes, CallRecords, Goto
<1>2. QED
  BY <1>1 DEF CallTypes, CallRecords, Goto

LEMMA ReturnTypes ==
    ASSUME CallTypes, NEW p \in Procs, Return(p)
    PROVE  CallTypes'
  BY NoCallTyped DEF CallTypes, Return

LEMMA UpdateTypes ==
    ASSUME CallTypes, NEW p \in Procs, NEW r \in CallRecords,
           r.pc \in {"check", "add", "set"} => r.id \in ClientIds,
           r.pc = "relreq" => r.id # NONE,
           call' = [call EXCEPT ![p] = r]
    PROVE  CallTypes'
  BY DEF CallTypes

LEMMA StartTypes ==
    ASSUME CallTypes, NEW p \in Procs, NEW id \in ClientIds \cup {QMICTL},
           StartRelease(p, id)
    PROVE  CallTypes'
<1>. DEFINE r == CallAt("relreq", id, 0)
<1>1. r \in CallRecords /\ r.pc = "relreq" /\ r.id = id
  BY BoundsAssumption DEF CallAt, CallRecords, Entries
<1>2. id # NONE
  BY IdsAssumption
<1>3. call' = [call EXCEPT ![p] = r]
  BY DEF StartRelease
<1>. HIDE DEF r
<1>4. QED
  BY <1>1, <1>2, <1>3, UpdateTypes

LEMMA RequestTyped ==
    ASSUME Types, NextRequest <= limit.requests
    PROVE  NextRequest \in 1..MaxRequests
<1>1. limit.requests \in 0..MaxRequests
  BY LimitsAssumption DEF Types, PipeTypes
<1>2. NextRequest \in Nat /\ NextRequest >= 1
  BY BoundsAssumption DEF Types, IdTypes, NextRequest
<1>3. QED
  BY <1>1, <1>2, BoundsAssumption

LEMMA RemovalTypes ==
    ASSUME NEW S, NEW l \in Seq(S), NEW i \in 1..Len(l)
    PROVE  RemoveAt(l, i) \in Seq(S)
<1>1. SubSeq(l, 1, i - 1) \in Seq(S)
  BY ElementOfSeq, LenProperties, SubSeqProperties
<1>2. SubSeq(l, i + 1, Len(l)) \in Seq(S)
  BY ElementOfSeq, LenProperties, SubSeqProperties
<1>3. QED
  BY <1>1, <1>2, ConcatProperties DEF RemoveAt

LEMMA EntryTyped ==
    ASSUME ListTypes, NEW i
    PROVE  EntryAt(i) \in Entries
  BY ElementOfSeq DEF ListTypes, EntryAt, Entries

LEMMA GetTypes ==
    ASSUME Types, NEW f \in Files, GetStep(f)
    PROVE  Types'
<1>. f \in Procs
  BY DEF Procs
<1>. USE DEF Types, modemBox, listVars
<1>1. CASE GetClientID(f)
  <2>1. NextRequest \in 1..MaxRequests
    BY <1>1, RequestTyped DEF GetClientID
  <2>2. outbox' \in Seq(Msgs) /\ modem' \subseteq ClientIds
    <3>1. ASSUME NEW id \in ClientIds \cup {NONE}
          PROVE  Append(outbox, [kind |-> "get", num |-> NextRequest, id |-> id])
                    \in Seq(Msgs)
      <4>1. [kind |-> "get", num |-> NextRequest, id |-> id] \in Msgs
        BY <2>1, BoundsAssumption DEF Msgs, Messages
      <4>2. QED
        BY <4>1, AppendProperties DEF PipeTypes
    <3>2. GetAnswer(NextRequest)
      BY <1>1 DEF GetClientID
    <3>3. QED
      BY <3>1, <3>2 DEF GetAnswer, IdTypes
  <2>3. CallTypes'
    <3>. DEFINE r == CallAt("getwait", NONE, NextRequest)
    <3>1. r \in CallRecords /\ r.pc = "getwait"
      BY <2>1, BoundsAssumption DEF CallAt, CallRecords, Entries
    <3>2. call' = [call EXCEPT ![f] = r]
      BY <1>1 DEF GetClientID
    <3>. HIDE DEF r
    <3>3. QED
      BY <3>1, <3>2, UpdateTypes
  <2>4. notices' \in Nat /\ UNCHANGED pipeFrame
    BY <1>1 DEF GetClientID, PipeTypes
  <2>5. PipeTypes' /\ IndTypes' /\ UNCHANGED dereg
    BY <2>2, <2>4, CallFrame
  <2>6. IdTypes' /\ ListTypes'
    BY <1>1, <2>1, <2>2, <2>5 DEF GetClientID, IdTypes, ListTypes
  <2>7. QED
    BY <2>3, <2>5, <2>6
<1>2. ASSUME NEW i \in 1..Len(ctlList), GetClientIDResp(f, i)
      PROVE  Types'
  <2>1. ctlList[i] \in Msgs
    BY ElementOfSeq DEF ListTypes
  <2>2. ctlList' \in Seq(Msgs)
    BY <1>2, RemovalTypes DEF GetClientIDResp, TakeAnswer, ListTypes
  <2>3. CallTypes'
    <3>1. CASE ctlList[i].kind = "get" /\ ctlList[i].id # NONE
      <4>. DEFINE r == [call[f] EXCEPT !.pc = "check", !.id = ctlList[i].id,
                                       !.ans = ctlList[i].num]
      <4>1. ctlList[i].id \in ClientIds /\ ctlList[i].num \in 0..MaxRequests
        BY <2>1, <3>1, BoundsAssumption DEF Msgs, Messages
      <4>2. r \in CallRecords /\ r.id \in ClientIds /\ r.pc = "check"
        BY <4>1 DEF CallTypes, CallRecords
      <4>3. call' = [call EXCEPT ![f] = r]
        BY <1>2, <3>1 DEF GetClientIDResp
      <4>. HIDE DEF r
      <4>4. QED
        BY <4>2, <4>3, UpdateTypes
    <3>2. CASE ~(ctlList[i].kind = "get" /\ ctlList[i].id # NONE)
      BY <1>2, <3>2, ReturnTypes DEF GetClientIDResp
    <3>3. QED
      BY <3>1, <3>2
  <2>4. /\ UNCHANGED <<pipeFrame, modemBox, mClientMemList, mClientMemLock, file,
                       requests, modem, dwalk>>
    BY <1>2 DEF GetClientIDResp
  <2>5. PipeTypes' /\ IndTypes' /\ UNCHANGED dereg
    BY <2>4, CallFrame DEF PipeTypes
  <2>6. QED
    BY <2>2, <2>3, <2>4, <2>5 DEF IdTypes, ListTypes
<1>3. CASE GetClientIDFails(f) \/ VerifyNotAllocated(f)
  <2>1. CallTypes'
    BY <1>3, GotoTypes, ReturnTypes DEF GetClientIDFails, VerifyNotAllocated, CallTypes
  <2>2. UNCHANGED <<pipeFrame, modemBox, listVars, file, requests, modem, dwalk>>
    BY <1>3 DEF GetClientIDFails, VerifyNotAllocated
  <2>3. PipeTypes' /\ IndTypes' /\ UNCHANGED dereg
    BY <2>2, CallFrame DEF PipeTypes
  <2>4. QED
    BY <2>1, <2>2, <2>3 DEF IdTypes, ListTypes
<1>4. CASE AddClientMem(f)
  <2>1. call[f].id \in ClientIds /\ call[f].req \in 0..MaxRequests
    BY <1>4 DEF AddClientMem, CallTypes, CallRecords
  <2>2. mClientMemList' \in Seq(Clients)
    <3>1. [id |-> call[f].id, req |-> call[f].req] \in Clients
      BY <2>1 DEF Clients
    <3>2. QED
      BY <1>4, <3>1, AppendProperties DEF AddClientMem, ListTypes
  <2>3. CallTypes'
    BY <1>4, <2>1, GotoTypes DEF AddClientMem
  <2>4. UNCHANGED <<pipeFrame, modemBox, mClientMemLock, ctlList, file, requests,
                    modem, dwalk>>
    BY <1>4 DEF AddClientMem
  <2>5. PipeTypes' /\ IndTypes' /\ UNCHANGED dereg
    BY <2>4, CallFrame DEF PipeTypes
  <2>6. QED
    BY <2>2, <2>3, <2>4, <2>5 DEF IdTypes, ListTypes
<1>5. CASE SetClientID(f)
  <2>1. call[f].id \in ClientIds
    BY <1>5 DEF SetClientID, CallTypes
  <2>2. CallTypes'
    BY <1>5, ReturnTypes DEF SetClientID
  <2>3. file' \in [Files -> [open : BOOLEAN, id : ClientIds \cup {NONE}]]
    BY <1>5, <2>1 DEF SetClientID, IdTypes
  <2>4. UNCHANGED <<pipeFrame, modemBox, listVars, requests, modem, dwalk>>
    BY <1>5 DEF SetClientID
  <2>5. PipeTypes' /\ IndTypes' /\ UNCHANGED dereg
    BY <2>4, CallFrame DEF PipeTypes
  <2>6. QED
    BY <2>2, <2>3, <2>4, <2>5 DEF IdTypes, ListTypes
<1>6. QED
  BY <1>1, <1>2, <1>3, <1>4, <1>5 DEF GetStep

LEMMA ReleaseTypes ==
    ASSUME Types, NEW p \in Procs, ReleaseStep(p)
    PROVE  Types'
<1>. USE DEF Types, modemBox, listVars
<1>1. CASE ReleaseRequest(p)
  <2>1. CASE requests' = requests /\ UNCHANGED <<modemBox, modem>>
    <3>1. ASSUME ~(Return(p) \/ Goto(p, "walk"))
          PROVE  FALSE
      <4>1. requests' = NextRequest
        BY <1>1, <3>1 DEF ReleaseRequest
      <4>2. QED
        BY <2>1, <4>1 DEF NextRequest, IdTypes
    <3>3. CallTypes'
      BY <3>1, ReturnTypes, GotoTypes
    <3>2. QED
      BY <1>1, <2>1, <3>3, CallFrame DEF ReleaseRequest, PipeTypes, IdTypes, ListTypes
  <2>2. CASE /\ call[p].pc = "relreq" /\ call[p].id # QMICTL
             /\ NextRequest <= limit.requests
             /\ requests' = NextRequest
             /\ ReleaseAnswer(NextRequest, call[p].id)
             /\ notices' = notices + 1
             /\ call' = [call EXCEPT ![p].pc = "relwait", ![p].req = NextRequest]
    <3>1. NextRequest \in 1..MaxRequests
      BY <2>2, RequestTyped
    <3>2. call[p].id \in ClientIds
      BY <2>2 DEF CallTypes, CallRecords
    <3>3. [kind |-> "release", num |-> NextRequest, id |-> call[p].id] \in Msgs
      BY <3>1, <3>2, BoundsAssumption DEF Msgs, Messages
    <3>4. outbox' \in Seq(Msgs) /\ modem' \subseteq ClientIds
      BY <2>2, <3>3, AppendProperties DEF ReleaseAnswer, PipeTypes, IdTypes
    <3>5. CallTypes'
      <4>. DEFINE r == [call[p] EXCEPT !.pc = "relwait", !.req = NextRequest]
      <4>0. call[p] \in CallRecords /\ NextRequest \in 0..MaxRequests
        BY <3>1 DEF CallTypes
      <4>1. r \in CallRecords /\ r.pc = "relwait"
        BY <4>0 DEF CallRecords
      <4>2. call' = [call EXCEPT ![p] = r]
        BY <2>2
      <4>. HIDE DEF r
      <4>3. QED
        BY <4>1, <4>2, UpdateTypes
    <3>6. UNCHANGED <<pipeFrame, listVars, file, dwalk>>
      BY <1>1 DEF ReleaseRequest
    <3>7. notices' \in Nat
      BY <2>2 DEF PipeTypes
    <3>8. PipeTypes' /\ IndTypes' /\ UNCHANGED dereg
      BY <3>4, <3>6, <3>7, CallFrame
    <3>9. QED
      BY <2>2, <3>1, <3>4, <3>5, <3>6, <3>8 DEF IdTypes, ListTypes
  <2>3. QED
    BY <1>1, <2>1, <2>2 DEF ReleaseRequest
<1>2. ASSUME NEW i \in 1..Len(ctlList), ReleaseClientIDResp(p, i)
      PROVE  Types'
  <2>1. ctlList' \in Seq(Msgs)
    BY <1>2, RemovalTypes DEF ReleaseClientIDResp, TakeAnswer, ListTypes
  <2>2. CallTypes'
    BY <1>2, GotoTypes DEF ReleaseClientIDResp
  <2>3. UNCHANGED <<pipeFrame, modemBox, mClientMemList, mClientMemLock, file,
                    requests, modem, dwalk>>
    BY <1>2 DEF ReleaseClientIDResp
  <2>4. PipeTypes' /\ IndTypes' /\ UNCHANGED dereg
    BY <2>3, CallFrame DEF PipeTypes
  <2>5. QED
    BY <2>1, <2>2, <2>3, <2>4 DEF IdTypes, ListTypes
<1>3. CASE ReleaseTimesOut(p)
  <2>1. CallTypes'
    BY <1>3, GotoTypes DEF ReleaseTimesOut
  <2>2. QED
    BY <1>3, <2>1, CallFrame DEF ReleaseTimesOut, PipeTypes, IdTypes, ListTypes
<1>4. CASE FindInWalk(p)
  <2>1. UNCHANGED <<pipeFrame, modemBox, mClientMemList, ctlList, file, requests,
                    modem, dwalk>>
        /\ mClientMemLock' \in {"free", "lost"}
    BY <1>4 DEF FindInWalk, ListTypes
  <2>2. CallTypes'
    <3>1. ASSUME NEW i \in 1..Len(mClientMemList),
                 call' = [call EXCEPT ![p].pc = "drain", ![p].pos = mClientMemList[i],
                                      ![p].safe = EntryAt(i + 1)]
          PROVE  CallTypes'
      <4>. DEFINE r == [call[p] EXCEPT !.pc = "drain", !.pos = mClientMemList[i],
                                       !.safe = EntryAt(i + 1)]
      <4>1. mClientMemList[i] \in Entries /\ EntryAt(i + 1) \in Entries
        BY ElementOfSeq, EntryTyped DEF ListTypes, Entries
      <4>2. r \in CallRecords /\ r.pc = "drain"
        BY <4>1 DEF CallTypes, CallRecords
      <4>3. call' = [call EXCEPT ![p] = r]
        BY <3>1
      <4>. HIDE DEF r
      <4>4. QED
        BY <4>2, <4>3, UpdateTypes
    <3>2. QED
      BY <1>4, <3>1, ReturnTypes DEF FindInWalk
  <2>3. PipeTypes' /\ IndTypes' /\ UNCHANGED dereg
    BY <2>1, CallFrame DEF PipeTypes
  <2>4. QED
    BY <2>1, <2>2, <2>3 DEF IdTypes, ListTypes
<1>5. CASE DrainClient(p)
  <2>1. CallTypes'
    BY <1>5, GotoTypes DEF DrainClient
  <2>2. ctlList' \in Seq(Msgs)
    BY <1>5 DEF DrainClient, ListTypes
  <2>3. UNCHANGED <<pipeFrame, modemBox, mClientMemList, mClientMemLock, file,
                    requests, modem, dwalk>>
    BY <1>5 DEF DrainClient
  <2>4. PipeTypes' /\ IndTypes' /\ UNCHANGED dereg
    BY <2>3, CallFrame DEF PipeTypes
  <2>5. QED
    BY <2>1, <2>2, <2>3, <2>4 DEF IdTypes, ListTypes
<1>6. CASE DeleteClientMem(p)
  <2>1. CallTypes'
    BY <1>6, GotoTypes DEF DeleteClientMem
  <2>2. mClientMemList' \in Seq(Clients)
    <3>1. ASSUME InMemList(call[p].pos)
          PROVE  PlaceOf(call[p].pos) \in 1..Len(mClientMemList)
      BY <3>1 DEF InMemList, PlaceOf
    <3>2. QED
      BY <1>6, <3>1, RemovalTypes DEF DeleteClientMem, ListTypes
  <2>3. UNCHANGED <<pipeFrame, modemBox, mClientMemLock, ctlList, file, requests,
                    modem, dwalk>>
    BY <1>6 DEF DeleteClientMem
  <2>4. PipeTypes' /\ IndTypes' /\ UNCHANGED dereg
    BY <2>3, CallFrame DEF PipeTypes
  <2>5. QED
    BY <2>1, <2>2, <2>3, <2>4 DEF IdTypes, ListTypes
<1>7. CASE WalkOn(p)
  <2>1. UNCHANGED <<pipeFrame, modemBox, listVars, file, requests, modem, dwalk>>
    BY <1>7 DEF WalkOn
  <2>2. CallTypes'
    <3>. DEFINE e == call[p].safe
                r == [call[p] EXCEPT !.pc = "drain", !.pos = e, !.safe = After(e)]
                q == [call[p] EXCEPT !.safe = After(e)]
    <3>1. e \in Entries /\ After(e) \in Entries
      BY EntryTyped DEF CallTypes, CallRecords, After
    <3>2. r \in CallRecords /\ r.pc = "drain"
      BY <3>1 DEF CallTypes, CallRecords
    <3>3. q \in CallRecords /\ q.pc = call[p].pc /\ q.pc = "next"
      BY <1>7, <3>1 DEF CallTypes, CallRecords, WalkOn
    <3>4. \/ Return(p) \/ Goto(p, "fault")
          \/ call' = [call EXCEPT ![p] = r] \/ call' = [call EXCEPT ![p] = q]
      BY <1>7 DEF WalkOn
    <3>. HIDE DEF r, q
    <3>5. QED
      BY <3>2, <3>3, <3>4, ReturnTypes, GotoTypes, UpdateTypes
  <2>3. PipeTypes' /\ IndTypes' /\ UNCHANGED dereg
    BY <2>1, CallFrame DEF PipeTypes
  <2>4. QED
    BY <2>1, <2>2, <2>3 DEF IdTypes, ListTypes
<1>8. QED
  BY <1>1, <1>2, <1>3, <1>4, <1>5, <1>6, <1>7 DEF ReleaseStep

LEMMA FileTypes ==
    ASSUME Types, NEW p \in Procs, NEW f \in Files, CloseBy(p, f),
           UNCHANGED <<pipeVars, requests, modem, dwalk>>
    PROVE  Types'
<1>. USE DEF Types, pipeVars, urbVars, modemBox, indVars, listVars
<1>1. file[f].id # NONE => file[f].id \in ClientIds \cup {QMICTL}
  BY DEF IdTypes
<1>2. CallTypes'
  BY <1>1, StartTypes DEF CloseBy, CallTypes
<1>3. file' \in [Files -> [open : BOOLEAN, id : ClientIds \cup {NONE}]]
  BY DEF CloseBy, IdTypes
<1>4. QED
  BY <1>2, <1>3 DEF PipeTypes, IndTypes, IdTypes, ListTypes

LEMMA TypesStep ==
    ASSUME Types, [Next]_vars
    PROVE  Types'
<1>1. CASE UNCHANGED vars
  BY <1>1 DEF Types, PipeTypes, IndTypes, CallTypes, ListTypes, IdTypes, vars, pipeVars,
     idVars, urbVars, modemBox, indVars, listVars
<1>2. CASE PipeStep /\ UNCHANGED idVars
  BY <1>2, PipeStepTypes
<1>3. ASSUME NEW f \in Files, UserspaceOpen(f)
      PROVE  Types'
  <2>1. file' \in [Files -> [open : BOOLEAN, id : ClientIds \cup {NONE}]]
    BY <1>3 DEF UserspaceOpen, Types, IdTypes
  <2>2. QED
    BY <1>3, <2>1 DEF UserspaceOpen, Types, PipeTypes, IndTypes, CallTypes, ListTypes,
       IdTypes, pipeVars, urbVars, modemBox, indVars, listVars
<1>4. ASSUME NEW f \in Files, UserspaceClose(f) \/ CloseOpenFile(f)
      PROVE  Types'
  BY <1>4, FileTypes DEF UserspaceClose, CloseOpenFile, Procs
<1>5. CASE DeregisterQMIDevice \/ FilesClosed
  <2>1. dwalk' \in Entries
    BY <1>5, EntryTyped DEF DeregisterQMIDevice, FilesClosed, Types, IdTypes, idVars
  <2>2. dereg' \in {"clients", "valid"}
    BY <1>5 DEF DeregisterQMIDevice, FilesClosed, ThenDereg
  <2>3. UNCHANGED <<deregFrame, file, call, requests, modem>>
    BY <1>5 DEF DeregisterQMIDevice, FilesClosed, idVars
  <2>4. QED
    BY <2>1, <2>2, <2>3 DEF Types, PipeTypes, IndTypes, CallTypes, ListTypes,
       IdTypes, deregFrame, urbVars, modemBox, indVars, listVars
<1>6. CASE ReleaseNext
  <2>1. DEREG \in Procs
    BY DEF Procs
  <2>2. dwalk' \in Entries
    BY <1>6, EntryTyped DEF ReleaseNext, After, Types, IdTypes
  <2>3. CallTypes'
    <3>1. ASSUME dwalk # END
          PROVE  dwalk.id \in ClientIds \cup {QMICTL}
      BY <3>1 DEF Types, IdTypes, Entries, Clients
    <3>2. QED
      BY <1>6, <2>1, <3>1, StartTypes, GotoTypes DEF ReleaseNext, Types, CallTypes
  <2>4. dereg' \in {dereg, "killread"}
    BY <1>6 DEF ReleaseNext
  <2>5. UNCHANGED <<deregFrame, file, requests, modem>>
    BY <1>6 DEF ReleaseNext
  <2>6. QED
    BY <2>2, <2>3, <2>4, <2>5 DEF Types, PipeTypes, IndTypes, ListTypes, IdTypes,
       deregFrame, urbVars, modemBox, indVars, listVars
<1>7. QED
  BY <1>1, <1>2, <1>3, <1>4, <1>5, <1>6, GetTypes, ReleaseTypes DEF Next

LEMMA TypesHold == Spec => []Types
<1>1. QED
  BY InitTypes, TypesStep, PTL DEF Spec

(* Type correctness of the pipe, the lists, the files and the calls, for   *)
(* every number of files, IDs, requests and indications.                   *)
THEOREM TypeCorrect == Spec => []TypeOK
<1>1. QED
  BY TypesHold, TypesGiveTypeOK, PTL

-----------------------------------------------------------------------------
(***************************************************************************)
(* The indications.                                                        *)
(***************************************************************************)

LEMMA CountedStep ==
    ASSUME Types, OneTransfer, IndicationsCounted, [Next]_vars
    PROVE  IndicationsCounted'
<1>. USE DEF IndicationsCounted, urbVars, modemBox, indVars, listVars
<1>0. Len(indList) \in Nat /\ responseReadSem \in Nat
  BY LenProperties DEF Types, IndTypes
<1>1. CASE OutsidePipe
  BY <1>1 DEF OutsidePipe
<1>2. CASE PipeStep
  <2>1. CASE IntCallbackResponse \/ IntCallbackOther \/ ReadCallbackError
    BY <2>1 DEF IntCallbackResponse, IntCallbackOther, ReadCallbackError
  <2>2. CASE ReadCallback
    <3>1. cb = Idle
      BY <2>2 DEF ReadCallback, OneTransfer, Types, PipeTypes
    <3>2. QED
      BY <2>2, <3>1 DEF ReadCallback, Idle
  <2>3. CASE AddToProcessIndList
    <3>1. Len(Append(indList, cb.msg.num)) = Len(indList) + 1
      BY AppendProperties DEF Types, IndTypes
    <3>2. mbQMIValid => cb'.pc = "up"
      BY <2>3 DEF AddToProcessIndList, Types, PipeTypes, Idle
    <3>3. QED
      BY <1>0, <2>3, <3>1, <3>2 DEF AddToProcessIndList
  <2>4. CASE UpIndication
    <3>1. cb'.pc = "store" /\ cb.pc = "up"
      BY <2>4 DEF UpIndication, Types, PipeTypes, Idle
    <3>2. thread.pc = "asleep" => thread'.pc = "woken"
      BY <2>4 DEF UpIndication, Up, Types, IndTypes
    <3>3. QED
      BY <1>0, <2>4, <3>1, <3>2 DEF UpIndication, Up
  <2>5. CASE StoreAndResubmit
    BY <2>5 DEF StoreAndResubmit, Idle
  <2>6. CASE SendIndication
    BY <2>6 DEF SendIndication
  <2>7. CASE GobiWaitForResponses
    <3>. USE DEF threadFrame, Types, IndTypes
    <3>1. CASE TestShouldStop
      BY <1>0, <3>1 DEF TestShouldStop
    <3>2. CASE DownInterruptible
      <4>1. responseReadSem > 0 => thread'.pc = "woken"
        BY <3>2 DEF DownInterruptible
      <4>2. QED
        BY <1>0, <3>2, <4>1 DEF DownInterruptible
    <3>3. CASE TakeIndication
      <4>1. indList # << >> => Len(Tail(indList)) = Len(indList) - 1
        BY HeadTailProperties
      <4>2. indList = << >> => Len(indList) = 0
        BY LenProperties
      <4>3. QED
        BY <1>0, <3>3, <4>1, <4>2 DEF TakeIndication
    <3>4. CASE HandleIndication
      BY <1>0, <3>4 DEF HandleIndication
    <3>5. QED
      BY <2>7, <3>1, <3>2, <3>3, <3>4 DEF GobiWaitForResponses
  <2>8. CASE KillReadURB \/ KillIntURB \/ FreeReadBuffers \/ ThreadStopped
    BY <2>8 DEF KillReadURB, KillIntURB, FreeReadBuffers, ThreadStopped
  <2>9. CASE Invalidate
    BY <2>9 DEF Invalidate
  <2>10. CASE DropIndications
    <3>1. Len(indList') = 0
      BY <2>10 DEF DropIndications
    <3>2. QED
      BY <1>0, <2>10, <3>1 DEF DropIndications
  <2>11. CASE WakeThread
    <3>1. thread.pc = "asleep" => thread'.pc = "woken"
      BY <2>11 DEF WakeThread, Up, Types, IndTypes
    <3>2. QED
      BY <1>0, <2>11, <3>1 DEF WakeThread, Up
  <2>12. QED
    BY <1>2, <2>1, <2>2, <2>3, <2>4, <2>5, <2>6, <2>7, <2>8, <2>9, <2>10, <2>11
       DEF PipeStep, Callbacks, DeregisterTail
<1>3. QED
  BY <1>1, <1>2, StepCases

(* As long as the device is valid, every indication in the list is matched *)
(* by a count of the semaphore, by the thread on its way to the list or by *)
(* the up() that AddToProcessIndList owes: GobiWaitForResponses never      *)
(* sleeps while an indication waits.                                       *)
THEOREM IndicationsCountedTheorem == Spec => []IndicationsCounted
<1>1. Init => IndicationsCounted
  BY DEF Init, PipeInit, IndicationsCounted, Idle
<1>2. Types /\ OneTransfer /\ IndicationsCounted /\ [Next]_vars => IndicationsCounted'
  BY CountedStep
<1>3. QED
  BY <1>1, <1>2, TypesHold, OneTransferTheorem, PTL DEF Spec

-----------------------------------------------------------------------------
(***************************************************************************)
(* The order of the indications.  On their way they are, from the oldest:  *)
(* handled, the thread's entry, indList, ReadCallback's message, outbox.   *)
(***************************************************************************)

(* n is newer than what has reached the lists h and l and the thread t. *)
Above(h, l, t, n) ==
    /\ \A i \in 1..Len(h) : h[i] < n
    /\ \A i \in 1..Len(l) : l[i] < n
    /\ t.pc = "handle" => t.ind < n

ListsAscend(h, l, t) ==
    /\ \A i, j \in 1..Len(h) : i < j => h[i] < h[j]
    /\ \A i, j \in 1..Len(l) : i < j => l[i] < l[j]
    /\ \A i \in 1..Len(h), j \in 1..Len(l) : h[i] < l[j]
    /\ t.pc = "handle" =>
          /\ \A i \in 1..Len(h) : h[i] < t.ind
          /\ \A j \in 1..Len(l) : t.ind < l[j]

OutboxAscends(q) ==
    \A i, j \in 1..Len(q) :
        i < j /\ q[i].kind = "ind" /\ q[j].kind = "ind" => q[i].num < q[j].num

(* n is on its way to the lists, behind what they hold. *)
Newer(n) == Above(handled, indList, thread, n) /\ n <= inds

InOrder ==
    /\ ListsAscend(handled, indList, thread)
    /\ OutboxAscends(outbox)
    /\ cb.pc = "list" => Newer(cb.msg.num)
    /\ \A k \in 1..Len(outbox) : outbox[k].kind = "ind" =>
          /\ Newer(outbox[k].num)
          /\ cb.pc = "list" => cb.msg.num < outbox[k].num
    /\ Above(handled, indList, thread, inds + 1)

(* Elements of the sequences, and of what the steps make of them.          *)
LEMMA AppendElements ==
    ASSUME NEW S, NEW q \in Seq(S), NEW e
    PROVE  /\ Len(q) \in Nat /\ Len(Append(q, e)) = Len(q) + 1
           /\ \A i \in 1..Len(q) : Append(q, e)[i] = q[i]
           /\ Append(q, e)[Len(q) + 1] = e
           /\ \A i \in 1..Len(Append(q, e)) : i \in 1..Len(q) \/ i = Len(q) + 1
<1>1. q \in Seq(S \cup {e}) /\ Len(q) \in Nat
  BY LenProperties
<1>2. /\ Len(Append(q, e)) = Len(q) + 1
      /\ \A i \in 1..Len(q) : Append(q, e)[i] = q[i]
      /\ Append(q, e)[Len(q) + 1] = e
  BY <1>1, AppendProperties
<1>3. QED
  BY <1>1, <1>2

LEMMA TailElements ==
    ASSUME NEW S, NEW q \in Seq(S), q # << >>
    PROVE  /\ Len(q) \in Nat \ {0} /\ Len(Tail(q)) = Len(q) - 1
           /\ Head(q) = q[1] /\ 1 \in 1..Len(q)
           /\ \A i \in 1..Len(Tail(q)) :
                 Tail(q)[i] = q[i + 1] /\ i + 1 \in 1..Len(q) /\ 1 < i + 1
<1>1. Len(q) \in Nat \ {0} /\ Len(Tail(q)) = Len(q) - 1 /\ Head(q) = q[1]
  BY HeadTailProperties, LenProperties, EmptySeq
<1>2. \A i \in 1..Len(Tail(q)) : Tail(q)[i] = q[i + 1]
  BY HeadTailProperties
<1>3. QED
  BY <1>1, <1>2

LEMMA OutboxTail ==
    ASSUME NEW S, NEW q \in Seq(S), q # << >>, OutboxAscends(q)
    PROVE  OutboxAscends(Tail(q))
<1>1. /\ Len(Tail(q)) \in Nat
      /\ \A i \in 1..Len(Tail(q)) : Tail(q)[i] = q[i + 1] /\ i + 1 \in 1..Len(q)
  BY TailElements
<1>2. \A i, j \in 1..Len(Tail(q)) : i < j => i + 1 < j + 1
  BY <1>1
<1>3. QED
  BY <1>1, <1>2 DEF OutboxAscends

(* Appending an answer, or an indication newer than all in the outbox. *)
LEMMA OutboxAppend ==
    ASSUME NEW S, NEW q \in Seq(S), NEW e, OutboxAscends(q),
           e.kind = "ind" => \A i \in 1..Len(q) : q[i].kind = "ind" => q[i].num < e.num
    PROVE  OutboxAscends(Append(q, e))
<1>1. SUFFICES ASSUME NEW i \in 1..Len(Append(q, e)), NEW j \in 1..Len(Append(q, e)), i < j,
                      Append(q, e)[i].kind = "ind", Append(q, e)[j].kind = "ind"
               PROVE  Append(q, e)[i].num < Append(q, e)[j].num
  BY DEF OutboxAscends
<1>2. i \in 1..Len(q) /\ Append(q, e)[i] = q[i]
  BY <1>1, AppendElements
<1>3. CASE j \in 1..Len(q)
  BY <1>1, <1>2, <1>3, AppendElements DEF OutboxAscends
<1>4. CASE j = Len(q) + 1
  BY <1>1, <1>2, <1>4, AppendElements
<1>5. QED
  BY <1>3, <1>4, AppendElements

(* Steps that touch neither list nor entry and add no indication.          *)
LEMMA FewerMessages ==
    ASSUME Types, InOrder, UNCHANGED <<indList, handled, inds>>,
           thread' = thread \/ thread'.pc # "handle",
           cb' = cb \/ cb'.pc # "list",
           \/ outbox' = outbox
           \/ outbox # << >> /\ outbox' = Tail(outbox)
           \/ \E m : m.kind # "ind" /\ outbox' = Append(outbox, m)
    PROVE  InOrder'
<1>1. \A n : Above(handled, indList, thread, n) => Above(handled', indList', thread', n)
  BY DEF Above
<1>2. ListsAscend(handled', indList', thread')
  BY DEF InOrder, ListsAscend
<1>. DEFINE Old(k) == \E l \in 1..Len(outbox) : outbox'[k] = outbox[l]
<1>3. outbox \in Seq(Msgs) /\ OutboxAscends(outbox)
  BY DEF InOrder, Types, PipeTypes
<1>4. /\ OutboxAscends(outbox')
      /\ \A k \in 1..Len(outbox') : outbox'[k].kind = "ind" => Old(k)
  <2>1. CASE outbox' = outbox
    BY <1>3, <2>1
  <2>2. CASE outbox # << >> /\ outbox' = Tail(outbox)
    BY <1>3, <2>2, OutboxTail, TailElements
  <2>3. ASSUME NEW m, m.kind # "ind", outbox' = Append(outbox, m)
        PROVE  /\ OutboxAscends(outbox')
               /\ \A k \in 1..Len(outbox') : outbox'[k].kind = "ind" => Old(k)
    <3>1. OutboxAscends(outbox')
      BY <1>3, <2>3, OutboxAppend
    <3>2. \A k \in 1..Len(outbox') :
             \/ k \in 1..Len(outbox) /\ outbox'[k] = outbox[k]
             \/ outbox'[k] = m
      BY <1>3, <2>3, AppendElements
    <3>3. QED
      BY <2>3, <3>1, <3>2
  <2>4. QED
    BY <2>1, <2>2, <2>3
<1>5. QED
  BY <1>1, <1>2, <1>4 DEF InOrder, Newer

(* ReadCallback takes the first message of the outbox.                     *)
LEMMA ReadInOrder ==
    ASSUME Types, InOrder, UNCHANGED <<indList, handled, inds, thread>>,
           outbox # << >>, outbox' = Tail(outbox),
           cb' = [pc |-> "list", msg |-> Head(outbox)], Head(outbox).kind = "ind"
    PROVE  InOrder'
<1>1. /\ Head(outbox) = outbox[1] /\ 1 \in 1..Len(outbox)
      /\ \A k \in 1..Len(outbox') :
            outbox'[k] = outbox[k + 1] /\ k + 1 \in 1..Len(outbox) /\ 1 < k + 1
  BY TailElements DEF Types, PipeTypes
<1>2. cb'.msg = outbox[1] /\ outbox[1].kind = "ind"
  BY <1>1
<1>3. Newer(outbox[1].num)
  BY <1>1, <1>2 DEF InOrder
<1>4. \A k \in 1..Len(outbox') : outbox'[k].kind = "ind" =>
         Newer(outbox'[k].num) /\ outbox[1].num < outbox'[k].num
  BY <1>1, <1>2 DEF InOrder, OutboxAscends
<1>5. OutboxAscends(outbox')
  BY OutboxTail DEF InOrder, Types, PipeTypes
<1>6. QED
  BY <1>2, <1>3, <1>4, <1>5 DEF InOrder, Newer

(* AddToProcessIndList appends ReadCallback's message to the list.         *)
LEMMA ListInOrder ==
    ASSUME Types, InOrder, UNCHANGED <<handled, inds, thread, outbox>>,
           cb.pc = "list", cb'.pc # "list", indList' = Append(indList, cb.msg.num)
    PROVE  InOrder'
<1>. DEFINE n == cb.msg.num
<1>1. /\ Len(indList) \in Nat /\ Len(indList') = Len(indList) + 1
      /\ \A i \in 1..Len(indList) : indList'[i] = indList[i]
      /\ indList'[Len(indList) + 1] = n
      /\ \A i \in 1..Len(indList') : i \in 1..Len(indList) \/ i = Len(indList) + 1
  BY AppendElements DEF Types, IndTypes
<1>2. Above(handled, indList, thread, n) /\ n <= inds
  BY DEF InOrder, Newer
<1>3. ListsAscend(handled', indList', thread')
  <2>1. \A i, j \in 1..Len(indList') : i < j => i \in 1..Len(indList)
    BY <1>1
  <2>2. QED
    BY <1>1, <1>2, <2>1 DEF InOrder, ListsAscend, Above
<1>4. \A k : Above(handled, indList, thread, k) /\ n < k
              => Above(handled', indList', thread', k)
  BY <1>1 DEF Above
<1>5. n < inds + 1
  <2>1. n \in Nat /\ inds \in Nat
    BY DEF Types, PipeTypes, Msgs, Messages, Idle
  <2>2. QED
    BY <1>2, <2>1
<1>6. QED
  BY <1>3, <1>4, <1>5 DEF InOrder, Newer

(* The thread takes the first entry of the list.                           *)
LEMMA TakeInOrder ==
    ASSUME Types, InOrder, UNCHANGED <<handled, inds, cb, outbox>>,
           indList # << >>, indList' = Tail(indList),
           thread' = [pc |-> "handle", ind |-> Head(indList)]
    PROVE  InOrder'
<1>1. /\ Head(indList) = indList[1] /\ 1 \in 1..Len(indList)
      /\ Len(indList') \in Nat
      /\ \A i \in 1..Len(indList') :
            indList'[i] = indList[i + 1] /\ i + 1 \in 1..Len(indList) /\ 1 < i + 1
  BY TailElements DEF Types, IndTypes
<1>2. ListsAscend(handled', indList', thread')
  <2>1. \A i, j \in 1..Len(indList') : i < j => i + 1 < j + 1
    BY <1>1
  <2>2. QED
    BY <1>1, <2>1 DEF InOrder, ListsAscend
<1>3. \A n : Above(handled, indList, thread, n) => Above(handled', indList', thread', n)
  BY <1>1 DEF Above
<1>4. QED
  BY <1>2, <1>3 DEF InOrder, Newer

(* The thread handles its entry.                                           *)
LEMMA HandleInOrder ==
    ASSUME Types, InOrder, UNCHANGED <<indList, inds, cb, outbox>>,
           thread.pc = "handle", thread' = [pc |-> "loop", ind |-> 0],
           handled' = Append(handled, thread.ind)
    PROVE  InOrder'
<1>1. /\ Len(handled) \in Nat
      /\ \A i \in 1..Len(handled) : handled'[i] = handled[i]
      /\ handled'[Len(handled) + 1] = thread.ind
      /\ \A i \in 1..Len(handled') : i \in 1..Len(handled) \/ i = Len(handled) + 1
  BY AppendElements DEF Types, IndTypes
<1>2. ListsAscend(handled', indList', thread')
  <2>1. \A i, j \in 1..Len(handled') : i < j => i \in 1..Len(handled)
    BY <1>1
  <2>2. QED
    BY <1>1, <2>1 DEF InOrder, ListsAscend
<1>3. \A n : Above(handled, indList, thread, n) => Above(handled', indList', thread', n)
  BY <1>1 DEF Above
<1>4. QED
  BY <1>2, <1>3 DEF InOrder, Newer

(* DeregisterQMIDevice drops the list.                                     *)
LEMMA DropInOrder ==
    ASSUME InOrder, UNCHANGED <<handled, inds, cb, outbox, thread>>, indList' = << >>
    PROVE  InOrder'
<1>1. 1..Len(indList') = {}
  OBVIOUS
<1>2. ListsAscend(handled', indList', thread')
  BY <1>1 DEF InOrder, ListsAscend
<1>3. \A n : Above(handled, indList, thread, n) => Above(handled', indList', thread', n)
  BY <1>1 DEF Above
<1>4. QED
  BY <1>2, <1>3 DEF InOrder, Newer

(* The modem sends the next indication.                                    *)
LEMMA SendInOrder ==
    ASSUME Types, InOrder, UNCHANGED <<indList, handled, thread, cb>>,
           inds' = inds + 1,
           outbox' = Append(outbox, [kind |-> "ind", num |-> inds + 1, id |-> QMIWDS])
    PROVE  InOrder'
<1>1. /\ inds \in Nat /\ \A i \in 1..Len(handled) : handled[i] \in Nat
      /\ \A i \in 1..Len(indList) : indList[i] \in Nat
      /\ thread.ind \in Nat
      /\ cb.pc = "list" => cb.msg.num \in Nat
      /\ \A k \in 1..Len(outbox) : outbox[k].num \in Nat
  <2>1. /\ inds \in Nat
        /\ \A i \in 1..Len(handled) : handled[i] \in Nat
        /\ \A i \in 1..Len(indList) : indList[i] \in Nat
    <3>1. /\ inds \in 0..MaxIndications
          /\ handled \in Seq(1..MaxIndications) /\ indList \in Seq(1..MaxIndications)
      BY DEF Types, PipeTypes, IndTypes
    <3>2. /\ \A i \in 1..Len(handled) : handled[i] \in 1..MaxIndications
          /\ \A i \in 1..Len(indList) : indList[i] \in 1..MaxIndications
      BY <3>1, ElementOfSeq
    <3>3. QED
      BY <3>1, <3>2
  <2>2. /\ cb.pc = "list" => cb.msg.num \in Nat
        /\ \A k \in 1..Len(outbox) : outbox[k].num \in Nat
    BY ElementOfSeq DEF Types, PipeTypes, Msgs, Messages, Idle
  <2>3. thread.ind \in Nat
    BY DEF Types, IndTypes
  <2>4. QED
    BY <2>1, <2>2, <2>3
<1>. DEFINE e == [kind |-> "ind", num |-> inds + 1, id |-> QMIWDS]
<1>2. e.num = inds + 1 /\ e.kind = "ind" /\ outbox' = Append(outbox, e)
  OBVIOUS
<1>. HIDE DEF e
<1>3. \A k \in 1..Len(outbox) : outbox[k].kind = "ind" => outbox[k].num < e.num
  BY <1>1, <1>2 DEF InOrder, Newer
<1>4. OutboxAscends(outbox')
  BY <1>2, <1>3, OutboxAppend DEF InOrder, Types, PipeTypes
<1>5. Above(handled, indList, thread, inds + 2)
  <2>1. Above(handled, indList, thread, inds + 1)
    BY DEF InOrder
  <2>2. QED
    BY <1>1, <2>1 DEF Above
<1>6. \A n \in Nat : Newer(n) => n <= inds'
  BY <1>1 DEF Newer
<1>7. \A k \in 1..Len(outbox') :
         \/ k \in 1..Len(outbox) /\ outbox'[k] = outbox[k]
         \/ outbox'[k] = e
  BY <1>2, AppendElements DEF Types, PipeTypes
<1>8. cb.pc = "list" => cb.msg.num < e.num
  BY <1>1, <1>2 DEF InOrder, Newer
<1>9. inds' + 1 = inds + 2 /\ inds + 1 <= inds'
  BY <1>1
<1>10. QED
  BY <1>1, <1>2, <1>4, <1>5, <1>6, <1>7, <1>8, <1>9 DEF InOrder, Newer

LEMMA InOrderStep ==
    ASSUME Types, OneTransfer, InOrder, [Next]_vars
    PROVE  InOrder'
<1>. USE DEF urbVars, modemBox, indVars, listVars
<1>1. CASE OutsidePipe
  BY <1>1, FewerMessages DEF OutsidePipe
<1>2. CASE PipeStep
  <2>1. CASE IntCallbackResponse \/ IntCallbackOther \/ ReadCallbackError
    BY <2>1, FewerMessages DEF IntCallbackResponse, IntCallbackOther, ReadCallbackError
  <2>2. CASE ReadCallback
    <3>1. CASE Listed(Addressee(Head(outbox))) /\ Head(outbox).kind = "ind"
      BY <2>2, <3>1, ReadInOrder DEF ReadCallback
    <3>2. CASE ~(Listed(Addressee(Head(outbox))) /\ Head(outbox).kind = "ind")
      <4>1. cb' = cb \/ cb'.pc # "list"
        BY <2>2, <3>2 DEF ReadCallback
      <4>2. QED
        BY <2>2, <4>1, FewerMessages DEF ReadCallback
    <3>3. QED
      BY <3>1, <3>2
  <2>3. CASE AddToProcessIndList
    <3>1. cb'.pc # "list"
      BY <2>3 DEF AddToProcessIndList, Types, PipeTypes, Idle
    <3>2. QED
      BY <2>3, <3>1, ListInOrder, FewerMessages DEF AddToProcessIndList
  <2>4. CASE UpIndication
    <3>1. cb'.pc # "list" /\ (thread' = thread \/ thread'.pc # "handle")
      BY <2>4 DEF UpIndication, Up, Types, PipeTypes, IndTypes, Idle
    <3>2. QED
      BY <2>4, <3>1, FewerMessages DEF UpIndication
  <2>5. CASE StoreAndResubmit
    BY <2>5, FewerMessages DEF StoreAndResubmit, Idle
  <2>6. CASE SendIndication
    BY <2>6, SendInOrder DEF SendIndication
  <2>7. CASE TestShouldStop \/ DownInterruptible
    <3>1. thread'.pc # "handle"
      BY <2>7 DEF TestShouldStop, DownInterruptible, Types, IndTypes
    <3>2. QED
      BY <2>7, <3>1, FewerMessages DEF TestShouldStop, DownInterruptible, threadFrame
  <2>8. CASE TakeIndication
    <3>1. CASE mbQMIValid /\ indList # << >>
      BY <2>8, <3>1, TakeInOrder DEF TakeIndication, threadFrame
    <3>2. CASE ~(mbQMIValid /\ indList # << >>)
      <4>1. thread'.pc # "handle" /\ indList' = indList
        BY <2>8, <3>2 DEF TakeIndication, Types, IndTypes
      <4>2. QED
        BY <2>8, <4>1, FewerMessages DEF TakeIndication, threadFrame
    <3>3. QED
      BY <3>1, <3>2
  <2>9. CASE HandleIndication
    BY <2>9, HandleInOrder DEF HandleIndication, threadFrame
  <2>10. CASE KillReadURB \/ KillIntURB \/ FreeReadBuffers \/ Invalidate \/ ThreadStopped
    BY <2>10, FewerMessages
       DEF KillReadURB, KillIntURB, FreeReadBuffers, Invalidate, ThreadStopped
  <2>11. CASE DropIndications
    BY <2>11, DropInOrder DEF DropIndications
  <2>12. CASE WakeThread
    <3>1. thread' = thread \/ thread'.pc # "handle"
      BY <2>12 DEF WakeThread, Up, Types, IndTypes
    <3>2. QED
      BY <2>12, <3>1, FewerMessages DEF WakeThread
  <2>13. QED
    BY <1>2, <2>1, <2>2, <2>3, <2>4, <2>5, <2>6, <2>7, <2>8, <2>9, <2>10, <2>11, <2>12
       DEF PipeStep, Callbacks, DeregisterTail, GobiWaitForResponses
<1>3. QED
  BY <1>1, <1>2, StepCases

(* GobiWaitForResponses handles the indications in the order in which the  *)
(* modem sent them: the outbox, ReadCallback, the list and the thread's    *)
(* entry hold them in that order at every moment.                          *)
THEOREM HandledInOrderTheorem == Spec => []HandledInOrder
<1>1. Init => InOrder
  BY DEF Init, PipeInit, InOrder, ListsAscend, OutboxAscends, Above, Newer, Idle
<1>2. Types /\ OneTransfer /\ InOrder /\ [Next]_vars => InOrder'
  BY InOrderStep
<1>3. InOrder => HandledInOrder
  BY DEF InOrder, ListsAscend, HandledInOrder
<1>4. QED
  BY <1>1, <1>2, <1>3, TypesHold, OneTransferTheorem, PTL DEF Spec

-----------------------------------------------------------------------------
(***************************************************************************)
(* The answers.  A transaction ID stands for one request out of TxMod.     *)
(***************************************************************************)
(* Division with a remainder.                                              *)
LEMMA DivMod ==
    ASSUME NEW n \in Nat, NEW m \in Nat, m > 0
    PROVE  /\ n \div m \in Nat /\ n % m \in 0..(m - 1)
           /\ n = m * (n \div m) + (n % m)
  BY SMT

LEMMA MultipleStep ==
    ASSUME NEW q \in Nat, NEW r \in Nat, NEW m \in Nat, q < r
    PROVE  m * q + m <= m * r
  BY SMT

(* Requests with one transaction ID are equal, or TxMod apart.             *)
LEMMA SameTx ==
    ASSUME NEW a \in Nat, NEW b \in Nat, Tx(a) = Tx(b)
    PROVE  a = b \/ a + TxMod <= b \/ b + TxMod <= a
<1>. DEFINE q == a \div TxMod
            r == b \div TxMod
<1>1. /\ q \in Nat /\ r \in Nat /\ TxMod \in Nat
      /\ a = TxMod * q + Tx(a) /\ b = TxMod * r + Tx(b) /\ Tx(a) \in Nat
  BY DivMod, TxModAssumption DEF Tx
<1>. HIDE DEF q, r
<1>2. CASE q = r
  BY <1>1, <1>2
<1>3. CASE q < r
  <2>1. TxMod * q + TxMod <= TxMod * r
    BY <1>1, <1>3, MultipleStep
  <2>2. TxMod * q \in Nat /\ TxMod * r \in Nat
    BY <1>1
  <2>. DEFINE x == TxMod * q
              y == TxMod * r
  <2>. HIDE DEF x, y
  <2>3. QED
    BY <1>1, <2>1, <2>2 DEF x, y
<1>4. CASE r < q
  <2>1. TxMod * r + TxMod <= TxMod * q
    BY <1>1, <1>4, MultipleStep
  <2>2. TxMod * q \in Nat /\ TxMod * r \in Nat
    BY <1>1
  <2>3. QED
    BY <1>1, <2>1, <2>2
<1>5. QED
  BY <1>1, <1>2, <1>3, <1>4

(* The number 0 is skipped.                                                *)
LEMMA NextNotZero ==
    ASSUME requests \in Nat
    PROVE  NextRequest \in Nat /\ Tx(NextRequest) # 0
<1>1. ASSUME NEW n \in Nat, Tx(n) = 0
      PROVE  Tx(n + 1) # 0
  <2>1. SUFFICES ASSUME Tx(n) = Tx(n + 1) PROVE FALSE
    BY <1>1
  <2>2. QED
    BY <2>1, SameTx, TxModAssumption
<1>2. CASE Tx(requests + 1) = 0
  BY <1>1, <1>2 DEF NextRequest
<1>3. QED
  BY <1>2 DEF NextRequest


(* The requests of GetClientID have a transaction ID other than 0.         *)
Asked(r) == r.pc \in {"getwait", "check", "add", "set"} => Tx(r.req) # 0
Answered(r) == r.pc \in {"check", "add", "set"} =>
               \/ r.ans = r.req \/ r.ans + TxMod <= r.req \/ r.req + TxMod <= r.ans
OwnCalls == \A f \in Files : Asked(call[f]) /\ Answered(call[f])

(* Calls that stay out of the answers, and the next step of one in them.   *)
LEMMA OwnOut ==
    ASSUME Types, OwnCalls, NEW p \in Procs, NEW r,
           \/ r.pc \notin {"getwait", "check", "add", "set"}
           \/ /\ call[p].pc \in {"check", "add", "set"} /\ r.req = call[p].req
              /\ r.ans = call[p].ans,
           call' = [call EXCEPT ![p] = r]
    PROVE  OwnCalls'
  BY DEF OwnCalls, Asked, Answered, Types, CallTypes, Procs

LEMMA OwnGoto ==
    ASSUME Types, OwnCalls, NEW p \in Procs, NEW pc, Goto(p, pc),
           \/ pc \in {"walk", "del", "next", "fault"}
           \/ pc \in {"add", "set"} /\ call[p].pc \in {"check", "add"}
    PROVE  OwnCalls'
<1>. DEFINE r == [call[p] EXCEPT !.pc = pc]
<1>1. r.pc = pc /\ r.req = call[p].req /\ r.ans = call[p].ans
  BY DEF Types, CallTypes, CallRecords
<1>2. call' = [call EXCEPT ![p] = r]
  BY DEF Goto
<1>. HIDE DEF r
<1>3. QED
  BY <1>1, <1>2, OwnOut

LEMMA OwnReturn ==
    ASSUME Types, OwnCalls, NEW p \in Procs, Return(p)
    PROVE  OwnCalls'
  BY NoCallTyped, OwnOut DEF Return

LEMMA OwnStart ==
    ASSUME Types, OwnCalls, NEW p \in Procs, NEW id, StartRelease(p, id)
    PROVE  OwnCalls'
<1>1. CallAt("relreq", id, 0).pc = "relreq"
  BY DEF CallAt
<1>2. QED
  BY <1>1, OwnOut DEF StartRelease

LEMMA OwnGetStep ==
    ASSUME Types, OwnCalls, NEW f \in Files, GetStep(f)
    PROVE  OwnCalls'
<1>. f \in Procs
  BY DEF Procs
<1>1. CASE GetClientID(f)
  <2>. DEFINE r == CallAt("getwait", NONE, NextRequest)
  <2>1. r.pc = "getwait" /\ r.req = NextRequest
    BY DEF CallAt
  <2>2. Tx(NextRequest) # 0
    BY NextNotZero, BoundsAssumption DEF Types, IdTypes
  <2>3. call' = [call EXCEPT ![f] = r]
    BY <1>1 DEF GetClientID
  <2>. HIDE DEF r
  <2>4. QED
    BY <2>1, <2>2, <2>3 DEF OwnCalls, Asked, Answered, Types, CallTypes, Procs
<1>2. ASSUME NEW i \in 1..Len(ctlList), GetClientIDResp(f, i)
      PROVE  OwnCalls'
  <2>1. CASE ctlList[i].kind = "get" /\ ctlList[i].id # NONE
    <3>. DEFINE r == [call[f] EXCEPT !.pc = "check", !.id = ctlList[i].id,
                                     !.ans = ctlList[i].num]
    <3>1. r.pc = "check" /\ r.ans = ctlList[i].num /\ r.req = call[f].req
      BY DEF Types, CallTypes, CallRecords
    <3>2. call' = [call EXCEPT ![f] = r]
      BY <1>2, <2>1 DEF GetClientIDResp
    <3>3. Tx(call[f].req) # 0 /\ call[f].req \in Nat
      BY <1>2, BoundsAssumption DEF GetClientIDResp, OwnCalls, Asked, Types, CallTypes,
         CallRecords
    <3>4. Tx(ctlList[i].num) = Tx(call[f].req)
      BY <1>2, <3>3 DEF GetClientIDResp, TakeAnswer, Matching
    <3>5. ctlList[i].num \in Nat
      <4>1. ctlList[i] \in Msgs
        BY ElementOfSeq DEF Types, ListTypes
      <4>2. QED
        BY <4>1, BoundsAssumption DEF Msgs, Messages
    <3>6. Asked(r) /\ Answered(r)
      BY <3>1, <3>3, <3>4, <3>5, SameTx DEF Asked, Answered
    <3>. HIDE DEF r
    <3>7. QED
      BY <3>2, <3>6 DEF OwnCalls, Types, CallTypes, Procs
  <2>2. CASE ~(ctlList[i].kind = "get" /\ ctlList[i].id # NONE)
    BY <1>2, <2>2, OwnReturn DEF GetClientIDResp
  <2>3. QED
    BY <2>1, <2>2
<1>3. CASE GetClientIDFails(f) \/ SetClientID(f)
  BY <1>3, OwnReturn DEF GetClientIDFails, SetClientID
<1>4. CASE VerifyNotAllocated(f) \/ AddClientMem(f)
  BY <1>4, OwnGoto, OwnReturn DEF VerifyNotAllocated, AddClientMem
<1>5. QED
  BY <1>1, <1>2, <1>3, <1>4 DEF GetStep

LEMMA OwnReleaseStep ==
    ASSUME Types, OwnCalls, NEW p \in Procs, ReleaseStep(p)
    PROVE  OwnCalls'
<1>. DEFINE Out(r) == r.pc \notin {"getwait", "check", "add", "set"}
                      /\ call' = [call EXCEPT ![p] = r]
<1>0. call[p] \in CallRecords
  BY DEF Types, CallTypes
<1>1. Return(p) \/ (\E pc \in {"walk", "del", "next", "fault"} : Goto(p, pc))
      \/ \E r : Out(r)
  <2>1. CASE ReleaseRequest(p)
    <3>. DEFINE r == [call[p] EXCEPT !.pc = "relwait", !.req = NextRequest]
    <3>1. r.pc = "relwait"
      BY <1>0 DEF CallRecords
    <3>2. \/ Return(p) \/ Goto(p, "walk") \/ call' = [call EXCEPT ![p] = r]
      BY <2>1 DEF ReleaseRequest
    <3>. HIDE DEF r
    <3>3. QED
      BY <3>1, <3>2
  <2>2. CASE ReleaseTimesOut(p) \/ DrainClient(p) \/ DeleteClientMem(p)
             \/ \E i \in 1..Len(ctlList) : ReleaseClientIDResp(p, i)
    BY <2>2 DEF ReleaseTimesOut, DrainClient, DeleteClientMem, ReleaseClientIDResp
  <2>3. CASE FindInWalk(p)
    <3>. DEFINE r(i) == [call[p] EXCEPT !.pc = "drain", !.pos = mClientMemList[i],
                                        !.safe = EntryAt(i + 1)]
    <3>1. \A i : r(i).pc = "drain"
      BY <1>0 DEF CallRecords
    <3>2. Return(p) \/ \E i : call' = [call EXCEPT ![p] = r(i)]
      BY <2>3 DEF FindInWalk
    <3>. HIDE DEF r
    <3>3. QED
      BY <3>1, <3>2
  <2>4. CASE WalkOn(p)
    <3>. DEFINE e == call[p].safe
                r == [call[p] EXCEPT !.pc = "drain", !.pos = e, !.safe = After(e)]
                q == [call[p] EXCEPT !.safe = After(e)]
    <3>1. r.pc = "drain" /\ q.pc = "next"
      BY <1>0, <2>4 DEF CallRecords, WalkOn
    <3>2. \/ Return(p) \/ Goto(p, "fault")
          \/ call' = [call EXCEPT ![p] = r] \/ call' = [call EXCEPT ![p] = q]
      BY <2>4 DEF WalkOn
    <3>. HIDE DEF r, q
    <3>3. QED
      BY <3>1, <3>2
  <2>5. QED
    BY <2>1, <2>2, <2>3, <2>4 DEF ReleaseStep
<1>2. QED
  BY <1>1, OwnReturn, OwnGoto, OwnOut

LEMMA OwnCallsStep ==
    ASSUME Types, OwnCalls, [Next]_vars
    PROVE  OwnCalls'
<1>1. CASE UNCHANGED call
  BY <1>1 DEF OwnCalls
<1>2. CASE ReleaseNext
  BY <1>1, <1>2, OwnStart, OwnGoto DEF ReleaseNext, Procs
<1>3. ASSUME NEW f \in Files, \/ UserspaceClose(f) \/ CloseOpenFile(f)
      PROVE  OwnCalls'
  BY <1>1, <1>3, OwnStart DEF UserspaceClose, CloseOpenFile, CloseBy, Procs
<1>4. QED
  BY <1>1, <1>2, <1>3, OwnGetStep, OwnReleaseStep
     DEF Next, idVars, vars, UserspaceOpen, DeregisterQMIDevice, FilesClosed

(* GetClientID takes the answer to its own request, or one at least TxMod  *)
(* requests away: the number 0, which ReadSyncTimeout takes for any        *)
(* answer, is never asked for, and equal transaction IDs mean equal        *)
(* requests or TxMod of them in between. *)
THEOREM OwnAnswerTheorem == Spec => []OwnAnswer
<1>1. Init => OwnCalls
  BY NoCallTyped DEF Init, OwnCalls, Asked, Answered, Procs
<1>2. Types /\ OwnCalls /\ [Next]_vars => OwnCalls'
  BY OwnCallsStep
<1>3. OwnCalls => OwnAnswer
  BY DEF OwnCalls, Answered, OwnAnswer
<1>4. QED
  BY <1>1, <1>2, <1>3, TypesHold, PTL DEF Spec

-----------------------------------------------------------------------------
(***************************************************************************)
(* Client IDs are given to one file at a time.  DeregisterQMIDevice        *)
(* releases QMICTL first, and after that no release gets through; so only  *)
(* the owner of an ID gives it back.                                       *)
(***************************************************************************)

LEMMA RemoveElements ==
    ASSUME NEW S, NEW l \in Seq(S), NEW i \in 1..Len(l)
    PROVE  /\ Len(l) \in Nat /\ Len(RemoveAt(l, i)) = Len(l) - 1
           /\ \A j \in 1..Len(RemoveAt(l, i)) :
                 /\ j \in Nat /\ j < Len(l)
                 /\ j < i => RemoveAt(l, i)[j] = l[j]
                 /\ ~(j < i) => RemoveAt(l, i)[j] = l[j + 1]
<1>1. Len(l) \in Nat
  BY LenProperties
<1>2. /\ SubSeq(l, 1, i - 1) \in Seq(S) /\ Len(SubSeq(l, 1, i - 1)) = i - 1
      /\ \A j \in 1..(i - 1) : SubSeq(l, 1, i - 1)[j] = l[j]
  BY <1>1, SubSeqProperties, ElementOfSeq
<1>3. /\ SubSeq(l, i + 1, Len(l)) \in Seq(S) /\ Len(SubSeq(l, i + 1, Len(l))) = Len(l) - i
      /\ \A j \in 1..(Len(l) - i) : SubSeq(l, i + 1, Len(l))[j] = l[j + i]
  BY <1>1, SubSeqProperties, ElementOfSeq
<1>. DEFINE s == SubSeq(l, 1, i - 1)
            t == SubSeq(l, i + 1, Len(l))
<1>. HIDE DEF s, t
<1>4. /\ Len(s \o t) = Len(l) - 1
      /\ \A j \in 1..(Len(l) - 1) :
            (s \o t)[j] = IF j <= i - 1 THEN s[j] ELSE t[j - (i - 1)]
  <2>1. s \in Seq(S) /\ t \in Seq(S) /\ Len(s) = i - 1 /\ Len(t) = Len(l) - i
    BY <1>2, <1>3 DEF s, t
  <2>2. /\ Len(s \o t) = Len(s) + Len(t)
        /\ \A j \in 1..(Len(s) + Len(t)) :
              (s \o t)[j] = IF j <= Len(s) THEN s[j] ELSE t[j - Len(s)]
    BY <2>1, ConcatProperties
  <2>3. QED
    BY <1>1, <2>1, <2>2
<1>5. RemoveAt(l, i) = s \o t
  BY DEF RemoveAt, s, t
<1>6. ASSUME NEW j \in 1..(Len(l) - 1)
      PROVE  /\ j \in Nat /\ j < Len(l)
             /\ j < i => (s \o t)[j] = l[j]
             /\ ~(j < i) => (s \o t)[j] = l[j + 1]
  <2>1. CASE j < i
    <3>1. j \in 1..(i - 1) /\ j <= i - 1
      BY <1>1, <2>1
    <3>2. s[j] = l[j]
      BY <1>2, <3>1 DEF s
    <3>3. QED
      BY <1>1, <1>4, <2>1, <3>1, <3>2
  <2>2. CASE ~(j < i)
    <3>1. j - (i - 1) \in 1..(Len(l) - i) /\ ~(j <= i - 1) /\ j - (i - 1) + i = j + 1
      BY <1>1, <2>2
    <3>2. t[j - (i - 1)] = l[j + 1]
      BY <1>3, <3>1 DEF t
    <3>3. QED
      BY <1>1, <1>4, <2>2, <3>1, <3>2
  <2>3. QED
    BY <2>1, <2>2
<1>7. QED
  BY <1>1, <1>4, <1>5, <1>6

(* QMICTL is the first client of the list, as long as it is in it.         *)
CtlFirst == \A i \in 1..Len(mClientMemList) : mClientMemList[i].id = QMICTL => i = 1

ValidUntil == ~mbQMIValid => dereg \in {"drop", "test", "wait", "done"}

(* DeregisterQMIDevice releases no client while QMICTL is listed, except   *)
(* QMICTL itself. *)
CtlGone ==
    Listed(QMICTL) =>
        \/ dereg = "run" /\ call[DEREG].pc = "idle"
        \/ dereg = "clients" /\ call[DEREG].pc = "idle"
           /\ dwalk # END /\ dwalk.id = QMICTL
        \/ dereg = "clients" /\ call[DEREG].pc \in {"relreq", "walk"}
           /\ call[DEREG].id = QMICTL
        \/ dereg = "clients" /\ call[DEREG].pc \in {"drain", "del"}
           /\ call[DEREG].id = QMICTL /\ call[DEREG].pos.id = QMICTL
        \/ dereg = "clients" /\ call[DEREG].pc = "fault"

Walk == CtlFirst /\ ValidUntil /\ CtlGone

(* The list of clients in the steps that change it.                        *)
ListKept == mClientMemList' = mClientMemList
ListGrows(id) ==
    \E req : mClientMemList' = Append(mClientMemList, [id |-> id, req |-> req])
ListShrinks ==
    \E i \in 1..Len(mClientMemList) : mClientMemList' = RemoveAt(mClientMemList, i)

LEMMA GrowsListed ==
    ASSUME Types, NEW a, ListGrows(a), NEW id
    PROVE  /\ Listed(id)' <=> Listed(id) \/ id = a
           /\ CtlFirst /\ a # QMICTL => CtlFirst'
<1>1. PICK req : mClientMemList' = Append(mClientMemList, [id |-> a, req |-> req])
  BY DEF ListGrows
<1>. DEFINE e == [id |-> a, req |-> req]
<1>2. e.id = a /\ mClientMemList' = Append(mClientMemList, e)
  BY <1>1
<1>. HIDE DEF e
<1>3. /\ Len(mClientMemList) \in Nat /\ Len(mClientMemList') = Len(mClientMemList) + 1
      /\ \A i \in 1..Len(mClientMemList) : mClientMemList'[i] = mClientMemList[i]
      /\ mClientMemList'[Len(mClientMemList) + 1] = e
      /\ \A i \in 1..Len(mClientMemList') :
            i \in 1..Len(mClientMemList) \/ i = Len(mClientMemList) + 1
  BY <1>2, AppendElements DEF Types, ListTypes
<1>4. QED
  BY <1>2, <1>3 DEF Listed, CtlFirst

LEMMA ShrinksListed ==
    ASSUME Types, ListShrinks, NEW id
    PROVE  /\ Listed(id)' => Listed(id)
           /\ CtlFirst => CtlFirst'
<1>1. PICK i \in 1..Len(mClientMemList) : mClientMemList' = RemoveAt(mClientMemList, i)
  BY DEF ListShrinks
<1>2. /\ Len(mClientMemList) \in Nat /\ Len(mClientMemList') = Len(mClientMemList) - 1
      /\ \A j \in 1..Len(mClientMemList') :
            /\ j \in Nat /\ j < Len(mClientMemList)
            /\ j < i => mClientMemList'[j] = mClientMemList[j]
            /\ ~(j < i) => mClientMemList'[j] = mClientMemList[j + 1]
  BY <1>1, RemoveElements DEF Types, ListTypes
<1>3. \A j \in 1..Len(mClientMemList') :
         \E k \in 1..Len(mClientMemList) :
            mClientMemList'[j] = mClientMemList[k] /\ (k = 1 => j = 1)
  <2>1. TAKE j \in 1..Len(mClientMemList')
  <2>2. CASE j < i
    BY <1>2, <2>2
  <2>3. CASE ~(j < i)
    <3>1. j + 1 \in 1..Len(mClientMemList)
      BY <1>2, <2>3
    <3>2. QED
      BY <1>2, <2>3, <3>1
  <2>4. QED
    BY <2>2, <2>3
<1>4. QED
  BY <1>3 DEF Listed, CtlFirst


LEMMA ListCases ==
    ASSUME Types, [Next]_vars
    PROVE  \/ ListKept \/ ListShrinks
           \/ \E f \in Files : AddClientMem(f) /\ ListGrows(call[f].id)
                               /\ call[f].id \in ClientIds
<1>. USE DEF ListKept, pipeVars, listVars, idVars, deregFrame
<1>1. CASE UNCHANGED vars
  BY <1>1 DEF vars
<1>2. CASE PipeStep
  BY <1>2 DEF PipeStep, Callbacks, IntCallbackResponse, IntCallbackOther, ReadCallback,
     ReadCallbackError, AddToProcessIndList, UpIndication, StoreAndResubmit,
     SendIndication, GobiWaitForResponses, TestShouldStop, DownInterruptible,
     TakeIndication, HandleIndication, DeregisterTail, KillReadURB, KillIntURB,
     FreeReadBuffers, Invalidate, DropIndications, WakeThread, ThreadStopped,
     threadFrame
<1>3. ASSUME NEW f \in Files, GetStep(f)
      PROVE  ListKept \/ (AddClientMem(f) /\ ListGrows(call[f].id)
                          /\ call[f].id \in ClientIds)
  <2>1. CASE AddClientMem(f)
    <3>1. call[f].id \in ClientIds
      BY <2>1 DEF AddClientMem, Types, CallTypes, Procs
    <3>2. ListGrows(call[f].id)
      BY <2>1 DEF AddClientMem, ListGrows
    <3>3. QED
      BY <2>1, <3>1, <3>2
  <2>2. CASE ~AddClientMem(f)
    BY <1>3, <2>2 DEF GetStep, GetClientID, GetClientIDResp, GetClientIDFails,
       VerifyNotAllocated, SetClientID
  <2>3. QED
    BY <2>1, <2>2
<1>4. ASSUME NEW p \in Procs, ReleaseStep(p)
      PROVE  ListKept \/ ListShrinks
  <2>1. CASE DeleteClientMem(p)
    <3>1. ASSUME InMemList(call[p].pos)
          PROVE  PlaceOf(call[p].pos) \in 1..Len(mClientMemList)
      BY <3>1 DEF InMemList, PlaceOf
    <3>2. QED
      BY <2>1, <3>1 DEF DeleteClientMem, ListShrinks
  <2>2. CASE ~DeleteClientMem(p)
    BY <1>4, <2>2 DEF ReleaseStep, ReleaseRequest, ReleaseClientIDResp, ReleaseTimesOut,
       FindInWalk, DrainClient, WalkOn
  <2>3. QED
    BY <2>1, <2>2
<1>5. ASSUME NEW f \in Files, \/ UserspaceOpen(f) \/ UserspaceClose(f)
                              \/ CloseOpenFile(f)
      PROVE  ListKept
  BY <1>5 DEF UserspaceOpen, UserspaceClose, CloseOpenFile
<1>6. CASE DeregisterQMIDevice \/ ReleaseNext \/ FilesClosed
  BY <1>6 DEF DeregisterQMIDevice, ReleaseNext, FilesClosed
<1>7. QED
  BY <1>1, <1>2, <1>3, <1>4, <1>5, <1>6 DEF Next

LEMMA NothingListed ==
    ASSUME Types, [Next]_vars, NEW id, Listed(id)', ~Listed(id)
    PROVE  \E f \in Files : AddClientMem(f) /\ call[f].id = id /\ id \in ClientIds
<1>1. ~ListKept /\ ~ListShrinks
  BY ShrinksListed DEF ListKept, Listed
<1>2. QED
  BY <1>1, ListCases, GrowsListed

(* The steps of a call of p change no other call. *)
LEMMA OtherCall ==
    ASSUME Types, NEW p \in Procs, NEW q \in Procs, p # q,
           \/ ReleaseStep(p) \/ (p \in Files /\ GetStep(p))
           \/ (p \in Files /\ (UserspaceOpen(p) \/ UserspaceClose(p)))
    PROVE  call'[q] = call[q] /\ UNCHANGED dwalk
<1>. USE DEF Types, CallTypes, Goto, Return
<1>1. CASE p \in Files /\ GetStep(p)
  BY <1>1 DEF GetStep, GetClientID, GetClientIDResp, GetClientIDFails,
     VerifyNotAllocated, AddClientMem, SetClientID
<1>2. CASE ReleaseStep(p)
  BY <1>2 DEF ReleaseStep, ReleaseRequest, ReleaseClientIDResp, ReleaseTimesOut,
     FindInWalk, DrainClient, DeleteClientMem, WalkOn
<1>3. CASE p \in Files /\ (UserspaceOpen(p) \/ UserspaceClose(p))
  BY <1>3 DEF UserspaceOpen, UserspaceClose, CloseBy, StartRelease
<1>4. QED
  BY <1>1, <1>2, <1>3

(* Where dereg and mbQMIValid stay. *)
LEMMA CallKeepsDereg ==
    ASSUME NEW p \in Procs,
           \/ ReleaseStep(p) \/ (p \in Files /\ GetStep(p))
           \/ (p \in Files /\ (UserspaceOpen(p) \/ UserspaceClose(p)
                               \/ CloseOpenFile(p)))
    PROVE  UNCHANGED <<dereg, mbQMIValid>>
<1>. USE DEF pipeFrame, pipeVars
<1>1. CASE p \in Files /\ GetStep(p)
  BY <1>1 DEF GetStep, GetClientID, GetClientIDResp, GetClientIDFails,
     VerifyNotAllocated, AddClientMem, SetClientID
<1>2. CASE ReleaseStep(p)
  BY <1>2 DEF ReleaseStep, ReleaseRequest, ReleaseClientIDResp, ReleaseTimesOut,
     FindInWalk, DrainClient, DeleteClientMem, WalkOn
<1>3. QED
  BY <1>1, <1>2 DEF UserspaceOpen, UserspaceClose, CloseOpenFile

(* DeregisterQMIDevice's own release of QMICTL. *)
LEMMA CtlRelease ==
    ASSUME Types, Walk, ReleaseStep(DEREG), Listed(QMICTL), Listed(QMICTL)'
    PROVE  CtlGone'
<1>. DEREG \in Procs /\ call[DEREG] \in CallRecords
  BY DEF Procs, Types, CallTypes
<1>. DEFINE c == call[DEREG]
<1>0. UNCHANGED dereg
  BY CallKeepsDereg
<1>1. /\ dereg = "clients"
      /\ \/ c.pc \in {"relreq", "walk"} /\ c.id = QMICTL
         \/ c.pc \in {"drain", "del"} /\ c.id = QMICTL /\ c.pos.id = QMICTL
  BY DEF Walk, CtlGone, ReleaseStep, ReleaseRequest, ReleaseClientIDResp,
     ReleaseTimesOut, FindInWalk, DrainClient, DeleteClientMem, WalkOn
<1>. DEFINE Then(pc) == \E r : /\ call'[DEREG] = r /\ r.pc = pc /\ r.id = QMICTL
                               /\ pc \in {"drain", "del"} => r.pos.id = QMICTL
<1>2. ASSUME NEW pc \in {"walk", "del"}, Goto(DEREG, pc), pc = "del" => c.pos.id = QMICTL
      PROVE  Then(pc)
  <2>1. [c EXCEPT !.pc = pc].pc = pc /\ [c EXCEPT !.pc = pc].id = c.id
        /\ [c EXCEPT !.pc = pc].pos = c.pos
    BY DEF CallRecords
  <2>2. call'[DEREG] = [c EXCEPT !.pc = pc]
    BY <1>2 DEF Goto, Types, CallTypes
  <2>3. QED
    BY <1>1, <1>2, <2>1, <2>2
<1>3. CASE ReleaseRequest(DEREG)
  <2>1. c.id = QMICTL /\ mbQMIValid
    BY <1>1, <1>3 DEF ReleaseRequest, Walk, ValidUntil
  <2>2. Goto(DEREG, "walk")
    BY <1>3, <2>1 DEF ReleaseRequest
  <2>3. QED
    BY <1>0, <1>1, <1>2, <2>2 DEF CtlGone
<1>4. CASE FindInWalk(DEREG)
  <2>. DEFINE r(i) == [c EXCEPT !.pc = "drain", !.pos = mClientMemList[i],
                                !.safe = EntryAt(i + 1)]
  <2>1. c.id = QMICTL
    BY <1>1, <1>4 DEF FindInWalk
  <2>2. PICK i \in 1..Len(mClientMemList) : /\ mClientMemList[i].id = QMICTL
                                            /\ call' = [call EXCEPT ![DEREG] = r(i)]
    BY <1>4, <2>1 DEF FindInWalk
  <2>3. r(i).pc = "drain" /\ r(i).id = QMICTL /\ r(i).pos = mClientMemList[i]
    BY <2>1 DEF CallRecords
  <2>4. call'[DEREG] = r(i)
    BY <2>2 DEF Types, CallTypes
  <2>. HIDE DEF r
  <2>5. QED
    BY <1>0, <1>1, <2>2, <2>3, <2>4 DEF CtlGone
<1>5. CASE DrainClient(DEREG)
  <2>1. Goto(DEREG, "del") /\ c.pos.id = QMICTL
    BY <1>1, <1>5 DEF DrainClient
  <2>2. QED
    BY <1>0, <1>1, <1>2, <2>1 DEF CtlGone
<1>6. CASE DeleteClientMem(DEREG)
  <2>1. c.pos.id = QMICTL
    BY <1>1, <1>6 DEF DeleteClientMem
  <2>2. ~InMemList(c.pos)
    <3>1. SUFFICES ASSUME InMemList(c.pos) PROVE FALSE
      OBVIOUS
    <3>. DEFINE i == PlaceOf(c.pos)
    <3>2. i \in 1..Len(mClientMemList) /\ mClientMemList[i] = c.pos
      BY <3>1 DEF InMemList, PlaceOf
    <3>3. i = 1
      BY <2>1, <3>2 DEF Walk, CtlFirst
    <3>4. mClientMemList' = RemoveAt(mClientMemList, 1)
      BY <1>6, <3>1, <3>3 DEF DeleteClientMem
    <3>5. /\ Len(mClientMemList) \in Nat
          /\ \A j \in 1..Len(mClientMemList') :
                j < Len(mClientMemList) /\ mClientMemList'[j] = mClientMemList[j + 1]
      <4>1. mClientMemList \in Seq(Clients) /\ 1 \in 1..Len(mClientMemList)
        BY <3>2, <3>3 DEF Types, ListTypes
      <4>2. /\ Len(mClientMemList) \in Nat
            /\ \A j \in 1..Len(mClientMemList') :
                  /\ j \in Nat /\ j < Len(mClientMemList)
                  /\ ~(j < 1) => mClientMemList'[j] = mClientMemList[j + 1]
        BY <3>4, <4>1, RemoveElements, Zenon
      <4>3. \A j \in 1..Len(mClientMemList') : ~(j < 1)
        OBVIOUS
      <4>4. QED
        BY <4>2, <4>3
    <3>6. PICK j \in 1..Len(mClientMemList') : mClientMemList'[j].id = QMICTL
      BY DEF Listed
    <3>7. j + 1 \in 1..Len(mClientMemList) /\ mClientMemList[j + 1].id = QMICTL
          /\ j + 1 # 1
      BY <3>5, <3>6
    <3>8. QED
      BY <3>7 DEF Walk, CtlFirst
  <2>3. Goto(DEREG, "fault")
    BY <1>6, <2>2 DEF DeleteClientMem
  <2>4. [c EXCEPT !.pc = "fault"].pc = "fault"
    BY DEF CallRecords
  <2>5. call'[DEREG].pc = "fault"
    BY <2>3, <2>4 DEF Goto, Types, CallTypes
  <2>6. QED
    BY <1>0, <1>1, <2>5 DEF CtlGone
<1>7. QED
  BY <1>1, <1>3, <1>4, <1>5, <1>6 DEF ReleaseStep, ReleaseClientIDResp,
     ReleaseTimesOut, WalkOn

LEMMA WalkStep ==
    ASSUME Types, Walk, [Next]_vars
    PROVE  Walk'
<1>1. CtlFirst'
  BY ListCases, GrowsListed, ShrinksListed, IdsAssumption DEF ListKept, Walk, CtlFirst
<1>2. ValidUntil'
  <2>. USE DEF Walk, ValidUntil
  <2>1. CASE PipeStep
    BY <2>1 DEF PipeStep, Callbacks, IntCallbackResponse, IntCallbackOther, ReadCallback,
       ReadCallbackError, AddToProcessIndList, UpIndication, StoreAndResubmit,
       SendIndication, GobiWaitForResponses, TestShouldStop, DownInterruptible,
       TakeIndication, HandleIndication, DeregisterTail, KillReadURB, KillIntURB,
       FreeReadBuffers, Invalidate, DropIndications, WakeThread, ThreadStopped,
       ThenDereg, threadFrame
  <2>2. CASE DeregisterQMIDevice \/ ReleaseNext \/ FilesClosed
    BY <2>2 DEF DeregisterQMIDevice, ReleaseNext, FilesClosed, ThenDereg, deregFrame
  <2>3. QED
    BY <2>1, <2>2, CallKeepsDereg DEF Next, vars, pipeVars, Procs
<1>3. CtlGone'
  <2>1. SUFFICES ASSUME Listed(QMICTL)' PROVE CtlGone'
    BY DEF CtlGone
  <2>2. Listed(QMICTL)
    BY <2>1, NothingListed, IdsAssumption
  <2>3. dereg \in {"run", "clients"} /\ CtlGone
    BY <2>2 DEF Walk, CtlGone
  <2>. DEREG \in Procs
    BY DEF Procs
  <2>4. CASE UNCHANGED <<dereg, dwalk>> /\ call'[DEREG] = call[DEREG]
    BY <2>2, <2>3, <2>4 DEF CtlGone
  <2>5. CASE PipeStep /\ UNCHANGED idVars
    <3>1. UNCHANGED dereg
      BY <2>3, <2>5 DEF PipeStep, Callbacks, IntCallbackResponse, IntCallbackOther,
         ReadCallback, ReadCallbackError, AddToProcessIndList, UpIndication,
         StoreAndResubmit, SendIndication, GobiWaitForResponses, TestShouldStop,
         DownInterruptible, TakeIndication, HandleIndication, DeregisterTail,
         KillReadURB, KillIntURB, FreeReadBuffers, Invalidate, DropIndications,
         WakeThread, ThreadStopped, ThenDereg, threadFrame
    <3>2. QED
      BY <2>4, <2>5, <3>1 DEF idVars
  <2>6. ASSUME NEW f \in Files, \/ GetStep(f) \/ UserspaceOpen(f) \/ UserspaceClose(f)
                                \/ ReleaseStep(f)
        PROVE  CtlGone'
    <3>1. f \in Procs /\ f # DEREG
      BY FilesAssumption DEF Procs
    <3>2. QED
      BY <2>4, <2>6, <3>1, OtherCall, CallKeepsDereg
  <2>7. CASE ReleaseStep(DEREG)
    BY <2>1, <2>2, <2>7, CtlRelease
  <2>8. CASE DeregisterQMIDevice
    <3>1. dereg' = "clients" /\ dwalk' = EntryAt(1) /\ UNCHANGED call /\ dereg = "run"
      BY <2>8 DEF DeregisterQMIDevice, ThenDereg
    <3>2. call[DEREG].pc = "idle"
      BY <2>2, <2>3, <3>1 DEF CtlGone
    <3>3. PICK i \in 1..Len(mClientMemList) : mClientMemList[i].id = QMICTL
      BY <2>2 DEF Listed
    <3>4. i = 1 /\ EntryAt(1) = mClientMemList[1]
      BY <3>3 DEF Walk, CtlFirst, EntryAt
    <3>5. EntryAt(1) \in Clients
      BY <3>3, <3>4, ElementOfSeq DEF Types, ListTypes
    <3>6. QED
      BY <3>1, <3>2, <3>3, <3>4, <3>5, EndAssumption DEF CtlGone
  <2>9. CASE ReleaseNext
    <3>1. dwalk # END /\ dwalk.id = QMICTL /\ dereg = "clients"
      BY <2>2, <2>3, <2>9 DEF ReleaseNext, CtlGone
    <3>2. CASE Goto(DEREG, "fault") /\ UNCHANGED dereg
      <4>1. call'[DEREG].pc = "fault"
        BY <3>2 DEF Goto, Types, CallTypes, CallRecords
      <4>2. QED
        BY <3>1, <3>2, <4>1 DEF CtlGone
    <3>3. CASE StartRelease(DEREG, dwalk.id) /\ UNCHANGED dereg
      <4>1. call'[DEREG] = CallAt("relreq", QMICTL, 0)
        BY <3>1, <3>3 DEF StartRelease, Types, CallTypes
      <4>2. CallAt("relreq", QMICTL, 0).pc = "relreq" /\ CallAt("relreq", QMICTL, 0).id = QMICTL
        BY DEF CallAt
      <4>3. QED
        BY <3>1, <3>3, <4>1, <4>2 DEF CtlGone
    <3>4. QED
      BY <2>9, <3>1, <3>2, <3>3 DEF ReleaseNext
  <2>10. CASE FilesClosed \/ \E f \in Files : CloseOpenFile(f)
    BY <2>3, <2>10 DEF FilesClosed, CloseOpenFile, ThenDereg
  <2>11. CASE UNCHANGED vars
    BY <2>4, <2>11 DEF vars, pipeVars, idVars
  <2>12. QED
    BY <2>5, <2>6, <2>7, <2>8, <2>9, <2>10, <2>11 DEF Next, Procs
<1>4. QED
  BY <1>1, <1>2, <1>3 DEF Walk

(* Who has a client ID that the modem has given away: an answer on its way *)
(* (in the outbox, in ReadCallback, in QMICTL's list), a call of a file    *)
(* that got it or is about to release it, or an open file.                 *)
InOutbox(i, id) == i \in 1..Len(outbox) /\ outbox[i].kind = "get" /\ outbox[i].id = id
InCallback(id) == cb.pc # "idle" /\ cb.msg.kind = "get" /\ cb.msg.id = id
InCtlList(i, id) == i \in 1..Len(ctlList) /\ ctlList[i].kind = "get" /\ ctlList[i].id = id
InCall(f, id) ==
    f \in Files /\ call[f].pc \in {"check", "add", "set", "relreq"} /\ call[f].id = id
InFile(f, id) == f \in Files /\ file[f].open /\ file[f].id = id

Owns(kind, x, id) ==
    \/ kind = "outbox" /\ InOutbox(x, id)
    \/ kind = "callback" /\ x = 0 /\ InCallback(id)
    \/ kind = "ctl" /\ InCtlList(x, id)
    \/ kind = "call" /\ InCall(x, id)
    \/ kind = "file" /\ InFile(x, id)

(* Each ID has at most one owner, and the modem knows that it is taken.    *)
OneOwner == \A id \in ClientIds : \A k, l, x, y :
                Owns(k, x, id) /\ Owns(l, y, id) => k = l /\ x = y
Known == \A id \in ClientIds : \A k, x : Owns(k, x, id) => id \in modem
Owners == OneOwner /\ Known

(* A step by which no place gets an owner. *)
KeepOutbox == \A id \in ClientIds : \A i : InOutbox(i, id)' => InOutbox(i, id)
KeepCallback == \A id \in ClientIds : InCallback(id)' => InCallback(id)
KeepCtlList == \A id \in ClientIds : \A i : InCtlList(i, id)' => InCtlList(i, id)
KeepCalls == \A id \in ClientIds : \A f : InCall(f, id)' => InCall(f, id)
KeepFiles == \A id \in ClientIds : \A f : InFile(f, id)' => InFile(f, id)

LEMMA OwnersShrink ==
    ASSUME Owners, KeepOutbox, KeepCallback, KeepCtlList, KeepCalls, KeepFiles,
           modem \subseteq modem'
    PROVE  Owners'
<1>1. \A id \in ClientIds : \A k, x : Owns(k, x, id)' => Owns(k, x, id)
  BY DEF Owns, KeepOutbox, KeepCallback, KeepCtlList, KeepCalls, KeepFiles
<1>2. QED
  BY <1>1 DEF Owners, OneOwner, Known

LEMMA SameKept ==
    /\ outbox' = outbox => KeepOutbox
    /\ cb' = cb => KeepCallback
    /\ ctlList' = ctlList => KeepCtlList
    /\ call' = call => KeepCalls
    /\ file' = file => KeepFiles
  BY DEF KeepOutbox, KeepCallback, KeepCtlList, KeepCalls, KeepFiles,
     InOutbox, InCallback, InCtlList, InCall, InFile

(* An answer without an ID, or another message. *)
LEMMA AppendKept ==
    ASSUME NEW S, outbox \in Seq(S), NEW m, outbox' = Append(outbox, m),
           m.kind # "get" \/ m.id \notin ClientIds
    PROVE  KeepOutbox
  BY AppendElements DEF KeepOutbox, InOutbox

(* The calls of DeregisterQMIDevice own nothing; those of a file go on     *)
(* with their ID, or without. *)
LEMMA CallKept ==
    ASSUME Types, NEW p \in Procs, NEW r, call' = [call EXCEPT ![p] = r],
           \/ p = DEREG
           \/ r.pc \notin {"check", "add", "set", "relreq"}
           \/ call[p].pc \in {"check", "add", "set"} /\ r.id = call[p].id
    PROVE  KeepCalls
  BY FilesAssumption DEF KeepCalls, InCall, Types, CallTypes, Procs

LEMMA GotoKept ==
    ASSUME Types, NEW p \in Procs, NEW pc, Goto(p, pc),
           \/ pc \in {"walk", "del", "next", "fault"}
           \/ pc \in {"add", "set"} /\ call[p].pc \in {"check", "add"}
    PROVE  KeepCalls
<1>. DEFINE r == [call[p] EXCEPT !.pc = pc]
<1>1. r.pc = pc /\ r.id = call[p].id
  BY DEF Types, CallTypes, CallRecords
<1>2. call' = [call EXCEPT ![p] = r]
  BY DEF Goto
<1>. HIDE DEF r
<1>3. QED
  BY <1>1, <1>2, CallKept

LEMMA ReturnKept ==
    ASSUME Types, NEW p \in Procs, Return(p)
    PROVE  KeepCalls
  BY NoCallTyped, CallKept DEF Return

(* ReadCallback takes the first message. *)
LEMMA ReadOwners ==
    ASSUME Types, Owners, outbox # << >>, outbox' = Tail(outbox),
           cb' = cb \/ cb'.msg = Head(outbox),
           UNCHANGED <<ctlList, call, file, modem>>
    PROVE  Owners'
<1>1. KeepCtlList /\ KeepCalls /\ KeepFiles
  BY SameKept
<1>2. \A i : i \in 1..Len(outbox') =>
         outbox'[i] = outbox[i + 1] /\ i + 1 \in 1..Len(outbox) /\ 1 < i + 1 /\ i \in Nat
  BY TailElements DEF Types, PipeTypes
<1>3. Head(outbox) = outbox[1] /\ 1 \in 1..Len(outbox)
  BY TailElements DEF Types, PipeTypes
<1>4. \A id \in ClientIds : \A i :
         InOutbox(i, id)' => InOutbox(i + 1, id) /\ i + 1 # 1 /\ i \in Nat
  BY <1>2 DEF InOutbox
<1>5. \A id \in ClientIds : InCallback(id)' => InCallback(id) \/ InOutbox(1, id)
  BY <1>3 DEF InCallback, InOutbox
<1>6. \/ KeepCallback
      \/ \A id \in ClientIds : InCallback(id)' => InOutbox(1, id)
  BY <1>3 DEF InCallback, InOutbox, KeepCallback
<1>7. ASSUME NEW id \in ClientIds, NEW k, NEW x, Owns(k, x, id)'
      PROVE  \/ k = "outbox" /\ Owns("outbox", x + 1, id) /\ x + 1 # 1 /\ x \in Nat
             \/ k = "callback" /\ x = 0
                /\ (Owns("callback", 0, id) \/ Owns("outbox", 1, id))
             \/ k \in {"ctl", "call", "file"} /\ Owns(k, x, id)
  BY <1>1, <1>4, <1>5, <1>7 DEF Owns, KeepCtlList, KeepCalls, KeepFiles
<1>8. Known'
  BY <1>7 DEF Owners, Known
<1>9. OneOwner'
  <2>1. SUFFICES ASSUME NEW id \in ClientIds, NEW k, NEW l, NEW x, NEW y,
                        Owns(k, x, id)', Owns(l, y, id)'
                 PROVE  k = l /\ x = y
    BY DEF OneOwner
  <2>2. CASE k = "outbox" /\ l = "outbox"
    <3>1. x + 1 = y + 1 /\ x \in Nat /\ y \in Nat
      BY <1>7, <2>1, <2>2 DEF Owners, OneOwner
    <3>2. QED
      BY <2>2, <3>1
  <2>3. CASE ~(k = "outbox" /\ l = "outbox")
    BY <1>7, <2>1, <2>3 DEF Owners, OneOwner
  <2>4. QED
    BY <2>2, <2>3
<1>10. QED
  BY <1>8, <1>9 DEF Owners

(* The message of ReadCallback goes to the end of QMICTL's list. *)
LEMMA StoreOwners ==
    ASSUME Types, Owners, cb.pc # "idle", cb' = Idle, ctlList' = Append(ctlList, cb.msg),
           UNCHANGED <<outbox, call, file, modem>>
    PROVE  Owners'
<1>1. KeepOutbox /\ KeepCalls /\ KeepFiles
  BY SameKept
<1>2. /\ \A i : i \in 1..Len(ctlList') => i \in 1..Len(ctlList) \/ i = Len(ctlList) + 1
      /\ \A i : i \in 1..Len(ctlList) => ctlList'[i] = ctlList[i]
      /\ ctlList'[Len(ctlList) + 1] = cb.msg
  BY AppendElements DEF Types, ListTypes
<1>3. \A id \in ClientIds : \A i : InCtlList(i, id)' =>
         InCtlList(i, id) \/ (i = Len(ctlList) + 1 /\ InCallback(id))
  BY <1>2 DEF InCtlList, InCallback
<1>4. \A id \in ClientIds : ~InCallback(id)'
  BY DEF InCallback, Idle
<1>5. ASSUME NEW id \in ClientIds, NEW k, NEW x, Owns(k, x, id)'
      PROVE  \/ k # "callback" /\ Owns(k, x, id)
             \/ k = "ctl" /\ x = Len(ctlList) + 1 /\ Owns("callback", 0, id)
  BY <1>1, <1>3, <1>4, <1>5 DEF Owns, KeepOutbox, KeepCalls, KeepFiles
<1>6. QED
  BY <1>5 DEF Owners, OneOwner, Known

LEMMA PipeOwners ==
    ASSUME Types, Owners, PipeStep, UNCHANGED idVars
    PROVE  Owners'
<1>. USE DEF urbVars, modemBox, indVars, listVars, idVars
<1>1. CASE /\ UNCHANGED <<outbox, ctlList>>
           /\ cb' = cb \/ (\E pc : cb.pc # "idle" /\ cb' = [cb EXCEPT !.pc = pc])
                       \/ cb'.pc = "idle"
  <2>1. KeepCallback
    <3>1. cb = Idle \/ cb \in [pc : {"list", "up", "store"}, msg : Msgs]
      BY DEF Types, PipeTypes
    <3>2. cb' # cb => (cb'.msg = cb.msg /\ cb.pc # "idle") \/ cb'.pc = "idle"
      BY <1>1, <3>1 DEF Idle
    <3>3. QED
      BY <3>2 DEF KeepCallback, InCallback
  <2>2. QED
    BY <1>1, <2>1, SameKept, OwnersShrink
<1>2. CASE ReadCallback \/ ReadCallbackError
  <2>1. cb' = cb \/ cb'.msg = Head(outbox)
    BY <1>2 DEF ReadCallback, ReadCallbackError
  <2>2. QED
    BY <1>2, <2>1, ReadOwners DEF ReadCallback, ReadCallbackError
<1>3. CASE AddToProcessIndList \/ UpIndication
  BY <1>1, <1>3 DEF AddToProcessIndList, UpIndication
<1>4. CASE StoreAndResubmit
  <2>1. CASE ctlList' = ctlList
    BY <1>1, <1>4, <2>1 DEF StoreAndResubmit, Idle
  <2>2. CASE ctlList' = Append(ctlList, cb.msg)
    BY <1>4, <2>2, StoreOwners DEF StoreAndResubmit
  <2>3. QED
    BY <1>4, <2>1, <2>2 DEF StoreAndResubmit
<1>5. CASE SendIndication
  <2>. DEFINE m == [kind |-> "ind", num |-> inds + 1, id |-> QMIWDS]
  <2>1. outbox' = Append(outbox, m) /\ m.kind = "ind"
    BY <1>5 DEF SendIndication
  <2>. HIDE DEF m
  <2>2. KeepOutbox
    BY <2>1, AppendKept DEF Types, PipeTypes
  <2>3. QED
    BY <1>5, <2>2, SameKept, OwnersShrink DEF SendIndication
<1>6. CASE IntCallbackResponse \/ IntCallbackOther \/ GobiWaitForResponses \/ DeregisterTail
  <2>1. UNCHANGED <<outbox, ctlList, cb>>
    BY <1>6 DEF IntCallbackResponse, IntCallbackOther, GobiWaitForResponses,
       TestShouldStop, DownInterruptible, TakeIndication, HandleIndication,
       DeregisterTail, KillReadURB, KillIntURB, FreeReadBuffers, Invalidate,
       DropIndications, WakeThread, ThreadStopped, threadFrame
  <2>2. QED
    BY <1>1, <2>1
<1>7. QED
  BY <1>2, <1>3, <1>4, <1>5, <1>6 DEF PipeStep, Callbacks


(* The modem gives away an ID that nobody has. *)
LEMMA GetOwners ==
    ASSUME Types, Owners, NEW a \in ClientIds \ modem, modem' = modem \cup {a},
           NEW m, m.id = a, outbox' = Append(outbox, m),
           KeepCalls, UNCHANGED <<cb, ctlList, file>>
    PROVE  Owners'
<1>1. KeepCallback /\ KeepCtlList /\ KeepFiles
  BY SameKept
<1>2. /\ \A i : i \in 1..Len(outbox') => i \in 1..Len(outbox) \/ i = Len(outbox) + 1
      /\ \A i : i \in 1..Len(outbox) => outbox'[i] = outbox[i]
      /\ outbox'[Len(outbox) + 1] = m
  BY AppendElements DEF Types, PipeTypes
<1>3. \A id \in ClientIds : \A i : InOutbox(i, id)' =>
         InOutbox(i, id) \/ (i = Len(outbox) + 1 /\ id = a)
  BY <1>2 DEF InOutbox
<1>4. ASSUME NEW id \in ClientIds, NEW k, NEW x, Owns(k, x, id)'
      PROVE  \/ Owns(k, x, id)
             \/ k = "outbox" /\ x = Len(outbox) + 1 /\ id = a
  BY <1>1, <1>3, <1>4 DEF Owns, KeepCallback, KeepCtlList, KeepFiles, KeepCalls
<1>5. QED
  BY <1>4 DEF Owners, OneOwner, Known

(* An answer is taken from QMICTL's list; the call of f may get its ID.    *)
LEMMA TakeOwners ==
    ASSUME Types, Owners, NEW i \in 1..Len(ctlList), ctlList' = RemoveAt(ctlList, i),
           NEW f,
           \A id \in ClientIds : \A g : InCall(g, id)' =>
              InCall(g, id) \/ (g = f /\ InCtlList(i, id)),
           UNCHANGED <<outbox, cb, file, modem>>
    PROVE  Owners'
<1>1. KeepOutbox /\ KeepCallback /\ KeepFiles
  BY SameKept
<1>. DEFINE Old(j) == IF j < i THEN j ELSE j + 1
<1>2. \A j : j \in 1..Len(ctlList') =>
         /\ j \in Nat /\ Old(j) \in 1..Len(ctlList) /\ Old(j) # i
         /\ ctlList'[j] = ctlList[Old(j)]
  <2>1. /\ Len(ctlList) \in Nat /\ Len(ctlList') = Len(ctlList) - 1
        /\ \A j \in 1..Len(ctlList') :
              /\ j \in Nat /\ j < Len(ctlList)
              /\ j < i => ctlList'[j] = ctlList[j]
              /\ ~(j < i) => ctlList'[j] = ctlList[j + 1]
    BY RemoveElements DEF Types, ListTypes
  <2>2. QED
    BY <2>1
<1>3. \A j, k \in Nat : Old(j) = Old(k) => j = k
  OBVIOUS
<1>. HIDE DEF Old
<1>4. \A id \in ClientIds : \A j : InCtlList(j, id)' =>
         InCtlList(Old(j), id) /\ Old(j) # i /\ j \in Nat
  BY <1>2 DEF InCtlList
<1>5. ASSUME NEW id \in ClientIds, NEW k, NEW x, Owns(k, x, id)'
      PROVE  \/ k \in {"outbox", "callback", "file", "call"} /\ Owns(k, x, id)
             \/ k = "ctl" /\ Owns("ctl", Old(x), id) /\ Old(x) # i /\ x \in Nat
             \/ k = "call" /\ x = f /\ Owns("ctl", i, id)
  BY <1>1, <1>4, <1>5 DEF Owns, KeepOutbox, KeepCallback, KeepFiles
<1>6. Known'
  BY <1>5 DEF Owners, Known
<1>7. OneOwner'
  <2>1. SUFFICES ASSUME NEW id \in ClientIds, NEW k, NEW l, NEW x, NEW y,
                        Owns(k, x, id)', Owns(l, y, id)'
                 PROVE  k = l /\ x = y
    BY DEF OneOwner
  <2>2. CASE k = "ctl" /\ l = "ctl"
    <3>1. Old(x) = Old(y) /\ x \in Nat /\ y \in Nat
      BY <1>5, <2>1, <2>2 DEF Owners, OneOwner
    <3>2. QED
      BY <1>3, <2>2, <3>1
  <2>3. CASE ~(k = "ctl" /\ l = "ctl")
    BY <1>5, <2>1, <2>3 DEF Owners, OneOwner
  <2>4. QED
    BY <2>2, <2>3
<1>8. QED
  BY <1>6, <1>7 DEF Owners

(* The ID of a call becomes that of its file, or the other way round.      *)
LEMMA HandOver ==
    ASSUME Types, Owners, NEW f,
           \/ /\ KeepCalls /\ \A id \in ClientIds : ~InCall(f, id)'
              /\ \A id \in ClientIds : \A g : InFile(g, id)' =>
                    (g # f /\ InFile(g, id)) \/ (g = f /\ InCall(f, id))
           \/ /\ KeepFiles /\ \A id \in ClientIds : ~InFile(f, id)'
              /\ \A id \in ClientIds : \A g : InCall(g, id)' =>
                    (g # f /\ InCall(g, id)) \/ (g = f /\ InFile(f, id)),
           UNCHANGED <<outbox, cb, ctlList, modem>>
    PROVE  Owners'
<1>1. KeepOutbox /\ KeepCallback /\ KeepCtlList
  BY SameKept
<1>2. CASE /\ KeepCalls /\ \A id \in ClientIds : ~InCall(f, id)'
           /\ \A id \in ClientIds : \A g : InFile(g, id)' =>
                 (g # f /\ InFile(g, id)) \/ (g = f /\ InCall(f, id))
  <2>1. ASSUME NEW id \in ClientIds, NEW k, NEW x, Owns(k, x, id)'
        PROVE  \/ ~(k \in {"file", "call"} /\ x = f) /\ Owns(k, x, id)
               \/ k = "file" /\ x = f /\ Owns("call", f, id)
    BY <1>1, <1>2, <2>1 DEF Owns, KeepOutbox, KeepCallback, KeepCtlList, KeepCalls
  <2>2. QED
    BY <2>1 DEF Owners, OneOwner, Known
<1>3. CASE /\ KeepFiles /\ \A id \in ClientIds : ~InFile(f, id)'
           /\ \A id \in ClientIds : \A g : InCall(g, id)' =>
                 (g # f /\ InCall(g, id)) \/ (g = f /\ InFile(f, id))
  <2>1. ASSUME NEW id \in ClientIds, NEW k, NEW x, Owns(k, x, id)'
        PROVE  \/ ~(k \in {"file", "call"} /\ x = f) /\ Owns(k, x, id)
               \/ k = "call" /\ x = f /\ Owns("file", f, id)
    BY <1>1, <1>3, <2>1 DEF Owns, KeepOutbox, KeepCallback, KeepCtlList, KeepFiles
  <2>2. QED
    BY <2>1 DEF Owners, OneOwner, Known
<1>4. QED
  BY <1>2, <1>3

(* The owner gives the ID back to the modem. *)
LEMMA ReleaseOwners ==
    ASSUME Types, Owners, NEW f \in Files, NEW a \in ClientIds, InCall(f, a),
           \A id \in ClientIds : ~InCall(f, id)',
           KeepOutbox, KeepCalls, modem' = modem \ {a}, UNCHANGED <<cb, ctlList, file>>
    PROVE  Owners'
<1>1. KeepCallback /\ KeepCtlList /\ KeepFiles
  BY SameKept
<1>2. ASSUME NEW id \in ClientIds, NEW k, NEW x, Owns(k, x, id)'
      PROVE  Owns(k, x, id) /\ ~(k = "call" /\ x = f)
  BY <1>1, <1>2 DEF Owns, KeepOutbox, KeepCallback, KeepCtlList, KeepCalls, KeepFiles
<1>3. Owns("call", f, a)
  BY DEF Owns
<1>4. QED
  BY <1>2, <1>3 DEF Owners, OneOwner, Known

LEMMA GetStepOwners ==
    ASSUME Types, Owners, NEW f \in Files, GetStep(f)
    PROVE  Owners'
<1>. f \in Procs /\ call[f] \in CallRecords /\ call \in [Procs -> CallRecords]
  BY DEF Procs, Types, CallTypes
<1>. USE DEF pipeFrame, modemBox, listVars
<1>1. CASE GetClientID(f)
  <2>1. KeepCalls
    <3>. DEFINE r == CallAt("getwait", NONE, NextRequest)
    <3>1. r.pc = "getwait" /\ call' = [call EXCEPT ![f] = r]
      BY <1>1 DEF GetClientID, CallAt
    <3>. HIDE DEF r
    <3>2. QED
      BY <3>1, CallKept
  <2>2. GetAnswer(NextRequest) /\ UNCHANGED <<cb, ctlList, file>>
    BY <1>1 DEF GetClientID
  <2>3. ASSUME NEW id \in ClientIds \ modem, modem' = modem \cup {id},
               outbox' = Append(outbox, [kind |-> "get", num |-> NextRequest, id |-> id])
        PROVE  Owners'
    <3>. DEFINE m == [kind |-> "get", num |-> NextRequest, id |-> id]
    <3>1. m.id = id /\ outbox' = Append(outbox, m)
      BY <2>3
    <3>. HIDE DEF m
    <3>2. QED
      BY <2>1, <2>2, <2>3, <3>1, GetOwners
  <2>4. ASSUME UNCHANGED modem,
               outbox' = Append(outbox, [kind |-> "get", num |-> NextRequest, id |-> NONE])
        PROVE  Owners'
    <3>. DEFINE m == [kind |-> "get", num |-> NextRequest, id |-> NONE]
    <3>1. m.id \notin ClientIds /\ outbox' = Append(outbox, m)
      BY <2>4, IdsAssumption
    <3>. HIDE DEF m
    <3>2. KeepOutbox
      BY <3>1, AppendKept DEF Types, PipeTypes
    <3>3. QED
      BY <2>1, <2>2, <2>4, <3>2, SameKept, OwnersShrink
  <2>5. QED
    BY <2>2, <2>3, <2>4 DEF GetAnswer
<1>2. ASSUME NEW i \in 1..Len(ctlList), GetClientIDResp(f, i)
      PROVE  Owners'
  <2>1. /\ call[f].pc = "getwait" /\ ctlList' = RemoveAt(ctlList, i)
        /\ UNCHANGED <<outbox, cb, file, modem>>
    BY <1>2 DEF GetClientIDResp, TakeAnswer
  <2>2. CASE ctlList[i].kind = "get" /\ ctlList[i].id # NONE
    <3>. DEFINE r == [call[f] EXCEPT !.pc = "check", !.id = ctlList[i].id,
                                     !.ans = ctlList[i].num]
    <3>1. r.id = ctlList[i].id
      BY DEF CallRecords
    <3>2. call' = [call EXCEPT ![f] = r]
      BY <1>2, <2>2 DEF GetClientIDResp
    <3>. HIDE DEF r
    <3>3. \A g \in Files : g # f => call'[g] = call[g]
      BY <3>2 DEF Procs
    <3>4. \A id \in ClientIds : \A g : InCall(g, id)' =>
             InCall(g, id) \/ (g = f /\ InCtlList(i, id))
      BY <2>2, <3>1, <3>2, <3>3 DEF InCall, InCtlList
    <3>5. QED
      BY <2>1, <3>4, TakeOwners
  <2>3. CASE ~(ctlList[i].kind = "get" /\ ctlList[i].id # NONE)
    <3>1. KeepCalls
      BY <1>2, <2>3, ReturnKept DEF GetClientIDResp
    <3>2. QED
      BY <2>1, <3>1, TakeOwners DEF KeepCalls
  <2>4. QED
    BY <2>2, <2>3
<1>3. CASE GetClientIDFails(f) \/ VerifyNotAllocated(f) \/ AddClientMem(f)
  <2>1. KeepCalls
    BY <1>3, GotoKept, ReturnKept DEF GetClientIDFails, VerifyNotAllocated, AddClientMem
  <2>2. UNCHANGED <<outbox, cb, ctlList, file, modem>>
    BY <1>3 DEF GetClientIDFails, VerifyNotAllocated, AddClientMem
  <2>3. QED
    BY <2>1, <2>2, SameKept, OwnersShrink
<1>4. CASE SetClientID(f)
  <2>1. KeepCalls /\ UNCHANGED <<outbox, cb, ctlList, modem>>
    BY <1>4, ReturnKept DEF SetClientID
  <2>2. \A id \in ClientIds : ~InCall(f, id)'
    BY <1>4, NoCallTyped DEF SetClientID, Return, InCall
  <2>3. CASE file[f].open
    <3>1. file' = [file EXCEPT ![f].id = call[f].id] /\ call[f].pc = "set"
      BY <1>4, <2>3 DEF SetClientID
    <3>2. \A g \in Files : /\ g # f => file'[g] = file[g]
                           /\ file'[f].id = call[f].id
      BY <3>1 DEF Types, IdTypes
    <3>3. \A id \in ClientIds : \A g : InFile(g, id)' =>
             (g # f /\ InFile(g, id)) \/ (g = f /\ InCall(f, id))
      BY <3>1, <3>2 DEF InFile, InCall
    <3>4. QED
      BY <2>1, <2>2, <3>3, HandOver
  <2>4. CASE ~file[f].open
    BY <1>4, <2>1, <2>4, SameKept, OwnersShrink DEF SetClientID
  <2>5. QED
    BY <2>3, <2>4
<1>5. QED
  BY <1>1, <1>2, <1>3, <1>4 DEF GetStep

LEMMA ReleaseStepOwners ==
    ASSUME Types, Walk, Owners, NEW p \in Procs, ReleaseStep(p)
    PROVE  Owners'
<1>. call[p] \in CallRecords /\ call \in [Procs -> CallRecords]
  BY DEF Types, CallTypes
<1>. USE DEF pipeFrame, modemBox, listVars
<1>1. CASE ReleaseRequest(p)
  <2>1. UNCHANGED <<cb, ctlList, file>> /\ call[p].pc = "relreq"
    BY <1>1 DEF ReleaseRequest
  <2>2. CASE (Return(p) \/ Goto(p, "walk")) /\ UNCHANGED <<outbox, modem>>
    BY <2>1, <2>2, GotoKept, ReturnKept, SameKept, OwnersShrink
  <2>3. CASE /\ call[p].id # QMICTL /\ CanWrite /\ ReleaseAnswer(NextRequest, call[p].id)
             /\ call' = [call EXCEPT ![p].pc = "relwait", ![p].req = NextRequest]
    <3>. DEFINE a == call[p].id
                r == [call[p] EXCEPT !.pc = "relwait", !.req = NextRequest]
                m == [kind |-> "release", num |-> NextRequest, id |-> a]
    <3>1. p # DEREG
      BY <2>1, <2>3 DEF CanWrite, Walk, CtlGone
    <3>2. p \in Files
      BY <3>1 DEF Procs
    <3>3. a \in ClientIds
      BY <2>1, <2>3 DEF CallRecords, Types, CallTypes
    <3>4. r.pc = "relwait" /\ call' = [call EXCEPT ![p] = r]
      BY <2>3 DEF CallRecords
    <3>5. m.kind = "release" /\ outbox' = Append(outbox, m) /\ modem' = modem \ {a}
      BY <2>3 DEF ReleaseAnswer
    <3>6. InCall(p, a)
      BY <2>1, <3>2 DEF InCall
    <3>. HIDE DEF r, m
    <3>7. KeepCalls
      BY <3>4, CallKept
    <3>8. KeepOutbox
      BY <3>5, AppendKept DEF Types, PipeTypes
    <3>9. \A id \in ClientIds : ~InCall(p, id)'
      BY <3>4 DEF InCall
    <3>10. QED
      BY <2>1, <3>2, <3>3, <3>5, <3>6, <3>7, <3>8, <3>9, ReleaseOwners
  <2>4. QED
    BY <1>1, <2>2, <2>3 DEF ReleaseRequest
<1>2. ASSUME NEW i \in 1..Len(ctlList), ReleaseClientIDResp(p, i)
      PROVE  Owners'
  <2>1. KeepCalls
    BY <1>2, GotoKept DEF ReleaseClientIDResp
  <2>2. ctlList' = RemoveAt(ctlList, i) /\ UNCHANGED <<outbox, cb, file, modem>>
    BY <1>2 DEF ReleaseClientIDResp, TakeAnswer
  <2>3. QED
    BY <2>1, <2>2, TakeOwners DEF KeepCalls
<1>3. CASE ReleaseTimesOut(p) \/ DeleteClientMem(p)
  <2>1. KeepCalls
    BY <1>3, GotoKept DEF ReleaseTimesOut, DeleteClientMem
  <2>2. UNCHANGED <<outbox, cb, ctlList, file, modem>>
    BY <1>3 DEF ReleaseTimesOut, DeleteClientMem
  <2>3. QED
    BY <2>1, <2>2, SameKept, OwnersShrink
<1>4. CASE DrainClient(p)
  <2>1. KeepCalls
    BY <1>4, GotoKept DEF DrainClient
  <2>2. UNCHANGED <<outbox, cb, file, modem>>
    BY <1>4 DEF DrainClient
  <2>3. KeepCtlList
    <3>1. ctlList' = << >> \/ ctlList' = ctlList
      BY <1>4 DEF DrainClient
    <3>2. QED
      BY <3>1 DEF KeepCtlList, InCtlList
  <2>4. QED
    BY <2>1, <2>2, <2>3, SameKept, OwnersShrink
<1>5. CASE FindInWalk(p)
  <2>1. KeepCalls
    <3>. DEFINE r(i) == [call[p] EXCEPT !.pc = "drain", !.pos = mClientMemList[i],
                                        !.safe = EntryAt(i + 1)]
    <3>1. \A i : r(i).pc = "drain"
      BY DEF CallRecords
    <3>2. Return(p) \/ \E i : call' = [call EXCEPT ![p] = r(i)]
      BY <1>5 DEF FindInWalk
    <3>. HIDE DEF r
    <3>3. QED
      BY <3>1, <3>2, ReturnKept, CallKept
  <2>2. UNCHANGED <<outbox, cb, ctlList, file, modem>>
    BY <1>5 DEF FindInWalk
  <2>3. QED
    BY <2>1, <2>2, SameKept, OwnersShrink
<1>6. CASE WalkOn(p)
  <2>1. KeepCalls
    <3>. DEFINE e == call[p].safe
                r == [call[p] EXCEPT !.pc = "drain", !.pos = e, !.safe = After(e)]
                q == [call[p] EXCEPT !.safe = After(e)]
    <3>1. r.pc = "drain" /\ q.pc = "next"
      BY <1>6 DEF CallRecords, WalkOn
    <3>2. \/ Return(p) \/ Goto(p, "fault")
          \/ call' = [call EXCEPT ![p] = r] \/ call' = [call EXCEPT ![p] = q]
      BY <1>6 DEF WalkOn
    <3>. HIDE DEF r, q
    <3>3. QED
      BY <3>1, <3>2, ReturnKept, GotoKept, CallKept
  <2>2. UNCHANGED <<outbox, cb, ctlList, file, modem>>
    BY <1>6 DEF WalkOn
  <2>3. QED
    BY <2>1, <2>2, SameKept, OwnersShrink
<1>7. QED
  BY <1>1, <1>2, <1>3, <1>4, <1>5, <1>6 DEF ReleaseStep

(* UserspaceClose passes the ID of the file on to the call; a file that    *)
(* DeregisterQMIDevice closes loses it. *)
LEMMA CloseOwners ==
    ASSUME Types, Owners, NEW p \in Procs, NEW f \in Files, p = f \/ p = DEREG,
           CloseBy(p, f), UNCHANGED <<outbox, cb, ctlList, modem>>
    PROVE  Owners'
<1>. call \in [Procs -> CallRecords]
  BY DEF Types, CallTypes
<1>1. /\ file' = [file EXCEPT ![f].open = FALSE] /\ call[p].pc = "idle"
      /\ \A g \in Files : g # f => file'[g] = file[g]
      /\ ~file'[f].open
  BY DEF CloseBy, Types, IdTypes
<1>2. KeepFiles /\ \A id \in ClientIds : ~InFile(f, id)'
  BY <1>1 DEF KeepFiles, InFile
<1>3. CASE KeepCalls
  BY <1>2, <1>3, SameKept, OwnersShrink
<1>4. CASE StartRelease(p, file[f].id) /\ file[f].open
  <2>. DEFINE r == CallAt("relreq", file[f].id, 0)
  <2>1. r.id = file[f].id /\ call' = [call EXCEPT ![p] = r]
    BY <1>4 DEF StartRelease, CallAt
  <2>. HIDE DEF r
  <2>2. CASE p = DEREG
    BY <1>3, <2>1, <2>2, CallKept
  <2>3. CASE p = f
    <3>1. \A g \in Files : g # f => call'[g] = call[g]
      BY <2>1, <2>3 DEF Procs
    <3>2. \A id \in ClientIds : \A g : InCall(g, id)' =>
             (g # f /\ InCall(g, id)) \/ (g = f /\ InFile(f, id))
      BY <1>4, <2>1, <2>3, <3>1 DEF InCall, InFile
    <3>3. QED
      BY <1>2, <3>2, HandOver
  <2>4. QED
    BY <2>2, <2>3
<1>5. QED
  BY <1>3, <1>4, SameKept DEF CloseBy

LEMMA OwnersStep ==
    ASSUME Types, Walk, Owners, [Next]_vars
    PROVE  Owners'
<1>. USE DEF pipeVars, modemBox, listVars, idVars, deregFrame
<1>1. CASE UNCHANGED vars
  BY <1>1, SameKept, OwnersShrink DEF vars
<1>2. ASSUME NEW f \in Files, UserspaceOpen(f)
      PROVE  Owners'
  <2>1. file'[f].id \notin ClientIds /\ \A g \in Files : g # f => file'[g] = file[g]
    BY <1>2, IdsAssumption DEF UserspaceOpen, Types, IdTypes
  <2>2. KeepFiles
    BY <2>1 DEF KeepFiles, InFile
  <2>3. QED
    BY <1>2, <2>2, SameKept, OwnersShrink DEF UserspaceOpen
<1>3. ASSUME NEW f \in Files, UserspaceClose(f) \/ CloseOpenFile(f)
      PROVE  Owners'
  BY <1>3, CloseOwners DEF UserspaceClose, CloseOpenFile, Procs
<1>4. CASE DeregisterQMIDevice \/ FilesClosed
  BY <1>4, SameKept, OwnersShrink DEF DeregisterQMIDevice, FilesClosed
<1>5. CASE ReleaseNext
  <2>1. KeepCalls
    <3>1. DEREG \in Procs
      BY DEF Procs
    <3>2. CASE StartRelease(DEREG, dwalk.id)
      BY <3>1, <3>2, CallKept DEF StartRelease
    <3>3. QED
      BY <1>5, <3>1, <3>2, GotoKept, SameKept DEF ReleaseNext
  <2>2. QED
    BY <1>5, <2>1, SameKept, OwnersShrink DEF ReleaseNext
<1>6. QED
  BY <1>1, <1>2, <1>3, <1>4, <1>5, PipeOwners, GetStepOwners, ReleaseStepOwners DEF Next


-----------------------------------------------------------------------------
(* A file whose call is about to enter its client finds the ID free: no    *)
(* other call can enter it after the test, for it would own the ID too.    *)
AddFree == mbQMIValid => \A f \in Files : call[f].pc = "add" => ~Listed(call[f].id)
Entered == ClientsDistinct /\ AddFree

LEMMA AddEntered ==
    ASSUME Types, Entered, NEW f \in Files, AddClientMem(f), ListGrows(call[f].id)
    PROVE  ClientsDistinct'
<1>1. SUFFICES ASSUME mbQMIValid PROVE ClientsDistinct'
  BY DEF ClientsDistinct, AddClientMem, pipeFrame
<1>2. ~Listed(call[f].id)
  BY <1>1 DEF AddClientMem, Entered, AddFree
<1>3. PICK req : mClientMemList' = Append(mClientMemList, [id |-> call[f].id, req |-> req])
  BY DEF ListGrows
<1>. DEFINE e == [id |-> call[f].id, req |-> req]
<1>4. e.id = call[f].id /\ mClientMemList' = Append(mClientMemList, e)
  BY <1>3
<1>. HIDE DEF e
<1>5. /\ Len(mClientMemList) \in Nat
      /\ \A i \in 1..Len(mClientMemList) : mClientMemList'[i] = mClientMemList[i]
      /\ mClientMemList'[Len(mClientMemList) + 1] = e
      /\ \A i \in 1..Len(mClientMemList') :
            i \in 1..Len(mClientMemList) \/ i = Len(mClientMemList) + 1
  BY <1>4, AppendElements DEF Types, ListTypes
<1>6. QED
  BY <1>1, <1>2, <1>4, <1>5 DEF Entered, ClientsDistinct, Listed

LEMMA DeleteEntered ==
    ASSUME Types, Entered, ListShrinks, mbQMIValid' => mbQMIValid
    PROVE  ClientsDistinct'
<1>1. SUFFICES ASSUME mbQMIValid PROVE ClientsDistinct'
  BY DEF ClientsDistinct
<1>2. PICK i \in 1..Len(mClientMemList) : mClientMemList' = RemoveAt(mClientMemList, i)
  BY DEF ListShrinks
<1>. DEFINE Old(j) == IF j < i THEN j ELSE j + 1
<1>3. \A j \in 1..Len(mClientMemList') :
         /\ j \in Nat /\ Old(j) \in 1..Len(mClientMemList)
         /\ mClientMemList'[j] = mClientMemList[Old(j)]
  <2>1. /\ Len(mClientMemList) \in Nat /\ Len(mClientMemList') = Len(mClientMemList) - 1
        /\ \A j \in 1..Len(mClientMemList') :
              /\ j \in Nat /\ j < Len(mClientMemList)
              /\ j < i => mClientMemList'[j] = mClientMemList[j]
              /\ ~(j < i) => mClientMemList'[j] = mClientMemList[j + 1]
    BY <1>2, RemoveElements DEF Types, ListTypes
  <2>2. QED
    BY <2>1
<1>4. \A j, k \in Nat : Old(j) = Old(k) => j = k
  OBVIOUS
<1>. HIDE DEF Old
<1>5. QED
  BY <1>1, <1>3, <1>4 DEF Entered, ClientsDistinct

LEMMA StaysInvalid ==
    ASSUME [Next]_vars
    PROVE  mbQMIValid' => mbQMIValid
<1>1. CASE PipeStep
  BY <1>1 DEF PipeStep, Callbacks, IntCallbackResponse, IntCallbackOther, ReadCallback,
     ReadCallbackError, AddToProcessIndList, UpIndication, StoreAndResubmit,
     SendIndication, GobiWaitForResponses, TestShouldStop, DownInterruptible,
     TakeIndication, HandleIndication, DeregisterTail, KillReadURB, KillIntURB,
     FreeReadBuffers, Invalidate, DropIndications, WakeThread, ThreadStopped,
     threadFrame
<1>2. QED
  BY <1>1, StepCases DEF OutsidePipe

(* A call comes to "add" through the test, and then the ID is free. *)
LEMMA ToAdd ==
    ASSUME Types, [Next]_vars, NEW f \in Files, call'[f].pc = "add"
    PROVE  \/ call[f].pc = "add" /\ call'[f].id = call[f].id
           \/ /\ mbQMIValid => ~Listed(call[f].id)
              /\ call'[f].id = call[f].id /\ ListKept
<1>. f \in Procs /\ f # DEREG /\ call \in [Procs -> CallRecords]
  BY FilesAssumption DEF Procs, Types, CallTypes
<1>1. CASE call'[f] = call[f]
  BY <1>1
<1>2. CASE VerifyNotAllocated(f)
  <2>1. Goto(f, "add") /\ (mbQMIValid => ~Listed(call[f].id))
    BY <1>2, NoCallTyped DEF VerifyNotAllocated, Return
  <2>2. call'[f].id = call[f].id
    BY <2>1 DEF Goto, CallRecords
  <2>3. QED
    BY <1>2, <2>1, <2>2 DEF VerifyNotAllocated, ListKept, listVars
<1>3. CASE GetStep(f) /\ ~VerifyNotAllocated(f)
  <2>1. CASE GetClientID(f)
    BY <2>1 DEF GetClientID, CallAt
  <2>2. ASSUME NEW i \in 1..Len(ctlList), GetClientIDResp(f, i)
        PROVE  FALSE
    BY <2>2, NoCallTyped DEF GetClientIDResp, Return, CallRecords
  <2>3. CASE AddClientMem(f)
    BY <2>3 DEF AddClientMem, Goto, CallRecords
  <2>4. CASE GetClientIDFails(f) \/ SetClientID(f)
    BY <2>4, NoCallTyped DEF GetClientIDFails, SetClientID, Return
  <2>5. QED
    BY <1>3, <2>1, <2>2, <2>3, <2>4 DEF GetStep
<1>4. ASSUME NEW p \in Procs, p # f,
             \/ ReleaseStep(p) \/ (p \in Files /\ GetStep(p))
             \/ (p \in Files /\ (UserspaceOpen(p) \/ UserspaceClose(p)))
      PROVE  call'[f] = call[f]
  BY <1>4, OtherCall
<1>5. CASE ReleaseStep(f)
  <2>1. call'[f].pc # "add"
    <3>. call[f] \in CallRecords
      OBVIOUS
    <3>1. CASE ReleaseRequest(f)
      BY <3>1, NoCallTyped DEF ReleaseRequest, Return, Goto, CallRecords
    <3>2. CASE ReleaseTimesOut(f) \/ DrainClient(f) \/ DeleteClientMem(f)
               \/ \E i \in 1..Len(ctlList) : ReleaseClientIDResp(f, i)
      BY <3>2 DEF ReleaseTimesOut, DrainClient, DeleteClientMem, ReleaseClientIDResp,
         Goto, CallRecords
    <3>3. CASE FindInWalk(f)
      <4>1. CASE Return(f)
        BY <4>1, NoCallTyped DEF Return
      <4>2. ASSUME NEW i \in 1..Len(mClientMemList),
                   call' = [call EXCEPT ![f].pc = "drain",
                                        ![f].pos = mClientMemList[i],
                                        ![f].safe = EntryAt(i + 1)]
            PROVE  call'[f].pc # "add"
        BY <4>2 DEF CallRecords
      <4>3. \/ Return(f)
            \/ \E i \in 1..Len(mClientMemList) :
                  call' = [call EXCEPT ![f].pc = "drain",
                                       ![f].pos = mClientMemList[i],
                                       ![f].safe = EntryAt(i + 1)]
        BY <3>3, Zenon DEF FindInWalk
      <4>4. QED
        BY <4>1, <4>2, <4>3, Zenon
    <3>4. CASE WalkOn(f)
      BY <3>4, NoCallTyped DEF WalkOn, Return, Goto, CallRecords
    <3>5. QED
      BY <1>5, <3>1, <3>2, <3>3, <3>4 DEF ReleaseStep
  <2>2. QED
    BY <2>1
<1>6. CASE UserspaceOpen(f)
  BY <1>1, <1>6 DEF UserspaceOpen
<1>7. CASE UserspaceClose(f)
  <2>1. call'[f] = call[f] \/ call'[f] = CallAt("relreq", file[f].id, 0)
    BY <1>7 DEF UserspaceClose, CloseBy, StartRelease
  <2>2. QED
    BY <1>1, <2>1 DEF CallAt
<1>8. CASE ReleaseNext \/ \E g \in Files : CloseOpenFile(g)
  <2>1. call'[f] = call[f]
    BY <1>8 DEF ReleaseNext, CloseOpenFile, CloseBy, StartRelease, Goto
  <2>2. QED
    BY <1>1, <2>1
<1>9. CASE UNCHANGED call
  BY <1>1, <1>9
<1>10. QED
  BY <1>1, <1>2, <1>3, <1>4, <1>5, <1>6, <1>7, <1>8, <1>9
     DEF Next, Procs, vars, idVars, DeregisterQMIDevice, FilesClosed

LEMMA EnteredStep ==
    ASSUME Types, Owners, Entered, [Next]_vars
    PROVE  Entered'
<1>1. ClientsDistinct'
  <2>1. CASE ListKept
    BY <2>1, StaysInvalid DEF ListKept, Entered, ClientsDistinct
  <2>2. QED
    BY <2>1, ListCases, AddEntered, DeleteEntered, StaysInvalid
<1>2. AddFree'
  <2>1. SUFFICES ASSUME mbQMIValid, NEW f \in Files, call'[f].pc = "add",
                        NEW i \in 1..Len(mClientMemList'),
                        mClientMemList'[i].id = call'[f].id
                 PROVE  FALSE
    BY StaysInvalid DEF AddFree, Listed
  <2>. DEFINE a == call[f].id
  <2>2. call'[f].id = a /\ ~Listed(a) /\ (call[f].pc = "add" \/ ListKept)
    BY <2>1, ToAdd DEF Entered, AddFree
  <2>3. Listed(a)'
    BY <2>1, <2>2 DEF Listed
  <2>4. ~ListKept
    BY <2>2, <2>3 DEF ListKept, Listed
  <2>5. PICK g \in Files : AddClientMem(g) /\ call[g].id = a /\ a \in ClientIds
    BY <2>2, <2>3, NothingListed
  <2>6. call[f].pc = "add" /\ call[g].pc = "add"
    BY <2>2, <2>4, <2>5 DEF AddClientMem
  <2>7. Owns("call", f, a) /\ Owns("call", g, a)
    BY <2>5, <2>6 DEF Owns, InCall
  <2>8. f = g
    BY <2>5, <2>7 DEF Owners, OneOwner
  <2>9. call'[f].pc = "set"
    BY <2>5, <2>8 DEF AddClientMem, Goto, Types, CallTypes, CallRecords, Procs
  <2>10. QED
    BY <2>1, <2>9
<1>3. QED
  BY <1>1, <1>2 DEF Entered

LEMMA InitOwners ==
    ASSUME Init
    PROVE  Walk /\ Owners /\ Entered
<1>1. /\ mClientMemList[1].id = QMICTL /\ mClientMemList[2].id = QMIWDS
      /\ Len(mClientMemList) = 2 /\ QMIWDS # QMICTL
  BY IdsAssumption DEF Init, PipeInit
<1>2. \A p \in Procs : call[p].pc = "idle"
  BY NoCallTyped DEF Init
<1>3. Walk
  BY <1>1, <1>2 DEF Init, PipeInit, Walk, CtlFirst, ValidUntil, CtlGone, Procs
<1>4. \A id \in ClientIds : \A k, x : ~Owns(k, x, id)
  BY <1>2 DEF Init, PipeInit, Owns, InOutbox, InCallback, InCtlList, InCall, InFile,
     Idle, Procs
<1>5. Owners
  BY <1>4 DEF Owners, OneOwner, Known
<1>6. Entered
  BY <1>1, <1>2 DEF Entered, ClientsDistinct, AddFree, Procs
<1>7. QED
  BY <1>3, <1>5, <1>6

(* A client ID stands for one client in the driver and for one open file,  *)
(* although GetClientID tests and enters it in two critical sections: the  *)
(* modem gives an ID away once, each place hands it on whole, and of the   *)
(* releases only that of the owner reaches the modem, since                *)
(* DeregisterQMIDevice releases QMICTL first. *)
THEOREM IDsDistinctTheorem == Spec => []IDsDistinct
<1>1. Init => Walk /\ Owners /\ Entered
  BY InitOwners
<1>2. Types /\ Walk /\ Owners /\ Entered /\ [Next]_vars => (Walk /\ Owners /\ Entered)'
  BY WalkStep, OwnersStep, EnteredStep
<1>3. Types /\ Owners /\ Entered => IDsDistinct
  <2>1. ASSUME Types, Owners
        PROVE  FilesDistinct
    <3>1. SUFFICES ASSUME NEW f \in Files, NEW g \in Files, file[f].open, file[g].open,
                          file[f].id = file[g].id, file[f].id # NONE
                   PROVE  f = g
      BY DEF FilesDistinct
    <3>2. file[f].id \in ClientIds
      BY <2>1, <3>1 DEF Types, IdTypes
    <3>3. Owns("file", f, file[f].id) /\ Owns("file", g, file[f].id)
      BY <3>1 DEF Owns, InFile
    <3>4. QED
      BY <2>1, <3>2, <3>3 DEF Owners, OneOwner
  <2>2. QED
    BY <2>1 DEF Entered, IDsDistinct
<1>4. QED
  BY <1>1, <1>2, <1>3, TypesHold, PTL DEF Spec
=============================================================================
