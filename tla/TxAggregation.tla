---------------------------- MODULE TxAggregation ----------------------------
(***************************************************************************)
(* Uplink aggregation of the network driver: aggr_tx_frame, its timer and  *)
(* its tasklet, src/src/linux/qcom_usbnet/qcom_usbnet_main.c.              *)
(*                                                                         *)
(* Packets of all network devices of a modem (the main one and the MUX     *)
(* devices) are collected in one frame, tx_curr_skb.  A packet that does   *)
(* not fit any more waits in tx_rem_skb.  A frame goes to usbnet when it   *)
(* is full, or when the tasklet of the timer transmits a NULL packet.  The *)
(* lock ctx->mtx covers one call of aggr_tx_frame; the transmit lock of a  *)
(* network device covers the call and what usbnet does with the frame.     *)
(*                                                                         *)
(* A packet is its number, its device and its length with the QMAP header. *)
(* A frame is its size, what is left of it (tx_curr_size), its packets and *)
(* where in the frame each of them ends.                                   *)
(*                                                                         *)
(* TxInit, TxNext, TxSpec: Init, Next and Spec are those of QMIWriteSync,  *)
(* which the module of the proofs extends together with this one.          *)
(***************************************************************************)
EXTENDS Integers, SequencesExt

CONSTANTS
    Devs,             \* network devices that share the context
    Main,             \* the one the tasklet transmits on
    Lens,             \* lengths of packets
    Probed,           \* <<tx_max, tx_max_datagrams>> of the probe
    Negotiated,       \* what the modem may answer
    RestartBelow,     \* CDC_NCM_RESTART_TIMER_DATAGRAM_CNT
    PendingCnt,       \* CDC_NCM_TIMER_PENDING_CNT
    MaxPackets,       \* bound: packets handed to the driver
    NoFrame           \* a null pointer

ASSUME AggrAssumption ==
    /\ Main \in Devs /\ Lens \subseteq Nat \ {0}
    /\ {Probed} \cup Negotiated \subseteq (Nat \ {0}) \X (Nat \ {0})
    /\ RestartBelow \in Nat /\ PendingCnt \in Nat /\ MaxPackets \in Nat

VARIABLES
    phase,    \* of the start: see Phases
    limit,    \* tx_max and tx_max_datagrams, and what the modem answers
    frame,    \* tx_curr_skb
    rem,      \* tx_rem_skb: no packet or one
    timer,    \* interval # 0, tx_timer_pending, is tx_timer running, stop
    bh,       \* the tasklet: is it scheduled, is it about to transmit
    out,      \* out[d]: the frame that d, under its lock, hands to usbnet
    queued,   \* packets of the frames in the queue of usbnet
    dropped,  \* packets counted in tx_dropped
    taken,    \* number of packets taken by the driver
    calm      \* every packet fits, every allocation has succeeded

txVars == <<phase, limit, frame, rem, timer, bh, out, queued, dropped, taken,
            calm>>
startVars == <<phase, limit>>

Phases == {"polling", "ready", "sized", "done"}
Packets == [id : 1..MaxPackets, dev : Devs, len : Lens]
Frames == [size : Nat \ {0}, room : Int, pkts : Seq(Packets), ends : Seq(Nat)]

ASSUME FrameAssumption == NoFrame \notin Frames

MaxSize == limit.inForce[1]
MaxDatagrams == limit.inForce[2]
FitsAlways(l) == \A m \in {Probed} \cup Negotiated : l <= m[1]

TxInit ==
    /\ phase = "polling"
    /\ limit \in [inForce : {Probed}, answer : Negotiated]
    /\ frame = NoFrame /\ rem = << >>
    /\ timer = [on |-> TRUE, pending |-> 0, runs |-> FALSE, stop |-> FALSE]
    /\ bh = [scheduled |-> FALSE, flush |-> FALSE]
    /\ out = [d \in Devs |-> NoFrame] /\ queued = << >>
    /\ dropped = {} /\ taken = 0 /\ calm = TRUE

(***************************************************************************)
(* aggr_tx_frame.                                                          *)
(***************************************************************************)
TimeoutStart(t) ==  \* cdc_ncm_tx_timeout_start
    [t EXCEPT !.runs = @ \/ ~t.stop]

TodoNewFirst(new) == new \o rem  \* variant: without the swap

(* The packets to put into the frame, in the order in which they are put:  *)
(* what is left of the last call comes first. *)
Todo(new) == rem \o new

NewFrame == [size |-> MaxSize, room |-> MaxSize, pkts |-> << >>, ends |-> << >>]

Filled(f) == IF f.ends = << >> THEN 0 ELSE Last(f.ends)  \* skb_out->len

FitsLimit(f, p) ==  \* variant: the limit in force, not the room left
    Len(f.pkts) < MaxDatagrams /\ Filled(f) + p.len <= MaxSize

Fits(f, p) == Len(f.pkts) < MaxDatagrams /\ p.len <= f.room

PutPacket(f, p) ==  \* skb_put
    [size |-> f.size,
     room |-> f.room - p.len,
     pkts |-> Append(f.pkts, p),
     ends |-> Append(f.ends, Filled(f) + p.len)]

(* One round of the loop over the packets that still have to be put. *)
PutNext(st) ==
    IF st.rest # << >> /\ Fits(st.frame, Head(st.rest))
    THEN [frame |-> PutPacket(st.frame, Head(st.rest)), rest |-> Tail(st.rest)]
    ELSE st

(* The loop: it meets two packets at most, the remainder and the new one. *)
Put(f, todo) == PutNext(PutNext([frame |-> f, rest |-> todo]))

(* What the call leaves in tx_rem_skb, of the packets rest it has not put: *)
(* the first that does not fit, or, with MaxDatagrams in the frame, the    *)
(* new one.  The other one is dropped. *)
Kept(rest, misfit) ==
    IF misfit THEN <<Head(rest)>>
    ELSE IF rest = << >> THEN << >> ELSE <<Last(rest)>>

DropUncounted(pkts) == dropped' = dropped  \* variant: not counted

CountDrops(pkts) == dropped' = dropped \cup pkts

Hold(g) ==  \* the frame waits for more packets
    /\ frame' = g
    /\ timer' = TimeoutStart([timer EXCEPT
                    !.pending = IF Len(g.pkts) < RestartBelow
                                THEN PendingCnt ELSE @])
    /\ UNCHANGED out

SendAndCancel(d, g) ==  \* variant: cdc_ncm_tx_timeout_cancel is called
    /\ frame' = NoFrame
    /\ out' = [out EXCEPT ![d] = g]
    /\ timer' = [timer EXCEPT !.runs = FALSE]

Send(d, g) ==  \* the frame is returned to usbnet
    /\ frame' = NoFrame
    /\ out' = [out EXCEPT ![d] = g]
    /\ UNCHANGED timer

AllocFails(new) ==
    /\ frame = NoFrame
    /\ rem' = IF new = << >> THEN rem ELSE new
    /\ CountDrops(IF new = << >> THEN {} ELSE ToSet(rem))
    /\ calm' = FALSE
    /\ UNCHANGED <<frame, timer, out>>

Aggregate(d, new) ==
    LET f      == IF frame = NoFrame THEN NewFrame ELSE frame
        loop   == Put(f, Todo(new))
        g      == loop.frame
        rest   == loop.rest
        misfit == rest # << >> /\ Len(g.pkts) < MaxDatagrams
    IN  /\ rem' = Kept(rest, misfit)
        /\ CountDrops(ToSet(rest) \ ToSet(rem'))
        /\ \/ /\ g.pkts = << >>
              /\ frame' = g
              /\ UNCHANGED <<timer, out>>
           \/ /\ g.pkts # << >>
              /\ Len(g.pkts) < MaxDatagrams /\ ~misfit
              /\ new # << >> /\ timer.on
              /\ Hold(g)
           \/ /\ g.pkts # << >>
              /\ \/ Len(g.pkts) >= MaxDatagrams \/ misfit
                 \/ new = << >> \/ ~timer.on
              /\ Send(d, g)

(***************************************************************************)
(* The network stack transmits a packet on d; usbnet calls                 *)
(* GobiNetDriver_tx_fixup under the transmit lock of d.  Before the modem  *)
(* is ready the packet is not taken, and lost.                             *)
(***************************************************************************)
StartXmit(d) ==
    /\ phase # "polling" /\ ~timer.stop
    /\ out[d] = NoFrame /\ taken < MaxPackets
    /\ taken' = taken + 1
    /\ \E l \in Lens :
          LET p == [id |-> taken + 1, dev |-> d, len |-> l] IN
          \/ AllocFails(<<p>>)
          \/ /\ Aggregate(d, <<p>>)
             /\ calm' = (calm /\ FitsAlways(l))
    /\ UNCHANGED <<startVars, bh, queued>>

Enqueue(d) ==  \* usbnet queues the frame and the lock of d is free
    /\ out[d] # NoFrame
    /\ queued' = queued \o out[d].pkts
    /\ out' = [out EXCEPT ![d] = NoFrame]
    /\ UNCHANGED <<startVars, frame, rem, timer, bh, dropped, taken, calm>>

(***************************************************************************)
(* The timer, the tasklet, and the transmission of a NULL packet.          *)
(***************************************************************************)
TimerCb ==  \* cdc_ncm_tx_timer_cb
    /\ timer.runs
    /\ timer' = [timer EXCEPT !.runs = FALSE]
    /\ bh' = [bh EXCEPT !.scheduled = @ \/ ~timer.stop]
    /\ UNCHANGED <<startVars, frame, rem, out, queued, dropped, taken, calm>>

CountDownNever == TimeoutStart(timer)  \* variant: no count

CountDown == TimeoutStart([timer EXCEPT !.pending = @ - 1])

LastCount == timer.pending = 0

TxpathBh ==  \* cdc_ncm_txpath_bh, under mtx
    /\ bh.scheduled /\ ~bh.flush
    /\ \/ /\ ~LastCount
          /\ timer' = CountDown
          /\ bh' = [bh EXCEPT !.scheduled = FALSE]
       \/ /\ LastCount
          /\ bh' = [scheduled |-> FALSE, flush |-> TRUE]
          /\ UNCHANGED timer
    /\ UNCHANGED <<startVars, frame, rem, out, queued, dropped, taken, calm>>

Flush ==  \* usbnet_start_xmit(NULL), under the transmit lock of Main
    /\ bh.flush /\ out[Main] = NoFrame
    /\ bh' = [bh EXCEPT !.flush = FALSE]
    /\ \/ AllocFails(<< >>)
       \/ Aggregate(Main, << >>) /\ UNCHANGED calm
    /\ UNCHANGED <<startVars, queued, taken>>

(***************************************************************************)
(* The start of the device, the sysfs entry, the removal of the device.    *)
(***************************************************************************)
Negotiate ==
    /\ \/ phase = "polling" /\ phase' = "ready" /\ UNCHANGED limit
       \/ /\ phase = "ready" /\ phase' = "sized"
          /\ limit' = [limit EXCEPT !.inForce[1] = limit.answer[1]]
       \/ /\ phase = "sized" /\ phase' = "done"
          /\ limit' = [limit EXCEPT !.inForce[2] = limit.answer[2]]
    /\ UNCHANGED <<frame, rem, timer, bh, out, queued, dropped, taken, calm>>

TimerStore ==  \* gobiQMITimer_store: 0 is written
    /\ timer.on
    /\ timer' = [timer EXCEPT !.on = FALSE, !.pending = 0]
    /\ UNCHANGED <<startVars, frame, rem, bh, out, queued, dropped, taken,
                   calm>>

Unbind ==  \* the network devices are unregistered before
    /\ ~timer.stop
    /\ timer' = [timer EXCEPT !.stop = TRUE, !.runs = FALSE]
    /\ UNCHANGED <<startVars, frame, rem, bh, out, queued, dropped, taken,
                   calm>>

TxNext ==
    \/ \E d \in Devs : StartXmit(d) \/ Enqueue(d)
    \/ TimerCb \/ TxpathBh \/ Flush
    \/ Negotiate \/ TimerStore \/ Unbind

TxSpec == TxInit /\ [][TxNext]_txVars

(* Fairness: the kernel runs timers and tasklets, and a transmission ends. *)
TxFairSpec ==
    /\ TxSpec
    /\ WF_txVars(TimerCb) /\ WF_txVars(TxpathBh) /\ WF_txVars(Flush)
    /\ \A d \in Devs : WF_txVars(Enqueue(d))

-----------------------------------------------------------------------------
Pkts(f) == IF f = NoFrame THEN << >> ELSE f.pkts
Held == Pkts(frame) \o rem
Line(d) == queued \o Pkts(out[d]) \o Held
Taken == dropped \cup UNION {ToSet(Line(d)) : d \in Devs}
Ids(P) == {p.id : p \in P}

(* As long as only the main device transmits, packets reach the queue of   *)
(* usbnet in the order in which the driver took them, whatever is held     *)
(* back, dropped or flushed by the tasklet in between.                     *)
OrderKept ==
    (\A p \in Taken : p.dev = Main)
        => \A i, j \in DOMAIN Line(Main) :
              i < j => Line(Main)[i].id < Line(Main)[j].id

(* Every packet the driver took is held, handed over or counted as         *)
(* dropped, and it is only one of these, once.                             *)
EveryPacketOnce ==
    /\ Ids(Taken) = 1..taken
    /\ \A d \in Devs :
          /\ \A i, j \in DOMAIN Line(d) : i # j => Line(d)[i].id # Line(d)[j].id
          /\ Ids(ToSet(Line(d))) \cap Ids(dropped) = {}
    /\ \A d, e \in Devs : d # e =>
          Ids(ToSet(Pkts(out[d]))) \cap Ids(ToSet(Pkts(out[e]))) = {}

(* The packets of a frame lie in it one behind the other, none reaches     *)
(* over its end (skb_put would panic), and tx_curr_size is what is left,   *)
(* though tx_max changes while frames are being filled.                    *)
FrameFits ==
    \A f \in {frame} \cup {out[d] : d \in Devs} : f # NoFrame =>
        /\ f.room >= 0 /\ Filled(f) + f.room = f.size
        /\ DOMAIN f.ends = DOMAIN f.pkts
        /\ \A i \in DOMAIN f.pkts :
              f.ends[i] = f.pkts[i].len + IF i = 1 THEN 0 ELSE f.ends[i - 1]

(* While packets are held, the timer runs or the tasklet is on its way:    *)
(* nothing else would send them if no further packet came.  A failed       *)
(* allocation, and a packet longer than tx_max, break this.                *)
HeldHasTimer ==
    calm /\ ~timer.stop /\ Held # << >>
        => timer.runs \/ bh.scheduled \/ bh.flush

(* A packet the driver took reaches the queue of usbnet, and is not        *)
(* dropped, under the same conditions.                                     *)
PacketLeaves ==
    \A n \in 1..MaxPackets :
        taken >= n ~> \/ n \in Ids(ToSet(queued))
                      \/ ~calm \/ timer.stop
=============================================================================
