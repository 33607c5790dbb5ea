------------------------ MODULE UsbnetTransmitProofs ------------------------
(***************************************************************************)
(* Theorems about the two ways out of the network driver qcom_usbnet: the  *)
(* synchronous writes to the control channel (QMIWriteSync), for any       *)
(* number of writers, clients and URBs, with and without releases and      *)
(* time-outs, and the aggregation of the uplink packets (TxAggregation),   *)
(* for any devices, packets, lengths and negotiated sizes.                 *)
(***************************************************************************)
EXTENDS QMIWriteSync, TxAggregation, SequenceTheorems, TLAPS

(***************************************************************************)
(* Synchronous writes to the control channel.                              *)
(***************************************************************************)
CallRecords == [pc : Positions, urb : 0..MaxURBs, timedOut : BOOLEAN]
RelRecords == [pc : RelPositions, urb : 0..MaxURBs]

(* The variables of the writes have their types. *)
Types ==
    /\ mbQMIValid \in BOOLEAN
    /\ listed \in [Clients -> BOOLEAN]
    /\ mURBList \in [Clients -> Seq(URBs)]
    /\ urb \in [URBs -> URBStates]
    /\ freed \in [URBs -> Nat]
    /\ writeSem \in [URBs -> Nat]
    /\ allocated \in 0..MaxURBs
    /\ call \in [Writers -> CallRecords]
    /\ rel \in [Clients -> RelRecords]
    /\ owner \in [URBs -> SUBSET Clients]

(* A call has an URB exactly while it runs, no two calls have the same one, *)
(* and it belongs to the client of the call; a release has one between its *)
(* pop and its free.                                                       *)
Calls ==
    /\ \A w \in Writers : call[w].pc = "idle" <=> call[w].urb = NoURB
    /\ \A w \in Writers : call[w].urb <= allocated
    /\ \A w \in Writers :
          call[w].urb # NoURB => owner[call[w].urb] = {ClientOf[w]}
    /\ \A v, w \in Writers :
          call[v].urb = call[w].urb /\ call[v].urb # NoURB => v = w
    /\ \A u \in URBs : u > allocated <=> urb[u] = "unallocated"
    /\ \A u \in URBs : u > allocated => freed[u] = 0 /\ owner[u] = {}
    /\ \A c \in Clients : rel[c].pc \in {"kill", "free"} <=> rel[c].urb # NoURB

(* Positions at which the URB of a call must not be in flight: the call    *)
(* will submit it, or frees it without a kill. *)
Quiet(w) ==
    \/ call[w].pc \in {"add", "submit", "unsubmitted", "free"}
    \/ call[w].pc \in {"check", "pop", "readd"} /\ ~call[w].timedOut

(* A semaphore is upped by the completion only, so that a call that got it *)
(* has an URB that is not in flight; a call that did not, has set timedOut *)
(* and kills the URB.                                                      *)
Completions ==
    /\ \A u \in URBs : urb[u] # "complete" => writeSem[u] = 0
    /\ \A w \in Writers :
          call[w].pc # "idle" => urb[call[w].urb] # "unfilled"
    /\ \A w \in Writers :
          call[w].pc \in {"add", "submit", "unsubmitted"}
              => urb[call[w].urb] = "ready"
    /\ \A w \in Writers : Quiet(w) => urb[call[w].urb] # "submitted"

(* The positions at which the URB of a call may be on a list, and those at *)
(* which it is not: before AddToURBList and after its own pop.             *)
Listed(w) == call[w].pc \in {"submit", "unsubmitted", "wait", "check", "pop"}
WithCall(w) == call[w].pc \in {"add", "kill", "free"}

Once(u, s) == \A i, j \in 1..Len(s) : s[i] = u /\ s[j] = u => i = j
Absent(u, s) == \A i \in 1..Len(s) : s[i] # u
Untouched(u) == freed[u] = 0 /\ \A c \in Clients : rel[c].urb # u

(* The URB of a call is on the list of its client, once, or with the       *)
(* release that took it off, or with the call: who takes it off frees it.  *)
Places ==
    /\ \A c \in Clients : \A i \in 1..Len(mURBList[c]) :
          owner[mURBList[c][i]] = {c}
    /\ \A c \in Clients : rel[c].urb # NoURB => owner[rel[c].urb] = {c}
    /\ \A w \in Writers : WithCall(w) =>
          Untouched(call[w].urb) /\ Absent(call[w].urb, mURBList[ClientOf[w]])
    /\ \A w \in Writers : Listed(w) =>
          /\ Once(call[w].urb, mURBList[ClientOf[w]])
          /\ \/ Absent(call[w].urb, mURBList[ClientOf[w]])
             \/ Untouched(call[w].urb)

(* A client that is not being released can be found; as long as it has one *)
(* writer its list holds the URB of that writer's call and nothing else.   *)
OwnList ==
    /\ \A c \in Clients : rel[c].pc # "done" => listed[c]
    /\ \A c \in Clients : listed[c] => mbQMIValid
    /\ \A w \in Writers :
          Private(ClientOf[w]) =>
             /\ ~At(w, "readd")
             /\ mURBList[ClientOf[w]] = IF Listed(w) THEN <<call[w].urb>>
                                                     ELSE << >>

(* Of such a client, an URB that is in flight, or filled and not freed,    *)
(* belongs to a call. *)
OwnersLive ==
    /\ SemaphoreInScope
    /\ NoURBLost

WriteInv == Types /\ Calls /\ Completions /\ Places /\ OwnList /\ OwnersLive

-----------------------------------------------------------------------------
(* A writer whose call runs has an URB, and a client.                      *)
LEMMA CallURB ==
    ASSUME Types, Calls, NEW w \in Writers
    PROVE  /\ ClientOf[w] \in Clients
           /\ call[w] \in CallRecords
           /\ call[w].pc # "idle" => call[w].urb \in URBs /\ call[w].urb # NoURB
<1>1. ClientOf[w] \in Clients
  BY WritersAssumption
<1>2. call[w] \in CallRecords /\ (call[w].pc = "idle" <=> call[w].urb = NoURB)
  BY DEF Types, Calls
<1>3. QED
  BY <1>1, <1>2, WritersAssumption DEF URBs, NoURB, CallRecords

(* The list that PopFromURBList leaves, and the URB it returns.            *)
LEMMA PopParts ==
    ASSUME Types, NEW c \in Clients
    PROVE  /\ TailURBs(c) \in Seq(URBs)
           /\ HeadURB(c) \in URBs \cup {NoURB}
           /\ \A i \in 1..Len(TailURBs(c)) :
                 \E j \in 1..Len(mURBList[c]) : TailURBs(c)[i] = mURBList[c][j]
           /\ HeadURB(c) # NoURB =>
                 /\ Found(c) /\ mURBList[c] # << >>
                 /\ 1 \in 1..Len(mURBList[c]) /\ mURBList[c][1] = HeadURB(c)
           /\ \A u : Once(u, mURBList[c]) => Once(u, TailURBs(c))
           /\ \A u : Absent(u, mURBList[c]) => Absent(u, TailURBs(c))
           /\ HeadURB(c) # NoURB /\ Once(HeadURB(c), mURBList[c])
                 => Absent(HeadURB(c), TailURBs(c))
<1>. DEFINE s == mURBList[c]
            t == Tail(s)
<1>1. s \in Seq(URBs)
  BY DEF Types
<1>2. CASE ~(Found(c) /\ s # << >>)
  BY <1>1, <1>2 DEF TailURBs, HeadURB, NoURB
<1>3. CASE Found(c) /\ s # << >>
  <2>1. /\ Len(s) \in Nat /\ Len(s) >= 1
        /\ Head(s) = s[1] /\ s[1] \in URBs /\ t \in Seq(URBs)
        /\ Len(t) = Len(s) - 1
        /\ \A i \in 1..Len(t) : t[i] = s[i + 1] /\ i + 1 \in 1..Len(s)
    BY <1>1, <1>3, HeadTailProperties
  <2>2. TailURBs(c) = t /\ HeadURB(c) = s[1]
    BY <1>3, <2>1 DEF TailURBs, HeadURB
  <2>. HIDE DEF t
  <2>3. \A i \in 1..Len(t) : \E j \in 1..Len(s) : t[i] = s[j]
    BY <2>1
  <2>4. 1 \in 1..Len(s)
    BY <2>1
  <2>5. ASSUME NEW u, Once(u, s) PROVE Once(u, t)
    BY <2>1, <2>5 DEF Once
  <2>6. ASSUME NEW u, Absent(u, s) PROVE Absent(u, t)
    BY <2>1, <2>6 DEF Absent
  <2>7. ASSUME Once(s[1], s) PROVE Absent(s[1], t)
    <3>1. ASSUME NEW i \in 1..Len(t), t[i] = s[1] PROVE FALSE
      <4>1. i + 1 \in 1..Len(s) /\ s[i + 1] = s[1] /\ i + 1 # 1
        BY <2>1, <3>1
      <4>2. QED
        BY <2>4, <2>7, <4>1 DEF Once
    <3>2. QED
      BY <3>1 DEF Absent
  <2>8. QED
    BY <1>3, <2>1, <2>2, <2>3, <2>4, <2>5, <2>6, <2>7
<1>4. QED
  BY <1>2, <1>3

(* An URB at the end of a list on which it was not.                        *)
LEMMA AppendParts ==
    ASSUME NEW s \in Seq(URBs), NEW u \in URBs
    PROVE  /\ Append(s, u) \in Seq(URBs)
           /\ \A i \in 1..Len(Append(s, u)) :
                 Append(s, u)[i] = u \/ \E j \in 1..Len(s) : Append(s, u)[i] = s[j]
           /\ Absent(u, s) => Once(u, Append(s, u))
           /\ \A v : v # u /\ Once(v, s) => Once(v, Append(s, u))
           /\ \A v : v # u /\ Absent(v, s) => Absent(v, Append(s, u))
<1>. DEFINE t == Append(s, u)
<1>1. /\ Len(s) \in Nat /\ t \in Seq(URBs) /\ Len(t) = Len(s) + 1
      /\ \A i \in 1..Len(s) : t[i] = s[i]
      /\ t[Len(s) + 1] = u
  OBVIOUS
<1>. HIDE DEF t
<1>2. \A i \in 1..Len(t) : i \in 1..Len(s) \/ i = Len(s) + 1
  BY <1>1
<1>3. Absent(u, s) => Once(u, t)
  BY <1>1, <1>2 DEF Absent, Once
<1>4. \A v : v # u /\ Once(v, s) => Once(v, t)
  BY <1>1, <1>2 DEF Once
<1>5. \A v : v # u /\ Absent(v, s) => Absent(v, t)
  BY <1>1, <1>2 DEF Absent
<1>6. QED
  BY <1>1, <1>2, <1>3, <1>4, <1>5 DEF t

(* usb_kill_urb and the completion end the flight of one URB.              *)
LEMMA KillEffect ==
    ASSUME Types, Completions, NEW u \in URBs,
           Kill(u) \/ (urb[u] = "submitted" /\ Complete(u))
    PROVE  /\ urb' \in [URBs -> URBStates] /\ writeSem' \in [URBs -> Nat]
           /\ urb'[u] # "submitted"
           /\ \A x \in URBs : \/ urb'[x] = urb[x]
                              \/ urb[x] = "submitted" /\ urb'[x] = "complete"
           /\ \A x \in URBs : urb'[x] # "complete" => writeSem'[x] = 0
<1>1. CASE urb[u] # "submitted"
  BY <1>1 DEF Kill, Types, Completions
<1>2. CASE urb[u] = "submitted"
  <2>1. Complete(u)
    BY <1>2 DEF Kill
  <2>. DEFINE n == IF InScope(u) THEN writeSem[u] + 1 ELSE writeSem[u]
  <2>2. /\ n \in Nat
        /\ urb' = [urb EXCEPT ![u] = "complete"]
        /\ writeSem' = [writeSem EXCEPT ![u] = n]
    BY <2>1 DEF Complete, Types
  <2>. HIDE DEF n
  <2>3. QED
    BY <1>2, <2>2 DEF Types, Completions, URBStates
<1>3. QED
  BY <1>1, <1>2

(* How a call moves: from one position to the next, with its URB.          *)
LEMMA CallMoves ==
    ASSUME Types, Calls, NEW w \in Writers, Continue(w)
    PROVE  /\ call' \in [Writers -> CallRecords]
           /\ \A v \in Writers \ {w} : call'[v] = call[v]
           /\ call[w].pc # "idle"
           /\ \/ call'[w] = Idle
              \/ call'[w].pc # "idle" /\ call'[w].urb = call[w].urb
           /\ UNCHANGED <<clientVars, newURBVars, rel>>
<1>1. call \in [Writers -> CallRecords] /\ call[w] \in CallRecords
  BY DEF Types
<1>2. call[w].pc # "idle" /\ UNCHANGED <<clientVars, newURBVars, rel>>
  BY DEF Continue, AddToURBList, Submit, PopUnsubmitted, Down, CheckValid,
         PopFromURBList, ReAdd, KillURB, FreeURB, At
<1>3. \/ Return(w)
      \/ \E p \in Positions \ {"idle"} : Goto(w, p)
      \/ call' = [call EXCEPT ![w].pc = "check", ![w].timedOut = TRUE]
  BY DEF Continue, AddToURBList, Submit, PopUnsubmitted, Down, CheckValid,
         PopFromURBList, ReAdd, KillURB, FreeURB, Positions
<1>4. CASE Return(w)
  <2>1. Idle \in CallRecords
    BY WritersAssumption DEF Idle, Positions, NoURB, CallRecords
  <2>2. QED
    BY <1>1, <1>2, <1>4, <2>1 DEF Return
<1>5. ASSUME NEW p \in Positions \ {"idle"}, Goto(w, p)
      PROVE  /\ call' \in [Writers -> CallRecords]
             /\ \A v \in Writers \ {w} : call'[v] = call[v]
             /\ call'[w].pc # "idle" /\ call'[w].urb = call[w].urb
  BY <1>1, <1>5 DEF Goto, CallRecords
<1>6. CASE call' = [call EXCEPT ![w].pc = "check", ![w].timedOut = TRUE]
  BY <1>1, <1>2, <1>6 DEF CallRecords, Positions
<1>7. QED
  BY <1>2, <1>3, <1>4, <1>5, <1>6

-----------------------------------------------------------------------------
(* The start of a call, which allocates an URB nobody has.                 *)
LEMMA NewURB ==
    ASSUME Types, Calls, Completions, NEW w \in Writers, WriteSync(w),
           NEW n, n = allocated + 1
    PROVE  /\ n \in URBs /\ n # NoURB /\ allocated' = n
           /\ owner' = [owner EXCEPT ![n] = {ClientOf[w]}]
           /\ urb[n] = "unallocated" /\ freed[n] = 0 /\ owner[n] = {}
           /\ \A v \in Writers : call[v].urb # n /\ call[v].urb <= allocated
           /\ call[w].pc = "idle"
           /\ call' \in [Writers -> CallRecords]
           /\ \A v \in Writers \ {w} : call'[v] = call[v]
           /\ freed' \in [URBs -> Nat]
           /\ \A u \in URBs \ {n} : urb'[u] = urb[u] /\ freed'[u] = freed[u]
           /\ urb' \in [URBs -> URBStates]
           /\ \/ /\ urb'[n] = "ready" /\ freed' = freed
                 /\ call'[w].pc = "add" /\ call'[w].urb = n
              \/ urb'[n] = "ready" /\ freed'[n] = 1 /\ call' = call
              \/ urb'[n] = "unfilled" /\ freed' = freed /\ call' = call
           /\ UNCHANGED <<clientVars, mURBList, writeSem, rel>>
<1>1. /\ n \in URBs /\ n # NoURB /\ allocated' = n /\ n > allocated
      /\ call \in [Writers -> CallRecords]
      /\ urb \in [URBs -> URBStates] /\ freed \in [URBs -> Nat]
  BY WritersAssumption DEF WriteSync, Types, URBs, NoURB
<1>2. urb[n] = "unallocated" /\ freed[n] = 0 /\ owner[n] = {}
  BY <1>1 DEF Calls
<1>3. \A v \in Writers : call[v].urb # n /\ call[v].urb <= allocated
  BY <1>1 DEF Calls
<1>4. /\ call[w].pc = "idle" /\ owner' = [owner EXCEPT ![n] = {ClientOf[w]}]
      /\ UNCHANGED <<clientVars, mURBList, writeSem, rel>>
  BY DEF WriteSync, At
<1>5. CASE /\ urb' = [urb EXCEPT ![n] = "ready"]
           /\ call' = [call EXCEPT ![w] = [pc |-> "add", urb |-> n,
                                           timedOut |-> FALSE]]
           /\ UNCHANGED freed
  <2>1. [pc |-> "add", urb |-> n, timedOut |-> FALSE] \in CallRecords
    BY <1>1 DEF CallRecords, Positions, URBs
  <2>2. QED
    BY <1>1, <1>2, <1>3, <1>4, <1>5, <2>1 DEF URBStates
<1>6. CASE urb' = [urb EXCEPT ![n] = "ready"] /\ Free(n) /\ UNCHANGED call
  BY <1>1, <1>2, <1>3, <1>4, <1>6 DEF Free, URBStates
<1>7. CASE urb' = [urb EXCEPT ![n] = "unfilled"] /\ UNCHANGED <<freed, call>>
  BY <1>1, <1>2, <1>3, <1>4, <1>7 DEF URBStates
<1>8. QED
  BY <1>5, <1>6, <1>7 DEF WriteSync

(* What the steps of a call do to the URBs.                                *)
LEMMA CallURBs ==
    ASSUME Types, Calls, Completions, NEW w \in Writers, Continue(w),
           NEW u, u = call[w].urb
    PROVE  /\ u \in URBs
           /\ urb' \in [URBs -> URBStates] /\ writeSem' \in [URBs -> Nat]
           /\ freed' \in [URBs -> Nat]
           /\ \A x \in URBs \ {u} : urb'[x] = urb[x] /\ freed'[x] = freed[x]
           /\ urb'[u] # "unallocated" /\ (urb'[u] = "unfilled" => urb[u] = "unfilled")
           /\ \A x \in URBs : urb'[x] # "complete" => writeSem'[x] = 0
<1>1. /\ u \in URBs /\ u # NoURB /\ u <= allocated /\ call[w].pc # "idle"
      /\ call[w] \in CallRecords
  BY CallURB, CallMoves DEF Calls
<1>2. /\ urb \in [URBs -> URBStates] /\ freed \in [URBs -> Nat]
      /\ writeSem \in [URBs -> Nat] /\ urb[u] # "unallocated"
      /\ \A x \in URBs : urb[x] # "complete" => writeSem[x] = 0
      /\ allocated \in Nat /\ u \in Nat
  BY <1>1, WritersAssumption DEF Types, Calls, Completions, URBs
<1>3. CASE AddToURBList(w) \/ FreeURB(w)
  <2>1. /\ UNCHANGED <<urb, writeSem>>
        /\ UNCHANGED freed \/ freed' = [freed EXCEPT ![u] = freed[u] + 1]
    BY <1>3 DEF AddToURBList, FreeURB, Free
  <2>2. QED
    BY <1>1, <1>2, <2>1
<1>4. CASE Submit(w)
  <2>1. /\ UNCHANGED <<freed, writeSem>> /\ call[w].pc = "submit"
        /\ UNCHANGED urb \/ urb' = [urb EXCEPT ![u] = "submitted"]
    BY <1>4 DEF Submit, At
  <2>2. writeSem[u] = 0
    BY <1>1, <1>2, <2>1 DEF Completions
  <2>3. QED
    BY <1>1, <1>2, <2>1, <2>2 DEF URBStates
<1>5. CASE PopUnsubmitted(w) \/ CheckValid(w) \/ PopFromURBList(w) \/ ReAdd(w)
  <2>1. UNCHANGED <<urb, freed, writeSem>>
    BY <1>5 DEF PopUnsubmitted, CheckValid, PopFromURBList, ReAdd
  <2>2. QED
    BY <1>1, <1>2, <2>1
<1>6. CASE Down(w)
  <2>1. /\ UNCHANGED <<urb, freed>>
        /\ \/ UNCHANGED writeSem
           \/ writeSem[u] > 0 /\ writeSem' = [writeSem EXCEPT ![u] = writeSem[u] - 1]
    BY <1>6 DEF Down
  <2>2. writeSem' \in [URBs -> Nat]
    <3>1. writeSem[u] \in Nat
      BY <1>1, <1>2
    <3>2. writeSem[u] > 0 => writeSem[u] - 1 \in Nat
      BY <3>1
    <3>3. QED
      BY <1>2, <2>1, <3>2
  <2>3. \A x \in URBs : urb'[x] # "complete" => writeSem'[x] = 0
    <3>1. \A x \in URBs \ {u} : writeSem'[x] = writeSem[x]
      BY <1>2, <2>1
    <3>2. urb[u] # "complete" => writeSem'[u] = 0
      BY <1>1, <1>2, <2>1
    <3>3. QED
      BY <1>2, <2>1, <3>1, <3>2
  <2>4. QED
    BY <1>1, <1>2, <2>1, <2>2, <2>3
<1>7. CASE KillURB(w)
  <2>1. UNCHANGED freed /\ Kill(u)
    BY <1>7 DEF KillURB
  <2>2. \A x \in URBs \ {u} : urb'[x] = urb[x]
    BY <1>2, <2>1 DEF Kill, Complete
  <2>3. /\ urb' \in [URBs -> URBStates] /\ writeSem' \in [URBs -> Nat]
        /\ urb'[u] = urb[u] \/ urb'[u] = "complete"
        /\ \A x \in URBs : urb'[x] # "complete" => writeSem'[x] = 0
    BY <1>1, <2>1, KillEffect
  <2>4. QED
    BY <1>1, <1>2, <2>1, <2>2, <2>3
<1>8. QED
  BY <1>3, <1>4, <1>5, <1>6, <1>7 DEF Continue

(* What the steps of a release do. *)
LEMMA ReleaseEffect ==
    ASSUME Types, Calls, Completions, NEW c \in Clients, Release(c)
    PROVE  /\ urb' \in [URBs -> URBStates] /\ writeSem' \in [URBs -> Nat]
           /\ freed' \in [URBs -> Nat] /\ rel' \in [Clients -> RelRecords]
           /\ \A x \in URBs : \/ urb'[x] = urb[x]
                              \/ urb[x] = "submitted" /\ urb'[x] = "complete"
           /\ \A x \in URBs : urb'[x] # "complete" => writeSem'[x] = 0
           /\ \A x \in URBs : freed'[x] # freed[x] => rel[c].urb = x
           /\ rel'[c].pc # "idle"
           /\ rel'[c].pc \in {"kill", "free"} <=> rel'[c].urb # NoURB
           /\ \/ rel'[c].urb = NoURB
              \/ rel'[c].urb = rel[c].urb
              \/ rel'[c].urb = HeadURB(c) /\ mURBList' = [mURBList EXCEPT ![c] = TailURBs(c)]
           /\ \A d \in Clients \ {c} : rel'[d] = rel[d]
           /\ \/ UNCHANGED mURBList
              \/ mURBList' = [mURBList EXCEPT ![c] = TailURBs(c)]
              \/ mURBList' = [mURBList EXCEPT ![c] = << >>]
           /\ UNCHANGED <<newURBVars, call>>
<1>1. /\ urb \in [URBs -> URBStates] /\ freed \in [URBs -> Nat]
      /\ writeSem \in [URBs -> Nat] /\ rel \in [Clients -> RelRecords]
      /\ rel[c] \in RelRecords
      /\ \A x \in URBs : urb[x] # "complete" => writeSem[x] = 0
      /\ rel[c].pc \in {"kill", "free"} <=> rel[c].urb # NoURB
      /\ NoURB \in 0..MaxURBs
  BY WritersAssumption DEF Types, Calls, Completions, NoURB
<1>2. ASSUME NEW p \in RelPositions, NEW u \in 0..MaxURBs, RelGoto(c, p, u)
      PROVE  /\ rel' \in [Clients -> RelRecords]
             /\ rel'[c].pc = p /\ rel'[c].urb = u
             /\ \A d \in Clients \ {c} : rel'[d] = rel[d]
  BY <1>1, <1>2 DEF RelGoto, RelRecords
<1>3. CASE ReleaseClientID(c)
  BY <1>1, <1>2, <1>3 DEF ReleaseClientID, RelPositions
<1>4. CASE ReleasePop(c)
  <2>1. HeadURB(c) \in 0..MaxURBs
    BY <1>1, PopParts DEF URBs
  <2>. DEFINE p == IF HeadURB(c) = NoURB THEN "del" ELSE "kill"
  <2>2. /\ p \in RelPositions /\ RelGoto(c, p, HeadURB(c))
        /\ mURBList' = [mURBList EXCEPT ![c] = TailURBs(c)]
        /\ UNCHANGED <<urb, freed, writeSem, newURBVars, call>>
    BY <1>4 DEF ReleasePop, PopHead, RelPositions
  <2>3. /\ rel' \in [Clients -> RelRecords]
        /\ rel'[c].pc = p /\ rel'[c].urb = HeadURB(c)
        /\ \A d \in Clients \ {c} : rel'[d] = rel[d]
    BY <1>2, <2>1, <2>2
  <2>4. QED
    BY <1>1, <2>2, <2>3
<1>5. CASE ReleaseKill(c)
  <2>1. /\ rel[c].urb \in URBs /\ rel[c].urb # NoURB
        /\ rel[c].urb \in 0..MaxURBs
    BY <1>1, <1>5, WritersAssumption DEF ReleaseKill, RelRecords, URBs, NoURB
  <2>2. /\ RelGoto(c, "free", rel[c].urb)
        /\ UNCHANGED <<mURBList, freed, newURBVars, call>>
    BY <1>5 DEF ReleaseKill
  <2>. PICK u \in URBs : u = rel[c].urb
    BY <2>1
  <2>6. Kill(u)
    BY <1>5 DEF ReleaseKill, Kill, Complete, InScope
  <2>3. /\ urb' \in [URBs -> URBStates] /\ writeSem' \in [URBs -> Nat]
        /\ \A x \in URBs : \/ urb'[x] = urb[x]
                           \/ urb[x] = "submitted" /\ urb'[x] = "complete"
        /\ \A x \in URBs : urb'[x] # "complete" => writeSem'[x] = 0
    BY <2>6, KillEffect
  <2>4. /\ rel' \in [Clients -> RelRecords]
        /\ rel'[c].pc = "free" /\ rel'[c].urb = rel[c].urb
        /\ \A d \in Clients \ {c} : rel'[d] = rel[d]
    BY <1>2, <2>1, <2>2 DEF RelPositions
  <2>5. QED
    BY <1>1, <2>1, <2>2, <2>3, <2>4
<1>6. CASE ReleaseFree(c)
  <2>1. rel[c].urb \in URBs
    BY <1>1, <1>6, WritersAssumption DEF ReleaseFree, RelRecords, URBs, NoURB
  <2>2. /\ RelGoto(c, "pop", NoURB)
        /\ freed' = [freed EXCEPT ![rel[c].urb] = freed[rel[c].urb] + 1]
        /\ UNCHANGED <<mURBList, urb, writeSem, newURBVars, call>>
    BY <1>6 DEF ReleaseFree, Free
  <2>3. /\ freed' \in [URBs -> Nat]
        /\ \A x \in URBs : freed'[x] # freed[x] => rel[c].urb = x
    BY <1>1, <2>1, <2>2
  <2>4. /\ rel' \in [Clients -> RelRecords]
        /\ rel'[c].pc = "pop" /\ rel'[c].urb = NoURB
        /\ \A d \in Clients \ {c} : rel'[d] = rel[d]
    BY <1>1, <1>2, <2>2 DEF RelPositions
  <2>5. QED
    BY <1>1, <2>2, <2>3, <2>4
<1>7. CASE ReleaseDelete(c)
  BY <1>1, <1>2, <1>7 DEF ReleaseDelete, RelPositions
<1>8. QED
  BY <1>3, <1>4, <1>5, <1>6, <1>7 DEF Release

-----------------------------------------------------------------------------
LEMMA TypesStep ==
    ASSUME Types, Calls, Completions, [Next]_vars
    PROVE  Types'
<1>1. ASSUME NEW w \in Writers, WriteSync(w) PROVE Types'
  <2>. DEFINE n == allocated + 1
  <2>1. /\ n \in URBs /\ allocated' = n
        /\ owner' = [owner EXCEPT ![n] = {ClientOf[w]}]
        /\ call' \in [Writers -> CallRecords]
        /\ freed' \in [URBs -> Nat] /\ urb' \in [URBs -> URBStates]
        /\ UNCHANGED <<clientVars, mURBList, writeSem, rel>>
    <3>1. PICK m : m = allocated + 1
      OBVIOUS
    <3>2. QED
      BY <1>1, <3>1, NewURB
  <2>2. owner' \in [URBs -> SUBSET Clients]
    BY <2>1, WritersAssumption DEF Types
  <2>3. allocated' \in 0..MaxURBs
    BY <2>1, WritersAssumption DEF URBs
  <2>4. QED
    BY <2>1, <2>2, <2>3 DEF Types, clientVars
<1>2. ASSUME NEW w \in Writers, Continue(w) PROVE Types'
  <2>1. /\ call' \in [Writers -> CallRecords] /\ urb' \in [URBs -> URBStates]
        /\ writeSem' \in [URBs -> Nat] /\ freed' \in [URBs -> Nat]
        /\ UNCHANGED <<clientVars, newURBVars, rel>>
    <3>1. PICK u : u = call[w].urb
      OBVIOUS
    <3>2. QED
      BY <1>2, <3>1, CallMoves, CallURBs
  <2>2. mURBList' \in [Clients -> Seq(URBs)]
    <3>1. /\ ClientOf[w] \in Clients /\ call[w].urb \in URBs
          /\ mURBList \in [Clients -> Seq(URBs)]
          /\ mURBList[ClientOf[w]] \in Seq(URBs)
      BY <1>2, CallMoves, CallURB DEF Types
    <3>2. Append(mURBList[ClientOf[w]], call[w].urb) \in Seq(URBs)
      BY <3>1, AppendProperties
    <3>3. TailURBs(ClientOf[w]) \in Seq(URBs)
      BY <3>1, PopParts
    <3>4. \/ UNCHANGED mURBList
          \/ mURBList' = [mURBList EXCEPT ![ClientOf[w]] =
                            Append(mURBList[ClientOf[w]], call[w].urb)]
          \/ mURBList' = [mURBList EXCEPT ![ClientOf[w]] = TailURBs(ClientOf[w])]
      BY <1>2 DEF Continue, AddToURBList, Submit, PopUnsubmitted, Down,
                  CheckValid, PopFromURBList, ReAdd, KillURB, FreeURB, PopHead
    <3>5. QED
      BY <3>1, <3>2, <3>3, <3>4
  <2>3. QED
    BY <2>1, <2>2 DEF Types, clientVars, newURBVars
<1>3. ASSUME NEW u \in URBs, WriteSyncCallback(u) PROVE Types'
  <2>1. urb' \in [URBs -> URBStates] /\ writeSem' \in [URBs -> Nat]
    BY <1>3, KillEffect DEF WriteSyncCallback
  <2>2. QED
    BY <1>3, <2>1 DEF WriteSyncCallback, Types, clientVars, newURBVars
<1>4. ASSUME NEW c \in Clients, Release(c) PROVE Types'
  <2>1. /\ urb' \in [URBs -> URBStates] /\ writeSem' \in [URBs -> Nat]
        /\ freed' \in [URBs -> Nat] /\ rel' \in [Clients -> RelRecords]
        /\ UNCHANGED <<newURBVars, call>>
    BY <1>4, ReleaseEffect
  <2>2. /\ mbQMIValid' = mbQMIValid
        /\ listed' = listed \/ listed' = [listed EXCEPT ![c] = FALSE]
    BY <1>4 DEF Release, ReleaseClientID, ReleasePop, ReleaseKill, ReleaseFree,
                ReleaseDelete, clientVars
  <2>3. mURBList' \in [Clients -> Seq(URBs)]
    <3>1. TailURBs(c) \in Seq(URBs) /\ << >> \in Seq(URBs)
      BY PopParts, EmptySeq
    <3>2. \/ UNCHANGED mURBList
          \/ mURBList' = [mURBList EXCEPT ![c] = TailURBs(c)]
          \/ mURBList' = [mURBList EXCEPT ![c] = << >>]
      BY <1>4, ReleaseEffect
    <3>3. QED
      BY <3>1, <3>2 DEF Types
  <2>4. QED
    BY <2>1, <2>2, <2>3 DEF Types, newURBVars
<1>5. CASE Invalidate \/ UNCHANGED vars
  BY <1>5 DEF Invalidate, vars, Types, newURBVars
<1>6. QED
  BY <1>1, <1>2, <1>3, <1>4, <1>5 DEF Next

LEMMA CallsStep ==
    ASSUME Types, Calls, Completions, Places, [Next]_vars
    PROVE  Calls'
<1>1. ASSUME NEW w \in Writers, WriteSync(w) PROVE Calls'
  <2>1. PICK n : n = allocated + 1
    OBVIOUS
  <2>2. /\ n \in URBs /\ n # NoURB /\ allocated' = n /\ n = allocated + 1
        /\ owner' = [owner EXCEPT ![n] = {ClientOf[w]}]
        /\ \A v \in Writers : call[v].urb # n /\ call[v].urb <= allocated
        /\ call[w].pc = "idle" /\ urb[n] = "unallocated"
        /\ \A v \in Writers \ {w} : call'[v] = call[v]
        /\ \A u \in URBs \ {n} : urb'[u] = urb[u] /\ freed'[u] = freed[u]
        /\ urb'[n] # "unallocated"
        /\ call' = call \/ (call'[w].pc = "add" /\ call'[w].urb = n)
        /\ UNCHANGED rel
    BY <1>1, <2>1, NewURB
  <2>3. /\ owner'[n] = {ClientOf[w]}
        /\ \A u \in URBs \ {n} : owner'[u] = owner[u]
    BY <2>2 DEF Types
  <2>4. allocated \in Nat /\ \A v \in Writers : call[v].urb \in Nat
    BY WritersAssumption DEF Types, CallRecords
  <2>5. call[w].urb = NoURB
    BY <2>2 DEF Calls
  <2>6. \A v \in Writers : /\ call'[v].pc = "idle" <=> call'[v].urb = NoURB
                           /\ call'[v].urb <= allocated'
    BY <2>2, <2>4 DEF Calls
  <2>7. ASSUME NEW v \in Writers, call'[v].urb # NoURB
        PROVE  owner'[call'[v].urb] = {ClientOf[v]}
    <3>1. call[v].urb # NoURB => call[v].urb \in URBs
      BY CallURB DEF Calls
    <3>2. QED
      BY <2>2, <2>3, <2>5, <2>7, <3>1 DEF Calls
  <2>8. ASSUME NEW v \in Writers, NEW x \in Writers,
               call'[v].urb = call'[x].urb, call'[v].urb # NoURB
        PROVE  v = x
    BY <2>2, <2>5, <2>8 DEF Calls
  <2>9. ASSUME NEW u \in URBs
        PROVE  /\ u > allocated' <=> urb'[u] = "unallocated"
               /\ u > allocated' => freed'[u] = 0 /\ owner'[u] = {}
    <3>1. u \in Nat /\ n \in Nat
      BY <2>2, WritersAssumption DEF URBs
    <3>2. u > n <=> u > allocated /\ u # n
      BY <2>2, <2>4, <3>1
    <3>3. QED
      BY <2>2, <2>3, <3>2 DEF Calls
  <2>10. QED
    BY <2>2, <2>6, <2>7, <2>8, <2>9 DEF Calls
<1>2. ASSUME NEW w \in Writers, Continue(w) PROVE Calls'
  <2>1. PICK u : u = call[w].urb
    OBVIOUS
  <2>2. /\ \A v \in Writers \ {w} : call'[v] = call[v]
        /\ call[w].pc # "idle"
        /\ \/ call'[w].pc = "idle" /\ call'[w].urb = NoURB
           \/ call'[w].pc # "idle" /\ call'[w].urb = call[w].urb
        /\ UNCHANGED <<allocated, owner, rel>>
    BY <1>2, CallMoves DEF Idle, newURBVars
  <2>3. /\ u \in URBs /\ urb'[u] # "unallocated" /\ urb[u] # "unallocated"
        /\ \A x \in URBs \ {u} : urb'[x] = urb[x] /\ freed'[x] = freed[x]
        /\ ~(u > allocated)
    <3>1. /\ u \in URBs /\ urb'[u] # "unallocated"
          /\ \A x \in URBs \ {u} : urb'[x] = urb[x] /\ freed'[x] = freed[x]
      BY <1>2, <2>1, CallURBs
    <3>2. u <= allocated /\ u \in Nat /\ allocated \in Nat
      BY <2>1, <3>1, WritersAssumption DEF Calls, URBs, Types
    <3>3. ~(u > allocated)
      BY <3>2
    <3>4. QED
      BY <3>1, <3>3 DEF Calls
  <2>4. NoURB <= allocated
    BY WritersAssumption DEF Types, NoURB
  <2>5. \A v \in Writers : /\ call'[v].pc = "idle" <=> call'[v].urb = NoURB
                           /\ call'[v].urb <= allocated'
                           /\ call'[v].urb # NoURB => call'[v].urb = call[v].urb
    BY <2>2, <2>4 DEF Calls
  <2>6. \A x \in URBs : /\ x > allocated' <=> urb'[x] = "unallocated"
                        /\ x > allocated' => freed'[x] = 0 /\ owner'[x] = {}
    BY <2>2, <2>3 DEF Calls
  <2>7. QED
    BY <2>2, <2>5, <2>6 DEF Calls
<1>3. ASSUME UNCHANGED <<allocated, owner, call>>,
             \A x \in URBs : urb'[x] = "unallocated" <=> urb[x] = "unallocated",
             \A x \in URBs : x > allocated => freed'[x] = freed[x],
             \A c \in Clients :
                rel'[c].pc \in {"kill", "free"} <=> rel'[c].urb # NoURB
      PROVE  Calls'
  BY <1>3 DEF Calls
<1>4. ASSUME NEW u \in URBs, WriteSyncCallback(u) PROVE Calls'
  <2>1. \A x \in URBs : urb'[x] = "unallocated" <=> urb[x] = "unallocated"
    BY <1>4, KillEffect DEF WriteSyncCallback
  <2>2. QED
    BY <1>3, <1>4, <2>1 DEF WriteSyncCallback, Calls, newURBVars
<1>5. ASSUME NEW c \in Clients, Release(c) PROVE Calls'
  <2>1. /\ UNCHANGED <<allocated, owner, call>>
        /\ \A x \in URBs : urb'[x] = "unallocated" <=> urb[x] = "unallocated"
        /\ rel'[c].pc \in {"kill", "free"} <=> rel'[c].urb # NoURB
        /\ \A d \in Clients \ {c} : rel'[d] = rel[d]
        /\ \A x \in URBs : freed'[x] # freed[x] => rel[c].urb = x
    BY <1>5, ReleaseEffect DEF newURBVars
  <2>2. ASSUME NEW x \in URBs, x > allocated, freed'[x] # freed[x]
        PROVE  FALSE
    <3>1. rel[c].urb = x /\ x # NoURB
      BY <2>1, <2>2 DEF URBs, NoURB
    <3>2. owner[x] = {c}
      BY <3>1 DEF Places
    <3>3. QED
      BY <2>2, <3>2 DEF Calls
  <2>3. \A d \in Clients :
           rel'[d].pc \in {"kill", "free"} <=> rel'[d].urb # NoURB
    BY <2>1 DEF Calls
  <2>4. QED
    BY <1>3, <2>1, <2>2, <2>3
<1>6. CASE Invalidate \/ UNCHANGED vars
  BY <1>3, <1>6 DEF Invalidate, vars, newURBVars, Calls
<1>7. QED
  BY <1>1, <1>2, <1>4, <1>5, <1>6 DEF Next

-----------------------------------------------------------------------------
(* What the completions and the releases do to the URBs leaves what is     *)
(* said of the calls as it is.                                             *)
LEMMA CompletionsFrame ==
    ASSUME Types, Calls, Completions,
           UNCHANGED call,
           \A x \in URBs : \/ urb'[x] = urb[x]
                           \/ urb[x] = "submitted" /\ urb'[x] = "complete",
           \A x \in URBs : urb'[x] # "complete" => writeSem'[x] = 0
    PROVE  Completions'
<1>1. ASSUME NEW w \in Writers, call[w].pc # "idle"
      PROVE  /\ urb'[call[w].urb] # "unfilled"
             /\ call[w].pc \in {"add", "submit", "unsubmitted"}
                  => urb'[call[w].urb] = "ready"
             /\ Quiet(w) => urb'[call[w].urb] # "submitted"
  <2>1. call[w].urb \in URBs
    BY <1>1, CallURB
  <2>2. QED
    BY <1>1, <2>1 DEF Completions
<1>2. ASSUME NEW w \in Writers
      PROVE  /\ Quiet(w)' <=> Quiet(w)
             /\ Quiet(w) => call[w].pc # "idle"
  BY DEF Quiet
<1>3. QED
  BY <1>1, <1>2 DEF Completions

(* One step of one call: what is said of its own URB is enough.            *)
LEMMA CompletionsOfCall ==
    ASSUME Types, Calls, Completions, NEW w \in Writers, NEW u \in URBs,
           \A v \in Writers \ {w} : call'[v] = call[v] /\ call[v].urb # u,
           \A x \in URBs \ {u} : urb'[x] = urb[x],
           \A x \in URBs : urb'[x] # "complete" => writeSem'[x] = 0,
           \/ call'[w].pc = "idle"
           \/ /\ call'[w].urb = u
              /\ urb'[u] # "unfilled"
              /\ call'[w].pc \in {"add", "submit", "unsubmitted"}
                   => urb'[u] = "ready"
              /\ Quiet(w)' => urb'[u] # "submitted"
    PROVE  Completions'
<1>1. ASSUME NEW v \in Writers, call'[v].pc # "idle"
      PROVE  /\ urb'[call'[v].urb] # "unfilled"
             /\ call'[v].pc \in {"add", "submit", "unsubmitted"}
                  => urb'[call'[v].urb] = "ready"
             /\ Quiet(v)' => urb'[call'[v].urb] # "submitted"
  <2>1. CASE v = w
    BY <1>1, <2>1
  <2>2. CASE v # w
    <3>1. call'[v] = call[v] /\ urb'[call[v].urb] = urb[call[v].urb]
      BY <1>1, <2>2, CallURB
    <3>2. Quiet(v)' <=> Quiet(v)
      BY <3>1 DEF Quiet
    <3>3. QED
      BY <1>1, <3>1, <3>2 DEF Completions
  <2>3. QED
    BY <2>1, <2>2
<1>2. \A v \in Writers : Quiet(v)' => call'[v].pc # "idle"
  BY DEF Quiet
<1>3. QED
  BY <1>1, <1>2 DEF Completions

LEMMA CompletionsStep ==
    ASSUME Types, Calls, Completions, [Next]_vars
    PROVE  Completions'
<1>1. ASSUME NEW w \in Writers, WriteSync(w) PROVE Completions'
  <2>1. PICK n : n = allocated + 1
    OBVIOUS
  <2>2. /\ n \in URBs /\ urb[n] = "unallocated"
        /\ \A v \in Writers : call[v].urb # n
        /\ call[w].pc = "idle"
        /\ \A v \in Writers \ {w} : call'[v] = call[v]
        /\ \A x \in URBs \ {n} : urb'[x] = urb[x]
        /\ \/ urb'[n] = "ready" /\ call'[w].pc = "add" /\ call'[w].urb = n
           \/ call' = call
        /\ writeSem' = writeSem
    BY <1>1, <2>1, NewURB
  <2>3. \A x \in URBs : urb'[x] # "complete" => writeSem'[x] = 0
    BY <2>2 DEF Completions
  <2>4. QED
    BY <2>2, <2>3, CompletionsOfCall
<1>2. ASSUME NEW w \in Writers, Continue(w) PROVE Completions'
  <2>1. PICK u : u = call[w].urb
    OBVIOUS
  <2>2. /\ \A v \in Writers \ {w} : call'[v] = call[v]
        /\ call[w].pc # "idle" /\ call[w] \in CallRecords
        /\ call'[w] = Idle \/ (call'[w].pc # "idle" /\ call'[w].urb = u)
        /\ call \in [Writers -> CallRecords]
    BY <1>2, <2>1, CallMoves DEF Types
  <2>3. /\ u \in URBs /\ urb' \in [URBs -> URBStates]
        /\ \A x \in URBs \ {u} : urb'[x] = urb[x] /\ freed'[x] = freed[x]
        /\ urb'[u] = "unfilled" => urb[u] = "unfilled"
        /\ \A x \in URBs : urb'[x] # "complete" => writeSem'[x] = 0
    BY <1>2, <2>1, CallURBs
  <2>4. \A v \in Writers \ {w} : call[v].urb # u
    BY <2>1, <2>3, CallURB, <2>2 DEF Calls
  <2>5. urb'[u] # "unfilled"
    BY <2>1, <2>2, <2>3 DEF Completions
  <2>6. ASSUME call'[w].pc # "idle"
        PROVE  /\ call'[w].pc \in {"add", "submit", "unsubmitted"}
                    => urb'[u] = "ready"
               /\ Quiet(w)' => urb'[u] # "submitted"
    <3>1. ~Return(w)
      BY <2>2, <2>6 DEF Return, Idle
    <3>2. CASE AddToURBList(w)
      <4>1. call[w].pc = "add" /\ Goto(w, "submit") /\ UNCHANGED urb
        BY <3>1, <3>2 DEF AddToURBList, At
      <4>2. QED
        BY <2>1, <2>2, <4>1 DEF Goto, Completions
    <3>3. CASE Submit(w)
      <4>1. /\ call[w].pc = "submit"
            /\ Goto(w, "wait") \/ (Goto(w, "unsubmitted") /\ UNCHANGED urb)
        BY <3>3 DEF Submit, At
      <4>2. CASE Goto(w, "wait")
        BY <2>2, <4>2 DEF Goto, Quiet
      <4>3. CASE Goto(w, "unsubmitted") /\ UNCHANGED urb
        BY <2>1, <2>2, <4>1, <4>3 DEF Goto, Completions
      <4>4. QED
        BY <4>1, <4>2, <4>3
    <3>4. CASE PopUnsubmitted(w)
      <4>1. call[w].pc = "unsubmitted" /\ Goto(w, "free") /\ UNCHANGED urb
        BY <3>1, <3>4 DEF PopUnsubmitted, At
      <4>2. QED
        BY <2>1, <2>2, <4>1 DEF Goto, Completions
    <3>5. CASE Down(w)
      <4>1. CASE writeSem[u] > 0 /\ Goto(w, "check") /\ UNCHANGED urb
        <5>1. urb[u] = "complete"
          BY <2>3, <4>1 DEF Completions
        <5>2. call'[w].pc = "check"
          BY <2>2, <4>1 DEF Goto, CallRecords
        <5>3. QED
          BY <4>1, <5>1, <5>2
      <4>2. CASE call' = [call EXCEPT ![w].pc = "check", ![w].timedOut = TRUE]
        BY <2>2, <4>2 DEF Quiet, CallRecords
      <4>3. QED
        BY <2>1, <3>5, <4>1, <4>2 DEF Down
    <3>6. CASE CheckValid(w)
      <4>1. call[w].pc = "check" /\ Goto(w, "pop") /\ UNCHANGED urb
        BY <3>1, <3>6 DEF CheckValid, At
      <4>2. /\ call'[w].pc = "pop" /\ call'[w].timedOut = call[w].timedOut
        BY <2>2, <4>1 DEF Goto, CallRecords
      <4>3. QED
        BY <2>1, <4>1, <4>2 DEF Completions, Quiet
    <3>7. CASE PopFromURBList(w)
      <4>1. /\ call[w].pc = "pop" /\ UNCHANGED urb
            /\ \/ Goto(w, "readd") \/ Goto(w, "kill")
               \/ Goto(w, "free") /\ ~call[w].timedOut
        BY <3>7 DEF PopFromURBList, At
      <4>2. /\ call'[w].timedOut = call[w].timedOut
            /\ \/ call'[w].pc = "readd" \/ call'[w].pc = "kill"
               \/ call'[w].pc = "free" /\ ~call[w].timedOut
        BY <2>2, <4>1 DEF Goto, CallRecords
      <4>3. QED
        BY <2>1, <4>1, <4>2 DEF Completions, Quiet
    <3>8. CASE ReAdd(w) \/ FreeURB(w)
      BY <3>1, <3>8 DEF ReAdd, FreeURB
    <3>9. CASE KillURB(w)
      <4>1. Kill(u) /\ Goto(w, "free")
        BY <2>1, <3>9 DEF KillURB
      <4>2. urb'[u] # "submitted"
        BY <2>3, <4>1, KillEffect
      <4>3. call'[w].pc = "free"
        BY <2>2, <4>1 DEF Goto, CallRecords
      <4>4. QED
        BY <4>2, <4>3
    <3>10. QED
      BY <1>2, <3>2, <3>3, <3>4, <3>5, <3>6, <3>7, <3>8, <3>9 DEF Continue
  <2>7. QED
    BY <2>2, <2>3, <2>4, <2>5, <2>6, CompletionsOfCall DEF Idle
<1>3. ASSUME NEW u \in URBs, WriteSyncCallback(u) PROVE Completions'
  <2>1. UNCHANGED call /\ urb[u] = "submitted" /\ Complete(u)
    BY <1>3 DEF WriteSyncCallback
  <2>2. QED
    BY <2>1, KillEffect, CompletionsFrame
<1>4. ASSUME NEW c \in Clients, Release(c) PROVE Completions'
  <2>1. UNCHANGED call
    BY <1>4, ReleaseEffect
  <2>2. QED
    BY <1>4, <2>1, ReleaseEffect, CompletionsFrame
<1>5. CASE Invalidate \/ UNCHANGED vars
  <2>1. UNCHANGED <<urb, writeSem, call>>
    BY <1>5 DEF Invalidate, vars
  <2>2. QED
    BY <2>1, CompletionsFrame DEF Completions
<1>6. QED
  BY <1>1, <1>2, <1>3, <1>4, <1>5 DEF Next

-----------------------------------------------------------------------------
LEMMA PlacesStep ==
    ASSUME Types, Calls, Completions, Places, [Next]_vars
    PROVE  Places'
<1>1. ASSUME NEW w \in Writers, WriteSync(w) PROVE Places'
  <2>1. PICK n : n = allocated + 1
    OBVIOUS
  <2>2. /\ n \in URBs /\ n # NoURB /\ owner[n] = {} /\ freed[n] = 0
        /\ owner' = [owner EXCEPT ![n] = {ClientOf[w]}]
        /\ \A v \in Writers : call[v].urb # n
        /\ call[w].pc = "idle"
        /\ \A v \in Writers \ {w} : call'[v] = call[v]
        /\ \A x \in URBs \ {n} : freed'[x] = freed[x]
        /\ \/ /\ call'[w].pc = "add" /\ call'[w].urb = n
              /\ freed' = freed
           \/ call' = call
        /\ UNCHANGED <<mURBList, rel>>
    BY <1>1, <2>1, NewURB
  <2>3. \A x \in URBs \ {n} : owner'[x] = owner[x]
    BY <2>2 DEF Types
  <2>4. ASSUME NEW c \in Clients, NEW i \in 1..Len(mURBList[c])
        PROVE  owner'[mURBList[c][i]] = {c} /\ mURBList[c][i] # n
    <3>1. mURBList[c][i] \in URBs
      BY ElementOfSeq DEF Types
    <3>2. owner[mURBList[c][i]] = {c}
      BY DEF Places
    <3>3. QED
      BY <2>2, <2>3, <3>1, <3>2
  <2>5. ASSUME NEW c \in Clients
        PROVE  rel[c].urb # n /\ (rel[c].urb # NoURB => owner'[rel[c].urb] = {c})
    <3>1. rel[c].urb # NoURB => rel[c].urb \in URBs /\ owner[rel[c].urb] = {c}
      BY WritersAssumption DEF Places, Types, RelRecords, URBs, NoURB
    <3>2. QED
      BY <2>2, <2>3, <3>1
  <2>6. ASSUME NEW v \in Writers, WithCall(v)'
        PROVE  /\ Untouched(call[v].urb)'
               /\ Absent(call[v].urb, mURBList[ClientOf[v]])'
    <3>1. CASE call'[v] = call[v]
      <4>1. WithCall(v) /\ call[v].urb \in URBs
        BY <2>6, <3>1, CallURB DEF WithCall
      <4>2. /\ Untouched(call[v].urb)
            /\ Absent(call[v].urb, mURBList[ClientOf[v]])
        BY <4>1 DEF Places
      <4>3. QED
        BY <2>2, <3>1, <4>1, <4>2 DEF Untouched, Absent
    <3>2. CASE v = w /\ call'[w].urb = n /\ freed' = freed
      <4>1. ClientOf[w] \in Clients
        BY WritersAssumption
      <4>2. QED
        BY <2>2, <2>4, <2>5, <3>2, <4>1 DEF Untouched, Absent
    <3>3. QED
      BY <2>2, <3>1, <3>2
  <2>7. ASSUME NEW v \in Writers, Listed(v)'
        PROVE  /\ Once(call[v].urb, mURBList[ClientOf[v]])'
               /\ \/ Absent(call[v].urb, mURBList[ClientOf[v]])'
                  \/ Untouched(call[v].urb)'
    <3>1. call'[v] = call[v]
      BY <2>2, <2>7 DEF Listed
    <3>2. Listed(v) /\ call[v].urb \in URBs
      BY <2>7, <3>1, CallURB DEF Listed
    <3>3. /\ Once(call[v].urb, mURBList[ClientOf[v]])
          /\ \/ Absent(call[v].urb, mURBList[ClientOf[v]])
             \/ Untouched(call[v].urb)
      BY <3>2 DEF Places
    <3>4. QED
      BY <2>2, <3>1, <3>2, <3>3 DEF Untouched, Absent, Once
  <2>8. QED
    BY <2>2, <2>4, <2>5, <2>6, <2>7 DEF Places
<1>2. ASSUME NEW w \in Writers, Continue(w) PROVE Places'
  <2>. DEFINE c == ClientOf[w]
              s == mURBList[c]
  <2>1. PICK u : u = call[w].urb
    OBVIOUS
  <2>2. /\ \A v \in Writers \ {w} : call'[v] = call[v]
        /\ call[w].pc # "idle" /\ c \in Clients /\ s \in Seq(URBs)
        /\ call'[w] = Idle \/ (call'[w].pc # "idle" /\ call'[w].urb = u)
        /\ call \in [Writers -> CallRecords]
        /\ call[w] \in CallRecords
        /\ mURBList \in [Clients -> Seq(URBs)]
        /\ UNCHANGED <<owner, rel>>
    BY <1>2, <2>1, CallMoves, WritersAssumption DEF Types, newURBVars
  <2>3. /\ u \in URBs /\ owner[u] = {c}
        /\ \A x \in URBs \ {u} : freed'[x] = freed[x]
    BY <1>2, <2>1, <2>2, CallURBs, CallURB DEF Calls
  <2>4. \A v \in Writers \ {w} : call[v].urb # u
    BY <2>1, <2>3, CallURB, <2>2 DEF Calls
  <2>5. PICK t \in Seq(URBs) :
           /\ mURBList' = [mURBList EXCEPT ![c] = t]
           /\ \A i \in 1..Len(t) : t[i] = u \/ \E j \in 1..Len(s) : t[i] = s[j]
           /\ \A v : v # u /\ Once(v, s) => Once(v, t)
           /\ \A v : v # u /\ Absent(v, s) => Absent(v, t)
    <3>1. CASE UNCHANGED mURBList
      BY <2>2, <3>1
    <3>2. CASE mURBList' = [mURBList EXCEPT ![c] = Append(s, u)]
      <4>. DEFINE a == Append(s, u)
      <4>1. /\ a \in Seq(URBs)
            /\ \A i \in 1..Len(a) : a[i] = u \/ \E j \in 1..Len(s) : a[i] = s[j]
            /\ \A v : v # u /\ Once(v, s) => Once(v, a)
            /\ \A v : v # u /\ Absent(v, s) => Absent(v, a)
        BY <2>2, <2>3, AppendParts
      <4>2. mURBList' = [mURBList EXCEPT ![c] = a]
        BY <3>2
      <4>. HIDE DEF a
      <4>3. QED
        BY <4>1, <4>2
    <3>3. CASE mURBList' = [mURBList EXCEPT ![c] = TailURBs(c)]
      BY <2>2, <3>3, PopParts
    <3>4. QED
      BY <1>2, <2>1, <3>1, <3>2, <3>3
         DEF Continue, AddToURBList, Submit, PopUnsubmitted, Down, CheckValid,
             PopFromURBList, ReAdd, KillURB, FreeURB, PopHead
  <2>6. ASSUME NEW d \in Clients, NEW i \in 1..Len(mURBList'[d])
        PROVE  owner'[mURBList'[d][i]] = {d}
    <3>1. CASE d = c
      <4>1. mURBList'[d] = t
        BY <2>2, <2>5, <3>1
      <4>2. \A j \in 1..Len(s) : owner[s[j]] = {c}
        BY <2>2 DEF Places
      <4>3. i \in 1..Len(t) /\ mURBList'[d][i] = t[i]
        BY <2>6, <4>1
      <4>4. owner[t[i]] = {c}
        BY <2>3, <2>5, <4>2, <4>3
      <4>5. QED
        BY <2>2, <3>1, <4>3, <4>4
    <3>2. CASE d # c
      BY <2>2, <2>5, <2>6, <3>2 DEF Places
    <3>3. QED
      BY <3>1, <3>2
  <2>7. ASSUME NEW v \in Writers \ {w}
        PROVE  /\ WithCall(v)' =>
                    /\ Untouched(call[v].urb)'
                    /\ Absent(call[v].urb, mURBList[ClientOf[v]])'
               /\ Listed(v)' =>
                    /\ Once(call[v].urb, mURBList[ClientOf[v]])'
                    /\ \/ Absent(call[v].urb, mURBList[ClientOf[v]])'
                       \/ Untouched(call[v].urb)'
    <3>1. /\ call'[v] = call[v] /\ call[v].urb # u
          /\ (WithCall(v)' <=> WithCall(v)) /\ (Listed(v)' <=> Listed(v))
      BY <2>2, <2>4 DEF WithCall, Listed
    <3>2. WithCall(v) \/ Listed(v) => call[v].urb \in URBs
      BY CallURB DEF WithCall, Listed
    <3>3. call[v].urb \in URBs =>
             (Untouched(call[v].urb) => Untouched(call[v].urb)')
      BY <2>2, <2>3, <3>1 DEF Untouched
    <3>4. /\ Absent(call[v].urb, mURBList[ClientOf[v]])
               => Absent(call[v].urb, mURBList'[ClientOf[v]])
          /\ Once(call[v].urb, mURBList[ClientOf[v]])
               => Once(call[v].urb, mURBList'[ClientOf[v]])
      <4>1. CASE ClientOf[v] = c
        BY <2>2, <2>5, <3>1, <4>1
      <4>2. CASE ClientOf[v] # c
        BY <2>2, <2>5, <4>2, WritersAssumption
      <4>3. QED
        BY <4>1, <4>2
    <3>5. /\ Absent(call[v].urb, mURBList'[ClientOf[v]])
               <=> Absent(call[v].urb, mURBList[ClientOf[v]])'
          /\ Once(call[v].urb, mURBList'[ClientOf[v]])
               <=> Once(call[v].urb, mURBList[ClientOf[v]])'
          /\ Untouched(call[v].urb)' <=> Untouched(call[v].urb)'
      BY <3>1 DEF Absent, Once, Untouched
    <3>6. QED
      BY <3>1, <3>2, <3>3, <3>4, <3>5 DEF Places
  <2>8. /\ WithCall(w)' => Untouched(u)' /\ Absent(u, mURBList'[c])
        /\ Listed(w)' => /\ Once(u, mURBList'[c])
                         /\ Absent(u, mURBList'[c]) \/ Untouched(u)'
    <3>1. CASE Return(w)
      BY <2>2, <3>1 DEF Return, Idle, WithCall, Listed
    <3>2. /\ WithCall(w) => Untouched(u) /\ Absent(u, s)
          /\ Listed(w) => Once(u, s) /\ (Absent(u, s) \/ Untouched(u))
      BY <2>1 DEF Places
    <3>3. UNCHANGED freed => (Untouched(u)' <=> Untouched(u))
      BY <2>2 DEF Untouched
    <3>4. CASE AddToURBList(w) /\ ~Return(w)
      <4>1. /\ call[w].pc = "add" /\ Goto(w, "submit") /\ UNCHANGED freed
            /\ mURBList' = [mURBList EXCEPT ![c] = Append(s, u)]
        BY <2>1, <3>4 DEF AddToURBList, At
      <4>2. /\ WithCall(w) /\ ~WithCall(w)'
            /\ mURBList'[c] = Append(s, u)
        BY <2>2, <4>1 DEF Goto, WithCall
      <4>3. QED
        BY <2>2, <2>3, <3>2, <3>3, <4>1, <4>2, AppendParts
    <3>5. CASE Submit(w) \/ Down(w) \/ (CheckValid(w) /\ ~Return(w))
      <4>1. /\ UNCHANGED <<mURBList, freed>>
            /\ call[w].pc \in {"submit", "wait", "check"}
            /\ \/ Goto(w, "wait") \/ Goto(w, "unsubmitted") \/ Goto(w, "check")
               \/ Goto(w, "pop")
               \/ call' = [call EXCEPT ![w].pc = "check", ![w].timedOut = TRUE]
        BY <3>5 DEF Submit, Down, CheckValid, At
      <4>2. /\ Listed(w)
            /\ call'[w].pc \in {"wait", "unsubmitted", "check", "pop"}
        BY <2>2, <4>1 DEF Goto, Listed, CallRecords
      <4>3. ~WithCall(w)'
        BY <4>2 DEF WithCall
      <4>4. QED
        BY <3>2, <3>3, <4>1, <4>2, <4>3
    <3>6. CASE (PopUnsubmitted(w) /\ ~Return(w)) \/ PopFromURBList(w)
      <4>1. /\ UNCHANGED freed /\ PopHead(c) /\ Listed(w)
            /\ \/ Goto(w, "readd")
               \/ HeadURB(c) = u /\ (Goto(w, "free") \/ Goto(w, "kill"))
        BY <2>1, <3>6 DEF PopUnsubmitted, PopFromURBList, At, Listed
      <4>2. /\ call'[w].pc \in {"readd", "free", "kill"} /\ ~Listed(w)'
            /\ Goto(w, "readd") => ~WithCall(w)'
        BY <2>2, <4>1 DEF Goto, Listed, WithCall, CallRecords
      <4>3. CASE Goto(w, "readd")
        BY <4>2, <4>3
      <4>4. CASE HeadURB(c) = u
        <5>1. /\ u # NoURB /\ mURBList'[c] = TailURBs(c)
          BY <2>2, <2>3, <4>1 DEF PopHead, URBs, NoURB
        <5>2. 1 \in 1..Len(s) /\ s[1] = u /\ Absent(u, TailURBs(c))
          BY <2>2, <3>2, <4>1, <4>4, <5>1, PopParts
        <5>3. Untouched(u)
          BY <3>2, <4>1, <5>2 DEF Absent
        <5>4. QED
          BY <3>3, <4>1, <4>2, <5>1, <5>2, <5>3
      <4>5. QED
        BY <4>1, <4>3, <4>4
    <3>7. CASE KillURB(w)
      <4>1. /\ UNCHANGED <<mURBList, freed>> /\ WithCall(w) /\ Goto(w, "free")
        BY <3>7 DEF KillURB, At, WithCall
      <4>2. ~Listed(w)'
        BY <2>2, <4>1 DEF Goto, Listed
      <4>3. QED
        BY <3>2, <3>3, <4>1, <4>2
    <3>8. CASE ReAdd(w) \/ FreeURB(w)
      BY <3>1, <3>8 DEF ReAdd, FreeURB
    <3>9. QED
      BY <1>2, <3>1, <3>4, <3>5, <3>6, <3>7, <3>8 DEF Continue
  <2>9. /\ WithCall(w)' \/ Listed(w)' => call'[w].urb = u
    BY <2>2 DEF Idle, WithCall, Listed
  <2>10. ASSUME NEW v \in Writers
         PROVE  /\ WithCall(v)' =>
                     /\ Untouched(call[v].urb)'
                     /\ Absent(call[v].urb, mURBList[ClientOf[v]])'
                /\ Listed(v)' =>
                     /\ Once(call[v].urb, mURBList[ClientOf[v]])'
                     /\ \/ Absent(call[v].urb, mURBList[ClientOf[v]])'
                        \/ Untouched(call[v].urb)'
    <3>1. CASE v = w
      BY <2>8, <2>9, <3>1 DEF Untouched, Absent, Once
    <3>2. QED
      BY <2>7, <3>1
  <2>11. \A d \in Clients : rel'[d].urb # NoURB => owner'[rel'[d].urb] = {d}
    BY <2>2 DEF Places
  <2>12. QED
    BY <2>6, <2>10, <2>11 DEF Places
<1>3. ASSUME NEW c \in Clients, Release(c) PROVE Places'
  <2>. DEFINE s == mURBList[c]
  <2>1. /\ UNCHANGED <<owner, call>>
        /\ \A d \in Clients \ {c} : rel'[d] = rel[d]
        /\ \A x \in URBs : freed'[x] # freed[x] => rel[c].urb = x
        /\ \/ rel'[c].urb = NoURB
           \/ rel'[c].urb = rel[c].urb
           \/ /\ rel'[c].urb = HeadURB(c)
              /\ mURBList' = [mURBList EXCEPT ![c] = TailURBs(c)]
        /\ \/ UNCHANGED mURBList
           \/ mURBList' = [mURBList EXCEPT ![c] = TailURBs(c)]
           \/ mURBList' = [mURBList EXCEPT ![c] = << >>]
        /\ mURBList \in [Clients -> Seq(URBs)] /\ s \in Seq(URBs)
    BY <1>3, ReleaseEffect DEF newURBVars, Types
  <2>2. PICK t \in Seq(URBs) :
           /\ mURBList' = [mURBList EXCEPT ![c] = t]
           /\ \A i \in 1..Len(t) : \E j \in 1..Len(s) : t[i] = s[j]
           /\ \A v : Once(v, s) => Once(v, t)
           /\ \A v : Absent(v, s) => Absent(v, t)
           /\ t = s \/ t = << >> \/ t = TailURBs(c)
    <3>1. CASE UNCHANGED mURBList
      BY <2>1, <3>1
    <3>2. CASE mURBList' = [mURBList EXCEPT ![c] = TailURBs(c)]
      BY <2>1, <3>2, PopParts
    <3>3. CASE mURBList' = [mURBList EXCEPT ![c] = << >>]
      <4>1. << >> \in Seq(URBs) /\ Len(<< >>) = 0 /\ 1..0 = {}
        OBVIOUS
      <4>2. /\ \A i \in 1..Len(<< >>) : \E j \in 1..Len(s) : << >>[i] = s[j]
            /\ \A v : Once(v, << >>) /\ Absent(v, << >>)
        BY <4>1 DEF Once, Absent
      <4>3. QED
        BY <3>3, <4>1, <4>2
    <3>4. QED
      BY <2>1, <3>1, <3>2, <3>3
  <2>3. ASSUME NEW d \in Clients, NEW i \in 1..Len(mURBList'[d])
        PROVE  owner'[mURBList'[d][i]] = {d}
    <3>1. CASE d = c
      <4>1. mURBList'[d] = t
        BY <2>1, <2>2, <3>1
      <4>2. \A j \in 1..Len(s) : owner[s[j]] = {c}
        BY DEF Places
      <4>3. i \in 1..Len(t) /\ mURBList'[d][i] = t[i]
        BY <2>3, <4>1
      <4>4. owner[t[i]] = {c}
        BY <2>2, <4>2, <4>3
      <4>5. QED
        BY <2>1, <3>1, <4>3, <4>4
    <3>2. CASE d # c
      <4>1. mURBList'[d] = mURBList[d]
        BY <2>1, <2>2, <3>2
      <4>2. QED
        BY <2>1, <2>3, <4>1 DEF Places
    <3>3. QED
      BY <3>1, <3>2
  <2>4. HeadURB(c) # NoURB =>
           1 \in 1..Len(s) /\ s[1] = HeadURB(c) /\ owner[HeadURB(c)] = {c}
    BY PopParts DEF Places
  <2>5. ASSUME NEW d \in Clients, rel'[d].urb # NoURB
        PROVE  owner'[rel'[d].urb] = {d}
    <3>1. CASE rel'[d].urb = rel[d].urb
      BY <2>1, <2>5, <3>1 DEF Places
    <3>2. CASE rel'[d].urb # rel[d].urb
      <4>1. d = c /\ rel'[d].urb = HeadURB(c)
        BY <2>1, <2>5, <3>2
      <4>2. QED
        BY <2>1, <2>4, <2>5, <4>1
    <3>3. QED
      BY <3>1, <3>2
  <2>6. ASSUME NEW w \in Writers, NEW u \in URBs, u = call[w].urb, u # NoURB
        PROVE  /\ Absent(u, mURBList[ClientOf[w]]) =>
                     Absent(u, mURBList'[ClientOf[w]])
               /\ Once(u, mURBList[ClientOf[w]]) =>
                     Once(u, mURBList'[ClientOf[w]])
               /\ Untouched(u) /\ Once(u, mURBList[ClientOf[w]]) =>
                     Untouched(u)' \/ Absent(u, mURBList'[ClientOf[w]])
               /\ Untouched(u) /\ Absent(u, mURBList[ClientOf[w]]) =>
                     Untouched(u)'
    <3>1. owner[u] = {ClientOf[w]} /\ ClientOf[w] \in Clients
      BY <2>6, WritersAssumption DEF Calls
    <3>2. CASE ClientOf[w] = c
      <4>1. mURBList'[c] = t
        BY <2>1, <2>2
      <4>2. Untouched(u) /\ Absent(u, s) => Untouched(u)'
        BY <2>1, <2>4, <2>6 DEF Untouched, Absent
      <4>3. ASSUME Untouched(u), Once(u, s)
            PROVE  Untouched(u)' \/ Absent(u, t)
        <5>1. freed'[u] = 0 /\ \A d \in Clients \ {c} : rel'[d].urb # u
          BY <2>1, <4>3 DEF Untouched
        <5>2. CASE rel'[c].urb # u
          BY <5>1, <5>2 DEF Untouched
        <5>3. CASE rel'[c].urb = u
          <6>1. HeadURB(c) = u /\ mURBList' = [mURBList EXCEPT ![c] = TailURBs(c)]
            BY <2>1, <2>6, <4>3, <5>3 DEF Untouched
          <6>2. t = TailURBs(c)
            BY <2>1, <4>1, <6>1
          <6>3. QED
            BY <2>6, <4>3, <6>1, <6>2, PopParts
        <5>4. QED
          BY <5>2, <5>3
      <4>4. QED
        BY <2>2, <3>2, <4>1, <4>2, <4>3
    <3>3. CASE ClientOf[w] # c
      <4>1. mURBList'[ClientOf[w]] = mURBList[ClientOf[w]]
        BY <2>1, <2>2, <3>1, <3>3
      <4>2. rel[c].urb # u /\ rel'[c].urb # u
        <5>1. {ClientOf[w]} # {c}
          BY <3>3
        <5>2. QED
          BY <2>1, <2>5, <2>6, <3>1, <5>1 DEF Places
      <4>3. Untouched(u) => Untouched(u)'
        BY <2>1, <4>2 DEF Untouched
      <4>4. QED
        BY <4>1, <4>3
    <3>4. QED
      BY <3>2, <3>3
  <2>7. ASSUME NEW w \in Writers
        PROVE  /\ WithCall(w)' =>
                    /\ Untouched(call[w].urb)'
                    /\ Absent(call[w].urb, mURBList[ClientOf[w]])'
               /\ Listed(w)' =>
                    /\ Once(call[w].urb, mURBList[ClientOf[w]])'
                    /\ \/ Absent(call[w].urb, mURBList[ClientOf[w]])'
                       \/ Untouched(call[w].urb)'
    <3>1. (WithCall(w)' <=> WithCall(w)) /\ (Listed(w)' <=> Listed(w))
      BY <2>1 DEF WithCall, Listed
    <3>2. WithCall(w) \/ Listed(w) => call[w].urb \in URBs /\ call[w].urb # NoURB
      BY CallURB DEF WithCall, Listed
    <3>3. PICK u : u = call[w].urb
      OBVIOUS
    <3>4. /\ Absent(u, mURBList'[ClientOf[w]])
               <=> Absent(call[w].urb, mURBList[ClientOf[w]])'
          /\ Once(u, mURBList'[ClientOf[w]])
               <=> Once(call[w].urb, mURBList[ClientOf[w]])'
          /\ Untouched(u)' <=> Untouched(call[w].urb)'
      BY <2>1, <3>3 DEF Absent, Once, Untouched
    <3>5. /\ WithCall(w) => /\ Untouched(u)
                            /\ Absent(u, mURBList[ClientOf[w]])
          /\ Listed(w) => /\ Once(u, mURBList[ClientOf[w]])
                          /\ Absent(u, mURBList[ClientOf[w]]) \/ Untouched(u)
      BY <3>3 DEF Places
    <3>6. QED
      BY <2>6, <3>1, <3>2, <3>3, <3>4, <3>5
  <2>8. QED
    BY <2>3, <2>5, <2>7 DEF Places
<1>4. CASE (\E u \in URBs : WriteSyncCallback(u)) \/ Invalidate \/ UNCHANGED vars
  <2>1. UNCHANGED <<mURBList, freed, rel, owner, call>>
    BY <1>4 DEF WriteSyncCallback, Invalidate, vars, newURBVars
  <2>2. QED
    BY <2>1 DEF Places, WithCall, Listed, Once, Absent, Untouched
<1>5. QED
  BY <1>1, <1>2, <1>3, <1>4 DEF Next

-----------------------------------------------------------------------------
(* A client that is private after a step was so before it. *)
LEMMA PrivateBefore ==
    ASSUME Types, Calls, Completions, [Next]_vars, NEW c \in Clients,
           Private(c)'
    PROVE  Private(c) /\ rel'[c] = rel[c]
<1>1. rel'[c].pc = "idle" => rel'[c] = rel[c]
  <2>1. CASE \E d \in Clients : Release(d)
    <3>1. PICK d \in Clients : Release(d)
      BY <2>1
    <3>2. rel'[d].pc # "idle" /\ \A e \in Clients \ {d} : rel'[e] = rel[e]
      BY <3>1, ReleaseEffect
    <3>3. QED
      BY <3>2
  <2>2. CASE ~\E d \in Clients : Release(d)
    <3>1. UNCHANGED rel
      BY <2>2, CallMoves DEF Next, vars, WriteSync, WriteSyncCallback, Invalidate
    <3>2. QED
      BY <3>1
  <2>3. QED
    BY <2>1, <2>2
<1>2. QED
  BY <1>1 DEF Private

LEMMA OwnListStep ==
    ASSUME Types, Calls, Completions, OwnList, [Next]_vars
    PROVE  OwnList'
<1>. DEFINE Own(w) == /\ ~At(w, "readd")
                      /\ mURBList[ClientOf[w]] = IF Listed(w) THEN <<call[w].urb>>
                                                              ELSE << >>
<1>1. ASSUME NEW w \in Writers, WriteSync(w) PROVE OwnList'
  <2>1. PICK n : n = allocated + 1
    OBVIOUS
  <2>2. /\ call[w].pc = "idle"
        /\ \A v \in Writers \ {w} : call'[v] = call[v]
        /\ call'[w].pc = "add" \/ call' = call
        /\ UNCHANGED <<clientVars, mURBList, rel>>
    BY <1>1, <2>1, NewURB
  <2>3. ASSUME NEW v \in Writers, Private(ClientOf[v])' PROVE Own(v)'
    <3>1. Own(v)
      BY <2>2, <2>3 DEF OwnList, Private
    <3>2. QED
      BY <2>2, <3>1 DEF At, Listed
  <2>4. QED
    BY <2>2, <2>3 DEF OwnList, clientVars
<1>2. ASSUME NEW w \in Writers, Continue(w) PROVE OwnList'
  <2>. DEFINE c == ClientOf[w]
              s == mURBList[c]
  <2>1. PICK u : u = call[w].urb
    OBVIOUS
  <2>2. /\ \A v \in Writers \ {w} : call'[v] = call[v]
        /\ call[w].pc # "idle" /\ c \in Clients /\ s \in Seq(URBs)
        /\ call'[w] = Idle \/ (call'[w].pc # "idle" /\ call'[w].urb = u)
        /\ call \in [Writers -> CallRecords] /\ call[w] \in CallRecords
        /\ mURBList \in [Clients -> Seq(URBs)]
        /\ u \in URBs /\ u # NoURB
        /\ UNCHANGED <<clientVars, rel>>
    BY <1>2, <2>1, CallMoves, CallURB DEF Types
  <2>3. \A d \in Clients \ {c} : mURBList'[d] = mURBList[d]
    BY <1>2, <2>2
       DEF Continue, AddToURBList, Submit, PopUnsubmitted, Down, CheckValid,
           PopFromURBList, ReAdd, KillURB, FreeURB, PopHead
  <2>4. ASSUME NEW v \in Writers \ {w}, Private(ClientOf[v])' PROVE Own(v)'
    <3>1. ClientOf[v] \in Clients /\ ClientOf[v] # c
      BY <2>4, WritersAssumption DEF Private
    <3>2. Own(v)
      BY <2>2, <2>4 DEF OwnList, Private
    <3>3. QED
      BY <2>2, <2>3, <3>1, <3>2 DEF At, Listed
  <2>5. ASSUME Private(c)' PROVE Own(w)'
    <3>1. Own(w) /\ Found(c)
      BY <2>2, <2>5 DEF OwnList, Private, Found
    <3>2. CASE AddToURBList(w)
      <4>1. /\ call[w].pc = "add" /\ Goto(w, "submit")
            /\ mURBList' = [mURBList EXCEPT ![c] = Append(s, u)]
        BY <2>1, <3>1, <3>2 DEF AddToURBList, At
      <4>2. s = << >> /\ Append(<< >>, u) = <<u>>
        BY <2>2, <3>1, <4>1 DEF Listed
      <4>3. call'[w].pc = "submit" /\ call'[w].urb = u /\ mURBList'[c] = <<u>>
        BY <2>1, <2>2, <4>1, <4>2 DEF Goto, CallRecords
      <4>4. QED
        BY <4>3 DEF At, Listed
    <3>3. CASE Submit(w) \/ Down(w) \/ CheckValid(w)
      <4>1. /\ UNCHANGED mURBList /\ call[w].pc \in {"submit", "wait", "check"}
            /\ \/ Goto(w, "wait") \/ Goto(w, "unsubmitted") \/ Goto(w, "check")
               \/ Goto(w, "pop")
               \/ call' = [call EXCEPT ![w].pc = "check", ![w].timedOut = TRUE]
        BY <3>1, <3>3 DEF Submit, Down, CheckValid, At, Found
      <4>2. /\ call'[w].pc \in {"wait", "unsubmitted", "check", "pop"}
            /\ call'[w].urb = u /\ Listed(w)
        BY <2>1, <2>2, <4>1 DEF Goto, CallRecords, Listed
      <4>3. QED
        BY <2>1, <3>1, <4>1, <4>2 DEF At, Listed
    <3>4. CASE PopUnsubmitted(w) \/ PopFromURBList(w)
      <4>1. Listed(w) /\ PopHead(c)
        BY <3>4 DEF PopUnsubmitted, PopFromURBList, At, Listed
      <4>2. s = <<u>>
        BY <2>1, <3>1, <4>1
      <4>3. HeadURB(c) = u /\ TailURBs(c) = << >>
        BY <3>1, <4>2 DEF HeadURB, TailURBs
      <4>4. Goto(w, "free") \/ Goto(w, "kill")
        BY <2>1, <3>4, <4>3 DEF PopUnsubmitted, PopFromURBList
      <4>5. call'[w].pc \in {"free", "kill"} /\ mURBList'[c] = << >>
        BY <2>2, <4>1, <4>3, <4>4 DEF Goto, CallRecords, PopHead
      <4>6. QED
        BY <4>5 DEF At, Listed
    <3>5. CASE KillURB(w) \/ FreeURB(w)
      <4>1. /\ UNCHANGED mURBList /\ call[w].pc \in {"kill", "free"}
            /\ Goto(w, "free") \/ Return(w)
        BY <3>5 DEF KillURB, FreeURB, At
      <4>2. call'[w].pc \in {"free", "idle"}
        BY <2>2, <4>1 DEF Goto, Return, Idle, CallRecords
      <4>3. QED
        BY <3>1, <4>1, <4>2 DEF At, Listed
    <3>6. CASE ReAdd(w)
      BY <3>1, <3>6 DEF ReAdd
    <3>7. QED
      BY <1>2, <3>2, <3>3, <3>4, <3>5, <3>6 DEF Continue
  <2>6. \A v \in Writers : Private(ClientOf[v])' => Own(v)'
    BY <2>4, <2>5
  <2>7. QED
    BY <2>2, <2>6 DEF OwnList, clientVars
<1>3. ASSUME NEW c \in Clients, Release(c) PROVE OwnList'
  <2>1. /\ UNCHANGED call
        /\ \A d \in Clients \ {c} : rel'[d] = rel[d] /\ mURBList'[d] = mURBList[d]
        /\ rel'[c].pc # "idle"
    BY <1>3, ReleaseEffect DEF Types
  <2>2. /\ mbQMIValid' = mbQMIValid
        /\ \/ listed' = listed /\ rel'[c].pc # "done" /\ listed[c]
           \/ listed' = [listed EXCEPT ![c] = FALSE] /\ rel'[c].pc = "done"
    <3>1. rel \in [Clients -> RelRecords] /\ (rel[c].pc # "done" => listed[c])
      BY DEF OwnList, Types
    <3>2. QED
      BY <1>3, <3>1
         DEF Release, ReleaseClientID, ReleasePop, ReleaseKill, ReleaseFree,
             ReleaseDelete, clientVars, RelGoto
  <2>3. ASSUME NEW v \in Writers, Private(ClientOf[v])' PROVE Own(v)'
    <3>1. ClientOf[v] \in Clients \ {c}
      BY <2>1, <2>3, WritersAssumption DEF Private
    <3>2. Own(v)
      BY <2>1, <2>3, <3>1 DEF OwnList, Private
    <3>3. QED
      BY <2>1, <3>1, <3>2 DEF At, Listed
  <2>4. \A d \in Clients : /\ rel'[d].pc # "done" => listed'[d]
                           /\ listed'[d] => mbQMIValid'
    BY <2>1, <2>2 DEF OwnList, Types
  <2>5. QED
    BY <2>3, <2>4 DEF OwnList
<1>4. CASE (\E u \in URBs : WriteSyncCallback(u)) \/ Invalidate \/ UNCHANGED vars
  <2>1. /\ UNCHANGED <<mURBList, rel, call, listed>>
        /\ \/ UNCHANGED mbQMIValid
           \/ \A c \in Clients : ~listed[c]
    BY <1>4 DEF WriteSyncCallback, Invalidate, vars, clientVars
  <2>2. QED
    BY <2>1 DEF OwnList, Private, At, Listed
<1>5. QED
  BY <1>1, <1>2, <1>3, <1>4 DEF Next

(* The call of a private client returns only once it has freed its URB.    *)
LEMMA ReturnsFreed ==
    ASSUME Types, Calls, OwnList, NEW w \in Writers, Continue(w),
           call'[w] = Idle, Private(ClientOf[w])
    PROVE  FreeURB(w)
<1>. DEFINE c == ClientOf[w]
            s == mURBList[c]
<1>1. /\ c \in Clients /\ call \in [Writers -> CallRecords] /\ call[w] \in CallRecords
      /\ ~At(w, "readd")
      /\ s = IF Listed(w) THEN <<call[w].urb>> ELSE << >>
  BY WritersAssumption DEF Types, OwnList
<1>2. Found(c)
  BY <1>1 DEF OwnList, Private, Found
<1>3. \A p : p # "idle" => ~Goto(w, p)
  BY <1>1 DEF Goto, Idle, CallRecords
<1>4. ~AddToURBList(w) /\ ~Submit(w) /\ ~ReAdd(w) /\ ~KillURB(w)
  BY <1>1, <1>2, <1>3 DEF AddToURBList, Submit, ReAdd, KillURB
<1>5. ~CheckValid(w)
  BY <1>2, <1>3 DEF CheckValid, Found
<1>6. ~Down(w)
  BY <1>1, <1>3 DEF Down, Idle, CallRecords
<1>7. ~PopFromURBList(w)
  BY <1>3 DEF PopFromURBList
<1>8. ~PopUnsubmitted(w)
  <2>1. SUFFICES ASSUME PopUnsubmitted(w) PROVE FALSE
    OBVIOUS
  <2>2. s = <<call[w].urb>>
    BY <1>1, <2>1 DEF PopUnsubmitted, At, Listed
  <2>3. HeadURB(c) = call[w].urb
    BY <1>2, <2>2 DEF HeadURB
  <2>4. QED
    BY <1>3, <2>1, <2>3 DEF PopUnsubmitted
<1>9. QED
  BY <1>4, <1>5, <1>6, <1>7, <1>8 DEF Continue

LEMMA OwnersLiveStep ==
    ASSUME Types, Calls, Completions, Places, OwnList, OwnersLive, [Next]_vars,
           Completions'
    PROVE  OwnersLive'
<1>. DEFINE Live(x) ==
              /\ urb[x] = "submitted" /\ IsPrivate(x) => InScope(x)
              /\ x <= allocated /\ freed[x] = 0 /\ IsPrivate(x)
                   => (InScope(x) <=> urb[x] # "unfilled")
<1>1. \A x \in URBs : Live(x)
  BY WritersAssumption
     DEF OwnersLive, SemaphoreInScope, NoURBLost, URBs, Types
<1>2. SUFFICES \A x \in URBs : Live(x)'
  <2>1. allocated' \in 0..MaxURBs
    BY TypesStep DEF Types
  <2>2. 1..allocated' \subseteq URBs /\ \A x \in 1..allocated' : x <= allocated'
    BY <2>1, WritersAssumption DEF URBs
  <2>3. QED
    BY <1>2, <2>2 DEF OwnersLive, SemaphoreInScope, NoURBLost
<1>3. ASSUME NEW x \in URBs, owner'[x] = owner[x], IsPrivate(x)'
      PROVE  /\ IsPrivate(x)
             /\ \A c \in owner[x] : c \in Clients /\ Private(c)' /\ Private(c)
  BY <1>3, PrivateBefore DEF IsPrivate, Types
<1>4. ASSUME NEW w \in Writers, WriteSync(w), NEW x \in URBs PROVE Live(x)'
  <2>1. PICK n : n = allocated + 1
    OBVIOUS
  <2>2. /\ n \in URBs /\ n # NoURB /\ allocated' = n
        /\ owner' = [owner EXCEPT ![n] = {ClientOf[w]}]
        /\ \A v \in Writers : call[v].urb # n
        /\ call[w].pc = "idle"
        /\ \A v \in Writers \ {w} : call'[v] = call[v]
        /\ \A y \in URBs \ {n} : urb'[y] = urb[y] /\ freed'[y] = freed[y]
        /\ \/ urb'[n] = "ready" /\ call'[w].urb = n
           \/ urb'[n] = "ready" /\ freed'[n] = 1 /\ call' = call
           \/ urb'[n] = "unfilled" /\ call' = call
        /\ UNCHANGED rel
    BY <1>4, <2>1, NewURB
  <2>3. CASE x = n
    BY <2>2, <2>3 DEF InScope
  <2>4. CASE x # n
    <3>1. owner'[x] = owner[x] /\ urb'[x] = urb[x] /\ freed'[x] = freed[x]
      BY <2>2, <2>4 DEF Types
    <3>2. call[w].urb # x
      BY <2>2 DEF Calls, URBs, NoURB
    <3>3. InScope(x)' <=> InScope(x)
      BY <2>2, <2>4, <3>2 DEF InScope
    <3>4. x \in Nat /\ allocated \in Nat
      BY WritersAssumption DEF URBs, Types
    <3>5. x <= n => x <= allocated
      BY <2>1, <2>4, <3>4
    <3>6. QED
      BY <1>1, <1>3, <2>2, <3>1, <3>3, <3>5
  <2>5. QED
    BY <2>3, <2>4
<1>5. ASSUME NEW w \in Writers, Continue(w), NEW x \in URBs PROVE Live(x)'
  <2>1. PICK u : u = call[w].urb
    OBVIOUS
  <2>2. /\ \A v \in Writers \ {w} : call'[v] = call[v]
        /\ call[w].pc # "idle"
        /\ call'[w] = Idle \/ (call'[w].pc # "idle" /\ call'[w].urb = u)
        /\ u \in URBs /\ u # NoURB /\ owner[u] = {ClientOf[w]}
        /\ UNCHANGED <<allocated, owner, rel>>
    BY <1>5, <2>1, CallMoves, CallURB DEF newURBVars, Calls
  <2>3. \A y \in URBs \ {u} : urb'[y] = urb[y] /\ freed'[y] = freed[y]
    BY <1>5, <2>1, CallURBs
  <2>4. CASE x # u
    <3>1. InScope(x)' <=> InScope(x)
      BY <2>1, <2>2, <2>4 DEF InScope, Idle, NoURB, URBs
    <3>2. QED
      BY <1>1, <1>3, <2>2, <2>3, <2>4, <3>1
  <2>5. CASE x = u /\ call'[w] # Idle
    <3>1. InScope(u)'
      BY <2>2, <2>5 DEF InScope
    <3>2. urb'[u] # "unfilled"
      BY <2>2, <2>5 DEF Completions
    <3>3. QED
      BY <2>5, <3>1, <3>2
  <2>6. CASE x = u /\ call'[w] = Idle
    <3>1. SUFFICES ASSUME IsPrivate(u)' PROVE Live(u)'
      BY <2>6
    <3>2. Private(ClientOf[w])
      BY <1>3, <2>2, <3>1
    <3>3. FreeURB(w)
      BY <1>5, <2>6, <3>2, ReturnsFreed
    <3>4. /\ urb' = urb /\ call[w].pc = "free"
          /\ freed' = [freed EXCEPT ![u] = freed[u] + 1]
      BY <2>1, <3>3 DEF FreeURB, At, Free
    <3>5. freed'[u] # 0
      BY <2>2, <3>4 DEF Types
    <3>6. urb'[u] # "submitted"
      BY <2>1, <3>4 DEF Completions, Quiet
    <3>7. QED
      BY <3>5, <3>6
  <2>7. QED
    BY <2>4, <2>5, <2>6
<1>6. ASSUME NEW u \in URBs, WriteSyncCallback(u), NEW x \in URBs PROVE Live(x)'
  <2>1. /\ UNCHANGED <<freed, allocated, owner, call, rel>>
        /\ urb[u] = "submitted" /\ Complete(u)
    BY <1>6 DEF WriteSyncCallback, newURBVars
  <2>2. urb'[x] = urb[x] \/ (urb[x] = "submitted" /\ urb'[x] = "complete")
    BY <2>1, KillEffect
  <2>3. InScope(x)' <=> InScope(x)
    BY <2>1 DEF InScope
  <2>4. QED
    BY <1>1, <1>3, <2>1, <2>2, <2>3
<1>7. ASSUME NEW c \in Clients, Release(c), NEW x \in URBs PROVE Live(x)'
  <2>1. /\ UNCHANGED <<allocated, owner, call>>
        /\ urb'[x] = urb[x] \/ (urb[x] = "submitted" /\ urb'[x] = "complete")
        /\ freed'[x] # freed[x] => rel[c].urb = x
        /\ rel'[c].pc # "idle"
    BY <1>7, ReleaseEffect DEF newURBVars
  <2>2. SUFFICES ASSUME IsPrivate(x)' PROVE Live(x)'
    OBVIOUS
  <2>3. freed'[x] = freed[x]
    <3>1. SUFFICES ASSUME rel[c].urb = x PROVE FALSE
      BY <2>1
    <3>2. owner[x] = {c}
      BY <3>1 DEF Places, URBs, NoURB
    <3>3. Private(c)'
      BY <1>3, <2>1, <2>2, <3>2
    <3>4. QED
      BY <2>1, <3>3 DEF Private
  <2>4. InScope(x)' <=> InScope(x)
    BY <2>1 DEF InScope
  <2>5. QED
    BY <1>1, <1>3, <2>1, <2>2, <2>3, <2>4
<1>8. ASSUME Invalidate \/ UNCHANGED vars, NEW x \in URBs PROVE Live(x)'
  <2>1. UNCHANGED <<urb, freed, allocated, owner, call, rel>>
    BY <1>8 DEF Invalidate, vars, newURBVars
  <2>2. QED
    BY <1>1, <2>1 DEF InScope, IsPrivate, Private
<1>9. QED
  BY <1>4, <1>5, <1>6, <1>7, <1>8 DEF Next

-----------------------------------------------------------------------------
LEMMA WriteStart == Init => WriteInv
<1>. SUFFICES ASSUME Init PROVE WriteInv
  OBVIOUS
<1>1. Types
  BY WritersAssumption, EmptySeq
     DEF Init, Types, URBStates, CallRecords, RelRecords, Positions,
         RelPositions, Idle, NoRelease, NoURB
<1>2. Calls
  <2>1. 0 \in Nat /\ \A u \in URBs : u > 0
    BY WritersAssumption DEF URBs
  <2>2. /\ allocated = 0 /\ call = [w \in Writers |-> Idle]
        /\ rel = [c \in Clients |-> NoRelease]
        /\ urb = [u \in URBs |-> "unallocated"] /\ freed = [u \in URBs |-> 0]
        /\ owner = [u \in URBs |-> {}]
    BY DEF Init
  <2>3. QED
    BY <2>1, <2>2 DEF Calls, Idle, NoRelease, NoURB
<1>3. Completions /\ Places
  <2>1. /\ call = [w \in Writers |-> Idle]
        /\ rel = [c \in Clients |-> NoRelease]
        /\ writeSem = [u \in URBs |-> 0]
        /\ mURBList = [c \in Clients |-> << >>]
    BY DEF Init
  <2>2. Completions
    BY <2>1 DEF Completions, Quiet, Idle
  <2>3. \A c \in Clients : 1..Len(mURBList[c]) = {}
    BY <2>1
  <2>4. Places
    BY <2>1, <2>3 DEF Places, WithCall, Listed, Idle, NoRelease
  <2>5. QED
    BY <2>2, <2>4
<1>4. OwnList /\ OwnersLive
  <2>1. OwnList
    BY WritersAssumption DEF Init, OwnList, NoRelease, Idle, At, Listed
  <2>2. OwnersLive
    BY DEF Init, OwnersLive, SemaphoreInScope, NoURBLost
  <2>3. QED
    BY <2>1, <2>2
<1>5. QED
  BY <1>1, <1>2, <1>3, <1>4 DEF WriteInv

LEMMA WriteStep == WriteInv /\ [Next]_vars => WriteInv'
<1>. SUFFICES ASSUME WriteInv, [Next]_vars PROVE WriteInv'
  OBVIOUS
<1>1. Types' /\ Calls' /\ Completions' /\ Places' /\ OwnList'
  BY TypesStep, CallsStep, CompletionsStep, PlacesStep, OwnListStep DEF WriteInv
<1>2. OwnersLive'
  BY <1>1, OwnersLiveStep DEF WriteInv
<1>3. QED
  BY <1>1, <1>2 DEF WriteInv

(* The invariant of the writes, releases and completions.  An URB is in    *)
(* one place: on the list of its client, with the release or with the call *)
(* that took it off.                                                       *)
THEOREM WriteInvariant == Spec => []WriteInv
<1>1. Init => WriteInv
  BY WriteStart
<1>2. WriteInv /\ [Next]_vars => WriteInv'
  BY WriteStep
<1>3. QED
  BY <1>1, <1>2, PTL DEF Spec

(* An URB that WriteSync frees is at rest and has not been freed, however  *)
(* many threads write for one client and whatever the releases do.         *)
THEOREM FreesAtRest == Spec => []FreedAtRest
<1>1. WriteInv => FreedAtRest
  <2>. SUFFICES ASSUME WriteInv, NEW w \in Writers, At(w, "free")
                PROVE  /\ urb[call[w].urb] # "submitted"
                       /\ freed[call[w].urb] = 0
    BY DEF FreedAtRest
  <2>1. Quiet(w) /\ WithCall(w)
    BY DEF At, Quiet, WithCall
  <2>2. QED
    BY <2>1 DEF WriteInv, Completions, Places, Untouched
<1>2. QED
  BY <1>1, WriteInvariant, PTL

(* A call for a client with one writer takes its own URB off the list,     *)
(* also while other clients have several writers or are released.          *)
THEOREM PopsOwn == Spec => []PopsOwnURB
<1>1. WriteInv => PopsOwnURB
  <2>. SUFFICES ASSUME WriteInv, NEW w \in Writers, PopsNow(w),
                       Private(ClientOf[w])
                PROVE  HeadURB(ClientOf[w]) = call[w].urb
    BY DEF PopsOwnURB
  <2>1. Listed(w) /\ ClientOf[w] \in Clients
    BY WritersAssumption DEF PopsNow, Listed
  <2>2. mURBList[ClientOf[w]] = <<call[w].urb>> /\ Found(ClientOf[w])
    BY <2>1 DEF WriteInv, OwnList, Private, Found
  <2>3. QED
    BY <2>2 DEF HeadURB
<1>2. QED
  BY <1>1, WriteInvariant, PTL

(* WriteSyncCallback does not touch the semaphore of a call that has       *)
(* returned, for every client with one writer that is not being released. *)
THEOREM CallbackInScope == Spec => []SemaphoreInScope
<1>1. WriteInv => SemaphoreInScope
  BY DEF WriteInv, OwnersLive
<1>2. QED
  BY <1>1, WriteInvariant, PTL

(* Of such a client every URB is freed or belongs to a call, but for those *)
(* whose setup packet could not be allocated: those are lost.              *)
THEOREM URBsOwned == Spec => []NoURBLost
<1>1. WriteInv => NoURBLost
  BY DEF WriteInv, OwnersLive
<1>2. QED
  BY <1>1, WriteInvariant, PTL

(***************************************************************************)
(* Uplink aggregation.                                                     *)
(***************************************************************************)
(* The variables have their types; tx_rem_skb is one packet at most.       *)
TxTypes ==
    /\ phase \in Phases
    /\ limit \in [inForce : (Nat \ {0}) \X (Nat \ {0}), answer : Negotiated]
    /\ frame \in Frames \cup {NoFrame}
    /\ rem \in Seq(Packets) /\ Len(rem) <= 1
    /\ timer \in [on : BOOLEAN, pending : Nat, runs : BOOLEAN, stop : BOOLEAN]
    /\ bh \in [scheduled : BOOLEAN, flush : BOOLEAN]
    /\ out \in [Devs -> Frames \cup {NoFrame}]
    /\ queued \in Seq(Packets)
    /\ dropped \subseteq Packets
    /\ taken \in 0..MaxPackets
    /\ calm \in BOOLEAN

(* The numbers of the packets of a list. *)
Num(s) == Ids(ToSet(s))

Below(M, N) == \A m \in M, n \in N : m < n

Ascending(s) == \A i, j \in DOMAIN s : i < j => s[i].id < s[j].id

NoRepeat(s) == \A i, j \in DOMAIN s : i # j => s[i].id # s[j].id

(* What FrameFits says of one frame. *)
Fitting(f) ==
    /\ f.room >= 0 /\ Filled(f) + f.room = f.size
    /\ DOMAIN f.ends = DOMAIN f.pkts
    /\ \A i \in DOMAIN f.pkts :
          f.ends[i] = f.pkts[i].len + IF i = 1 THEN 0 ELSE f.ends[i - 1]

(* What is held ascends and is newer than everything handed over,          *)
(* whichever devices transmit: aggr_tx_frame runs under one lock.          *)
HeldIsNewest ==
    /\ Ascending(Pkts(frame)) /\ Below(Num(Pkts(frame)), Num(rem))
    /\ Below(Num(queued), Num(Pkts(frame)) \cup Num(rem))
    /\ \A d \in Devs :
          /\ Ascending(Pkts(out[d]))
          /\ Below(Num(Pkts(out[d])), Num(Pkts(frame)) \cup Num(rem))

(* Of the places that are not ordered, no two have a packet in common. *)
Apart ==
    /\ NoRepeat(queued)
    /\ \A d \in Devs : Num(queued) \cap Num(Pkts(out[d])) = {}
    /\ \A d, e \in Devs : d # e => Num(Pkts(out[d])) \cap Num(Pkts(out[e])) = {}
    /\ Ids(dropped) \cap (Num(queued) \cup Num(Pkts(frame)) \cup Num(rem)) = {}
    /\ \A d \in Devs : Ids(dropped) \cap Num(Pkts(out[d])) = {}

(* The packets of all places. *)
Everywhere ==
    dropped \cup ToSet(queued) \cup ToSet(Pkts(frame)) \cup ToSet(rem)
       \cup UNION {ToSet(Pkts(out[d])) : d \in Devs}

AllNumbered == Ids(Everywhere) = 1..taken

OneDevice == \A p \in Everywhere : p.dev = Main

(* While one device transmits its lock keeps the frames in order, too. *)
QueueInOrder ==
    OneDevice =>
       /\ \A d \in Devs \ {Main} : out[d] = NoFrame
       /\ Ascending(queued) /\ Below(Num(queued), Num(Pkts(out[Main])))

(* The sizes that a frame may have. *)
Sizes == {m[1] : m \in {Probed} \cup Negotiated}

(* What fits always fits into an empty frame, and a frame that waits with  *)
(* packets in it has no remainder behind it. *)
RoomForHeld ==
    /\ MaxSize \in Sizes
    /\ frame # NoFrame => frame.size \in Sizes
    /\ Pkts(frame) = << >> \/ rem = << >>
    /\ calm => \A p \in ToSet(Pkts(frame)) \cup ToSet(rem) : FitsAlways(p.len)

FramesInv == TxTypes /\ FrameFits
PacketsInv == HeldIsNewest /\ Apart /\ AllNumbered /\ QueueInOrder
TxInv == FramesInv /\ PacketsInv /\ RoomForHeld /\ HeldHasTimer

-----------------------------------------------------------------------------
(* Lists of packets and the sets of their numbers.                         *)
LEMMA NumbersOfPlaces ==
    ASSUME NEW P, NEW Q
    PROVE  /\ Ids(P \cup Q) = Ids(P) \cup Ids(Q)
           /\ P \subseteq Q => Ids(P) \subseteq Ids(Q)
           /\ P \subseteq Packets => Ids(P) \subseteq 1..MaxPackets
BY DEF Ids, Packets

LEMMA NumbersOfList ==
    ASSUME NEW s \in Seq(Packets)
    PROVE  /\ ToSet(s) \subseteq Packets /\ Num(s) \subseteq 1..MaxPackets
           /\ \A i \in DOMAIN s : s[i] \in ToSet(s) /\ s[i].id \in Num(s)
           /\ \A n \in Num(s) : \E i \in DOMAIN s : n = s[i].id
           /\ s = << >> <=> ToSet(s) = {}
           /\ s = << >> => Num(s) = {}
           /\ DOMAIN s = 1..Len(s) /\ Len(s) \in Nat
<1>1. /\ DOMAIN s = 1..Len(s) /\ Len(s) \in Nat
      /\ \A i \in 1..Len(s) : s[i] \in Packets
  BY LenProperties, ElementOfSeq
<1>2. ToSet(s) \subseteq Packets
  BY <1>1 DEF ToSet
<1>3. \A i \in DOMAIN s : s[i] \in ToSet(s)
  BY DEF ToSet
<1>4. \A i \in DOMAIN s : s[i].id \in Num(s)
  BY <1>3 DEF Num, Ids
<1>5. \A n \in Num(s) : \E i \in DOMAIN s : n = s[i].id
  BY DEF Num, Ids, ToSet
<1>6. s = << >> <=> ToSet(s) = {}
  <2>1. s # << >> => 1 \in DOMAIN s
    BY <1>1, EmptySeq
  <2>2. s = << >> => DOMAIN s = {}
    BY <1>1, EmptySeq
  <2>3. QED
    BY <2>1, <2>2, <1>3 DEF ToSet
<1>7. s = << >> => Num(s) = {}
  BY <1>6 DEF Num, Ids
<1>8. Num(s) \subseteq 1..MaxPackets
  BY <1>2, NumbersOfPlaces DEF Num
<1>9. QED
  BY <1>1, <1>2, <1>3, <1>4, <1>5, <1>6, <1>7, <1>8

LEMMA JoinedParts ==
    ASSUME NEW s \in Seq(Packets), NEW t \in Seq(Packets)
    PROVE  /\ s \o t \in Seq(Packets) /\ Len(s \o t) = Len(s) + Len(t)
           /\ DOMAIN (s \o t) = 1..(Len(s) + Len(t))
           /\ \A i \in DOMAIN s : i \in DOMAIN (s \o t) /\ (s \o t)[i] = s[i]
           /\ \A i \in DOMAIN t : /\ Len(s) + i \in DOMAIN (s \o t)
                                  /\ (s \o t)[Len(s) + i] = t[i]
           /\ \A i \in DOMAIN (s \o t) :
                 \/ i \in DOMAIN s /\ (s \o t)[i] = s[i]
                 \/ /\ i - Len(s) \in DOMAIN t /\ i > Len(s)
                    /\ (s \o t)[i] = t[i - Len(s)]
<1>. DEFINE u == s \o t
<1>1. /\ u \in Seq(Packets) /\ Len(u) = Len(s) + Len(t)
      /\ \A i \in 1..Len(s) + Len(t) :
            u[i] = IF i <= Len(s) THEN s[i] ELSE t[i - Len(s)]
      /\ Len(s) \in Nat /\ Len(t) \in Nat
      /\ DOMAIN s = 1..Len(s) /\ DOMAIN t = 1..Len(t)
  BY ConcatProperties, LenProperties
<1>2. DOMAIN u = 1..(Len(s) + Len(t))
  BY <1>1, LenProperties
<1>. HIDE DEF u
<1>3. \A i \in DOMAIN s : i \in DOMAIN u /\ u[i] = s[i]
  BY <1>1, <1>2
<1>4. ASSUME NEW i \in DOMAIN t
      PROVE  Len(s) + i \in DOMAIN u /\ u[Len(s) + i] = t[i]
  <2>1. Len(s) + i \in 1..(Len(s) + Len(t)) /\ ~(Len(s) + i <= Len(s))
        /\ (Len(s) + i) - Len(s) = i
    BY <1>1
  <2>2. QED
    BY <1>1, <1>2, <2>1
<1>5. ASSUME NEW i \in DOMAIN u
      PROVE  \/ i \in DOMAIN s /\ u[i] = s[i]
             \/ i - Len(s) \in DOMAIN t /\ i > Len(s) /\ u[i] = t[i - Len(s)]
  BY <1>1, <1>2
<1>6. QED
  BY <1>1, <1>2, <1>3, <1>4, <1>5 DEF u

LEMMA JoinedNumbers ==
    ASSUME NEW s \in Seq(Packets), NEW t \in Seq(Packets)
    PROVE  /\ ToSet(s \o t) = ToSet(s) \cup ToSet(t)
           /\ Num(s \o t) = Num(s) \cup Num(t)
<1>. DEFINE u == s \o t
<1>1. /\ \A i \in DOMAIN s : i \in DOMAIN u /\ u[i] = s[i]
      /\ \A i \in DOMAIN t : Len(s) + i \in DOMAIN u /\ u[Len(s) + i] = t[i]
      /\ \A i \in DOMAIN u :
            \/ i \in DOMAIN s /\ u[i] = s[i]
            \/ i - Len(s) \in DOMAIN t /\ u[i] = t[i - Len(s)]
  BY JoinedParts
<1>. HIDE DEF u
<1>2. ToSet(u) = ToSet(s) \cup ToSet(t)
  BY <1>1 DEF ToSet
<1>3. Num(u) = Num(s) \cup Num(t)
  BY <1>2, NumbersOfPlaces DEF Num
<1>4. QED
  BY <1>2, <1>3 DEF u

(* A list ascends if both its parts do and the first is older. *)
LEMMA JoinedAscending ==
    ASSUME NEW s \in Seq(Packets), NEW t \in Seq(Packets)
    PROVE  Ascending(s \o t)
              <=> Ascending(s) /\ Ascending(t) /\ Below(Num(s), Num(t))
<1>. DEFINE u == s \o t
<1>1. /\ \A i \in DOMAIN s : i \in DOMAIN u /\ u[i] = s[i]
      /\ \A i \in DOMAIN t : Len(s) + i \in DOMAIN u /\ u[Len(s) + i] = t[i]
      /\ \A i \in DOMAIN u :
            \/ i \in DOMAIN s /\ u[i] = s[i]
            \/ i - Len(s) \in DOMAIN t /\ i > Len(s) /\ u[i] = t[i - Len(s)]
      /\ DOMAIN s = 1..Len(s) /\ DOMAIN t = 1..Len(t) /\ DOMAIN u \subseteq Nat
      /\ Len(s) \in Nat /\ Len(t) \in Nat
  BY JoinedParts, NumbersOfList
<1>2. /\ \A i \in DOMAIN s : s[i].id \in Num(s)
      /\ \A i \in DOMAIN t : t[i].id \in Num(t)
      /\ \A n \in Num(s) : \E i \in DOMAIN s : n = s[i].id
      /\ \A n \in Num(t) : \E i \in DOMAIN t : n = t[i].id
  BY NumbersOfList
<1>. HIDE DEF u
<1>3. ASSUME Ascending(s), Ascending(t), Below(Num(s), Num(t)),
             NEW i \in DOMAIN u, NEW j \in DOMAIN u, i < j
      PROVE  u[i].id < u[j].id
  <2>1. CASE j \in DOMAIN s /\ u[j] = s[j]
    BY <1>1, <1>3, <2>1 DEF Ascending
  <2>2. CASE j - Len(s) \in DOMAIN t /\ j > Len(s) /\ u[j] = t[j - Len(s)]
    <3>1. CASE i \in DOMAIN s /\ u[i] = s[i]
      BY <1>2, <1>3, <2>2, <3>1 DEF Below
    <3>2. CASE i - Len(s) \in DOMAIN t /\ u[i] = t[i - Len(s)]
      <4>1. i - Len(s) < j - Len(s)
        BY <1>1, <1>3
      <4>2. QED
        BY <1>3, <2>2, <3>2, <4>1 DEF Ascending
    <3>3. QED
      BY <1>1, <3>1, <3>2
  <2>3. QED
    BY <1>1, <2>1, <2>2
<1>4. ASSUME Ascending(u)
      PROVE  Ascending(s) /\ Ascending(t) /\ Below(Num(s), Num(t))
  <2>1. Ascending(s)
    BY <1>1, <1>4 DEF Ascending
  <2>2. ASSUME NEW i \in DOMAIN t, NEW j \in DOMAIN t, i < j
        PROVE  t[i].id < t[j].id
    <3>1. Len(s) + i < Len(s) + j
      BY <1>1, <2>2
    <3>2. QED
      BY <1>1, <1>4, <3>1 DEF Ascending
  <2>3. ASSUME NEW i \in DOMAIN s, NEW j \in DOMAIN t PROVE s[i].id < t[j].id
    <3>1. i < Len(s) + j
      BY <1>1
    <3>2. QED
      BY <1>1, <1>4, <3>1 DEF Ascending
  <2>4. QED
    BY <1>2, <2>1, <2>2, <2>3 DEF Ascending, Below
<1>5. QED
  BY <1>3, <1>4 DEF Ascending, u

(* A list has no number twice if its parts have none, and none in common. *)
LEMMA JoinedNoRepeat ==
    ASSUME NEW s \in Seq(Packets), NEW t \in Seq(Packets),
           NoRepeat(s), NoRepeat(t), Num(s) \cap Num(t) = {}
    PROVE  NoRepeat(s \o t)
<1>. DEFINE u == s \o t
<1>1. /\ \A i \in DOMAIN u :
            \/ i \in DOMAIN s /\ u[i] = s[i]
            \/ i - Len(s) \in DOMAIN t /\ u[i] = t[i - Len(s)]
      /\ DOMAIN u \subseteq Nat /\ Len(s) \in Nat
  BY JoinedParts, NumbersOfList
<1>2. /\ \A i \in DOMAIN s : s[i].id \in Num(s)
      /\ \A i \in DOMAIN t : t[i].id \in Num(t)
  BY NumbersOfList
<1>. HIDE DEF u
<1>3. ASSUME NEW i \in DOMAIN u, NEW j \in DOMAIN u, i # j
      PROVE  u[i].id # u[j].id
  <2>1. CASE i \in DOMAIN s /\ u[i] = s[i] /\ j \in DOMAIN s /\ u[j] = s[j]
    BY <1>3, <2>1 DEF NoRepeat
  <2>2. CASE /\ i - Len(s) \in DOMAIN t /\ u[i] = t[i - Len(s)]
             /\ j - Len(s) \in DOMAIN t /\ u[j] = t[j - Len(s)]
    <3>1. i - Len(s) # j - Len(s)
      BY <1>1, <1>3
    <3>2. QED
      BY <2>2, <3>1 DEF NoRepeat
  <2>3. QED
    BY <1>1, <1>2, <2>1, <2>2
<1>4. QED
  BY <1>3 DEF NoRepeat, u

LEMMA AscendingNoRepeat ==
    ASSUME NEW s \in Seq(Packets), Ascending(s)
    PROVE  /\ NoRepeat(s)
           /\ \A p, q \in ToSet(s) : p.id = q.id => p = q
<1>1. /\ \A i \in DOMAIN s : s[i].id \in Num(s) /\ i \in Nat
      /\ Num(s) \subseteq 1..MaxPackets
  BY NumbersOfList
<1>2. \A i, j \in DOMAIN s : i # j => i < j \/ j < i
  BY <1>1
<1>3. \A i, j \in DOMAIN s : s[i].id < s[j].id => s[i].id # s[j].id
  BY <1>1
<1>4. NoRepeat(s)
  BY <1>2, <1>3 DEF Ascending, NoRepeat
<1>5. QED
  BY <1>4 DEF NoRepeat, ToSet

-----------------------------------------------------------------------------
(* The loop of aggr_tx_frame.                                              *)
LEMMA EmptyFrame ==
    ASSUME TxTypes
    PROVE  /\ NewFrame \in Frames /\ Fitting(NewFrame)
           /\ NewFrame.pkts = << >> /\ NewFrame.room = MaxSize
           /\ NewFrame.size = MaxSize /\ NewFrame # NoFrame
<1>1. MaxSize \in Nat \ {0}
  BY DEF TxTypes, MaxSize
<1>2. << >> \in Seq(Packets) /\ << >> \in Seq(Nat)
  BY EmptySeq
<1>3. NewFrame \in Frames
  BY <1>1, <1>2 DEF NewFrame, Frames
<1>4. Fitting(NewFrame)
  BY <1>1 DEF NewFrame, Fitting, Filled
<1>5. QED
  BY <1>3, <1>4, FrameAssumption DEF NewFrame

LEMMA FrameParts ==
    ASSUME NEW f \in Frames
    PROVE  /\ f.size \in Nat \ {0} /\ f.room \in Int
           /\ f.pkts \in Seq(Packets) /\ f.ends \in Seq(Nat)
           /\ f # NoFrame /\ Filled(f) \in Nat
<1>1. /\ f.size \in Nat \ {0} /\ f.room \in Int
      /\ f.pkts \in Seq(Packets) /\ f.ends \in Seq(Nat)
  BY DEF Frames
<1>2. Filled(f) \in Nat
  <2>1. CASE f.ends = << >>
    BY <2>1 DEF Filled
  <2>2. CASE f.ends # << >>
    <3>1. Len(f.ends) \in 1..Len(f.ends)
      BY <1>1, <2>2, EmptySeq
    <3>2. QED
      BY <1>1, <2>2, <3>1, ElementOfSeq DEF Filled, Last
  <2>3. QED
    BY <2>1, <2>2
<1>3. QED
  BY <1>1, <1>2, FrameAssumption

(* A packet that fits is put behind the others, inside of the frame. *)
LEMMA PacketPut ==
    ASSUME NEW f \in Frames, NEW p \in Packets, Fitting(f), Fits(f, p)
    PROVE  LET g == PutPacket(f, p)
           IN  /\ g \in Frames /\ Fitting(g) /\ g.size = f.size
               /\ g.pkts = f.pkts \o <<p>> /\ g.pkts # << >>
<1>. DEFINE g == PutPacket(f, p)
            n == Filled(f) + p.len
<1>1. /\ f.size \in Nat \ {0} /\ f.room \in Int /\ Filled(f) \in Nat
      /\ f.pkts \in Seq(Packets) /\ f.ends \in Seq(Nat)
  BY FrameParts
<1>2. p.len \in Nat
  BY AggrAssumption DEF Packets
<1>3. n \in Nat
  BY <1>1, <1>2
<1>4. /\ g.size = f.size /\ g.room = f.room - p.len
      /\ g.pkts = Append(f.pkts, p) /\ g.ends = Append(f.ends, n)
      /\ g = [size |-> g.size, room |-> g.room, pkts |-> g.pkts, ends |-> g.ends]
  BY DEF PutPacket
<1>. HIDE DEF g, n
<1>5. /\ g.pkts \in Seq(Packets) /\ g.ends \in Seq(Nat)
      /\ Len(g.pkts) = Len(f.pkts) + 1 /\ Len(g.ends) = Len(f.ends) + 1
      /\ g.pkts[Len(f.pkts) + 1] = p /\ g.ends[Len(f.ends) + 1] = n
      /\ \A i \in 1..Len(f.pkts) : g.pkts[i] = f.pkts[i]
      /\ \A i \in 1..Len(f.ends) : g.ends[i] = f.ends[i]
      /\ g.pkts # << >> /\ g.ends # << >>
  <2>1. /\ g.pkts \in Seq(Packets) /\ Len(g.pkts) = Len(f.pkts) + 1
        /\ g.pkts[Len(f.pkts) + 1] = p
        /\ \A i \in 1..Len(f.pkts) : g.pkts[i] = f.pkts[i]
    BY <1>1, <1>4, AppendProperties
  <2>2. /\ g.ends \in Seq(Nat) /\ Len(g.ends) = Len(f.ends) + 1
        /\ g.ends[Len(f.ends) + 1] = n
        /\ \A i \in 1..Len(f.ends) : g.ends[i] = f.ends[i]
    BY <1>1, <1>3, <1>4, AppendProperties
  <2>3. Len(f.pkts) \in Nat /\ Len(f.ends) \in Nat
    BY <1>1, LenProperties
  <2>4. g.pkts # << >> /\ g.ends # << >>
    BY <2>1, <2>2, <2>3, EmptySeq
  <2>5. QED
    BY <2>1, <2>2, <2>4
<1>6. g \in Frames
  <2>1. g.size \in Nat \ {0} /\ g.room \in Int
    BY <1>1, <1>2, <1>4
  <2>2. [size |-> g.size, room |-> g.room, pkts |-> g.pkts, ends |-> g.ends]
           \in Frames
    BY <1>5, <2>1 DEF Frames
  <2>3. QED
    BY <1>4, <2>2, Zenon
<1>7. Filled(g) = n
  BY <1>5 DEF Filled, Last
<1>8. g.room >= 0 /\ Filled(g) + g.room = g.size
  BY <1>1, <1>2, <1>4, <1>7 DEF Fitting, Fits, n
<1>9. /\ DOMAIN f.pkts = 1..Len(f.pkts) /\ DOMAIN f.ends = 1..Len(f.ends)
      /\ DOMAIN g.pkts = 1..Len(g.pkts) /\ DOMAIN g.ends = 1..Len(g.ends)
      /\ Len(f.pkts) \in Nat /\ Len(f.ends) \in Nat
  BY <1>1, <1>5, LenProperties
<1>10. Len(f.pkts) = Len(f.ends)
  BY <1>9 DEF Fitting
<1>11. ASSUME NEW i \in DOMAIN g.pkts
       PROVE  g.ends[i] = g.pkts[i].len + IF i = 1 THEN 0 ELSE g.ends[i - 1]
  <2>1. CASE i \in 1..Len(f.pkts)
    <3>1. f.ends[i] = f.pkts[i].len + IF i = 1 THEN 0 ELSE f.ends[i - 1]
      BY <1>9, <2>1 DEF Fitting
    <3>2. i # 1 => i - 1 \in 1..Len(f.ends)
      BY <1>9, <1>10, <2>1
    <3>3. QED
      BY <1>5, <1>10, <2>1, <3>1, <3>2
  <2>2. CASE i = Len(f.pkts) + 1
    <3>1. CASE Len(f.pkts) = 0
      <4>1. f.ends = << >>
        BY <1>1, <1>10, <3>1, EmptySeq
      <4>2. n = p.len
        BY <1>2, <4>1 DEF n, Filled
      <4>3. QED
        BY <1>2, <1>5, <1>10, <2>2, <3>1, <4>2
    <3>2. CASE Len(f.pkts) # 0
      <4>1. f.ends # << >> /\ Len(f.ends) \in 1..Len(f.ends)
        BY <1>9, <1>10, <3>2, EmptySeq
      <4>2. Filled(f) = f.ends[Len(f.ends)]
        BY <4>1 DEF Filled, Last
      <4>3. i # 1 /\ i - 1 = Len(f.ends)
        BY <1>9, <1>10, <2>2, <3>2
      <4>4. g.ends[i - 1] = Filled(f)
        BY <1>5, <4>1, <4>2, <4>3
      <4>5. QED
        BY <1>1, <1>2, <1>5, <1>10, <2>2, <4>3, <4>4 DEF n
    <3>3. QED
      BY <3>1, <3>2
  <2>3. QED
    BY <1>5, <1>9, <2>1, <2>2
<1>12. Fitting(g)
  BY <1>5, <1>8, <1>9, <1>10, <1>11 DEF Fitting
<1>13. g.pkts = f.pkts \o <<p>>
  BY <1>1, <1>4, AppendIsConcat
<1>14. QED
  BY <1>4, <1>5, <1>6, <1>12, <1>13 DEF g

(* A state of the loop: the frame and the packets that are still to be put.*)
Rounds(st) ==
    /\ st = [frame |-> st.frame, rest |-> st.rest]
    /\ st.frame \in Frames /\ Fitting(st.frame)
    /\ st.rest \in Seq(Packets)

LEMMA HeadThenTail ==
    ASSUME NEW s \in Seq(Packets), s # << >>
    PROVE  /\ Head(s) \in Packets /\ Tail(s) \in Seq(Packets)
           /\ Len(Tail(s)) = Len(s) - 1 /\ s = <<Head(s)>> \o Tail(s)
           /\ Head(s) = s[1] /\ 1 \in DOMAIN s
<1>1. /\ Head(s) \in Packets /\ Tail(s) \in Seq(Packets)
      /\ Len(Tail(s)) = Len(s) - 1 /\ Len(s) \in Nat /\ Len(s) > 0
      /\ \A i \in 1..Len(Tail(s)) : Tail(s)[i] = s[i + 1]
  BY HeadTailProperties, EmptySeq, LenProperties
<1>2. 1 \in DOMAIN s /\ Head(s) = s[1]
  BY <1>1, LenProperties
<1>. DEFINE h == <<Head(s)>>
            t == Tail(s)
            u == h \o t
<1>3. h \in Seq(Packets) /\ Len(h) = 1 /\ h[1] = Head(s)
  BY <1>1
<1>. HIDE DEF h, t
<1>4. /\ u \in Seq(Packets) /\ Len(u) = 1 + Len(t)
      /\ \A i \in 1..(1 + Len(t)) : u[i] = IF i <= 1 THEN h[i] ELSE t[i - 1]
  <2>1. t \in Seq(Packets)
    BY <1>1 DEF t
  <2>2. /\ u \in Seq(Packets) /\ Len(u) = Len(h) + Len(t)
        /\ \A i \in 1..Len(h) + Len(t) :
              u[i] = IF i <= Len(h) THEN h[i] ELSE t[i - Len(h)]
    BY <1>3, <2>1, ConcatProperties
  <2>3. QED
    BY <1>3, <2>2
<1>. HIDE DEF u
<1>5. Len(u) = Len(s)
  BY <1>1, <1>4 DEF t
<1>6. ASSUME NEW i \in 1..Len(s) PROVE s[i] = u[i]
  <2>1. CASE i = 1
    BY <1>1, <1>2, <1>3, <1>4, <1>5, <2>1
  <2>2. CASE i # 1
    <3>1. i - 1 \in 1..Len(t) /\ ~(i <= 1) /\ i \in 1..(1 + Len(t)) /\ (i - 1) + 1 = i
      BY <1>1, <2>2 DEF t
    <3>2. t[i - 1] = s[i]
      BY <1>1, <3>1 DEF t
    <3>3. QED
      BY <1>4, <3>1, <3>2
  <2>3. QED
    BY <2>1, <2>2
<1>7. s = u
  BY <1>4, <1>5, <1>6, SeqEqual
<1>8. QED
  BY <1>1, <1>2, <1>7 DEF u, h, t

LEMMA JoinAssociative ==
    ASSUME NEW s \in Seq(Packets), NEW t \in Seq(Packets), NEW r \in Seq(Packets)
    PROVE  (s \o t) \o r = s \o (t \o r)
<1>. PICK a, b : a = s \o t /\ b = t \o r
  OBVIOUS
<1>. PICK x, y : x = a \o r /\ y = s \o b
  OBVIOUS
<1>1. Len(s) \in Nat /\ Len(t) \in Nat /\ Len(r) \in Nat
  BY LenProperties
<1>2. /\ a \in Seq(Packets) /\ Len(a) = Len(s) + Len(t)
      /\ \A i \in 1..Len(s) + Len(t) :
            a[i] = IF i <= Len(s) THEN s[i] ELSE t[i - Len(s)]
  BY ConcatProperties
<1>3. /\ b \in Seq(Packets) /\ Len(b) = Len(t) + Len(r)
      /\ \A i \in 1..Len(t) + Len(r) :
            b[i] = IF i <= Len(t) THEN t[i] ELSE r[i - Len(t)]
  BY ConcatProperties
<1>4. /\ x \in Seq(Packets) /\ Len(x) = Len(a) + Len(r)
      /\ \A i \in 1..Len(a) + Len(r) :
            x[i] = IF i <= Len(a) THEN a[i] ELSE r[i - Len(a)]
  BY <1>2, ConcatProperties
<1>5. /\ y \in Seq(Packets) /\ Len(y) = Len(s) + Len(b)
      /\ \A i \in 1..Len(s) + Len(b) :
            y[i] = IF i <= Len(s) THEN s[i] ELSE b[i - Len(s)]
  BY <1>3, ConcatProperties
<1>6. Len(x) = Len(y)
  BY <1>1, <1>2, <1>3, <1>4, <1>5
<1>7. ASSUME NEW i \in 1..Len(x) PROVE x[i] = y[i]
  <2>1. CASE i <= Len(s)
    <3>1. i \in 1..Len(a) /\ i \in 1..Len(s) + Len(t)
      BY <1>1, <1>2, <1>7, <2>1
    <3>2. x[i] = a[i] /\ a[i] = s[i]
      BY <1>1, <1>2, <1>4, <1>7, <2>1, <3>1
    <3>3. y[i] = s[i]
      BY <1>5, <1>6, <1>7, <2>1
    <3>4. QED
      BY <3>2, <3>3
  <2>2. CASE i > Len(s) /\ i <= Len(s) + Len(t)
    <3>1. i - Len(s) \in 1..Len(t) + Len(r) /\ i - Len(s) <= Len(t)
          /\ ~(i <= Len(s)) /\ i <= Len(a)
      BY <1>1, <1>2, <1>7, <2>2
    <3>2. x[i] = t[i - Len(s)]
      BY <1>1, <1>2, <1>4, <1>7, <2>2, <3>1
    <3>3. y[i] = t[i - Len(s)]
      BY <1>3, <1>5, <1>6, <1>7, <3>1
    <3>4. QED
      BY <3>2, <3>3
  <2>3. CASE i > Len(s) + Len(t)
    <3>1. /\ i - Len(s) \in 1..Len(t) + Len(r) /\ ~(i - Len(s) <= Len(t))
          /\ ~(i <= Len(s)) /\ ~(i <= Len(a))
          /\ (i - Len(s)) - Len(t) = i - Len(a)
      BY <1>1, <1>2, <1>4, <1>7, <2>3
    <3>2. x[i] = r[i - Len(a)]
      BY <1>4, <1>7, <3>1
    <3>3. y[i] = b[i - Len(s)]
      BY <1>5, <1>6, <1>7, <3>1
    <3>4. b[i - Len(s)] = r[(i - Len(s)) - Len(t)]
      BY <1>3, <3>1
    <3>5. QED
      BY <3>1, <3>2, <3>3, <3>4
  <2>4. QED
    BY <1>1, <1>4, <1>7, <2>1, <2>2, <2>3
<1>8. x = y
  BY <1>4, <1>5, <1>6, <1>7, SeqEqual
<1>9. QED
  BY <1>8

(* A packet that is put is the next of those that were still to be put. *)
LEMMA HeadPut ==
    ASSUME NEW f \in Frames, Fitting(f), NEW r \in Seq(Packets), r # << >>,
           Fits(f, Head(r))
    PROVE  /\ PutPacket(f, Head(r)) \in Frames
           /\ Fitting(PutPacket(f, Head(r)))
           /\ PutPacket(f, Head(r)).size = f.size
           /\ PutPacket(f, Head(r)).pkts # << >>
           /\ Tail(r) \in Seq(Packets) /\ Len(Tail(r)) < Len(r)
           /\ PutPacket(f, Head(r)).pkts \o Tail(r) = f.pkts \o r
<1>. DEFINE g == PutPacket(f, Head(r))
            h == <<Head(r)>>
            t == Tail(r)
<1>1. /\ Head(r) \in Packets /\ t \in Seq(Packets)
      /\ Len(t) = Len(r) - 1 /\ r = h \o t /\ Len(r) \in Nat
  BY HeadThenTail, LenProperties
<1>2. h \in Seq(Packets)
  BY <1>1
<1>3. f.pkts \in Seq(Packets)
  BY FrameParts
<1>4. /\ g \in Frames /\ Fitting(g) /\ g.size = f.size
      /\ g.pkts = f.pkts \o h /\ g.pkts # << >>
  BY <1>1, PacketPut
<1>. HIDE DEF g, h, t
<1>5. g.pkts \o t = f.pkts \o r
  <2>1. f.pkts \o r = f.pkts \o (h \o t)
    BY <1>1, Zenon
  <2>2. g.pkts \o t = (f.pkts \o h) \o t
    BY <1>4, Zenon
  <2>3. (f.pkts \o h) \o t = f.pkts \o (h \o t)
    BY <1>1, <1>2, <1>3, JoinAssociative, Zenon
  <2>4. QED
    BY <2>1, <2>2, <2>3, Zenon
<1>6. Len(t) < Len(r)
  BY <1>1
<1>7. QED
  BY <1>1, <1>4, <1>5, <1>6, Zenon DEF g, t

LEMMA RoundDone ==
    ASSUME NEW st, Rounds(st), NEW u, u = PutNext(st)
    PROVE  /\ Rounds(u) /\ u.frame.size = st.frame.size
           /\ u.frame.pkts \o u.rest = st.frame.pkts \o st.rest
           /\ Len(u.rest) <= Len(st.rest)
           /\ st.frame.pkts # << >> => u.frame.pkts # << >>
           /\ st.rest = << >> => u.rest = << >>
           /\ st.rest # << >> /\ Fits(st.frame, Head(st.rest))
                 => u.frame.pkts # << >> /\ Len(u.rest) < Len(st.rest)
<1>. DEFINE Puts == st.rest # << >> /\ Fits(st.frame, Head(st.rest))
<1>1. /\ st.frame \in Frames /\ Fitting(st.frame) /\ st.rest \in Seq(Packets)
      /\ st.frame.pkts \in Seq(Packets) /\ Len(st.rest) \in Nat
  BY FrameParts, LenProperties DEF Rounds
<1>2. CASE ~Puts
  <2>1. u = st
    BY <1>2 DEF PutNext
  <2>. HIDE DEF Puts
  <2>2. QED
    BY <1>1, <1>2, <2>1 DEF Puts
<1>3. CASE Puts
  <2>. DEFINE g == PutPacket(st.frame, Head(st.rest))
              t == Tail(st.rest)
  <2>1. u = [frame |-> g, rest |-> t]
    BY <1>3 DEF PutNext
  <2>2. u.frame = g /\ u.rest = t /\ u = [frame |-> u.frame, rest |-> u.rest]
    BY <2>1
  <2>3. /\ g \in Frames /\ Fitting(g) /\ g.size = st.frame.size /\ g.pkts # << >>
        /\ t \in Seq(Packets) /\ Len(t) < Len(st.rest)
        /\ g.pkts \o t = st.frame.pkts \o st.rest
    BY <1>1, <1>3, HeadPut, Zenon
  <2>. HIDE DEF g, t
  <2>4. Rounds(u)
    BY <2>2, <2>3, Zenon DEF Rounds
  <2>5. Len(t) <= Len(st.rest)
    BY <1>1, <2>3, LenProperties
  <2>. HIDE DEF Puts
  <2>6. QED
    BY <1>3, <2>2, <2>3, <2>4, <2>5, Zenon DEF Puts
<1>4. QED
  BY <1>2, <1>3

LEMMA LoopDone ==
    ASSUME NEW f \in Frames, Fitting(f), NEW todo \in Seq(Packets),
           NEW loop, loop = Put(f, todo)
    PROVE  /\ Rounds(loop) /\ loop.frame.size = f.size
           /\ loop.frame.pkts \o loop.rest = f.pkts \o todo
           /\ Len(loop.rest) <= Len(todo)
           /\ f.pkts # << >> => loop.frame.pkts # << >>
           /\ todo = << >> => loop.rest = << >>
           /\ todo # << >> /\ Fits(f, Head(todo))
                 => loop.frame.pkts # << >> /\ Len(loop.rest) < Len(todo)
<1>. PICK a : a = [frame |-> f, rest |-> todo]
  OBVIOUS
<1>. PICK b : b = PutNext(a)
  OBVIOUS
<1>1. a.frame = f /\ a.rest = todo /\ Rounds(a)
  BY DEF Rounds
<1>2. /\ Rounds(b) /\ b.frame.size = f.size
      /\ b.frame.pkts \o b.rest = f.pkts \o todo
      /\ Len(b.rest) <= Len(todo)
      /\ f.pkts # << >> => b.frame.pkts # << >>
      /\ todo = << >> => b.rest = << >>
      /\ todo # << >> /\ Fits(f, Head(todo))
            => b.frame.pkts # << >> /\ Len(b.rest) < Len(todo)
  <2>1. /\ Rounds(b) /\ b.frame.size = a.frame.size
        /\ b.frame.pkts \o b.rest = a.frame.pkts \o a.rest
        /\ Len(b.rest) <= Len(a.rest)
        /\ a.frame.pkts # << >> => b.frame.pkts # << >>
        /\ a.rest = << >> => b.rest = << >>
        /\ a.rest # << >> /\ Fits(a.frame, Head(a.rest))
              => b.frame.pkts # << >> /\ Len(b.rest) < Len(a.rest)
    BY <1>1, RoundDone, Zenon
  <2>2. QED
    BY <1>1, <2>1, Zenon
<1>3. loop = PutNext(b)
  BY DEF Put
<1>4. /\ Rounds(loop) /\ loop.frame.size = b.frame.size
      /\ loop.frame.pkts \o loop.rest = b.frame.pkts \o b.rest
      /\ Len(loop.rest) <= Len(b.rest)
      /\ b.frame.pkts # << >> => loop.frame.pkts # << >>
      /\ b.rest = << >> => loop.rest = << >>
  BY <1>2, <1>3, RoundDone, Zenon
<1>5. Len(todo) \in Nat /\ Len(b.rest) \in Nat /\ Len(loop.rest) \in Nat
  BY <1>2, <1>4, LenProperties DEF Rounds
<1>6. /\ Len(loop.rest) <= Len(todo)
      /\ Len(b.rest) < Len(todo) => Len(loop.rest) < Len(todo)
  BY <1>2, <1>4, <1>5
<1>7. QED
  BY <1>2, <1>4, <1>6, Zenon

(* What waits for the next frame is one of the packets that were not put. *)
LEMMA KeptParts ==
    ASSUME NEW rest \in Seq(Packets), NEW misfit \in BOOLEAN,
           misfit => rest # << >>, NEW k, k = Kept(rest, misfit)
    PROVE  /\ k \in Seq(Packets) /\ Len(k) <= 1
           /\ ToSet(k) \subseteq ToSet(rest)
           /\ rest = << >> => k = << >>
<1>1. Len(<< >>) = 0 /\ << >> \in Seq(Packets) /\ ToSet(<< >>) = {}
  BY EmptySeq DEF ToSet
<1>2. \A p \in ToSet(rest) :
          /\ <<p>> \in Seq(Packets) /\ Len(<<p>>) = 1 /\ ToSet(<<p>>) = {p}
  BY NumbersOfList DEF ToSet
<1>3. rest # << >> => Head(rest) \in ToSet(rest) /\ Last(rest) \in ToSet(rest)
  <2>1. rest # << >> => Len(rest) \in DOMAIN rest
    BY EmptySeq, LenProperties
  <2>2. QED
    BY <2>1, HeadThenTail DEF ToSet, Last
<1>4. \/ rest = << >> /\ k = << >>
      \/ rest # << >> /\ (k = <<Head(rest)>> \/ k = <<Last(rest)>>)
  BY DEF Kept
<1>5. rest # << >> => k \in Seq(Packets) /\ Len(k) <= 1 /\ ToSet(k) \subseteq ToSet(rest)
  <2>1. ASSUME NEW p \in ToSet(rest), k = <<p>>
        PROVE  k \in Seq(Packets) /\ Len(k) <= 1 /\ ToSet(k) \subseteq ToSet(rest)
    <3>1. k \in Seq(Packets) /\ Len(k) = 1 /\ ToSet(k) = {p}
      BY <1>2, <2>1, Zenon
    <3>2. QED
      BY <3>1
  <2>2. QED
    BY <1>3, <1>4, <2>1, Zenon
<1>6. rest = << >> => k \in Seq(Packets) /\ Len(k) <= 1 /\ ToSet(k) \subseteq ToSet(rest)
  <2>1. ASSUME rest = << >>
        PROVE  k \in Seq(Packets) /\ Len(k) <= 1 /\ ToSet(k) \subseteq ToSet(rest)
    <3>1. Len(k) = 0 /\ k \in Seq(Packets) /\ ToSet(k) = {}
      BY <1>1, <1>4, <2>1, Zenon
    <3>2. QED
      BY <3>1
  <2>2. QED
    BY <2>1
<1>7. QED
  BY <1>4, <1>5, <1>6, Zenon

(* The frame g, the remainder k and the dropped packets lost that a call   *)
(* of aggr_tx_frame for d makes of the frame, the remainder and new.       *)
Aggregated(d, new, g, k, lost) ==
    /\ g \in Frames /\ Fitting(g)
    /\ g.size = IF frame = NoFrame THEN MaxSize ELSE frame.size
    /\ k \in Seq(Packets) /\ Len(k) <= 1 /\ lost \subseteq Packets
    /\ rem' = k /\ dropped' = dropped \cup lost
    /\ ToSet(g.pkts) \cup ToSet(k) \cup lost
          = ToSet(Pkts(frame)) \cup ToSet(rem) \cup ToSet(new)
    /\ Ascending(g.pkts) /\ Below(Num(g.pkts), Num(k))
    /\ Ids(lost) \cap (Num(g.pkts) \cup Num(k)) = {}
    /\ \/ frame' = g /\ UNCHANGED out
       \/ frame' = NoFrame /\ out' = [out EXCEPT ![d] = g]

LEMMA FittingFrames ==
    ASSUME FrameFits
    PROVE  /\ frame # NoFrame => Fitting(frame)
           /\ \A d \in Devs : out[d] # NoFrame => Fitting(out[d])
BY DEF FrameFits, Fitting

LEMMA HeldTypes ==
    ASSUME TxTypes
    PROVE  /\ Pkts(frame) \in Seq(Packets) /\ rem \in Seq(Packets)
           /\ queued \in Seq(Packets) /\ Held \in Seq(Packets)
           /\ \A d \in Devs : Pkts(out[d]) \in Seq(Packets)
<1>1. << >> \in Seq(Packets)
  BY EmptySeq
<1>2. \A f \in Frames \cup {NoFrame} : Pkts(f) \in Seq(Packets)
  BY <1>1, FrameParts DEF Pkts
<1>3. /\ frame \in Frames \cup {NoFrame} /\ rem \in Seq(Packets)
      /\ queued \in Seq(Packets)
      /\ \A d \in Devs : out[d] \in Frames \cup {NoFrame}
  BY DEF TxTypes
<1>4. Pkts(frame) \o rem \in Seq(Packets)
  BY <1>2, <1>3, JoinedParts
<1>5. QED
  BY <1>2, <1>3, <1>4 DEF Held

(* The frame that is filled: tx_curr_skb, or a new one. *)
CurrFrame == IF frame = NoFrame THEN NewFrame ELSE frame

LEMMA CurrFrameParts ==
    ASSUME TxTypes, FrameFits
    PROVE  /\ CurrFrame \in Frames /\ Fitting(CurrFrame)
           /\ CurrFrame.pkts = Pkts(frame)
           /\ CurrFrame.size = IF frame = NoFrame THEN MaxSize ELSE frame.size
<1>1. CASE frame = NoFrame
  BY <1>1, EmptyFrame DEF CurrFrame, Pkts
<1>2. CASE frame # NoFrame
  BY <1>2, FittingFrames DEF CurrFrame, Pkts, TxTypes
<1>3. QED
  BY <1>1, <1>2

(* What aggr_tx_frame does with the packets, whatever their lengths. *)
LEMMA AggregateEffect ==
    ASSUME TxTypes, FrameFits, NEW d \in Devs, NEW new \in Seq(Packets),
           Aggregate(d, new), Ascending(Pkts(frame) \o (rem \o new))
    PROVE  \E g, k, lost : Aggregated(d, new, g, k, lost)
<1>. DEFINE loop   == Put(CurrFrame, Todo(new))
            g      == loop.frame
            rest   == loop.rest
            misfit == rest # << >> /\ Len(g.pkts) < MaxDatagrams
            k      == Kept(rest, misfit)
            lost   == ToSet(rest) \ ToSet(k)
<1>1. /\ rem' = k /\ dropped' = dropped \cup lost
      /\ \/ frame' = g /\ UNCHANGED out
         \/ frame' = NoFrame /\ out' = [out EXCEPT ![d] = g]
  BY DEF Aggregate, CurrFrame, CountDrops, Hold, Send
<1>2. /\ misfit \in BOOLEAN /\ (misfit => rest # << >>)
  OBVIOUS
<1>3. /\ Pkts(frame) \in Seq(Packets) /\ rem \in Seq(Packets)
      /\ rem \o new \in Seq(Packets)
  BY HeldTypes, JoinedParts
<1>4. /\ CurrFrame \in Frames /\ Fitting(CurrFrame)
      /\ CurrFrame.pkts = Pkts(frame)
      /\ CurrFrame.size = IF frame = NoFrame THEN MaxSize ELSE frame.size
  BY CurrFrameParts
<1>5. /\ Rounds(loop) /\ g.size = CurrFrame.size
      /\ g.pkts \o rest = Pkts(frame) \o (rem \o new)
  <2>1. loop = Put(CurrFrame, rem \o new)
    BY DEF Todo
  <2>. HIDE DEF loop
  <2>2. PICK todo, f : todo = rem \o new /\ f = CurrFrame
    OBVIOUS
  <2>3. loop = Put(f, todo) /\ f \in Frames /\ Fitting(f) /\ todo \in Seq(Packets)
    BY <1>3, <1>4, <2>1, <2>2, Zenon
  <2>4. Rounds(loop) /\ loop.frame.size = f.size
    BY <2>3, LoopDone
  <2>5. loop.frame.pkts \o loop.rest = f.pkts \o todo
    BY <2>3, LoopDone, Zenon
  <2>6. f.pkts \o todo = Pkts(frame) \o (rem \o new) /\ f.size = CurrFrame.size
    BY <1>4, <2>2, Zenon
  <2>7. QED
    BY <2>4, <2>5, <2>6, Zenon
<1>. HIDE DEF loop
<1>6. /\ g \in Frames /\ Fitting(g) /\ rest \in Seq(Packets)
      /\ g.pkts \in Seq(Packets)
  <2>1. g \in Frames /\ Fitting(g) /\ rest \in Seq(Packets)
    BY <1>5 DEF Rounds
  <2>2. QED
    BY <2>1, FrameParts
<1>. HIDE DEF g, rest, misfit
<1>7. /\ k \in Seq(Packets) /\ Len(k) <= 1 /\ ToSet(k) \subseteq ToSet(rest)
  BY <1>2, <1>6, KeptParts
<1>. HIDE DEF k
<1>8. ToSet(g.pkts) \cup ToSet(k) \cup lost
         = ToSet(Pkts(frame)) \cup ToSet(rem) \cup ToSet(new)
  <2>1. ToSet(g.pkts \o rest) = ToSet(g.pkts) \cup ToSet(rest)
    BY <1>6, JoinedNumbers
  <2>2. ToSet(Pkts(frame) \o (rem \o new))
           = ToSet(Pkts(frame)) \cup ToSet(rem \o new)
    BY <1>3, JoinedNumbers
  <2>3. ToSet(rem \o new) = ToSet(rem) \cup ToSet(new)
    BY <1>3, JoinedNumbers
  <2>4. ToSet(k) \cup lost = ToSet(rest)
    BY <1>7
  <2>5. ToSet(g.pkts \o rest) = ToSet(Pkts(frame) \o (rem \o new))
    BY <1>5, Zenon
  <2>. HIDE DEF lost
  <2>6. QED
    BY <2>1, <2>2, <2>3, <2>4, <2>5
<1>9. Ascending(g.pkts) /\ Ascending(rest) /\ Below(Num(g.pkts), Num(rest))
  <2>1. Ascending(g.pkts \o rest)
    BY <1>5, Zenon
  <2>2. QED
    BY <1>6, <2>1, JoinedAscending
<1>10. lost \subseteq Packets /\ lost \subseteq ToSet(rest)
  BY <1>6, NumbersOfList
<1>11. /\ Num(k) \subseteq Num(rest) /\ Ids(lost) \subseteq Num(rest)
       /\ Num(rest) \subseteq Nat
  BY <1>6, <1>7, <1>10, NumbersOfPlaces, NumbersOfList DEF Num
<1>12. Below(Num(g.pkts), Num(k))
  BY <1>9, <1>11 DEF Below
<1>13. Ids(lost) \cap Num(g.pkts) = {}
  <2>1. ASSUME NEW n \in Ids(lost), n \in Num(g.pkts) PROVE FALSE
    <3>1. n \in Num(rest) /\ n \in Nat
      BY <1>11, <2>1
    <3>2. n < n
      BY <1>9, <2>1, <3>1, Zenon DEF Below
    <3>3. QED
      BY <3>1, <3>2
  <2>2. QED
    BY <2>1, Zenon
<1>14. Ids(lost) \cap Num(k) = {}
  <2>1. \A p, q \in ToSet(rest) : p.id = q.id => p = q
    BY <1>6, <1>9, AscendingNoRepeat
  <2>2. QED
    BY <1>7, <2>1 DEF Num, Ids
<1>15. Aggregated(d, new, g, k, lost)
  <2>. HIDE DEF lost
  <2>1. QED
    BY <1>1, <1>4, <1>5, <1>6, <1>7, <1>8, <1>9, <1>10, <1>12, <1>13, <1>14
    DEF Aggregated
<1>16. QED
  BY <1>15, Zenon

-----------------------------------------------------------------------------
(* The packets change places.                                              *)
LEMMA BelowParts ==
    ASSUME NEW M, NEW N, M \subseteq Nat, Below(M, N)
    PROVE  /\ M \cap N = {}
           /\ \A P, Q : P \subseteq M /\ Q \subseteq N => Below(P, Q)
<1>1. ASSUME NEW n \in M, n \in N PROVE FALSE
  <2>1. n < n /\ n \in Nat
    BY <1>1 DEF Below
  <2>2. QED
    BY <2>1
<1>2. M \cap N = {}
  BY <1>1
<1>3. QED
  BY <1>2 DEF Below

LEMMA ShortAscends ==
    ASSUME NEW s \in Seq(Packets), Len(s) <= 1
    PROVE  Ascending(s)
<1>1. DOMAIN s = 1..Len(s) /\ Len(s) \in Nat
  BY NumbersOfList
<1>2. \A i, j \in DOMAIN s : ~(i < j)
  BY <1>1
<1>3. QED
  BY <1>2 DEF Ascending

LEMMA NumbersTaken ==
    ASSUME TxTypes, AllNumbered
    PROVE  /\ Num(queued) \subseteq 1..taken /\ Num(Pkts(frame)) \subseteq 1..taken
           /\ Num(rem) \subseteq 1..taken /\ Ids(dropped) \subseteq 1..taken
           /\ \A d \in Devs : Num(Pkts(out[d])) \subseteq 1..taken
           /\ taken \in Nat
<1>1. /\ ToSet(queued) \subseteq Everywhere /\ ToSet(Pkts(frame)) \subseteq Everywhere
      /\ ToSet(rem) \subseteq Everywhere /\ dropped \subseteq Everywhere
      /\ \A d \in Devs : ToSet(Pkts(out[d])) \subseteq Everywhere
  BY DEF Everywhere
<1>2. \A P : P \subseteq Everywhere => Ids(P) \subseteq 1..taken
  BY NumbersOfPlaces DEF AllNumbered
<1>3. taken \in Nat
  BY AggrAssumption DEF TxTypes
<1>4. QED
  BY <1>1, <1>2, <1>3, Zenon DEF Num

(* The packets that a call takes are numbered on. *)
Numbered(new) ==
    /\ new \in Seq(Packets) /\ Len(new) <= 1
    /\ taken' \in Nat /\ taken <= taken'
    /\ Num(new) = (1..taken') \ (1..taken)

LEMMA NewAscends ==
    ASSUME TxTypes, HeldIsNewest, AllNumbered, NEW new, Numbered(new)
    PROVE  /\ Ascending(Pkts(frame) \o (rem \o new))
           /\ Below(Num(rem), Num(new))
<1>1. /\ Pkts(frame) \in Seq(Packets) /\ rem \in Seq(Packets) /\ Len(rem) <= 1
      /\ new \in Seq(Packets) /\ Len(new) <= 1
  BY HeldTypes DEF TxTypes, Numbered
<1>2. Ascending(rem) /\ Ascending(new)
  BY <1>1, ShortAscends
<1>3. /\ Below(Num(rem), Num(new)) /\ Below(Num(Pkts(frame)), Num(new))
  BY NumbersTaken DEF Numbered, Below
<1>4. Ascending(rem \o new) /\ rem \o new \in Seq(Packets)
  BY <1>1, <1>2, <1>3, JoinedAscending, JoinedParts
<1>5. Num(rem \o new) = Num(rem) \cup Num(new)
  BY <1>1, JoinedNumbers
<1>6. Ascending(Pkts(frame)) /\ Below(Num(Pkts(frame)), Num(rem))
  BY DEF HeldIsNewest
<1>7. Below(Num(Pkts(frame)), Num(rem \o new))
  BY <1>3, <1>5, <1>6 DEF Below
<1>8. Ascending(Pkts(frame) \o (rem \o new))
  BY <1>1, <1>4, <1>6, <1>7, JoinedAscending
<1>9. QED
  BY <1>3, <1>8

(* What a call for d makes of the packets: h is in the frame, held or      *)
(* handed over, k is the remainder and lost is dropped.                    *)
Regrouped(d, new, h, k, lost) ==
    /\ h \in Seq(Packets) /\ k \in Seq(Packets) /\ lost \subseteq Packets
    /\ rem' = k /\ dropped' = dropped \cup lost
    /\ ToSet(h) \cup ToSet(k) \cup lost
          = ToSet(Pkts(frame)) \cup ToSet(rem) \cup ToSet(new)
    /\ Ascending(h) /\ Below(Num(h), Num(k))
    /\ Ids(lost) \cap (Num(h) \cup Num(k)) = {}
    /\ \/ Pkts(frame') = h /\ UNCHANGED out
       \/ /\ Pkts(frame') = << >>
          /\ out[d] = NoFrame
          /\ \E g : Pkts(g) = h /\ out' = [out EXCEPT ![d] = g]

LEMMA RegroupedNumbers ==
    ASSUME TxTypes, HeldIsNewest, AllNumbered,
           NEW d \in Devs, NEW new, NEW h, NEW k, NEW lost,
           Numbered(new), Regrouped(d, new, h, k, lost)
    PROVE  /\ Num(h) \cup Num(k) \cup Ids(lost)
                 = Num(Pkts(frame)) \cup Num(rem) \cup Num(new)
           /\ Below(Num(queued), Num(h) \cup Num(k) \cup Ids(lost))
           /\ \A e \in Devs :
                 Below(Num(Pkts(out[e])), Num(h) \cup Num(k) \cup Ids(lost))
<1>1. Num(h) \cup Num(k) \cup Ids(lost)
         = Num(Pkts(frame)) \cup Num(rem) \cup Num(new)
  <2>1. \A P, Q, R : Ids(P \cup Q \cup R) = Ids(P) \cup Ids(Q) \cup Ids(R)
    BY DEF Ids
  <2>2. Ids(ToSet(h) \cup ToSet(k) \cup lost)
           = Ids(ToSet(Pkts(frame)) \cup ToSet(rem) \cup ToSet(new))
    BY Zenon DEF Regrouped
  <2>3. QED
    BY <2>1, <2>2 DEF Num
<1>2. ASSUME NEW M, M \subseteq 1..taken, Below(M, Num(Pkts(frame)) \cup Num(rem))
      PROVE  Below(M, Num(Pkts(frame)) \cup Num(rem) \cup Num(new))
  <2>1. taken \in Nat
    BY NumbersTaken
  <2>2. \A m \in M, n \in Num(new) : m < n
    BY <1>2, <2>1 DEF Numbered
  <2>3. QED
    BY <1>2, <2>2 DEF Below
<1>3. /\ Num(queued) \subseteq 1..taken
      /\ \A e \in Devs : Num(Pkts(out[e])) \subseteq 1..taken
  BY NumbersTaken
<1>4. /\ Below(Num(queued), Num(Pkts(frame)) \cup Num(rem))
      /\ \A e \in Devs : Below(Num(Pkts(out[e])), Num(Pkts(frame)) \cup Num(rem))
  BY DEF HeldIsNewest
<1>5. /\ Below(Num(queued), Num(Pkts(frame)) \cup Num(rem) \cup Num(new))
      /\ \A e \in Devs : Below(Num(Pkts(out[e])),
                               Num(Pkts(frame)) \cup Num(rem) \cup Num(new))
  BY <1>2, <1>3, <1>4, Zenon
<1>6. QED
  BY <1>1, <1>5, Zenon

LEMMA PlacesRegrouped ==
    ASSUME TxTypes, NEW d \in Devs, NEW new, NEW h, NEW k, NEW lost,
           Regrouped(d, new, h, k, lost)
    PROVE  \/ Pkts(frame') = h /\ out' = out
           \/ /\ Pkts(frame') = << >> /\ out[d] = NoFrame /\ Pkts(out[d]) = << >>
              /\ Pkts(out'[d]) = h
              /\ \A e \in Devs \ {d} : out'[e] = out[e]
<1>1. CASE Pkts(frame') = h /\ UNCHANGED out
  BY <1>1
<1>2. ASSUME NEW g, Pkts(g) = h, out' = [out EXCEPT ![d] = g],
             Pkts(frame') = << >>, out[d] = NoFrame
      PROVE  /\ Pkts(out[d]) = << >>
             /\ Pkts(out'[d]) = h
             /\ \A e \in Devs \ {d} : out'[e] = out[e]
  <2>1. Pkts(out[d]) = << >>
    BY <1>2 DEF Pkts
  <2>2. out'[d] = g /\ \A e \in Devs \ {d} : out'[e] = out[e]
    BY <1>2 DEF TxTypes
  <2>3. QED
    BY <1>2, <2>1, <2>2
<1>3. QED
  BY <1>1, <1>2, Zenon DEF Regrouped

LEMMA NoPackets ==
    /\ ToSet(<< >>) = {} /\ Num(<< >>) = {} /\ Ascending(<< >>)
    /\ << >> \in Seq(Packets) /\ \A N : Below({}, N) /\ Below(N, {})
<1>1. DOMAIN << >> = {}
  OBVIOUS
<1>2. ToSet(<< >>) = {} /\ Ascending(<< >>)
  BY <1>1 DEF ToSet, Ascending
<1>3. Num(<< >>) = {}
  BY <1>2 DEF Num, Ids
<1>4. << >> \in Seq(Packets)
  BY EmptySeq
<1>5. QED
  BY <1>2, <1>3, <1>4 DEF Below

LEMMA HeldRegrouped ==
    ASSUME TxTypes, HeldIsNewest, AllNumbered, UNCHANGED queued,
           NEW d \in Devs, NEW new, NEW h, NEW k, NEW lost,
           Numbered(new), Regrouped(d, new, h, k, lost)
    PROVE  HeldIsNewest'
<1>. DEFINE H == Num(h)
            K == Num(k)
            O(e) == Num(Pkts(out[e]))
<1>1. rem' = k /\ Ascending(h) /\ Below(H, K)
  BY DEF Regrouped
<1>2. /\ Below(Num(queued), H \cup K)
      /\ \A e \in Devs : Below(O(e), H \cup K)
  BY RegroupedNumbers DEF Below
<1>3. \A e \in Devs : Ascending(Pkts(out[e]))
  BY DEF HeldIsNewest
<1>4. CASE Pkts(frame') = h /\ out' = out
  BY <1>1, <1>2, <1>3, <1>4 DEF HeldIsNewest
<1>5. CASE /\ Pkts(frame') = << >> /\ Pkts(out'[d]) = h
           /\ \A e \in Devs \ {d} : out'[e] = out[e]
  <2>1. /\ Ascending(Pkts(frame')) /\ Num(Pkts(frame')) = {}
        /\ Below(Num(Pkts(frame')), K)
    BY <1>5, NoPackets
  <2>2. Below(Num(queued), {} \cup K)
    BY <1>2 DEF Below
  <2>3. ASSUME NEW e \in Devs
        PROVE  Ascending(Pkts(out'[e])) /\ Below(Num(Pkts(out'[e])), {} \cup K)
    <3>1. CASE e = d
      BY <1>1, <1>5, <3>1 DEF Below
    <3>2. CASE e # d
      BY <1>2, <1>3, <1>5, <3>2 DEF Below
    <3>3. QED
      BY <3>1, <3>2
  <2>4. QED
    BY <1>1, <2>1, <2>2, <2>3 DEF HeldIsNewest
<1>6. QED
  BY <1>4, <1>5, PlacesRegrouped

LEMMA ApartRegrouped ==
    ASSUME TxTypes, HeldIsNewest, AllNumbered, Apart, UNCHANGED queued,
           NEW d \in Devs, NEW new, NEW h, NEW k, NEW lost,
           Numbered(new), Regrouped(d, new, h, k, lost)
    PROVE  Apart'
<1>0. /\ Num(h) \cup Num(k) \cup Ids(lost)
            = Num(Pkts(frame)) \cup Num(rem) \cup Num(new)
      /\ Below(Num(queued), Num(h) \cup Num(k) \cup Ids(lost))
      /\ \A e \in Devs :
            Below(Num(Pkts(out[e])), Num(h) \cup Num(k) \cup Ids(lost))
  BY RegroupedNumbers
<1>. DEFINE H == Num(h)
            K == Num(k)
            L == Ids(lost)
            Q == Num(queued)
            D == Ids(dropped)
            O(e) == Num(Pkts(out[e]))
<1>1. rem' = k /\ dropped' = dropped \cup lost /\ L \cap (H \cup K) = {}
  BY DEF Regrouped
<1>2. Ids(dropped \cup lost) = D \cup L
  BY NumbersOfPlaces
<1>3. H \cup K \cup L = Num(Pkts(frame)) \cup Num(rem) \cup Num(new)
  BY <1>0
<1>4. /\ Q \cap (H \cup K \cup L) = {}
      /\ \A e \in Devs : O(e) \cap (H \cup K \cup L) = {}
  <2>1. Q \subseteq Nat /\ \A e \in Devs : O(e) \subseteq Nat
    BY NumbersTaken
  <2>2. /\ Below(Q, H \cup K \cup L)
        /\ \A e \in Devs : Below(O(e), H \cup K \cup L)
    BY <1>0
  <2>. HIDE DEF H, K, L, Q, O
  <2>3. \A M, N : M \subseteq Nat /\ Below(M, N) => M \cap N = {}
    BY BelowParts
  <2>. DEFINE U == H \cup K \cup L
  <2>4. Below(Q, U) /\ \A e \in Devs : Below(O(e), U)
    BY <2>2
  <2>. HIDE DEF U
  <2>5. Q \cap U = {} /\ \A e \in Devs : O(e) \cap U = {}
    BY <2>1, <2>3, <2>4
  <2>6. QED
    BY <2>5 DEF U
<1>5. D \cap (H \cup K \cup L) = {}
  <2>1. D \cap Num(new) = {}
    BY NumbersTaken DEF Numbered
  <2>2. D \cap (Num(Pkts(frame)) \cup Num(rem)) = {}
    BY DEF Apart
  <2>3. QED
    BY <1>3, <2>1, <2>2
<1>6. /\ NoRepeat(queued)
      /\ \A e \in Devs : Q \cap O(e) = {} /\ D \cap O(e) = {}
      /\ \A e, c \in Devs : e # c => O(e) \cap O(c) = {}
      /\ D \cap Q = {}
  BY DEF Apart
<1>. HIDE DEF H, K, L, Q, D
<1>7. (D \cup L) \cap (Q \cup H \cup K) = {}
  BY <1>1, <1>4, <1>5, <1>6
<1>8. \A e \in Devs : (D \cup L) \cap O(e) = {}
  <2>. HIDE DEF O
  <2>1. QED
    BY <1>4, <1>6
<1>9. CASE Pkts(frame') = h /\ out' = out
  BY <1>1, <1>2, <1>6, <1>7, <1>8, <1>9 DEF Apart, H, K, Q
<1>10. CASE /\ Pkts(frame') = << >> /\ Pkts(out'[d]) = h
            /\ \A e \in Devs \ {d} : out'[e] = out[e]
  <2>1. Num(Pkts(frame')) = {}
    BY <1>10, NoPackets
  <2>2. (D \cup L) \cap (Q \cup {} \cup K) = {}
    BY <1>7
  <2>. DEFINE P(e) == Num(Pkts(out'[e]))
  <2>3. /\ P(d) = H
        /\ \A e \in Devs \ {d} : P(e) = O(e)
    BY <1>10 DEF H
  <2>. HIDE DEF P, O
  <2>4. \A e \in Devs : Q \cap P(e) = {} /\ (D \cup L) \cap P(e) = {}
    BY <1>4, <1>6, <1>7, <1>8, <2>3
  <2>5. \A e, c \in Devs : e # c => P(e) \cap P(c) = {}
    BY <1>4, <1>6, <2>3
  <2>6. QED
    BY <1>1, <1>2, <1>6, <2>1, <2>2, <2>4, <2>5 DEF Apart, P, K, Q
<1>11. QED
  BY <1>9, <1>10, PlacesRegrouped

LEMMA NumberedRegrouped ==
    ASSUME TxTypes, AllNumbered, UNCHANGED queued,
           NEW d \in Devs, NEW new, NEW h, NEW k, NEW lost,
           Numbered(new), Regrouped(d, new, h, k, lost)
    PROVE  Everywhere' = Everywhere \cup ToSet(new) /\ AllNumbered'
<1>. DEFINE H == ToSet(h)
            K == ToSet(k)
            N == ToSet(new)
            F == ToSet(Pkts(frame))
            R == ToSet(rem)
            Q == ToSet(queued)
            O == UNION {ToSet(Pkts(out[e])) : e \in Devs}
            P == UNION {ToSet(Pkts(out'[e])) : e \in Devs}
            X == ToSet(Pkts(frame'))
<1>1. /\ rem' = k /\ dropped' = dropped \cup lost
      /\ H \cup K \cup lost = F \cup R \cup N
  BY DEF Regrouped
<1>2. X \cup P = H \cup O
  <2>1. CASE Pkts(frame') = h /\ out' = out
    BY <2>1
  <2>2. CASE /\ Pkts(frame') = << >> /\ Pkts(out[d]) = << >> /\ Pkts(out'[d]) = h
             /\ \A e \in Devs \ {d} : out'[e] = out[e]
    <3>1. X = {} /\ ToSet(Pkts(out[d])) = {}
      BY <2>2, NoPackets
    <3>2. P = H \cup UNION {ToSet(Pkts(out'[e])) : e \in Devs \ {d}}
      BY <2>2
    <3>3. O = {} \cup UNION {ToSet(Pkts(out[e])) : e \in Devs \ {d}}
      BY <3>1
    <3>4. UNION {ToSet(Pkts(out'[e])) : e \in Devs \ {d}}
             = UNION {ToSet(Pkts(out[e])) : e \in Devs \ {d}}
      BY <2>2
    <3>. HIDE DEF X, P, O, H
    <3>5. QED
      BY <3>1, <3>2, <3>3, <3>4
  <2>3. QED
    BY <2>1, <2>2, PlacesRegrouped
<1>3. /\ Everywhere = dropped \cup Q \cup F \cup R \cup O
      /\ Everywhere' = dropped' \cup Q \cup X \cup ToSet(rem') \cup P
  BY DEF Everywhere
<1>. HIDE DEF H, K, N, F, R, Q, O, P, X
<1>4. Everywhere' = (dropped \cup lost) \cup Q \cup X \cup K \cup P
  BY <1>1, <1>3 DEF K
<1>5. Everywhere' = Everywhere \cup N
  BY <1>1, <1>2, <1>3, <1>4
<1>6. Ids(Everywhere \cup N) = Ids(Everywhere) \cup Ids(N)
  BY NumbersOfPlaces
<1>7. Ids(N) = (1..taken') \ (1..taken) /\ taken' \in Nat /\ taken <= taken'
  BY DEF Numbered, Num, N
<1>8. Ids(Everywhere') = 1..taken'
  <2>1. taken \in Nat
    BY NumbersTaken
  <2>2. (1..taken) \cup ((1..taken') \ (1..taken)) = 1..taken'
    BY <1>7, <2>1
  <2>3. QED
    BY <1>5, <1>6, <1>7, <2>2 DEF AllNumbered
<1>9. QED
  BY <1>5, <1>8 DEF AllNumbered, N

LEMMA OrderRegrouped ==
    ASSUME TxTypes, HeldIsNewest, AllNumbered, QueueInOrder, UNCHANGED queued,
           NEW d \in Devs, NEW new, NEW h, NEW k, NEW lost,
           Numbered(new), Regrouped(d, new, h, k, lost),
           \A p \in ToSet(new) : p.dev = d, new = << >> => d = Main
    PROVE  QueueInOrder'
<1>. SUFFICES ASSUME OneDevice'
              PROVE  /\ \A e \in Devs \ {Main} : out'[e] = NoFrame
                     /\ Ascending(queued)
                     /\ Below(Num(queued), Num(Pkts(out'[Main])))
  BY DEF QueueInOrder
<1>1. Everywhere' = Everywhere \cup ToSet(new)
  BY NumberedRegrouped
<1>2. OneDevice
  BY <1>1 DEF OneDevice
<1>3. /\ \A e \in Devs \ {Main} : out[e] = NoFrame
      /\ Ascending(queued) /\ Below(Num(queued), Num(Pkts(out[Main])))
  BY <1>2 DEF QueueInOrder
<1>4. d = Main
  <2>1. new \in Seq(Packets)
    BY DEF Numbered
  <2>2. new # << >> => ToSet(new) # {}
    BY <2>1, NumbersOfList
  <2>3. \A p \in ToSet(new) : p.dev = Main
    BY <1>1 DEF OneDevice
  <2>4. QED
    BY <2>2, <2>3
<1>5. Below(Num(queued), Num(h))
  BY RegroupedNumbers DEF Below
<1>6. CASE Pkts(frame') = h /\ out' = out
  BY <1>3, <1>6
<1>7. CASE Pkts(out'[d]) = h /\ \A e \in Devs \ {d} : out'[e] = out[e]
  <2>1. Below(Num(queued), Num(Pkts(out'[Main])))
    BY <1>4, <1>5, <1>7
  <2>2. \A e \in Devs \ {Main} : out'[e] = NoFrame
    BY <1>3, <1>4, <1>7
  <2>3. QED
    BY <1>3, <2>1, <2>2
<1>8. QED
  BY <1>6, <1>7, PlacesRegrouped

LEMMA PacketsRegrouped ==
    ASSUME TxTypes, PacketsInv, UNCHANGED queued,
           NEW d \in Devs, NEW new, NEW h, NEW k, NEW lost,
           Numbered(new), Regrouped(d, new, h, k, lost),
           \A p \in ToSet(new) : p.dev = d, new = << >> => d = Main
    PROVE  PacketsInv'
<1>1. HeldIsNewest'
  BY HeldRegrouped DEF PacketsInv
<1>2. Apart'
  BY ApartRegrouped DEF PacketsInv
<1>3. AllNumbered'
  BY NumberedRegrouped DEF PacketsInv
<1>4. QueueInOrder'
  BY OrderRegrouped DEF PacketsInv
<1>5. QED
  BY <1>1, <1>2, <1>3, <1>4 DEF PacketsInv

(* usbnet queues a frame. *)
LEMMA PacketsEnqueued ==
    ASSUME TxTypes, PacketsInv, NEW d \in Devs, Enqueue(d)
    PROVE  PacketsInv'
<1>. DEFINE S == Num(Pkts(out[d]))
            Q == Num(queued)
            O(e) == Num(Pkts(out[e]))
            P(e) == Num(Pkts(out'[e]))
<1>1. /\ queued' = queued \o Pkts(out[d]) /\ out' = [out EXCEPT ![d] = NoFrame]
      /\ UNCHANGED <<frame, rem, dropped, taken>>
  BY DEF Enqueue, Pkts
<1>2. /\ Pkts(out'[d]) = << >> /\ out'[d] = NoFrame
      /\ \A e \in Devs \ {d} : out'[e] = out[e]
  BY <1>1 DEF TxTypes, Pkts
<1>3. queued \in Seq(Packets) /\ \A e \in Devs : Pkts(out[e]) \in Seq(Packets)
  BY HeldTypes
<1>4. /\ Num(queued') = Q \cup S
      /\ ToSet(queued') = ToSet(queued) \cup ToSet(Pkts(out[d]))
  BY <1>1, <1>3, JoinedNumbers
<1>5. /\ P(d) = {} /\ ToSet(Pkts(out'[d])) = {} /\ Ascending(Pkts(out'[d]))
      /\ \A e \in Devs \ {d} : P(e) = O(e)
  BY <1>2, NoPackets
<1>6. HeldIsNewest'
  <2>1. HeldIsNewest
    BY DEF PacketsInv
  <2>2. \A e \in Devs : Ascending(Pkts(out'[e]))
    BY <1>2, <1>5, <2>1 DEF HeldIsNewest
  <2>3. \A e \in Devs : Below(P(e), Num(Pkts(frame)) \cup Num(rem))
    BY <1>5, <2>1 DEF HeldIsNewest, Below
  <2>4. Below(Q \cup S, Num(Pkts(frame)) \cup Num(rem))
    BY <2>1 DEF HeldIsNewest, Below
  <2>5. QED
    BY <1>1, <1>4, <2>1, <2>2, <2>3, <2>4 DEF HeldIsNewest
<1>7. Apart'
  <2>1. Apart /\ Ascending(Pkts(out[d]))
    BY DEF PacketsInv, HeldIsNewest
  <2>2. NoRepeat(queued')
    <3>1. NoRepeat(Pkts(out[d]))
      BY <1>3, <2>1, AscendingNoRepeat
    <3>2. NoRepeat(queued) /\ Q \cap S = {}
      BY <2>1 DEF Apart
    <3>3. NoRepeat(queued \o Pkts(out[d]))
      BY <1>3, <3>1, <3>2, JoinedNoRepeat
    <3>4. QED
      BY <1>1, <3>3, Zenon
  <2>3. /\ \A e \in Devs : Q \cap O(e) = {}
        /\ \A e, c \in Devs : e # c => O(e) \cap O(c) = {}
        /\ Ids(dropped) \cap (Q \cup Num(Pkts(frame)) \cup Num(rem)) = {}
        /\ \A e \in Devs : Ids(dropped) \cap O(e) = {}
        /\ S = O(d)
    BY <2>1 DEF Apart
  <2>. HIDE DEF Q, S, O, P
  <2>4. \A e \in Devs : (Q \cup S) \cap P(e) = {} /\ Ids(dropped) \cap P(e) = {}
    BY <1>5, <2>3
  <2>5. \A e, c \in Devs : e # c => P(e) \cap P(c) = {}
    BY <1>5, <2>3
  <2>6. Ids(dropped) \cap (Q \cup S \cup Num(Pkts(frame)) \cup Num(rem)) = {}
    BY <2>3
  <2>7. QED
    BY <1>1, <1>4, <2>2, <2>4, <2>5, <2>6 DEF Apart, P
<1>8. Everywhere' = Everywhere
  <2>1. UNION {ToSet(Pkts(out[e])) : e \in Devs}
           = ToSet(Pkts(out[d])) \cup UNION {ToSet(Pkts(out'[e])) : e \in Devs}
    BY <1>2, <1>5
  <2>2. QED
    BY <1>1, <1>4, <2>1 DEF Everywhere
<1>9. AllNumbered'
  BY <1>1, <1>8 DEF AllNumbered, PacketsInv
<1>10. QueueInOrder'
  <2>. SUFFICES ASSUME OneDevice
                PROVE  /\ \A e \in Devs \ {Main} : out'[e] = NoFrame
                       /\ Ascending(queued')
                       /\ Below(Num(queued'), P(Main))
    BY <1>8 DEF QueueInOrder, OneDevice
  <2>1. /\ \A e \in Devs \ {Main} : out[e] = NoFrame
        /\ Ascending(queued) /\ Below(Q, O(Main))
    BY DEF QueueInOrder, PacketsInv
  <2>2. d = Main
    BY <2>1 DEF Enqueue
  <2>3. Ascending(queued \o Pkts(out[d]))
    BY <1>3, <2>1, <2>2, JoinedAscending DEF PacketsInv, HeldIsNewest
  <2>4. QED
    BY <1>1, <1>2, <1>5, <2>1, <2>2, <2>3 DEF Below
<1>11. QED
  BY <1>6, <1>7, <1>9, <1>10 DEF PacketsInv

-----------------------------------------------------------------------------
(* Types, frames and packets in every step.                                *)
LEMMA AggregatedRegroups ==
    ASSUME NEW d \in Devs, NEW new, NEW g, NEW k, NEW lost,
           Aggregated(d, new, g, k, lost), out[d] = NoFrame
    PROVE  Regrouped(d, new, g.pkts, k, lost)
<1>1. g \in Frames /\ g.pkts \in Seq(Packets) /\ Pkts(g) = g.pkts
  BY FrameParts DEF Aggregated, Pkts
<1>2. \/ Pkts(frame') = g.pkts /\ UNCHANGED out
      \/ Pkts(frame') = << >> /\ out' = [out EXCEPT ![d] = g]
  BY <1>1 DEF Aggregated, Pkts
<1>3. /\ k \in Seq(Packets) /\ lost \subseteq Packets
      /\ rem' = k /\ dropped' = dropped \cup lost
      /\ ToSet(g.pkts) \cup ToSet(k) \cup lost
            = ToSet(Pkts(frame)) \cup ToSet(rem) \cup ToSet(new)
      /\ Ascending(g.pkts) /\ Below(Num(g.pkts), Num(k))
      /\ Ids(lost) \cap (Num(g.pkts) \cup Num(k)) = {}
  BY DEF Aggregated
<1>4. QED
  BY <1>1, <1>2, <1>3, Zenon DEF Regrouped

LEMMA AllocRegroups ==
    ASSUME TxTypes, NEW d \in Devs, NEW new, Numbered(new), AllocFails(new),
           Below(Num(rem), Num(new)), taken \in Nat
    PROVE  \E h, k, lost : /\ Regrouped(d, new, h, k, lost)
                           /\ Len(k) <= 1 /\ UNCHANGED <<frame, timer, out>>
<1>1. /\ rem \in Seq(Packets) /\ Len(rem) <= 1 /\ ToSet(rem) \subseteq Packets
      /\ new \in Seq(Packets) /\ Len(new) <= 1
      /\ Num(rem) \subseteq Nat
  BY NumbersOfList DEF TxTypes, Numbered
<1>2. /\ Pkts(frame) = << >> /\ UNCHANGED <<frame, timer, out>>
      /\ ToSet(Pkts(frame)) = {} /\ Num(<< >>) = {}
      /\ Ascending(<< >>) /\ << >> \in Seq(Packets) /\ ToSet(<< >>) = {}
  BY NoPackets DEF AllocFails, Pkts
<1>3. CASE new = << >>
  <2>1. rem' = rem /\ dropped' = dropped \cup {}
    BY <1>3 DEF AllocFails, CountDrops
  <2>2. Below(Num(<< >>), Num(rem)) /\ Ids({}) \cap (Num(<< >>) \cup Num(rem)) = {}
    BY <1>2 DEF Below, Ids
  <2>3. ToSet(new) = {}
    BY <1>2, <1>3
  <2>4. Regrouped(d, new, << >>, rem, {})
    BY <1>1, <1>2, <2>1, <2>2, <2>3 DEF Regrouped
  <2>5. QED
    BY <1>1, <1>2, <2>4
<1>4. CASE new # << >>
  <2>1. rem' = new /\ dropped' = dropped \cup ToSet(rem)
    BY <1>4 DEF AllocFails, CountDrops
  <2>2. Num(rem) \cap Num(new) = {}
    BY <1>1, BelowParts
  <2>3. /\ Below(Num(<< >>), Num(new))
        /\ Ids(ToSet(rem)) \cap (Num(<< >>) \cup Num(new)) = {}
    BY <1>2, <2>2 DEF Below, Num
  <2>4. Regrouped(d, new, << >>, new, ToSet(rem))
    BY <1>1, <1>2, <2>1, <2>3 DEF Regrouped
  <2>5. QED
    BY <1>1, <1>2, <2>4
<1>5. QED
  BY <1>3, <1>4

(* The variables that aggr_tx_frame assigns. *)
AggrTypes ==
    /\ frame \in Frames \cup {NoFrame}
    /\ rem \in Seq(Packets) /\ Len(rem) <= 1
    /\ timer \in [on : BOOLEAN, pending : Nat, runs : BOOLEAN, stop : BOOLEAN]
    /\ out \in [Devs -> Frames \cup {NoFrame}]
    /\ dropped \subseteq Packets

LEMMA TimerAggregated ==
    ASSUME TxTypes, NEW d, NEW new, Aggregate(d, new)
    PROVE  timer' \in [on : BOOLEAN, pending : Nat, runs : BOOLEAN, stop : BOOLEAN]
<1>1. ASSUME NEW g, Hold(g)
      PROVE  timer' \in [on : BOOLEAN, pending : Nat, runs : BOOLEAN, stop : BOOLEAN]
  <2>. DEFINE n == IF Len(g.pkts) < RestartBelow THEN PendingCnt ELSE timer.pending
              t == [timer EXCEPT !.pending = n]
  <2>1. n \in Nat
    BY AggrAssumption DEF TxTypes
  <2>. HIDE DEF n
  <2>2. t \in [on : BOOLEAN, pending : Nat, runs : BOOLEAN, stop : BOOLEAN]
    BY <2>1 DEF TxTypes
  <2>3. timer' = [t EXCEPT !.runs = @ \/ ~t.stop]
    BY <1>1 DEF Hold, TimeoutStart, n
  <2>. HIDE DEF t
  <2>4. QED
    BY <2>2, <2>3
<1>2. timer' = timer \/ \E g : Hold(g)
  BY DEF Aggregate, Send
<1>3. QED
  BY <1>1, <1>2 DEF TxTypes

LEMMA AggregateStep ==
    ASSUME TxTypes, FrameFits, PacketsInv, UNCHANGED queued,
           NEW d \in Devs, out[d] = NoFrame,
           NEW new, Numbered(new),
           \A p \in ToSet(new) : p.dev = d, new = << >> => d = Main,
           AllocFails(new) \/ Aggregate(d, new)
    PROVE  AggrTypes' /\ FrameFits' /\ PacketsInv'
<1>1. /\ Ascending(Pkts(frame) \o (rem \o new)) /\ Below(Num(rem), Num(new))
      /\ taken \in Nat /\ new \in Seq(Packets)
  BY NewAscends, NumbersTaken DEF PacketsInv, Numbered
<1>2. CASE AllocFails(new)
  <2>1. PICK h, k, lost : /\ Regrouped(d, new, h, k, lost)
                          /\ Len(k) <= 1 /\ UNCHANGED <<frame, timer, out>>
    BY <1>1, <1>2, AllocRegroups
  <2>2. PacketsInv'
    BY <2>1, PacketsRegrouped
  <2>3. AggrTypes'
    BY <2>1 DEF Regrouped, AggrTypes, TxTypes
  <2>4. FrameFits'
    BY <2>1 DEF FrameFits
  <2>5. QED
    BY <2>2, <2>3, <2>4
<1>3. CASE Aggregate(d, new)
  <2>1. PICK g, k, lost : Aggregated(d, new, g, k, lost)
    BY <1>1, <1>3, AggregateEffect
  <2>2. PacketsInv'
    BY <2>1, AggregatedRegroups, PacketsRegrouped
  <2>3. /\ g \in Frames /\ Fitting(g)
        /\ \/ frame' = g /\ UNCHANGED out
           \/ frame' = NoFrame /\ out' = [out EXCEPT ![d] = g]
        /\ rem' \in Seq(Packets) /\ Len(rem') <= 1
        /\ lost \subseteq Packets /\ dropped' = dropped \cup lost
    BY <2>1 DEF Aggregated
  <2>4. AggrTypes'
    <3>1. out' \in [Devs -> Frames \cup {NoFrame}] /\ frame' \in Frames \cup {NoFrame}
      BY <2>3 DEF TxTypes
    <3>2. dropped' \subseteq Packets
      BY <2>3 DEF TxTypes
    <3>3. QED
      BY <1>3, <2>3, <3>1, <3>2, TimerAggregated DEF AggrTypes
  <2>5. FrameFits'
    <3>1. /\ frame' = NoFrame \/ Fitting(frame')
      BY <2>3, FittingFrames
    <3>2. \A e \in Devs : out'[e] = NoFrame \/ Fitting(out'[e])
      BY <2>3, FittingFrames DEF TxTypes
    <3>3. \A f \in {frame'} \cup {out'[e] : e \in Devs} : f # NoFrame => Fitting(f)
      BY <3>1, <3>2
    <3>4. QED
      BY <3>3, Zenon DEF FrameFits, Fitting
  <2>6. QED
    BY <2>2, <2>4, <2>5
<1>4. QED
  BY <1>2, <1>3

(* The packet that the stack transmits, and the NULL packet of the tasklet.*)
LEMMA PacketTaken ==
    ASSUME TxTypes, AllNumbered, NEW d \in Devs, StartXmit(d)
    PROVE  /\ out[d] = NoFrame /\ ~timer.stop
           /\ taken' \in 0..MaxPackets /\ calm' \in BOOLEAN
           /\ UNCHANGED <<startVars, bh, queued>>
           /\ \E p \in Packets :
                 /\ p.dev = d /\ ToSet(<<p>>) = {p} /\ <<p>> # << >>
                 /\ Numbered(<<p>>)
                 /\ \/ AllocFails(<<p>>)
                    \/ /\ Aggregate(d, <<p>>)
                       /\ calm' = (calm /\ FitsAlways(p.len))
<1>1. PICK l \in Lens :
         LET p == [id |-> taken + 1, dev |-> d, len |-> l]
         IN  \/ AllocFails(<<p>>)
             \/ Aggregate(d, <<p>>) /\ calm' = (calm /\ FitsAlways(l))
  BY DEF StartXmit
<1>2. /\ out[d] = NoFrame /\ taken < MaxPackets /\ taken' = taken + 1
      /\ UNCHANGED <<startVars, bh, queued>> /\ ~timer.stop
  BY DEF StartXmit
<1>. DEFINE p == [id |-> taken + 1, dev |-> d, len |-> l]
<1>3. taken \in Nat /\ MaxPackets \in Nat
  BY AggrAssumption, NumbersTaken
<1>4. p \in Packets /\ p.id = taken + 1 /\ p.dev = d /\ p.len = l
  BY <1>2, <1>3 DEF Packets
<1>5. \/ AllocFails(<<p>>)
      \/ Aggregate(d, <<p>>) /\ calm' = (calm /\ FitsAlways(l))
  BY <1>1
<1>6. calm' \in BOOLEAN
  BY <1>1 DEF AllocFails, TxTypes, FitsAlways
<1>. HIDE DEF p
<1>7. /\ <<p>> \in Seq(Packets) /\ Len(<<p>>) = 1 /\ <<p>> # << >>
      /\ ToSet(<<p>>) = {p}
  BY <1>4 DEF ToSet
<1>8. Numbered(<<p>>)
  <2>1. Num(<<p>>) = {taken + 1}
    BY <1>4, <1>7 DEF Num, Ids
  <2>2. {taken + 1} = (1..taken') \ (1..taken)
    BY <1>2, <1>3
  <2>3. QED
    BY <1>2, <1>3, <1>7, <2>1, <2>2 DEF Numbered
<1>9. taken' \in 0..MaxPackets
  BY <1>2, <1>3
<1>10. QED
  BY <1>2, <1>4, <1>5, <1>6, <1>7, <1>8, <1>9

LEMMA NullTaken ==
    ASSUME TxTypes, AllNumbered, Flush
    PROVE  /\ out[Main] = NoFrame /\ Main \in Devs
           /\ UNCHANGED <<startVars, queued, taken>>
           /\ bh' = [bh EXCEPT !.flush = FALSE] /\ calm' \in BOOLEAN
           /\ Numbered(<< >>) /\ ToSet(<< >>) = {}
           /\ \/ AllocFails(<< >>)
              \/ Aggregate(Main, << >>) /\ UNCHANGED calm
<1>1. taken' = taken /\ taken \in Nat
  BY NumbersTaken DEF Flush
<1>2. /\ ToSet(<< >>) = {} /\ Num(<< >>) = {}
      /\ << >> \in Seq(Packets) /\ Len(<< >>) = 0
  BY NoPackets
<1>3. {} = (1..taken') \ (1..taken)
  BY <1>1
<1>4. Numbered(<< >>)
  BY <1>1, <1>2, <1>3 DEF Numbered
<1>5. calm' \in BOOLEAN
  BY DEF Flush, AllocFails, TxTypes
<1>6. QED
  BY <1>2, <1>4, <1>5, AggrAssumption DEF Flush

LEMMA XmitStep ==
    ASSUME TxTypes, FrameFits, PacketsInv, NEW d \in Devs, StartXmit(d)
    PROVE  TxTypes' /\ FrameFits' /\ PacketsInv'
<1>1. /\ out[d] = NoFrame
      /\ taken' \in 0..MaxPackets /\ calm' \in BOOLEAN
      /\ UNCHANGED <<startVars, bh, queued>>
  BY PacketTaken DEF PacketsInv
<1>2. PICK p \in Packets :
         /\ p.dev = d /\ ToSet(<<p>>) = {p} /\ <<p>> # << >>
         /\ Numbered(<<p>>)
         /\ AllocFails(<<p>>) \/ Aggregate(d, <<p>>)
  BY PacketTaken DEF PacketsInv
<1>3. (\A q \in ToSet(<<p>>) : q.dev = d) /\ (<<p>> = << >> => d = Main)
  BY <1>2
<1>4. UNCHANGED queued
  BY <1>1
<1>5. AggrTypes' /\ FrameFits' /\ PacketsInv'
  BY <1>1, <1>2, <1>3, <1>4, AggregateStep
<1>6. QED
  BY <1>1, <1>5 DEF TxTypes, AggrTypes, startVars

LEMMA FlushStep ==
    ASSUME TxTypes, FrameFits, PacketsInv, Flush
    PROVE  TxTypes' /\ FrameFits' /\ PacketsInv'
<1>1. /\ out[Main] = NoFrame /\ UNCHANGED <<startVars, queued, taken>>
      /\ bh' = [bh EXCEPT !.flush = FALSE] /\ Main \in Devs /\ calm' \in BOOLEAN
      /\ AllocFails(<< >>) \/ Aggregate(Main, << >>)
      /\ Numbered(<< >>) /\ ToSet(<< >>) = {}
  BY NullTaken DEF PacketsInv
<1>2. AggrTypes' /\ FrameFits' /\ PacketsInv'
  BY <1>1, AggregateStep
<1>3. bh' \in [scheduled : BOOLEAN, flush : BOOLEAN]
  BY <1>1 DEF TxTypes
<1>4. QED
  BY <1>1, <1>2, <1>3 DEF TxTypes, AggrTypes, startVars

LEMMA EnqueueStep ==
    ASSUME TxTypes, FrameFits, PacketsInv, NEW d \in Devs, Enqueue(d)
    PROVE  TxTypes' /\ FrameFits' /\ PacketsInv'
<1>1. /\ queued' = queued \o Pkts(out[d]) /\ out' = [out EXCEPT ![d] = NoFrame]
      /\ UNCHANGED <<startVars, frame, rem, timer, bh, dropped, taken, calm>>
  BY DEF Enqueue, Pkts
<1>2. queued' \in Seq(Packets)
  BY <1>1, HeldTypes, JoinedParts
<1>3. out' \in [Devs -> Frames \cup {NoFrame}]
  BY <1>1 DEF TxTypes
<1>4. TxTypes'
  BY <1>1, <1>2, <1>3 DEF TxTypes, startVars
<1>5. FrameFits'
  <2>1. \A e \in Devs : out'[e] = NoFrame \/ out'[e] = out[e]
    BY <1>1 DEF TxTypes
  <2>2. \A f \in {frame'} \cup {out'[e] : e \in Devs} : f # NoFrame => Fitting(f)
    BY <1>1, <2>1, FittingFrames
  <2>3. QED
    BY <2>2, Zenon DEF FrameFits, Fitting
<1>6. QED
  BY <1>4, <1>5, PacketsEnqueued

(* The steps that move no packet. *)
LEMMA QuietTypes ==
    ASSUME TxTypes, \/ TimerCb \/ TxpathBh \/ Negotiate \/ TimerStore \/ Unbind
                    \/ UNCHANGED txVars
    PROVE  TxTypes' /\ UNCHANGED <<frame, rem, out, queued, dropped, taken, calm>>
<1>1. CASE TimerCb
  BY <1>1 DEF TimerCb, TxTypes, startVars
<1>2. CASE TxpathBh
  <2>1. CASE ~LastCount
    <3>. DEFINE t == [timer EXCEPT !.pending = @ - 1]
    <3>1. t \in [on : BOOLEAN, pending : Nat, runs : BOOLEAN, stop : BOOLEAN]
      BY <2>1 DEF LastCount, TxTypes
    <3>2. /\ timer' = [t EXCEPT !.runs = @ \/ ~t.stop]
          /\ bh' = [bh EXCEPT !.scheduled = FALSE]
      BY <1>2, <2>1 DEF TxpathBh, CountDown, TimeoutStart
    <3>. HIDE DEF t
    <3>3. timer' \in [on : BOOLEAN, pending : Nat, runs : BOOLEAN, stop : BOOLEAN]
      BY <3>1, <3>2
    <3>4. QED
      BY <1>2, <3>2, <3>3 DEF TxpathBh, TxTypes, startVars
  <2>2. CASE LastCount
    <3>1. /\ UNCHANGED timer /\ bh' = [scheduled |-> FALSE, flush |-> TRUE]
          /\ UNCHANGED <<startVars, frame, rem, out, queued, dropped, taken, calm>>
      BY <1>2, <2>2 DEF TxpathBh
    <3>2. bh' \in [scheduled : BOOLEAN, flush : BOOLEAN]
      BY <3>1
    <3>3. QED
      BY <3>1, <3>2 DEF TxTypes, startVars
  <2>3. QED
    BY <2>1, <2>2
<1>3. CASE Negotiate
  <2>1. phase' \in Phases
    BY <1>3 DEF Negotiate, Phases
  <2>2. /\ limit.inForce \in (Nat \ {0}) \X (Nat \ {0})
        /\ limit.answer \in (Nat \ {0}) \X (Nat \ {0})
    BY AggrAssumption DEF TxTypes
  <2>3. limit' \in [inForce : (Nat \ {0}) \X (Nat \ {0}), answer : Negotiated]
    BY <1>3, <2>2 DEF Negotiate, TxTypes
  <2>4. QED
    BY <1>3, <2>1, <2>3 DEF Negotiate, TxTypes
<1>4. CASE TimerStore
  BY <1>4 DEF TimerStore, TxTypes, startVars
<1>5. CASE Unbind
  BY <1>5 DEF Unbind, TxTypes, startVars
<1>6. CASE UNCHANGED txVars
  BY <1>6 DEF txVars, TxTypes, startVars
<1>7. QED
  BY <1>1, <1>2, <1>3, <1>4, <1>5, <1>6

LEMMA QuietStep ==
    ASSUME TxTypes, FrameFits, PacketsInv,
           \/ TimerCb \/ TxpathBh \/ Negotiate \/ TimerStore \/ Unbind
           \/ UNCHANGED txVars
    PROVE  TxTypes' /\ FrameFits' /\ PacketsInv'
<1>1. TxTypes' /\ UNCHANGED <<frame, rem, out, queued, dropped, taken, calm>>
  BY QuietTypes
<1>2. FrameFits'
  BY <1>1 DEF FrameFits
<1>3. Everywhere' = Everywhere
  BY <1>1 DEF Everywhere
<1>4. PacketsInv'
  BY <1>1, <1>3 DEF PacketsInv, HeldIsNewest, Apart, AllNumbered, QueueInOrder, OneDevice
<1>5. QED
  BY <1>1, <1>2, <1>4

LEMMA TxStep ==
    ASSUME FramesInv, PacketsInv, [TxNext]_txVars
    PROVE  FramesInv' /\ PacketsInv'
<1>1. TxTypes' /\ FrameFits' /\ PacketsInv'
  BY XmitStep, FlushStep, EnqueueStep, QuietStep DEF FramesInv, TxNext
<1>2. QED
  BY <1>1 DEF FramesInv

LEMMA TxStart ==
    ASSUME TxInit
    PROVE  TxInv
<1>1. /\ << >> \in Seq(Packets) /\ Len(<< >>) = 0 /\ 0 \in 0..MaxPackets
      /\ PendingCnt \in Nat /\ Probed \in (Nat \ {0}) \X (Nat \ {0})
  BY AggrAssumption, NoPackets
<1>2. TxTypes
  BY <1>1 DEF TxInit, TxTypes, Phases
<1>3. /\ Pkts(frame) = << >> /\ rem = << >> /\ queued = << >> /\ dropped = {}
      /\ frame = NoFrame /\ taken = 0
      /\ \A d \in Devs : out[d] = NoFrame /\ Pkts(out[d]) = << >>
  BY DEF TxInit, Pkts
<1>4. FrameFits
  BY <1>3 DEF FrameFits
<1>5. Num(<< >>) = {} /\ ToSet(<< >>) = {} /\ Ascending(<< >>) /\ Ids({}) = {}
  BY NoPackets DEF Ids
<1>6. HeldIsNewest
  BY <1>3, <1>5 DEF HeldIsNewest, Below
<1>7. Apart
  BY <1>3, <1>5 DEF Apart, NoRepeat
<1>8. AllNumbered
  <2>1. Everywhere = {}
    BY <1>3, <1>5 DEF Everywhere
  <2>2. QED
    BY <1>3, <1>5, <2>1 DEF AllNumbered
<1>9. QueueInOrder
  BY <1>3, <1>5 DEF QueueInOrder, Below
<1>10. RoomForHeld
  <2>1. MaxSize \in Sizes
    BY DEF TxInit, MaxSize, Sizes
  <2>2. QED
    BY <1>3, <1>5, <2>1 DEF RoomForHeld
<1>11. HeldHasTimer
  <2>1. Held = << >>
    BY <1>3 DEF Held
  <2>2. QED
    BY <2>1 DEF HeldHasTimer
<1>12. QED
  BY <1>2, <1>4, <1>6, <1>7, <1>8, <1>9, <1>10, <1>11 DEF TxInv, FramesInv, PacketsInv

-----------------------------------------------------------------------------
(* Packets that fit never stay behind without a timer.                     *)
LEMMA HeldEmpty ==
    ASSUME NEW s \in Seq(Packets), NEW t \in Seq(Packets)
    PROVE  s \o t = << >> <=> s = << >> /\ t = << >>
<1>1. /\ s \o t \in Seq(Packets) /\ Len(s \o t) = Len(s) + Len(t)
      /\ Len(s) \in Nat /\ Len(t) \in Nat
  BY JoinedParts, NumbersOfList
<1>2. \A u \in Seq(Packets) : u = << >> <=> Len(u) = 0
  BY EmptySeq, LenProperties
<1>. PICK u : u = s \o t
  OBVIOUS
<1>3. u = << >> <=> Len(u) = 0
  BY <1>1, <1>2
<1>4. Len(u) = 0 <=> Len(s) = 0 /\ Len(t) = 0
  BY <1>1
<1>5. QED
  BY <1>2, <1>3, <1>4

(* An empty frame has room for whatever fits always. *)
LEMMA EmptyHasRoom ==
    ASSUME NEW f \in Frames, Fitting(f), f.pkts = << >>, f.size \in Sizes,
           NEW p \in Packets, FitsAlways(p.len), TxTypes
    PROVE  Fits(f, p)
<1>1. MaxDatagrams \in Nat \ {0}
  BY DEF TxTypes, MaxDatagrams
<1>2. f.room = f.size
  <2>1. f.ends = << >>
    <3>1. f.ends \in Seq(Nat) /\ DOMAIN f.ends = {}
      BY FrameParts DEF Fitting
    <3>2. DOMAIN f.ends = 1..Len(f.ends) /\ Len(f.ends) \in Nat
      BY <3>1, LenProperties
    <3>3. Len(f.ends) = 0
      <4>1. Len(f.ends) # 0 => 1 \in DOMAIN f.ends
        BY <3>2
      <4>2. QED
        BY <3>1, <4>1
    <3>4. QED
      BY <3>1, <3>3, EmptySeq
  <2>2. f.room \in Int /\ f.size \in Nat
    BY FrameParts
  <2>3. Filled(f) = 0
    BY <2>1 DEF Filled
  <2>4. QED
    BY <2>2, <2>3 DEF Fitting
<1>3. p.len <= f.size
  <2>1. PICK m \in {Probed} \cup Negotiated : f.size = m[1]
    BY DEF Sizes
  <2>2. QED
    BY <2>1 DEF FitsAlways
<1>4. Len(f.pkts) = 0
  OBVIOUS
<1>5. QED
  BY <1>1, <1>2, <1>3, <1>4 DEF Fits

LEMMA CurrFrameSized ==
    ASSUME TxTypes, FrameFits, RoomForHeld
    PROVE  CurrFrame.size \in Sizes
BY CurrFrameParts DEF RoomForHeld

(* The loop on packets that fit always: it puts one if there is one and    *)
(* the frame is empty. *)
LEMMA CalmLoop ==
    ASSUME TxTypes, FrameFits, RoomForHeld,
           NEW new \in Seq(Packets), Len(new) <= 1,
           \A p \in ToSet(rem) \cup ToSet(new) : FitsAlways(p.len),
           NEW loop, loop = Put(CurrFrame, Todo(new))
    PROVE  /\ loop.frame.pkts = << >> => loop.rest = << >>
           /\ Pkts(frame) = << >> /\ Len(rem \o new) <= 1 => loop.rest = << >>
           /\ new = << >> => loop.rest = << >>
<1>. DEFINE todo == rem \o new
<1>1. /\ rem \in Seq(Packets) /\ Len(rem) <= 1 /\ Len(rem) \in Nat
      /\ todo \in Seq(Packets) /\ Len(todo) = Len(rem) + Len(new)
      /\ ToSet(todo) = ToSet(rem) \cup ToSet(new)
      /\ Len(new) \in Nat
  BY JoinedParts, JoinedNumbers, NumbersOfList DEF TxTypes
<1>2. /\ CurrFrame \in Frames /\ Fitting(CurrFrame)
      /\ CurrFrame.pkts = Pkts(frame) /\ CurrFrame.size \in Sizes
  BY CurrFrameParts, CurrFrameSized
<1>3. todo # << >> => Head(todo) \in Packets /\ Head(todo) \in ToSet(todo)
  <2>. HIDE DEF todo
  <2>1. QED
    BY <1>1, HeadThenTail, NumbersOfList
<1>4. todo # << >> /\ Pkts(frame) = << >> => Fits(CurrFrame, Head(todo))
  <2>. HIDE DEF todo
  <2>1. ASSUME todo # << >>, Pkts(frame) = << >>
        PROVE  Fits(CurrFrame, Head(todo))
    <3>1. Head(todo) \in Packets /\ FitsAlways(Head(todo).len)
      BY <1>1, <1>3, <2>1
    <3>2. CurrFrame.pkts = << >>
      BY <1>2, <2>1
    <3>3. QED
      BY <1>2, <3>1, <3>2, EmptyHasRoom
  <2>2. QED
    BY <2>1
<1>5. /\ CurrFrame.pkts # << >> => loop.frame.pkts # << >>
      /\ todo = << >> => loop.rest = << >>
      /\ todo # << >> /\ Fits(CurrFrame, Head(todo))
            => loop.frame.pkts # << >> /\ Len(loop.rest) < Len(todo)
      /\ Rounds(loop)
  <2>1. loop = Put(CurrFrame, todo)
    BY DEF Todo
  <2>. HIDE DEF todo
  <2>2. QED
    BY <1>1, <1>2, <2>1, LoopDone
<1>6. Len(loop.rest) < 1 => loop.rest = << >>
  BY <1>5, EmptySeq, LenProperties DEF Rounds
<1>7. loop.rest \in Seq(Packets) /\ Len(loop.rest) \in Nat /\ Len(todo) \in Nat
  BY <1>1, <1>5, LenProperties DEF Rounds
<1>. HIDE DEF todo
<1>8. loop.frame.pkts = << >> => loop.rest = << >>
  BY <1>2, <1>4, <1>5
<1>9. Pkts(frame) = << >> /\ Len(todo) <= 1 => loop.rest = << >>
  BY <1>4, <1>5, <1>6, <1>7
<1>10. new = << >> => loop.rest = << >>
  <2>1. ASSUME new = << >> PROVE loop.rest = << >>
    <3>1. Len(new) = 0 /\ Len(todo) <= 1
      BY <1>1, <2>1
    <3>2. CASE Pkts(frame) = << >>
      BY <1>9, <3>1, <3>2
    <3>3. CASE rem = << >>
      <4>1. todo = << >>
        BY <1>1, <3>1, <3>3, EmptySeq
      <4>2. QED
        BY <1>5, <4>1
    <3>4. QED
      BY <3>2, <3>3 DEF RoomForHeld
  <2>2. QED
    BY <2>1
<1>11. QED
  BY <1>8, <1>9, <1>10 DEF todo

(* What a call of aggr_tx_frame makes of the frame, the remainder and the  *)
(* timer; when everything fits always, what is held has a timer.          *)
LEMMA AggregateRoom ==
    ASSUME TxTypes, FrameFits, RoomForHeld, NEW d \in Devs, NEW new,
           new \in Seq(Packets), Len(new) <= 1, Aggregate(d, new)
    PROVE  /\ frame' # NoFrame => frame'.size \in Sizes
           /\ Pkts(frame') = << >> \/ rem' = << >>
           /\ (\A p \in ToSet(rem) \cup ToSet(new) : FitsAlways(p.len))
                 => \/ Held' = << >>
                    \/ /\ new # << >> /\ timer'.stop = timer.stop
                       /\ timer'.runs = (timer.runs \/ ~timer.stop)
                    \/ new # << >> /\ Held # << >> /\ UNCHANGED timer
<1>. DEFINE loop   == Put(CurrFrame, Todo(new))
            g      == loop.frame
            rest   == loop.rest
            misfit == rest # << >> /\ Len(g.pkts) < MaxDatagrams
<1>1. /\ rem' = Kept(rest, misfit)
      /\ \/ /\ g.pkts = << >> /\ frame' = g
         \/ /\ g.pkts # << >> /\ Len(g.pkts) < MaxDatagrams /\ ~misfit
            /\ new # << >> /\ Hold(g)
         \/ Send(d, g)
  BY DEF Aggregate, CurrFrame
<1>2. /\ rem \in Seq(Packets) /\ rem \o new \in Seq(Packets)
      /\ Pkts(frame) \in Seq(Packets)
  BY HeldTypes, JoinedParts
<1>3. /\ CurrFrame \in Frames /\ Fitting(CurrFrame)
      /\ CurrFrame.size \in Sizes
  BY CurrFrameParts, CurrFrameSized
<1>4. Rounds(loop) /\ g.size = CurrFrame.size
  <2>1. loop = Put(CurrFrame, rem \o new)
    BY DEF Todo
  <2>. HIDE DEF loop
  <2>2. QED
    BY <1>2, <1>3, <2>1, LoopDone
<1>5. ASSUME \A p \in ToSet(rem) \cup ToSet(new) : FitsAlways(p.len)
      PROVE  /\ g.pkts = << >> => rest = << >>
             /\ Pkts(frame) = << >> /\ Len(rem \o new) <= 1 => rest = << >>
             /\ new = << >> => rest = << >>
  <2>. PICK u : u = loop
    OBVIOUS
  <2>. HIDE DEF loop
  <2>1. QED
    BY <1>5, CalmLoop DEF loop
<1>. HIDE DEF loop
<1>6. g \in Frames /\ g # NoFrame /\ Pkts(g) = g.pkts /\ rest \in Seq(Packets)
  BY <1>4, FrameParts DEF Rounds, Pkts
<1>7. rest = << >> => rem' = << >>
  BY <1>1 DEF Kept
<1>8. frame' # NoFrame => frame'.size \in Sizes
  BY <1>1, <1>3, <1>4 DEF Hold, Send
<1>. HIDE DEF g
<1>9. CASE g.pkts = << >> /\ frame' = g
  <2>1. (\A p \in ToSet(rem) \cup ToSet(new) : FitsAlways(p.len)) => rem' = << >>
    BY <1>5, <1>7, <1>9
  <2>2. rem' = << >> => Held' = << >>
    BY <1>6, <1>9, NoPackets, HeldEmpty DEF Held
  <2>3. Pkts(frame') = << >>
    BY <1>6, <1>9
  <2>4. QED
    BY <1>8, <2>1, <2>2, <2>3
<1>10. CASE /\ g.pkts # << >> /\ Len(g.pkts) < MaxDatagrams /\ ~misfit
            /\ new # << >> /\ Hold(g)
  <2>1. rem' = << >>
    BY <1>7, <1>10
  <2>2. timer'.stop = timer.stop /\ timer'.runs = (timer.runs \/ ~timer.stop)
    <3>. DEFINE n == IF Len(g.pkts) < RestartBelow THEN PendingCnt ELSE timer.pending
                t == [timer EXCEPT !.pending = n]
    <3>. HIDE DEF n
    <3>1. timer' = [t EXCEPT !.runs = @ \/ ~t.stop]
      BY <1>10 DEF Hold, TimeoutStart, n
    <3>2. /\ t.stop = timer.stop /\ t.runs = timer.runs
          /\ DOMAIN t = {"on", "pending", "runs", "stop"}
      BY DEF TxTypes
    <3>. HIDE DEF t
    <3>3. QED
      BY <3>1, <3>2
  <2>3. QED
    BY <1>8, <1>10, <2>1, <2>2
<1>11. CASE Send(d, g)
  <2>1. Pkts(frame') = << >> /\ UNCHANGED timer
    BY <1>11 DEF Send, Pkts
  <2>2. ASSUME \A p \in ToSet(rem) \cup ToSet(new) : FitsAlways(p.len)
        PROVE  Held' = << >> \/ (new # << >> /\ Held # << >>)
    <3>1. rest = << >> => Held' = << >>
      BY <1>7, <2>1, NoPackets, HeldEmpty DEF Held
    <3>2. new = << >> => rest = << >>
      BY <1>5, <2>2
    <3>3. Held = << >> => rest = << >>
      <4>1. ASSUME Held = << >> PROVE rest = << >>
        <5>1. Pkts(frame) = << >> /\ rem = << >>
          BY <1>2, <4>1, HeldEmpty DEF Held
        <5>2. Len(rem \o new) = Len(new)
          BY <5>1, <1>2, JoinedParts, NumbersOfList
        <5>3. QED
          BY <1>5, <2>2, <5>1, <5>2
      <4>2. QED
        BY <4>1
    <3>4. QED
      BY <3>1, <3>2, <3>3
  <2>3. QED
    BY <1>8, <2>1, <2>2
<1>12. QED
  BY <1>1, <1>9, <1>10, <1>11

LEMMA RoomAggregated ==
    ASSUME TxTypes, FrameFits, PacketsInv, RoomForHeld, UNCHANGED limit,
           NEW d \in Devs, out[d] = NoFrame, NEW new, Numbered(new),
           \/ AllocFails(new)
           \/ /\ Aggregate(d, new)
              /\ calm' => calm /\ \A p \in ToSet(new) : FitsAlways(p.len)
    PROVE  RoomForHeld'
<1>1. MaxSize' \in Sizes /\ Sizes' = Sizes
  BY DEF RoomForHeld, MaxSize, Sizes
<1>2. CASE AllocFails(new)
  BY <1>1, <1>2 DEF RoomForHeld, AllocFails, Pkts
<1>3. CASE /\ Aggregate(d, new)
           /\ calm' => calm /\ \A p \in ToSet(new) : FitsAlways(p.len)
  <2>1. new \in Seq(Packets) /\ Len(new) <= 1
    BY DEF Numbered
  <2>2. /\ frame' # NoFrame => frame'.size \in Sizes
        /\ Pkts(frame') = << >> \/ rem' = << >>
    BY <1>3, <2>1, AggregateRoom
  <2>3. PICK g, k, lost : Aggregated(d, new, g, k, lost)
    BY <1>3, <2>1, NewAscends, AggregateEffect DEF PacketsInv
  <2>4. /\ ToSet(g.pkts) \cup ToSet(rem')
              \subseteq ToSet(Pkts(frame)) \cup ToSet(rem) \cup ToSet(new)
        /\ frame' = g \/ frame' = NoFrame
        /\ g # NoFrame
    BY <2>3, FrameParts DEF Aggregated
  <2>5. ToSet(Pkts(frame')) \cup ToSet(rem')
           \subseteq ToSet(Pkts(frame)) \cup ToSet(rem) \cup ToSet(new)
    <3>1. CASE frame' = g
      BY <2>4, <3>1 DEF Pkts
    <3>2. CASE frame' = NoFrame
      BY <2>4, <3>2, NoPackets DEF Pkts
    <3>3. QED
      BY <2>4, <3>1, <3>2
  <2>6. calm => \A p \in ToSet(Pkts(frame)) \cup ToSet(rem) : FitsAlways(p.len)
    BY DEF RoomForHeld
  <2>7. calm' => \A p \in ToSet(Pkts(frame')) \cup ToSet(rem') : FitsAlways(p.len)
    BY <1>3, <2>5, <2>6
  <2>8. QED
    BY <1>1, <2>2, <2>7 DEF RoomForHeld
<1>4. QED
  BY <1>2, <1>3

LEMMA RoomStep ==
    ASSUME TxTypes, FrameFits, PacketsInv, RoomForHeld, [TxNext]_txVars
    PROVE  RoomForHeld'
<1>. USE DEF PacketsInv
<1>1. ASSUME NEW d \in Devs, StartXmit(d) PROVE RoomForHeld'
  <2>1. UNCHANGED limit /\ out[d] = NoFrame
    BY <1>1, PacketTaken DEF startVars
  <2>2. PICK p \in Packets :
           /\ ToSet(<<p>>) = {p} /\ Numbered(<<p>>)
           /\ \/ AllocFails(<<p>>)
              \/ Aggregate(d, <<p>>) /\ calm' = (calm /\ FitsAlways(p.len))
    BY <1>1, PacketTaken
  <2>3. \/ AllocFails(<<p>>)
        \/ /\ Aggregate(d, <<p>>)
           /\ calm' => calm /\ \A q \in ToSet(<<p>>) : FitsAlways(q.len)
    BY <2>2
  <2>4. QED
    BY <2>1, <2>2, <2>3, RoomAggregated
<1>2. CASE Flush
  <2>1. /\ UNCHANGED limit /\ out[Main] = NoFrame /\ Main \in Devs
        /\ Numbered(<< >>)
        /\ \/ AllocFails(<< >>)
           \/ /\ Aggregate(Main, << >>)
              /\ calm' => calm /\ \A q \in ToSet(<< >>) : FitsAlways(q.len)
    BY <1>2, NullTaken DEF startVars
  <2>2. QED
    BY <2>1, RoomAggregated
<1>3. CASE Negotiate
  <2>1. MaxSize' \in Sizes
    <3>1. MaxSize' = MaxSize \/ MaxSize' = limit.answer[1]
      BY <1>3 DEF Negotiate, MaxSize, TxTypes
    <3>2. limit.answer[1] \in Sizes
      BY DEF TxTypes, Sizes
    <3>3. QED
      BY <3>1, <3>2 DEF RoomForHeld
  <2>2. UNCHANGED <<frame, rem, calm>>
    BY <1>3 DEF Negotiate
  <2>3. QED
    BY <2>1, <2>2 DEF RoomForHeld, Sizes
<1>4. ASSUME UNCHANGED <<limit, frame, rem, calm>> PROVE RoomForHeld'
  BY <1>4 DEF RoomForHeld, MaxSize
<1>5. ASSUME NEW d \in Devs, Enqueue(d) PROVE RoomForHeld'
  BY <1>4, <1>5 DEF Enqueue, startVars
<1>6. CASE TimerCb \/ TxpathBh
  BY <1>4, <1>6 DEF TimerCb, TxpathBh, startVars
<1>7. CASE TimerStore \/ Unbind \/ UNCHANGED txVars
  BY <1>4, <1>7 DEF TimerStore, Unbind, txVars, startVars
<1>8. QED
  BY <1>1, <1>2, <1>3, <1>5, <1>6, <1>7 DEF TxNext

(* What is held after a step has its timer. *)
LEMMA TimerStep ==
    ASSUME TxTypes, FrameFits, PacketsInv, RoomForHeld, HeldHasTimer,
           [TxNext]_txVars
    PROVE  HeldHasTimer'
<1>. USE DEF PacketsInv
<1>1. ASSUME NEW d \in Devs, StartXmit(d) PROVE HeldHasTimer'
  <2>. SUFFICES ASSUME calm', ~timer'.stop, Held' # << >>
                PROVE  timer'.runs \/ bh'.scheduled \/ bh'.flush
    BY DEF HeldHasTimer
  <2>1. UNCHANGED bh /\ ~timer.stop
    BY <1>1, PacketTaken
  <2>2. PICK p \in Packets :
           /\ ToSet(<<p>>) = {p} /\ Numbered(<<p>>)
           /\ \/ AllocFails(<<p>>)
              \/ Aggregate(d, <<p>>) /\ calm' = (calm /\ FitsAlways(p.len))
    BY <1>1, PacketTaken
  <2>3. Aggregate(d, <<p>>) /\ calm /\ FitsAlways(p.len)
    BY <2>2 DEF AllocFails
  <2>4. \A q \in ToSet(rem) \cup ToSet(<<p>>) : FitsAlways(q.len)
    BY <2>2, <2>3 DEF RoomForHeld
  <2>5. <<p>> \in Seq(Packets) /\ Len(<<p>>) <= 1
    BY <2>2 DEF Numbered
  <2>6. \/ Held' = << >>
        \/ timer'.runs = (timer.runs \/ ~timer.stop)
        \/ Held # << >> /\ UNCHANGED timer
    BY <2>3, <2>4, <2>5, AggregateRoom
  <2>7. QED
    BY <2>1, <2>3, <2>6 DEF HeldHasTimer
<1>2. CASE Flush
  <2>. SUFFICES ASSUME calm' PROVE Held' = << >>
    BY DEF HeldHasTimer
  <2>1. Aggregate(Main, << >>) /\ calm /\ Main \in Devs
    BY <1>2, NullTaken DEF AllocFails
  <2>2. ToSet(<< >>) = {} /\ << >> \in Seq(Packets) /\ Len(<< >>) <= 1
    BY NoPackets
  <2>3. \A q \in ToSet(rem) \cup ToSet(<< >>) : FitsAlways(q.len)
    BY <2>1, <2>2 DEF RoomForHeld
  <2>4. QED
    BY <2>1, <2>2, <2>3, AggregateRoom
<1>3. CASE TimerCb
  <2>1. /\ UNCHANGED <<frame, rem, calm>> /\ timer'.stop = timer.stop
        /\ bh'.scheduled = (bh.scheduled \/ ~timer.stop)
    BY <1>3 DEF TimerCb, TxTypes
  <2>2. QED
    BY <2>1 DEF HeldHasTimer, Held
<1>4. CASE TxpathBh
  <2>1. CASE ~LastCount
    <3>1. timer' = TimeoutStart([timer EXCEPT !.pending = @ - 1])
      BY <1>4, <2>1 DEF TxpathBh, CountDown
    <3>2. timer'.runs = (timer.runs \/ ~timer.stop) /\ timer'.stop = timer.stop
      BY <3>1 DEF TimeoutStart, TxTypes
    <3>3. QED
      BY <3>2 DEF HeldHasTimer
  <2>2. CASE LastCount
    BY <1>4, <2>2 DEF TxpathBh, HeldHasTimer
  <2>3. QED
    BY <2>1, <2>2
<1>5. ASSUME UNCHANGED <<frame, rem, calm, bh>>, UNCHANGED timer \/ timer'.stop
      PROVE  HeldHasTimer'
  BY <1>5 DEF HeldHasTimer, Held
<1>6. CASE TimerStore
  <2>1. /\ UNCHANGED <<frame, rem, calm, bh>>
        /\ timer'.runs = timer.runs /\ timer'.stop = timer.stop
    BY <1>6 DEF TimerStore, TxTypes
  <2>2. QED
    BY <2>1 DEF HeldHasTimer, Held
<1>7. CASE Unbind
  <2>1. UNCHANGED <<frame, rem, calm, bh>> /\ timer'.stop
    BY <1>7 DEF Unbind, TxTypes
  <2>2. QED
    BY <1>5, <2>1
<1>8. ASSUME NEW d \in Devs, Enqueue(d) PROVE HeldHasTimer'
  BY <1>5, <1>8 DEF Enqueue
<1>9. CASE Negotiate \/ UNCHANGED txVars
  BY <1>5, <1>9 DEF Negotiate, txVars
<1>10. QED
  BY <1>1, <1>2, <1>3, <1>4, <1>6, <1>7, <1>8, <1>9 DEF TxNext

-----------------------------------------------------------------------------
(* What the invariants of the runs say follows.                            *)
LEMMA LineParts ==
    ASSUME TxTypes, NEW d \in Devs
    PROVE  /\ Line(d) = (queued \o Pkts(out[d])) \o Held
           /\ queued \o Pkts(out[d]) \in Seq(Packets) /\ Held \in Seq(Packets)
           /\ Num(queued \o Pkts(out[d])) = Num(queued) \cup Num(Pkts(out[d]))
           /\ Num(Held) = Num(Pkts(frame)) \cup Num(rem)
           /\ ToSet(Line(d)) = (ToSet(queued) \cup ToSet(Pkts(out[d])))
                                  \cup (ToSet(Pkts(frame)) \cup ToSet(rem))
           /\ Num(Line(d)) = (Num(queued) \cup Num(Pkts(out[d])))
                                \cup (Num(Pkts(frame)) \cup Num(rem))
<1>1. /\ Pkts(frame) \in Seq(Packets) /\ rem \in Seq(Packets)
      /\ queued \in Seq(Packets) /\ Pkts(out[d]) \in Seq(Packets)
      /\ Held \in Seq(Packets)
  BY HeldTypes
<1>. DEFINE s == queued \o Pkts(out[d])
<1>2. s \in Seq(Packets)
  BY <1>1, JoinedParts
<1>3. /\ ToSet(s) = ToSet(queued) \cup ToSet(Pkts(out[d]))
      /\ Num(s) = Num(queued) \cup Num(Pkts(out[d]))
  BY <1>1, JoinedNumbers
<1>4. /\ ToSet(Held) = ToSet(Pkts(frame)) \cup ToSet(rem)
      /\ Num(Held) = Num(Pkts(frame)) \cup Num(rem)
  BY <1>1, JoinedNumbers DEF Held
<1>5. Line(d) = s \o Held
  BY DEF Line
<1>. HIDE DEF s
<1>6. ToSet(s \o Held) = ToSet(s) \cup ToSet(Held) /\ Num(s \o Held) = Num(s) \cup Num(Held)
  BY <1>1, <1>2, JoinedNumbers
<1>7. /\ ToSet(Line(d)) = ToSet(s) \cup ToSet(Held)
      /\ Num(Line(d)) = Num(s) \cup Num(Held)
  BY <1>5, <1>6, Zenon
<1>8. QED
  BY <1>1, <1>2, <1>3, <1>4, <1>5, <1>7, Zenon DEF s

LEMMA TakenIsEverywhere ==
    ASSUME TxTypes
    PROVE  Taken = Everywhere
<1>1. Main \in Devs
  BY AggrAssumption
<1>2. \A d \in Devs :
         ToSet(Line(d)) = (ToSet(queued) \cup ToSet(Pkts(out[d])))
                             \cup (ToSet(Pkts(frame)) \cup ToSet(rem))
  BY LineParts
<1>. DEFINE T == ToSet(queued) \cup ToSet(Pkts(frame)) \cup ToSet(rem)
            O(d) == ToSet(Pkts(out[d]))
            L(d) == ToSet(Line(d))
<1>3. \A d \in Devs : L(d) = T \cup O(d)
  BY <1>2
<1>4. /\ Taken = dropped \cup UNION {L(d) : d \in Devs}
      /\ Everywhere = dropped \cup T \cup UNION {O(d) : d \in Devs}
  BY DEF Taken, Everywhere
<1>. HIDE DEF T, O, L
<1>5. UNION {L(d) : d \in Devs} = T \cup UNION {O(d) : d \in Devs}
  BY <1>1, <1>3
<1>6. QED
  BY <1>4, <1>5

LEMMA HeldAscends ==
    ASSUME TxTypes, HeldIsNewest
    PROVE  /\ Ascending(Held)
           /\ \A d \in Devs : Below(Num(queued \o Pkts(out[d])), Num(Held))
<1>1. /\ Pkts(frame) \in Seq(Packets) /\ rem \in Seq(Packets) /\ Ascending(rem)
  BY HeldTypes, ShortAscends DEF TxTypes
<1>2. Ascending(Held)
  BY <1>1, JoinedAscending DEF HeldIsNewest, Held
<1>3. ASSUME NEW d \in Devs
      PROVE  Below(Num(queued \o Pkts(out[d])), Num(Held))
  <2>1. /\ Num(queued \o Pkts(out[d])) = Num(queued) \cup Num(Pkts(out[d]))
        /\ Num(Held) = Num(Pkts(frame)) \cup Num(rem)
    BY LineParts
  <2>2. /\ Below(Num(queued), Num(Pkts(frame)) \cup Num(rem))
        /\ Below(Num(Pkts(out[d])), Num(Pkts(frame)) \cup Num(rem))
    BY DEF HeldIsNewest
  <2>3. Below(Num(queued) \cup Num(Pkts(out[d])), Num(Pkts(frame)) \cup Num(rem))
    BY <2>2 DEF Below
  <2>4. QED
    BY <2>1, <2>3, Zenon
<1>4. QED
  BY <1>2, <1>3

LEMMA PacketsOnce ==
    ASSUME TxTypes, PacketsInv
    PROVE  EveryPacketOnce
<1>. USE DEF PacketsInv
<1>1. Ids(Taken) = 1..taken
  BY TakenIsEverywhere DEF AllNumbered
<1>2. ASSUME NEW d \in Devs PROVE NoRepeat(Line(d))
  <2>1. queued \in Seq(Packets) /\ Pkts(out[d]) \in Seq(Packets)
    BY HeldTypes
  <2>2. NoRepeat(queued) /\ Num(queued) \cap Num(Pkts(out[d])) = {}
    BY DEF Apart
  <2>3. Ascending(Pkts(out[d]))
    BY DEF HeldIsNewest
  <2>4. NoRepeat(queued \o Pkts(out[d]))
    BY <2>1, <2>2, <2>3, AscendingNoRepeat, JoinedNoRepeat
  <2>5. /\ Line(d) = (queued \o Pkts(out[d])) \o Held
        /\ queued \o Pkts(out[d]) \in Seq(Packets) /\ Held \in Seq(Packets)
    BY LineParts
  <2>6. NoRepeat(Held)
    BY <2>5, HeldAscends, AscendingNoRepeat
  <2>7. Num(queued \o Pkts(out[d])) \cap Num(Held) = {}
    <3>1. \A s \in Seq(Packets) : Num(s) \subseteq Nat
      BY NumbersOfList
    <3>2. Num(queued \o Pkts(out[d])) \subseteq Nat
      BY <2>5, <3>1, Zenon
    <3>3. QED
      BY <3>2, HeldAscends, BelowParts
  <2>8. NoRepeat((queued \o Pkts(out[d])) \o Held)
    BY <2>4, <2>5, <2>6, <2>7, JoinedNoRepeat
  <2>9. QED
    BY <2>5, <2>8, Zenon
<1>3. ASSUME NEW d \in Devs PROVE Ids(ToSet(Line(d))) \cap Ids(dropped) = {}
  <2>1. Num(Line(d)) = (Num(queued) \cup Num(Pkts(out[d])))
                          \cup (Num(Pkts(frame)) \cup Num(rem))
    BY LineParts
  <2>2. Num(Line(d)) \cap Ids(dropped) = {}
    BY <2>1 DEF Apart
  <2>3. QED
    BY <2>2 DEF Num
<1>4. \A d, e \in Devs : d # e =>
          Ids(ToSet(Pkts(out[d]))) \cap Ids(ToSet(Pkts(out[e]))) = {}
  BY DEF Apart, Num
<1>5. QED
  BY <1>1, <1>2, <1>3, <1>4 DEF EveryPacketOnce, NoRepeat

LEMMA PacketsInOrder ==
    ASSUME TxTypes, PacketsInv
    PROVE  OrderKept
<1>. SUFFICES ASSUME OneDevice PROVE Ascending(Line(Main))
  BY TakenIsEverywhere DEF OrderKept, OneDevice, Ascending
<1>. USE DEF PacketsInv
<1>1. Main \in Devs
  BY AggrAssumption
<1>2. queued \in Seq(Packets) /\ Pkts(out[Main]) \in Seq(Packets)
  BY <1>1, HeldTypes
<1>3. /\ Ascending(queued) /\ Below(Num(queued), Num(Pkts(out[Main])))
      /\ Ascending(Pkts(out[Main]))
  BY <1>1 DEF QueueInOrder, HeldIsNewest
<1>4. Ascending(queued \o Pkts(out[Main]))
  BY <1>2, <1>3, JoinedAscending
<1>5. /\ Line(Main) = (queued \o Pkts(out[Main])) \o Held
      /\ queued \o Pkts(out[Main]) \in Seq(Packets) /\ Held \in Seq(Packets)
  BY <1>1, LineParts
<1>6. Ascending(Held) /\ Below(Num(queued \o Pkts(out[Main])), Num(Held))
  BY <1>1, HeldAscends
<1>7. Ascending((queued \o Pkts(out[Main])) \o Held)
  BY <1>4, <1>5, <1>6, JoinedAscending
<1>8. QED
  BY <1>5, <1>7, Zenon

-----------------------------------------------------------------------------
(* The types, the geometry of the frames, the places of the packets and    *)
(* the timer of what is held are an invariant of aggr_tx_frame, the        *)
(* queueing, the timer, the tasklet, the negotiation and the removal.      *)
THEOREM TxInvariant == TxSpec => []TxInv
<1>1. TxInit => TxInv
  BY TxStart
<1>2. TxInv /\ [TxNext]_txVars => TxInv'
  <2>1. ASSUME TxInv, [TxNext]_txVars PROVE TxInv'
    <3>1. FramesInv' /\ PacketsInv'
      BY <2>1, TxStep DEF TxInv
    <3>2. RoomForHeld'
      BY <2>1, RoomStep DEF TxInv, FramesInv
    <3>3. HeldHasTimer'
      BY <2>1, TimerStep DEF TxInv, FramesInv
    <3>4. QED
      BY <3>1, <3>2, <3>3 DEF TxInv
  <2>2. QED
    BY <2>1
<1>3. QED
  BY <1>1, <1>2, PTL DEF TxSpec

(* As long as only the main device transmits, aggr_tx_frame, the tasklet   *)
(* and usbnet keep the packets in the order in which they were taken.      *)
THEOREM OrderAlwaysKept == TxSpec => []OrderKept
<1>1. TxInv => OrderKept
  BY PacketsInOrder DEF TxInv, FramesInv
<1>2. QED
  BY <1>1, TxInvariant, PTL

(* Whatever the devices transmit, aggr_tx_frame neither loses a packet     *)
(* without counting it in tx_dropped nor sends one twice.                  *)
THEOREM PacketsAlwaysOnce == TxSpec => []EveryPacketOnce
<1>1. TxInv => EveryPacketOnce
  BY PacketsOnce DEF TxInv, FramesInv
<1>2. QED
  BY <1>1, TxInvariant, PTL

(* The packets of every frame lie in it side by side and inside of it,     *)
(* while the negotiation changes tx_max: skb_put never panics.             *)
THEOREM FramesAlwaysFit == TxSpec => []FrameFits
<1>1. TxInv => FrameFits
  BY DEF TxInv, FramesInv
<1>2. QED
  BY <1>1, TxInvariant, PTL

(* What is held has the timer or the tasklet that will send it.            *)
THEOREM HeldAlwaysHasTimer == TxSpec => []HeldHasTimer
<1>1. TxInv => HeldHasTimer
  BY DEF TxInv
<1>2. QED
  BY <1>1, TxInvariant, PTL

=============================================================================
