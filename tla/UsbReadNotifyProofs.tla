------------------------- MODULE UsbReadNotifyProofs -------------------------
(***************************************************************************)
(* Theorems about UsbReadNotify, for any number of readers and slots: as   *)
(* long as no sleep is cut short and nobody closes a descriptor, one       *)
(* reader at a time copies, and it finds the data it was told of; and      *)
(* always, while data is stored, the head of the list has been told.       *)
(***************************************************************************)
EXTENDS UsbReadNotify, SequenceTheorems, TLAPS

Records == [list : Seq(Slots), inProcess : [Slots -> BOOLEAN],
            events : [Slots -> SUBSET {"CANCEL", "FILL"}]]

(* Of a notify list q, readers d and n bytes stored: only the slot at the  *)
(* head is told of data, and it is in use by the only reader that is awake.*)
Distinct(q) == \A i, j \in 1..Len(q.list) : q.list[i] = q.list[j] => i = j

HeadOnly(q, n) ==
    \A s \in Slots :
        /\ q.events[s] \subseteq {"FILL"}
        /\ q.inProcess[s] \/ q.events[s] # {} =>
              q.list # << >> /\ s = Head(q.list) /\ q.inProcess[s] /\ n > 0

OwnSlots(q, d) ==
    /\ \A r \in Readers : d[r].pc # "idle" => InList(q, d[r].slot)
    /\ \A r, s \in Readers :
          d[r].pc # "idle" /\ d[s].pc # "idle" /\ d[r].slot = d[s].slot => r = s

AwakeAtHead(q, d) ==
    \A r \in Readers :
        /\ d[r].pc \in {"woken", "copy"} =>
              d[r].result = "FILL" /\ q.inProcess[d[r].slot]
        /\ d[r].pc = "copy" => q.events[d[r].slot] = {}
        /\ d[r].pc \in {"idle", "wait"} => d[r].result = "none"

Calm(q, d, n) ==
    Distinct(q) /\ HeadOnly(q, n) /\ OwnSlots(q, d) /\ AwakeAtHead(q, d)

(* The inductive invariant. *)
RdRecords == [pc : {"idle", "wait", "woken", "copy"}, slot : Slots \cup {NONE},
              result : {"none", "CANCEL", "FILL"}]

RdTypes(d) ==
    /\ d \in [Readers -> RdRecords]
    /\ \A r \in Readers : d[r].pc # "idle" => d[r].slot \in Slots

IInv == TypeOK /\ (calm => Calm(notify, rd, stored))

-----------------------------------------------------------------------------
(***************************************************************************)
(* Operations on the list.                                                 *)
(***************************************************************************)

(* NotifyUserRequest marks the head, or does nothing. *)
LEMMA NotifyMarksHead ==
    ASSUME NEW q \in Records, NEW n, NEW evt,
           NEW p, p = NotifyUserRequest(q, n, evt)
    PROVE  /\ p \in Records /\ p.list = q.list
           /\ \/ p = q
              \/ /\ q.list # << >> /\ n > 0 /\ evt \in {NONE, Head(q.list)}
                 /\ Head(q.list) \in Slots /\ ~q.inProcess[Head(q.list)]
                 /\ p.inProcess = [q.inProcess EXCEPT ![Head(q.list)] = TRUE]
                 /\ p.events = [q.events EXCEPT
                                  ![Head(q.list)] = @ \cup {"FILL"}]
<1>. DEFINE told == /\ q.list # << >> /\ n > 0 /\ evt \in {NONE, Head(q.list)}
                    /\ ~q.inProcess[Head(q.list)]
<1>1. CASE told
  <2>1. Head(q.list) \in Slots
    BY <1>1 DEF Records
  <2>2. NotifyUserRequest(q, n, evt) =
           [q EXCEPT !.inProcess[Head(q.list)] = TRUE,
                     !.events[Head(q.list)] = @ \cup {"FILL"}]
    BY <1>1 DEF NotifyUserRequest
  <2>. DEFINE m == [list |-> q.list,
                    inProcess |-> [q.inProcess EXCEPT ![Head(q.list)] = TRUE],
                    events |-> [q.events EXCEPT
                                  ![Head(q.list)] = @ \cup {"FILL"}]]
  <2>3. /\ m.list = q.list
        /\ m.inProcess = [q.inProcess EXCEPT ![Head(q.list)] = TRUE]
        /\ m.events = [q.events EXCEPT ![Head(q.list)] = @ \cup {"FILL"}]
        /\ m = [list |-> m.list, inProcess |-> m.inProcess,
                events |-> m.events]
    OBVIOUS
  <2>4. NotifyUserRequest(q, n, evt) = m
    BY <2>1, <2>2 DEF Records
  <2>. HIDE DEF m
  <2>5. m.inProcess \in [Slots -> BOOLEAN]
    BY <2>3 DEF Records
  <2>6. m.events \in [Slots -> SUBSET {"CANCEL", "FILL"}]
    BY <2>1, <2>3 DEF Records
  <2>7. m \in Records
    BY <2>3, <2>5, <2>6 DEF Records
  <2>8. QED
    BY <1>1, <2>1, <2>3, <2>7, <2>4
<1>2. CASE ~told
  <2>1. NotifyUserRequest(q, n, evt) = q
    BY <1>2 DEF NotifyUserRequest
  <2>2. QED
    BY <2>1
<1>3. QED
  BY <1>1, <1>2

(* RemoveNotification keeps the types. *)
LEMMA RemoveTypes ==
    ASSUME NEW q \in Records, NEW s \in Slots
    PROVE  RemoveNotification(q, s) \in Records
<1>1. CASE InList(q, s)
  <2>. DEFINE i == CHOOSE k \in 1..Len(q.list) : q.list[k] = s
  <2>1. i \in 1..Len(q.list)
    BY <1>1 DEF InList
  <2>. HIDE DEF i
  <2>2. q.list \in Seq(Slots)
    BY DEF Records
  <2>3. SubSeq(q.list, 1, i - 1) \in Seq(Slots)
    BY <2>1, <2>2, ElementOfSeq, LenProperties, SubSeqProperties
  <2>4. SubSeq(q.list, i + 1, Len(q.list)) \in Seq(Slots)
    BY <2>1, <2>2, ElementOfSeq, LenProperties, SubSeqProperties
  <2>5. RemoveAt(q.list, i) \in Seq(Slots)
    BY <2>3, <2>4, ConcatProperties DEF RemoveAt
  <2>6. RemoveNotification(q, s) = [q EXCEPT !.list = RemoveAt(@, i),
                                             !.inProcess[s] = FALSE]
    BY <1>1 DEF RemoveNotification, i
  <2>7. ASSUME NEW l \in Seq(Slots)
        PROVE  [q EXCEPT !.list = l, !.inProcess[s] = FALSE] \in Records
    BY DEF Records
  <2>8. RemoveNotification(q, s) =
           [q EXCEPT !.list = RemoveAt(q.list, i), !.inProcess[s] = FALSE]
    BY <2>6
  <2>9. QED
    BY <2>5, <2>7, <2>8
<1>2. CASE ~InList(q, s)
  BY <1>2 DEF RemoveNotification
<1>3. QED
  BY <1>1, <1>2

(* When the head leaves, the others move up. *)
LEMMA RemoveHead ==
    ASSUME NEW q \in Records, q.list # << >>, Distinct(q)
    PROVE  LET p == RemoveNotification(q, Head(q.list)) IN
           /\ p.list = Tail(q.list)
           /\ p.inProcess = [q.inProcess EXCEPT ![Head(q.list)] = FALSE]
           /\ p.events = q.events
<1>. DEFINE s == Head(q.list)
            i == CHOOSE k \in 1..Len(q.list) : q.list[k] = s
<1>1. /\ q.list \in Seq(Slots) /\ Len(q.list) \in Nat \ {0}
      /\ q.list[1] = s /\ s \in Slots
  BY LenProperties, HeadTailProperties, EmptySeq DEF Records
<1>2. InList(q, s)
  BY <1>1 DEF InList
<1>3. i \in 1..Len(q.list) /\ q.list[i] = s
  BY <1>2 DEF InList
<1>4. i = 1
  BY <1>1, <1>3 DEF Distinct
<1>5. RemoveNotification(q, s) = [q EXCEPT !.list = RemoveAt(@, i),
                                           !.inProcess[s] = FALSE]
  BY <1>2 DEF RemoveNotification
<1>. HIDE DEF i, s
<1>6. RemoveAt(q.list, 1) = Tail(q.list)
  <2>1. SubSeq(q.list, 1, 0) = << >>
    BY <1>1
  <2>2. SubSeq(q.list, 2, Len(q.list)) = Tail(q.list)
    BY <1>1, TailIsSubSeq
  <2>3. << >> \o Tail(q.list) = Tail(q.list)
    BY <1>1, HeadTailProperties, ConcatEmptySeq
  <2>4. QED
    BY <2>1, <2>2, <2>3 DEF RemoveAt
<1>7. QED
  BY <1>1, <1>4, <1>5, <1>6 DEF Records, s

(* NotifyUserRequest keeps what holds of a calm list: it marks the head    *)
(* only while no reader is awake. *)
LEMMA NotifyCalm ==
    ASSUME NEW q \in Records, NEW d, RdTypes(d), NEW n, Calm(q, d, n), NEW evt,
           NEW p, p = NotifyUserRequest(q, n, evt)
    PROVE  Calm(p, d, n)
<1>. DEFINE h == Head(q.list)
<1>1. p \in Records /\ p.list = q.list
  <2>1. p \in Records
    BY NotifyMarksHead
  <2>2. p.list = q.list
    BY DEF NotifyUserRequest, Records
  <2>3. QED
    BY <2>1, <2>2
<1>2. CASE p = q
  BY <1>2
<1>3. CASE /\ q.list # << >> /\ n > 0 /\ h \in Slots /\ ~q.inProcess[h]
           /\ p.inProcess = [q.inProcess EXCEPT ![h] = TRUE]
           /\ p.events = [q.events EXCEPT ![h] = @ \cup {"FILL"}]
  <2>. HIDE DEF h
  <2>1. /\ \A s \in Slots : ~q.inProcess[s] /\ q.events[s] = {}
        /\ \A r \in Readers : d[r].pc \notin {"woken", "copy"}
    BY <1>3 DEF Calm, HeadOnly, AwakeAtHead, RdTypes, h
  <2>2. HeadOnly(p, n)
    <3>. SUFFICES ASSUME NEW s \in Slots
                  PROVE  /\ p.events[s] \subseteq {"FILL"}
                         /\ p.inProcess[s] \/ p.events[s] # {} =>
                               p.list # << >> /\ s = Head(p.list)
                               /\ p.inProcess[s] /\ n > 0
      BY DEF HeadOnly
    <3>1. CASE s = h
      BY <1>1, <1>3, <2>1, <3>1 DEF Records, h
    <3>2. CASE s # h
      BY <1>1, <1>3, <2>1, <3>2 DEF Records, h
    <3>3. QED
      BY <3>1, <3>2
  <2>3. Distinct(p) /\ OwnSlots(p, d)
    BY <1>1 DEF Calm, Distinct, OwnSlots, InList
  <2>4. AwakeAtHead(p, d)
    BY <2>1 DEF Calm, AwakeAtHead
  <2>5. QED
    BY <2>2, <2>3, <2>4 DEF Calm
<1>4. QED
  BY <1>2, <1>3, NotifyMarksHead

(* NotifyUserRequest does nothing while a reader is awake. *)
LEMMA NotifyIdle ==
    ASSUME NEW q \in Records, NEW d, RdTypes(d), NEW n, Calm(q, d, n),
           NEW r \in Readers, d[r].pc \in {"woken", "copy"}, NEW m, NEW evt
    PROVE  NotifyUserRequest(q, m, evt) = q
<1>1. d[r].slot \in Slots /\ q.inProcess[d[r].slot]
  BY DEF Calm, AwakeAtHead, RdTypes
<1>2. q.list # << >> /\ q.inProcess[Head(q.list)]
  BY <1>1 DEF Calm, HeadOnly
<1>3. QED
  BY <1>2 DEF NotifyUserRequest

(* A reader that is awake leaves: the next one becomes the head, and tells *)
(* nothing of data that is not there. *)
LEMMA LeaveCalm ==
    ASSUME NEW q \in Records, NEW d, RdTypes(d), NEW n, Calm(q, d, n),
           NEW r \in Readers, d[r].pc \in {"woken", "copy"},
           q.events[d[r].slot] = {}, NEW m
    PROVE  Calm(RemoveNotification(q, d[r].slot),
                [d EXCEPT ![r] = NotReading], m)
<1>. DEFINE p == RemoveNotification(q, d[r].slot)
            e == [d EXCEPT ![r] = NotReading]
<1>1. d[r].slot \in Slots /\ q.inProcess[d[r].slot]
  BY DEF Calm, AwakeAtHead, RdTypes
<1>2. q.list # << >> /\ d[r].slot = Head(q.list)
  BY <1>1 DEF Calm, HeadOnly
<1>3. /\ p.list = Tail(q.list)
      /\ p.inProcess = [q.inProcess EXCEPT ![d[r].slot] = FALSE]
      /\ p.events = q.events
  BY <1>2, RemoveHead DEF Calm
<1>4. /\ q.list \in Seq(Slots) /\ Len(q.list) \in Nat \ {0}
      /\ q.list[1] = d[r].slot
      /\ Len(p.list) = Len(q.list) - 1
      /\ \A i \in 1..Len(p.list) : p.list[i] = q.list[i + 1]
  BY <1>2, <1>3, LenProperties, HeadTailProperties, EmptySeq DEF Records
<1>5. \A s \in Slots : ~p.inProcess[s] /\ p.events[s] = {}
  BY <1>1, <1>2, <1>3 DEF Calm, HeadOnly, Records
<1>6. /\ e[r].pc = "idle" /\ e[r].result = "none"
      /\ \A t \in Readers \ {r} : e[t] = d[t]
  BY DEF RdTypes, NotReading
<1>7. \A t \in Readers \ {r} : d[t].pc \notin {"woken", "copy"}
  BY <1>1, <1>2 DEF Calm, HeadOnly, OwnSlots, AwakeAtHead, RdTypes
<1>. HIDE DEF p, e
<1>8. Distinct(p)
  <2>1. SUFFICES ASSUME NEW i \in 1..Len(p.list), NEW j \in 1..Len(p.list),
                        p.list[i] = p.list[j]
                 PROVE  i = j
    BY DEF Distinct
  <2>2. i \in Int /\ j \in Int /\ i + 1 \in 1..Len(q.list) /\ j + 1 \in 1..Len(q.list)
    BY <1>4
  <2>3. q.list[i + 1] = q.list[j + 1]
    BY <1>4, <2>1
  <2>4. i + 1 = j + 1
    BY <2>2, <2>3 DEF Calm, Distinct
  <2>5. QED
    BY <2>2, <2>4
<1>9. HeadOnly(p, m)
  BY <1>5 DEF HeadOnly
<1>10. OwnSlots(p, e)
  <2>1. ASSUME NEW t \in Readers, e[t].pc # "idle"
        PROVE  InList(p, e[t].slot)
    <3>1. t # r /\ e[t] = d[t] /\ d[t].slot # d[r].slot
      BY <1>6, <2>1 DEF Calm, OwnSlots
    <3>2. PICK i \in 1..Len(q.list) : q.list[i] = d[t].slot
      BY <3>1, <2>1 DEF Calm, OwnSlots, InList
    <3>3. i - 1 \in 1..Len(p.list) /\ p.list[i - 1] = d[t].slot
      BY <1>4, <3>1, <3>2
    <3>4. QED
      BY <3>1, <3>3 DEF InList
  <2>2. QED
    BY <1>6, <2>1 DEF Calm, OwnSlots
<1>11. AwakeAtHead(p, e)
  BY <1>6, <1>7 DEF Calm, AwakeAtHead
<1>12. QED
  BY <1>8, <1>9, <1>10, <1>11 DEF Calm, p, e

-----------------------------------------------------------------------------
(***************************************************************************)
(* The invariant.                                                          *)
(***************************************************************************)

(* TypeOK in the terms of the lemmas. *)
LEMMA TypeOKSplit ==
    TypeOK <=> /\ stored \in 0..MaxStored /\ notify \in Records
               /\ RdTypes(rd) /\ calm \in BOOLEAN
BY DEF TypeOK, Records, RdTypes, RdRecords

(* Slots that are free are not in the list. *)
LEMMA AddTypes ==
    ASSUME NEW q \in Records, NEW s \in Slots
    PROVE  /\ AddToNotifyList(q, s) \in Records
           /\ AddToNotifyList(q, s).list = Append(q.list, s)
           /\ AddToNotifyList(q, s).inProcess = [q.inProcess EXCEPT ![s] = FALSE]
           /\ AddToNotifyList(q, s).events = q.events
BY AppendProperties DEF AddToNotifyList, Records

(* ClearEvent and ClearNotifyList keep the types. *)
LEMMA ClearTypes ==
    ASSUME NEW q \in Records, NEW s \in Slots, NEW evt
    PROVE  /\ ClearEvent(q, s, evt) \in Records
           /\ ClearEvent(q, s, evt).list = q.list
           /\ ClearEvent(q, s, evt).inProcess = q.inProcess
           /\ ClearEvent(q, s, evt).events = [q.events EXCEPT ![s] = @ \ {evt}]
BY DEF ClearEvent, Records

LEMMA FlushTypes ==
    ASSUME NEW q \in Records
    PROVE  ClearNotifyList(q) \in Records
<1>1. << >> \in Seq(Slots)
  BY EmptySeq
<1>2. [s \in Slots |-> IF InList(q, s) THEN FALSE ELSE q.inProcess[s]]
         \in [Slots -> BOOLEAN]
  BY DEF Records
<1>3. [s \in Slots |-> IF InList(q, s) THEN q.events[s] \cup {"CANCEL"}
                       ELSE q.events[s]]
         \in [Slots -> SUBSET {"CANCEL", "FILL"}]
  BY DEF Records
<1>4. QED
  BY <1>1, <1>2, <1>3 DEF ClearNotifyList, Records

LEMMA LeaveTypes ==
    ASSUME NEW q \in Records, RdTypes(rd), NEW r \in Readers,
           rd[r].pc # "idle", NEW n, Leave(r, q, n)
    PROVE  notify' \in Records /\ RdTypes(rd')
<1>1. rd[r].slot \in Slots
  BY DEF RdTypes
<1>2. RemoveNotification(q, rd[r].slot) \in Records
  BY <1>1, RemoveTypes
<1>3. notify' \in Records
  BY <1>2, NotifyMarksHead DEF Leave
<1>4. NotReading \in RdRecords /\ NotReading.pc = "idle"
  BY DEF NotReading, RdRecords
<1>5. RdTypes(rd')
  BY <1>4 DEF Leave, RdTypes
<1>6. QED
  BY <1>3, <1>5

LEMMA InitIInv == Init => IInv
<1>. SUFFICES ASSUME Init PROVE IInv
  OBVIOUS
<1>1. TypeOK
  BY EmptySeq, PoolAssumption DEF Init, TypeOK, NotReading
<1>2. notify.list = << >> /\ Len(notify.list) = 0
  BY DEF Init
<1>3. Distinct(notify) /\ OwnSlots(notify, rd)
  BY <1>2 DEF Init, Distinct, OwnSlots, NotReading
<1>4. HeadOnly(notify, stored) /\ AwakeAtHead(notify, rd)
  BY DEF Init, HeadOnly, AwakeAtHead, NotReading
<1>5. QED
  BY <1>1, <1>3, <1>4 DEF IInv, Calm

(* A reader takes a free slot: it is told of data only at the head of the  *)
(* list, so only if nobody else reads. *)
LEMMA ReadStep ==
    ASSUME IInv, NEW r \in Readers, NEW s \in Slots, ReadSyncBlk(r, s)
    PROVE  IInv'
<1>. DEFINE q == AddToNotifyList(notify, s)
            me == [NotReading EXCEPT !.pc = "wait", !.slot = s]
<1>1. /\ stored \in 0..MaxStored /\ notify \in Records /\ RdTypes(rd)
      /\ calm \in BOOLEAN
  BY TypeOKSplit DEF IInv
<1>2. /\ q \in Records /\ q.list = Append(notify.list, s)
      /\ q.inProcess = [notify.inProcess EXCEPT ![s] = FALSE]
      /\ q.events = notify.events
  BY <1>1, AddTypes
<1>3. /\ notify' = NotifyUserRequest(q, stored, s)
      /\ rd' = [rd EXCEPT ![r] = me] /\ rd[r].pc = "idle"
      /\ ~InList(notify, s) /\ stored' = stored /\ calm' = calm
  BY DEF ReadSyncBlk, FreeSlots
<1>4. /\ me \in RdRecords /\ me.pc = "wait" /\ me.slot = s
      /\ me.result = "none"
  BY DEF NotReading, RdRecords
<1>. HIDE DEF q, me
<1>5. notify' \in Records
  BY <1>2, <1>3, NotifyMarksHead
<1>6. RdTypes(rd')
  BY <1>1, <1>3, <1>4 DEF RdTypes
<1>7. TypeOK'
  BY <1>1, <1>3, <1>5, <1>6, TypeOKSplit DEF TypeOK, Records, RdTypes, RdRecords
<1>8. ASSUME calm PROVE Calm(q, rd', stored)
  <2>1. Calm(notify, rd, stored)
    BY <1>8 DEF IInv
  <2>2. /\ notify.list \in Seq(Slots) /\ Len(notify.list) \in Nat
        /\ Len(q.list) = Len(notify.list) + 1
        /\ q.list[Len(q.list)] = s
        /\ \A i \in 1..Len(notify.list) : q.list[i] = notify.list[i]
    BY <1>1, <1>2, AppendProperties, LenProperties DEF Records
  <2>3. \A i \in 1..Len(notify.list) : notify.list[i] # s
    BY <1>3 DEF InList
  <2>4. Distinct(q)
    <3>1. SUFFICES ASSUME NEW i \in 1..Len(q.list), NEW j \in 1..Len(q.list),
                          q.list[i] = q.list[j]
                   PROVE  i = j
      BY DEF Distinct
    <3>2. i \in 1..Len(notify.list) \/ i = Len(notify.list) + 1
      BY <2>2
    <3>3. j \in 1..Len(notify.list) \/ j = Len(notify.list) + 1
      BY <2>2
    <3>4. CASE i \in 1..Len(notify.list) /\ j \in 1..Len(notify.list)
      <4>1. notify.list[i] = notify.list[j]
        BY <2>2, <3>1, <3>4
      <4>2. QED
        BY <2>1, <3>4, <4>1 DEF Calm, Distinct
    <3>5. CASE i = Len(notify.list) + 1 /\ j \in 1..Len(notify.list)
      BY <2>2, <2>3, <3>1, <3>5
    <3>6. CASE j = Len(notify.list) + 1 /\ i \in 1..Len(notify.list)
      BY <2>2, <2>3, <3>1, <3>6
    <3>7. QED
      BY <3>2, <3>3, <3>4, <3>5, <3>6
  <2>5. ~notify.inProcess[s] /\ notify.events[s] = {}
    <3>1. CASE notify.list = << >>
      BY <2>1, <3>1 DEF Calm, HeadOnly
    <3>2. CASE notify.list # << >>
      <4>1. Head(notify.list) = notify.list[1] /\ 1 \in 1..Len(notify.list)
        BY <2>2, <3>2, EmptySeq
      <4>2. QED
        BY <2>1, <2>3, <4>1 DEF Calm, HeadOnly
    <3>3. QED
      BY <3>1, <3>2
  <2>6. HeadOnly(q, stored)
    <3>. SUFFICES ASSUME NEW t \in Slots
                  PROVE  /\ q.events[t] \subseteq {"FILL"}
                         /\ q.inProcess[t] \/ q.events[t] # {} =>
                               q.list # << >> /\ t = Head(q.list)
                               /\ q.inProcess[t] /\ stored > 0
      BY DEF HeadOnly
    <3>1. CASE t = s
      BY <1>1, <1>2, <2>5, <3>1 DEF Records
    <3>2. CASE t # s
      <4>1. q.inProcess[t] = notify.inProcess[t] /\ q.events[t] = notify.events[t]
        BY <1>1, <1>2, <3>2 DEF Records
      <4>2. notify.list # << >> =>
               q.list # << >> /\ Head(q.list) = Head(notify.list)
        BY <1>1, <1>2, <2>2, AppendProperties, EmptySeq, HeadTailProperties
           DEF Records
      <4>3. QED
        BY <2>1, <4>1, <4>2 DEF Calm, HeadOnly
    <3>3. QED
      BY <3>1, <3>2
  <2>7. /\ rd'[r] = me /\ \A t \in Readers \ {r} : rd'[t] = rd[t]
    BY <1>1, <1>3 DEF RdTypes
  <2>8. OwnSlots(q, rd')
    <3>1. \A t \in Readers \ {r} : rd[t].pc # "idle" =>
             InList(q, rd[t].slot) /\ rd[t].slot # s
      BY <1>3, <2>1, <2>2 DEF Calm, OwnSlots, InList
    <3>2. InList(q, s)
      BY <2>2 DEF InList
    <3>3. QED
      BY <1>4, <2>1, <2>7, <3>1, <3>2 DEF Calm, OwnSlots
  <2>9. AwakeAtHead(q, rd')
    <3>1. \A t \in Readers \ {r} : rd[t].pc \in {"woken", "copy"} =>
             rd[t].slot # s /\ rd[t].slot \in Slots
      BY <1>1, <1>3, <2>1 DEF Calm, OwnSlots, RdTypes
    <3>2. \A t \in Slots \ {s} : q.inProcess[t] = notify.inProcess[t]
      BY <1>1, <1>2 DEF Records
    <3>3. QED
      BY <1>2, <1>4, <2>1, <2>7, <3>1, <3>2 DEF Calm, AwakeAtHead
  <2>10. QED
    BY <2>4, <2>6, <2>8, <2>9 DEF Calm
<1>9. calm' => Calm(notify', rd', stored')
  BY <1>2, <1>3, <1>6, <1>8, NotifyCalm
<1>10. QED
  BY <1>7, <1>9 DEF IInv, Calm, Distinct, HeadOnly, OwnSlots, AwakeAtHead, InList

(* The reader of a slot that has events is at the head. *)
LEMMA WaitStep ==
    ASSUME IInv, NEW r \in Readers, WaitEvent(r)
    PROVE  IInv'
<1>1. /\ stored \in 0..MaxStored /\ notify \in Records /\ RdTypes(rd)
      /\ calm \in BOOLEAN
  BY TypeOKSplit DEF IInv
<1>2. /\ rd[r].pc = "wait" /\ notify.events[rd[r].slot] # {}
      /\ rd' = [rd EXCEPT ![r].pc = "woken", ![r].result =
                   IF "CANCEL" \in notify.events[rd[r].slot] THEN "CANCEL"
                   ELSE "FILL"]
      /\ stored' = stored /\ notify' = notify /\ calm' = calm
  BY DEF WaitEvent
<1>3. /\ rd'[r].pc = "woken" /\ rd'[r].slot = rd[r].slot
      /\ rd'[r].result = IF "CANCEL" \in notify.events[rd[r].slot]
                         THEN "CANCEL" ELSE "FILL"
      /\ \A t \in Readers \ {r} : rd'[t] = rd[t]
  BY <1>1, <1>2 DEF RdTypes, RdRecords
<1>4. RdTypes(rd')
  BY <1>1, <1>2 DEF RdTypes, RdRecords
<1>5. TypeOK'
  BY <1>1, <1>2, <1>4 DEF TypeOK, Records, RdTypes, RdRecords
<1>6. ASSUME calm PROVE Calm(notify, rd', stored)
  <2>1. Calm(notify, rd, stored)
    BY <1>6 DEF IInv
  <2>2. rd[r].slot \in Slots
    BY <1>1, <1>2 DEF RdTypes
  <2>3. /\ notify.inProcess[rd[r].slot]
        /\ notify.events[rd[r].slot] \subseteq {"FILL"}
    BY <1>2, <2>1, <2>2 DEF Calm, HeadOnly
  <2>4. AwakeAtHead(notify, rd')
    BY <1>3, <2>1, <2>3 DEF Calm, AwakeAtHead
  <2>5. OwnSlots(notify, rd')
    <3>1. \A t \in Readers : rd'[t].slot = rd[t].slot
      BY <1>3
    <3>2. \A t \in Readers : rd'[t].pc # "idle" => rd[t].pc # "idle"
      BY <1>2, <1>3
    <3>3. OwnSlots(notify, rd)
      BY <2>1 DEF Calm
    <3>4. \A t \in Readers : rd'[t].pc # "idle" => InList(notify, rd'[t].slot)
      BY <3>1, <3>2, <3>3 DEF OwnSlots
    <3>5. \A t, u \in Readers :
             rd'[t].pc # "idle" /\ rd'[u].pc # "idle"
             /\ rd'[t].slot = rd'[u].slot => t = u
      BY <3>1, <3>2, <3>3 DEF OwnSlots
    <3>6. QED
      BY <3>4, <3>5 DEF OwnSlots
  <2>6. QED
    BY <2>1, <2>4, <2>5 DEF Calm
<1>7. calm' => Calm(notify', rd', stored')
  BY <1>2, <1>6
<1>8. QED
  BY <1>5, <1>7 DEF IInv, Calm, Distinct, HeadOnly, OwnSlots, AwakeAtHead, InList

(* A sleep that is cut short ends the calm. *)
LEMMA ExpireStep ==
    ASSUME IInv, NEW r \in Readers, WaitExpires(r)
    PROVE  IInv'
<1>1. /\ stored \in 0..MaxStored /\ notify \in Records /\ RdTypes(rd)
      /\ calm \in BOOLEAN
  BY TypeOKSplit DEF IInv
<1>2. /\ rd[r].pc = "wait" /\ rd' = [rd EXCEPT ![r].pc = "woken"]
      /\ stored' = stored /\ notify' = notify /\ calm' = FALSE
  BY DEF WaitExpires
<1>3. RdTypes(rd')
  BY <1>1, <1>2 DEF RdTypes, RdRecords
<1>4. TypeOK'
  BY <1>1, <1>2, <1>3 DEF TypeOK, Records, RdTypes, RdRecords
<1>5. QED
  BY <1>2, <1>4 DEF IInv

(* A reader that copies has taken its FILL event; mInProcess stays set. *)
LEMMA BeginStep ==
    ASSUME IInv, NEW r \in Readers, BeginCopy(r)
    PROVE  IInv'
<1>1. /\ stored \in 0..MaxStored /\ notify \in Records /\ RdTypes(rd)
      /\ calm \in BOOLEAN
  BY TypeOKSplit DEF IInv
<1>2. /\ rd[r].pc = "woken" /\ rd' = [rd EXCEPT ![r].pc = "copy"]
      /\ notify' = ClearEvent(notify, rd[r].slot, "FILL")
      /\ stored' = stored /\ calm' = calm
  BY DEF BeginCopy
<1>3. /\ rd'[r].pc = "copy" /\ rd'[r].slot = rd[r].slot
      /\ rd'[r].result = rd[r].result
      /\ \A t \in Readers \ {r} : rd'[t] = rd[t]
  BY <1>1, <1>2 DEF RdTypes, RdRecords
<1>4. rd[r].slot \in Slots
  BY <1>1, <1>2 DEF RdTypes
<1>5. /\ notify' \in Records /\ notify'.list = notify.list
      /\ notify'.inProcess = notify.inProcess
      /\ notify'.events = [notify.events EXCEPT ![rd[r].slot] = @ \ {"FILL"}]
  BY <1>1, <1>2, <1>4, ClearTypes
<1>6. RdTypes(rd')
  BY <1>1, <1>2 DEF RdTypes, RdRecords
<1>7. TypeOK'
  BY <1>1, <1>2, <1>5, <1>6 DEF TypeOK, Records, RdTypes, RdRecords
<1>8. ASSUME calm PROVE Calm(notify', rd', stored)
  <2>1. Calm(notify, rd, stored)
    BY <1>8 DEF IInv
  <2>2. /\ notify'.events[rd[r].slot] = {}
        /\ \A s \in Slots : notify'.events[s] \subseteq notify.events[s]
    BY <1>1, <1>4, <1>5, <2>1 DEF Records, Calm, HeadOnly
  <2>3. HeadOnly(notify', stored)
    BY <1>5, <2>1, <2>2 DEF Calm, HeadOnly
  <2>4. Distinct(notify') /\ OwnSlots(notify', rd')
    BY <1>2, <1>3, <1>5, <2>1 DEF Calm, Distinct, OwnSlots, InList
  <2>5. \A t \in Readers : rd[t].pc = "copy" => rd[t].slot \in Slots
    BY <1>1 DEF RdTypes
  <2>6. AwakeAtHead(notify', rd')
    BY <1>2, <1>3, <1>5, <2>1, <2>2, <2>5 DEF Calm, AwakeAtHead
  <2>7. QED
    BY <2>3, <2>4, <2>6 DEF Calm
<1>9. QED
  BY <1>2, <1>7, <1>8 DEF IInv, Calm, Distinct, HeadOnly, OwnSlots, AwakeAtHead, InList

(* While it is calm, no reader leaves without data. *)
LEMMA LeaveStep ==
    ASSUME IInv, NEW r \in Readers, LeaveWithoutData(r)
    PROVE  IInv'
<1>. DEFINE q == IF rd[r].result = "none" THEN notify
                 ELSE ClearEvent(notify, rd[r].slot, rd[r].result)
<1>1. /\ stored \in 0..MaxStored /\ notify \in Records /\ RdTypes(rd)
      /\ calm \in BOOLEAN
  BY TypeOKSplit DEF IInv
<1>2. /\ rd[r].pc = "woken" /\ (rd[r].result = "FILL" => stored = 0)
      /\ Leave(r, q, stored) /\ stored' = stored /\ calm' = calm
  BY DEF LeaveWithoutData
<1>3. rd[r].slot \in Slots
  BY <1>1, <1>2 DEF RdTypes
<1>4. q \in Records
  BY <1>1, <1>3, ClearTypes
<1>. HIDE DEF q
<1>5. notify' \in Records /\ RdTypes(rd')
  BY <1>1, <1>2, <1>4, LeaveTypes
<1>6. TypeOK'
  BY <1>1, <1>2, <1>5 DEF TypeOK, Records, RdTypes, RdRecords
<1>7. ~calm
  <2>1. SUFFICES ASSUME calm PROVE FALSE
    OBVIOUS
  <2>2. Calm(notify, rd, stored)
    BY <2>1 DEF IInv
  <2>3. rd[r].result = "FILL" /\ notify.inProcess[rd[r].slot]
    BY <1>2, <2>2 DEF Calm, AwakeAtHead
  <2>4. stored > 0
    BY <1>3, <2>2, <2>3 DEF Calm, HeadOnly
  <2>5. QED
    BY <1>2, <2>3, <2>4
<1>8. QED
  BY <1>2, <1>6, <1>7 DEF IInv

(* A copy ends: the reader was at the head, and the next one is told. *)
LEMMA EndStep ==
    ASSUME IInv, NEW r \in Readers, NEW left \in 0..MaxStored,
           NEW popped \in BOOLEAN, EndCopy(r, left, popped)
    PROVE  IInv'
<1>. DEFINE q == IF popped THEN NotifyUserRequest(notify, left, NONE) ELSE notify
<1>1. /\ stored \in 0..MaxStored /\ notify \in Records /\ RdTypes(rd)
      /\ calm \in BOOLEAN
  BY TypeOKSplit DEF IInv
<1>2. /\ rd[r].pc = "copy" /\ Leave(r, q, left)
      /\ stored' = left /\ calm' = calm
  BY DEF EndCopy
<1>3. q \in Records
  BY <1>1, NotifyMarksHead
<1>. HIDE DEF q
<1>4. notify' \in Records /\ RdTypes(rd')
  BY <1>1, <1>2, <1>3, LeaveTypes
<1>5. TypeOK'
  BY <1>1, <1>2, <1>4 DEF TypeOK, Records, RdTypes, RdRecords
<1>6. ASSUME calm PROVE Calm(notify', rd', left)
  <2>1. Calm(notify, rd, stored)
    BY <1>6 DEF IInv
  <2>2. q = notify
    BY <1>1, <1>2, <2>1, NotifyIdle DEF q
  <2>3. notify.events[rd[r].slot] = {}
    BY <1>2, <2>1 DEF Calm, AwakeAtHead
  <2>. DEFINE p == RemoveNotification(notify, rd[r].slot)
  <2>4. rd' = [rd EXCEPT ![r] = NotReading] /\ notify' = NotifyUserRequest(p, left, NONE)
    BY <1>2, <2>2 DEF Leave
  <2>5. Calm(p, rd', left)
    BY <1>1, <1>2, <2>1, <2>3, <2>4, LeaveCalm
  <2>6. p \in Records
    BY <1>1, <1>2, RemoveTypes DEF RdTypes
  <2>. HIDE DEF p
  <2>7. QED
    BY <1>4, <2>4, <2>5, <2>6, NotifyCalm
<1>7. QED
  BY <1>2, <1>5, <1>6 DEF IInv, Calm, Distinct, HeadOnly, OwnSlots, AwakeAtHead, InList

(* Data arrives. *)
LEMMA CallbackStep ==
    ASSUME IInv, NEW n \in 1..MaxStored, BlkCallback(n)
    PROVE  IInv'
<1>1. /\ stored \in 0..MaxStored /\ notify \in Records /\ RdTypes(rd)
      /\ calm \in BOOLEAN
  BY TypeOKSplit DEF IInv
<1>2. /\ stored' = stored + n /\ stored + n <= MaxStored
      /\ rd' = rd /\ calm' = calm
      /\ notify' \in {NotifyUserRequest(notify, stored + n, NONE), notify}
  BY DEF BlkCallback
<1>3. notify' \in Records
  BY <1>1, <1>2, NotifyMarksHead
<1>4. stored' \in 0..MaxStored /\ stored + n > 0
  BY <1>1, <1>2, PoolAssumption
<1>5. TypeOK'
  BY <1>1, <1>2, <1>3, <1>4 DEF TypeOK, Records, RdTypes, RdRecords
<1>6. ASSUME calm PROVE Calm(notify', rd, stored + n)
  <2>1. Calm(notify, rd, stored)
    BY <1>6 DEF IInv
  <2>2. Calm(notify, rd, stored + n)
    BY <1>4, <2>1 DEF Calm, HeadOnly
  <2>3. QED
    BY <1>1, <1>2, <2>2, NotifyCalm
<1>7. QED
  BY <1>2, <1>5, <1>6 DEF IInv, Calm, Distinct, HeadOnly, OwnSlots, AwakeAtHead, InList

(* A flush ends the calm. *)
LEMMA FlushStep == IInv /\ UserspaceQTIDevFlush => IInv'
<1>. SUFFICES ASSUME IInv, UserspaceQTIDevFlush PROVE IInv'
  OBVIOUS
<1>1. /\ stored \in 0..MaxStored /\ notify \in Records /\ RdTypes(rd)
  BY TypeOKSplit DEF IInv
<1>2. /\ notify' = ClearNotifyList(notify) /\ calm' = FALSE
      /\ stored' = stored /\ rd' = rd
  BY DEF UserspaceQTIDevFlush
<1>3. notify' \in Records
  BY <1>1, <1>2, FlushTypes
<1>4. TypeOK'
  BY <1>1, <1>2, <1>3 DEF TypeOK, Records, RdTypes, RdRecords
<1>5. QED
  BY <1>2, <1>4 DEF IInv

(* Every step of the readers, of BlkCallback and of a close keeps the      *)
(* strengthening: it holds in every reachable state. *)
THEOREM Invariance == Spec => []IInv
<1>1. IInv /\ [Next]_vars => IInv'
  <2>. SUFFICES ASSUME IInv, [Next]_vars PROVE IInv'
    OBVIOUS
  <2>1. CASE \E r \in Readers, s \in Slots : ReadSyncBlk(r, s)
    BY <2>1, ReadStep
  <2>2. CASE \E r \in Readers : Proceed(r)
    BY <2>2, WaitStep, BeginStep, LeaveStep, EndStep DEF Proceed
  <2>3. CASE \E r \in Readers : WaitExpires(r)
    BY <2>3, ExpireStep
  <2>4. CASE \E n \in 1..MaxStored : BlkCallback(n)
    BY <2>4, CallbackStep
  <2>5. CASE UserspaceQTIDevFlush
    BY <2>5, FlushStep
  <2>6. CASE UNCHANGED vars
    BY <2>6 DEF vars, IInv, TypeOK, Calm, Distinct, HeadOnly, OwnSlots,
                AwakeAtHead, InList
  <2>7. QED
    BY <2>1, <2>2, <2>3, <2>4, <2>5, <2>6 DEF Next
<1>2. QED
  BY <1>1, InitIInv, PTL DEF Spec

(* Type correctness of ReadSyncBlk, its list and its events. *)
THEOREM TypeCorrect == Spec => []TypeOK
<1>1. IInv => TypeOK
  BY DEF IInv
<1>2. QED
  BY <1>1, Invariance, PTL

(* Until the first sleep cut short or flush, one reader at a time is in    *)
(* CopyFromReadMemList: what the theorems about UsbBulkRead assume. *)
THEOREM OneCopies == Spec => []SingleCopier
<1>1. IInv => SingleCopier
  <2>. SUFFICES ASSUME IInv, calm, NEW r \in Readers, NEW s \in Readers,
                       rd[r].pc = "copy", rd[s].pc = "copy"
                PROVE  r = s
    BY DEF SingleCopier
  <2>1. Calm(notify, rd, stored) /\ RdTypes(rd)
    BY TypeOKSplit DEF IInv
  <2>2. /\ rd[r].slot \in Slots /\ notify.inProcess[rd[r].slot]
        /\ rd[s].slot \in Slots /\ notify.inProcess[rd[s].slot]
    BY <2>1 DEF Calm, AwakeAtHead, RdTypes
  <2>3. rd[r].slot = rd[s].slot
    BY <2>1, <2>2 DEF Calm, HeadOnly
  <2>4. QED
    BY <2>1, <2>3 DEF Calm, OwnSlots
<1>2. QED
  BY <1>1, Invariance, PTL

(* A reader told of data by BlkCallback, or by the reader before it, finds *)
(* data, until the first sleep cut short or flush. *)
THEOREM ToldFindsData == Spec => []FillHasData
<1>1. IInv => FillHasData
  <2>. SUFFICES ASSUME IInv, calm, NEW r \in Readers, rd[r].result = "FILL"
                PROVE  stored > 0
    BY DEF FillHasData
  <2>1. Calm(notify, rd, stored) /\ RdTypes(rd)
    BY TypeOKSplit DEF IInv
  <2>2. rd[r].pc \in {"woken", "copy"}
    BY <2>1 DEF Calm, AwakeAtHead, RdTypes, RdRecords
  <2>3. rd[r].slot \in Slots /\ notify.inProcess[rd[r].slot]
    BY <2>1, <2>2 DEF Calm, AwakeAtHead, RdTypes
  <2>4. QED
    BY <2>1, <2>3 DEF Calm, HeadOnly
<1>2. QED
  BY <1>1, Invariance, PTL


-----------------------------------------------------------------------------
(***************************************************************************)
(* No wake-up is lost, whatever times out, is interrupted or flushed: a    *)
(* slot in the list has a reader that has not returned; if the slot is     *)
(* marked, such a reader is awake or has an event; and while data is       *)
(* stored the head is marked.                                              *)
(***************************************************************************)
Awake(q, reader) ==
    \/ reader.pc \in {"woken", "copy"}
    \/ reader.pc = "wait" /\ q.events[reader.slot] # {}

Held(q, d) ==
    \A s \in Slots : InList(q, s) =>
        \E r \in Readers : d[r].slot = s /\ d[r].pc # "idle"

Marked(q, d) ==
    \A s \in Slots : InList(q, s) /\ q.inProcess[s] =>
        \E r \in Readers : d[r].slot = s /\ Awake(q, d[r])

Known(q, d) == Distinct(q) /\ Held(q, d) /\ Marked(q, d)

HeadMarked(q, n) == n > 0 /\ q.list # << >> => q.inProcess[Head(q.list)]

ToldInv == TypeOK /\ Known(notify, rd) /\ HeadMarked(notify, stored)

(* RemoveAt drops one element and keeps the order. *)
LEMMA RemoveAtShifts ==
    ASSUME NEW S, NEW l \in Seq(S), NEW i \in 1..Len(l)
    PROVE  /\ Len(RemoveAt(l, i)) = Len(l) - 1
           /\ \A j \in 1..(Len(l) - 1) :
                 RemoveAt(l, i)[j] = IF j < i THEN l[j] ELSE l[j + 1]
<1>. DEFINE before == SubSeq(l, 1, i - 1)
            after  == SubSeq(l, i + 1, Len(l))
<1>1. /\ before \in Seq(S) /\ Len(before) = i - 1
      /\ \A j \in 1..(i - 1) : before[j] = l[j]
  BY ElementOfSeq, LenProperties, SubSeqProperties
<1>2. /\ after \in Seq(S) /\ Len(after) = Len(l) - i
      /\ \A j \in 1..(Len(l) - i) : after[j] = l[j + i]
  BY ElementOfSeq, LenProperties, SubSeqProperties
<1>3. RemoveAt(l, i) = before \o after
  BY DEF RemoveAt
<1>. HIDE DEF before, after
<1>4. /\ Len(before \o after) = Len(before) + Len(after)
      /\ \A j \in 1..(Len(before) + Len(after)) :
            (before \o after)[j] =
               IF j <= Len(before) THEN before[j] ELSE after[j - Len(before)]
  BY <1>1, <1>2, ConcatProperties
<1>5. Len(l) \in Nat
  BY LenProperties
<1>6. ASSUME NEW j \in 1..(Len(l) - 1)
      PROVE  (before \o after)[j] = IF j < i THEN l[j] ELSE l[j + 1]
  <2>1. CASE j < i
    BY <1>1, <1>2, <1>4, <1>5, <2>1
  <2>2. CASE ~(j < i)
    <3>1. (before \o after)[j] = after[j - (i - 1)]
      BY <1>1, <1>2, <1>4, <1>5, <2>2
    <3>2. after[j - (i - 1)] = l[j - (i - 1) + i]
      BY <1>2, <1>5, <2>2
    <3>3. QED
      BY <2>2, <3>1, <3>2, <1>5
  <2>3. QED
    BY <2>1, <2>2
<1>7. QED
  BY <1>1, <1>2, <1>3, <1>4, <1>5, <1>6

(* RemoveNotification takes one slot out of the list. *)
LEMMA RemoveKeeps ==
    ASSUME NEW q \in Records, Distinct(q), NEW s \in Slots,
           NEW p, p = RemoveNotification(q, s)
    PROVE  /\ Distinct(p) /\ ~InList(p, s)
           /\ \A t \in Slots : InList(p, t) => InList(q, t)
           /\ \A t \in Slots \ {s} : p.inProcess[t] = q.inProcess[t]
           /\ p.events = q.events
<1>1. CASE ~InList(q, s)
  BY <1>1 DEF RemoveNotification
<1>2. CASE InList(q, s)
  <2>. DEFINE i == CHOOSE k \in 1..Len(q.list) : q.list[k] = s
  <2>1. i \in 1..Len(q.list) /\ q.list[i] = s
    BY <1>2 DEF InList
  <2>2. p = [q EXCEPT !.list = RemoveAt(q.list, i), !.inProcess[s] = FALSE]
    BY <1>2 DEF RemoveNotification
  <2>. HIDE DEF i
  <2>3. q.list \in Seq(Slots) /\ Len(q.list) \in Nat
    BY LenProperties DEF Records
  <2>4. /\ p.list = RemoveAt(q.list, i) /\ p.events = q.events
        /\ p.inProcess = [q.inProcess EXCEPT ![s] = FALSE]
    BY <2>2 DEF Records
  <2>5. /\ Len(p.list) = Len(q.list) - 1
        /\ \A j \in 1..Len(p.list) :
              p.list[j] = IF j < i THEN q.list[j] ELSE q.list[j + 1]
    <3>1. /\ Len(RemoveAt(q.list, i)) = Len(q.list) - 1
          /\ \A j \in 1..(Len(q.list) - 1) :
                RemoveAt(q.list, i)[j] =
                   IF j < i THEN q.list[j] ELSE q.list[j + 1]
      BY <2>1, <2>3, RemoveAtShifts
    <3>2. QED
      BY <2>4, <3>1
  <2>. DEFINE from(j) == IF j < i THEN j ELSE j + 1
  <2>6. ASSUME NEW j \in 1..Len(p.list)
        PROVE  /\ from(j) \in 1..Len(q.list) /\ from(j) # i
               /\ p.list[j] = q.list[from(j)]
    BY <2>1, <2>3, <2>5
  <2>7. ASSUME NEW j \in 1..Len(p.list), NEW k \in 1..Len(p.list),
               from(j) = from(k)
        PROVE  j = k
    BY <2>1, <2>3, <2>5, <2>7
  <2>. HIDE DEF from
  <2>8. Distinct(p)
    BY <2>6, <2>7 DEF Distinct
  <2>9. ~InList(p, s)
    BY <2>1, <2>6 DEF Distinct, InList
  <2>10. \A t \in Slots : InList(p, t) => InList(q, t)
    BY <2>6 DEF InList
  <2>11. \A t \in Slots \ {s} : p.inProcess[t] = q.inProcess[t]
    BY <2>4 DEF Records
  <2>12. QED
    BY <2>4, <2>8, <2>9, <2>10, <2>11
<1>3. QED
  BY <1>1, <1>2

(* The head of a list is in it. *)
LEMMA HeadInList ==
    ASSUME NEW q \in Records, q.list # << >>
    PROVE  Head(q.list) \in Slots /\ InList(q, Head(q.list))
<1>1. Len(q.list) \in Nat \ {0} /\ q.list \in Seq(Slots)
  BY EmptySeq DEF Records
<1>2. Head(q.list) = q.list[1] /\ 1 \in 1..Len(q.list)
  BY <1>1, HeadTailProperties
<1>3. QED
  BY <1>1, <1>2, ElementOfSeq DEF InList

(* NotifyUserRequest wakes the reader that holds the head; asked for no    *)
(* slot in particular, it leaves no unmarked head behind. *)
LEMMA NotifyKnown ==
    ASSUME NEW q \in Records, NEW d, RdTypes(d), Known(q, d),
           NEW n \in Nat, NEW evt, NEW p, p = NotifyUserRequest(q, n, evt)
    PROVE  /\ Known(p, d)
           /\ evt = NONE \/ HeadMarked(q, n) => HeadMarked(p, n)
<1>. DEFINE h == Head(q.list)
<1>1. CASE p = q
  BY <1>1 DEF HeadMarked, NotifyUserRequest, Records
<1>2. CASE /\ q.list # << >> /\ n > 0 /\ h \in Slots
           /\ p.list = q.list
           /\ p.inProcess = [q.inProcess EXCEPT ![h] = TRUE]
           /\ p.events = [q.events EXCEPT ![h] = @ \cup {"FILL"}]
  <2>1. /\ \A s \in Slots : InList(p, s) <=> InList(q, s)
        /\ Distinct(p) /\ Held(p, d)
    BY <1>2 DEF Known, Distinct, Held, InList
  <2>2. /\ p.events[h] # {}
        /\ \A s \in Slots : q.events[s] \subseteq p.events[s]
        /\ \A s \in Slots : s # h => p.inProcess[s] = q.inProcess[s]
        /\ p.inProcess[h]
    <3>1. /\ q.events \in [Slots -> SUBSET {"CANCEL", "FILL"}]
          /\ q.inProcess \in [Slots -> BOOLEAN]
      BY DEF Records
    <3>2. p.events[h] = q.events[h] \cup {"FILL"} /\ p.inProcess[h]
      BY <1>2, <3>1
    <3>3. \A s \in Slots : s # h => /\ p.events[s] = q.events[s]
                                    /\ p.inProcess[s] = q.inProcess[s]
      BY <1>2, <3>1
    <3>4. QED
      BY <1>2, <3>2, <3>3
  <2>3. \A r \in Readers : d[r].pc = "wait" => d[r].slot \in Slots
    BY DEF RdTypes
  <2>4. InList(q, h)
    BY <1>2, HeadInList
  <2>. HIDE DEF h
  <2>5. ASSUME NEW s \in Slots, InList(p, s), p.inProcess[s]
        PROVE  \E r \in Readers : d[r].slot = s /\ Awake(p, d[r])
    <3>1. CASE s = h
      <4>1. PICK r \in Readers : d[r].slot = h /\ d[r].pc # "idle"
        BY <1>2, <2>4 DEF Known, Held
      <4>2. Awake(p, d[r])
        BY <2>2, <4>1 DEF Awake, RdTypes, RdRecords
      <4>3. QED
        BY <3>1, <4>1, <4>2
    <3>2. CASE s # h
      <4>1. PICK r \in Readers : d[r].slot = s /\ Awake(q, d[r])
        BY <2>1, <2>2, <2>5, <3>2 DEF Known, Marked
      <4>2. Awake(p, d[r])
        BY <2>2, <2>3, <4>1 DEF Awake
      <4>3. QED
        BY <4>1, <4>2
    <3>3. QED
      BY <3>1, <3>2
  <2>6. Marked(p, d)
    BY <2>5 DEF Marked
  <2>7. HeadMarked(p, n)
    BY <1>2, <2>2 DEF HeadMarked, h
  <2>8. QED
    BY <2>1, <2>6, <2>7 DEF Known
<1>3. QED
  BY <1>1, <1>2, NotifyMarksHead

(* A reader goes on and may take the event of its slot: it is awake.       *)
LEMMA MoveKnown ==
    ASSUME NEW q, NEW d, Known(q, d), NEW r \in Readers,
           NEW p, p.list = q.list, p.inProcess = q.inProcess,
           \A t \in Slots \ {d[r].slot} : p.events[t] = q.events[t],
           NEW e, e[r].slot = d[r].slot, e[r].pc \in {"woken", "copy"},
           \A t \in Readers \ {r} : e[t] = d[t]
    PROVE  Known(p, e)
<1>1. \A s : InList(p, s) <=> InList(q, s)
  BY DEF InList
<1>2. Distinct(p)
  BY DEF Known, Distinct
<1>3. Held(p, e)
  <2>. SUFFICES ASSUME NEW s \in Slots, InList(p, s)
                PROVE  \E w \in Readers : e[w].slot = s /\ e[w].pc # "idle"
    BY DEF Held
  <2>1. PICK w \in Readers : d[w].slot = s /\ d[w].pc # "idle"
    BY <1>1 DEF Known, Held
  <2>2. QED
    BY <2>1
<1>4. Marked(p, e)
  <2>. SUFFICES ASSUME NEW s \in Slots, InList(p, s), p.inProcess[s]
                PROVE  \E w \in Readers : e[w].slot = s /\ Awake(p, e[w])
    BY DEF Marked
  <2>1. PICK w \in Readers : d[w].slot = s /\ Awake(q, d[w])
    BY <1>1 DEF Known, Marked
  <2>2. CASE s = d[r].slot
    BY <2>2 DEF Awake
  <2>3. CASE s # d[r].slot
    <3>1. e[w] = d[w] /\ p.events[s] = q.events[s]
      BY <2>1, <2>3
    <3>2. QED
      BY <2>1, <3>1 DEF Awake
  <2>4. QED
    BY <2>2, <2>3
<1>5. QED
  BY <1>2, <1>3, <1>4 DEF Known

(* A reader returns: its slot leaves the list, and the others keep their   *)
(* readers. *)
LEMMA ReturnKnown ==
    ASSUME NEW q \in Records, NEW d, RdTypes(d), Known(q, d),
           NEW r \in Readers, d[r].pc # "idle",
           NEW p, p = RemoveNotification(q, d[r].slot),
           NEW e, e = [d EXCEPT ![r] = NotReading]
    PROVE  Known(p, e)
<1>1. d[r].slot \in Slots
  BY DEF RdTypes
<1>2. /\ Distinct(p) /\ ~InList(p, d[r].slot)
      /\ \A t \in Slots : InList(p, t) => InList(q, t)
      /\ \A t \in Slots \ {d[r].slot} : p.inProcess[t] = q.inProcess[t]
      /\ p.events = q.events
  BY <1>1, RemoveKeeps DEF Known
<1>3. \A t \in Readers \ {r} : e[t] = d[t]
  BY DEF RdTypes
<1>4. Held(p, e)
  <2>. SUFFICES ASSUME NEW s \in Slots, InList(p, s)
                PROVE  \E w \in Readers : e[w].slot = s /\ e[w].pc # "idle"
    BY DEF Held
  <2>1. PICK w \in Readers : d[w].slot = s /\ d[w].pc # "idle"
    BY <1>2 DEF Known, Held
  <2>2. QED
    BY <1>2, <1>3, <2>1
<1>5. Marked(p, e)
  <2>. SUFFICES ASSUME NEW s \in Slots, InList(p, s), p.inProcess[s]
                PROVE  \E w \in Readers : e[w].slot = s /\ Awake(p, e[w])
    BY DEF Marked
  <2>1. s # d[r].slot /\ InList(q, s) /\ q.inProcess[s]
    BY <1>2
  <2>2. PICK w \in Readers : d[w].slot = s /\ Awake(q, d[w])
    BY <2>1 DEF Known, Marked
  <2>3. QED
    BY <1>2, <1>3, <2>1, <2>2 DEF Awake
<1>6. QED
  BY <1>2, <1>4, <1>5 DEF Known

(* The end of ReadSyncBlk: the next reader at the head is told. *)
LEMMA LeaveTold ==
    ASSUME NEW q \in Records, RdTypes(rd), Known(q, rd), NEW r \in Readers,
           rd[r].pc # "idle", NEW n \in Nat, Leave(r, q, n)
    PROVE  Known(notify', rd') /\ HeadMarked(notify', n)
<1>. DEFINE p == RemoveNotification(q, rd[r].slot)
<1>1. rd' = [rd EXCEPT ![r] = NotReading]
      /\ notify' = NotifyUserRequest(p, n, NONE)
  BY DEF Leave
<1>2. p \in Records /\ RdTypes(rd')
  BY LeaveTypes, RemoveTypes DEF RdTypes
<1>3. Known(p, rd')
  BY <1>1, ReturnKnown
<1>. HIDE DEF p
<1>4. QED
  BY <1>1, <1>2, <1>3, NotifyKnown

(* A reader enters: its slot was not in the list, and it is told itself if *)
(* it is at the head. *)
LEMMA ReadTold ==
    ASSUME ToldInv, NEW r \in Readers, NEW s \in Slots, ReadSyncBlk(r, s)
    PROVE  Known(notify', rd') /\ HeadMarked(notify', stored)
<1>. DEFINE q == AddToNotifyList(notify, s)
            me == [NotReading EXCEPT !.pc = "wait", !.slot = s]
<1>1. /\ stored \in Nat /\ notify \in Records /\ RdTypes(rd)
  BY TypeOKSplit, PoolAssumption DEF ToldInv
<1>2. /\ q \in Records /\ q.list = Append(notify.list, s)
      /\ q.inProcess = [notify.inProcess EXCEPT ![s] = FALSE]
      /\ q.events = notify.events
  BY <1>1, AddTypes
<1>3. /\ notify' = NotifyUserRequest(q, stored, s)
      /\ rd[r].pc = "idle" /\ ~InList(notify, s)
      /\ rd' = [rd EXCEPT ![r] = me]
  BY DEF ReadSyncBlk, FreeSlots
<1>4. /\ me.pc = "wait" /\ me.slot = s /\ me \in RdRecords
  BY DEF NotReading, RdRecords
<1>. HIDE DEF q, me
<1>5. /\ rd'[r] = me /\ \A t \in Readers \ {r} : rd'[t] = rd[t]
      /\ RdTypes(rd')
  BY <1>1, <1>3, <1>4 DEF RdTypes
<1>6. /\ notify.list \in Seq(Slots) /\ Len(notify.list) \in Nat
      /\ Len(q.list) = Len(notify.list) + 1
      /\ q.list[Len(notify.list) + 1] = s
      /\ \A i \in 1..Len(notify.list) : q.list[i] = notify.list[i]
  BY <1>1, <1>2, AppendProperties, LenProperties DEF Records
<1>7. \A i \in 1..Len(notify.list) : notify.list[i] # s
  BY <1>3 DEF InList
<1>8. Distinct(q)
  <2>. SUFFICES ASSUME NEW i \in 1..Len(q.list), NEW j \in 1..Len(q.list),
                       q.list[i] = q.list[j]
                PROVE  i = j
    BY DEF Distinct
  <2>1. i \in 1..Len(notify.list) \/ i = Len(notify.list) + 1
    BY <1>6
  <2>2. j \in 1..Len(notify.list) \/ j = Len(notify.list) + 1
    BY <1>6
  <2>3. CASE i \in 1..Len(notify.list) /\ j \in 1..Len(notify.list)
    <3>1. notify.list[i] = notify.list[j]
      BY <1>6, <2>3
    <3>2. QED
      BY <2>3, <3>1 DEF ToldInv, Known, Distinct
  <2>4. QED
    BY <1>6, <1>7, <2>1, <2>2, <2>3
<1>9. \A t \in Slots : InList(q, t) => t = s \/ (t # s /\ InList(notify, t))
  <2>. SUFFICES ASSUME NEW t \in Slots, NEW i \in 1..Len(q.list),
                       q.list[i] = t, t # s
                PROVE  InList(notify, t)
    BY DEF InList
  <2>1. i \in 1..Len(notify.list)
    BY <1>6
  <2>2. QED
    BY <1>6, <2>1 DEF InList
<1>10. Held(q, rd')
  <2>1. ASSUME NEW t \in Slots, InList(notify, t)
        PROVE  \E w \in Readers : rd'[w].slot = t /\ rd'[w].pc # "idle"
    <3>1. PICK w \in Readers : rd[w].slot = t /\ rd[w].pc # "idle"
      BY <2>1 DEF ToldInv, Known, Held
    <3>2. QED
      BY <1>3, <1>5, <3>1
  <2>2. QED
    BY <1>4, <1>5, <1>9, <2>1 DEF Held
<1>11. Marked(q, rd')
  <2>. SUFFICES ASSUME NEW t \in Slots, InList(q, t), q.inProcess[t]
                PROVE  \E w \in Readers : rd'[w].slot = t /\ Awake(q, rd'[w])
    BY DEF Marked
  <2>1. t # s /\ notify.inProcess[t]
    BY <1>1, <1>2 DEF Records
  <2>2. PICK w \in Readers : rd[w].slot = t /\ Awake(notify, rd[w])
    BY <1>9, <2>1 DEF ToldInv, Known, Marked
  <2>3. w # r
    BY <1>3, <2>2 DEF Awake
  <2>4. QED
    BY <1>2, <1>5, <2>2, <2>3 DEF Awake
<1>12. Known(notify', rd')
  BY <1>1, <1>2, <1>3, <1>5, <1>8, <1>10, <1>11, NotifyKnown DEF Known
<1>13. HeadMarked(notify', stored)
  <2>1. CASE notify.list = << >>
    <3>1. Head(q.list) = s /\ q.list # << >> /\ ~q.inProcess[s]
      BY <1>1, <1>2, <1>6, <2>1, EmptySeq, HeadTailProperties DEF Records
    <3>2. CASE stored > 0
      <4>1. notify' = [q EXCEPT !.inProcess[s] = TRUE,
                                !.events[s] = @ \cup {"FILL"}]
        BY <1>3, <3>1, <3>2 DEF NotifyUserRequest
      <4>2. notify'.list = q.list /\ notify'.inProcess[s]
        BY <1>2, <4>1 DEF Records
      <4>3. QED
        BY <3>1, <4>2 DEF HeadMarked
    <3>3. QED
      BY <3>2 DEF HeadMarked
  <2>2. CASE notify.list # << >>
    <3>1. Head(notify.list) \in Slots /\ InList(notify, Head(notify.list))
      BY <1>1, <2>2, HeadInList
    <3>2. q.list # << >> /\ Head(q.list) = Head(notify.list)
      BY <1>1, <1>2, <1>6, <2>2, AppendProperties, EmptySeq,
         HeadTailProperties DEF Records
    <3>3. q.inProcess[Head(q.list)] = notify.inProcess[Head(q.list)]
      BY <1>1, <1>2, <1>3, <3>1, <3>2 DEF Records
    <3>4. HeadMarked(q, stored)
      BY <2>2, <3>2, <3>3 DEF ToldInv, HeadMarked
    <3>5. QED
      BY <1>1, <1>2, <1>3, <1>5, <1>8, <1>10, <1>11, <3>4, NotifyKnown
         DEF Known
  <2>3. QED
    BY <2>1, <2>2
<1>14. QED
  BY <1>12, <1>13

(* ClearEvent changes the events of one slot only. *)
LEMMA ClearKeeps ==
    ASSUME NEW q \in Records, NEW s \in Slots, NEW evt,
           NEW p, p = ClearEvent(q, s, evt)
    PROVE  /\ p \in Records /\ p.list = q.list /\ p.inProcess = q.inProcess
           /\ \A t \in Slots \ {s} : p.events[t] = q.events[t]
<1>1. /\ p \in Records /\ p.list = q.list /\ p.inProcess = q.inProcess
      /\ p.events = [q.events EXCEPT ![s] = @ \ {evt}]
  BY ClearTypes
<1>2. q.events \in [Slots -> SUBSET {"CANCEL", "FILL"}]
  BY DEF Records
<1>3. QED
  BY <1>1, <1>2

(* A reader wakes, by an event or without one, or starts its copy. *)
LEMMA AwakeTold ==
    ASSUME ToldInv, NEW r \in Readers,
           WaitEvent(r) \/ WaitExpires(r) \/ BeginCopy(r)
    PROVE  Known(notify', rd') /\ HeadMarked(notify', stored) /\ stored' = stored
<1>1. notify \in Records /\ RdTypes(rd) /\ rd[r].pc # "idle"
  BY TypeOKSplit DEF ToldInv, WaitEvent, WaitExpires, BeginCopy
<1>2. /\ rd'[r].slot = rd[r].slot /\ rd'[r].pc \in {"woken", "copy"}
      /\ \A t \in Readers \ {r} : rd'[t] = rd[t]
  BY <1>1 DEF WaitEvent, WaitExpires, BeginCopy, RdTypes, RdRecords
<1>3. rd[r].slot \in Slots
  BY <1>1 DEF RdTypes
<1>4. /\ notify'.list = notify.list /\ notify'.inProcess = notify.inProcess
      /\ \A t \in Slots \ {rd[r].slot} : notify'.events[t] = notify.events[t]
  <2>1. CASE notify' = notify
    BY <2>1
  <2>2. CASE notify' = ClearEvent(notify, rd[r].slot, "FILL")
    BY <1>1, <1>3, <2>2, ClearKeeps
  <2>3. QED
    BY <2>1, <2>2 DEF WaitEvent, WaitExpires, BeginCopy
<1>5. Known(notify', rd')
  BY <1>2, <1>4, MoveKnown DEF ToldInv
<1>6. QED
  BY <1>4, <1>5 DEF ToldInv, HeadMarked, WaitEvent, WaitExpires, BeginCopy

(* A reader leaves without a copy: it tells the next one. *)
LEMMA WithoutTold ==
    ASSUME ToldInv, NEW r \in Readers, LeaveWithoutData(r)
    PROVE  Known(notify', rd') /\ HeadMarked(notify', stored')
<1>. DEFINE q == IF rd[r].result = "none" THEN notify
                 ELSE ClearEvent(notify, rd[r].slot, rd[r].result)
<1>1. stored \in Nat /\ notify \in Records /\ RdTypes(rd)
  BY TypeOKSplit, PoolAssumption DEF ToldInv
<1>2. rd[r].pc = "woken" /\ Leave(r, q, stored) /\ stored' = stored
  BY DEF LeaveWithoutData
<1>3. rd[r].slot \in Slots
  BY <1>1, <1>2 DEF RdTypes
<1>4. /\ q \in Records /\ q.list = notify.list
      /\ q.inProcess = notify.inProcess
      /\ \A t \in Slots \ {rd[r].slot} : q.events[t] = notify.events[t]
  <2>1. CASE rd[r].result = "none"
    BY <1>1, <2>1
  <2>2. CASE rd[r].result # "none"
    <3>1. q = ClearEvent(notify, rd[r].slot, rd[r].result)
      BY <2>2
    <3>2. QED
      BY <1>1, <1>3, <3>1, ClearKeeps
  <2>3. QED
    BY <2>1, <2>2
<1>. HIDE DEF q
<1>5. Known(q, rd)
  BY <1>2, <1>4, MoveKnown DEF ToldInv
<1>6. QED
  BY <1>1, <1>2, <1>4, <1>5, LeaveTold

(* A copy ends. *)
LEMMA EndTold ==
    ASSUME ToldInv, NEW r \in Readers, NEW left \in 0..MaxStored,
           NEW popped \in BOOLEAN, EndCopy(r, left, popped)
    PROVE  Known(notify', rd') /\ HeadMarked(notify', stored')
<1>. DEFINE q == IF popped THEN NotifyUserRequest(notify, left, NONE) ELSE notify
<1>1. left \in Nat /\ notify \in Records /\ RdTypes(rd)
  BY TypeOKSplit, PoolAssumption DEF ToldInv
<1>2. rd[r].pc = "copy" /\ Leave(r, q, left) /\ stored' = left
  BY DEF EndCopy
<1>3. q \in Records
  BY <1>1, NotifyMarksHead
<1>4. Known(q, rd)
  BY <1>1, NotifyKnown DEF ToldInv
<1>. HIDE DEF q
<1>5. QED
  BY <1>1, <1>2, <1>3, <1>4, LeaveTold

(* Data arrives: the head is told, if it was not already. *)
LEMMA CallbackTold ==
    ASSUME ToldInv, NEW n \in 1..MaxStored, BlkCallback(n)
    PROVE  Known(notify', rd') /\ HeadMarked(notify', stored')
<1>1. stored \in Nat /\ n \in Nat /\ notify \in Records /\ RdTypes(rd)
  BY TypeOKSplit, PoolAssumption DEF ToldInv
<1>2. stored' = stored + n /\ rd' = rd
  BY DEF BlkCallback
<1>3. CASE notify' = NotifyUserRequest(notify, stored + n, NONE)
  BY <1>1, <1>2, <1>3, NotifyKnown DEF ToldInv
<1>4. CASE stored > 0 /\ notify' = notify
  BY <1>1, <1>2, <1>4 DEF ToldInv, HeadMarked
<1>5. QED
  BY <1>2, <1>3, <1>4 DEF BlkCallback

(* A flush empties the list. *)
LEMMA FlushTold ==
    ASSUME ToldInv, UserspaceQTIDevFlush
    PROVE  Known(notify', rd') /\ HeadMarked(notify', stored')
<1>1. notify'.list = << >> /\ Len(notify'.list) = 0
  BY DEF UserspaceQTIDevFlush, ClearNotifyList
<1>2. \A s : ~InList(notify', s)
  BY <1>1 DEF InList
<1>3. Distinct(notify')
  BY <1>1 DEF Distinct
<1>4. QED
  BY <1>1, <1>2, <1>3 DEF Known, Held, Marked, HeadMarked

LEMMA ToldSteps ==
    ASSUME ToldInv, [Next]_vars
    PROVE  Known(notify', rd') /\ HeadMarked(notify', stored')
<1>1. CASE \E r \in Readers, s \in Slots : ReadSyncBlk(r, s)
  BY <1>1, ReadTold DEF ReadSyncBlk
<1>2. CASE \E r \in Readers : WaitExpires(r)
  BY <1>2, AwakeTold
<1>3. CASE \E r \in Readers : Proceed(r)
  BY <1>3, AwakeTold, WithoutTold, EndTold DEF Proceed
<1>4. CASE \E n \in 1..MaxStored : BlkCallback(n)
  BY <1>4, CallbackTold
<1>5. CASE UserspaceQTIDevFlush
  BY <1>5, FlushTold
<1>6. CASE UNCHANGED vars
  BY <1>6 DEF vars, ToldInv
<1>7. QED
  BY <1>1, <1>2, <1>3, <1>4, <1>5, <1>6 DEF Next

(* No wake-up is lost: while data is stored, the reader at the head of the *)
(* notify list is awake or has an event, although only some callbacks      *)
(* announce data, and readers time out, are interrupted or are cancelled.  *)
THEOREM WakeUpKept == Spec => []HeadIsTold
<1>1. Init => Known(notify, rd) /\ HeadMarked(notify, stored)
  BY DEF Init, Known, Distinct, Held, Marked, HeadMarked, InList
<1>2. TypeOK /\ Known(notify, rd) /\ HeadMarked(notify, stored)
      /\ [Next]_vars => (Known(notify, rd) /\ HeadMarked(notify, stored))'
  <2>1. ASSUME TypeOK, Known(notify, rd), HeadMarked(notify, stored),
               [Next]_vars
        PROVE  Known(notify', rd') /\ HeadMarked(notify', stored')
    BY <2>1, ToldSteps DEF ToldInv
  <2>2. QED
    BY <2>1 DEF Known, Distinct, Held, Marked, HeadMarked, InList, Awake
<1>3. TypeOK /\ Known(notify, rd) /\ HeadMarked(notify, stored) => HeadIsTold
  <2>. SUFFICES ASSUME TypeOK, Known(notify, rd), HeadMarked(notify, stored),
                       stored > 0, notify.list # << >>
                PROVE  \E r \in Readers :
                          rd[r].slot = Head(notify.list) /\ Told(r)
    BY DEF HeadIsTold
  <2>1. Head(notify.list) \in Slots /\ InList(notify, Head(notify.list))
    BY HeadInList, TypeOKSplit
  <2>2. PICK r \in Readers :
           rd[r].slot = Head(notify.list) /\ Awake(notify, rd[r])
    BY <2>1 DEF Known, Marked, HeadMarked
  <2>3. QED
    BY <2>2 DEF Awake, Told
<1>4. QED
  BY <1>1, <1>2, <1>3, TypeCorrect, PTL DEF Spec

=============================================================================
