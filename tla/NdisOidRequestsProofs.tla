----------------------- MODULE NdisOidRequestsProofs -----------------------
(***************************************************************************)
(* Theorems about NdisOidRequests, for any number of services, OIDs,       *)
(* control reads, requests, resets and failed allocations.                 *)
(***************************************************************************)
EXTENDS NdisOidRequests, SequenceTheorems, FiniteSetTheorems, TLAPS

CallerRecords == [pc : {"idle", "taken", "failed"}, req : 0..MaxRequests,
                  id : BOOLEAN, oid : Oids \cup {NONE}]

Messages == [req : 0..MaxRequests, step : Nat, svc : Services]

OidRecords == [req : 0..MaxRequests, ref : 0..MaxRequests, async : BOOLEAN,
               queue : Seq(Messages)]

RequestRecords ==
    [state : {"new", "given", "pending", "later", "failed", "aborted",
              "answered"},
     addr : 0..MaxRequests, by : 0..MaxRequests]

ReadRecords == [free : Int, pending : Nat, irps : Int, doomed : Int,
                purge : BOOLEAN]

(* The steps at which the work thread has a message to send or to find the *)
(* OID of, an OID, a completed read.                                       *)
WithMessage == {"send", "inbound", "find", "process"}
WithOid == {"process", "unlink", "complete", "free"}
WithRead == {"inbound", "find", "process", "unlink", "complete", "free",
             "repost"}

Steps == WithRead \cup {"wait", "reads", "post", "writes", "send", "sent",
                        "resolve"}

WorkerRecords ==
    [pc : Steps, more : BOOLEAN, msg : Messages \cup {NoMsg},
     oid : Oids \cup {NONE}]

(* The variables have their types, group by group. *)
OidTypes ==
    /\ OIDFreeList \in Seq(Oids) /\ OIDWaitingList \in Seq(Oids)
    /\ oid \in [Oids -> OidRecords]
    /\ nBusyOID \in Int

NdisTypes ==
    /\ OidRequestList \subseteq Requests
    /\ ndis \in [Requests -> RequestRecords]
    /\ caller \in CallerRecords
    /\ caller.pc # "idle" => caller.req \in Requests /\ caller.oid \in Oids

MessageTypes ==
    /\ CtrlWriteList \in Seq(Messages)
    /\ CtrlWritePendingList \in Seq(Messages)
    /\ CtrlReadCompleteList \in Seq(Messages)
    /\ atModem \in SUBSET Messages /\ IsFiniteSet(atModem)
    /\ sends \in Nat

CountTypes ==
    /\ PendingCtrlRequests \in [Services -> Int]
    /\ forgot \in [Services -> Nat]
    /\ nBusyWrite \in Int /\ nBusyRCtrl \in Int
    /\ reads \in ReadRecords

WorkerTypes ==
    /\ worker \in WorkerRecords
    /\ worker.pc \in WithMessage \cup WithOid => worker.msg \in Messages
    /\ worker.pc \in WithOid => worker.oid \in Oids

ResetRecords ==
    [pc : {"none", "start", "wait", "writes", "oids", "cancel", "empty",
           "timeout"},
     count : Nat]

ResetTypes == reset \in ResetRecords /\ resetting \in BOOLEAN

Types ==
    /\ OidTypes /\ NdisTypes /\ MessageTypes /\ CountTypes /\ WorkerTypes
    /\ ResetTypes
    /\ health \in {"sound", "lossy", "over"}

(* The messages that were not handed to the handler of their answer yet.   *)
HeldMessages == IF worker.pc \in WithMessage THEN {worker.msg} ELSE {}

LiveMessages ==
    ToSet(CtrlWriteList) \cup ToSet(CtrlWritePendingList) \cup atModem
        \cup ToSet(CtrlReadCompleteList) \cup HeldMessages

InOnePlace ==
    /\ IsInjective(CtrlWriteList) /\ IsInjective(CtrlWritePendingList)
    /\ IsInjective(CtrlReadCompleteList)
    /\ ToSet(CtrlWriteList) \cap ToSet(CtrlWritePendingList) = {}
    /\ (ToSet(CtrlWriteList) \cup ToSet(CtrlWritePendingList))
          \cap (atModem \cup ToSet(CtrlReadCompleteList)) = {}
    /\ atModem \cap ToSet(CtrlReadCompleteList) = {}
    /\ HeldMessages \cap (ToSet(CtrlWriteList) \cup ToSet(CtrlWritePendingList)
            \cup atModem \cup ToSet(CtrlReadCompleteList)) = {}

Started(r) == ndis[r].state # "new"

OneMessage ==
    /\ \A m, n \in LiveMessages :
          m.req = n.req /\ (m.req = 0 => m.step = n.step) => m = n
    /\ \A m \in LiveMessages : IF m.req = 0 THEN m.step <= sends
                                            ELSE Started(m.req)
    /\ caller.pc = "taken" =>
          /\ oid[caller.oid].queue # << >>
          /\ Last(oid[caller.oid].queue).req = caller.req
          /\ \A m \in LiveMessages : m.req # caller.req

InTurn ==
    /\ \E k \in 0..MaxRequests : \A r \in Requests : Started(r) <=> r <= k
    /\ \A r \in OidRequestList : Started(r)
    /\ \A o \in Oids : oid[o].req # 0 => Started(oid[o].req)
    /\ caller.pc # "idle" => Started(caller.req)

ReadsCounted ==
    /\ nBusyRCtrl = reads.pending + Len(CtrlReadCompleteList)
                      + (IF worker.pc \in WithRead THEN 1 ELSE 0)
    /\ resetting <=>
          reset.pc \in {"wait", "writes", "oids", "cancel", "empty", "timeout"}
    /\ reset.pc = "empty" => nBusyRCtrl = 0

WritesCounted ==
    nBusyWrite = Len(CtrlWriteList) + Len(CtrlWritePendingList)
                   + (IF worker.pc \in {"send", "sent"} THEN 1 ELSE 0)

OidInList ==
    /\ IsInjective(OIDFreeList) /\ IsInjective(OIDWaitingList)
    /\ ToSet(OIDFreeList) \cap ToSet(OIDWaitingList) = {}
    /\ caller.pc = "taken" =>
          /\ caller.oid \notin ToSet(OIDFreeList) \cup ToSet(OIDWaitingList)
          /\ worker.pc \in WithOid => worker.oid # caller.oid
    /\ worker.pc \in {"complete", "free"} =>
          worker.oid \notin ToSet(OIDFreeList) \cup ToSet(OIDWaitingList)
    /\ worker.pc \in {"process", "unlink"} =>
          \/ worker.oid \in ToSet(OIDWaitingList)
          \/ /\ worker.oid \in ToSet(OIDFreeList)
             /\ resetting /\ health # "sound"

Owed ==
    \A s \in Services :
        /\ Cardinality(Outstanding(s)) <= PendingCtrlRequests[s] + forgot[s]
        /\ PendingCtrlRequests[s] <= MaxPendingQMIReqs
        /\ worker.pc = "send" /\ worker.msg.svc = s =>
              PendingCtrlRequests[s] < MaxPendingQMIReqs

OidsCounted ==
    nBusyOID = Cardinality(Oids) - Len(OIDFreeList)
                        + (IF caller.pc = "failed" THEN 1 ELSE 0)

InUse == ToSet(OIDWaitingList)
           \cup (IF caller.pc = "taken" THEN {caller.oid} ELSE {})
           \cup (IF worker.pc = "complete" THEN {worker.oid} ELSE {})

OidServes(o) ==
    LET q == oid[o].req
    IN  /\ q \in Requests /\ oid[o].ref = ndis[q].addr /\ oid[o].ref # 0
        /\ \A m \in ToSet(oid[o].queue) : m.req = q
        /\ IF caller.pc = "taken" /\ o = caller.oid
           THEN q = caller.req
           ELSE IF oid[o].async
                THEN ndis[q].state = "later"
                ELSE q \in OidRequestList \/ EndedWithout(q)

Served ==
    /\ \A o \in InUse : OidServes(o)
    /\ \A o, p \in InUse : oid[o].req = oid[p].req => o = p
    /\ \A o \in ToSet(OIDFreeList) : oid[o].queue = << >>
    /\ worker.pc \in {"process", "unlink", "complete"} =>
          worker.msg.req = oid[worker.oid].req
    /\ OidRequestList = {r \in Requests : ndis[r].state = "pending"}
    /\ \A q, r \in OidRequestList : q = r
    /\ caller.pc # "idle" => /\ OidRequestList = {}
                             /\ ndis[caller.req].state = "given"
    /\ OwnAnswer

Orderly ==
    /\ InOnePlace /\ OneMessage /\ InTurn
    /\ ReadsCounted /\ WritesCounted /\ OidInList

Invariant ==
    /\ Types /\ Owed
    /\ health # "over" => Orderly
    /\ health = "sound" => OidsCounted /\ Served

-----------------------------------------------------------------------------
(* Lists: what InitializeListHead, InsertTailList, RemoveHeadList, the move *)
(* of a whole list and RemoveEntryList do to the set of the entries.       *)
LEMMA ListEmpty ==
    ASSUME NEW S
    PROVE  << >> \in Seq(S) /\ ToSet(<< >>) = {} /\ IsInjective(<< >>)
BY DEF ToSet, IsInjective

LEMMA ListAppend ==
    ASSUME NEW S, NEW s \in Seq(S), NEW e \in S
    PROVE  /\ Append(s, e) \in Seq(S) /\ Append(s, e) # << >>
           /\ Len(Append(s, e)) = Len(s) + 1
           /\ ToSet(Append(s, e)) = ToSet(s) \cup {e}
           /\ Last(Append(s, e)) = e
           /\ IsInjective(s) /\ e \notin ToSet(s) => IsInjective(Append(s, e))
<1>. DEFINE t == Append(s, e)
<1>1. /\ t \in Seq(S) /\ t # << >> /\ Len(t) = Len(s) + 1
      /\ \A i \in 1..Len(s) : t[i] = s[i]
      /\ t[Len(s) + 1] = e /\ Len(s) \in Nat
      /\ DOMAIN t = 1..(Len(s) + 1) /\ DOMAIN s = 1..Len(s)
  BY AppendProperties, LenProperties
<1>. HIDE DEF t
<1>2. ToSet(t) = ToSet(s) \cup {e}
  BY <1>1 DEF ToSet
<1>3. Last(t) = e
  BY <1>1 DEF Last
<1>4. IsInjective(s) /\ e \notin ToSet(s) => IsInjective(t)
  BY <1>1 DEF ToSet, IsInjective
<1>5. QED
  BY <1>1, <1>2, <1>3, <1>4 DEF t

LEMMA ListTail ==
    ASSUME NEW S, NEW s \in Seq(S), s # << >>
    PROVE  /\ Head(s) \in S /\ Head(s) \in ToSet(s)
           /\ Tail(s) \in Seq(S) /\ Len(Tail(s)) = Len(s) - 1
           /\ ToSet(s) = ToSet(Tail(s)) \cup {Head(s)}
           /\ IsInjective(s) => /\ IsInjective(Tail(s))
                                /\ Head(s) \notin ToSet(Tail(s))
<1>. DEFINE t == Tail(s)
<1>1. /\ t \in Seq(S) /\ Len(t) = Len(s) - 1
      /\ \A i \in 1..Len(t) : t[i] = s[i + 1]
      /\ Len(s) \in Nat /\ Len(s) > 0 /\ Head(s) = s[1] /\ Head(s) \in S
      /\ DOMAIN t = 1..Len(t) /\ DOMAIN s = 1..Len(s)
  BY HeadTailProperties, LenProperties, EmptySeq
<1>. HIDE DEF t
<1>2. \A i \in 1..Len(s) : i = 1 \/ (i - 1 \in 1..Len(t) /\ t[i - 1] = s[i])
  BY <1>1
<1>3. ASSUME NEW i \in 1..Len(s) PROVE s[i] \in ToSet(t) \cup {s[1]}
  BY <1>1, <1>2 DEF ToSet
<1>4. ASSUME NEW i \in 1..Len(t) PROVE t[i] \in ToSet(s)
  <2>1. i + 1 \in 1..Len(s) /\ t[i] = s[i + 1]
    BY <1>1
  <2>2. QED
    BY <1>1, <2>1 DEF ToSet
<1>5. s[1] \in ToSet(s)
  BY <1>1 DEF ToSet
<1>6. ToSet(s) = ToSet(t) \cup {s[1]}
  <2>1. ToSet(s) \subseteq ToSet(t) \cup {s[1]}
    BY <1>1, <1>3 DEF ToSet
  <2>2. ToSet(t) \subseteq ToSet(s)
    BY <1>1, <1>4 DEF ToSet
  <2>3. QED
    BY <1>5, <2>1, <2>2
<1>7. ASSUME IsInjective(s), NEW i \in 1..Len(t)
      PROVE  t[i] # s[1] /\ \A j \in 1..Len(t) : t[i] = t[j] => i = j
  <2>1. \A j \in 1..Len(t) : j + 1 \in 1..Len(s) /\ t[j] = s[j + 1]
    BY <1>1
  <2>2. \A j, k \in 1..Len(s) : s[j] = s[k] => j = k
    BY <1>1, <1>7 DEF IsInjective
  <2>3. QED
    BY <1>1, <2>1, <2>2
<1>8. IsInjective(s) => IsInjective(t) /\ s[1] \notin ToSet(t)
  BY <1>1, <1>7 DEF ToSet, IsInjective
<1>9. QED
  BY <1>1, <1>5, <1>6, <1>8 DEF t

LEMMA ListConcat ==
    ASSUME NEW S, NEW s \in Seq(S), NEW t \in Seq(S)
    PROVE  /\ s \o t \in Seq(S) /\ Len(s \o t) = Len(s) + Len(t)
           /\ ToSet(s \o t) = ToSet(s) \cup ToSet(t)
           /\ IsInjective(s) /\ IsInjective(t) /\ ToSet(s) \cap ToSet(t) = {}
                 => IsInjective(s \o t)
<1>. DEFINE u == s \o t
<1>1. /\ u \in Seq(S) /\ Len(u) = Len(s) + Len(t)
      /\ \A i \in 1..Len(u) : u[i] = IF i <= Len(s) THEN s[i] ELSE t[i - Len(s)]
      /\ Len(s) \in Nat /\ Len(t) \in Nat
      /\ DOMAIN u = 1..Len(u) /\ DOMAIN s = 1..Len(s) /\ DOMAIN t = 1..Len(t)
  BY ConcatProperties, LenProperties
<1>. HIDE DEF u
<1>2. ToSet(u) \subseteq ToSet(s) \cup ToSet(t)
  <2>1. ASSUME NEW i \in 1..Len(u) PROVE u[i] \in ToSet(s) \cup ToSet(t)
    <3>1. \/ i \in 1..Len(s) /\ u[i] = s[i]
          \/ i - Len(s) \in 1..Len(t) /\ u[i] = t[i - Len(s)]
      BY <1>1
    <3>2. CASE i \in 1..Len(s) /\ u[i] = s[i]
      BY <1>1, <3>2 DEF ToSet
    <3>3. CASE i - Len(s) \in 1..Len(t) /\ u[i] = t[i - Len(s)]
      BY <1>1, <3>3 DEF ToSet
    <3>4. QED
      BY <3>1, <3>2, <3>3
  <2>2. QED
    BY <1>1, <2>1 DEF ToSet
<1>3. ASSUME NEW i \in 1..Len(s) PROVE s[i] \in ToSet(u)
  BY <1>1 DEF ToSet
<1>4. ASSUME NEW i \in 1..Len(t) PROVE t[i] \in ToSet(u)
  <2>1. i + Len(s) \in 1..Len(u) /\ u[i + Len(s)] = t[i]
    BY <1>1
  <2>2. QED
    BY <1>1, <2>1 DEF ToSet
<1>5. ToSet(u) = ToSet(s) \cup ToSet(t)
  BY <1>1, <1>2, <1>3, <1>4 DEF ToSet
<1>6. ASSUME IsInjective(s), IsInjective(t), ToSet(s) \cap ToSet(t) = {},
             NEW i \in 1..Len(u), NEW j \in 1..Len(u), u[i] = u[j]
      PROVE  i = j
  <2>1. CASE i <= Len(s) /\ j <= Len(s)
    BY <1>1, <1>6, <2>1 DEF IsInjective
  <2>2. CASE i > Len(s) /\ j > Len(s)
    <3>1. /\ i - Len(s) \in 1..Len(t) /\ j - Len(s) \in 1..Len(t)
          /\ t[i - Len(s)] = t[j - Len(s)]
      BY <1>1, <1>6, <2>2
    <3>2. i - Len(s) = j - Len(s)
      BY <1>1, <1>6, <3>1 DEF IsInjective
    <3>3. QED
      BY <1>1, <3>2
  <2>3. ASSUME NEW k \in 1..Len(u), NEW l \in 1..Len(u), u[k] = u[l],
               k <= Len(s), l > Len(s)
        PROVE  FALSE
    <3>0. k \in 1..Len(s) /\ l - Len(s) \in 1..Len(t)
      BY <1>1, <2>3
    <3>1. s[k] \in ToSet(s) /\ t[l - Len(s)] \in ToSet(t)
      BY <1>1, <3>0 DEF ToSet
    <3>2. s[k] = t[l - Len(s)]
      BY <1>1, <2>3
    <3>3. QED
      BY <1>6, <3>1, <3>2
  <2>4. QED
    BY <1>1, <1>6, <2>1, <2>2, <2>3
<1>7. QED
  BY <1>1, <1>5, <1>6 DEF u, IsInjective

LEMMA RemovedAt ==
    ASSUME NEW S, NEW s \in Seq(S), NEW i \in 1..Len(s)
    PROVE  /\ RemoveAt(s, i) \in Seq(S)
           /\ Len(RemoveAt(s, i)) = Len(s) - 1
           /\ \A j \in 1..(Len(s) - 1) :
                 RemoveAt(s, i)[j] = IF j < i THEN s[j] ELSE s[j + 1]
<1>. DEFINE left  == SubSeq(s, 1, i - 1)
             right == SubSeq(s, i + 1, Len(s))
<1>1. /\ left \in Seq(S)
      /\ Len(left) = i - 1
      /\ \A j \in 1..(i - 1) : left[j] = s[j]
  BY ElementOfSeq, LenProperties, SubSeqProperties
<1>2. /\ right \in Seq(S)
      /\ Len(right) = Len(s) - i
      /\ \A j \in 1..(Len(s) - i) : right[j] = s[j + i]
  BY ElementOfSeq, LenProperties, SubSeqProperties
<1>. HIDE DEF left, right
<1>3. /\ left \o right \in Seq(S)
      /\ Len(left \o right) = Len(s) - 1
      /\ \A j \in 1..(Len(s) - 1) :
            (left \o right)[j] = IF j < i THEN s[j] ELSE s[j + 1]
  <2>1. /\ left \o right \in Seq(S)
        /\ Len(left \o right) = Len(left) + Len(right)
        /\ \A j \in 1..(Len(left) + Len(right)) :
              (left \o right)[j] =
                 IF j <= Len(left) THEN left[j] ELSE right[j - Len(left)]
    BY <1>1, <1>2, ConcatProperties
  <2>2. Len(s) \in Nat
    BY LenProperties
  <2>3. ASSUME NEW j \in 1..(Len(s) - 1)
        PROVE  (left \o right)[j] = IF j < i THEN s[j] ELSE s[j + 1]
    <3>1. CASE j < i
      BY <1>1, <1>2, <2>1, <2>2, <3>1
    <3>2. CASE j >= i
      <4>1. (left \o right)[j] = right[j - (i - 1)]
        BY <1>1, <1>2, <2>1, <2>2, <3>2
      <4>2. right[j - (i - 1)] = s[j - (i - 1) + i]
        BY <1>2, <2>2, <3>2
      <4>3. QED
        BY <4>1, <4>2, <3>2
    <3>3. j < i \/ j >= i
      BY <2>2
    <3>4. QED
      BY <3>1, <3>2, <3>3
  <2>4. QED
    BY <1>1, <1>2, <2>1, <2>2, <2>3
<1>4. QED
  BY <1>3 DEF RemoveAt, left, right

LEMMA ListRemove ==
    ASSUME NEW S, NEW s \in Seq(S), NEW e
    PROVE  LET t == RemoveEntryList(s, e) IN
           /\ t \in Seq(S) /\ ToSet(t) \subseteq ToSet(s)
           /\ e \notin ToSet(s) => t = s
           /\ IsInjective(s) => IsInjective(t) /\ ToSet(t) = ToSet(s) \ {e}
<1>1. CASE e \notin ToSet(s)
  BY <1>1 DEF RemoveEntryList
<1>2. CASE e \in ToSet(s)
  <2>1. PICK i \in 1..Len(s) : s[i] = e /\ RemoveEntryList(s, e) = RemoveAt(s, i)
    <3>1. \E i \in DOMAIN s : s[i] = e
      BY <1>2 DEF ToSet
    <3>2. DOMAIN s = 1..Len(s)
      BY LenProperties
    <3>3. QED
      BY <1>2, <3>1, <3>2 DEF RemoveEntryList
  <2>. DEFINE t == RemoveAt(s, i)
  <2>2. /\ t \in Seq(S) /\ Len(t) = Len(s) - 1
        /\ \A j \in 1..(Len(s) - 1) : t[j] = IF j < i THEN s[j] ELSE s[j + 1]
    BY RemovedAt
  <2>3. /\ DOMAIN s = 1..Len(s) /\ DOMAIN t = 1..(Len(s) - 1)
        /\ Len(s) \in Nat
    BY <2>2, LenProperties
  <2>. HIDE DEF t
  <2>4. ToSet(t) \subseteq ToSet(s)
    BY <2>2, <2>3 DEF ToSet
  <2>5. ASSUME NEW k \in 1..Len(s), k # i PROVE s[k] \in ToSet(t)
    <3>1. LET j == IF k < i THEN k ELSE k - 1
          IN  j \in 1..(Len(s) - 1) /\ t[j] = s[k]
      BY <2>2, <2>3, <2>5
    <3>2. QED
      BY <2>3, <3>1 DEF ToSet
  <2>6. IsInjective(s) => IsInjective(t)
    <3>1. SUFFICES ASSUME IsInjective(s), NEW a \in DOMAIN t, NEW b \in DOMAIN t,
                          t[a] = t[b]
                   PROVE  a = b
      BY DEF IsInjective
    <3>. DEFINE at(k) == IF k < i THEN k ELSE k + 1
    <3>2. /\ a \in 1..(Len(s) - 1) /\ b \in 1..(Len(s) - 1)
          /\ t[a] = s[at(a)] /\ t[b] = s[at(b)]
      BY <2>2, <2>3
    <3>3. at(a) \in DOMAIN s /\ at(b) \in DOMAIN s
      BY <2>3, <3>2
    <3>4. s[at(a)] = s[at(b)] => at(a) = at(b)
      <4>. HIDE DEF at
      <4>1. QED
        BY <3>1, <3>3, Zenon DEF IsInjective
    <3>5. at(a) = at(b)
      BY <3>1, <3>2, <3>4
    <3>6. QED
      BY <2>3, <3>2, <3>5
  <2>7. IsInjective(s) => e \notin ToSet(t)
    BY <2>1, <2>2, <2>3 DEF IsInjective, ToSet
  <2>8. IsInjective(s) => ToSet(t) = ToSet(s) \ {e}
    BY <2>1, <2>3, <2>4, <2>5, <2>7 DEF ToSet
  <2>9. QED
    BY <1>2, <2>1, <2>2, <2>4, <2>6, <2>8 DEF t
<1>3. QED
  BY <1>1, <1>2


-----------------------------------------------------------------------------
(* The steps of the work thread (MPWork_WorkItem): where each starts and   *)
(* ends, and what the thread has in hand.                                  *)
Moved(from, to) ==
    /\ worker' \in WorkerRecords
    /\ worker.pc = from /\ worker'.pc = to
    /\ worker'.msg = worker.msg /\ worker'.oid = worker.oid

Emptied(from, to) ==
    /\ worker' \in WorkerRecords
    /\ worker.pc = from /\ worker'.pc = to

LEMMA WorkMoves ==
    ASSUME WorkerTypes, NEW from \in Steps, NEW to \in Steps
    PROVE  /\ Work(from, to) => Moved(from, to)
           /\ WorkDone(from, to) => Emptied(from, to)
<1>1. Work(from, to) => Moved(from, to)
  BY DEF WorkerTypes, Work, Moved, WorkerRecords
<1>2. WorkDone(from, to) => Emptied(from, to)
  BY DEF WorkerTypes, WorkDone, Emptied, WorkerRecords
<1>3. QED
  BY <1>1, <1>2

LEMMA WorkerSteps ==
    ASSUME Types
    PROVE  /\ MPWork_WorkThread => Moved("wait", "reads")
           /\ MPWork_PostControlReads => Emptied("reads", "post")
           /\ MP_USBPostControlRead => Moved("post", "reads")
           /\ ReadsPosted => Moved("reads", "writes")
           /\ MPWork_PostWriteRequests =>
                 /\ worker' \in WorkerRecords
                 /\ worker.pc = "writes" /\ worker'.pc = "send"
                 /\ worker'.msg = Head(CtrlWriteList)
                 /\ worker'.msg \in Messages
           /\ WritesEnd => Moved("writes", "resolve")
           /\ MP_USBSendControlRequest => Moved("send", "sent")
           /\ WriteDone => Emptied("sent", "writes")
           /\ MPWork_ResolveRequests =>
                 /\ worker' \in WorkerRecords
                 /\ worker.pc = "resolve" /\ worker'.pc = "inbound"
                 /\ worker'.msg = Head(CtrlReadCompleteList)
                 /\ worker'.msg \in Messages
           /\ ResolveEnds => \/ Moved("resolve", "reads")
                             \/ Moved("resolve", "wait")
           /\ MPQMI_ProcessInboundQMUX => Moved("inbound", "find")
           /\ MPQMI_FindRequest =>
                 /\ worker' \in WorkerRecords
                 /\ worker.pc = "find" /\ worker'.pc = "process"
                 /\ worker'.msg = worker.msg
                 /\ worker'.oid \in ToSet(OIDWaitingList)
                 /\ worker'.oid \in Oids
           /\ NoRequest => Moved("find", "repost")
           /\ MPQMUX_ComposeQMUXReq => Moved("process", "unlink")
           /\ MPQMI_ProcessInboundQWDSResponse =>
                 \E from \in {"process", "unlink"} :
                    Moved(from, IF oid[worker.oid].queue # << >>
                                THEN "repost" ELSE "complete")
           /\ MPOID_CompleteOid => Moved("complete", "free")
           /\ FreeOid => Moved("free", "repost")
           /\ ReadIsFree => Emptied("repost", "resolve")
<1>. USE DEF Types
<1>1. MPWork_WorkThread => Moved("wait", "reads")
  BY WorkMoves DEF MPWork_WorkThread, Steps, WithRead
<1>2. MPWork_PostControlReads => Emptied("reads", "post")
  BY WorkMoves DEF MPWork_PostControlReads, Steps, WithRead
<1>3. MP_USBPostControlRead => Moved("post", "reads")
  BY WorkMoves DEF MP_USBPostControlRead, Steps, WithRead
<1>4. ReadsPosted => Moved("reads", "writes")
  BY WorkMoves DEF ReadsPosted, Steps, WithRead
<1>5. MPWork_PostWriteRequests =>
         /\ worker' \in WorkerRecords
         /\ worker.pc = "writes" /\ worker'.pc = "send"
         /\ worker'.msg = Head(CtrlWriteList)
         /\ worker'.msg \in Messages
  <2>1. CtrlWriteList # << >> => Head(CtrlWriteList) \in Messages
    BY ListTail DEF MessageTypes
  <2>2. QED
    BY <2>1 DEF MPWork_PostWriteRequests, Steps, WithRead, WorkerTypes,
                WorkerRecords
<1>6. WritesEnd => Moved("writes", "resolve")
  BY WorkMoves DEF WritesEnd, Steps, WithRead
<1>7. MP_USBSendControlRequest => Moved("send", "sent")
  BY WorkMoves DEF MP_USBSendControlRequest, Steps, WithRead
<1>8. WriteDone => Emptied("sent", "writes")
  BY WorkMoves DEF WriteDone, Steps, WithRead
<1>9. MPWork_ResolveRequests =>
         /\ worker' \in WorkerRecords
         /\ worker.pc = "resolve" /\ worker'.pc = "inbound"
         /\ worker'.msg = Head(CtrlReadCompleteList)
         /\ worker'.msg \in Messages
  <2>1. CtrlReadCompleteList # << >> => Head(CtrlReadCompleteList) \in Messages
    BY ListTail DEF MessageTypes
  <2>2. QED
    BY <2>1 DEF MPWork_ResolveRequests, Steps, WithRead, WorkerTypes,
                WorkerRecords
<1>10. ResolveEnds => Moved("resolve", "reads") \/ Moved("resolve", "wait")
  BY DEF ResolveEnds, Moved, Steps, WithRead, WorkerTypes, WorkerRecords
<1>11. MPQMI_ProcessInboundQMUX => Moved("inbound", "find")
  BY WorkMoves DEF MPQMI_ProcessInboundQMUX, Steps, WithRead
<1>12. MPQMI_FindRequest =>
          /\ worker' \in WorkerRecords
          /\ worker.pc = "find" /\ worker'.pc = "process"
          /\ worker'.msg = worker.msg
          /\ worker'.oid \in ToSet(OIDWaitingList)
          /\ worker'.oid \in Oids
  <2>1. \A i \in DOMAIN OIDWaitingList :
           OIDWaitingList[i] \in ToSet(OIDWaitingList) \cap Oids
    <3>1. OIDWaitingList \in Seq(Oids)
      BY DEF OidTypes
    <3>2. QED
      BY <3>1, ElementOfSeq, LenProperties DEF ToSet
  <2>2. QED
    BY <2>1 DEF MPQMI_FindRequest, Steps, WithRead, WorkerTypes, WorkerRecords
<1>13. NoRequest => Moved("find", "repost")
  BY WorkMoves DEF NoRequest, Steps, WithRead
<1>14. MPQMUX_ComposeQMUXReq => Moved("process", "unlink")
  BY WorkMoves DEF MPQMUX_ComposeQMUXReq, Steps, WithRead
<1>15. MPQMI_ProcessInboundQWDSResponse =>
          \E from \in {"process", "unlink"} :
             Moved(from, IF oid[worker.oid].queue # << >>
                         THEN "repost" ELSE "complete")
  BY DEF MPQMI_ProcessInboundQWDSResponse, Moved, Steps, WithRead,
         WorkerTypes, WorkerRecords
<1>16. MPOID_CompleteOid => Moved("complete", "free")
  BY WorkMoves DEF MPOID_CompleteOid, Steps, WithRead
<1>17. FreeOid => Moved("free", "repost")
  BY WorkMoves DEF FreeOid, Steps, WithRead
<1>18. ReadIsFree => Emptied("repost", "resolve")
  BY WorkMoves DEF ReadIsFree, Steps, WithRead
<1>19. QED
  BY <1>1, <1>2, <1>3, <1>4, <1>5, <1>6, <1>7, <1>8, <1>9, <1>10, <1>11,
     <1>12, <1>13, <1>14, <1>15, <1>16, <1>17, <1>18

(* Where the work thread stands still. *)
LEMMA WorkerStill ==
    ASSUME Next
    PROVE  WorkThread \/ UNCHANGED worker
BY DEF Next, Submit, Usb, Reset, TakeOid, SubmitOid, SubmitFails,
       SubmitReturns, MPOID_MiniportCancelOidRequest, MP_USBSendControl,
       MPMAIN_InitializeQMI, MPMAIN_MoveQMIRequests, Answer, CancelRead,
       Purge, MPMAIN_MiniportReset, StartCleanup, WaitForEmpty,
       CleanupWrites, CleanupOids, MPOID_CancelAllPendingOids,
       ResetQueuesEmpty, MPMAIN_CleanupQueues, Dpc

LEMMA WorkerTypesKept ==
    ASSUME Types, Next
    PROVE  WorkerTypes'
<1>1. CASE UNCHANGED worker
  BY <1>1 DEF Types, WorkerTypes
<1>2. CASE WorkThread
  BY <1>2, WorkerSteps
  DEF WorkThread, Types, WorkerTypes, Moved, Emptied, WithMessage, WithOid
<1>3. QED
  BY <1>1, <1>2, WorkerStill

-----------------------------------------------------------------------------
(* Which steps change what.                                                *)
LEMMA OidsStay ==
    ASSUME Next
    PROVE  \/ UNCHANGED oidVars
           \/ \E s \in Services, async \in BOOLEAN, a \in Requests :
                 TakeOid(s, async, a)
           \/ SubmitOid \/ SubmitFails \/ SubmitReturns
           \/ MPQMI_FindRequest \/ MPQMUX_ComposeQMUXReq
           \/ MPQMI_ProcessInboundQWDSResponse \/ FreeOid
           \/ WaitForEmpty \/ CleanupOids \/ MPMAIN_CleanupQueues
BY DEF Next, WorkThread, Usb, Reset, Submit,
       MPOID_MiniportCancelOidRequest, MP_USBSendControl,
       MPMAIN_InitializeQMI, MPMAIN_MoveQMIRequests, MPWork_WorkThread,
       MPWork_PostControlReads, MP_USBPostControlRead, ReadsPosted,
       MPWork_PostWriteRequests, WritesEnd, MP_USBSendControlRequest,
       WriteDone, MPWork_ResolveRequests, ResolveEnds,
       MPQMI_ProcessInboundQMUX, NoRequest, MPOID_CompleteOid, ReadIsFree,
       Answer, CancelRead, Purge, MPMAIN_MiniportReset, StartCleanup,
       CleanupWrites, MPOID_CancelAllPendingOids, ResetQueuesEmpty
LEMMA RequestsStay ==
    ASSUME Next
    PROVE  \/ UNCHANGED <<OidRequestList, ndis>>
           \/ \E s \in Services, async \in BOOLEAN, a \in Requests :
                 TakeOid(s, async, a)
           \/ SubmitOid \/ SubmitReturns
           \/ \E requests \in SUBSET OidRequestList :
                 Abort(requests) /\ UNCHANGED <<oidVars, caller, worker>>
           \/ MPOID_CompleteOid
<1>1. Reset => \/ UNCHANGED <<OidRequestList, ndis>>
               \/ /\ Abort(OidRequestList)
                  /\ UNCHANGED <<oidVars, caller, worker>>
  BY DEF Reset, StartCleanup, WaitForEmpty, CleanupWrites, CleanupOids,
         MPOID_CancelAllPendingOids, ResetQueuesEmpty, MPMAIN_CleanupQueues,
         ndisVars
<1>2. WorkThread \/ Usb => \/ UNCHANGED <<OidRequestList, ndis>>
                           \/ MPOID_CompleteOid
  BY DEF WorkThread, Usb, MPWork_WorkThread, MPWork_PostControlReads,
         MP_USBPostControlRead, ReadsPosted, MPWork_PostWriteRequests,
         WritesEnd, MP_USBSendControlRequest, WriteDone,
         MPWork_ResolveRequests, ResolveEnds, MPQMI_ProcessInboundQMUX,
         MPQMI_FindRequest, NoRequest, MPQMUX_ComposeQMUXReq,
         MPQMI_ProcessInboundQWDSResponse, FreeOid, ReadIsFree, Answer,
         CancelRead, Purge, ndisVars
<1>3. \A r \in Requests : MPOID_MiniportCancelOidRequest(r) =>
         /\ Abort({r}) /\ {r} \in SUBSET OidRequestList
         /\ UNCHANGED <<oidVars, caller, worker>>
  BY DEF MPOID_MiniportCancelOidRequest
<1>4. OidRequestList \in SUBSET OidRequestList
  OBVIOUS
<1>5. QED
  BY <1>1, <1>2, <1>3, <1>4
  DEF Next, Submit, SubmitFails, MP_USBSendControl, MPMAIN_InitializeQMI,
      MPMAIN_MoveQMIRequests, MPMAIN_MiniportReset, ndisVars

LEMMA CallerStays ==
    ASSUME Next
    PROVE  \/ UNCHANGED caller
           \/ \E s \in Services, async \in BOOLEAN, a \in Requests :
                 TakeOid(s, async, a)
           \/ SubmitOid \/ SubmitFails \/ SubmitReturns
BY DEF Next, WorkThread, Usb, Reset, Submit,
       MPOID_MiniportCancelOidRequest, MP_USBSendControl,
       MPMAIN_InitializeQMI, MPMAIN_MoveQMIRequests, MPWork_WorkThread,
       MPWork_PostControlReads, MP_USBPostControlRead, ReadsPosted,
       MPWork_PostWriteRequests, WritesEnd, MP_USBSendControlRequest,
       WriteDone, MPWork_ResolveRequests, ResolveEnds,
       MPQMI_ProcessInboundQMUX, MPQMI_FindRequest, NoRequest,
       MPQMUX_ComposeQMUXReq, MPQMI_ProcessInboundQWDSResponse,
       MPOID_CompleteOid, FreeOid, ReadIsFree,
       Answer, CancelRead, Purge, MPMAIN_MiniportReset, StartCleanup,
       WaitForEmpty, CleanupWrites, CleanupOids, MPOID_CancelAllPendingOids,
       ResetQueuesEmpty, MPMAIN_CleanupQueues

LEMMA MessagesStay ==
    ASSUME Next
    PROVE  \/ UNCHANGED <<CtrlWriteList, CtrlWritePendingList,
                          CtrlReadCompleteList, atModem, sends, nBusyWrite>>
           \/ \E s \in Services : MP_USBSendControl(s)
           \/ MPMAIN_MoveQMIRequests
           \/ SubmitOid
           \/ MPWork_PostWriteRequests \/ WritesEnd
           \/ MP_USBSendControlRequest \/ WriteDone
           \/ MPWork_ResolveRequests \/ MPQMUX_ComposeQMUXReq
           \/ \E m \in atModem : Answer(m)
           \/ CleanupWrites \/ MPMAIN_CleanupQueues
BY DEF Next, WorkThread, Usb, Reset, Submit, TakeOid,
       SubmitFails, SubmitReturns,
       MPOID_MiniportCancelOidRequest, MPMAIN_InitializeQMI,
       MPWork_WorkThread, MPWork_PostControlReads, MP_USBPostControlRead,
       ReadsPosted, ResolveEnds, MPQMI_ProcessInboundQMUX,
       MPQMI_FindRequest, NoRequest, MPQMI_ProcessInboundQWDSResponse,
       MPOID_CompleteOid, FreeOid, ReadIsFree, CancelRead, Purge,
       MPMAIN_MiniportReset, StartCleanup, WaitForEmpty, CleanupOids,
       MPOID_CancelAllPendingOids, ResetQueuesEmpty, queueVars, usbVars

LEMMA LimitsStay ==
    ASSUME Next
    PROVE  \/ UNCHANGED <<PendingCtrlRequests, forgot>>
           \/ MP_USBSendControlRequest \/ MPQMI_ProcessInboundQMUX
           \/ CleanupWrites \/ MPMAIN_CleanupQueues
BY DEF Next, WorkThread, Usb, Reset, Submit, TakeOid, SubmitOid,
       SubmitFails, SubmitReturns, MP_USBSendControl,
       MPMAIN_MoveQMIRequests,
       MPOID_MiniportCancelOidRequest, MPMAIN_InitializeQMI,
       MPWork_WorkThread, MPWork_PostControlReads, MP_USBPostControlRead,
       ReadsPosted, MPWork_PostWriteRequests, WritesEnd, WriteDone,
       MPWork_ResolveRequests, ResolveEnds, MPQMI_FindRequest, NoRequest,
       MPQMUX_ComposeQMUXReq, MPQMI_ProcessInboundQWDSResponse,
       MPOID_CompleteOid, FreeOid, ReadIsFree, Answer, CancelRead, Purge,
       MPMAIN_MiniportReset, StartCleanup, WaitForEmpty, CleanupOids,
       MPOID_CancelAllPendingOids, ResetQueuesEmpty, limitVars

LEMMA ReadsStay ==
    ASSUME Next
    PROVE  \/ UNCHANGED <<reads, nBusyRCtrl>>
           \/ MPWork_PostControlReads \/ MP_USBPostControlRead \/ ReadIsFree
           \/ \E m \in atModem : Answer(m)
           \/ CancelRead \/ Purge
           \/ StartCleanup \/ WaitForEmpty \/ MPMAIN_CleanupQueues
BY DEF Next, WorkThread, Usb, Reset, Submit, TakeOid, SubmitOid,
       SubmitFails, SubmitReturns, MP_USBSendControl,
       MPMAIN_MoveQMIRequests,
       MPOID_MiniportCancelOidRequest, MPMAIN_InitializeQMI,
       MPWork_WorkThread, ReadsPosted, MPWork_PostWriteRequests, WritesEnd,
       MP_USBSendControlRequest, WriteDone, MPWork_ResolveRequests,
       ResolveEnds, MPQMI_ProcessInboundQMUX, MPQMI_FindRequest, NoRequest,
       MPQMUX_ComposeQMUXReq, MPQMI_ProcessInboundQWDSResponse,
       MPOID_CompleteOid, FreeOid, MPMAIN_MiniportReset, CleanupWrites,
       CleanupOids, MPOID_CancelAllPendingOids, ResetQueuesEmpty, usbVars

LEMMA ResetStays ==
    ASSUME Next
    PROVE  \/ UNCHANGED <<reset, resetting>>
           \/ MPMAIN_MiniportReset \/ Reset
BY DEF Next, WorkThread, Usb, Submit, TakeOid, SubmitOid, SubmitFails,
       SubmitReturns, MP_USBSendControl, MPMAIN_MoveQMIRequests,
       MPOID_MiniportCancelOidRequest, MPMAIN_InitializeQMI,
       MPWork_WorkThread, MPWork_PostControlReads, MP_USBPostControlRead,
       ReadsPosted, MPWork_PostWriteRequests, WritesEnd,
       MP_USBSendControlRequest, WriteDone, MPWork_ResolveRequests,
       ResolveEnds, MPQMI_ProcessInboundQMUX, MPQMI_FindRequest, NoRequest,
       MPQMUX_ComposeQMUXReq, MPQMI_ProcessInboundQWDSResponse,
       MPOID_CompleteOid, FreeOid, ReadIsFree, Answer, CancelRead, Purge,
       resetVars

(* A run that lost something does not become sound again. *)
LEMMA HealthSteps ==
    ASSUME Next, Types
    PROVE  /\ health # "over"
           /\ health' \in {"sound", "lossy", "over"}
           /\ health' = "sound" => health = "sound"
BY DEF Types, Next, WorkThread, Usb, Reset, Submit, TakeOid, SubmitOid,
       SubmitFails, SubmitReturns, MP_USBSendControl,
       MPOID_MiniportCancelOidRequest, MPMAIN_InitializeQMI,
       MPMAIN_MoveQMIRequests, MPWork_WorkThread,
       MPWork_PostControlReads, MP_USBPostControlRead, ReadsPosted,
       MPWork_PostWriteRequests, WritesEnd, MP_USBSendControlRequest,
       WriteDone, MPWork_ResolveRequests, ResolveEnds,
       MPQMI_ProcessInboundQMUX, MPQMI_FindRequest, NoRequest,
       MPQMUX_ComposeQMUXReq, MPQMI_ProcessInboundQWDSResponse,
       MPOID_CompleteOid, FreeOid, ReadIsFree,
       Answer, CancelRead, Purge, MPMAIN_MiniportReset, StartCleanup,
       WaitForEmpty, CleanupWrites, CleanupOids, MPOID_CancelAllPendingOids,
       ResetQueuesEmpty, MPMAIN_CleanupQueues, lossVars, AllocationFails,
       Lossy

-----------------------------------------------------------------------------
(* The requests are numbered in the order NDIS makes them, so that the     *)
(* next one is new.                                                        *)
LEMMA NextRequest ==
    ASSUME NdisTypes, InTurn, sends \in Nat, sends + Made < MaxRequests
    PROVE  /\ Made \in Nat /\ Made + 1 \in Requests
           /\ \A r \in Requests : Started(r) <=> r <= Made
<1>1. PICK k \in 0..MaxRequests : \A r \in Requests : Started(r) <=> r <= k
  BY DEF InTurn
<1>2. {r \in Requests : ndis[r].state # "new"} = 1..k
  BY <1>1, BoundsAssumption DEF Started, Requests
<1>3. Made = k
  <2>1. k \in Nat
    BY BoundsAssumption
  <2>2. Cardinality(1..k) = k
    BY <2>1, FS_Interval
  <2>3. QED
    BY <1>2, <2>2 DEF Made
<1>4. QED
  BY <1>1, <1>3, BoundsAssumption DEF Requests

LEMMA OidTypesKept ==
    ASSUME Types, Orderly, Next
    PROVE  OidTypes'
<1>. USE DEF OidTypes
<1>1. OidTypes
  BY DEF Types
<1>2. ASSUME NEW s \in Services, NEW async \in BOOLEAN, NEW a \in Requests,
             TakeOid(s, async, a)
      PROVE  OidTypes'
  <2>. DEFINE r == Made + 1
              o == Head(OIDFreeList)
              m == [req |-> r, step |-> 1, svc |-> s]
              e == [req |-> r, ref |-> a, async |-> async,
                    queue |-> Append(oid[o].queue, m)]
  <2>1. r \in Requests
    BY <1>2, NextRequest DEF TakeOid, Types, Orderly, MessageTypes
  <2>2. o \in Oids /\ Tail(OIDFreeList) \in Seq(Oids)
    BY <1>1, <1>2, ListTail DEF TakeOid
  <2>3. r \in 0..MaxRequests /\ a \in 0..MaxRequests
    BY <2>1 DEF Requests
  <2>4. m \in Messages
    BY <2>3 DEF Messages
  <2>5. oid[o].queue \in Seq(Messages)
    BY <1>1, <2>2 DEF OidRecords
  <2>6. Append(oid[o].queue, m) \in Seq(Messages)
    BY <2>4, <2>5, ListAppend
  <2>7. e \in OidRecords
    BY <2>3, <2>6 DEF OidRecords
  <2>8. /\ oid' = [oid EXCEPT ![o] = e] /\ nBusyOID' = nBusyOID + 1
        /\ OIDFreeList' = Tail(OIDFreeList)
        /\ OIDWaitingList' = OIDWaitingList
    BY <1>2 DEF TakeOid
  <2>. HIDE DEF o, e
  <2>9. QED
    BY <1>1, <2>2, <2>7, <2>8
<1>3. Unused \in OidRecords
  BY ListEmpty, BoundsAssumption DEF Unused, OidRecords
<1>4. CASE SubmitOid
  <2>1. caller.oid \in Oids
    BY <1>4 DEF SubmitOid, Types, NdisTypes
  <2>2. QED
    BY <1>1, <1>4, <2>1, ListAppend DEF SubmitOid
<1>5. CASE SubmitFails
  <2>1. caller.oid \in Oids
    BY <1>5 DEF SubmitFails, Types, NdisTypes
  <2>2. QED
    BY <1>1, <1>3, <1>5, <2>1, ListAppend DEF SubmitFails
<1>6. CASE SubmitReturns
  BY <1>1, <1>6 DEF SubmitReturns
<1>7. ASSUME NEW o \in Oids, NEW q \in Seq(Messages),
             oid' = [oid EXCEPT ![o].queue = q]
      PROVE  oid' \in [Oids -> OidRecords]
  <2>1. [oid[o] EXCEPT !.queue = q] \in OidRecords
    BY <1>1, <1>7 DEF OidRecords
  <2>2. oid' = [oid EXCEPT ![o] = [oid[o] EXCEPT !.queue = q]]
    BY <1>7
  <2>3. QED
    BY <1>1, <2>1, <2>2
<1>8. \A o \in Oids : oid[o].queue \in Seq(Messages)
  BY <1>1 DEF OidRecords
<1>9. CASE MPQMI_FindRequest
  <2>1. PICK i \in DOMAIN OIDWaitingList :
           oid' = [oid EXCEPT ![OIDWaitingList[i]].queue =
                     RemoveEntryList(@, worker.msg)]
    BY <1>9 DEF MPQMI_FindRequest
  <2>. DEFINE o == OIDWaitingList[i]
  <2>2. o \in Oids
    BY <1>1, ElementOfSeq, LenProperties
  <2>3. RemoveEntryList(oid[o].queue, worker.msg) \in Seq(Messages)
    BY <1>8, <2>2, ListRemove
  <2>4. oid' = [oid EXCEPT ![o].queue =
                  RemoveEntryList(oid[o].queue, worker.msg)]
    BY <2>1
  <2>. HIDE DEF o
  <2>5. oid' \in [Oids -> OidRecords]
    BY <1>7, <2>2, <2>3, <2>4
  <2>6. QED
    BY <1>1, <1>9, <2>5 DEF MPQMI_FindRequest
<1>10. CASE MPQMUX_ComposeQMUXReq
  <2>. DEFINE m == [worker.msg EXCEPT !.step = 2]
  <2>1. worker.oid \in Oids /\ worker.msg \in Messages
    BY <1>10, WorkerSteps
    DEF MPQMUX_ComposeQMUXReq, Moved, Types, WorkerTypes, WithOid
  <2>2. m \in Messages
    BY <2>1 DEF Messages
  <2>3. Append(oid[worker.oid].queue, m) \in Seq(Messages)
    BY <1>8, <2>1, <2>2, ListAppend
  <2>4. oid' = [oid EXCEPT ![worker.oid].queue =
                  Append(oid[worker.oid].queue, m)]
    BY <1>10 DEF MPQMUX_ComposeQMUXReq
  <2>. HIDE DEF m
  <2>5. oid' \in [Oids -> OidRecords]
    BY <1>7, <2>1, <2>3, <2>4
  <2>6. QED
    BY <1>1, <1>10, <2>5 DEF MPQMUX_ComposeQMUXReq
<1>11. CASE MPQMI_ProcessInboundQWDSResponse
  BY <1>1, <1>11, ListRemove DEF MPQMI_ProcessInboundQWDSResponse
<1>12. CASE FreeOid
  <2>1. worker.oid \in Oids
    BY <1>12, WorkerSteps DEF Moved, Types, WorkerTypes, WithOid
  <2>2. QED
    BY <1>1, <1>3, <1>12, <2>1, ListAppend DEF FreeOid
<1>13. CASE WaitForEmpty
  BY <1>1, <1>13 DEF WaitForEmpty
<1>14. ASSUME DropOids
       PROVE  /\ OIDFreeList' \in Seq(Oids) /\ OIDWaitingList' \in Seq(Oids)
              /\ oid' \in [Oids -> OidRecords]
  <2>1. \A o \in Oids : [Unused EXCEPT !.async = oid[o].async] \in OidRecords
    BY <1>1, <1>3 DEF OidRecords
  <2>2. QED
    BY <1>1, <1>14, <2>1, ListConcat, ListEmpty DEF DropOids
<1>15. CASE CleanupOids
  <2>1. Len(OIDWaitingList) \in Int
    BY <1>1, LenProperties
  <2>2. QED
    BY <1>1, <1>14, <1>15, <2>1 DEF CleanupOids, oidVars
<1>16. CASE MPMAIN_CleanupQueues
  BY <1>1, <1>14, <1>16 DEF MPMAIN_CleanupQueues, oidVars
<1>17. CASE UNCHANGED oidVars
  BY <1>1, <1>17 DEF oidVars
<1>18. QED
  BY <1>2, <1>4, <1>5, <1>6, <1>9, <1>10, <1>11, <1>12, <1>13, <1>15, <1>16,
     <1>17, OidsStay

LEMMA NdisTypesKept ==
    ASSUME Types, Orderly, Next
    PROVE  NdisTypes'
<1>. USE DEF NdisTypes
<1>1. NdisTypes /\ OidTypes /\ WorkerTypes
  BY DEF Types
<1>2. ASSUME NEW r \in Requests, NEW e \in RequestRecords,
             ndis' = [ndis EXCEPT ![r] = e]
      PROVE  ndis' \in [Requests -> RequestRecords]
  BY <1>1, <1>2
<1>3. Idle \in CallerRecords /\ Idle.pc = "idle"
  BY BoundsAssumption DEF Idle, CallerRecords
<1>4. ASSUME NEW s \in Services, NEW async \in BOOLEAN, NEW a \in Requests,
             TakeOid(s, async, a)
      PROVE  NdisTypes'
  <2>. DEFINE r == Made + 1
              o == Head(OIDFreeList)
              e == [ndis[r] EXCEPT !.state = "given", !.addr = a]
  <2>1. r \in Requests
    BY <1>4, NextRequest DEF TakeOid, Types, Orderly, MessageTypes
  <2>2. o \in Oids
    BY <1>1, <1>4, ListTail DEF TakeOid, OidTypes
  <2>3. r \in 0..MaxRequests /\ a \in 0..MaxRequests
    BY <2>1 DEF Requests
  <2>4. e \in RequestRecords
    BY <1>1, <2>1, <2>3 DEF RequestRecords
  <2>5. /\ ndis' = [ndis EXCEPT ![r].state = "given", ![r].addr = a]
        /\ caller' = [pc |-> "taken", req |-> r, id |-> qmi # "down",
                      oid |-> o]
        /\ OidRequestList' = OidRequestList
    BY <1>4 DEF TakeOid
  <2>6. caller' \in CallerRecords
    BY <2>2, <2>3, <2>5 DEF CallerRecords
  <2>7. ndis' = [ndis EXCEPT ![r] = e]
    BY <1>1, <2>1, <2>5
  <2>8. caller'.req = r /\ caller'.oid = o
    BY <2>5
  <2>. HIDE DEF o, e, r
  <2>9. QED
    BY <1>1, <1>2, <2>1, <2>2, <2>4, <2>5, <2>6, <2>7, <2>8
<1>5. CASE SubmitOid
  <2>1. caller.req \in Requests
    BY <1>1, <1>5 DEF SubmitOid
  <2>2. PICK st \in {"later", "pending"} : ndis' = [ndis EXCEPT ![caller.req].state = st]
    BY <1>5 DEF SubmitOid
  <2>3. [ndis[caller.req] EXCEPT !.state = st] \in RequestRecords
    BY <1>1, <2>1 DEF RequestRecords
  <2>4. ndis' \in [Requests -> RequestRecords]
    BY <1>2, <2>1, <2>2, <2>3
  <2>5. QED
    BY <1>1, <1>3, <1>5, <2>1, <2>4 DEF SubmitOid
<1>6. CASE SubmitFails
  BY <1>1, <1>6 DEF SubmitFails, ndisVars, CallerRecords
<1>7. CASE SubmitReturns
  <2>1. caller.req \in Requests
    BY <1>1, <1>7 DEF SubmitReturns
  <2>2. [ndis[caller.req] EXCEPT !.state = "failed"] \in RequestRecords
    BY <1>1, <2>1 DEF RequestRecords
  <2>3. ndis' \in [Requests -> RequestRecords]
    BY <1>2, <1>7, <2>1, <2>2 DEF SubmitReturns
  <2>4. QED
    BY <1>1, <1>3, <1>7, <2>3 DEF SubmitReturns
<1>8. ASSUME NEW requests \in SUBSET OidRequestList, Abort(requests)
      PROVE  /\ OidRequestList' \subseteq Requests
             /\ ndis' \in [Requests -> RequestRecords]
  <2>1. \A r \in Requests :
           [ndis[r] EXCEPT !.state = "aborted"] \in RequestRecords
    BY <1>1 DEF RequestRecords
  <2>2. QED
    BY <1>1, <1>8, <2>1 DEF Abort
<1>9. CASE MPOID_CompleteOid
  <2>1. worker.msg.req \in 0..MaxRequests
    BY <1>1, <1>9, WorkerSteps
    DEF Moved, Types, WorkerTypes, WithOid, Messages
  <2>2. \A r \in Requests :
           [ndis[r] EXCEPT !.state = "answered", !.by = worker.msg.req]
              \in RequestRecords
    BY <1>1, <2>1 DEF RequestRecords
  <2>3. \A requests : Complete(requests) => ndis' \in [Requests -> RequestRecords]
    BY <1>1, <2>2 DEF Complete
  <2>4. QED
    BY <1>1, <1>9, <2>3 DEF MPOID_CompleteOid
<1>10. OidRequestList' \subseteq Requests /\ ndis' \in [Requests -> RequestRecords]
  BY <1>1, <1>4, <1>5, <1>7, <1>8, <1>9, RequestsStay
<1>11. /\ caller' \in CallerRecords
       /\ caller'.pc # "idle" => caller'.req \in Requests /\ caller'.oid \in Oids
  BY <1>1, <1>4, <1>5, <1>6, <1>7, CallerStays
<1>12. QED
  BY <1>10, <1>11

(* The message that MPOID_QueryInformation queues.                         *)
LEMMA SubmittedMessage ==
    ASSUME Types, Orderly, SubmitOid
    PROVE  /\ caller.oid \in Oids /\ caller.req \in Requests
           /\ Last(oid[caller.oid].queue) \in Messages
<1>1. caller.pc = "taken" /\ caller.oid \in Oids /\ caller.req \in Requests
  BY DEF SubmitOid, Types, NdisTypes
<1>2. /\ oid[caller.oid].queue \in Seq(Messages)
      /\ oid[caller.oid].queue # << >>
  BY <1>1 DEF Types, OidTypes, OidRecords, Orderly, OneMessage
<1>3. Last(oid[caller.oid].queue) \in Messages
  BY <1>2, LenProperties, EmptySeq, ElementOfSeq DEF Last
<1>4. QED
  BY <1>1, <1>3

LEMMA MessageTypesKept ==
    ASSUME Types, Orderly, Next
    PROVE  MessageTypes' /\ nBusyWrite' \in Int
<1>. USE DEF MessageTypes
<1>1. MessageTypes /\ WorkerTypes /\ nBusyWrite \in Int
  BY DEF Types, CountTypes
<1>2. ASSUME NEW m \in Messages, NEW id, QueueWrite(m, id)
      PROVE  /\ CtrlWriteList' \in Seq(Messages)
             /\ CtrlWritePendingList' \in Seq(Messages)
             /\ nBusyWrite' \in Int
  <2>1. /\ Append(CtrlWriteList, m) \in Seq(Messages)
        /\ Append(CtrlWritePendingList, m) \in Seq(Messages)
    BY <1>1, ListAppend
  <2>2. CASE id
    <3>1. /\ CtrlWriteList' = Append(CtrlWriteList, m)
          /\ CtrlWritePendingList' = CtrlWritePendingList
          /\ nBusyWrite' = nBusyWrite + 1
      BY <1>2, <2>2 DEF QueueWrite
    <3>2. QED
      BY <1>1, <2>1, <3>1
  <2>3. CASE ~id
    BY <1>1, <1>2, <2>1, <2>3 DEF QueueWrite
  <2>4. QED
    BY <2>2, <2>3
<1>3. ASSUME NEW s \in Services, MP_USBSendControl(s)
      PROVE  MessageTypes' /\ nBusyWrite' \in Int
  <2>1. [req |-> 0, step |-> sends + 1, svc |-> s] \in Messages
    BY <1>1, BoundsAssumption DEF Messages
  <2>2. QED
    BY <1>1, <1>2, <1>3, <2>1 DEF MP_USBSendControl, usbVars
<1>4. CASE MPMAIN_MoveQMIRequests
  BY <1>1, <1>4, ListConcat, ListEmpty DEF MPMAIN_MoveQMIRequests, usbVars
<1>5. CASE SubmitOid
  BY <1>1, <1>2, <1>5, SubmittedMessage DEF SubmitOid, usbVars
<1>6. CASE MPWork_PostWriteRequests
  BY <1>1, <1>6, ListTail DEF MPWork_PostWriteRequests, usbVars
<1>7. CASE WritesEnd
  <2>1. CtrlWriteList # << >> =>
           Append(Tail(CtrlWriteList), Head(CtrlWriteList)) \in Seq(Messages)
    <3>1. CtrlWriteList # << >> => /\ Tail(CtrlWriteList) \in Seq(Messages)
                                  /\ Head(CtrlWriteList) \in Messages
      BY <1>1, ListTail
    <3>2. QED
      BY <3>1, ListAppend
  <2>2. QED
    BY <1>1, <1>7, <2>1 DEF WritesEnd, usbVars
<1>8. CASE MP_USBSendControlRequest
  <2>1. worker.msg \in Messages
    BY <1>1, <1>8, WorkerSteps DEF Moved, WorkerTypes, WithMessage
  <2>2. QED
    <3>1. IsFiniteSet(atModem \cup {worker.msg})
      BY <1>1, FS_AddElement
    <3>2. /\ atModem' = atModem \cup {worker.msg} \/ atModem' = atModem
          /\ UNCHANGED <<CtrlWriteList, CtrlWritePendingList, nBusyWrite,
                         CtrlReadCompleteList, sends>>
      BY <1>8 DEF MP_USBSendControlRequest, queueVars
    <3>3. QED
      BY <1>1, <2>1, <3>1, <3>2
<1>9. CASE WriteDone
  BY <1>1, <1>9 DEF WriteDone, usbVars
<1>10. CASE MPWork_ResolveRequests
  BY <1>1, <1>10, ListTail DEF MPWork_ResolveRequests, queueVars
<1>11. CASE MPQMUX_ComposeQMUXReq
  <2>1. worker.msg \in Messages
    BY <1>1, <1>11, WorkerSteps DEF Moved, WorkerTypes, WithMessage
  <2>2. [worker.msg EXCEPT !.step = 2] \in Messages
    BY <2>1 DEF Messages
  <2>3. QED
    BY <1>1, <1>2, <1>11, <2>2 DEF MPQMUX_ComposeQMUXReq, usbVars
<1>12. ASSUME NEW m \in atModem, Answer(m)
       PROVE  MessageTypes' /\ nBusyWrite' \in Int
  <2>1. Append(CtrlReadCompleteList, m) \in Seq(Messages)
    BY <1>1, <1>12, ListAppend
  <2>2. IsFiniteSet(atModem \ {m})
    BY <1>1, FS_Subset
  <2>3. QED
    BY <1>1, <1>12, <2>1, <2>2 DEF Answer, queueVars
<1>13. DropWrites => /\ CtrlWriteList' \in Seq(Messages)
                     /\ CtrlWritePendingList' \in Seq(Messages)
  BY ListEmpty DEF DropWrites
<1>14. CASE CleanupWrites
  <2>1. Len(CtrlWriteList \o CtrlWritePendingList) \in Int
    BY <1>1, ListConcat, LenProperties
  <2>2. QED
    BY <1>1, <1>13, <1>14, <2>1 DEF CleanupWrites, queueVars, usbVars
<1>15. CASE MPMAIN_CleanupQueues
  <2>1. /\ CtrlReadCompleteList' \in {CtrlReadCompleteList, << >>}
        /\ UNCHANGED <<atModem, sends>>
    BY <1>15 DEF MPMAIN_CleanupQueues
  <2>2. \/ DropWrites /\ nBusyWrite' = 0
        \/ UNCHANGED queueVars
    BY <1>15 DEF MPMAIN_CleanupQueues
  <2>3. CtrlReadCompleteList' \in Seq(Messages)
    BY <1>1, <2>1, ListEmpty
  <2>4. QED
    BY <1>1, <1>13, <2>1, <2>2, <2>3 DEF queueVars
<1>16. CASE UNCHANGED <<CtrlWriteList, CtrlWritePendingList,
                        CtrlReadCompleteList, atModem, sends, nBusyWrite>>
  BY <1>1, <1>16
<1>17. QED
  BY <1>3, <1>4, <1>5, <1>6, <1>7, <1>8, <1>9, <1>10, <1>11, <1>12, <1>14,
     <1>15, <1>16, MessagesStay

LEMMA ListFinite ==
    ASSUME NEW S, NEW s \in Seq(S)
    PROVE  /\ IsFiniteSet(ToSet(s))
           /\ IsFiniteSet(S) /\ IsInjective(s) => Len(s) <= Cardinality(S)
<1>1. Len(s) \in Nat /\ DOMAIN s = 1..Len(s) /\ s \in [1..Len(s) -> S]
  BY LenProperties
<1>2. IsFiniteSet(1..Len(s)) /\ Cardinality(1..Len(s)) = Len(s)
  BY <1>1, FS_Interval
<1>3. s \in Surjection(1..Len(s), ToSet(s))
  BY <1>1 DEF Surjection, ToSet
<1>4. IsFiniteSet(ToSet(s))
  BY <1>2, <1>3, FS_Surjection
<1>5. IsInjective(s) => s \in Injection(1..Len(s), S)
  BY <1>1 DEF Injection, IsInjective
<1>6. IsFiniteSet(S) /\ IsInjective(s) => Len(s) <= Cardinality(S)
  BY <1>2, <1>5, FS_Injection
<1>7. QED
  BY <1>4, <1>6

(* Finitely many messages are under way. *)
LEMMA OutstandingFinite ==
    ASSUME Types
    PROVE  \A s : /\ IsFiniteSet(Outstanding(s))
                  /\ Cardinality(Outstanding(s)) \in Nat
<1>. DEFINE hand == IF worker.pc = "inbound" THEN {worker.msg} ELSE {}
            all  == atModem \cup ToSet(CtrlReadCompleteList) \cup hand
<1>1. IsFiniteSet(hand)
  BY FS_Singleton, FS_EmptySet
<1>2. IsFiniteSet(atModem) /\ IsFiniteSet(ToSet(CtrlReadCompleteList))
  BY ListFinite DEF Types, MessageTypes
<1>3. IsFiniteSet(all)
  BY <1>1, <1>2, FS_Union
<1>4. \A s : Outstanding(s) \in SUBSET all
  BY DEF Outstanding
<1>. HIDE DEF all
<1>5. QED
  BY <1>3, <1>4, FS_Subset, FS_CardinalityType

LEMMA CountTypesKept ==
    ASSUME Types, Orderly, Next
    PROVE  CountTypes'
<1>. USE DEF CountTypes
<1>1. CountTypes /\ WorkerTypes
  BY DEF Types
<1>2. nBusyWrite' \in Int
  BY MessageTypesKept
<1>3. DropWrites => /\ PendingCtrlRequests' \in [Services -> Int]
                    /\ forgot' \in [Services -> Nat]
  BY OutstandingFinite DEF DropWrites
<1>4. /\ PendingCtrlRequests' \in [Services -> Int]
      /\ forgot' \in [Services -> Nat]
  <2>1. CleanupWrites \/ MPMAIN_CleanupQueues => DropWrites \/ UNCHANGED limitVars
    BY DEF CleanupWrites, MPMAIN_CleanupQueues
  <2>2. MP_USBSendControlRequest \/ MPQMI_ProcessInboundQMUX =>
           \/ UNCHANGED limitVars
           \/ \E n \in {1, -1} :
                 /\ PendingCtrlRequests' =
                      [PendingCtrlRequests EXCEPT ![worker.msg.svc] = @ + n]
                 /\ UNCHANGED forgot
    <3>1. MP_USBSendControlRequest =>
             \/ UNCHANGED limitVars
             \/ /\ PendingCtrlRequests' =
                      [PendingCtrlRequests EXCEPT ![worker.msg.svc] = @ + 1]
                /\ UNCHANGED forgot
      BY DEF MP_USBSendControlRequest, limitVars
    <3>2. MPQMI_ProcessInboundQMUX =>
             /\ PendingCtrlRequests' =
                   [PendingCtrlRequests EXCEPT ![worker.msg.svc] = @ + (-1)]
             /\ UNCHANGED forgot
      BY <1>1 DEF MPQMI_ProcessInboundQMUX
    <3>3. QED
      BY <3>1, <3>2
  <2>3. QED
    BY <1>1, <1>3, <2>1, <2>2, LimitsStay DEF limitVars
<1>5. Len(CtrlReadCompleteList) \in Int
  BY LenProperties DEF Types, MessageTypes
<1>6. /\ reads.free \in Int /\ reads.pending \in Nat
      /\ reads.irps \in Int /\ reads.doomed \in Int
  BY <1>1 DEF ReadRecords
<1>7. reads' \in ReadRecords /\ nBusyRCtrl' \in Int
  <2>0. \A f \in Int, n \in Nat, i \in Int, d \in Int :
           /\ [reads EXCEPT !.free = f, !.pending = n] \in ReadRecords
           /\ [reads EXCEPT !.irps = i, !.pending = n] \in ReadRecords
           /\ [reads EXCEPT !.irps = i] \in ReadRecords
           /\ [reads EXCEPT !.irps = i, !.doomed = d] \in ReadRecords
           /\ [[reads EXCEPT !.irps = i, !.doomed = d]
                  EXCEPT !.pending = n, !.free = f] \in ReadRecords
    BY <1>1 DEF ReadRecords
  <2>1. CASE MPWork_PostControlReads
    <3>1. reads.free - 1 \in Int /\ reads.pending + 1 \in Nat
      BY <1>6
    <3>2. [reads EXCEPT !.free = reads.free - 1, !.pending = reads.pending + 1]
             \in ReadRecords
      BY <2>0, <3>1
    <3>3. QED
      BY <1>1, <2>1, <3>2 DEF MPWork_PostControlReads
  <2>2. CASE MP_USBPostControlRead
    BY <1>1, <2>2 DEF MP_USBPostControlRead, ReadRecords
  <2>3. CASE ReadIsFree
    BY <1>1, <2>3 DEF ReadIsFree, ReadRecords
  <2>4. ASSUME NEW m \in atModem, Answer(m)
        PROVE  reads' \in ReadRecords /\ nBusyRCtrl' \in Int
    <3>1. reads.irps - 1 \in Int
          /\ (reads.pending > 0 => reads.pending - 1 \in Nat)
      BY <1>6
    <3>2. /\ [reads EXCEPT !.irps = reads.irps - 1] \in ReadRecords
          /\ reads.pending > 0 =>
                [reads EXCEPT !.irps = reads.irps - 1,
                              !.pending = reads.pending - 1] \in ReadRecords
      BY <2>0, <3>1, <1>6
    <3>3. QED
      BY <1>1, <2>4, <3>2 DEF Answer
  <2>5. CASE CancelRead
    <3>. DEFINE left == [reads EXCEPT !.irps = @ - 1, !.doomed = @ - 1]
    <3>0. reads.irps - 1 \in Int /\ reads.doomed - 1 \in Int
      BY <1>6
    <3>1. left \in ReadRecords
      BY <2>0, <3>0, <1>6
    <3>2. left.pending = reads.pending /\ left.free = reads.free
      BY <1>1 DEF ReadRecords
    <3>3. reads.pending > 0 =>
             [left EXCEPT !.pending = @ - 1, !.free = @ + 1] \in ReadRecords
      <4>1. reads.free + 1 \in Int
            /\ (reads.pending > 0 => reads.pending - 1 \in Nat)
        BY <1>6
      <4>2. reads.pending > 0 =>
               [left EXCEPT !.pending = reads.pending - 1,
                            !.free = reads.free + 1] \in ReadRecords
        BY <2>0, <3>0, <4>1
      <4>3. QED
        BY <3>2, <4>2
    <3>4. /\ \/ reads' = left
             \/ /\ reads.pending > 0
                /\ reads' = [left EXCEPT !.pending = @ - 1, !.free = @ + 1]
          /\ nBusyRCtrl' \in {nBusyRCtrl, nBusyRCtrl - 1}
      BY <2>5 DEF CancelRead
    <3>. HIDE DEF left
    <3>5. QED
      BY <1>1, <3>1, <3>3, <3>4
  <2>6. CASE Purge
    BY <1>1, <2>6 DEF Purge, ReadRecords
  <2>7. CASE StartCleanup
    BY <1>1, <2>7 DEF StartCleanup, ReadRecords
  <2>8. CASE WaitForEmpty
    BY <1>1, <2>8 DEF WaitForEmpty
  <2>9. CASE MPMAIN_CleanupQueues
    <3>1. /\ \/ reads' = reads
             \/ reads' = [reads EXCEPT !.pending = 0,
                   !.free = @ + reads.pending + Len(CtrlReadCompleteList)]
          /\ nBusyRCtrl' \in {nBusyRCtrl, 0}
      BY <2>9 DEF MPMAIN_CleanupQueues
    <3>2. [reads EXCEPT !.pending = 0,
              !.free = @ + reads.pending + Len(CtrlReadCompleteList)]
             \in ReadRecords
      <4>1. reads.free + reads.pending + Len(CtrlReadCompleteList) \in Int
        BY <1>5, <1>6
      <4>2. [reads EXCEPT !.free = reads.free + reads.pending
                                     + Len(CtrlReadCompleteList),
                          !.pending = 0] \in ReadRecords
        BY <2>0, <4>1
      <4>3. QED
        BY <1>1, <4>2 DEF ReadRecords
    <3>3. QED
      BY <1>1, <3>1, <3>2
  <2>10. QED
    BY <1>1, <2>1, <2>2, <2>3, <2>4, <2>5, <2>6, <2>7, <2>8, <2>9, ReadsStay
<1>8. QED
  BY <1>2, <1>4, <1>7

LEMMA ResetTypesKept ==
    ASSUME Types, Next
    PROVE  ResetTypes'
<1>1. ResetTypes
  BY DEF Types
<1>2. reset.count \in Nat
  BY <1>1 DEF ResetTypes, ResetRecords
<1>3. ASSUME NEW from, NEW to \in {"none", "wait", "oids", "cancel"},
             Dpc(from, to)
      PROVE  reset' \in ResetRecords
  BY <1>2, <1>3 DEF Dpc, ResetRecords
<1>4. Reset => reset' \in ResetRecords
  <2>1. CASE WaitForEmpty
    <3>1. \A p \in {"empty", "writes", "timeout"}, n \in Nat :
             /\ [reset EXCEPT !.pc = p] \in ResetRecords
             /\ [reset EXCEPT !.count = n, !.pc = p] \in ResetRecords
      BY <1>1 DEF ResetTypes, ResetRecords
    <3>2. CASE QueuesAreEmpty
      BY <2>1, <3>1, <3>2 DEF WaitForEmpty
    <3>3. CASE ~QueuesAreEmpty
      <4>1. PICK p \in {"writes", "timeout"} :
               reset' = [reset EXCEPT !.count = reset.count + 1, !.pc = p]
        BY <2>1, <3>3 DEF WaitForEmpty
      <4>2. reset.count + 1 \in Nat
        BY <1>2
      <4>3. QED
        BY <3>1, <4>1, <4>2
    <3>4. QED
      BY <3>2, <3>3
  <2>2. QED
    BY <1>3, <2>1
    DEF Reset, StartCleanup, CleanupWrites, CleanupOids,
        MPOID_CancelAllPendingOids, ResetQueuesEmpty, MPMAIN_CleanupQueues
<1>5. MPMAIN_MiniportReset => reset' \in ResetRecords
  BY DEF MPMAIN_MiniportReset, ResetRecords
<1>6. Reset \/ MPMAIN_MiniportReset => resetting' \in BOOLEAN
  BY <1>1
  DEF Reset, MPMAIN_MiniportReset, StartCleanup, WaitForEmpty, CleanupWrites,
      CleanupOids, MPOID_CancelAllPendingOids, ResetQueuesEmpty,
      MPMAIN_CleanupQueues, ResetTypes
<1>7. QED
  BY <1>1, <1>4, <1>5, <1>6, ResetStays DEF ResetTypes

LEMMA TypesKept ==
    ASSUME Types, Orderly, Next
    PROVE  Types'
BY OidTypesKept, NdisTypesKept, MessageTypesKept, CountTypesKept,
   WorkerTypesKept, ResetTypesKept, HealthSteps DEF Types

-----------------------------------------------------------------------------
(* The counters of the reads and of the writes (CtrlReadLock and           *)
(* CtrlWriteLock).                                                         *)
LEMMA WritesCountedKept ==
    ASSUME Types, Orderly, Next, health' # "over"
    PROVE  WritesCounted'
<1>. USE DEF WritesCounted
<1>0. WritesCounted
  BY DEF Orderly
<1>1. /\ CtrlWriteList \in Seq(Messages)
      /\ CtrlWritePendingList \in Seq(Messages)
      /\ nBusyWrite \in Int
  BY DEF Types, MessageTypes, CountTypes
<1>2. Len(CtrlWriteList) \in Nat /\ Len(CtrlWritePendingList) \in Nat
  BY <1>1, LenProperties
<1>. DEFINE Sending == worker.pc \in {"send", "sent"}
<1>3. ASSUME NEW m, m \in Messages, NEW id, QueueWrite(m, id),
             Sending' <=> Sending
      PROVE  WritesCounted'
  <2>1. /\ Len(Append(CtrlWriteList, m)) = Len(CtrlWriteList) + 1
        /\ Len(Append(CtrlWritePendingList, m)) =
              Len(CtrlWritePendingList) + 1
    BY <1>1, <1>3, ListAppend
  <2>2. /\ Len(CtrlWriteList') + Len(CtrlWritePendingList') =
              Len(CtrlWriteList) + Len(CtrlWritePendingList) + 1
        /\ nBusyWrite' = nBusyWrite + 1
    <3>1. CASE id
      BY <1>2, <1>3, <2>1, <3>1 DEF QueueWrite
    <3>2. CASE ~id
      BY <1>2, <1>3, <2>1, <3>2 DEF QueueWrite
    <3>3. QED
      BY <3>1, <3>2
  <2>3. Len(CtrlWriteList') \in Nat /\ Len(CtrlWritePendingList') \in Nat
    <3>1. Types'
      BY TypesKept
    <3>2. QED
      BY <3>1, LenProperties DEF Types, MessageTypes
  <2>. DEFINE K == IF worker.pc \in {"send", "sent"} THEN 1 ELSE 0
  <2>4. K' = K /\ K \in Int
    BY <1>3
  <2>5. nBusyWrite = Len(CtrlWriteList) + Len(CtrlWritePendingList) + K
    BY <1>0
  <2>. HIDE DEF K
  <2>6. nBusyWrite' = Len(CtrlWriteList') + Len(CtrlWritePendingList') + K'
    BY <1>1, <1>2, <2>2, <2>3, <2>4, <2>5
  <2>7. QED
    BY <2>6 DEF K
<1>4. ASSUME NEW s \in Services, MP_USBSendControl(s)
      PROVE  WritesCounted'
  <2>1. [req |-> 0, step |-> sends + 1, svc |-> s] \in Messages
    BY BoundsAssumption DEF Messages, Types, MessageTypes
  <2>2. QED
    BY <1>3, <1>4, <2>1 DEF MP_USBSendControl
<1>5. CASE MPMAIN_MoveQMIRequests
  BY <1>0, <1>1, <1>2, <1>5, ListConcat, ListEmpty DEF MPMAIN_MoveQMIRequests
<1>6. CASE SubmitOid
  <2>1. Last(oid[caller.oid].queue) \in Messages
    BY <1>6, SubmittedMessage
  <2>2. QED
    BY <1>3, <1>6, <2>1 DEF SubmitOid
<1>7. CASE MPWork_PostWriteRequests
  <2>1. /\ CtrlWriteList # << >> /\ CtrlWriteList' = Tail(CtrlWriteList)
        /\ worker.pc = "writes" /\ worker'.pc = "send"
        /\ UNCHANGED <<CtrlWritePendingList, nBusyWrite>>
    BY <1>7, WorkerSteps DEF MPWork_PostWriteRequests
  <2>2. Len(CtrlWriteList') = Len(CtrlWriteList) - 1
    BY <1>1, <2>1, ListTail
  <2>3. QED
    BY <1>0, <1>1, <1>2, <2>1, <2>2
<1>8. CASE WritesEnd
  <2>1. /\ worker.pc = "writes" /\ worker'.pc = "resolve"
        /\ UNCHANGED <<CtrlWritePendingList, nBusyWrite>>
    BY <1>8, WorkerSteps DEF WritesEnd, Moved
  <2>2. Len(CtrlWriteList') = Len(CtrlWriteList)
    <3>1. CtrlWriteList # << >> =>
             /\ Tail(CtrlWriteList) \in Seq(Messages)
             /\ Head(CtrlWriteList) \in Messages
             /\ Len(Tail(CtrlWriteList)) = Len(CtrlWriteList) - 1
      BY <1>1, ListTail
    <3>2. CtrlWriteList # << >> =>
             Len(Append(Tail(CtrlWriteList), Head(CtrlWriteList))) =
                Len(CtrlWriteList)
      BY <1>2, <3>1, ListAppend
    <3>3. QED
      BY <1>8, <3>2 DEF WritesEnd
  <2>3. QED
    BY <1>0, <1>1, <1>2, <2>1, <2>2
<1>9. CASE WriteDone
  BY <1>0, <1>1, <1>2, <1>9, WorkerSteps DEF WriteDone, Emptied, queueVars
<1>10. CASE MPQMUX_ComposeQMUXReq
  <2>1. worker.msg \in Messages /\ ~Sending /\ ~Sending'
    BY <1>10, WorkerSteps DEF Moved, Types, WorkerTypes, WithMessage
  <2>2. [worker.msg EXCEPT !.step = 2] \in Messages
    BY <2>1 DEF Messages
  <2>3. QED
    BY <1>3, <1>10, <2>1, <2>2 DEF MPQMUX_ComposeQMUXReq
<1>11. Len(CtrlWriteList \o CtrlWritePendingList) =
          Len(CtrlWriteList) + Len(CtrlWritePendingList)
  BY <1>1, ListConcat
<1>12. CASE CleanupWrites
  BY <1>0, <1>1, <1>2, <1>11, <1>12, ListEmpty
  DEF CleanupWrites, DropWrites, queueVars
<1>13. ASSUME UNCHANGED <<CtrlWriteList, CtrlWritePendingList, nBusyWrite>>,
              Sending' <=> Sending
       PROVE  WritesCounted'
  BY <1>0, <1>13
<1>14. CASE UNCHANGED worker /\ UNCHANGED queueVars
  BY <1>13, <1>14 DEF queueVars
<1>15. CASE \/ MPWork_WorkThread
            \/ MPWork_PostControlReads \/ MP_USBPostControlRead
            \/ ReadsPosted \/ MP_USBSendControlRequest
            \/ MPWork_ResolveRequests \/ ResolveEnds
            \/ MPQMI_ProcessInboundQMUX \/ MPQMI_FindRequest \/ NoRequest
            \/ MPQMI_ProcessInboundQWDSResponse \/ MPOID_CompleteOid
            \/ FreeOid \/ ReadIsFree
  <2>1. UNCHANGED queueVars
    BY <1>15
    DEF MPWork_WorkThread, MPWork_PostControlReads, MP_USBPostControlRead,
        ReadsPosted, MP_USBSendControlRequest, MPWork_ResolveRequests,
        ResolveEnds, MPQMI_ProcessInboundQMUX, MPQMI_FindRequest, NoRequest,
        MPQMI_ProcessInboundQWDSResponse, MPOID_CompleteOid, FreeOid,
        ReadIsFree
  <2>2. Sending' <=> Sending
    BY <1>15, WorkerSteps DEF Moved, Emptied
  <2>3. QED
    BY <1>13, <2>1, <2>2 DEF queueVars
<1>16. CASE MPMAIN_CleanupQueues
  BY <1>16 DEF MPMAIN_CleanupQueues
<1>17. QED
  <2>1. \/ WorkThread
        \/ UNCHANGED worker /\ UNCHANGED queueVars
        \/ \E s \in Services : MP_USBSendControl(s)
        \/ MPMAIN_MoveQMIRequests \/ SubmitOid
        \/ CleanupWrites \/ MPMAIN_CleanupQueues
    <3>1. WorkThread \/ UNCHANGED worker
      BY WorkerStill
    <3>2. Usb => UNCHANGED queueVars
      BY DEF Usb, Answer, CancelRead, Purge
    <3>3. CASE UNCHANGED <<CtrlWriteList, CtrlWritePendingList, nBusyWrite>>
      BY <3>1, <3>3 DEF queueVars
    <3>4. QED
      BY <3>1, <3>2, <3>3, MessagesStay DEF WorkThread, Usb
  <2>2. QED
    BY <1>4, <1>5, <1>6, <1>7, <1>8, <1>9, <1>10, <1>12, <1>14, <1>15,
       <1>16, <2>1 DEF WorkThread

(* The steps at which the work thread has a completed read begin with the  *)
(* read's arrival and end with its return to the free list.                *)
LEMMA ReadInHand ==
    ASSUME Types, WorkThread
    PROVE  \/ MPWork_ResolveRequests /\ worker.pc \notin WithRead
                                     /\ worker'.pc \in WithRead
           \/ ReadIsFree /\ worker.pc \in WithRead /\ worker'.pc \notin WithRead
           \/ /\ worker'.pc \in WithRead <=> worker.pc \in WithRead
              /\ ~MPWork_ResolveRequests /\ ~ReadIsFree
<1>1. MPWork_ResolveRequests => worker.pc \notin WithRead
                                /\ worker'.pc \in WithRead
  BY WorkerSteps DEF WithRead
<1>2. ReadIsFree => worker.pc \in WithRead /\ worker'.pc \notin WithRead
  BY WorkerSteps DEF Emptied, WithRead
<1>3. ASSUME ~MPWork_ResolveRequests, ~ReadIsFree
      PROVE  worker'.pc \in WithRead <=> worker.pc \in WithRead
  BY <1>3, WorkerSteps DEF WorkThread, Moved, Emptied, WithRead
<1>4. QED
  BY <1>1, <1>2, <1>3

LEMMA CompletedStay ==
    ASSUME Next
    PROVE  \/ UNCHANGED CtrlReadCompleteList
           \/ MPWork_ResolveRequests
           \/ \E m \in atModem : Answer(m)
           \/ MPMAIN_CleanupQueues
BY MessagesStay
DEF MP_USBSendControl, MPMAIN_MoveQMIRequests, SubmitOid,
    MPWork_PostWriteRequests, WritesEnd, MP_USBSendControlRequest,
    WriteDone, MPQMUX_ComposeQMUXReq, CleanupWrites, usbVars

LEMMA ReadsCountedKept ==
    ASSUME Types, Orderly, Next, health' # "over"
    PROVE  ReadsCounted'
<1>. DEFINE Held == IF worker.pc \in WithRead THEN 1 ELSE 0
            Out  == reads.pending + Len(CtrlReadCompleteList) + Held
            Resetting == {"wait", "writes", "oids", "cancel", "empty",
                          "timeout"}
<1>1. /\ nBusyRCtrl = Out
      /\ resetting <=> reset.pc \in Resetting
      /\ reset.pc = "empty" => nBusyRCtrl = 0
  BY DEF Orderly, ReadsCounted
<1>2. /\ reads \in ReadRecords /\ reads.pending \in Nat
      /\ CtrlReadCompleteList \in Seq(Messages)
      /\ Len(CtrlReadCompleteList) \in Nat
      /\ nBusyRCtrl \in Int /\ Held \in {0, 1}
  BY LenProperties DEF Types, CountTypes, MessageTypes, ReadRecords
<1>3. ~MPMAIN_CleanupQueues
  BY DEF MPMAIN_CleanupQueues
<1>4. /\ nBusyRCtrl' = Out'
      /\ resetting => nBusyRCtrl' <= nBusyRCtrl \/ nBusyRCtrl' = 0
  <2>1. CASE MPWork_PostControlReads
    <3>1. /\ ~resetting /\ nBusyRCtrl' = nBusyRCtrl + 1
          /\ reads'.pending = reads.pending + 1
          /\ UNCHANGED CtrlReadCompleteList
      BY <1>2, <2>1 DEF MPWork_PostControlReads, ReadRecords
    <3>2. Held' = Held
      BY <2>1, WorkerSteps DEF Emptied, WithRead
    <3>. HIDE DEF Held
    <3>3. QED
      BY <1>1, <1>2, <2>1, <3>1, <3>2
  <2>2. CASE MP_USBPostControlRead
    <3>1. /\ reads'.pending = reads.pending
          /\ UNCHANGED <<nBusyRCtrl, CtrlReadCompleteList>>
      BY <1>2, <2>2 DEF MP_USBPostControlRead, ReadRecords
    <3>2. Held' = Held
      BY <2>2, WorkerSteps DEF Moved, WithRead
    <3>. HIDE DEF Held
    <3>3. QED
      BY <1>1, <1>2, <3>1, <3>2
  <2>3. CASE ReadIsFree
    <3>1. /\ reads'.pending = reads.pending
          /\ nBusyRCtrl' = nBusyRCtrl - 1
          /\ UNCHANGED CtrlReadCompleteList
      BY <1>2, <2>3 DEF ReadIsFree, ReadRecords
    <3>2. Held = 1 /\ Held' = 0
      BY <2>3, WorkerSteps DEF Emptied, WithRead
    <3>. HIDE DEF Held
    <3>3. QED
      BY <1>1, <1>2, <3>1, <3>2
  <2>4. ASSUME NEW m \in atModem, Answer(m)
        PROVE  nBusyRCtrl' = Out' /\ nBusyRCtrl' = nBusyRCtrl
    <3>1. CASE reads.pending > 0
      <4>1. /\ reads'.pending = reads.pending - 1
            /\ CtrlReadCompleteList' = Append(CtrlReadCompleteList, m)
            /\ UNCHANGED <<nBusyRCtrl, worker>>
        BY <1>2, <2>4, <3>1 DEF Answer, ReadRecords
      <4>2. Len(CtrlReadCompleteList') = Len(CtrlReadCompleteList) + 1
        BY <1>2, <4>1, ListAppend DEF Types, MessageTypes
      <4>3. Held' = Held
        BY <4>1
      <4>. HIDE DEF Held
      <4>4. QED
        BY <1>1, <1>2, <4>1, <4>2, <4>3
    <3>2. CASE ~(reads.pending > 0)
      <4>1. /\ reads'.pending = reads.pending
            /\ UNCHANGED <<nBusyRCtrl, worker, CtrlReadCompleteList>>
        BY <1>2, <2>4, <3>2 DEF Answer, ReadRecords
      <4>2. QED
        BY <1>1, <1>2, <4>1
    <3>3. QED
      BY <3>1, <3>2
  <2>5. CASE CancelRead
    <3>. DEFINE left == [reads EXCEPT !.irps = @ - 1, !.doomed = @ - 1]
    <3>0. reads.irps - 1 \in Int /\ reads.doomed - 1 \in Int
      BY <1>2 DEF ReadRecords
    <3>1. left \in ReadRecords /\ left.pending = reads.pending
      <4>1. \A i, d \in Int :
               /\ [reads EXCEPT !.irps = i, !.doomed = d] \in ReadRecords
               /\ [reads EXCEPT !.irps = i, !.doomed = d].pending =
                     reads.pending
        BY <1>2 DEF ReadRecords
      <4>2. QED
        BY <3>0, <4>1
    <3>2. \/ reads' = left /\ nBusyRCtrl' = nBusyRCtrl
          \/ /\ reads' = [left EXCEPT !.pending = @ - 1, !.free = @ + 1]
             /\ nBusyRCtrl' = nBusyRCtrl - 1
      BY <2>5 DEF CancelRead
    <3>3. UNCHANGED <<worker, CtrlReadCompleteList>>
      BY <2>5 DEF CancelRead
    <3>. HIDE DEF left
    <3>4. \/ reads'.pending = reads.pending /\ nBusyRCtrl' = nBusyRCtrl
          \/ /\ reads'.pending = reads.pending - 1
             /\ nBusyRCtrl' = nBusyRCtrl - 1
      BY <3>1, <3>2 DEF ReadRecords
    <3>5. Held' = Held
      BY <3>3
    <3>. HIDE DEF Held
    <3>6. QED
      BY <1>1, <1>2, <3>3, <3>4, <3>5
  <2>6. CASE Purge \/ StartCleanup
    <3>1. /\ reads'.pending = reads.pending
          /\ UNCHANGED <<nBusyRCtrl, worker, CtrlReadCompleteList>>
      BY <1>2, <2>6 DEF Purge, StartCleanup, ReadRecords
    <3>2. QED
      BY <1>1, <1>2, <3>1
  <2>7. CASE WaitForEmpty
    <3>1. UNCHANGED <<reads, worker, CtrlReadCompleteList>>
      BY <2>7 DEF WaitForEmpty
    <3>2. \/ nBusyRCtrl' = nBusyRCtrl
          \/ nBusyRCtrl <= 0 /\ nBusyRCtrl' = 0
      BY <2>7 DEF WaitForEmpty, QueuesAreEmpty
    <3>3. Held' = Held /\ Out' = Out /\ nBusyRCtrl >= 0
      BY <1>1, <1>2, <3>1
    <3>4. QED
      BY <1>1, <1>2, <3>2, <3>3
  <2>8. CASE MPWork_ResolveRequests
    <3>1. /\ CtrlReadCompleteList # << >>
          /\ CtrlReadCompleteList' = Tail(CtrlReadCompleteList)
          /\ UNCHANGED <<reads, nBusyRCtrl>>
      BY <2>8 DEF MPWork_ResolveRequests
    <3>2. Len(CtrlReadCompleteList') = Len(CtrlReadCompleteList) - 1
      BY <1>2, <3>1, ListTail
    <3>3. Held = 0 /\ Held' = 1
      BY <2>8, WorkerSteps DEF WithRead
    <3>. HIDE DEF Held
    <3>4. QED
      BY <1>1, <1>2, <3>1, <3>2, <3>3
  <2>9. ASSUME UNCHANGED <<reads, nBusyRCtrl, CtrlReadCompleteList>>,
               ~ReadIsFree, ~MPWork_ResolveRequests
        PROVE  nBusyRCtrl' = Out' /\ nBusyRCtrl' = nBusyRCtrl
    <3>1. Held' = Held
      BY <2>9, ReadInHand, WorkerStill
    <3>. HIDE DEF Held
    <3>2. QED
      BY <1>1, <2>9, <3>1
  <2>10. CASE UNCHANGED <<reads, nBusyRCtrl>>
    BY <1>2, <1>3, <2>3, <2>4, <2>8, <2>9, <2>10, CompletedStay
  <2>11. QED
    BY <1>2, <1>3, <2>1, <2>2, <2>3, <2>4, <2>5, <2>6, <2>7, <2>10, ReadsStay
<1>. HIDE DEF Out
<1>5. resetting' <=> reset'.pc \in Resetting
  <2>1. CASE UNCHANGED <<reset, resetting>>
    BY <1>1, <2>1
  <2>2. CASE MPMAIN_MiniportReset
    BY <1>1, <2>2 DEF MPMAIN_MiniportReset
  <2>3. CASE WaitForEmpty
    <3>1. UNCHANGED resetting /\ reset.pc = "wait"
      BY <2>3 DEF WaitForEmpty
    <3>2. reset'.pc \in {"empty", "writes", "timeout"}
      BY <2>3 DEF WaitForEmpty, Types, ResetTypes, ResetRecords
    <3>3. QED
      BY <1>1, <3>1, <3>2
  <2>4. CASE Reset /\ ~WaitForEmpty
    BY <1>1, <1>3, <2>4
    DEF Reset, StartCleanup, CleanupWrites, CleanupOids,
        MPOID_CancelAllPendingOids, ResetQueuesEmpty, Dpc
  <2>5. QED
    BY <2>1, <2>2, <2>3, <2>4, ResetStays
<1>6. reset'.pc = "empty" => nBusyRCtrl' = 0
  <2>1. CASE reset'.pc = reset.pc
    <3>1. CASE reset.pc = "empty"
      <4>1. resetting /\ nBusyRCtrl = 0 /\ nBusyRCtrl' <= 0
        BY <1>1, <1>2, <1>4, <3>1
      <4>2. nBusyRCtrl' >= 0
        <5>1. Types'
          BY TypesKept
        <5>2. /\ reads'.pending \in Nat /\ Len(CtrlReadCompleteList)' \in Nat
              /\ Held' \in Nat
          BY <5>1, LenProperties
          DEF Types, CountTypes, MessageTypes, ReadRecords
        <5>3. nBusyRCtrl' = reads'.pending + Len(CtrlReadCompleteList)' + Held'
          BY <1>4 DEF Out
        <5>. HIDE DEF Held
        <5>4. QED
          BY <5>2, <5>3
      <4>3. nBusyRCtrl' \in Int
        BY TypesKept DEF Types, CountTypes
      <4>4. QED
        BY <4>1, <4>2, <4>3
    <3>2. QED
      BY <2>1, <3>1
  <2>2. CASE MPMAIN_MiniportReset
    BY <2>2 DEF MPMAIN_MiniportReset
  <2>3. CASE WaitForEmpty
    BY <2>3 DEF WaitForEmpty, Types, ResetTypes, ResetRecords
  <2>4. CASE Reset /\ ~WaitForEmpty
    BY <1>3, <2>4
    DEF Reset, StartCleanup, CleanupWrites, CleanupOids,
        MPOID_CancelAllPendingOids, ResetQueuesEmpty, Dpc
  <2>5. QED
    BY <2>1, <2>2, <2>3, <2>4, ResetStays
<1>7. QED
  BY <1>4, <1>5, <1>6 DEF ReadsCounted, Out

-----------------------------------------------------------------------------
(* The lists of the OIDs (OIDLock).                                        *)

(* Only the end of a reset that found the counters zero (QueuesAreEmpty)   *)
(* lets NDIS go on; no read, and thus no OID, is then in hand.             *)
LEMMA ResetGoesOn ==
    ASSUME Types, Orderly, Next, health' # "over", resetting,
           worker.pc \in WithOid
    PROVE  resetting'
<1>1. /\ resetting <=> reset.pc \in {"wait", "writes", "oids", "cancel",
                                     "empty", "timeout"}
      /\ reset.pc = "empty" => nBusyRCtrl = 0
      /\ nBusyRCtrl = reads.pending + Len(CtrlReadCompleteList) + 1
  BY DEF Orderly, ReadsCounted, WithOid, WithRead
<1>2. reads.pending \in Nat /\ Len(CtrlReadCompleteList) \in Nat
  BY LenProperties DEF Types, CountTypes, MessageTypes, ReadRecords
<1>3. reset.pc # "empty"
  BY <1>1, <1>2
<1>4. ~ResetQueuesEmpty /\ ~MPMAIN_CleanupQueues /\ ~MPMAIN_MiniportReset
  BY <1>1, <1>3
  DEF ResetQueuesEmpty, Dpc, MPMAIN_CleanupQueues, MPMAIN_MiniportReset
<1>5. QED
  BY <1>4, ResetStays
  DEF Reset, StartCleanup, WaitForEmpty, CleanupWrites, CleanupOids,
      MPOID_CancelAllPendingOids

(* The OID in the hands of the work thread comes from the waiting list.    *)
LEMMA OidInHand ==
    ASSUME Types, Next
    PROVE  \/ MPQMI_FindRequest
           \/ MPQMI_ProcessInboundQWDSResponse
           \/ /\ worker'.pc \in WithOid => /\ worker.pc \in WithOid
                                           /\ worker'.oid = worker.oid
              /\ worker'.pc \in {"complete", "free"} =>
                    worker.pc \in {"complete", "free"}
              /\ worker'.pc \in {"process", "unlink"} =>
                    worker.pc \in {"process", "unlink"}
<1>1. CASE UNCHANGED worker
  BY <1>1
<1>2. CASE WorkThread
  BY <1>2, WorkerSteps DEF WorkThread, Moved, Emptied, WithOid
<1>3. QED
  BY <1>1, <1>2, WorkerStill

LEMMA OidInListKept ==
    ASSUME Types, Orderly, Next, health' # "over"
    PROVE  OidInList'
<1>. DEFINE F == ToSet(OIDFreeList)
            W == ToSet(OIDWaitingList)
<1>1. /\ OIDFreeList \in Seq(Oids) /\ OIDWaitingList \in Seq(Oids)
      /\ caller \in CallerRecords
      /\ caller.pc # "idle" => caller.oid \in Oids
      /\ worker.pc \in WithOid => worker.oid \in Oids
  BY DEF Types, OidTypes, NdisTypes, WorkerTypes
<1>2. OidInList
  BY DEF Orderly
<1>3. resetting /\ worker.pc \in WithOid => resetting'
  BY ResetGoesOn
<1>4. health # "sound" => health' # "sound"
  BY HealthSteps
<1>5. ~MPMAIN_CleanupQueues
  BY DEF MPMAIN_CleanupQueues
<1>6. ASSUME UNCHANGED <<OIDFreeList, OIDWaitingList, caller>>,
             ~MPQMI_FindRequest, ~MPQMI_ProcessInboundQWDSResponse
      PROVE  OidInList'
  <2>1. F' = F /\ W' = W /\ caller' = caller
    BY <1>6
  <2>. HIDE DEF F, W
  <2>2. QED
    BY <1>2, <1>3, <1>4, <1>6, <2>1, OidInHand DEF OidInList, WithOid, F, W
<1>7. ASSUME NEW s \in Services, NEW async \in BOOLEAN, NEW a \in Requests,
             TakeOid(s, async, a)
      PROVE  OidInList'
  <2>. DEFINE o == Head(OIDFreeList)
  <2>1. /\ OIDFreeList # << >> /\ ~resetting
        /\ OIDFreeList' = Tail(OIDFreeList)
        /\ UNCHANGED <<OIDWaitingList, worker, resetting, health>>
        /\ caller'.pc = "taken" /\ caller'.oid = o
    BY <1>7 DEF TakeOid, resetVars, lossVars
  <2>2. /\ IsInjective(OIDFreeList') /\ F = F' \cup {o} /\ o \notin F'
    BY <1>1, <1>2, <2>1, ListTail DEF OidInList
  <2>3. o \notin W /\ W' = W
    BY <1>2, <2>1, <2>2 DEF OidInList
  <2>4. worker.pc \in WithOid => worker.oid \in W \/ worker.oid \notin F
    BY <1>2, <2>1 DEF OidInList, WithOid
  <2>. HIDE DEF o
  <2>5. QED
    BY <1>2, <2>1, <2>2, <2>3, <2>4 DEF OidInList, WithOid
<1>8. CASE SubmitOid
  <2>1. /\ caller.pc = "taken" /\ caller'.pc = "idle"
        /\ OIDWaitingList' = Append(OIDWaitingList, caller.oid)
        /\ UNCHANGED <<OIDFreeList, worker, resetting, health>>
    BY <1>8 DEF SubmitOid, Idle, resetVars, lossVars
  <2>2. caller.oid \in Oids /\ caller.oid \notin W /\ caller.oid \notin F
    BY <1>1, <1>2, <2>1 DEF OidInList
  <2>3. W' = W \cup {caller.oid} /\ IsInjective(OIDWaitingList')
    BY <1>1, <1>2, <2>1, <2>2, ListAppend DEF OidInList
  <2>4. QED
    BY <1>2, <2>1, <2>2, <2>3 DEF OidInList, WithOid
<1>9. CASE SubmitFails
  <2>1. /\ caller.pc = "taken" /\ caller'.pc = "failed"
        /\ OIDFreeList' = Append(OIDFreeList, caller.oid)
        /\ UNCHANGED <<OIDWaitingList, worker, resetting, health>>
    BY <1>1, <1>9 DEF SubmitFails, CallerRecords, resetVars
  <2>2. caller.oid \in Oids /\ caller.oid \notin W /\ caller.oid \notin F
    BY <1>1, <1>2, <2>1 DEF OidInList
  <2>3. F' = F \cup {caller.oid} /\ IsInjective(OIDFreeList')
    BY <1>1, <1>2, <2>1, <2>2, ListAppend DEF OidInList
  <2>4. QED
    BY <1>2, <2>1, <2>2, <2>3 DEF OidInList, WithOid
<1>10. CASE SubmitReturns
  BY <1>2, <1>10
  DEF SubmitReturns, OidInList, Idle, resetVars, lossVars
<1>11. CASE MPQMI_FindRequest
  <2>1. /\ worker'.pc = "process" /\ worker'.oid \in W
        /\ UNCHANGED <<OIDFreeList, OIDWaitingList, caller>>
    BY <1>11, WorkerSteps DEF MPQMI_FindRequest, Types
  <2>2. QED
    BY <1>2, <2>1 DEF OidInList, WithOid
<1>12. CASE MPQMI_ProcessInboundQWDSResponse
  <2>. DEFINE o == worker.oid
  <2>1. /\ worker.pc \in {"process", "unlink"} /\ UNCHANGED <<caller, resetting>>
        /\ worker'.oid = o
        /\ \/ /\ UNCHANGED <<OIDWaitingList, OIDFreeList, health>>
              /\ worker'.pc = "repost"
           \/ /\ worker'.pc = "complete"
              /\ OIDWaitingList' = RemoveEntryList(OIDWaitingList, o)
              /\ OIDFreeList' = RemoveEntryList(OIDFreeList, o)
    <3>1. /\ worker.pc \in {"process", "unlink"} /\ UNCHANGED <<caller, resetting>>
          /\ worker'.oid = o
      BY <1>12, WorkerSteps
      DEF MPQMI_ProcessInboundQWDSResponse, Moved, resetVars
    <3>2. CASE oid[worker.oid].queue # << >>
      BY <1>12, <3>1, <3>2, WorkerSteps
      DEF MPQMI_ProcessInboundQWDSResponse, Moved
    <3>3. CASE ~(oid[worker.oid].queue # << >>)
      BY <1>12, <3>1, <3>3, WorkerSteps
      DEF MPQMI_ProcessInboundQWDSResponse, Moved
    <3>4. QED
      BY <3>1, <3>2, <3>3
  <2>2. CASE UNCHANGED <<OIDWaitingList, OIDFreeList>> /\ worker'.pc = "repost"
    BY <1>2, <2>1, <2>2 DEF OidInList, WithOid
  <2>3. CASE /\ worker'.pc = "complete"
             /\ OIDWaitingList' = RemoveEntryList(OIDWaitingList, o)
             /\ OIDFreeList' = RemoveEntryList(OIDFreeList, o)
    <3>1. /\ F' = F \ {o} /\ IsInjective(OIDFreeList')
          /\ W' = W \ {o} /\ IsInjective(OIDWaitingList')
      BY <1>1, <1>2, <2>3, ListRemove DEF OidInList
    <3>2. QED
      BY <1>2, <2>1, <2>3, <3>1 DEF OidInList, WithOid
  <2>4. QED
    BY <2>1, <2>2, <2>3
<1>13. CASE FreeOid
  <2>1. /\ worker.pc = "free" /\ worker'.pc = "repost"
        /\ OIDFreeList' = Append(OIDFreeList, worker.oid)
        /\ UNCHANGED <<OIDWaitingList, caller>>
    BY <1>13, WorkerSteps DEF FreeOid, Moved
  <2>2. worker.oid \in Oids /\ worker.oid \notin F
    BY <1>1, <1>2, <2>1 DEF OidInList, WithOid
  <2>3. F' = F \cup {worker.oid} /\ IsInjective(OIDFreeList')
    BY <1>1, <1>2, <2>1, <2>2, ListAppend DEF OidInList
  <2>4. QED
    BY <1>2, <2>1, <2>2, <2>3 DEF OidInList, WithOid
<1>14. CASE CleanupOids
  <2>1. resetting /\ UNCHANGED <<resetting, caller, worker>>
    BY <1>14 DEF CleanupOids, Dpc, Orderly, ReadsCounted
  <2>2. CASE nBusyOID = 0
    BY <1>2, <1>14, <2>1, <2>2
    DEF CleanupOids, OidInList, oidVars
  <2>3. CASE nBusyOID # 0
    <3>1. /\ OIDFreeList' = OIDFreeList \o OIDWaitingList
          /\ OIDWaitingList' = << >>
          /\ InHand => health' = "lossy"
      BY <1>14, <2>3 DEF CleanupOids, DropOids, Lossy
    <3>2. /\ F' = F \cup W /\ IsInjective(OIDFreeList')
          /\ W' = {} /\ IsInjective(OIDWaitingList')
      BY <1>1, <1>2, <3>1, ListConcat, ListEmpty DEF OidInList
    <3>3. worker.pc \in {"process", "unlink"} => health' # "sound"
      BY <1>2, <1>4, <3>1 DEF OidInList, InHand
    <3>4. QED
      BY <1>2, <2>1, <3>2, <3>3 DEF OidInList, WithOid
  <2>4. QED
    BY <2>2, <2>3
<1>15. CASE MPQMUX_ComposeQMUXReq \/ WaitForEmpty \/ UNCHANGED oidVars
  <2>1. UNCHANGED <<OIDFreeList, OIDWaitingList>>
    BY <1>15 DEF MPQMUX_ComposeQMUXReq, WaitForEmpty, oidVars
  <2>2. QED
    BY <1>6, <1>7, <1>8, <1>9, <1>10, <1>11, <1>12, <2>1, CallerStays
<1>16. QED
  BY <1>5, <1>7, <1>8, <1>9, <1>10, <1>11, <1>12, <1>13, <1>14, <1>15, OidsStay

-----------------------------------------------------------------------------
(* The requests of NDIS have started in turn.                              *)
LEMMA StartedStays ==
    ASSUME Types, Orderly, Next, NEW r \in Requests
    PROVE  \/ Started(r)' <=> Started(r)
           \/ /\ Started(r)' /\ r = Made + 1
              /\ \E s \in Services, async \in BOOLEAN, a \in Requests :
                    TakeOid(s, async, a)
<1>1. /\ ndis \in [Requests -> RequestRecords]
      /\ \A q \in OidRequestList : Started(q)
      /\ \A o \in Oids : oid[o].req # 0 => Started(oid[o].req)
      /\ caller.pc # "idle" => Started(caller.req) /\ caller.req \in Requests
  BY DEF Types, NdisTypes, Orderly, InTurn
<1>2. CASE UNCHANGED ndis
  BY <1>2 DEF Started
<1>3. ASSUME NEW s \in Services, NEW async \in BOOLEAN, NEW a \in Requests,
             TakeOid(s, async, a)
      PROVE  (Started(r)' <=> Started(r)) \/ (Started(r)' /\ r = Made + 1)
  <2>. DEFINE m == Made + 1
  <2>1. ndis' = [ndis EXCEPT ![m].state = "given", ![m].addr = a]
    BY <1>3 DEF TakeOid
  <2>2. m \in Requests
    BY <1>3, NextRequest DEF TakeOid, Types, Orderly, MessageTypes
  <2>. HIDE DEF m
  <2>3. \/ r # m /\ ndis'[r] = ndis[r]
        \/ r = m /\ ndis'[r].state = "given"
    BY <1>1, <2>1, <2>2 DEF RequestRecords
  <2>4. QED
    BY <2>3 DEF Started, m
<1>4. CASE SubmitOid \/ SubmitReturns
  <2>1. caller.pc # "idle"
    BY <1>4 DEF SubmitOid, SubmitReturns
  <2>2. PICK st \in {"later", "pending", "failed"} :
           ndis' = [ndis EXCEPT ![caller.req].state = st]
    BY <1>4 DEF SubmitOid, SubmitReturns
  <2>3. \/ r # caller.req /\ ndis'[r] = ndis[r]
        \/ r = caller.req /\ ndis'[r].state = st
    BY <1>1, <2>1, <2>2 DEF RequestRecords
  <2>4. QED
    BY <1>1, <2>1, <2>3 DEF Started
<1>5. ASSUME NEW requests \in SUBSET OidRequestList, Abort(requests)
      PROVE  Started(r)' <=> Started(r)
  <2>1. \/ ndis'[r] = ndis[r]
        \/ r \in OidRequestList /\ ndis'[r].state = "aborted"
    BY <1>1, <1>5 DEF Abort, RequestRecords
  <2>2. QED
    BY <1>1, <2>1 DEF Started
<1>6. CASE MPOID_CompleteOid
  <2>1. worker.oid \in Oids
    BY <1>6, WorkerSteps DEF Moved, Types, WorkerTypes, WithOid
  <2>2. \A requests : Complete(requests) =>
           \/ ndis'[r] = ndis[r]
           \/ r \in requests /\ ndis'[r].state = "answered"
    BY <1>1 DEF Complete, RequestRecords
  <2>3. /\ \A q \in {oid[worker.oid].req} \cap Requests : Started(q)
        /\ \A q \in Matches(worker.oid) : Started(q)
    BY <1>1, <2>1 DEF Matches, Requests
  <2>4. \/ ndis'[r] = ndis[r]
        \/ Started(r) /\ ndis'[r].state = "answered"
    BY <1>6, <2>2, <2>3 DEF MPOID_CompleteOid
  <2>5. QED
    BY <2>4 DEF Started
<1>7. QED
  BY <1>2, <1>3, <1>4, <1>5, <1>6, RequestsStay

(* An OID has the request of before, one that has started, or none.        *)
LEMMA OidRequests ==
    ASSUME Types, Orderly, Next, NEW o \in Oids
    PROVE  \/ oid'[o].req \in {0, oid[o].req}
           \/ oid'[o].req \in Requests /\ ndis'[oid'[o].req].state # "new"
<1>1. oid \in [Oids -> OidRecords] /\ ndis \in [Requests -> RequestRecords]
  BY DEF Types, OidTypes, NdisTypes
<1>2. ASSUME NEW s \in Services, NEW async \in BOOLEAN, NEW a \in Requests,
             TakeOid(s, async, a)
      PROVE  \/ oid'[o].req = oid[o].req
             \/ oid'[o].req \in Requests /\ ndis'[oid'[o].req].state # "new"
  <2>. DEFINE r == Made + 1
  <2>1. r \in Requests
    BY <1>2, NextRequest DEF TakeOid, Types, Orderly, MessageTypes
  <2>2. /\ ndis' = [ndis EXCEPT ![r].state = "given", ![r].addr = a]
        /\ \E x, y : oid' = [oid EXCEPT ![x] = [req |-> r, ref |-> a,
                                                async |-> async, queue |-> y]]
    BY <1>2 DEF TakeOid
  <2>. HIDE DEF r
  <2>3. ndis'[r].state = "given"
    BY <1>1, <2>1, <2>2 DEF RequestRecords
  <2>4. oid'[o] = oid[o] \/ oid'[o].req = r
    BY <1>1, <2>2
  <2>5. QED
    BY <2>1, <2>3, <2>4
<1>3. DropOids => oid'[o].req \in {0, oid[o].req}
  BY <1>1 DEF DropOids, Unused, OidRecords
<1>4. SubmitFails \/ FreeOid => oid'[o].req \in {0, oid[o].req}
  BY <1>1 DEF SubmitFails, FreeOid, Unused
<1>5. MPQMI_FindRequest \/ MPQMUX_ComposeQMUXReq => oid'[o].req = oid[o].req
  <2>1. \A x, q : oid' = [oid EXCEPT ![x].queue = q] =>
                     oid'[o].req = oid[o].req
    BY <1>1 DEF OidRecords
  <2>2. MPQMI_FindRequest \/ MPQMUX_ComposeQMUXReq =>
           \E x, q : oid' = [oid EXCEPT ![x].queue = q]
    BY DEF MPQMI_FindRequest, MPQMUX_ComposeQMUXReq
  <2>3. QED
    BY <2>1, <2>2
<1>6. CASE \/ SubmitOid \/ SubmitReturns
           \/ MPQMI_ProcessInboundQWDSResponse \/ WaitForEmpty
           \/ (CleanupOids /\ ~DropOids)
           \/ (MPMAIN_CleanupQueues /\ ~DropOids)
           \/ UNCHANGED oidVars
  <2>1. UNCHANGED oid
    BY <1>6
    DEF SubmitOid, SubmitReturns, MPQMI_ProcessInboundQWDSResponse,
        WaitForEmpty, CleanupOids, MPMAIN_CleanupQueues, oidVars
  <2>2. QED
    BY <2>1
<1>7. QED
  BY <1>2, <1>3, <1>4, <1>5, <1>6, OidsStay

LEMMA InTurnKept ==
    ASSUME Types, Orderly, Next
    PROVE  InTurn'
<1>1. /\ InTurn /\ NdisTypes /\ OidTypes
  BY DEF Types, Orderly
<1>2. \A r \in Requests : Started(r) => Started(r)'
  BY StartedStays
<1>3. \E k \in 0..MaxRequests : \A r \in Requests : Started(r)' <=> r <= k
  <2>1. CASE \A r \in Requests : Started(r)' <=> Started(r)
    BY <1>1, <2>1 DEF InTurn
  <2>2. CASE \E r \in Requests : ~(Started(r)' <=> Started(r))
    <3>1. PICK q \in Requests : ~(Started(q)' <=> Started(q))
      BY <2>2
    <3>2. /\ Started(q)' /\ q = Made + 1 /\ sends + Made < MaxRequests
      BY <3>1, StartedStays DEF TakeOid
    <3>3. /\ Made \in Nat /\ \A r \in Requests : Started(r) <=> r <= Made
      BY <1>1, <3>2, NextRequest DEF Types, MessageTypes
    <3>4. \A r \in Requests : r # q => (Started(r)' <=> Started(r))
      BY <3>2, StartedStays
    <3>5. \A r \in Requests : Started(r)' <=> r <= q
      BY <3>2, <3>3, <3>4 DEF Requests
    <3>6. QED
      BY <3>5, BoundsAssumption DEF Requests
  <2>3. QED
    BY <2>1, <2>2
<1>4. \A r \in OidRequestList' : Started(r)'
  <2>1. \A r \in OidRequestList' : r \in OidRequestList \/ SubmitOid
    BY RequestsStay DEF TakeOid, ndisVars, SubmitReturns, Abort,
                        MPOID_CompleteOid
  <2>2. SubmitOid => \A r \in OidRequestList' :
                        r \in OidRequestList \/ r = caller.req
    BY DEF SubmitOid
  <2>3. SubmitOid => caller.req \in Requests /\ Started(caller.req)
    BY <1>1 DEF SubmitOid, InTurn, NdisTypes
  <2>4. QED
    BY <1>1, <1>2, <2>1, <2>2, <2>3 DEF InTurn, NdisTypes
<1>5. ASSUME NEW o \in Oids, oid'[o].req # 0
      PROVE  ndis'[oid'[o].req].state # "new"
  <2>1. oid[o].req # 0 => oid[o].req \in Requests /\ Started(oid[o].req)
    BY <1>1, BoundsAssumption DEF InTurn, OidTypes, OidRecords, Requests
  <2>2. QED
    BY <1>2, <1>5, <2>1, OidRequests DEF Started
<1>6. caller'.pc # "idle" => ndis'[caller'.req].state # "new"
  <2>1. CASE caller'.pc # "idle" /\ caller.pc # "idle"
             /\ caller'.req = caller.req
    BY <1>1, <1>2, <2>1 DEF InTurn, NdisTypes, Started
  <2>2. ASSUME NEW s \in Services, NEW async \in BOOLEAN, NEW a \in Requests,
               TakeOid(s, async, a)
        PROVE  ndis'[caller'.req].state # "new"
    <3>. DEFINE r == Made + 1
    <3>1. r \in Requests
      BY <2>2, NextRequest DEF TakeOid, Types, Orderly, MessageTypes
    <3>2. /\ ndis' = [ndis EXCEPT ![r].state = "given", ![r].addr = a]
          /\ caller'.req = r
      BY <2>2 DEF TakeOid
    <3>. HIDE DEF r
    <3>3. ndis'[r].state = "given"
      BY <1>1, <3>1, <3>2 DEF NdisTypes, RequestRecords
    <3>4. QED
      BY <3>2, <3>3
  <2>3. SubmitFails => caller'.req = caller.req /\ caller.pc # "idle"
    BY <1>1 DEF SubmitFails, NdisTypes, CallerRecords
  <2>4. SubmitOid \/ SubmitReturns => caller'.pc = "idle"
    BY DEF SubmitOid, SubmitReturns, Idle
  <2>5. QED
    BY <2>1, <2>2, <2>3, <2>4, CallerStays
<1>7. QED
  BY <1>3, <1>4, <1>5, <1>6 DEF InTurn, Started

-----------------------------------------------------------------------------
(* A message is in one place: in a list, at the modem, or in the hands of  *)
(* the work thread.                                                        *)
Writes == ToSet(CtrlWriteList)
Waits == ToSet(CtrlWritePendingList)
Answers == ToSet(CtrlReadCompleteList)

(* Two messages of one request, or one of the driver's own. *)
Same(m, n) == m.req = n.req /\ (m.req = 0 => m.step = n.step)

LEMMA MessageInHand ==
    ASSUME Types, Next
    PROVE  \/ MPWork_PostWriteRequests \/ MPWork_ResolveRequests
           \/ HeldMessages' \subseteq HeldMessages
<1>1. CASE UNCHANGED worker
  BY <1>1 DEF HeldMessages
<1>2. CASE WorkThread
  <2>1. \/ MPWork_PostWriteRequests \/ MPWork_ResolveRequests
        \/ /\ worker'.pc \in WithMessage => worker.pc \in WithMessage
           /\ worker.pc \in WithMessage /\ worker'.pc \in WithMessage =>
                 worker'.msg = worker.msg
    BY <1>2, WorkerSteps DEF WorkThread, Moved, Emptied, WithMessage
  <2>2. QED
    BY <2>1 DEF HeldMessages
<1>3. QED
  BY <1>1, <1>2, WorkerStill

(* The message that a step queues, if any, is the first of its request, or *)
(* takes the place of the first.                                           *)
LEMMA QueuedMessage ==
    ASSUME Types, Orderly, Next, health' # "over"
    PROVE  \/ UNCHANGED <<CtrlWriteList, CtrlWritePendingList>>
           \/ MPMAIN_MoveQMIRequests \/ MPWork_PostWriteRequests \/ WritesEnd
           \/ CleanupWrites
           \/ \E m \in Messages :
                 /\ \E id : QueueWrite(m, id)
                 /\ UNCHANGED <<atModem, CtrlReadCompleteList>>
                 /\ HeldMessages' \subseteq HeldMessages
                 /\ \A n \in LiveMessages \ (HeldMessages \ HeldMessages') :
                       ~Same(m, n)
                 /\ IF m.req = 0
                    THEN m.step <= sends' /\ sends' = sends + 1
                    ELSE /\ Started(m.req) /\ sends' = sends
                         /\ caller'.pc = "taken" => m.req # caller'.req
<1>1. OneMessage /\ InTurn /\ InOnePlace /\ OidInList
  BY DEF Orderly
<1>2. LiveMessages \subseteq Messages
  BY ElementOfSeq, LenProperties
  DEF LiveMessages, HeldMessages, Types, MessageTypes, WorkerTypes, ToSet
<1>3. ASSUME NEW s \in Services, MP_USBSendControl(s)
      PROVE  \E m \in Messages :
                 /\ \E id : QueueWrite(m, id)
                 /\ UNCHANGED <<atModem, CtrlReadCompleteList>>
                 /\ HeldMessages' \subseteq HeldMessages
                 /\ \A n \in LiveMessages \ (HeldMessages \ HeldMessages') :
                       ~Same(m, n)
                 /\ IF m.req = 0
                    THEN m.step <= sends' /\ sends' = sends + 1
                    ELSE /\ Started(m.req) /\ sends' = sends
                         /\ caller'.pc = "taken" => m.req # caller'.req
  <2>. DEFINE m == [req |-> 0, step |-> sends + 1, svc |-> s]
  <2>1. sends \in Nat
    BY DEF Types, MessageTypes
  <2>2. m \in Messages /\ m.req = 0 /\ m.step = sends + 1
    BY <2>1, BoundsAssumption DEF Messages
  <2>3. /\ QueueWrite(m, qmi # "down") /\ sends' = sends + 1
        /\ UNCHANGED <<atModem, CtrlReadCompleteList, worker>>
    BY <1>3 DEF MP_USBSendControl, usbVars
  <2>. HIDE DEF m
  <2>4. \A n \in LiveMessages : n.req = 0 => n.step <= sends /\ n.step \in Nat
    BY <1>1, <1>2 DEF OneMessage, Messages
  <2>5. \A n \in LiveMessages : ~Same(m, n)
    BY <2>1, <2>2, <2>4 DEF Same
  <2>6. QED
    BY <2>1, <2>2, <2>3, <2>5 DEF HeldMessages
<1>4. CASE SubmitOid
  <2>. DEFINE m == Last(oid[caller.oid].queue)
  <2>1. m \in Messages /\ caller.req \in Requests
    BY <1>4, SubmittedMessage
  <2>2. /\ m.req = caller.req /\ caller.req # 0 /\ Started(caller.req)
        /\ \A n \in LiveMessages : n.req # caller.req
    BY <1>1, <1>4, <2>1 DEF SubmitOid, OneMessage, InTurn, Requests
  <2>3. /\ QueueWrite(m, caller.id) /\ sends' = sends
        /\ UNCHANGED <<atModem, CtrlReadCompleteList, worker>>
        /\ caller'.pc = "idle"
    BY <1>4 DEF SubmitOid, usbVars, Idle
  <2>. HIDE DEF m
  <2>4. QED
    BY <2>1, <2>2, <2>3 DEF HeldMessages, Same
<1>5. CASE MPQMUX_ComposeQMUXReq
  <2>. DEFINE m == [worker.msg EXCEPT !.step = 2]
  <2>1. /\ worker.pc = "process" /\ worker'.pc = "unlink"
        /\ worker.msg \in Messages /\ worker.msg.req # 0
        /\ QueueWrite(m, qmi # "down") /\ sends' = sends
        /\ UNCHANGED <<atModem, CtrlReadCompleteList, caller>>
    BY <1>5, WorkerSteps
    DEF MPQMUX_ComposeQMUXReq, Moved, Types, WorkerTypes, WithMessage, usbVars
  <2>2. m \in Messages /\ m.req = worker.msg.req
    BY <2>1 DEF Messages
  <2>3. HeldMessages = {worker.msg} /\ HeldMessages' = {}
    BY <2>1 DEF HeldMessages, WithMessage
  <2>4. worker.msg \in LiveMessages
    BY <2>3 DEF LiveMessages
  <2>. HIDE DEF m
  <2>5. \A n \in LiveMessages \ {worker.msg} : ~Same(m, n)
    BY <1>1, <2>1, <2>2, <2>4 DEF OneMessage, Same
  <2>6. /\ Started(m.req)
        /\ caller'.pc = "taken" => m.req # caller'.req
    BY <1>1, <2>1, <2>2, <2>4 DEF OneMessage
  <2>7. QED
    BY <2>1, <2>2, <2>3, <2>5, <2>6
<1>6. QED
  <2>1. ~MPMAIN_CleanupQueues
    BY DEF MPMAIN_CleanupQueues
  <2>2. \/ UNCHANGED <<CtrlWriteList, CtrlWritePendingList>>
        \/ MPMAIN_MoveQMIRequests \/ MPWork_PostWriteRequests \/ WritesEnd
        \/ CleanupWrites
        \/ \E s \in Services : MP_USBSendControl(s)
        \/ SubmitOid \/ MPQMUX_ComposeQMUXReq
    BY <2>1, MessagesStay
    DEF MP_USBSendControlRequest, WriteDone, MPWork_ResolveRequests, Answer,
        queueVars
  <2>3. QED
    BY <1>3, <1>4, <1>5, <2>2

(* How the messages move.  First what a step makes of the set of the live  *)
(* messages: none is added, or the one that is queued.                     *)
LEMMA MessageFlow ==
    ASSUME Types, Orderly, Next, health' # "over"
    PROVE  /\ InOnePlace'
           /\ \/ LiveMessages' \subseteq LiveMessages
              \/ \E m \in Messages :
                   /\ LiveMessages' \subseteq
                        (LiveMessages \ (HeldMessages \ HeldMessages'))
                           \cup {m}
                   /\ \A n \in LiveMessages \ (HeldMessages \ HeldMessages') :
                         ~Same(m, n)
                   /\ IF m.req = 0
                      THEN m.step <= sends' /\ sends' = sends + 1
                      ELSE /\ Started(m.req) /\ sends' = sends
                           /\ caller'.pc = "taken" => m.req # caller'.req
<1>. DEFINE H == HeldMessages
            A == atModem
<1>1. /\ CtrlWriteList \in Seq(Messages)
      /\ CtrlWritePendingList \in Seq(Messages)
      /\ CtrlReadCompleteList \in Seq(Messages)
      /\ A \subseteq Messages
  BY DEF Types, MessageTypes
<1>2. /\ IsInjective(CtrlWriteList) /\ IsInjective(CtrlWritePendingList)
      /\ IsInjective(CtrlReadCompleteList)
      /\ Writes \cap Waits = {} /\ (Writes \cup Waits) \cap (A \cup Answers) = {}
      /\ A \cap Answers = {}
      /\ H \cap (Writes \cup Waits \cup A \cup Answers) = {}
  BY DEF Orderly, InOnePlace, Writes, Waits, Answers
<1>3. LiveMessages = Writes \cup Waits \cup A \cup Answers \cup H
  BY DEF LiveMessages, Writes, Waits, Answers
<1>4. LiveMessages' = Writes' \cup Waits' \cup A' \cup Answers' \cup H'
  BY DEF LiveMessages, Writes, Waits, Answers
<1>5. InOnePlace' <=>
         /\ IsInjective(CtrlWriteList') /\ IsInjective(CtrlWritePendingList')
         /\ IsInjective(CtrlReadCompleteList')
         /\ Writes' \cap Waits' = {}
         /\ (Writes' \cup Waits') \cap (A' \cup Answers') = {}
         /\ A' \cap Answers' = {}
         /\ H' \cap (Writes' \cup Waits' \cup A' \cup Answers') = {}
  BY DEF InOnePlace, Writes, Waits, Answers
<1>6. /\ UNCHANGED CtrlWriteList => Writes' = Writes
      /\ UNCHANGED CtrlWritePendingList => Waits' = Waits
      /\ UNCHANGED CtrlReadCompleteList => Answers' = Answers
  BY DEF Writes, Waits, Answers
<1>. HIDE DEF H, A
<1>7. CASE MPMAIN_MoveQMIRequests
  <2>1. /\ CtrlWriteList' = CtrlWriteList \o CtrlWritePendingList
        /\ CtrlWritePendingList' = << >>
        /\ UNCHANGED <<atModem, CtrlReadCompleteList, worker>>
    BY <1>7 DEF MPMAIN_MoveQMIRequests, usbVars
  <2>2. /\ Writes' = Writes \cup Waits /\ Waits' = {}
        /\ IsInjective(CtrlWriteList') /\ IsInjective(CtrlWritePendingList')
    BY <1>1, <1>2, <2>1, ListConcat, ListEmpty DEF Writes, Waits
  <2>3. A' = A /\ H' = H
    BY <2>1 DEF A, H, HeldMessages
  <2>4. QED
    BY <1>2, <1>3, <1>4, <1>5, <1>6, <2>1, <2>2, <2>3
<1>8. CASE MPWork_PostWriteRequests
  <2>1. /\ CtrlWriteList # << >> /\ CtrlWriteList' = Tail(CtrlWriteList)
        /\ worker.pc = "writes" /\ worker'.pc = "send"
        /\ worker'.msg = Head(CtrlWriteList)
        /\ UNCHANGED <<atModem, CtrlReadCompleteList, CtrlWritePendingList>>
    BY <1>8, WorkerSteps DEF MPWork_PostWriteRequests, usbVars
  <2>2. /\ Writes = Writes' \cup {Head(CtrlWriteList)}
        /\ IsInjective(CtrlWriteList') /\ Head(CtrlWriteList) \notin Writes'
    BY <1>1, <1>2, <2>1, ListTail DEF Writes
  <2>3. A' = A /\ H' = {Head(CtrlWriteList)}
    BY <2>1 DEF A, H, HeldMessages, WithMessage
  <2>4. QED
    BY <1>2, <1>3, <1>4, <1>5, <1>6, <2>1, <2>2, <2>3
<1>9. CASE WritesEnd
  <2>1. /\ UNCHANGED <<atModem, CtrlReadCompleteList, CtrlWritePendingList>>
        /\ worker.pc = "writes" /\ worker'.pc = "resolve"
    BY <1>9, WorkerSteps DEF WritesEnd, usbVars, Moved
  <2>2. Writes' = Writes /\ IsInjective(CtrlWriteList')
    <3>1. CASE UNCHANGED CtrlWriteList
      BY <1>2, <1>6, <3>1
    <3>2. CASE /\ CtrlWriteList # << >>
               /\ CtrlWriteList' = Append(Tail(CtrlWriteList),
                                          Head(CtrlWriteList))
      <4>1. /\ Tail(CtrlWriteList) \in Seq(Messages)
            /\ Head(CtrlWriteList) \in Messages
            /\ Writes = ToSet(Tail(CtrlWriteList)) \cup {Head(CtrlWriteList)}
            /\ IsInjective(Tail(CtrlWriteList))
            /\ Head(CtrlWriteList) \notin ToSet(Tail(CtrlWriteList))
        BY <1>1, <1>2, <3>2, ListTail DEF Writes
      <4>0. \A t \in Seq(Messages), h \in Messages :
               IsInjective(t) /\ h \notin ToSet(t) =>
                  /\ ToSet(Append(t, h)) = ToSet(t) \cup {h}
                  /\ IsInjective(Append(t, h))
        BY ListAppend
      <4>2. /\ ToSet(CtrlWriteList') =
                  ToSet(Tail(CtrlWriteList)) \cup {Head(CtrlWriteList)}
            /\ IsInjective(CtrlWriteList')
        BY <3>2, <4>1, <4>0
      <4>3. Writes' = ToSet(CtrlWriteList')
        BY DEF Writes
      <4>4. QED
        BY <4>1, <4>2, <4>3
    <3>3. QED
      BY <1>9, <3>1, <3>2 DEF WritesEnd
  <2>3. A' = A /\ H' = {} /\ H = {}
    BY <2>1 DEF A, H, HeldMessages, WithMessage
  <2>4. QED
    BY <1>2, <1>3, <1>4, <1>5, <1>6, <2>1, <2>2, <2>3
<1>10. CASE MP_USBSendControlRequest
  <2>1. /\ worker.pc = "send" /\ worker'.pc = "sent"
        /\ UNCHANGED <<CtrlWriteList, CtrlWritePendingList,
                       CtrlReadCompleteList>>
        /\ atModem' = atModem \cup {worker.msg} \/ atModem' = atModem
    BY <1>10, WorkerSteps DEF MP_USBSendControlRequest, queueVars, Moved
  <2>2. H = {worker.msg} /\ H' = {}
    BY <2>1 DEF H, HeldMessages, WithMessage
  <2>3. A' = A \cup {worker.msg} \/ A' = A
    BY <2>1 DEF A
  <2>4. QED
    BY <1>2, <1>3, <1>4, <1>5, <1>6, <2>1, <2>2, <2>3
<1>11. CASE MPWork_ResolveRequests
  <2>1. /\ CtrlReadCompleteList # << >>
        /\ CtrlReadCompleteList' = Tail(CtrlReadCompleteList)
        /\ worker.pc = "resolve" /\ worker'.pc = "inbound"
        /\ worker'.msg = Head(CtrlReadCompleteList)
        /\ UNCHANGED <<atModem, CtrlWriteList, CtrlWritePendingList>>
    BY <1>11, WorkerSteps DEF MPWork_ResolveRequests, queueVars
  <2>2. /\ Answers = Answers' \cup {Head(CtrlReadCompleteList)}
        /\ IsInjective(CtrlReadCompleteList')
        /\ Head(CtrlReadCompleteList) \notin Answers'
    BY <1>1, <1>2, <2>1, ListTail DEF Answers
  <2>3. A' = A /\ H' = {Head(CtrlReadCompleteList)}
    BY <2>1 DEF A, H, HeldMessages, WithMessage
  <2>4. QED
    BY <1>2, <1>3, <1>4, <1>5, <1>6, <2>1, <2>2, <2>3
<1>12. ASSUME NEW m \in atModem, Answer(m)
       PROVE  InOnePlace' /\ LiveMessages' \subseteq LiveMessages
  <2>1. /\ UNCHANGED <<CtrlWriteList, CtrlWritePendingList, worker>>
        /\ atModem' = atModem \ {m}
        /\ \/ UNCHANGED CtrlReadCompleteList
           \/ CtrlReadCompleteList' = Append(CtrlReadCompleteList, m)
    BY <1>12 DEF Answer, queueVars
  <2>2. m \in A /\ A' = A \ {m} /\ H' = H /\ m \in Messages /\ m \notin Answers
    BY <1>1, <1>2, <2>1 DEF A, H, HeldMessages
  <2>3. /\ Answers' = Answers \/ Answers' = Answers \cup {m}
        /\ IsInjective(CtrlReadCompleteList')
    <3>1. CASE UNCHANGED CtrlReadCompleteList
      BY <1>2, <1>6, <3>1
    <3>2. CASE CtrlReadCompleteList' = Append(CtrlReadCompleteList, m)
      <4>1. m \notin ToSet(CtrlReadCompleteList)
        BY <2>2 DEF Answers
      <4>2. /\ ToSet(CtrlReadCompleteList')
                 = ToSet(CtrlReadCompleteList) \cup {m}
            /\ IsInjective(CtrlReadCompleteList')
        BY <1>1, <1>2, <2>2, <3>2, <4>1, ListAppend
      <4>3. QED
        BY <4>2 DEF Answers
    <3>3. QED
      BY <2>1, <3>1, <3>2
  <2>4. QED
    BY <1>2, <1>3, <1>4, <1>5, <1>6, <2>1, <2>2, <2>3
<1>13. CASE CleanupWrites
  <2>1. /\ UNCHANGED <<atModem, CtrlReadCompleteList, worker>>
        /\ \/ UNCHANGED <<CtrlWriteList, CtrlWritePendingList>>
           \/ CtrlWriteList' = << >> /\ CtrlWritePendingList' = << >>
    BY <1>13 DEF CleanupWrites, DropWrites, usbVars, queueVars
  <2>2. /\ \/ Writes' = Writes /\ Waits' = Waits
           \/ Writes' = {} /\ Waits' = {}
        /\ IsInjective(CtrlWriteList') /\ IsInjective(CtrlWritePendingList')
    BY <1>2, <1>6, <2>1, ListEmpty DEF Writes, Waits
  <2>3. A' = A /\ H' = H
    BY <2>1 DEF A, H, HeldMessages
  <2>4. QED
    BY <1>2, <1>3, <1>4, <1>5, <1>6, <2>1, <2>2, <2>3
<1>14. ASSUME NEW m \in Messages, NEW id, QueueWrite(m, id),
              UNCHANGED <<atModem, CtrlReadCompleteList>>,
              H' \subseteq H,
              \A n \in LiveMessages \ (H \ H') : ~Same(m, n)
       PROVE  /\ InOnePlace'
              /\ LiveMessages' \subseteq (LiveMessages \ (H \ H')) \cup {m}
  <2>1. m \notin Writes \cup Waits \cup A \cup Answers \cup H'
    BY <1>2, <1>3, <1>14 DEF Same
  <2>2. A' = A /\ Answers' = Answers
    BY <1>6, <1>14 DEF A
  <2>3. /\ \/ Writes' = Writes \cup {m} /\ Waits' = Waits
           \/ Writes' = Writes /\ Waits' = Waits \cup {m}
        /\ IsInjective(CtrlWriteList') /\ IsInjective(CtrlWritePendingList')
    <3>0. m \notin ToSet(CtrlWriteList) /\ m \notin ToSet(CtrlWritePendingList)
      BY <2>1 DEF Writes, Waits
    <3>1. CASE id
      <4>1. /\ CtrlWriteList' = Append(CtrlWriteList, m)
            /\ UNCHANGED CtrlWritePendingList
        BY <1>14, <3>1 DEF QueueWrite
      <4>2. /\ ToSet(CtrlWriteList') = ToSet(CtrlWriteList) \cup {m}
            /\ IsInjective(CtrlWriteList')
        BY <1>1, <1>2, <3>0, <4>1, ListAppend
      <4>3. Writes' = Writes \cup {m}
        BY <4>2 DEF Writes
      <4>4. QED
        BY <1>2, <1>6, <4>1, <4>2, <4>3
    <3>2. CASE ~id
      <4>1. /\ CtrlWritePendingList' = Append(CtrlWritePendingList, m)
            /\ UNCHANGED CtrlWriteList
        BY <1>14, <3>2 DEF QueueWrite
      <4>2. /\ ToSet(CtrlWritePendingList')
                 = ToSet(CtrlWritePendingList) \cup {m}
            /\ IsInjective(CtrlWritePendingList')
        BY <1>1, <1>2, <3>0, <4>1, ListAppend
      <4>3. Waits' = Waits \cup {m}
        BY <4>2 DEF Waits
      <4>4. QED
        BY <1>2, <1>6, <4>1, <4>2, <4>3
    <3>3. QED
      BY <3>1, <3>2
  <2>4. IsInjective(CtrlReadCompleteList')
    BY <1>2, <1>14
  <2>5. QED
    BY <1>2, <1>3, <1>4, <1>5, <1>14, <2>1, <2>2, <2>3, <2>4
<1>15. ASSUME UNCHANGED <<CtrlWriteList, CtrlWritePendingList, atModem,
                          CtrlReadCompleteList>>,
              H' \subseteq H
       PROVE  InOnePlace' /\ LiveMessages' \subseteq LiveMessages
  <2>1. A' = A
    BY <1>15 DEF A
  <2>2. QED
    BY <1>2, <1>3, <1>4, <1>5, <1>6, <1>15, <2>1
<1>16. CASE \E m \in Messages :
                 /\ \E id : QueueWrite(m, id)
                 /\ UNCHANGED <<atModem, CtrlReadCompleteList>>
                 /\ H' \subseteq H
                 /\ \A n \in LiveMessages \ (H \ H') : ~Same(m, n)
                 /\ IF m.req = 0
                    THEN m.step <= sends' /\ sends' = sends + 1
                    ELSE /\ Started(m.req) /\ sends' = sends
                         /\ caller'.pc = "taken" => m.req # caller'.req
  BY <1>14, <1>16 DEF H
<1>17. CASE UNCHANGED <<CtrlWriteList, CtrlWritePendingList>>
  <2>1. H' \subseteq H \/ MPWork_ResolveRequests \/ MPWork_PostWriteRequests
    BY MessageInHand DEF H
  <2>2. ~MPMAIN_CleanupQueues
    BY DEF MPMAIN_CleanupQueues
  <2>3. \/ UNCHANGED <<atModem, CtrlReadCompleteList>>
        \/ MP_USBSendControlRequest \/ MPWork_ResolveRequests
        \/ \E m \in atModem : Answer(m)
    BY <2>2, MessagesStay
    DEF MP_USBSendControl, MPMAIN_MoveQMIRequests, SubmitOid,
        MPWork_PostWriteRequests, WritesEnd, WriteDone,
        MPQMUX_ComposeQMUXReq, CleanupWrites, usbVars
  <2>4. QED
    BY <1>8, <1>10, <1>11, <1>12, <1>15, <1>17, <2>1, <2>3
<1>18. QED
  BY <1>7, <1>8, <1>9, <1>13, <1>16, <1>17, QueuedMessage DEF H

LEMMA SendsStay ==
    ASSUME Types, Next
    PROVE  sends' \in Nat /\ sends' >= sends
<1>1. sends \in Nat
  BY DEF Types, MessageTypes
<1>2. sends' = sends \/ sends' = sends + 1
  BY MessagesStay
  DEF MP_USBSendControl, MPMAIN_MoveQMIRequests, SubmitOid,
      MPWork_PostWriteRequests, WritesEnd, MP_USBSendControlRequest,
      WriteDone, MPWork_ResolveRequests, MPQMUX_ComposeQMUXReq, Answer,
      CleanupWrites, MPMAIN_CleanupQueues
<1>3. QED
  BY <1>1, <1>2

(* The OID a thread of NDIS has taken is its own until it is submitted.    *)
LEMMA TakenOid ==
    ASSUME Types, Orderly, Next, caller.pc = "taken", caller'.pc = "taken"
    PROVE  caller' = caller /\ oid'[caller.oid] = oid[caller.oid]
<1>1. /\ caller.oid \in Oids /\ oid \in [Oids -> OidRecords]
      /\ caller.oid \notin ToSet(OIDFreeList) \cup ToSet(OIDWaitingList)
      /\ worker.pc \in WithOid => worker.oid # caller.oid
      /\ worker.pc \in WithOid => worker.oid \in Oids
  BY DEF Types, OidTypes, NdisTypes, WorkerTypes, Orderly, OidInList
<1>2. UNCHANGED caller
  BY CallerStays DEF TakeOid, SubmitOid, SubmitFails, SubmitReturns, Idle,
                     Types, NdisTypes, CallerRecords
<1>3. ~SubmitOid /\ ~SubmitFails /\ ~SubmitReturns
  BY DEF SubmitOid, SubmitFails, SubmitReturns, Idle, Types, NdisTypes,
         CallerRecords
<1>4. \A s, async, a : ~TakeOid(s, async, a)
  BY DEF TakeOid
<1>5. DropOids => oid'[caller.oid] = oid[caller.oid]
  BY <1>1 DEF DropOids
<1>6. FreeOid \/ MPQMUX_ComposeQMUXReq => oid'[caller.oid] = oid[caller.oid]
  <2>1. FreeOid \/ MPQMUX_ComposeQMUXReq => worker.pc \in WithOid
    BY WorkerSteps DEF Moved, WithOid
  <2>2. QED
    BY <1>1, <2>1 DEF FreeOid, MPQMUX_ComposeQMUXReq
<1>7. MPQMI_FindRequest => oid'[caller.oid] = oid[caller.oid]
  <2>1. MPQMI_FindRequest =>
           \E i \in DOMAIN OIDWaitingList :
              \E q : oid' = [oid EXCEPT ![OIDWaitingList[i]].queue = q]
    BY DEF MPQMI_FindRequest
  <2>2. \A i \in DOMAIN OIDWaitingList :
           OIDWaitingList[i] \in ToSet(OIDWaitingList)
    BY DEF ToSet
  <2>3. QED
    BY <1>1, <2>1, <2>2
<1>8. UNCHANGED oid => oid'[caller.oid] = oid[caller.oid]
  OBVIOUS
<1>9. QED
  BY <1>2, <1>3, <1>4, <1>5, <1>6, <1>7, <1>8, OidsStay
  DEF MPQMI_ProcessInboundQWDSResponse, WaitForEmpty, CleanupOids,
      MPMAIN_CleanupQueues, oidVars

LEMMA OneMessageKept ==
    ASSUME Types, Orderly, Next, health' # "over"
    PROVE  OneMessage'
<1>1. OneMessage /\ InTurn
  BY DEF Orderly
<1>2. /\ sends \in Nat /\ sends' \in Nat /\ sends' >= sends
  BY SendsStay DEF Types, MessageTypes
<1>3. /\ LiveMessages \subseteq Messages /\ LiveMessages' \subseteq Messages
  <2>1. Types'
    BY TypesKept
  <2>2. Types => LiveMessages \subseteq Messages
    BY ElementOfSeq, LenProperties
    DEF LiveMessages, HeldMessages, Types, MessageTypes, WorkerTypes, ToSet
  <2>3. Types' => LiveMessages' \subseteq Messages
    BY ElementOfSeq, LenProperties
    DEF LiveMessages, HeldMessages, Types, MessageTypes, WorkerTypes, ToSet
  <2>4. QED
    BY <2>1, <2>2, <2>3
<1>4. \A m \in Messages : m.req # 0 => m.req \in Requests
  BY BoundsAssumption DEF Messages, Requests
<1>5. \A r \in Requests : Started(r) => ndis'[r].state # "new"
  BY StartedStays DEF Started
<1>6. \A m, n \in LiveMessages : Same(m, n) => m = n
  BY <1>1 DEF OneMessage, Same
<1>7. \A m \in LiveMessages : IF m.req = 0 THEN m.step <= sends ELSE Started(m.req)
  BY <1>1 DEF OneMessage
<1>8. \A m, n \in LiveMessages' : Same(m, n) => m = n
  BY <1>6, MessageFlow DEF Same
<1>9. ASSUME NEW m \in LiveMessages'
      PROVE  IF m.req = 0 THEN m.step <= sends' ELSE ndis'[m.req].state # "new"
  <2>1. \/ m \in LiveMessages
        \/ IF m.req = 0 THEN m.step <= sends' ELSE Started(m.req)
    BY MessageFlow
  <2>2. m \in Messages /\ m.step \in Nat
    BY <1>3 DEF Messages
  <2>3. QED
    BY <1>2, <1>4, <1>5, <1>7, <2>1, <2>2
<1>10. ASSUME caller'.pc = "taken"
       PROVE  /\ oid'[caller'.oid].queue # << >>
              /\ Last(oid'[caller'.oid].queue).req = caller'.req
              /\ \A m \in LiveMessages' : m.req # caller'.req
  <2>1. CASE caller.pc = "taken"
    <3>1. caller' = caller /\ oid'[caller.oid] = oid[caller.oid]
      BY <1>10, <2>1, TakenOid
    <3>2. /\ oid[caller.oid].queue # << >>
          /\ Last(oid[caller.oid].queue).req = caller.req
          /\ \A m \in LiveMessages : m.req # caller.req
      BY <1>1, <2>1 DEF OneMessage
    <3>3. caller.req # 0
      BY <2>1 DEF Types, NdisTypes, Requests
    <3>4. \A m \in LiveMessages' : m.req # caller.req
      BY <1>10, <3>1, <3>2, <3>3, MessageFlow
    <3>5. QED
      BY <3>1, <3>2, <3>4
  <2>2. CASE caller.pc # "taken"
    <3>1. PICK s \in Services, async \in BOOLEAN, a \in Requests :
             TakeOid(s, async, a)
      BY <1>10, <2>2, CallerStays
      DEF SubmitOid, SubmitFails, SubmitReturns, Idle
    <3>. DEFINE r == Made + 1
                o == Head(OIDFreeList)
                m == [req |-> r, step |-> 1, svc |-> s]
                q == Append(oid[o].queue, m)
    <3>2. /\ r \in Requests /\ ~Started(r)
      BY <3>1, NextRequest
      DEF TakeOid, Types, Orderly, MessageTypes
    <3>3. o \in Oids
      BY <3>1, ListTail DEF TakeOid, Types, OidTypes
    <3>41. oid[o].queue \in Seq(Messages)
      BY <3>3 DEF Types, OidTypes, OidRecords
    <3>42. r \in 0..MaxRequests
      BY <3>2, BoundsAssumption DEF Requests
    <3>43. m \in Messages
      BY <3>42 DEF Messages
    <3>4. oid[o].queue \in Seq(Messages) /\ m \in Messages
      BY <3>41, <3>43
    <3>5. q # << >> /\ Last(q) = m
      BY <3>4, ListAppend
    <3>6. /\ oid' = [oid EXCEPT ![o] = [req |-> r, ref |-> a,
                                        async |-> async, queue |-> q]]
          /\ caller'.req = r /\ caller'.oid = o
          /\ UNCHANGED <<queueVars, usbVars, worker>>
      BY <3>1 DEF TakeOid
    <3>7. oid'[o].queue = q
      BY <3>3, <3>6 DEF Types, OidTypes
    <3>8. LiveMessages' = LiveMessages
      BY <3>6 DEF LiveMessages, HeldMessages, queueVars, usbVars
    <3>9. m.req = r
      OBVIOUS
    <3>. HIDE DEF r, o, m, q
    <3>10. \A n \in LiveMessages : n.req # r
      BY <1>7, <3>2 DEF Requests
    <3>11. QED
      BY <3>5, <3>6, <3>7, <3>8, <3>9, <3>10
  <2>3. QED
    BY <2>1, <2>2
<1>11. QED
  BY <1>8, <1>9, <1>10 DEF OneMessage, Same, Started


LEMMA OrderlyKept ==
    ASSUME Types, Orderly, Next, health' # "over"
    PROVE  Orderly'
BY MessageFlow, OneMessageKept, InTurnKept, ReadsCountedKept,
   WritesCountedKept, OidInListKept DEF Orderly

-----------------------------------------------------------------------------
(* The limit of the unanswered messages.  The work thread comes to an      *)
(* answer only by MPWork_ResolveRequests.                                  *)
LEMMA AnswerInHand ==
    ASSUME Types, Next
    PROVE  \/ MPWork_ResolveRequests
           \/ worker'.pc = "inbound" => /\ worker.pc = "inbound"
                                        /\ worker'.msg = worker.msg
<1>1. CASE UNCHANGED worker
  BY <1>1
<1>2. CASE WorkThread
  BY <1>2, WorkerSteps DEF WorkThread, Moved, Emptied
<1>3. QED
  BY <1>1, <1>2, WorkerStill

(* What is unanswered grows only when a message is sent, and what the      *)
(* handler has counted leaves it.                                          *)
LEMMA OutstandingFlow ==
    ASSUME Types, Orderly, Next, NEW s \in Services
    PROVE  /\ ~MP_USBSendControlRequest => Outstanding(s)' \subseteq Outstanding(s)
           /\ MP_USBSendControlRequest =>
                 Outstanding(s)' \subseteq
                    IF worker.msg.svc = s THEN Outstanding(s) \cup {worker.msg}
                                          ELSE Outstanding(s)
           /\ UNCHANGED atModem /\ MP_USBSendControlRequest =>
                 Outstanding(s)' \subseteq Outstanding(s)
           /\ MPQMI_ProcessInboundQMUX /\ worker.msg.svc = s =>
                 /\ worker.msg \in Outstanding(s)
                 /\ Outstanding(s)' \subseteq Outstanding(s) \ {worker.msg}
<1>. DEFINE A == atModem
            C == ToSet(CtrlReadCompleteList)
            H == IF worker.pc = "inbound" THEN {worker.msg} ELSE {}
<1>1. Outstanding(s) = {m \in A \cup C \cup H : m.svc = s}
  BY DEF Outstanding
<1>2. Outstanding(s)' = {m \in A' \cup C' \cup H' : m.svc = s}
  BY DEF Outstanding
<1>3. CtrlReadCompleteList \in Seq(Messages) /\ atModem \subseteq Messages
  BY DEF Types, MessageTypes
<1>4. H' \subseteq H \/ MPWork_ResolveRequests
  BY AnswerInHand
<1>5. UNCHANGED CtrlReadCompleteList => C' = C
  OBVIOUS
<1>6. MPWork_ResolveRequests => A' \cup C' \cup H' \subseteq A \cup C \cup H
  <2>1. ASSUME MPWork_ResolveRequests
        PROVE  /\ CtrlReadCompleteList # << >>
               /\ CtrlReadCompleteList' = Tail(CtrlReadCompleteList)
               /\ worker'.msg = Head(CtrlReadCompleteList)
               /\ A' = A
    BY <2>1, WorkerSteps DEF MPWork_ResolveRequests
  <2>2. ASSUME MPWork_ResolveRequests
        PROVE  C' \subseteq C /\ Head(CtrlReadCompleteList) \in C
    BY <1>3, <2>1, <2>2, ListTail
  <2>3. QED
    BY <2>1, <2>2
<1>7. ASSUME NEW m \in atModem, Answer(m)
      PROVE  A' \cup C' \cup H' \subseteq A \cup C \cup H
  <2>1. /\ A' \subseteq A /\ m \in A
        /\ \/ UNCHANGED CtrlReadCompleteList
           \/ CtrlReadCompleteList' = Append(CtrlReadCompleteList, m)
        /\ H' = H
    BY <1>7 DEF Answer
  <2>2. C' \subseteq C \cup {m}
    <3>1. m \in Messages
      BY <1>3
    <3>2. ToSet(Append(CtrlReadCompleteList, m))
             = ToSet(CtrlReadCompleteList) \cup {m}
      BY <1>3, <3>1, ListAppend
    <3>3. QED
      BY <1>5, <2>1, <3>2
  <2>3. QED
    BY <2>1, <2>2
<1>8. MPMAIN_CleanupQueues => A' \cup C' \subseteq A \cup C
  BY <1>5, ListEmpty DEF MPMAIN_CleanupQueues
<1>9. MP_USBSendControlRequest =>
         /\ C' = C /\ H' = {}
         /\ A' \subseteq A \cup {worker.msg}
  BY WorkerSteps DEF MP_USBSendControlRequest, Moved
<1>10. MPQMI_ProcessInboundQMUX =>
          /\ worker.msg \notin A \cup C
          /\ A' = A /\ C' = C /\ H' = {} /\ H = {worker.msg}
  <2>1. MPQMI_ProcessInboundQMUX =>
           /\ UNCHANGED <<atModem, CtrlReadCompleteList>>
           /\ worker.pc = "inbound" /\ worker'.pc = "find"
    BY WorkerSteps DEF MPQMI_ProcessInboundQMUX, Moved, usbVars
  <2>2. worker.pc = "inbound" => worker.msg \notin A \cup C
    BY DEF Orderly, InOnePlace, HeldMessages, WithMessage
  <2>3. QED
    BY <2>1, <2>2
<1>11. \/ UNCHANGED <<atModem, CtrlReadCompleteList>>
       \/ MP_USBSendControlRequest \/ MPWork_ResolveRequests
       \/ \E m \in atModem : Answer(m)
       \/ MPMAIN_CleanupQueues
  BY MessagesStay
  DEF MP_USBSendControl, MPMAIN_MoveQMIRequests, SubmitOid,
      MPWork_PostWriteRequests, WritesEnd, WriteDone,
      MPQMUX_ComposeQMUXReq, CleanupWrites, usbVars
<1>12. MPMAIN_CleanupQueues => ~MPWork_ResolveRequests
  BY DEF MPMAIN_CleanupQueues, MPWork_ResolveRequests
<1>. HIDE DEF A, C, H
<1>13. UNCHANGED <<atModem, CtrlReadCompleteList>> => A' = A /\ C' = C
  BY DEF A, C
<1>14. ~MP_USBSendControlRequest =>
          A' \cup C' \cup H' \subseteq A \cup C \cup H
  BY <1>4, <1>6, <1>7, <1>8, <1>11, <1>13
<1>15. UNCHANGED atModem => A' = A
  BY DEF A
<1>16. QED
  BY <1>1, <1>2, <1>9, <1>10, <1>14, <1>15

LEMMA OwedKept ==
    ASSUME Types, Orderly, Owed, Next
    PROVE  Owed'
<1>1. /\ PendingCtrlRequests \in [Services -> Int]
      /\ forgot \in [Services -> Nat]
      /\ MaxPendingQMIReqs \in Nat \ {0}
  BY LimitAssumption DEF Types, CountTypes
<1>2. /\ PendingCtrlRequests' \in [Services -> Int]
      /\ forgot' \in [Services -> Nat]
      /\ Types'
  BY TypesKept DEF Types, CountTypes
<1>3. SUFFICES ASSUME NEW s \in Services
      PROVE  /\ Cardinality(Outstanding(s)')
                   <= PendingCtrlRequests'[s] + forgot'[s]
             /\ PendingCtrlRequests'[s] <= MaxPendingQMIReqs
             /\ worker'.pc = "send" /\ worker'.msg.svc = s =>
                   PendingCtrlRequests'[s] < MaxPendingQMIReqs
  BY DEF Owed
<1>4. /\ Cardinality(Outstanding(s)) <= PendingCtrlRequests[s] + forgot[s]
      /\ PendingCtrlRequests[s] <= MaxPendingQMIReqs
      /\ worker.pc = "send" /\ worker.msg.svc = s =>
            PendingCtrlRequests[s] < MaxPendingQMIReqs
  BY DEF Owed
<1>. DEFINE O == Outstanding(s)
<1>5. /\ IsFiniteSet(O) /\ Cardinality(O) \in Nat
      /\ PendingCtrlRequests[s] \in Int /\ forgot[s] \in Nat
  BY <1>1, OutstandingFinite
<1>6. IsFiniteSet(O') /\ Cardinality(O') \in Nat
  <2>1. O' \in SUBSET (O \cup {worker.msg})
    BY OutstandingFlow
  <2>. HIDE DEF O
  <2>2. IsFiniteSet(O \cup {worker.msg})
    BY <1>5, FS_AddElement
  <2>3. QED
    BY <2>1, <2>2, FS_Subset, FS_CardinalityType
<1>7. O' \subseteq O => Cardinality(O') <= Cardinality(O)
  <2>. HIDE DEF O
  <2>1. QED
    BY <1>5, FS_Subset
<1>8. worker'.pc = "send" => \/ MPWork_PostWriteRequests
                             \/ worker.pc = "send" /\ worker'.msg = worker.msg
  <2>1. CASE UNCHANGED worker
    BY <2>1
  <2>2. CASE WorkThread
    BY <2>2, WorkerSteps DEF WorkThread, Moved, Emptied
  <2>3. QED
    BY <2>1, <2>2, WorkerStill
<1>. HIDE DEF O
<1>9. CASE DropWrites /\ ~MP_USBSendControlRequest
  BY <1>1, <1>5, <1>6, <1>7, <1>9, OutstandingFlow DEF DropWrites, O
<1>10. CASE UNCHANGED limitVars /\ ~MP_USBSendControlRequest
  <2>1. MPWork_PostWriteRequests /\ worker'.msg.svc = s =>
           PendingCtrlRequests[s] < MaxPendingQMIReqs
    BY WorkerSteps DEF MPWork_PostWriteRequests, WithinLimit
  <2>2. UNCHANGED PendingCtrlRequests /\ UNCHANGED forgot
    BY <1>10 DEF limitVars
  <2>3. O' \subseteq O
    BY <1>10, OutstandingFlow DEF O
  <2>4. QED
    BY <1>4, <1>5, <1>6, <1>7, <1>8, <2>1, <2>2, <2>3 DEF O
<1>11. CASE MP_USBSendControlRequest
  <2>1. worker.pc = "send" /\ worker'.pc = "sent" /\ worker.msg \in Messages
    BY <1>11, WorkerSteps DEF Moved, Types, WorkerTypes, WithMessage
  <2>2. worker.msg.svc \in Services
    BY <2>1 DEF Messages
  <2>3. CASE UNCHANGED <<PendingCtrlRequests, atModem>>
    <3>1. UNCHANGED forgot
      BY <1>11 DEF MP_USBSendControlRequest
    <3>2. O' \subseteq O
      BY <1>11, <2>3, OutstandingFlow DEF O
    <3>3. QED
      BY <1>4, <1>5, <1>6, <1>7, <2>1, <2>3, <3>1, <3>2 DEF O
  <2>4. CASE PendingCtrlRequests' =
                [PendingCtrlRequests EXCEPT ![worker.msg.svc] = @ + 1]
    <3>1. UNCHANGED forgot
      BY <1>11 DEF MP_USBSendControlRequest
    <3>2. CASE worker.msg.svc = s
      <4>1. O' \subseteq O \cup {worker.msg}
        BY <1>11, <3>2, OutstandingFlow DEF O
      <4>2. \A x : /\ IsFiniteSet(O \cup {x})
                   /\ Cardinality(O \cup {x}) = IF x \in O THEN Cardinality(O)
                                                ELSE Cardinality(O) + 1
        BY <1>5, FS_AddElement
      <4>3. Cardinality(O') <= Cardinality(O \cup {worker.msg})
        BY <4>1, <4>2, FS_Subset
      <4>4. PendingCtrlRequests'[s] = PendingCtrlRequests[s] + 1
        BY <1>1, <2>4, <3>2
      <4>5. Cardinality(O') <= Cardinality(O) + 1
        BY <1>5, <1>6, <4>2, <4>3
      <4>6. QED
        BY <1>1, <1>4, <1>5, <1>6, <2>1, <3>1, <3>2, <4>4, <4>5 DEF O
    <3>3. CASE worker.msg.svc # s
      <4>1. O' \subseteq O
        BY <1>11, <3>3, OutstandingFlow DEF O
      <4>2. PendingCtrlRequests'[s] = PendingCtrlRequests[s]
        BY <1>1, <2>4, <3>3
      <4>3. QED
        BY <1>4, <1>5, <1>6, <1>7, <2>1, <3>1, <4>1, <4>2 DEF O
    <3>4. QED
      BY <3>2, <3>3
  <2>5. QED
    BY <1>11, <2>3, <2>4 DEF MP_USBSendControlRequest
<1>12. CASE MPQMI_ProcessInboundQMUX
  <2>1. /\ worker.pc = "inbound" /\ worker'.pc = "find"
        /\ worker.msg \in Messages
        /\ PendingCtrlRequests' =
             [PendingCtrlRequests EXCEPT ![worker.msg.svc] = @ - 1]
        /\ UNCHANGED forgot
        /\ ~MP_USBSendControlRequest
    BY <1>12, WorkerSteps
    DEF Moved, Types, WorkerTypes, WithMessage, MPQMI_ProcessInboundQMUX,
        MP_USBSendControlRequest, Work
  <2>2. CASE worker.msg.svc = s
    <3>1. worker.msg \in O /\ O' \subseteq O \ {worker.msg}
      BY <1>12, <2>2, OutstandingFlow DEF O
    <3>2. /\ IsFiniteSet(O \ {worker.msg})
          /\ Cardinality(O \ {worker.msg}) = Cardinality(O) - 1
      BY <1>5, <3>1, FS_RemoveElement
    <3>3. Cardinality(O') <= Cardinality(O \ {worker.msg})
      BY <3>1, <3>2, FS_Subset
    <3>4. PendingCtrlRequests'[s] = PendingCtrlRequests[s] - 1
      BY <1>1, <2>1, <2>2
    <3>5. QED
      BY <1>1, <1>4, <1>5, <1>6, <2>1, <3>2, <3>3, <3>4 DEF O
  <2>3. CASE worker.msg.svc # s
    <3>1. O' \subseteq O
      BY <2>1, OutstandingFlow DEF O
    <3>2. PendingCtrlRequests'[s] = PendingCtrlRequests[s]
      BY <1>1, <2>1, <2>3
    <3>3. QED
      BY <1>4, <1>5, <1>6, <1>7, <2>1, <3>1, <3>2 DEF O
  <2>4. QED
    BY <2>2, <2>3
<1>13. \/ UNCHANGED limitVars \/ DropWrites
       \/ MP_USBSendControlRequest \/ MPQMI_ProcessInboundQMUX
  BY LimitsStay DEF CleanupWrites, MPMAIN_CleanupQueues, limitVars
<1>14. QED
  BY <1>9, <1>10, <1>11, <1>12, <1>13

-----------------------------------------------------------------------------
(* What holds as long as nothing is lost.  The OIDs in use are neither     *)
(* free nor in two hands, and the work thread has its OID of the list.     *)
LEMMA OidsInUse ==
    ASSUME Types, Orderly, health = "sound"
    PROVE  LET Free == ToSet(OIDFreeList)
               Waiting == ToSet(OIDWaitingList)
           IN  /\ Free \subseteq Oids /\ Waiting \subseteq Oids
               /\ InUse \subseteq Oids /\ Waiting \subseteq InUse
               /\ Free \cap InUse = {}
               /\ worker.pc \in WithOid => worker.oid \in Oids
               /\ worker.pc \in {"process", "unlink"} => worker.oid \in Waiting
               /\ worker.pc = "complete" => worker.oid \in InUse \ Waiting
               /\ worker.pc = "free" => worker.oid \notin Free \cup InUse
               /\ caller.pc = "taken" => caller.oid \in InUse \ Waiting
               /\ caller.pc = "taken" /\ worker.pc \in WithOid =>
                     worker.oid # caller.oid
<1>1. /\ ToSet(OIDFreeList) \subseteq Oids /\ ToSet(OIDWaitingList) \subseteq Oids
  BY ElementOfSeq, LenProperties DEF Types, OidTypes, ToSet
<1>2. /\ worker.pc \in WithOid => worker.oid \in Oids
      /\ caller.pc # "idle" => caller.oid \in Oids
  BY DEF Types, WorkerTypes, NdisTypes
<1>3. OidInList
  BY DEF Orderly
<1>4. QED
  BY <1>1, <1>2, <1>3 DEF OidInList, InUse, WithOid

LEMMA OidsCountedKept ==
    ASSUME Types, Orderly, OidsCounted, Next, health' = "sound"
    PROVE  OidsCounted'
<1>. DEFINE Failed == IF caller.pc = "failed" THEN 1 ELSE 0
<1>1. /\ nBusyOID = Cardinality(Oids) - Len(OIDFreeList) + Failed
      /\ nBusyOID \in Int /\ caller.pc \in {"idle", "taken", "failed"}
  BY DEF OidsCounted, Types, OidTypes, NdisTypes, CallerRecords
<1>2. /\ OIDFreeList \in Seq(Oids) /\ OIDWaitingList \in Seq(Oids)
      /\ Len(OIDFreeList) \in Nat /\ Len(OIDWaitingList) \in Nat
      /\ Cardinality(Oids) \in Nat
      /\ Len(OIDFreeList) <= Cardinality(Oids)
  BY ListFinite, LenProperties, FS_CardinalityType, OidsAssumption
  DEF Types, OidTypes, Orderly, OidInList
<1>3. health = "sound"
  BY HealthSteps
<1>4. SUFFICES nBusyOID' = Cardinality(Oids) - Len(OIDFreeList') + Failed'
  BY DEF OidsCounted
<1>5. ASSUME NEW s, NEW async, NEW a, TakeOid(s, async, a)
      PROVE  nBusyOID' = Cardinality(Oids) - Len(OIDFreeList') + Failed'
  <2>1. /\ caller.pc = "idle" /\ caller'.pc = "taken"
        /\ nBusyOID' = nBusyOID + 1
        /\ OIDFreeList # << >> /\ OIDFreeList' = Tail(OIDFreeList)
    BY <1>5 DEF TakeOid
  <2>2. Len(OIDFreeList') = Len(OIDFreeList) - 1
    BY <1>2, <2>1, ListTail
  <2>3. QED
    BY <1>1, <1>2, <2>1, <2>2
<1>6. CASE SubmitOid
  BY <1>1, <1>6 DEF SubmitOid, Idle
<1>7. CASE SubmitFails
  <2>1. /\ caller.pc = "taken" /\ caller'.pc = "failed" /\ UNCHANGED nBusyOID
        /\ OIDFreeList' = Append(OIDFreeList, caller.oid)
        /\ caller.oid \in Oids
    BY <1>7 DEF SubmitFails, Types, NdisTypes, CallerRecords
  <2>2. Len(OIDFreeList') = Len(OIDFreeList) + 1
    BY <1>2, <2>1, ListAppend
  <2>3. QED
    BY <1>1, <1>2, <2>1, <2>2
<1>8. CASE SubmitReturns
  BY <1>1, <1>2, <1>8 DEF SubmitReturns, Idle
<1>9. CASE UNCHANGED caller
  <2>1. CASE UNCHANGED <<OIDFreeList, nBusyOID>>
    BY <1>1, <1>9, <2>1
  <2>2. CASE MPQMI_ProcessInboundQWDSResponse
    <3>1. worker.oid \notin ToSet(OIDFreeList)
      BY <1>3, <2>2, OidsInUse DEF MPQMI_ProcessInboundQWDSResponse
    <3>2. RemoveEntryList(OIDFreeList, worker.oid) = OIDFreeList
      BY <3>1 DEF RemoveEntryList
    <3>3. UNCHANGED <<OIDFreeList, nBusyOID>>
      BY <2>2, <3>2 DEF MPQMI_ProcessInboundQWDSResponse
    <3>4. QED
      BY <1>1, <1>9, <3>3
  <2>3. CASE FreeOid
    <3>1. worker.oid \in Oids
      BY <2>3 DEF FreeOid, Work, Types, WorkerTypes, WithOid
    <3>2. /\ nBusyOID' = nBusyOID - 1
          /\ OIDFreeList' = Append(OIDFreeList, worker.oid)
      BY <2>3 DEF FreeOid
    <3>3. Len(OIDFreeList') = Len(OIDFreeList) + 1
      BY <1>2, <3>1, <3>2, ListAppend
    <3>4. QED
      BY <1>1, <1>2, <1>9, <3>2, <3>3
  <2>4. CASE WaitForEmpty
    <3>1. /\ UNCHANGED OIDFreeList
          /\ \/ nBusyOID' = nBusyOID
             \/ nBusyOID' = 0 /\ nBusyOID <= 0
      BY <2>4 DEF WaitForEmpty, QueuesAreEmpty
    <3>2. nBusyOID >= 0
      BY <1>1, <1>2
    <3>3. QED
      BY <1>1, <1>9, <3>1, <3>2
  <2>5. CASE CleanupOids
    <3>1. CASE UNCHANGED oidVars
      BY <1>1, <1>9, <3>1 DEF oidVars
    <3>2. CASE /\ OIDFreeList' = OIDFreeList \o OIDWaitingList
               /\ nBusyOID' = nBusyOID - Len(OIDWaitingList)
      <4>1. Len(OIDFreeList') = Len(OIDFreeList) + Len(OIDWaitingList)
        BY <1>2, <3>2, ListConcat
      <4>2. QED
        BY <1>1, <1>2, <1>9, <3>2, <4>1
    <3>3. QED
      BY <2>5, <3>1, <3>2 DEF CleanupOids, DropOids
  <2>6. ~SubmitOid /\ ~SubmitFails /\ ~SubmitReturns
    BY <1>9 DEF SubmitOid, SubmitFails, SubmitReturns, Idle, Types, NdisTypes,
                CallerRecords
  <2>7. \A s, async, a : ~TakeOid(s, async, a)
    BY <1>9 DEF TakeOid
  <2>8. ~MPMAIN_CleanupQueues
    BY DEF MPMAIN_CleanupQueues
  <2>9. MPQMI_FindRequest \/ MPQMUX_ComposeQMUXReq =>
           UNCHANGED <<OIDFreeList, nBusyOID>>
    BY DEF MPQMI_FindRequest, MPQMUX_ComposeQMUXReq
  <2>10. QED
    BY <2>1, <2>2, <2>3, <2>4, <2>5, <2>6, <2>7, <2>8, <2>9, OidsStay
    DEF oidVars
<1>10. QED
  BY <1>5, <1>6, <1>7, <1>8, <1>9, CallerStays

(* A step that changes no request, no OID and nothing of what the work     *)
(* thread does with one.                                                   *)
LEMMA ServedRests ==
    ASSUME Types, Served, Next, health = "sound", health' = "sound",
           UNCHANGED <<OIDFreeList, OIDWaitingList, oid, ndisVars, caller>>,
           worker'.pc \in {"process", "unlink", "complete"} =>
              /\ worker.pc = worker'.pc /\ worker'.oid = worker.oid
              /\ worker'.msg = worker.msg,
           worker.pc = "complete" => worker'.pc = "complete"
    PROVE  Served'
<1>1. UNCHANGED <<OidRequestList, ndis>>
  BY DEF ndisVars
<1>2. InUse' = InUse
  BY DEF InUse
<1>3. \A o : OidServes(o)' <=> OidServes(o)
  BY <1>1 DEF OidServes, EndedWithout
<1>4. OwnAnswer' <=> OwnAnswer
  BY <1>1 DEF OwnAnswer, EndedWithout
<1>5. /\ \A o \in InUse' : OidServes(o)'
      /\ \A o, p \in InUse' : oid'[o].req = oid'[p].req => o = p
  BY <1>2, <1>3 DEF Served
<1>6. QED
  BY <1>1, <1>2, <1>3, <1>4, <1>5 DEF Served

(* The requests and OIDs before a step, as the lemmas below use them.      *)
LEMMA ServedNow ==
    ASSUME Types, Orderly, Served, health = "sound"
    PROVE  /\ \A o \in InUse : OidServes(o)
           /\ \A o, p \in InUse : oid[o].req = oid[p].req => o = p
           /\ \A o \in ToSet(OIDFreeList) : oid[o].queue = << >>
           /\ \A r \in Requests :
                 r \in OidRequestList <=> ndis[r].state = "pending"
           /\ \A q, r \in OidRequestList : q = r
           /\ OidRequestList \subseteq Requests
           /\ \A r \in Requests : ndis[r].state = "answered" =>
                 LET q == ndis[r].by
                 IN  \/ q = r
                     \/ /\ q \in Requests /\ EndedWithout(q)
                        /\ ndis[q].addr = ndis[r].addr
           /\ \A o \in InUse : /\ oid[o].req \in Requests
                               /\ ndis[oid[o].req].state # "new"
           /\ oid \in [Oids -> OidRecords] /\ ndis \in [Requests -> RequestRecords]
<1>1. /\ oid \in [Oids -> OidRecords] /\ ndis \in [Requests -> RequestRecords]
      /\ OidRequestList \subseteq Requests
  BY DEF Types, OidTypes, NdisTypes
<1>2. OidRequestList = {r \in Requests : ndis[r].state = "pending"}
  BY DEF Served
<1>3. \A o \in InUse : OidServes(o)
  BY DEF Served
<1>4. \A o \in InUse : oid[o].req \in Requests
  BY <1>3 DEF OidServes
<1>5. \A o \in InUse : ndis[oid[o].req].state # "new"
  <2>1. \A o \in Oids : oid[o].req # 0 => Started(oid[o].req)
    BY DEF Orderly, InTurn
  <2>2. InUse \subseteq Oids
    BY OidsInUse
  <2>3. QED
    BY <1>4, <2>1, <2>2 DEF Started, Requests
<1>6. \A r \in Requests : ndis[r].state = "answered" =>
         LET q == ndis[r].by
         IN  \/ q = r
             \/ /\ q \in Requests /\ EndedWithout(q)
                /\ ndis[q].addr = ndis[r].addr
  BY DEF Served, OwnAnswer
<1>7. QED
  BY <1>1, <1>2, <1>3, <1>4, <1>5, <1>6 DEF Served

LEMMA ServedTake ==
    ASSUME Types, Orderly, Served, Next, health = "sound",
           NEW s \in Services, NEW async \in BOOLEAN, NEW a \in Requests,
           TakeOid(s, async, a)
    PROVE  Served'
<1>. DEFINE r == Made + 1
            o == Head(OIDFreeList)
            m == [req |-> r, step |-> 1, svc |-> s]
<1>1. /\ caller.pc = "idle" /\ OIDFreeList # << >>
      /\ \A q \in Requests : ndis[q].state # "pending"
      /\ sends + Made < MaxRequests
      /\ OIDFreeList' = Tail(OIDFreeList)
      /\ oid' = [oid EXCEPT ![o] = [req |-> r, ref |-> a, async |-> async,
                                    queue |-> Append(@.queue, m)]]
      /\ ndis' = [ndis EXCEPT ![r].state = "given", ![r].addr = a]
      /\ caller' = [pc |-> "taken", req |-> r, id |-> qmi # "down", oid |-> o]
      /\ UNCHANGED <<OIDWaitingList, OidRequestList, worker>>
  BY DEF TakeOid
<1>2. r \in Requests /\ ndis[r].state = "new"
  BY <1>1, NextRequest DEF Types, Orderly, MessageTypes, Started
<1>3. /\ o \in ToSet(OIDFreeList) /\ o \notin ToSet(OIDFreeList')
      /\ ToSet(OIDFreeList') \subseteq ToSet(OIDFreeList)
  BY <1>1, ListTail DEF Types, OidTypes, Orderly, OidInList
<1>. HIDE DEF r, o
<1>4. o \in Oids /\ o \notin InUse
  BY <1>3, OidsInUse
<1>5. InUse' = InUse \cup {o}
  BY <1>1 DEF InUse
<1>6. OidRequestList = {}
  BY <1>1, ServedNow
<1>7. /\ oid'[o].req = r /\ oid'[o].ref = a /\ oid'[o].async = async
      /\ oid'[o].queue = Append(oid[o].queue, m)
      /\ \A p \in Oids : p # o => oid'[p] = oid[p]
  BY <1>1, <1>4, ServedNow
<1>8. /\ ndis'[r].state = "given" /\ ndis'[r].addr = a
      /\ \A q \in Requests : q # r => ndis'[q] = ndis[q]
  BY <1>1, <1>2, ServedNow DEF RequestRecords
<1>9. \A n \in ToSet(oid'[o].queue) : n.req = r
  <2>1. oid[o].queue = << >>
    BY <1>3, ServedNow
  <2>2. oid'[o].queue = <<m>>
    BY <1>7, <2>1
  <2>3. ToSet(<<m>>) = {m}
    BY DEF ToSet
  <2>4. QED
    BY <2>2, <2>3
<1>10. \A p \in InUse : p # o /\ p \in Oids /\ oid[p].req # r
  BY <1>2, <1>4, OidsInUse, ServedNow
<1>11. ASSUME NEW p, p = o PROVE OidServes(p)'
  <2>1. a # 0
    BY DEF Requests
  <2>2. /\ oid'[p].req = r /\ oid'[p].ref = a
        /\ caller'.pc = "taken" /\ caller'.oid = p /\ caller'.req = r
        /\ \A n \in ToSet(oid'[p].queue) : n.req = r
    BY <1>1, <1>7, <1>9, <1>11
  <2>3. QED
    BY <1>2, <1>8, <2>1, <2>2 DEF OidServes
<1>12. ASSUME NEW p \in InUse PROVE OidServes(p)'
  <2>1. /\ oid'[p] = oid[p] /\ oid[p].req \in Requests /\ oid[p].req # r
    BY <1>7, <1>10, ServedNow
  <2>2. ndis'[oid[p].req] = ndis[oid[p].req]
    BY <1>8, <2>1
  <2>3. OidServes(p) /\ p # o
    BY <1>10, ServedNow
  <2>4. QED
    BY <1>1, <2>1, <2>2, <2>3 DEF OidServes, EndedWithout
<1>13. \A p, q \in InUse' : oid'[p].req = oid'[q].req => p = q
  BY <1>5, <1>7, <1>10, ServedNow
<1>14. \A p \in ToSet(OIDFreeList') : oid'[p].queue = << >>
  BY <1>3, <1>7, OidsInUse, ServedNow
<1>15. worker'.pc \in {"process", "unlink", "complete"} =>
          worker'.msg.req = oid'[worker'.oid].req
  <2>1. worker.pc \in {"process", "unlink", "complete"} =>
           worker.oid \in InUse /\ worker.msg.req = oid[worker.oid].req
    BY OidsInUse DEF Served
  <2>2. QED
    BY <1>1, <1>7, <1>10, <2>1
<1>16. OidRequestList' = {q \in Requests : ndis'[q].state = "pending"}
  BY <1>1, <1>2, <1>6, <1>8, ServedNow
<1>17. OwnAnswer'
  <2>1. ASSUME NEW q \in Requests, ndis'[q].state = "answered"
        PROVE  LET n == ndis'[q].by
               IN  \/ n = q
                   \/ /\ n \in Requests
                      /\ \/ ndis'[n].state = "aborted"
                         \/ ndis'[n].state = "answered" /\ ndis'[n].by # n
                      /\ ndis'[n].addr = ndis'[q].addr
    BY <1>2, <1>8, <2>1, ServedNow DEF EndedWithout
  <2>2. QED
    BY <2>1 DEF OwnAnswer, EndedWithout
<1>18. \A p \in InUse' : OidServes(p)'
  BY <1>5, <1>11, <1>12
<1>19. \A p, q \in OidRequestList' : p = q
  BY <1>1, <1>6
<1>20. OidRequestList' = {} /\ ndis'[caller'.req].state = "given"
  BY <1>1, <1>6, <1>8
<1>21. QED
  BY <1>13, <1>14, <1>15, <1>16, <1>17, <1>18, <1>19, <1>20 DEF Served

LEMMA ServedSubmit ==
    ASSUME Types, Orderly, Served, Next, health = "sound", SubmitOid
    PROVE  Served'
<1>. DEFINE r == caller.req
            o == caller.oid
<1>1. /\ caller.pc = "taken" /\ caller'.pc = "idle"
      /\ OIDWaitingList' = Append(OIDWaitingList, o)
      /\ ndis' = [ndis EXCEPT ![r].state =
                    IF oid[o].async THEN "later" ELSE "pending"]
      /\ OidRequestList' = IF oid[o].async THEN OidRequestList
                                           ELSE OidRequestList \cup {r}
      /\ UNCHANGED <<OIDFreeList, oid, worker>>
  BY DEF SubmitOid, Idle
<1>2. /\ r \in Requests /\ o \in InUse /\ o \in Oids
      /\ oid[o].req = r /\ OidRequestList = {} /\ ndis[r].state = "given"
  BY <1>1, OidsInUse, ServedNow
  DEF Served, OidServes, Types, NdisTypes
<1>3. ToSet(OIDWaitingList') = ToSet(OIDWaitingList) \cup {o}
  BY <1>1, <1>2, ListAppend DEF Types, OidTypes
<1>4. InUse' = InUse
  BY <1>1, <1>3 DEF InUse
<1>. HIDE DEF r, o
<1>5. /\ ndis'[r].state = IF oid[o].async THEN "later" ELSE "pending"
      /\ \A q \in Requests : ndis'[q].addr = ndis[q].addr
      /\ \A q \in Requests : q # r => ndis'[q] = ndis[q]
  BY <1>1, <1>2, ServedNow DEF RequestRecords
<1>6. ASSUME NEW p \in InUse PROVE OidServes(p)'
  <2>1. /\ oid'[p] = oid[p] /\ oid[p].req \in Requests
        /\ OidServes(p)
        /\ OidRequestList \subseteq OidRequestList'
    BY <1>1, ServedNow
  <2>2. CASE p = o
    <3>1. /\ oid[p].ref = ndis[r].addr /\ oid[p].ref # 0
          /\ \A m \in ToSet(oid[p].queue) : m.req = r
          /\ oid[p].req = r
      BY <1>2, <2>1, <2>2 DEF OidServes
    <3>2. oid[p].async => ndis'[r].state = "later"
      BY <1>5, <2>2
    <3>3. ~oid[p].async => r \in OidRequestList'
      BY <1>1, <2>2
    <3>4. QED
      BY <1>1, <1>2, <1>5, <2>1, <3>1, <3>2, <3>3 DEF OidServes
  <2>3. CASE p # o
    <3>1. oid[p].req # r
      BY <1>2, <2>3, ServedNow
    <3>2. ndis'[oid[p].req] = ndis[oid[p].req]
      BY <1>5, <2>1, <3>1
    <3>3. caller.oid # p
      BY <2>3 DEF o
    <3>4. QED
      BY <1>1, <2>1, <3>2, <3>3 DEF OidServes, EndedWithout
  <2>4. QED
    BY <2>2, <2>3
<1>7. OidRequestList' = {q \in Requests : ndis'[q].state = "pending"}
  BY <1>1, <1>2, <1>5, ServedNow
<1>8. OwnAnswer'
  <2>1. ASSUME NEW q \in Requests, ndis'[q].state = "answered"
        PROVE  LET n == ndis'[q].by
               IN  \/ n = q
                   \/ /\ n \in Requests
                      /\ \/ ndis'[n].state = "aborted"
                         \/ ndis'[n].state = "answered" /\ ndis'[n].by # n
                      /\ ndis'[n].addr = ndis'[q].addr
    BY <1>2, <1>5, <2>1, ServedNow DEF EndedWithout
  <2>2. QED
    BY <2>1 DEF OwnAnswer, EndedWithout
<1>9. \A p, q \in OidRequestList' : p = q
  BY <1>1, <1>2
<1>10. worker'.pc \in {"process", "unlink", "complete"} =>
          worker'.msg.req = oid'[worker'.oid].req
  BY <1>1 DEF Served
<1>11. \A p, q \in InUse' : oid'[p].req = oid'[q].req => p = q
  BY <1>1, <1>4, ServedNow
<1>12. \A p \in ToSet(OIDFreeList') : oid'[p].queue = << >>
  BY <1>1, ServedNow
<1>13. QED
  BY <1>1, <1>4, <1>6, <1>7, <1>8, <1>9, <1>10, <1>11, <1>12 DEF Served

LEMMA ServedFails ==
    ASSUME Types, Orderly, Served, Next, health = "sound", SubmitFails
    PROVE  Served'
<1>. DEFINE o == caller.oid
<1>1. /\ caller.pc = "taken" /\ caller'.pc = "failed"
      /\ caller'.req = caller.req
      /\ oid' = [oid EXCEPT ![o] = Unused]
      /\ OIDFreeList' = Append(OIDFreeList, o)
      /\ UNCHANGED <<OIDWaitingList, ndisVars, worker>>
  BY DEF SubmitFails, Types, NdisTypes, CallerRecords
<1>2. /\ o \in Oids /\ o \notin ToSet(OIDWaitingList)
      /\ worker.pc \in WithOid => worker.oid # o
  BY <1>1, OidsInUse
<1>3. ToSet(OIDFreeList') = ToSet(OIDFreeList) \cup {o}
  BY <1>1, <1>2, ListAppend DEF Types, OidTypes
<1>4. InUse' = InUse \ {o}
  BY <1>1, <1>2 DEF InUse, WithOid
<1>. HIDE DEF o
<1>5. /\ oid'[o] = Unused
      /\ \A p \in Oids : p # o => oid'[p] = oid[p]
  BY <1>1, <1>2, ServedNow
<1>6. ASSUME NEW p \in InUse' PROVE OidServes(p)'
  <2>1. /\ oid'[p] = oid[p] /\ OidServes(p) /\ p # caller.oid
    BY <1>4, <1>5, OidsInUse, ServedNow DEF o
  <2>2. QED
    BY <1>1, <2>1 DEF OidServes, EndedWithout, ndisVars
<1>7. \A p, q \in InUse' : oid'[p].req = oid'[q].req => p = q
  BY <1>4, <1>5, OidsInUse, ServedNow
<1>8. \A p \in ToSet(OIDFreeList') : oid'[p].queue = << >>
  BY <1>3, <1>5, OidsInUse, ServedNow DEF Unused
<1>9. worker'.pc \in {"process", "unlink", "complete"} =>
          worker'.msg.req = oid'[worker'.oid].req
  BY <1>1, <1>2, <1>5, OidsInUse DEF Served, WithOid
<1>10. OwnAnswer' <=> OwnAnswer
  BY <1>1 DEF OwnAnswer, EndedWithout, ndisVars, SubmitFails
<1>11. QED
  BY <1>1, <1>6, <1>7, <1>8, <1>9, <1>10 DEF Served, ndisVars

LEMMA ServedReturns ==
    ASSUME Types, Orderly, Served, Next, health = "sound", SubmitReturns
    PROVE  Served'
<1>. DEFINE r == caller.req
<1>1. /\ caller.pc = "failed" /\ caller'.pc = "idle"
      /\ ndis' = [ndis EXCEPT ![r].state = "failed"]
      /\ UNCHANGED <<OIDFreeList, OIDWaitingList, oid, OidRequestList, worker>>
  BY DEF SubmitReturns, Idle
<1>2. r \in Requests /\ OidRequestList = {} /\ ndis[r].state = "given"
  BY <1>1 DEF Served, Types, NdisTypes
<1>. HIDE DEF r
<1>3. /\ ndis'[r].state = "failed"
      /\ \A q \in Requests : ndis'[q].addr = ndis[q].addr
      /\ \A q \in Requests : q # r => ndis'[q] = ndis[q]
  BY <1>1, <1>2, ServedNow DEF RequestRecords
<1>4. InUse' = InUse
  BY <1>1 DEF InUse
<1>5. ASSUME NEW p \in InUse PROVE OidServes(p)'
  <2>1. oid'[p] = oid[p] /\ OidServes(p) /\ oid[p].req \in Requests
    BY <1>1, ServedNow
  <2>2. oid[p].req # r
    BY <1>1, <1>2, <2>1 DEF OidServes, EndedWithout
  <2>3. ndis'[oid[p].req] = ndis[oid[p].req]
    BY <1>3, <2>1, <2>2
  <2>4. QED
    BY <1>1, <2>1, <2>3 DEF OidServes, EndedWithout
<1>6. OidRequestList' = {q \in Requests : ndis'[q].state = "pending"}
  BY <1>1, <1>2, <1>3, ServedNow
<1>7. OwnAnswer'
  <2>1. ASSUME NEW q \in Requests, ndis'[q].state = "answered"
        PROVE  LET n == ndis'[q].by
               IN  \/ n = q
                   \/ /\ n \in Requests
                      /\ \/ ndis'[n].state = "aborted"
                         \/ ndis'[n].state = "answered" /\ ndis'[n].by # n
                      /\ ndis'[n].addr = ndis'[q].addr
    BY <1>2, <1>3, <2>1, ServedNow DEF EndedWithout
  <2>2. QED
    BY <2>1 DEF OwnAnswer, EndedWithout
<1>8. QED
  BY <1>1, <1>2, <1>4, <1>5, <1>6, <1>7 DEF Served

(* A request that is cancelled ends without an answer.                     *)
LEMMA ServedAbort ==
    ASSUME Types, Orderly, Served, Next, health = "sound",
           NEW R \in SUBSET OidRequestList, Abort(R),
           UNCHANGED <<OIDFreeList, OIDWaitingList, oid, caller, worker>>
    PROVE  Served'
<1>1. /\ OidRequestList' = OidRequestList \ R
      /\ ndis' = [q \in Requests |->
                    IF q \in R THEN [ndis[q] EXCEPT !.state = "aborted"]
                               ELSE ndis[q]]
  BY DEF Abort
<1>2. /\ \A q \in R : ndis'[q].state = "aborted"
      /\ \A q \in Requests : ndis'[q].addr = ndis[q].addr
      /\ \A q \in Requests : q \notin R => ndis'[q] = ndis[q]
      /\ \A q \in R : q \in Requests /\ ndis[q].state = "pending"
  BY <1>1, ServedNow DEF RequestRecords
<1>3. InUse' = InUse
  BY DEF InUse
<1>4. caller.pc # "idle" => R = {} /\ OidRequestList = {} /\ ndis[caller.req].state = "given"
  BY DEF Served
<1>5. ASSUME NEW p \in InUse PROVE OidServes(p)'
  <2>1. oid'[p] = oid[p] /\ OidServes(p) /\ oid[p].req \in Requests
    BY ServedNow
  <2>2. CASE oid[p].req \in R
    <3>1. ndis[oid[p].req].state = "pending" /\ ndis'[oid[p].req].state = "aborted"
      BY <1>2, <2>2
    <3>2. ~(caller.pc = "taken" /\ p = caller.oid) /\ ~oid[p].async
      BY <1>4, <2>1, <2>2, <3>1 DEF OidServes
    <3>3. QED
      BY <1>2, <2>1, <3>1, <3>2 DEF OidServes, EndedWithout
  <2>3. CASE oid[p].req \notin R
    <3>1. ndis'[oid[p].req] = ndis[oid[p].req]
      BY <1>2, <2>1, <2>3
    <3>2. QED
      BY <1>1, <2>1, <2>3, <3>1 DEF OidServes, EndedWithout
  <2>4. QED
    BY <2>2, <2>3
<1>6. OidRequestList' = {q \in Requests : ndis'[q].state = "pending"}
  BY <1>1, <1>2, ServedNow
<1>7. OwnAnswer'
  <2>1. ASSUME NEW q \in Requests, ndis'[q].state = "answered"
        PROVE  LET n == ndis'[q].by
               IN  \/ n = q
                   \/ /\ n \in Requests
                      /\ \/ ndis'[n].state = "aborted"
                         \/ ndis'[n].state = "answered" /\ ndis'[n].by # n
                      /\ ndis'[n].addr = ndis'[q].addr
    BY <1>2, <2>1, ServedNow DEF EndedWithout
  <2>2. QED
    BY <2>1 DEF OwnAnswer, EndedWithout
<1>8. \A p, q \in OidRequestList' : p = q
  BY <1>1, ServedNow
<1>9. caller'.pc # "idle" => /\ OidRequestList' = {}
                             /\ ndis'[caller'.req].state = "given"
  <2>1. caller.pc # "idle" => caller.req \in Requests
    BY DEF Types, NdisTypes
  <2>2. QED
    BY <1>1, <1>2, <1>4, <2>1
<1>10. QED
  BY <1>3, <1>5, <1>6, <1>7, <1>8, <1>9 DEF Served

(* An answer finds the OID that asked for it, and the handler may add a    *)
(* message of the same request to the OID.                                 *)
LEMMA ServedHandled ==
    ASSUME Types, Orderly, Served, Next, health = "sound",
           MPQMI_FindRequest \/ MPQMUX_ComposeQMUXReq
    PROVE  Served'
<1>0. PICK o \in ToSet(OIDWaitingList) :
         \E q :
            /\ oid' = [oid EXCEPT ![o].queue = q]
            /\ worker.pc \in {"find", "process"}
            /\ worker'.pc \in {"process", "unlink"}
            /\ worker'.oid = o /\ worker'.msg = worker.msg
            /\ worker.msg.req = oid[o].req
            /\ \A m \in ToSet(q) : m.req = oid[o].req
  <2>1. CASE MPQMI_FindRequest
    <3>1. PICK i \in DOMAIN OIDWaitingList :
             /\ worker.msg \in ToSet(oid[OIDWaitingList[i]].queue)
             /\ worker.pc = "find"
             /\ worker' = [worker EXCEPT !.pc = "process",
                                         !.oid = OIDWaitingList[i]]
             /\ oid' = [oid EXCEPT ![OIDWaitingList[i]].queue =
                          RemoveEntryList(@, worker.msg)]
      BY <2>1 DEF MPQMI_FindRequest, Asked
    <3>. DEFINE o == OIDWaitingList[i]
                q == RemoveEntryList(oid[o].queue, worker.msg)
    <3>2. o \in ToSet(OIDWaitingList) /\ o \in InUse /\ o \in Oids
      <4>1. o \in ToSet(OIDWaitingList)
        BY DEF ToSet
      <4>2. QED
        BY <4>1, OidsInUse
    <3>3. oid[o].queue \in Seq(Messages)
      BY <3>2 DEF Types, OidTypes, OidRecords
    <3>4. \A m \in ToSet(oid[o].queue) : m.req = oid[o].req
      BY <3>2, ServedNow DEF OidServes
    <3>5. ToSet(q) \subseteq ToSet(oid[o].queue)
      BY <3>3, ListRemove
    <3>6. /\ worker'.pc = "process" /\ worker'.oid = o
          /\ worker'.msg = worker.msg
      BY <3>1 DEF Types, WorkerTypes, WorkerRecords
    <3>7. oid' = [oid EXCEPT ![o].queue = q]
      BY <3>1
    <3>. HIDE DEF o, q
    <3>8. worker.msg.req = oid[o].req
      BY <3>1, <3>4 DEF o
    <3>9. \A m \in ToSet(q) : m.req = oid[o].req
      BY <3>4, <3>5
    <3>10. QED
      BY <3>1, <3>2, <3>6, <3>7, <3>8, <3>9
  <2>2. CASE MPQMUX_ComposeQMUXReq
    <3>. DEFINE o == worker.oid
                m == [worker.msg EXCEPT !.step = 2]
                q == Append(oid[o].queue, m)
    <3>1. /\ worker.pc = "process" /\ worker'.pc = "unlink"
          /\ worker'.oid = o /\ worker'.msg = worker.msg
      BY <2>2, WorkerSteps DEF Moved
    <3>2. o \in ToSet(OIDWaitingList) /\ o \in InUse /\ o \in Oids
      BY <3>1, OidsInUse
    <3>3. worker.msg \in Messages /\ worker.msg.req = oid[o].req
      BY <3>1 DEF Types, WorkerTypes, WithMessage, Served
    <3>4. m \in Messages /\ m.req = oid[o].req
      BY <3>3 DEF Messages
    <3>5. oid[o].queue \in Seq(Messages)
      BY <3>2 DEF Types, OidTypes, OidRecords
    <3>6. oid' = [oid EXCEPT ![o].queue = q]
      BY <2>2 DEF MPQMUX_ComposeQMUXReq
    <3>7. \A n \in ToSet(oid[o].queue) : n.req = oid[o].req
      BY <3>2, ServedNow DEF OidServes
    <3>. HIDE DEF m, o
    <3>8. ToSet(q) = ToSet(oid[o].queue) \cup {m}
      BY <3>4, <3>5, ListAppend
    <3>. HIDE DEF q
    <3>9. \A n \in ToSet(q) : n.req = oid[o].req
      BY <3>4, <3>7, <3>8
    <3>10. worker.msg.req = oid[o].req
      BY <3>3 DEF o
    <3>11. QED
      BY <3>1, <3>2, <3>6, <3>9, <3>10 DEF o
  <2>3. QED
    BY <2>1, <2>2
<1>1. PICK q :
         /\ oid' = [oid EXCEPT ![o].queue = q]
         /\ worker.pc \in {"find", "process"}
         /\ worker'.pc \in {"process", "unlink"}
         /\ worker'.oid = o /\ worker'.msg = worker.msg
         /\ worker.msg.req = oid[o].req
         /\ \A m \in ToSet(q) : m.req = oid[o].req
  BY <1>0
<1>2. UNCHANGED <<OIDFreeList, OIDWaitingList, ndis, OidRequestList, caller, health>>
  BY DEF MPQMI_FindRequest, MPQMUX_ComposeQMUXReq, ndisVars, lossVars
<1>3. o \in InUse /\ o \in Oids /\ o \notin ToSet(OIDFreeList)
  BY OidsInUse
<1>4. /\ oid'[o].req = oid[o].req /\ oid'[o].ref = oid[o].ref
      /\ oid'[o].async = oid[o].async /\ oid'[o].queue = q
      /\ \A p \in Oids : p # o => oid'[p] = oid[p]
  BY <1>1, <1>3, ServedNow DEF OidRecords
<1>5. InUse' = InUse
  BY <1>1, <1>2 DEF InUse
<1>6. ASSUME NEW p \in InUse PROVE OidServes(p)'
  <2>1. OidServes(p) /\ p \in Oids
    BY OidsInUse, ServedNow
  <2>2. CASE p = o
    BY <1>1, <1>2, <1>4, <2>1, <2>2 DEF OidServes, EndedWithout
  <2>3. CASE p # o
    BY <1>2, <1>4, <2>1, <2>3 DEF OidServes, EndedWithout
  <2>4. QED
    BY <2>2, <2>3
<1>7. \A p, r \in InUse' : oid'[p].req = oid'[r].req => p = r
  <2>1. \A p \in InUse : oid'[p].req = oid[p].req
    BY <1>4, OidsInUse
  <2>2. QED
    BY <1>5, <2>1, ServedNow
<1>8. \A p \in ToSet(OIDFreeList') : oid'[p].queue = << >>
  BY <1>2, <1>3, <1>4, OidsInUse, ServedNow
<1>9. worker'.msg.req = oid'[worker'.oid].req
  BY <1>1, <1>4
<1>10. OwnAnswer' <=> OwnAnswer
  BY <1>2 DEF OwnAnswer, EndedWithout
<1>11. QED
  BY <1>2, <1>5, <1>6, <1>7, <1>8, <1>9, <1>10 DEF Served

LEMMA ServedUnlink ==
    ASSUME Types, Orderly, Served, Next, health = "sound",
           MPQMI_ProcessInboundQWDSResponse
    PROVE  Served'
<1>. DEFINE o == worker.oid
<1>1. /\ worker.pc \in {"process", "unlink"} /\ worker'.oid = worker.oid
      /\ worker'.msg = worker.msg
      /\ worker'.pc \in {"repost", "complete"}
  BY WorkerSteps DEF Moved
<1>2. /\ o \in ToSet(OIDWaitingList) /\ o \in Oids
      /\ o \notin ToSet(OIDFreeList)
  BY <1>1, OidsInUse DEF WithOid
<1>3. UNCHANGED <<OIDFreeList, oid, ndisVars, caller>>
  BY <1>2 DEF MPQMI_ProcessInboundQWDSResponse, RemoveEntryList
<1>4. /\ worker'.pc = "repost" => UNCHANGED OIDWaitingList
      /\ worker'.pc = "complete" =>
            OIDWaitingList' = RemoveEntryList(OIDWaitingList, o)
  BY <1>1 DEF MPQMI_ProcessInboundQWDSResponse, Types, WorkerTypes, WorkerRecords
<1>5. worker'.pc = "complete" =>
         ToSet(OIDWaitingList') = ToSet(OIDWaitingList) \ {o}
  BY <1>4, ListRemove DEF Types, OidTypes, Orderly, OidInList
<1>6. InUse' = InUse
  <2>1. CASE worker'.pc = "repost"
    BY <1>1, <1>3, <1>4, <2>1 DEF InUse
  <2>2. CASE worker'.pc = "complete"
    BY <1>1, <1>2, <1>3, <1>5, <2>2 DEF InUse
  <2>3. QED
    BY <1>1, <2>1, <2>2
<1>7. \A p : OidServes(p)' <=> OidServes(p)
  BY <1>3 DEF OidServes, EndedWithout, ndisVars
<1>8. OwnAnswer'
  BY <1>3 DEF OwnAnswer, EndedWithout, ndisVars, Served
<1>9. worker'.pc = "complete" => worker'.msg.req = oid'[worker'.oid].req
  BY <1>1, <1>3 DEF Served
<1>10. /\ \A p \in InUse' : OidServes(p)'
       /\ \A p, q \in InUse' : oid'[p].req = oid'[q].req => p = q
  BY <1>3, <1>6, <1>7, ServedNow
<1>11. QED
  BY <1>1, <1>3, <1>8, <1>9, <1>10 DEF Served, ndisVars

(* The OID is free again, after its request has got the answer.            *)
LEMMA ServedFree ==
    ASSUME Types, Orderly, Served, Next, health = "sound", FreeOid
    PROVE  Served'
<1>. DEFINE o == worker.oid
<1>1. /\ worker.pc = "free" /\ worker'.pc = "repost"
      /\ oid' = [oid EXCEPT ![o] = Unused]
      /\ OIDFreeList' = Append(OIDFreeList, o)
      /\ UNCHANGED <<OIDWaitingList, ndisVars, caller, health>>
  BY WorkerSteps DEF FreeOid, Moved, lossVars
<1>2. /\ o \in Oids /\ o \notin InUse
  BY <1>1, OidsInUse DEF WithOid
<1>3. ToSet(OIDFreeList') = ToSet(OIDFreeList) \cup {o}
  BY <1>1, <1>2, ListAppend DEF Types, OidTypes
<1>4. InUse' = InUse
  BY <1>1 DEF InUse
<1>. HIDE DEF o
<1>5. /\ oid'[o] = Unused
      /\ \A p \in Oids : p # o => oid'[p] = oid[p]
  BY <1>1, <1>2, ServedNow
<1>6. \A p \in InUse : p \in Oids /\ p # o /\ oid'[p] = oid[p]
  BY <1>2, <1>5, OidsInUse
<1>7. ASSUME NEW p \in InUse PROVE OidServes(p)'
  <2>1. oid'[p] = oid[p] /\ OidServes(p)
    BY <1>6, ServedNow
  <2>2. QED
    BY <1>1, <2>1 DEF OidServes, EndedWithout, ndisVars
<1>8. \A p, q \in InUse' : oid'[p].req = oid'[q].req => p = q
  BY <1>4, <1>6, ServedNow
<1>9. \A p \in ToSet(OIDFreeList') : oid'[p].queue = << >>
  BY <1>3, <1>5, OidsInUse, ServedNow DEF Unused
<1>10. OwnAnswer' <=> OwnAnswer
  BY <1>1 DEF OwnAnswer, EndedWithout, ndisVars
<1>11. QED
  BY <1>1, <1>4, <1>7, <1>8, <1>9, <1>10 DEF Served, ndisVars

(* A reset takes the waiting OIDs back.                                    *)
LEMMA ServedCleanup ==
    ASSUME Types, Orderly, Served, Next, health = "sound",
           health' = "sound", CleanupOids
    PROVE  Served'
<1>1. UNCHANGED <<ndisVars, caller, worker>>
  BY DEF CleanupOids
<1>2. CASE UNCHANGED oidVars
  <2>1. UNCHANGED <<OIDFreeList, OIDWaitingList, oid>>
    BY <1>2 DEF oidVars
  <2>2. QED
    BY <1>1, <2>1, ServedRests
<1>3. CASE DropOids /\ ~InHand
  <2>1. /\ OIDFreeList' = OIDFreeList \o OIDWaitingList
        /\ OIDWaitingList' = << >>
    BY <1>3 DEF DropOids
  <2>2. /\ ToSet(OIDFreeList') = ToSet(OIDFreeList) \cup ToSet(OIDWaitingList)
        /\ ToSet(OIDWaitingList') = {}
    BY <2>1, ListConcat, ListEmpty DEF Types, OidTypes
  <2>3. \A p \in Oids : oid'[p] = IF p \in ToSet(OIDWaitingList)
                                  THEN [Unused EXCEPT !.async = oid[p].async]
                                  ELSE oid[p]
    BY <1>3 DEF DropOids
  <2>4. worker.pc \notin {"process", "unlink"}
    BY <1>3, OidsInUse DEF InHand
  <2>5. InUse' = InUse \ ToSet(OIDWaitingList)
    BY <1>1, <2>2, OidsInUse DEF InUse
  <2>6. \A p \in InUse' : p \in InUse /\ oid'[p] = oid[p]
    BY <2>3, <2>5, OidsInUse
  <2>7. ASSUME NEW p \in InUse' PROVE OidServes(p)'
    <3>1. oid'[p] = oid[p] /\ OidServes(p)
      BY <2>6, ServedNow
    <3>2. QED
      BY <1>1, <3>1 DEF OidServes, EndedWithout, ndisVars
  <2>8. \A p, q \in InUse' : oid'[p].req = oid'[q].req => p = q
    BY <2>6, ServedNow
  <2>9. \A p \in ToSet(OIDFreeList') : oid'[p].queue = << >>
    <3>1. \A p \in Oids : p \in ToSet(OIDWaitingList) => oid'[p].queue = << >>
      BY <2>3 DEF Unused
    <3>2. \A p \in Oids : p \in ToSet(OIDFreeList) => oid'[p].queue = << >>
      BY <2>3, <3>1, ServedNow
    <3>3. QED
      BY <2>2, <3>1, <3>2, OidsInUse
  <2>10. worker'.pc \in {"process", "unlink", "complete"} =>
            worker'.msg.req = oid'[worker'.oid].req
    BY <1>1, <2>3, <2>4, OidsInUse DEF Served
  <2>11. OwnAnswer'
    BY <1>1 DEF OwnAnswer, EndedWithout, ndisVars, Served
  <2>12. QED
    BY <1>1, <2>7, <2>8, <2>9, <2>10, <2>11 DEF Served, ndisVars
<1>4. QED
  BY <1>2, <1>3 DEF CleanupOids, Lossy

(* The answer completes the requests that have the address of the OID's:   *)
(* the own one, or the one that pends after that has ended.                *)
LEMMA ServedComplete ==
    ASSUME Types, Orderly, Served, Next, health = "sound", MPOID_CompleteOid
    PROVE  Served'
<1>. DEFINE o == worker.oid
            q == oid[o].req
            R == IF oid[o].async THEN {oid[o].req} \cap Requests
                                 ELSE Matches(o)
<1>1. /\ worker.pc = "complete" /\ worker'.pc = "free"
      /\ UNCHANGED <<OIDFreeList, OIDWaitingList, oid, caller, health>>
      /\ worker.msg.req = q
  BY WorkerSteps DEF MPOID_CompleteOid, Moved, oidVars, lossVars, Served
<1>2. /\ o \in InUse /\ o \in Oids /\ o \notin ToSet(OIDWaitingList)
      /\ caller.pc = "taken" => caller.oid # o
      /\ OidServes(o) /\ q \in Requests /\ oid[o].ref # 0
      /\ oid[o].ref = ndis[q].addr
  BY <1>1, OidsInUse, ServedNow DEF WithOid, OidServes
<1>3. InUse' = InUse \ {o}
  BY <1>1, <1>2 DEF InUse
<1>4. /\ ndis' = [r \in Requests |->
                    IF r \in R THEN [ndis[r] EXCEPT !.state = "answered", !.by = q]
                               ELSE ndis[r]]
      /\ OidRequestList' = OidRequestList \ R \/ oid[o].async
      /\ oid[o].async => OidRequestList' = OidRequestList
  BY <1>1, <1>2 DEF MPOID_CompleteOid, Complete
<1>5. R \subseteq Requests
  BY ServedNow DEF Matches
<1>6. oid[o].async => R = {q} /\ ndis[q].state = "later"
  BY <1>2 DEF OidServes
<1>7. ~oid[o].async =>
         /\ R = {r \in OidRequestList : ndis[r].addr = oid[o].ref}
         /\ q \in OidRequestList \/ EndedWithout(q)
  BY <1>2 DEF OidServes, Matches
<1>. HIDE DEF R, q, o
<1>8. /\ \A r \in R : ndis'[r].state = "answered" /\ ndis'[r].by = q
      /\ \A r \in Requests : ndis'[r].addr = ndis[r].addr
      /\ \A r \in Requests : r \notin R => ndis'[r] = ndis[r]
  <2>1. \A r \in Requests :
           /\ r \in R => ndis'[r] = [ndis[r] EXCEPT !.state = "answered", !.by = q]
           /\ r \notin R => ndis'[r] = ndis[r]
    BY <1>4
  <2>2. \A r \in Requests : ndis[r] \in RequestRecords
    BY ServedNow
  <2>3. ASSUME NEW r \in Requests, r \in R
        PROVE  /\ ndis'[r].state = "answered" /\ ndis'[r].by = q
               /\ ndis'[r].addr = ndis[r].addr
    BY <2>1, <2>2, <2>3 DEF RequestRecords
  <2>4. QED
    BY <1>5, <2>1, <2>3
<1>9. \A r \in R : ndis[r].state \in {"later", "pending"}
  BY <1>6, <1>7, ServedNow
<1>10. OidRequestList' = OidRequestList \ R
  BY <1>4, <1>6, ServedNow
<1>11. ASSUME NEW p \in InUse' PROVE OidServes(p)'
  <2>1. /\ oid'[p] = oid[p] /\ OidServes(p) /\ oid[p].req \in Requests
        /\ p # o /\ p \in InUse
    BY <1>1, <1>3, ServedNow
  <2>2. oid[p].req # q
    BY <1>2, <2>1, ServedNow DEF q
  <2>3. CASE oid[p].req \in R
    <3>1. ndis[oid[p].req].state = "pending" /\ oid[p].req \in OidRequestList
      BY <1>6, <1>7, <2>2, <2>3, ServedNow
    <3>2. ~(caller.pc = "taken" /\ p = caller.oid) /\ ~oid[p].async
      BY <2>1, <3>1 DEF OidServes, Served
    <3>3. ndis'[oid[p].req].state = "answered" /\ ndis'[oid[p].req].by # oid[p].req
      BY <1>8, <2>2, <2>3
    <3>4. QED
      BY <1>1, <1>8, <2>1, <3>2, <3>3 DEF OidServes, EndedWithout
  <2>4. CASE oid[p].req \notin R
    <3>1. ndis'[oid[p].req] = ndis[oid[p].req]
      BY <1>8, <2>1, <2>4
    <3>2. QED
      BY <1>1, <1>10, <2>1, <2>4, <3>1 DEF OidServes, EndedWithout
  <2>5. QED
    BY <2>3, <2>4
<1>12. OidRequestList' = {r \in Requests : ndis'[r].state = "pending"}
  BY <1>5, <1>8, <1>10, ServedNow
<1>13. OwnAnswer'
  <2>1. ASSUME NEW r \in Requests, ndis'[r].state = "answered"
        PROVE  LET n == ndis'[r].by
               IN  \/ n = r
                   \/ /\ n \in Requests
                      /\ \/ ndis'[n].state = "aborted"
                         \/ ndis'[n].state = "answered" /\ ndis'[n].by # n
                      /\ ndis'[n].addr = ndis'[r].addr
    <3>1. CASE r \in R
      <4>1. ndis'[r].by = q
        BY <1>8, <3>1
      <4>2. CASE oid[o].async
        BY <1>6, <3>1, <4>1, <4>2
      <4>3. CASE ~oid[o].async
        <5>1. /\ r \in OidRequestList /\ ndis[r].addr = oid[o].ref
              /\ q \in OidRequestList \/ EndedWithout(q)
          BY <1>7, <3>1, <4>3
        <5>2. CASE q \in OidRequestList
          BY <4>1, <5>1, <5>2, ServedNow
        <5>3. CASE EndedWithout(q) /\ q \notin OidRequestList
          <6>1. q \notin R
            BY <1>7, <4>3, <5>3
          <6>2. ndis'[q] = ndis[q] /\ ndis'[r].addr = ndis[r].addr
            BY <1>2, <1>8, <6>1 DEF q
          <6>3. q \in Requests /\ ndis[q].addr = ndis[r].addr
            BY <1>2, <5>1 DEF q
          <6>4. QED
            BY <4>1, <5>3, <6>2, <6>3 DEF EndedWithout
        <5>4. QED
          BY <5>1, <5>2, <5>3
      <4>4. QED
        BY <4>2, <4>3
    <3>2. CASE r \notin R
      <4>1. ndis'[r] = ndis[r] /\ ndis[r].state = "answered"
        BY <1>8, <2>1, <3>2
      <4>. DEFINE n == ndis[r].by
      <4>2. CASE n = r
        BY <4>1, <4>2
      <4>3. CASE n \in Requests /\ EndedWithout(n) /\ ndis[n].addr = ndis[r].addr
        <5>1. n \notin R
          BY <1>9, <4>3 DEF EndedWithout
        <5>2. ndis'[n] = ndis[n]
          BY <1>8, <4>3, <5>1
        <5>3. QED
          BY <4>1, <4>3, <5>2 DEF EndedWithout
      <4>4. QED
        BY <4>1, <4>2, <4>3, ServedNow
    <3>3. QED
      BY <3>1, <3>2
  <2>2. QED
    BY <2>1 DEF OwnAnswer, EndedWithout
<1>14. \A p, r \in InUse' : oid'[p].req = oid'[r].req => p = r
  BY <1>1, <1>3, ServedNow
<1>15. \A p \in ToSet(OIDFreeList') : oid'[p].queue = << >>
  BY <1>1, ServedNow
<1>16. \A p, r \in OidRequestList' : p = r
  BY <1>10, ServedNow
<1>17. caller'.pc # "idle" => /\ OidRequestList' = {}
                              /\ ndis'[caller'.req].state = "given"
  <2>1. caller.pc # "idle" =>
           /\ caller.req \in Requests /\ OidRequestList = {}
           /\ ndis[caller.req].state = "given"
    BY DEF Types, NdisTypes, Served
  <2>2. QED
    BY <1>1, <1>8, <1>9, <1>10, <2>1
<1>18. QED
  BY <1>1, <1>11, <1>12, <1>13, <1>14, <1>15, <1>16, <1>17 DEF Served

(* What the work thread has in hand at the steps that matter to Served.    *)
LEMMA HandStays ==
    ASSUME Types, Next
    PROVE  \/ MPQMI_FindRequest \/ MPQMUX_ComposeQMUXReq
           \/ MPQMI_ProcessInboundQWDSResponse \/ MPOID_CompleteOid
           \/ /\ worker'.pc \in {"process", "unlink", "complete"} =>
                    /\ worker.pc = worker'.pc /\ worker'.oid = worker.oid
                    /\ worker'.msg = worker.msg
              /\ worker.pc = "complete" => worker'.pc = "complete"
<1>1. CASE UNCHANGED worker
  BY <1>1
<1>2. CASE WorkThread
  BY <1>2, WorkerSteps DEF WorkThread, Moved, Emptied
<1>3. QED
  BY <1>1, <1>2, WorkerStill

LEMMA ServedKept ==
    ASSUME Types, Orderly, Served, Next, health' = "sound"
    PROVE  Served'
<1>1. health = "sound"
  BY HealthSteps
<1>. USE <1>1
<1>2. CASE \E s \in Services, async \in BOOLEAN, a \in Requests :
              TakeOid(s, async, a)
  BY <1>2, ServedTake
<1>3. CASE SubmitOid
  BY <1>3, ServedSubmit
<1>4. CASE SubmitFails
  BY <1>4, ServedFails
<1>5. CASE SubmitReturns
  BY <1>5, ServedReturns
<1>6. CASE MPQMI_FindRequest \/ MPQMUX_ComposeQMUXReq
  BY <1>6, ServedHandled
<1>7. CASE MPQMI_ProcessInboundQWDSResponse
  BY <1>7, ServedUnlink
<1>8. CASE MPOID_CompleteOid
  BY <1>8, ServedComplete
<1>9. CASE FreeOid
  BY <1>9, ServedFree
<1>10. CASE CleanupOids
  BY <1>10, ServedCleanup
<1>11. ASSUME NEW R \in SUBSET OidRequestList, Abort(R),
              UNCHANGED <<oidVars, caller, worker>>
       PROVE  Served'
  <2>1. UNCHANGED <<OIDFreeList, OIDWaitingList, oid, caller, worker>>
    BY <1>11 DEF oidVars
  <2>2. QED
    BY <1>11, <2>1, ServedAbort
<1>12. CASE /\ UNCHANGED <<OIDFreeList, OIDWaitingList, oid, caller>>
            /\ UNCHANGED <<OidRequestList, ndis>>
            /\ ~MPQMI_FindRequest /\ ~MPQMUX_ComposeQMUXReq
            /\ ~MPQMI_ProcessInboundQWDSResponse /\ ~MPOID_CompleteOid
  <2>1. UNCHANGED <<OIDFreeList, OIDWaitingList, oid, ndisVars, caller>>
    BY <1>12 DEF ndisVars
  <2>2. QED
    BY <1>12, <2>1, HandStays, ServedRests
<1>13. ~MPMAIN_CleanupQueues
  BY DEF MPMAIN_CleanupQueues
<1>14. WaitForEmpty => UNCHANGED <<OIDFreeList, OIDWaitingList, oid>>
  BY DEF WaitForEmpty
<1>15. UNCHANGED oidVars => UNCHANGED <<OIDFreeList, OIDWaitingList, oid>>
  BY DEF oidVars
<1>16. QED
  BY <1>2, <1>3, <1>4, <1>5, <1>6, <1>7, <1>8, <1>9, <1>10, <1>11, <1>12,
     <1>13, <1>14, <1>15, OidsStay, CallerStays, RequestsStay

-----------------------------------------------------------------------------
(* The free list at the start has every OID once.                          *)
LEMMA FreeAtFirst ==
    LET s == SetToSeq(Oids)
    IN  /\ s \in Seq(Oids) /\ Len(s) = Cardinality(Oids)
        /\ IsInjective(s)
<1>. DEFINE n == Cardinality(Oids)
            s == SetToSeq(Oids)
<1>1. n \in Nat /\ ExistsBijection(1..n, Oids)
  BY OidsAssumption, FS_CardinalityType
<1>2. \E f \in [1..n -> Oids] : IsInjective(f)
  BY <1>1 DEF ExistsBijection, Bijection, Injection, IsInjective
<1>3. s \in [1..n -> Oids] /\ IsInjective(s)
  BY <1>2 DEF SetToSeq
<1>. HIDE DEF s, n
<1>4. s \in Seq(Oids) /\ Len(s) = n
  <2>1. s \in Seq(Oids)
    BY <1>1, <1>3, IsASeq
  <2>2. DOMAIN s = 1..Len(s) /\ Len(s) \in Nat /\ DOMAIN s = 1..n
    BY <1>3, <2>1, LenProperties
  <2>3. \A i : i \in 1..Len(s) <=> i \in 1..n
    BY <2>2
  <2>4. /\ Len(s) = 0 \/ Len(s) \in 1..Len(s)
        /\ n = 0 \/ n \in 1..n
    BY <1>1, <2>2
  <2>5. Len(s) <= n /\ n <= Len(s)
    BY <1>1, <2>2, <2>3, <2>4
  <2>6. \A l \in Nat : l <= n /\ n <= l => l = n
    BY <1>1
  <2>7. Len(s) = n
    BY <2>2, <2>5, <2>6
  <2>8. QED
    BY <2>1, <2>7
<1>5. QED
  BY <1>3, <1>4 DEF s, n

LEMMA InitTypes ==
    ASSUME Init
    PROVE  Types
<1>. USE DEF Init
<1>1. OidTypes
  <2>1. Unused \in OidRecords
    BY BoundsAssumption, ListEmpty DEF Unused, OidRecords
  <2>2. QED
    BY <2>1, FreeAtFirst, ListEmpty DEF OidTypes
<1>2. NdisTypes
  BY BoundsAssumption
  DEF NdisTypes, Idle, CallerRecords, RequestRecords, Requests
<1>3. MessageTypes
  BY ListEmpty, FS_EmptySet DEF MessageTypes
<1>4. CountTypes
  BY LimitAssumption DEF CountTypes, ReadRecords
<1>5. WorkerTypes
  BY DEF WorkerTypes, WorkerRecords, Steps, WithMessage, WithOid
<1>6. ResetTypes
  BY DEF ResetTypes, ResetRecords
<1>7. QED
  BY <1>1, <1>2, <1>3, <1>4, <1>5, <1>6 DEF Types

LEMMA InitInvariant ==
    ASSUME Init
    PROVE  Invariant
<1>1. Types
  BY InitTypes
<1>2. /\ ToSet(CtrlWriteList) = {} /\ ToSet(CtrlWritePendingList) = {}
      /\ ToSet(CtrlReadCompleteList) = {} /\ ToSet(OIDWaitingList) = {}
      /\ atModem = {} /\ worker.pc = "wait" /\ caller.pc = "idle"
      /\ Len(CtrlWriteList) = 0 /\ Len(CtrlWritePendingList) = 0
      /\ Len(CtrlReadCompleteList) = 0
      /\ OidRequestList = {} /\ health = "sound"
  BY ListEmpty DEF Init, Idle
<1>3. /\ IsInjective(CtrlWriteList) /\ IsInjective(CtrlWritePendingList)
      /\ IsInjective(CtrlReadCompleteList) /\ IsInjective(OIDWaitingList)
      /\ IsInjective(OIDFreeList) /\ Len(OIDFreeList) = Cardinality(Oids)
  BY ListEmpty, FreeAtFirst DEF Init
<1>4. Owed
  <2>1. \A s \in Services : Outstanding(s) = {}
    BY <1>2 DEF Outstanding
  <2>2. ASSUME NEW s \in Services
        PROVE  /\ Cardinality(Outstanding(s)) = 0
               /\ PendingCtrlRequests[s] = 0 /\ forgot[s] = 0
    <3>1. Cardinality(Outstanding(s)) = 0
      BY <2>1, FS_EmptySet
    <3>2. PendingCtrlRequests[s] = 0 /\ forgot[s] = 0
      BY DEF Init
    <3>3. QED
      BY <3>1, <3>2
  <2>3. QED
    BY <1>2, <2>2, LimitAssumption DEF Owed
<1>5. InOnePlace /\ OneMessage
  BY <1>2, <1>3
  DEF InOnePlace, OneMessage, LiveMessages, HeldMessages, WithMessage
<1>6. InTurn
  <2>1. 0 \in 0..MaxRequests /\ \A r \in Requests : Started(r) <=> r <= 0
    BY BoundsAssumption DEF Init, Started, Requests
  <2>2. \A o \in Oids : oid[o].req = 0
    BY DEF Init, Unused
  <2>3. QED
    BY <1>2, <2>1, <2>2 DEF InTurn
<1>7. ReadsCounted /\ WritesCounted
  BY <1>2 DEF Init, ReadsCounted, WritesCounted, WithRead
<1>8. OidInList
  BY <1>2, <1>3 DEF OidInList
<1>9. OidsCounted
  BY <1>2, <1>3, OidsAssumption, FS_CardinalityType DEF Init, OidsCounted
<1>10. Served
  <2>1. InUse = {}
    BY <1>2 DEF InUse
  <2>2. \A o \in ToSet(OIDFreeList) : oid[o].queue = << >>
    <3>1. ToSet(OIDFreeList) \subseteq Oids
      BY FreeAtFirst, ElementOfSeq, LenProperties DEF Init, ToSet
    <3>2. QED
      BY <3>1 DEF Init, Unused
  <2>3. OwnAnswer /\ OidRequestList = {r \in Requests : ndis[r].state = "pending"}
    BY DEF Init, OwnAnswer
  <2>4. QED
    BY <1>2, <2>1, <2>2, <2>3 DEF Served
<1>11. QED
  BY <1>1, <1>2, <1>4, <1>5, <1>6, <1>7, <1>8, <1>9, <1>10
  DEF Invariant, Orderly

LEMMA InvariantKept ==
    ASSUME Invariant, Next
    PROVE  Invariant'
<1>1. Types /\ Owed /\ health # "over" /\ Orderly
  BY DEF Invariant, Next
<1>2. health' = "sound" => health = "sound" /\ OidsCounted /\ Served
  BY <1>1, HealthSteps DEF Invariant
<1>3. Types' /\ Owed'
  BY <1>1, TypesKept, OwedKept
<1>4. health' # "over" => Orderly'
  BY <1>1, OrderlyKept
<1>5. health' = "sound" => OidsCounted' /\ Served'
  BY <1>1, <1>2, OidsCountedKept, ServedKept
<1>6. QED
  BY <1>3, <1>4, <1>5 DEF Invariant

(* The lists, the counters, the requests, the messages and the owner of    *)
(* every OID in all states that NDIS, the work thread, the USB layer and   *)
(* the timer DPC of the reset can reach, however their critical sections   *)
(* interleave.                                                             *)
THEOREM InvariantHolds == Spec => []Invariant
<1>1. Init => Invariant
  BY InitInvariant
<1>2. Invariant /\ [Next]_vars => Invariant'
  <2>1. ASSUME Invariant, UNCHANGED vars PROVE Invariant'
    <3>1. Types' /\ Owed'
      BY <2>1
      DEF Invariant, vars, oidVars, ndisVars, queueVars, limitVars, usbVars,
          resetVars, lossVars, Types, OidTypes, NdisTypes, MessageTypes,
          CountTypes, WorkerTypes, ResetTypes, Owed, Outstanding
    <3>2. Orderly' <=> Orderly
      BY <2>1
      DEF vars, oidVars, ndisVars, queueVars, limitVars, usbVars,
          resetVars, lossVars, Orderly, InOnePlace, OneMessage, InTurn,
          ReadsCounted, WritesCounted, OidInList, LiveMessages, HeldMessages,
          Started
    <3>3. (OidsCounted' <=> OidsCounted) /\ (Served' <=> Served)
      BY <2>1
      DEF vars, oidVars, ndisVars, queueVars, limitVars, usbVars,
          resetVars, lossVars, OidsCounted, Served, InUse, OidServes,
          EndedWithout, OwnAnswer
    <3>4. UNCHANGED health
      BY <2>1 DEF vars, lossVars
    <3>5. QED
      BY <2>1, <3>1, <3>2, <3>3, <3>4 DEF Invariant
  <2>2. QED
    BY <2>1, InvariantKept
<1>3. QED
  BY <1>1, <1>2, PTL DEF Spec

(* MP_USBSendControlRequest and the check of MPWork_PostWriteRequests keep *)
(* the messages that a service has not answered below MaxPendingQMIReqs,   *)
(* plus those that a reset forgot (MPMain.c:1030).                         *)
THEOREM LimitKeptAlways == Spec => []LimitKept
<1>1. Invariant => LimitKept
  <2>. SUFFICES ASSUME Types, Owed PROVE LimitKept
    BY DEF Invariant
  <2>2. ASSUME NEW s \in Services
        PROVE  Cardinality(Outstanding(s)) <= MaxPendingQMIReqs + forgot[s]
    <3>1. /\ Cardinality(Outstanding(s)) \in Nat
          /\ PendingCtrlRequests[s] \in Int /\ forgot[s] \in Nat
      BY OutstandingFinite DEF Types, CountTypes
    <3>2. /\ Cardinality(Outstanding(s)) <= PendingCtrlRequests[s] + forgot[s]
          /\ PendingCtrlRequests[s] <= MaxPendingQMIReqs
      BY DEF Owed
    <3>3. QED
      BY <3>1, <3>2, LimitAssumption
  <2>3. QED
    BY <2>2 DEF LimitKept
<1>2. QED
  BY <1>1, InvariantHolds, PTL

(* nBusyOID, nBusyWrite and nBusyRCtrl, which QueuesAreEmpty reads without *)
(* the locks they are changed under, count the elements that are out.      *)
THEOREM CountsAgreeAlways == Spec => []CountsAgree
<1>1. Invariant => CountsAgree
  BY DEF Invariant, Orderly, ReadsCounted, WritesCounted, OidsCounted,
         CountsAgree, WithRead
<1>2. QED
  BY <1>1, InvariantHolds, PTL

(* MPOID_FindAndCompleteOidRequest completes a request with the answer to  *)
(* a message of its own, or of one with its address that ended without.    *)
THEOREM OwnAnswerAlways == Spec => []OwnAnswer
<1>1. Invariant => OwnAnswer
  BY DEF Invariant, Served, OwnAnswer
<1>2. QED
  BY <1>1, InvariantHolds, PTL

=============================================================================
